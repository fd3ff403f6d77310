SPECIFICATION Spec
CONSTANTS
    Names <- MCNames
    Rows = {"row", "lost"}
    aggregateType <- MCotherService
    Publishers = {"sns"}
    PageSize = 1
    MaxChanges = 2
CHECK_DEADLOCK FALSE
PROPERTIES
    UnresolvableCostsNoAttempt
