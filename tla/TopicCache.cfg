SPECIFICATION FairSpec
CONSTANTS
    Names <- MCNames
    Rows = {"row", "lost"}
    aggregateType <- MCaggregateType
    Publishers = {"sns"}
    PageSize = 1
    MaxChanges = 1
INVARIANTS
    TypeOK
    FreshAfterFetch
    FoundStaysResolvable
PROPERTIES
    CatchesUp
CHECK_DEADLOCK FALSE
