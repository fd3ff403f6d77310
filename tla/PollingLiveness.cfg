SPECIFICATION FairSpec
CONSTANTS
    Workers = {w1}
    Ids = {2, 3}
    aggregateType <- MCaggregateType
    aggregateId <- MCaggregateId
    NoGroup = "none"
    Filtered = {}
    Unresolved = {}
    MaxRetryCount = 2
    FindEventLimit = 1
    RetryBackOff = 500
    MaxStarts = 2
INVARIANTS
    BatchBound
PROPERTIES
    EventuallySettled
    CancelledStops
