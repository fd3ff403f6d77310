SPECIFICATION ASpec
CONSTANTS
    Workers = {w1, w2}
    Ids = {1, 2}
    aggregateType <- MCaggregateType
    aggregateId <- MCOneGroup
    NoGroup = "none"
    Filtered = {}
    Unresolved = {2}
    MaxRetryCount = 2
    FindEventLimit = 2
    RetryBackOff = 500
    MaxStarts = 1
SYMMETRY Interchangeable
INVARIANTS
    SentMeansDelivered
    GroupOrder
    GivenUpOnlyAfterAllAttempts
PROPERTIES
    ImplementsContract
