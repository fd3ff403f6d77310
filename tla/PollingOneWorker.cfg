SPECIFICATION Spec
CONSTANTS
    Workers = {w1}
    Ids = {1, 2, 3}
    aggregateType <- MCaggregateType
    aggregateId <- MCOneGroup
    NoGroup = "none"
    Filtered = {2}
    Unresolved = {3}
    MaxRetryCount = 3
    FindEventLimit = 2
    RetryBackOff = 250
    MaxStarts = 3
INVARIANTS
    TypeOK
    SentMeansDelivered
    GroupOrder
PROPERTIES
    ImplementsLoop
    PublishOnlyWhenDue
    RetryCountOnlyIncrements
