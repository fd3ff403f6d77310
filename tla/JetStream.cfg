SPECIFICATION FairSpec
CONSTANTS
    Rows = {1, 2}
    payload <- MCpayload
    Window = 2
    MaxReconnects = 1
    MaxRetryCount = 3
    MaxFaults = 2
INVARIANTS
    TypeOK
    SentContentStored
PROPERTIES
    OncePerWindow
    NoRowHangs
CHECK_DEADLOCK FALSE
