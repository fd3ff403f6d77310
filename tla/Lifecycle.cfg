SPECIFICATION FairSpec
CONSTANTS
    RefetchEnabled = TRUE
INVARIANTS
    TypeOK
    DrainedBeforeExit
PROPERTIES
    ImplementsLoop
    SignalEnds
    HealthFailureEnds
    RefetchNotStuck
CHECK_DEADLOCK FALSE
