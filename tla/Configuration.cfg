SPECIFICATION Spec
CONSTANTS
    Files <- MCFiles
    Types = {t1, t2}
    Events = {e1, e2}
INVARIANTS
    TypeOK
    RunsWithUsableSettings
    BlockedNeverFetched
    ClientsAsConfigured
PROPERTIES
    FetchesExactly
CHECK_DEADLOCK FALSE
