SPECIFICATION Spec
CONSTANTS
    Files <- MCFiles
    Types = {t1, t2}
    Events = {e1, e2}
INVARIANTS
    TunnelIsUsed
CHECK_DEADLOCK FALSE
