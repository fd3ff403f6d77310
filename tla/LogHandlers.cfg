SPECIFICATION Spec
CONSTANTS
    root = root
    child = child
    grandchild = grandchild
    text = text
    sentry = sentry
    error = error
    debug = debug
    c1 = c1
    c2 = c2
    Loggers = {root, child, grandchild}
    Root = root
    Sinks = {text, sentry}
    Tracked = {sentry}
    Callers = {c1, c2}
    Records = {error, debug}
    enabled <- MCEnabled
SYMMETRY MCSymmetry
INVARIANTS
    TypeOK
    CloseWaits
    IgnoredNeverTracked
    ReachesEverySink
CHECK_DEADLOCK FALSE
