CONSTANTS
    a1 = a1
    a2 = a2
    t1 = t1
    t2 = t2
    Adapters <- MCTwoAdapters
    Callers <- MCCallers
    CallLevels <- MCCallLevels
    SetLevels <- MCSetLevels
    MaxSets <- MCMaxSets
SPECIFICATION Spec
INVARIANT CacheCoherent
\* Once SetLogLevel has been called MaxSets times the callers may stop.
CHECK_DEADLOCK FALSE
