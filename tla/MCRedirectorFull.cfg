CONSTANTS
    r1 = r1
    r2 = r2
    r3 = r3
    Reqs <- MCReqs
    QueueCap <- MCQueueCap
SPECIFICATION Spec
INVARIANT FullQueueDrops
\* Once ctx is cancelled and every handle has returned, nothing is left
\* to run.
CHECK_DEADLOCK FALSE
