CONSTANTS
    c1 = c1
    c2 = c2
    Conns <- MCConns
    MaxReqs <- MCMaxReqs
    QueueCap <- MCQueueCap
SPECIFICATION Spec
INVARIANT SessionReleased
SYMMETRY MCSymmetry
\* Once every client is served and ctx is cancelled, nothing is left to
\* run.
CHECK_DEADLOCK FALSE
