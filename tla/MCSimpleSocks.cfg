\* Safety of the simplesocks accept loop against Close and both consumers.
CONSTANTS
    c1 = c1
    c2 = c2
    c3 = c3
    NoConn = NoConn
    Conns <- MCConns
    QueueCap <- MCQueueCap
SPECIFICATION Spec
INVARIANT TypeOK
INVARIANT ConnsAccounted
PROPERTY ImplementsConnQueue
SYMMETRY MCSymmetry
\* After Close, once both consumers and acceptLoop have returned, nothing
\* is left to run.
CHECK_DEADLOCK FALSE
