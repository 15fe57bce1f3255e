\* A send pending at Close: does acceptLoop get past it?
CONSTANTS
    c1 = c1
    c2 = c2
    c3 = c3
    NoConn = NoConn
    Conns <- MCConns
    QueueCap <- MCQueueCap
SPECIFICATION Spec
PROPERTY EnqueueCompletes
CHECK_DEADLOCK FALSE
