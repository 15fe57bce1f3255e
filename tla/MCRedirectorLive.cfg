\* The redirector on two requests: safety, and liveness under the fairness
\* of the Go scheduler.  TypeOK and HandledClosed are proved for every
\* instance in RedirectorProofs.
CONSTANTS
    r1 = r1
    r2 = r2
    r3 = r3
    Reqs <- MCReqsLive
    QueueCap <- MCQueueCap
SPECIFICATION Spec
INVARIANT TypeOK
INVARIANT HandledClosed
PROPERTY QueuedHandled
PROPERTY ImplementsConnQueue
\* Once ctx is cancelled and every handle has returned, nothing is left
\* to run.
CHECK_DEADLOCK FALSE
