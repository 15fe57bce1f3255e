\* The relay engine on one stream and one datagram flow: safety, and
\* liveness under the fairness of the Go scheduler.  NeverBlocks and TypeOK
\* are proved for every instance in RelayProofs.
CONSTANTS
    s1 = s1
    s2 = s2
    f1 = f1
    Streams <- MCStreamsLive
    Flows <- MCFlows
SPECIFICATION Spec
INVARIANT TypeOK
INVARIANT NeverBlocks
PROPERTY RelayTerminates
PROPERTY ShutdownQuiesces
\* The proxy stops for good once Close has run and every relay has ended.
CHECK_DEADLOCK FALSE
