\* Safety of the relay engine: two streams and one datagram flow.
CONSTANTS
    s1 = s1
    s2 = s2
    f1 = f1
    Streams <- MCStreams
    Flows <- MCFlows
SPECIFICATION Spec
INVARIANT TypeOK
INVARIANT NeverBlocks
SYMMETRY MCSymmetry
\* The proxy stops for good once Close has run and every relay has ended.
CHECK_DEADLOCK FALSE
