\* A failed handshake and the underlying connection it leaves behind.
CONSTANTS
    d1 = d1
    d2 = d2
    Dials <- MCDials
SPECIFICATION Spec
INVARIANT HandshakeFailureCloses
\* A client whose dials have all returned or failed does nothing more.
CHECK_DEADLOCK FALSE
