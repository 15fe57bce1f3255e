------------------------------- MODULE MCRelay -------------------------------
(* Relay instances for TLC: two streams and a datagram flow for the safety *)
(* run, one of each for the liveness run.                                  *)
EXTENDS Relay, TLC

CONSTANTS s1, s2, f1

MCStreams == {s1, s2}
MCStreamsLive == {s1}
MCFlows == {f1}

\* The two streams are interchangeable.
MCSymmetry == Permutations(MCStreams)
=============================================================================
