---------------------------- MODULE MCSimpleSocks ----------------------------
(* SimpleSocksServer on three connections with channels of capacity 1.     *)
EXTENDS SimpleSocksServer, TLC

CONSTANTS c1, c2, c3

MCConns == {c1, c2, c3}

\* A channel of capacity 1 fills as a channel of capacity 32 does, with one
\* connection queued and the next held by acceptLoop.
MCQueueCap == 1

MCSymmetry == Permutations(MCConns)
=============================================================================
