----------------------------- MODULE MCRedirector -----------------------------
(* Redirector with three redirections and a channel of capacity 1.         *)
EXTENDS Redirector, TLC

CONSTANTS r1, r2, r3

MCReqs == {r1, r2, r3}

\* Two redirections for the liveness runs: one relaying, one queued behind.
MCReqsLive == {r1, r2}

\* A channel of capacity 1 is full with one redirection queued, as one of
\* capacity 64 is with 64.
MCQueueCap == 1

MCSymmetry == Permutations(MCReqs)
=============================================================================
