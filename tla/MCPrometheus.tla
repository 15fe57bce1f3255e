---------------------------- MODULE MCPrometheus ----------------------------
(* The metrics package with one user, a connection of that user and an     *)
(* unauthenticated one, two of the event counters, counters bounded at 1. *)
EXTENDS Prometheus

CONSTANTS u1, c1, c2

MCUsers == {u1}

MCConns == {c1, c2}

MCOwner == [c \in MCConns |-> IF c = c2 THEN NoUser ELSE u1]

MCMaxCount == 1

\* One counter of RecordAuthAttempt and the redirection counter.
MCEvents == {"authFailure", "redirected"}
=============================================================================
