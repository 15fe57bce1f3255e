---------------------------- MODULE MCHttpServer ----------------------------
(* The HTTP server with two client connections, each sending up to two     *)
(* requests, and a connChan of capacity 1, so that a send finds the        *)
(* channel full.                                                           *)
EXTENDS HttpServer, TLC

CONSTANTS c1, c2

MCConns == {c1, c2}
MCMaxReqs == 2
MCQueueCap == 1

\* The client connections are interchangeable.
MCSymmetry == Permutations(MCConns)
=============================================================================
