---------------------------- MODULE MCPromServer ----------------------------
(* PromServer as it stands: metrics on or off, errChan of capacity 1.      *)
EXTENDS PromServer
=============================================================================
