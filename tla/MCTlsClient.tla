---------------------------- MODULE MCTlsClient ----------------------------
(* TlsClient with two concurrent dials, over every configuration case.     *)
EXTENDS TlsClient, TLC

CONSTANTS d1, d2

MCDials == {d1, d2}
=============================================================================
