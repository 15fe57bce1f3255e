----------------------------- MODULE Prometheus -----------------------------
(***************************************************************************)
(* The metrics/prometheus package as a whole: the metrics server's         *)
(* goroutines and the recorder's callers run concurrently over the same    *)
(* process-wide collectors, which the server's handler reads on a scrape.  *)
(***************************************************************************)
EXTENDS PromServer, PromRecorder

allVars == <<vars, recVars>>

\* A step of the server's goroutines or of a recorder call.
PromNext ==
    \/ Next /\ UNCHANGED recVars
    \/ RecorderNext /\ UNCHANGED vars

\* The server and the recorder start together, as the package's init and
\* RunMetricsServer's caller leave them.
PromInit == Init /\ RecorderInit

PromSpec == PromInit /\ [][PromNext]_allVars /\ Fairness

PromTypeOK == TypeOK /\ RecorderTypeOK
=============================================================================
