----------------------------- MODULE PromServer -----------------------------
(***************************************************************************)
(* The Prometheus metrics HTTP server (metrics/prometheus/server.go).      *)
(* RunMetricsServer calls NewServer, which returns nil when metrics are    *)
(* disabled and otherwise a Server holding an http.Server and a context    *)
(* derived from the caller's; it then starts a goroutine running Start.    *)
(* Start runs ListenAndServe in a goroutine of its own, which sends a      *)
(* failure other than http.ErrServerClosed on errChan (capacity 1), and    *)
(* selects between that channel and ctx.Done; on ctx.Done it calls Close,  *)
(* which cancels ctx and Shuts the server down.                            *)
(*                                                                         *)
(* RunMetricsServer keeps the Server to itself, so nothing but the         *)
(* cancellation of the caller's context stops it.  ListenAndServe is       *)
(* net/http's: it returns ErrServerClosed at once after Shutdown, returns  *)
(* ErrServerClosed once Shutdown closes its listener, and otherwise fails  *)
(* when the address cannot be bound or, later, when Accept fails.          *)
(***************************************************************************)
EXTENDS Naturals, Sequences

\* errChan := make(chan error, 1) in Start.
ErrChanCap == 1

\* Where the goroutine running Start is: not started, started, in its
\* select, or returned.
StartStates == {"none", "spawned", "selecting", "returned"}

\* Where the ListenAndServe goroutine is: not started, started, serving,
\* holding a failure to send on errChan, or returned.
ServeStates == {"none", "spawned", "serving", "sending", "done"}

VARIABLES
    enabled,    \* cfg.Metrics.Enabled, read by NewServer
    run,        \* RunMetricsServer has been called
    srv,        \* what NewServer returned: none yet, nil, or a Server
    parentDone, \* the context passed to RunMetricsServer is cancelled
    cancelled,  \* s.cancel has been called
    shutdown,   \* s.server.Shutdown has been called
    start,      \* the goroutine running Start
    serve,      \* the ListenAndServe goroutine
    errChan     \* errors queued on errChan

vars == <<enabled, run, srv, parentDone, cancelled, shutdown, start, serve, errChan>>

\* s.ctx is done: its parent is cancelled or s.cancel has run.
ctxDone == parentDone \/ cancelled

TypeOK ==
    /\ enabled \in BOOLEAN
    /\ run \in BOOLEAN
    /\ srv \in {"none", "nil", "server"}
    /\ parentDone \in BOOLEAN
    /\ cancelled \in BOOLEAN
    /\ shutdown \in BOOLEAN
    /\ start \in StartStates
    /\ serve \in ServeStates
    /\ errChan \in Seq({"err"})
    /\ Len(errChan) <= ErrChanCap

\* The configuration has metrics on or off (off by default).
Init ==
    /\ enabled \in BOOLEAN
    /\ run = FALSE
    /\ srv = "none"
    /\ parentDone = FALSE
    /\ cancelled = FALSE
    /\ shutdown = FALSE
    /\ start = "none"
    /\ serve = "none"
    /\ errChan = <<>>

-----------------------------------------------------------------------------

\* NewServer returns nil when metrics are disabled, and otherwise a Server
\* (its context derived, the start time gauge set, the mux and the
\* http.Server built).
NewServer == IF enabled THEN "server" ELSE "nil"

\* RunMetricsServer: when NewServer returns nil it returns; otherwise it
\* starts the goroutine running Start.
RunMetricsServer ==
    /\ ~run
    /\ run' = TRUE
    /\ srv' = NewServer
    /\ start' = IF NewServer = "server" THEN "spawned" ELSE start
    /\ UNCHANGED <<enabled, parentDone, cancelled, shutdown, serve, errChan>>

\* The caller of RunMetricsServer cancels its context.
ParentCancel ==
    /\ ~parentDone
    /\ parentDone' = TRUE
    /\ UNCHANGED <<enabled, run, srv, cancelled, shutdown, start, serve, errChan>>

\* Start makes errChan, starts the ListenAndServe goroutine and enters its
\* select.
StartServe ==
    /\ start = "spawned"
    /\ start' = "selecting"
    /\ serve' = "spawned"
    /\ UNCHANGED <<enabled, run, srv, parentDone, cancelled, shutdown, errChan>>

\* ListenAndServe begins: after Shutdown it returns ErrServerClosed, which
\* is not sent; otherwise it binds the address and serves, or fails to.
ListenAndServe ==
    /\ serve = "spawned"
    /\ serve' \in IF shutdown THEN {"done"} ELSE {"serving", "sending"}
    /\ UNCHANGED <<enabled, run, srv, parentDone, cancelled, shutdown, start, errChan>>

\* Shutdown has closed the listener: Serve returns ErrServerClosed.
ServeClosed ==
    /\ serve = "serving"
    /\ shutdown
    /\ serve' = "done"
    /\ UNCHANGED <<enabled, run, srv, parentDone, cancelled, shutdown, start, errChan>>

\* Accept fails while serving: Serve returns that error.
ServeFail ==
    /\ serve = "serving"
    /\ ~shutdown
    /\ serve' = "sending"
    /\ UNCHANGED <<enabled, run, srv, parentDone, cancelled, shutdown, start, errChan>>

\* Mutant: errChan unbuffered, so the send only completes while Start is
\* in its select, which then returns the error.
SendErrUnbuffered ==
    /\ serve = "sending"
    /\ start = "selecting"
    /\ serve' = "done"
    /\ start' = "returned"
    /\ UNCHANGED <<enabled, run, srv, parentDone, cancelled, shutdown, errChan>>

\* errChan <- err: blocks while the channel is full.
SendErr ==
    /\ serve = "sending"
    /\ Len(errChan) < ErrChanCap
    /\ errChan' = Append(errChan, "err")
    /\ serve' = "done"
    /\ UNCHANGED <<enabled, run, srv, parentDone, cancelled, shutdown, start>>

\* Start's select receives the error and returns it; RunMetricsServer's
\* goroutine logs it.
StartErr ==
    /\ start = "selecting"
    /\ errChan # <<>>
    /\ errChan' = Tail(errChan)
    /\ start' = "returned"
    /\ UNCHANGED <<enabled, run, srv, parentDone, cancelled, shutdown, serve>>

\* Mutant: Start returning on ctx.Done without calling Close.
StartCancelNoClose ==
    /\ start = "selecting"
    /\ ctxDone
    /\ start' = "returned"
    /\ UNCHANGED <<enabled, run, srv, parentDone, cancelled, shutdown, serve, errChan>>

\* Start's select takes ctx.Done and returns s.Close(): s.cancel() and
\* s.server.Shutdown.  When an error is queued too, Go picks either case.
StartCancel ==
    /\ start = "selecting"
    /\ ctxDone
    /\ cancelled' = TRUE
    /\ shutdown' = TRUE
    /\ start' = "returned"
    /\ UNCHANGED <<enabled, run, srv, parentDone, serve, errChan>>

\* The goroutine running Start.
Start == StartServe \/ StartErr \/ StartCancel

\* The ListenAndServe goroutine.
Serve == ListenAndServe \/ ServeClosed \/ ServeFail \/ SendErr

Next == RunMetricsServer \/ ParentCancel \/ Start \/ Serve

(***************************************************************************)
(* Fairness: both goroutines are scheduled.  The caller running the server *)
(* and cancelling its context, and Accept failing, are not fair.           *)
(***************************************************************************)
Fairness ==
    /\ WF_vars(Start)
    /\ WF_vars(ListenAndServe)
    /\ WF_vars(ServeClosed)
    /\ WF_vars(SendErr)

Spec == Init /\ [][Next]_vars /\ Fairness

-----------------------------------------------------------------------------
(* Properties.                                                             *)

\* The listener is never left open with nobody to close it: while the
\* ListenAndServe goroutine is serving, Start is still in its select (and
\* will call Close on ctx.Done) or Shutdown has already been called.
NoOrphanListener ==
    serve \in {"spawned", "serving"} =>
        \/ start = "selecting"
        \/ shutdown

\* Once the caller's context is cancelled, both goroutines of the server
\* return: Start through Close, and ListenAndServe through
\* ErrServerClosed or after its error has been queued on errChan, even
\* when Start took ctx.Done instead of receiving it.
ServerQuiesces ==
    parentDone ~> (/\ start \in {"none", "returned"}
                   /\ serve \in {"none", "done"})

=============================================================================
