------------------------------ MODULE Redirector ------------------------------
(***************************************************************************)
(* The redirector (redirector/redirector.go): servers that refuse a        *)
(* connection (a failed TLS handshake, an unknown Trojan hash) hand it to  *)
(* Redirect, which sends the redirection on redirectionChan (capacity 64)  *)
(* or gives up when ctx is done.  One worker goroutine receives each       *)
(* redirection and runs handle in a goroutine of its own: handle checks    *)
(* the inbound connection and the target, dials the target and relays the  *)
(* two legs with two copy goroutines reporting on errChan (capacity 2),    *)
(* closing both legs in its deferred calls.                                *)
(*                                                                         *)
(* A redirection carries a nil inbound connection, a nil target, or both   *)
(* set; the dial may fail; the peers of both legs may close at any time.   *)
(***************************************************************************)
EXTENDS Naturals, Sequences, FiniteSets

CONSTANTS
    Reqs,       \* the redirections the servers hand to Redirect
    QueueCap    \* capacity of redirectionChan

ASSUME RedirectorAssumption ==
    /\ IsFiniteSet(Reqs)
    /\ QueueCap \in Nat \ {0}

\* What the handle goroutine finds in a redirection.
Shapes == {"ok", "nilInbound", "nilAddr"}

Sides == {"in", "out"}

Other(s) == IF s = "in" THEN "out" ELSE "in"

\* errChan := make(chan error, 2)
ErrChanCap == 2

CopyStates == {"none", "copying", "sending", "exited"}

\* Where a redirection is: not yet passed to Redirect, in Redirect's
\* select, queued, given up by Redirect, received by the worker, in
\* handle's dial or relay, or handled.
Phases == {"idle", "calling", "queued", "dropped", "spawned", "dialing",
           "relaying", "done"}

VARIABLES
    ctxDone,    \* r.ctx is cancelled
    worker,     \* the worker goroutine: running or returned
    phase,      \* where each redirection is
    shape,      \* the shape of each redirection
    queue,      \* contents of redirectionChan, oldest first
    inOpen,     \* inbound connections not yet closed
    outOpen,    \* outbound connections dialled and not yet closed
    peerEOF,    \* legs whose remote end has closed
    cp,         \* the two copy goroutines of each handle
    errs        \* number of values buffered in each handle's errChan

vars == <<ctxDone, worker, phase, shape, queue, inOpen, outOpen, peerEOF,
          cp, errs>>

TypeOK ==
    /\ ctxDone \in BOOLEAN
    /\ worker \in {"running", "exited"}
    /\ phase \in [Reqs -> Phases]
    /\ shape \in [Reqs -> Shapes]
    /\ queue \in Seq(Reqs)
    /\ Len(queue) <= QueueCap
    /\ inOpen \subseteq Reqs
    /\ outOpen \subseteq Reqs
    /\ peerEOF \in [Reqs -> SUBSET Sides]
    /\ cp \in [Reqs -> [Sides -> CopyStates]]
    /\ errs \in [Reqs -> 0..ErrChanCap]

IsOpen(r, s) == IF s = "in" THEN r \in inOpen ELSE r \in outOpen

\* NewRedirector has started the worker; the shape of a redirection is
\* fixed by the server that builds it.
Init ==
    /\ ctxDone = FALSE
    /\ worker = "running"
    /\ phase = [r \in Reqs |-> "idle"]
    /\ shape \in [Reqs -> Shapes]
    /\ queue = <<>>
    /\ inOpen = {r \in Reqs : shape[r] # "nilInbound"}
    /\ outOpen = {}
    /\ peerEOF = [r \in Reqs |-> {}]
    /\ cp = [r \in Reqs |-> [s \in Sides |-> "none"]]
    /\ errs = [r \in Reqs |-> 0]

-----------------------------------------------------------------------------
(* Redirect, called by a server goroutine.                                 *)

\* The server calls Redirect with its redirection.
Call(r) ==
    /\ phase[r] = "idle"
    /\ phase' = [phase EXCEPT ![r] = "calling"]
    /\ UNCHANGED <<ctxDone, worker, shape, queue, inOpen, outOpen, peerEOF,
                   cp, errs>>

\* Mutant: a send that never waits for room in the channel.
RedirectSendUnbounded(r) ==
    /\ phase[r] = "calling"
    /\ queue' = Append(queue, r)
    /\ phase' = [phase EXCEPT ![r] = "queued"]
    /\ UNCHANGED <<ctxDone, worker, shape, inOpen, outOpen, peerEOF, cp, errs>>

\* The select sends the redirection: it blocks while the channel is full.
RedirectSend(r) ==
    /\ phase[r] = "calling"
    /\ Len(queue) < QueueCap
    /\ queue' = Append(queue, r)
    /\ phase' = [phase EXCEPT ![r] = "queued"]
    /\ UNCHANGED <<ctxDone, worker, shape, inOpen, outOpen, peerEOF, cp, errs>>

\* The select takes ctx.Done: Redirect returns, closing nothing.
RedirectCancelled(r) ==
    /\ phase[r] = "calling"
    /\ ctxDone
    /\ phase' = [phase EXCEPT ![r] = "dropped"]
    /\ UNCHANGED <<ctxDone, worker, shape, queue, inOpen, outOpen, peerEOF,
                   cp, errs>>

-----------------------------------------------------------------------------
(* The worker goroutine.                                                   *)

\* Mutant: handle run in the worker itself, so the worker receives only
\* once the previous redirection is over.
WorkerReceiveInline ==
    /\ worker = "running"
    /\ queue # <<>>
    /\ \A r \in Reqs : phase[r] \notin {"spawned", "dialing", "relaying"}
    /\ phase' = [phase EXCEPT ![Head(queue)] = "spawned"]
    /\ queue' = Tail(queue)
    /\ UNCHANGED <<ctxDone, worker, shape, inOpen, outOpen, peerEOF, cp, errs>>

\* The select receives a redirection and starts go handle(redirection).
WorkerReceive ==
    /\ worker = "running"
    /\ queue # <<>>
    /\ phase' = [phase EXCEPT ![Head(queue)] = "spawned"]
    /\ queue' = Tail(queue)
    /\ UNCHANGED <<ctxDone, worker, shape, inOpen, outOpen, peerEOF, cp, errs>>

\* Mutant: the worker's loop returning without ctx being done.
WorkerExitEarly ==
    /\ worker = "running"
    /\ worker' = "exited"
    /\ UNCHANGED <<ctxDone, phase, shape, queue, inOpen, outOpen, peerEOF,
                   cp, errs>>

\* The select takes ctx.Done: the worker returns, leaving the queue as it is.
WorkerExit ==
    /\ worker = "running"
    /\ ctxDone
    /\ worker' = "exited"
    /\ UNCHANGED <<ctxDone, phase, shape, queue, inOpen, outOpen, peerEOF,
                   cp, errs>>

-----------------------------------------------------------------------------
(* The handle goroutine of redirection r.                                  *)

\* Mutant: the deferred InboundConn.Close placed after the target check.
HandleCheckLateDefer(r) ==
    /\ phase[r] = "spawned"
    /\ phase' = [phase EXCEPT ![r] = IF shape[r] = "ok" THEN "dialing"
                                                        ELSE "done"]
    /\ UNCHANGED <<ctxDone, worker, shape, queue, inOpen, outOpen, peerEOF,
                   cp, errs>>

\* A nil inbound connection: handle returns.  A nil target: handle returns
\* and its deferred InboundConn.Close runs.  Otherwise it dials.
HandleCheck(r) ==
    /\ phase[r] = "spawned"
    /\ phase' = [phase EXCEPT ![r] = IF shape[r] = "ok" THEN "dialing"
                                                        ELSE "done"]
    /\ inOpen' = IF shape[r] = "nilAddr" THEN inOpen \ {r} ELSE inOpen
    /\ UNCHANGED <<ctxDone, worker, shape, queue, outOpen, peerEOF, cp, errs>>

\* redirection.Dial succeeds: both copy goroutines start.
DialOK(r) ==
    /\ phase[r] = "dialing"
    /\ phase' = [phase EXCEPT ![r] = "relaying"]
    /\ outOpen' = outOpen \cup {r}
    /\ cp' = [cp EXCEPT ![r] = [s \in Sides |-> "copying"]]
    /\ UNCHANGED <<ctxDone, worker, shape, queue, inOpen, peerEOF, errs>>

\* The dial fails: handle returns, closing the inbound connection.
DialFail(r) ==
    /\ phase[r] = "dialing"
    /\ phase' = [phase EXCEPT ![r] = "done"]
    /\ inOpen' = inOpen \ {r}
    /\ UNCHANGED <<ctxDone, worker, shape, queue, outOpen, peerEOF, cp, errs>>

\* The select receives the first copy result: handle returns and both
\* deferred closes run.
RelayDone(r) ==
    /\ phase[r] = "relaying"
    /\ errs[r] > 0
    /\ errs' = [errs EXCEPT ![r] = @ - 1]
    /\ phase' = [phase EXCEPT ![r] = "done"]
    /\ inOpen' = inOpen \ {r}
    /\ outOpen' = outOpen \ {r}
    /\ UNCHANGED <<ctxDone, worker, shape, queue, peerEOF, cp>>

\* The select takes ctx.Done: handle returns with the same deferred closes.
RelayCancelled(r) ==
    /\ phase[r] = "relaying"
    /\ ctxDone
    /\ phase' = [phase EXCEPT ![r] = "done"]
    /\ inOpen' = inOpen \ {r}
    /\ outOpen' = outOpen \ {r}
    /\ UNCHANGED <<ctxDone, worker, shape, queue, peerEOF, cp, errs>>

\* copyConn's io.Copy reading leg s returns: its peer closed, or the leg
\* was closed locally.
CopyEOF(r, s) ==
    /\ cp[r][s] = "copying"
    /\ s \in peerEOF[r] \/ ~IsOpen(r, s)
    /\ cp' = [cp EXCEPT ![r][s] = "sending"]
    /\ UNCHANGED <<ctxDone, worker, phase, shape, queue, inOpen, outOpen,
                   peerEOF, errs>>

\* io.Copy's write to the other leg fails because that leg was closed.
CopyWriteErr(r, s) ==
    /\ cp[r][s] = "copying"
    /\ Other(s) \in peerEOF[r] \/ ~IsOpen(r, Other(s))
    /\ cp' = [cp EXCEPT ![r][s] = "sending"]
    /\ UNCHANGED <<ctxDone, worker, phase, shape, queue, inOpen, outOpen,
                   peerEOF, errs>>

\* errChan <- err, then the copy goroutine returns.
CopySend(r, s) ==
    /\ cp[r][s] = "sending"
    /\ errs[r] < ErrChanCap
    /\ errs' = [errs EXCEPT ![r] = @ + 1]
    /\ cp' = [cp EXCEPT ![r][s] = "exited"]
    /\ UNCHANGED <<ctxDone, worker, phase, shape, queue, inOpen, outOpen,
                   peerEOF>>

-----------------------------------------------------------------------------
(* The environment.                                                        *)

\* The remote end of an open leg closes.
PeerClose(r, s) ==
    /\ IsOpen(r, s)
    /\ s \notin peerEOF[r]
    /\ peerEOF' = [peerEOF EXCEPT ![r] = @ \cup {s}]
    /\ UNCHANGED <<ctxDone, worker, phase, shape, queue, inOpen, outOpen,
                   cp, errs>>

\* The owner of ctx cancels it.
Cancel ==
    /\ ~ctxDone
    /\ ctxDone' = TRUE
    /\ UNCHANGED <<worker, phase, shape, queue, inOpen, outOpen, peerEOF,
                   cp, errs>>

-----------------------------------------------------------------------------

\* Redirector.Redirect, from its call to its return.
Redirect(r) == Call(r) \/ RedirectSend(r) \/ RedirectCancelled(r)

\* The worker goroutine's loop.
workerLoop == WorkerReceive \/ WorkerExit

\* The handle goroutine, with its copyConn goroutines.
handle(r) ==
    \/ HandleCheck(r) \/ DialOK(r) \/ DialFail(r)
    \/ RelayDone(r) \/ RelayCancelled(r)
    \/ \E s \in Sides : CopyEOF(r, s) \/ CopyWriteErr(r, s) \/ CopySend(r, s)

Next ==
    \/ \E r \in Reqs : Redirect(r)
    \/ workerLoop
    \/ \E r \in Reqs : handle(r)
    \/ \E r \in Reqs, s \in Sides : PeerClose(r, s)
    \/ Cancel

(***************************************************************************)
(* Fairness: the redirector's goroutines and the server goroutine blocked  *)
(* in Redirect are scheduled.  Servers calling Redirect, peers and the     *)
(* owner cancelling ctx are not fair.                                      *)
(***************************************************************************)
Fairness ==
    /\ WF_vars(WorkerReceive) /\ WF_vars(WorkerExit)
    /\ \A r \in Reqs :
        /\ WF_vars(RedirectSend(r)) /\ WF_vars(RedirectCancelled(r))
        /\ WF_vars(HandleCheck(r)) /\ WF_vars(DialOK(r) \/ DialFail(r))
        /\ WF_vars(RelayDone(r)) /\ WF_vars(RelayCancelled(r))
        /\ \A s \in Sides : WF_vars(CopyEOF(r, s)) /\ WF_vars(CopySend(r, s))

Spec == Init /\ [][Next]_vars /\ Fairness

-----------------------------------------------------------------------------
(* Properties.                                                             *)

\* A redirection whose handle has returned has no leg left open: the
\* deferred closes of handle cover every return path, the nil target and
\* the failed dial included.
HandledClosed ==
    \A r \in Reqs : phase[r] = "done" => r \notin inOpen \cup outOpen

\* While ctx is live, every queued redirection is taken up by a handle
\* goroutine, however long the redirections before it last: the worker
\* never waits for a handle to finish.
QueuedHandled ==
    \A r \in Reqs :
        (phase[r] = "queued" /\ ~ctxDone)
            ~> (phase[r] \in {"spawned", "dialing", "relaying", "done"}
                \/ ctxDone)

\* The redirections Redirect has settled: queued, or given up on ctx.Done.
Settled == {r \in Reqs : phase[r] \notin {"idle", "calling"}}

\* The redirections the worker has passed to a handle goroutine.
Received == {r \in Reqs : phase[r] \in {"spawned", "dialing", "relaying", "done"}}

\* redirectionChan as the single queue of ConnQueue, whose consumer is the
\* worker; a redirection given up by Redirect is ConnQueue's rejected one.
CQ == INSTANCE ConnQueue WITH
        Conns <- Reqs,
        Kinds <- {"redirect"},
        seen <- Settled,
        queue <- [k \in {"redirect"} |-> queue],
        delivered <- [k \in {"redirect"} |-> Received],
        rejected <- {r \in Reqs : phase[r] = "dropped"},
        consumer <- [k \in {"redirect"} |-> worker]

\* The redirector implements ConnQueue: Redirect queues each redirection
\* once or gives it up, the worker hands the queued ones to handle
\* goroutines oldest first, each once, and stops only after ctx is done.
ImplementsConnQueue == CQ!Spec

\* Redirect never waits on a full redirectionChan (spec section 5: a full
\* redirector queue drops the new inbound connection, which is closed).
FullQueueDrops ==
    \A r \in Reqs : phase[r] = "calling" => Len(queue) < QueueCap \/ ctxDone

\* Once ctx is cancelled, every inbound and outbound connection handed to
\* the redirector is eventually closed (spec section 8, property 7: open
\* connections are closed; section 4.10: the redirector ensures both ends
\* close even on failure).
CancelClosesAll ==
    ctxDone ~> (inOpen = {} /\ outOpen = {})

=============================================================================
