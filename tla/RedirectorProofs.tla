-------------------------- MODULE RedirectorProofs --------------------------
(***************************************************************************)
(* Proofs about the redirector model: its type invariant, that a           *)
(* redirection whose handle has returned has both legs closed, and that    *)
(* the redirector implements ConnQueue, for any set of redirections and    *)
(* any capacity of redirectionChan.                                        *)
(***************************************************************************)
EXTENDS Redirector, TLAPS

\* The strengthening: a nil inbound connection is never open, the outbound
\* leg is open only from the dial until handle returns, and a handled
\* redirection has neither leg open.
LegsClosed ==
    \A r \in Reqs :
        /\ shape[r] = "nilInbound" => r \notin inOpen
        /\ phase[r] \notin {"relaying", "done"} => r \notin outOpen
        /\ phase[r] = "done" => r \notin inOpen \cup outOpen

\* The redirections in redirectionChan are queued, each once: Redirect
\* sends only from its select, once per call.
QueueOK ==
    /\ \A i \in 1..Len(queue) : phase[queue[i]] = "queued"
    /\ \A i, j \in 1..Len(queue) : queue[i] = queue[j] => i = j

IInv == TypeOK /\ LegsClosed /\ QueueOK

LEMMA InitIInv == Init => IInv
<1> SUFFICES ASSUME Init PROVE IInv
  OBVIOUS
<1>1. phase \in [Reqs -> Phases] /\ cp \in [Reqs -> [Sides -> CopyStates]]
  BY DEF Init, Phases, CopyStates
<1>2. errs \in [Reqs -> 0..ErrChanCap] /\ peerEOF \in [Reqs -> SUBSET Sides]
  BY DEF Init, ErrChanCap
<1>3. queue \in Seq(Reqs) /\ Len(queue) <= QueueCap
  BY RedirectorAssumption DEF Init
<1>4. TypeOK
  BY <1>1, <1>2, <1>3 DEF Init, TypeOK
<1>5. LegsClosed /\ QueueOK
  BY DEF Init, LegsClosed, QueueOK
<1>6. QED
  BY <1>4, <1>5 DEF IInv

\* Every step of Redirect, the worker, the handle and copy goroutines, the
\* peers and the owner of ctx keeps the strengthened invariant.
LEMMA NextIInv == IInv /\ [Next]_vars => IInv'
<1> SUFFICES ASSUME IInv, [Next]_vars PROVE IInv'
  OBVIOUS
<1>1. ASSUME NEW r \in Reqs, Call(r) PROVE IInv'
  BY <1>1, RedirectorAssumption DEF IInv, TypeOK, LegsClosed, QueueOK,
     Phases, CopyStates, ErrChanCap, Sides, IsOpen, Other,
     Call
<1>2. ASSUME NEW r \in Reqs, RedirectSend(r) PROVE IInv'
  BY <1>2, RedirectorAssumption DEF IInv, TypeOK, LegsClosed, QueueOK,
     Phases, CopyStates, ErrChanCap, Sides, IsOpen, Other,
     RedirectSend
<1>3. ASSUME NEW r \in Reqs, RedirectCancelled(r) PROVE IInv'
  BY <1>3, RedirectorAssumption DEF IInv, TypeOK, LegsClosed, QueueOK,
     Phases, CopyStates, ErrChanCap, Sides, IsOpen, Other,
     RedirectCancelled
<1>4. ASSUME NEW r \in Reqs, HandleCheck(r) PROVE IInv'
  <2>1. shape[r] \in Shapes /\ phase[r] = "spawned"
    BY <1>4 DEF IInv, TypeOK, HandleCheck
  <2>2. QueueOK'
    BY <1>4, <2>1 DEF IInv, TypeOK, QueueOK, HandleCheck
  <2>3. CASE shape[r] = "ok"
    BY <1>4, <2>1, <2>3 DEF IInv, TypeOK, LegsClosed, QueueOK, Phases,
       HandleCheck
  <2>4. CASE shape[r] = "nilInbound"
    BY <1>4, <2>1, <2>2, <2>4 DEF IInv, TypeOK, LegsClosed, Phases,
       HandleCheck
  <2>5. CASE shape[r] = "nilAddr"
    BY <1>4, <2>1, <2>2, <2>5 DEF IInv, TypeOK, LegsClosed, Phases,
       HandleCheck
  <2>6. QED
    BY <2>1, <2>3, <2>4, <2>5 DEF Shapes
<1>5. ASSUME NEW r \in Reqs, DialOK(r) PROVE IInv'
  BY <1>5, RedirectorAssumption DEF IInv, TypeOK, LegsClosed, QueueOK,
     Phases, CopyStates, ErrChanCap, Sides, IsOpen, Other,
     DialOK
<1>6. ASSUME NEW r \in Reqs, DialFail(r) PROVE IInv'
  BY <1>6, RedirectorAssumption DEF IInv, TypeOK, LegsClosed, QueueOK,
     Phases, CopyStates, ErrChanCap, Sides, IsOpen, Other,
     DialFail
<1>7. ASSUME NEW r \in Reqs, RelayDone(r) PROVE IInv'
  BY <1>7, RedirectorAssumption DEF IInv, TypeOK, LegsClosed, QueueOK,
     Phases, CopyStates, ErrChanCap, Sides, IsOpen, Other,
     RelayDone
<1>8. ASSUME NEW r \in Reqs, RelayCancelled(r) PROVE IInv'
  BY <1>8, RedirectorAssumption DEF IInv, TypeOK, LegsClosed, QueueOK,
     Phases, CopyStates, ErrChanCap, Sides, IsOpen, Other,
     RelayCancelled
<1>9. ASSUME NEW r \in Reqs, NEW s \in Sides, CopyEOF(r, s) PROVE IInv'
  BY <1>9, RedirectorAssumption DEF IInv, TypeOK, LegsClosed, QueueOK,
     Phases, CopyStates, ErrChanCap, Sides, IsOpen, Other,
     CopyEOF
<1>10. ASSUME NEW r \in Reqs, NEW s \in Sides, CopyWriteErr(r, s) PROVE IInv'
  BY <1>10, RedirectorAssumption DEF IInv, TypeOK, LegsClosed, QueueOK,
     Phases, CopyStates, ErrChanCap, Sides, IsOpen, Other,
     CopyWriteErr
<1>11. ASSUME NEW r \in Reqs, NEW s \in Sides, CopySend(r, s) PROVE IInv'
  BY <1>11, RedirectorAssumption DEF IInv, TypeOK, LegsClosed, QueueOK,
     Phases, CopyStates, ErrChanCap, Sides, IsOpen, Other,
     CopySend
<1>12. ASSUME NEW r \in Reqs, NEW s \in Sides, PeerClose(r, s) PROVE IInv'
  BY <1>12, RedirectorAssumption DEF IInv, TypeOK, LegsClosed, QueueOK,
     Phases, CopyStates, ErrChanCap, Sides, IsOpen, Other,
     PeerClose
<1>13. ASSUME WorkerReceive PROVE IInv'
  BY <1>13, RedirectorAssumption DEF IInv, TypeOK, LegsClosed, QueueOK,
     Phases, CopyStates, ErrChanCap, Sides, IsOpen, Other,
     WorkerReceive
<1>14. ASSUME WorkerExit PROVE IInv'
  BY <1>14, RedirectorAssumption DEF IInv, TypeOK, LegsClosed, QueueOK,
     Phases, CopyStates, ErrChanCap, Sides, IsOpen, Other,
     WorkerExit
<1>15. ASSUME Cancel PROVE IInv'
  BY <1>15, RedirectorAssumption DEF IInv, TypeOK, LegsClosed, QueueOK,
     Phases, CopyStates, ErrChanCap, Sides, IsOpen, Other,
     Cancel
<1>16. CASE UNCHANGED vars
  BY <1>16, RedirectorAssumption DEF IInv, TypeOK, LegsClosed, QueueOK,
     Phases, CopyStates, ErrChanCap, Sides, IsOpen, Other,
     vars
<1>17. QED
  BY <1>1, <1>2, <1>3, <1>4, <1>5, <1>6, <1>7, <1>8, <1>9, <1>10, <1>11,
     <1>12, <1>13, <1>14, <1>15, <1>16
     DEF Next, Redirect, workerLoop, handle

\* The strengthening gives the property.
LEMMA IInvHandledClosed == IInv => HandledClosed
BY DEF IInv, LegsClosed, HandledClosed

\* The redirector model keeps its types, redirectionChan within its
\* capacity and each errChan within its two slots included.
THEOREM TypeCorrect == Spec => []TypeOK
<1>1. Spec => []IInv
  BY InitIInv, NextIInv, PTL DEF Spec
<1>2. QED
  BY <1>1, PTL DEF IInv

\* Whatever the servers, the peers and the owner of ctx do, a redirection
\* whose handle goroutine has returned has its inbound and its outbound
\* connection closed: the deferred closes of handle cover every path.
THEOREM HandledClosedHolds == Spec => []HandledClosed
<1>1. Spec => []IInv
  BY InitIInv, NextIInv, PTL DEF Spec
<1>2. QED
  BY <1>1, IInvHandledClosed, PTL


-----------------------------------------------------------------------------
(* The redirector implements ConnQueue.                                    *)

\* NewRedirector's state is ConnQueue's initial state: nothing settled,
\* an empty channel, the worker running.
LEMMA InitRefines == Init => CQ!Init
BY DEF Init, CQ!Init, Settled, Received

\* Each step of Redirect, the worker, handle and its copy goroutines, the
\* peers and the owner of ctx is a step of ConnQueue or leaves the mapped
\* state alone.
LEMMA NextRefines == IInv /\ [Next]_vars => [CQ!Next]_CQ!cqVars
<1> SUFFICES ASSUME IInv, [Next]_vars PROVE [CQ!Next]_CQ!cqVars
  OBVIOUS
<1> USE DEF IInv, TypeOK, CQ!cqVars
<1>1. ASSUME NEW r \in Reqs, Call(r) PROVE UNCHANGED CQ!cqVars
  BY <1>1 DEF Call, Settled, Received
<1>2. ASSUME NEW r \in Reqs, RedirectSend(r) PROVE CQ!Route(r, "redirect")
  BY <1>2 DEF RedirectSend, CQ!Route, Settled, Received
<1>3. ASSUME NEW r \in Reqs, RedirectCancelled(r) PROVE CQ!Reject(r)
  BY <1>3 DEF RedirectCancelled, CQ!Reject, Settled, Received
<1>4. ASSUME WorkerReceive PROVE CQ!Deliver("redirect")
  <2>1. Head(queue) \in Reqs /\ phase[Head(queue)] = "queued"
    BY <1>4 DEF WorkerReceive, QueueOK
  <2>2. Received' = Received \cup {Head(queue)} /\ Settled' = Settled
    BY <1>4, <2>1 DEF WorkerReceive, Settled, Received
  <2>3. {r \in Reqs : phase'[r] = "dropped"} = {r \in Reqs : phase[r] = "dropped"}
    BY <1>4, <2>1 DEF WorkerReceive
  <2>4. QED
    BY <1>4, <2>2, <2>3 DEF WorkerReceive, CQ!Deliver
<1>5. ASSUME WorkerExit PROVE CQ!Stop("redirect")
  BY <1>5 DEF WorkerExit, CQ!Stop, Settled, Received
<1>6. ASSUME NEW r \in Reqs, HandleCheck(r) PROVE UNCHANGED CQ!cqVars
  BY <1>6 DEF HandleCheck, Settled, Received
<1>7. ASSUME NEW r \in Reqs, DialOK(r) \/ DialFail(r) PROVE UNCHANGED CQ!cqVars
  BY <1>7 DEF DialOK, DialFail, Settled, Received
<1>8. ASSUME NEW r \in Reqs, RelayDone(r) \/ RelayCancelled(r)
      PROVE UNCHANGED CQ!cqVars
  BY <1>8 DEF RelayDone, RelayCancelled, Settled, Received
<1>9. ASSUME NEW r \in Reqs, NEW sd \in Sides,
             CopyEOF(r, sd) \/ CopyWriteErr(r, sd) \/ CopySend(r, sd)
      PROVE UNCHANGED CQ!cqVars
  BY <1>9 DEF CopyEOF, CopyWriteErr, CopySend, Settled, Received
<1>10. ASSUME NEW r \in Reqs, NEW sd \in Sides, PeerClose(r, sd)
       PROVE UNCHANGED CQ!cqVars
  BY <1>10 DEF PeerClose, Settled, Received
<1>11. ASSUME Cancel PROVE CQ!Cancel
  BY <1>11 DEF Cancel, CQ!Cancel, Settled, Received
<1>12. CASE UNCHANGED vars
  BY <1>12 DEF vars, Settled, Received
<1>13. QED
  BY <1>1, <1>2, <1>3, <1>4, <1>5, <1>6, <1>7, <1>8, <1>9, <1>10, <1>11,
     <1>12 DEF Next, Redirect, workerLoop, handle, CQ!Next

\* The redirector implements ConnQueue for every set of redirections and
\* every capacity of redirectionChan: Redirect settles each redirection
\* once, queueing it or giving it up, the worker hands the queued ones to
\* handle goroutines oldest first and each once, and the worker stops only
\* once ctx is done.
THEOREM Refinement == Spec => ImplementsConnQueue
<1>1. Spec => []IInv
  BY InitIInv, NextIInv, PTL DEF Spec
<1>2. QED
  BY <1>1, InitRefines, NextRefines, PTL DEF Spec, ImplementsConnQueue, CQ!Spec

=============================================================================
