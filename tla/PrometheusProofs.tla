-------------------------- MODULE PrometheusProofs --------------------------
(***************************************************************************)
(* Proofs about the metrics package: the server's and the recorder's type  *)
(* invariants and that the metrics listener is never orphaned, for every   *)
(* set of users and connections and every owner of a connection.           *)
(***************************************************************************)
EXTENDS Prometheus, TLAPS

-----------------------------------------------------------------------------
(* The server.                                                             *)

\* An error on errChan was sent by a ListenAndServe goroutine that has
\* returned: Serve sends at most once, and only as its last step.
ErrQueuedAfterServe == errChan # <<>> => serve = "done"

\* Start is past "none" once the serve goroutine exists.
ServeAfterStart == serve # "none" => start \in {"selecting", "returned"}

\* Nothing has started before RunMetricsServer is called.
RunFirst == ~run => start = "none"

SrvInv == /\ TypeOK /\ NoOrphanListener /\ ErrQueuedAfterServe
          /\ ServeAfterStart /\ RunFirst

\* The Boolean variables of the server are Booleans.  The provers need
\* this part of TypeOK as a step of its own.
BoolsOK == /\ enabled \in BOOLEAN /\ run \in BOOLEAN /\ parentDone \in BOOLEAN
           /\ cancelled \in BOOLEAN /\ shutdown \in BOOLEAN

LEMMA SrvInitInv == Init => SrvInv
<1> SUFFICES ASSUME Init PROVE SrvInv
  OBVIOUS
<1>1. BoolsOK
  BY DEF Init, BoolsOK
<1>2. QED
  BY <1>1 DEF BoolsOK, Init, SrvInv, TypeOK, NoOrphanListener,
     ErrQueuedAfterServe, ServeAfterStart, RunFirst, StartStates, ServeStates, ErrChanCap

\* Each step of RunMetricsServer, of the caller and of the two goroutines
\* keeps SrvInv.
LEMMA SrvNextInv == SrvInv /\ [Next]_vars => SrvInv'
<1> SUFFICES ASSUME SrvInv, [Next]_vars PROVE SrvInv'
  OBVIOUS
<1> USE DEF SrvInv, TypeOK, NoOrphanListener, ErrQueuedAfterServe,
         ServeAfterStart, RunFirst, StartStates, ServeStates, ErrChanCap
<1>1. CASE RunMetricsServer
  <2>1. BoolsOK'
    BY <1>1 DEF RunMetricsServer, NewServer, BoolsOK
  <2>2. QED
    BY <1>1, <2>1 DEF RunMetricsServer, NewServer, BoolsOK
<1>2. CASE ParentCancel
  <2>1. BoolsOK'
    BY <1>2 DEF ParentCancel, BoolsOK
  <2>2. QED
    BY <1>2, <2>1 DEF ParentCancel, BoolsOK
<1>3. CASE StartServe
  <2>1. BoolsOK'
    BY <1>3 DEF StartServe, BoolsOK
  <2>2. QED
    BY <1>3, <2>1 DEF StartServe, BoolsOK
<1>4. CASE StartErr
  <2>1. BoolsOK'
    BY <1>4 DEF StartErr, BoolsOK
  <2>2. QED
    BY <1>4, <2>1 DEF StartErr, BoolsOK
<1>5. CASE StartCancel
  <2>1. BoolsOK'
    BY <1>5 DEF StartCancel, BoolsOK
  <2>2. QED
    BY <1>5, <2>1 DEF StartCancel, BoolsOK
<1>6. CASE ListenAndServe
  <2>1. BoolsOK'
    BY <1>6 DEF ListenAndServe, BoolsOK
  <2>2. QED
    BY <1>6, <2>1 DEF ListenAndServe, BoolsOK
<1>7. CASE ServeClosed
  <2>1. BoolsOK'
    BY <1>7 DEF ServeClosed, BoolsOK
  <2>2. QED
    BY <1>7, <2>1 DEF ServeClosed, BoolsOK
<1>8. CASE ServeFail
  <2>1. BoolsOK'
    BY <1>8 DEF ServeFail, BoolsOK
  <2>2. QED
    BY <1>8, <2>1 DEF ServeFail, BoolsOK
<1>9. CASE SendErr
  <2>1. BoolsOK'
    BY <1>9 DEF SendErr, BoolsOK
  <2>2. QED
    BY <1>9, <2>1 DEF SendErr, BoolsOK
<1>10. CASE UNCHANGED vars
  <2>1. BoolsOK'
    BY <1>10 DEF vars, BoolsOK
  <2>2. QED
    BY <1>10, <2>1 DEF vars, BoolsOK
<1>11. QED
  BY <1>1, <1>2, <1>3, <1>4, <1>5, <1>6, <1>7, <1>8, <1>9, <1>10
     DEF Next, Start, Serve

-----------------------------------------------------------------------------
(* The recorder.                                                           *)

\* What the label-vector helpers return is again a vector.
LEMMA AddToVec ==
    ASSUME NEW v, IsVec(v), NEW u \in Users, NEW n \in Int
    PROVE  IsVec(AddTo(v, u, n))
BY DEF AddTo, IsVec

LEMMA SetToVec ==
    ASSUME NEW v, IsVec(v), NEW u \in Users, NEW n \in Int
    PROVE  IsVec(SetTo(v, u, n))
BY DEF SetTo, IsVec

LEMMA DeleteVec ==
    ASSUME NEW v, IsVec(v), NEW u
    PROVE  IsVec(Delete(v, u))
BY DEF Delete, IsVec

RecInv == RecorderTypeOK

LEMMA RecInitInv == RecorderInit => RecInv
<1> SUFFICES ASSUME RecorderInit PROVE RecInv
  OBVIOUS
<1>1. RecorderTypeOK
  BY DEF RecorderInit, RecorderTypeOK, IsVec
<1>2. QED
  BY <1>1 DEF RecInv

\* RecordConnectionOpen and RecordConnectionClose move one connection on
\* and keep UserActiveConnections a vector of series.
LEMMA OpenTyped ==
    ASSUME RecInv, NEW c \in Conns, RecordConnectionOpen(c)
    PROVE  RecInv'
<1> USE DEF RecInv, RecorderTypeOK
<1>1. connSt' = [connSt EXCEPT ![c] = "open"]
  BY DEF RecordConnectionOpen
<1>2. IsVec(userActive')
  <2>1. CASE Owner[c] # NoUser
    <3>1. Owner[c] \in Users
      BY <2>1, PromRecorderAssumption
    <3>2. QED
      BY <2>1, <3>1, AddToVec DEF RecordConnectionOpen
  <2>2. CASE Owner[c] = NoUser
    BY <2>2 DEF RecordConnectionOpen
  <2>3. QED
    BY <2>1, <2>2
<1>3. QED
  BY <1>1, <1>2 DEF RecordConnectionOpen

LEMMA CloseTyped ==
    ASSUME RecInv, NEW c \in Conns, RecordConnectionClose(c)
    PROVE  RecInv'
<1> USE DEF RecInv, RecorderTypeOK
<1>1. connSt' = [connSt EXCEPT ![c] = "closed"]
  BY DEF RecordConnectionClose
<1>2. IsVec(userActive')
  <2>1. CASE Owner[c] # NoUser
    <3>1. Owner[c] \in Users
      BY <2>1, PromRecorderAssumption
    <3>2. QED
      BY <2>1, <3>1, AddToVec DEF RecordConnectionClose
  <2>2. CASE Owner[c] = NoUser
    BY <2>2 DEF RecordConnectionClose
  <2>3. QED
    BY <2>1, <2>2
<1>3. QED
  BY <1>1, <1>2 DEF RecordConnectionClose

\* Every recorder call keeps the collectors' types.
LEMMA RecNextInv == RecInv /\ [RecorderNext]_recVars => RecInv'
<1> SUFFICES ASSUME RecInv, [RecorderNext]_recVars PROVE RecInv'
  OBVIOUS
<1> USE DEF RecInv, RecorderTypeOK
<1>1. ASSUME NEW c \in Conns, RecordConnectionOpen(c) PROVE RecInv'
  BY <1>1, OpenTyped
<1>2. ASSUME NEW c \in Conns, RecordConnectionClose(c) PROVE RecInv'
  BY <1>2, CloseTyped
<1>3. ASSUME NEW c \in Conns, NEW sent \in Amounts, NEW recv \in Amounts,
             RecordTraffic(c, sent, recv)
      PROVE  RecInv'
  <2>1. Owner[c] \in Users
    BY <1>3, PromRecorderAssumption DEF RecordTraffic
  <2>2. ASSUME NEW d \in Dirs PROVE IsVec(bytes'[d])
    BY <1>3, <2>1, AddToVec DEF RecordTraffic, Amounts, Dirs
  <2>3. bytesTotal' \in [Dirs -> Nat]
    BY <1>3 DEF RecordTraffic, Amounts, Dirs
  <2>4. QED
    BY <1>3, <2>2, <2>3 DEF RecordTraffic,
       Dirs
<1>4. ASSUME NEW u \in Users, NEW up \in Amounts, NEW down \in Amounts,
             SetUserSpeed(u, up, down)
      PROVE  RecInv'
  <2>1. ASSUME NEW d \in Dirs PROVE IsVec(speed'[d])
    BY <1>4, SetToVec DEF SetUserSpeed, Amounts, Dirs
  <2>2. QED
    BY <1>4, <2>1 DEF SetUserSpeed, Dirs
<1>5. ASSUME NEW u \in Users, NEW n \in Amounts, SetUserActiveIPs(u, n)
      PROVE  RecInv'
  <2>1. IsVec(activeIPs')
    BY <1>5, SetToVec DEF SetUserActiveIPs, Amounts
  <2>2. QED
    BY <1>5, <2>1 DEF SetUserActiveIPs
<1>6. ASSUME NEW n \in Amounts, SetUserCount(n) PROVE RecInv'
  BY <1>6 DEF SetUserCount, Amounts
<1>7. ASSUME NEW e \in Events, RecordEvent(e) PROVE RecInv'
  BY <1>7 DEF RecordEvent
<1>8. ASSUME NEW u \in Users, CleanupUserMetrics(u) PROVE RecInv'
  <2>1. IsVec(userActive') /\ IsVec(activeIPs')
    BY <1>8, DeleteVec DEF CleanupUserMetrics
  <2>2. ASSUME NEW d \in Dirs PROVE IsVec(bytes'[d]) /\ IsVec(speed'[d])
    BY <1>8, DeleteVec DEF CleanupUserMetrics, Dirs
  <2>3. QED
    BY <1>8, <2>1, <2>2 DEF CleanupUserMetrics, Dirs
<1>9. CASE UNCHANGED recVars
  BY <1>9 DEF recVars
<1>10. QED
  BY <1>1, <1>2, <1>3, <1>4, <1>5, <1>6, <1>7, <1>8, <1>9 DEF RecorderNext

-----------------------------------------------------------------------------
(* The package: the server's goroutines and the recorder's callers         *)
(* interleaved.                                                            *)

PromInv == SrvInv /\ RecInv

LEMMA PromInitInv == PromInit => PromInv
BY SrvInitInv, RecInitInv DEF PromInit, PromInv

\* A step of one side leaves the other side's variables, and with them its
\* invariant, alone.
LEMMA PromNextInv == PromInv /\ [PromNext]_allVars => PromInv'
<1> SUFFICES ASSUME PromInv, [PromNext]_allVars PROVE PromInv'
  OBVIOUS
<1>1. CASE Next /\ UNCHANGED recVars
  <2>1. SrvInv'
    BY <1>1, SrvNextInv DEF PromInv
  <2>2. RecInv'
    BY <1>1, RecNextInv DEF PromInv
  <2>3. QED
    BY <2>1, <2>2 DEF PromInv
<1>2. CASE RecorderNext /\ UNCHANGED vars
  <2>1. SrvInv'
    BY <1>2, SrvNextInv DEF PromInv
  <2>2. RecInv'
    BY <1>2, RecNextInv DEF PromInv
  <2>3. QED
    BY <2>1, <2>2 DEF PromInv
<1>3. CASE UNCHANGED allVars
  <2>1. SrvInv'
    BY <1>3, SrvNextInv DEF PromInv, allVars, vars
  <2>2. RecInv'
    BY <1>3, RecNextInv DEF PromInv, allVars, recVars
  <2>3. QED
    BY <2>1, <2>2 DEF PromInv
<1>4. QED
  BY <1>1, <1>2, <1>3 DEF PromNext

LEMMA PromAlways == PromSpec => []PromInv
BY PromInitInv, PromNextInv, PTL DEF PromSpec

\* The metrics server and the recorder keep their types for every set of
\* users, connections and events.
THEOREM PromTypeCorrect == PromSpec => []PromTypeOK
<1>1. PromInv => PromTypeOK
  BY DEF PromInv, SrvInv, RecInv, PromTypeOK
<1>2. QED
  BY PromAlways, <1>1, PTL

\* While ListenAndServe is starting or serving, Start is still in its
\* select, where ctx.Done leads to Close, or Shutdown has been called:
\* the metrics listener never outlives the goroutine that owns it.
THEOREM NoOrphanListenerHolds == PromSpec => []NoOrphanListener
<1>1. PromInv => NoOrphanListener
  BY DEF PromInv, SrvInv
<1>2. QED
  BY PromAlways, <1>1, PTL

=============================================================================
