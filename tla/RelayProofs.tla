----------------------------- MODULE RelayProofs -----------------------------
(***************************************************************************)
(* Proofs about the relay engine of Relay, for every set of streams and    *)
(* datagram flows: the type invariant, and that no copy goroutine ever     *)
(* blocks on its errChan send.                                             *)
(***************************************************************************)
EXTENDS Relay, TLAPS

\* Number of copy goroutines of relay c that have sent their result.
Exited(c) ==
    (IF cp[c]["in"] = "exited" THEN 1 ELSE 0)
      + (IF cp[c]["out"] = "exited" THEN 1 ELSE 0)

\* Every result sent on errChan is either still buffered or was received
\* by the handler, which receives at most once; before the dial succeeds
\* neither copy goroutine exists.
ChanAccount ==
    \A c \in Inbound :
        /\ errs[c] + (IF c \in taken THEN 1 ELSE 0) = Exited(c)
        /\ st[c] \in {"pending", "dialing", "relaying"} => c \notin taken
        /\ st[c] \in {"pending", "dialing"} =>
               \A s \in Sides : cp[c][s] = "none"

IInv == TypeOK /\ ChanAccount

-----------------------------------------------------------------------------

\* Next, with the goroutine groups of proxy.go unfolded into its actions.
FlatNext ==
    \/ \E k \in Kinds, c \in Inbound : Accept(k, c)
    \/ \E k \in Kinds : AcceptFail(k)
    \/ \E c \in Inbound :
        \/ DialOK(c) \/ DialFail(c) \/ RelayDone(c) \/ RelayCancelled(c)
    \/ \E c \in Inbound, s \in Sides :
        \/ CopyEOF(c, s) \/ CopyWriteErr(c, s) \/ CopySend(c, s)
        \/ PeerClose(c, s)
    \/ Close

\* Every step of Next is a step of one of the actions.
LEMMA NextSplit == Next => FlatNext
<1> SUFFICES ASSUME Next PROVE FlatNext
  OBVIOUS
<1>1. CASE relayConnLoop
  BY <1>1 DEF relayConnLoop, FlatNext, Kinds, Inbound
<1>2. CASE relayPacketLoop
  BY <1>2 DEF relayPacketLoop, FlatNext, Kinds, Inbound
<1>3. CASE \E c \in Streams : connHandler(c)
  BY <1>3 DEF connHandler, Handler, FlatNext, Inbound
<1>4. CASE \E c \in Flows : packetHandler(c)
  BY <1>4 DEF packetHandler, Handler, FlatNext, Inbound
<1>5. CASE \E c \in Streams, s \in Sides : copyConn(c, s)
  BY <1>5 DEF copyConn, Copy, FlatNext, Inbound
<1>6. CASE \E c \in Flows, s \in Sides : copyPacket(c, s)
  BY <1>6 DEF copyPacket, Copy, FlatNext, Inbound
<1>7. CASE \E c \in Inbound, s \in Sides : PeerClose(c, s)
  BY <1>7 DEF FlatNext
<1>8. CASE Close
  BY <1>8 DEF FlatNext
<1>9. QED
  BY <1>1, <1>2, <1>3, <1>4, <1>5, <1>6, <1>7, <1>8 DEF Next

\* Every step keeps the variables in their types.
LEMMA TypeStep == TypeOK /\ [Next]_vars => TypeOK'
  <2> SUFFICES ASSUME TypeOK, [Next]_vars PROVE TypeOK'
    OBVIOUS
  <2>1. ASSUME NEW k \in Kinds, NEW c \in Inbound, Accept(k, c) PROVE TypeOK'
    BY <2>1 DEF Accept, TypeOK
  <2>2. ASSUME NEW k \in Kinds, AcceptFail(k) PROVE TypeOK'
    BY <2>2 DEF AcceptFail, TypeOK
  <2>3. ASSUME NEW c \in Inbound, DialOK(c) PROVE TypeOK'
    BY <2>3 DEF DialOK, TypeOK, CopyStates
  <2>4. ASSUME NEW c \in Inbound, DialFail(c) PROVE TypeOK'
    BY <2>4 DEF DialFail, TypeOK
  <2>5. ASSUME NEW c \in Inbound, RelayDone(c) PROVE TypeOK'
    BY <2>5 DEF RelayDone, TypeOK, ErrChanCap
  <2>6. ASSUME NEW c \in Inbound, RelayCancelled(c) PROVE TypeOK'
    BY <2>6 DEF RelayCancelled, TypeOK
  <2>7. ASSUME NEW c \in Inbound, NEW s \in Sides, CopyEOF(c, s) PROVE TypeOK'
    BY <2>7 DEF CopyEOF, TypeOK, CopyStates
  <2>8. ASSUME NEW c \in Inbound, NEW s \in Sides, CopyWriteErr(c, s)
        PROVE TypeOK'
    BY <2>8 DEF CopyWriteErr, TypeOK, CopyStates
  <2>9. ASSUME NEW c \in Inbound, NEW s \in Sides, CopySend(c, s) PROVE TypeOK'
    BY <2>9 DEF CopySend, TypeOK, CopyStates, ErrChanCap
  <2>10. ASSUME NEW c \in Inbound, NEW s \in Sides, PeerClose(c, s)
         PROVE TypeOK'
    BY <2>10 DEF PeerClose, TypeOK
  <2>11. CASE Close
    BY <2>11 DEF Close, TypeOK
  <2>12. CASE UNCHANGED vars
    BY <2>12 DEF vars, TypeOK
  <2>13. QED
    BY <2>1, <2>2, <2>3, <2>4, <2>5, <2>6, <2>7, <2>8, <2>9, <2>10, <2>11,
       <2>12, NextSplit DEF FlatNext

\* The initial state is well typed.
LEMMA InitTypeOK == Init => TypeOK
<1> SUFFICES ASSUME Init PROVE TypeOK
  OBVIOUS
<1>1. loops \in [Kinds -> {"running", "exited"}]
  BY DEF Init
<1>2. st \in [Inbound -> {"pending", "dialing", "relaying", "done"}]
  BY DEF Init
<1>3. peerEOF \in [Inbound -> SUBSET Sides]
  BY DEF Init
<1>4. cp \in [Inbound -> [Sides -> CopyStates]]
  BY DEF Init, CopyStates
<1>5. errs \in [Inbound -> 0..ErrChanCap]
  BY DEF Init, ErrChanCap
<1>6. QED
  BY <1>1, <1>2, <1>3, <1>4, <1>5 DEF Init, TypeOK

\* The type invariant holds in every reachable state.
THEOREM TypeCorrect == Spec => []TypeOK
BY InitTypeOK, TypeStep, PTL DEF Spec

-----------------------------------------------------------------------------

\* The strengthened invariant holds initially.
LEMMA InitIInv == Init => IInv
<1> SUFFICES ASSUME Init PROVE IInv
  OBVIOUS
<1>1. ChanAccount
  BY DEF Init, ChanAccount, Exited, Sides
<1>2. QED
  BY <1>1, InitTypeOK DEF IInv

\* Every step preserves the strengthened invariant: one step per action
\* that touches a relay's channel, its copies or its handler state.
LEMMA NextIInv == IInv /\ [Next]_vars => IInv'
<1> SUFFICES ASSUME IInv, [Next]_vars PROVE IInv'
  OBVIOUS
<1>1. TypeOK'
  BY TypeStep DEF IInv
<1>2. ChanAccount'
  <2> USE DEF IInv, TypeOK
  <2>1. ASSUME NEW k \in Kinds, NEW c \in Inbound, Accept(k, c)
        PROVE ChanAccount'
    BY <2>1 DEF Accept, ChanAccount, Exited
  <2>2. ASSUME NEW k \in Kinds, AcceptFail(k) PROVE ChanAccount'
    BY <2>2 DEF AcceptFail, ChanAccount, Exited
  <2>3. ASSUME NEW c \in Inbound, DialOK(c) PROVE ChanAccount'
    BY <2>3 DEF DialOK, ChanAccount, Exited, Sides
  <2>4. ASSUME NEW c \in Inbound, DialFail(c) PROVE ChanAccount'
    BY <2>4 DEF DialFail, ChanAccount, Exited
  <2>5. ASSUME NEW c \in Inbound, RelayDone(c) PROVE ChanAccount'
    BY <2>5 DEF RelayDone, ChanAccount, Exited
  <2>6. ASSUME NEW c \in Inbound, RelayCancelled(c) PROVE ChanAccount'
    BY <2>6 DEF RelayCancelled, ChanAccount, Exited
  <2>7. ASSUME NEW c \in Inbound, NEW s \in Sides, CopyEOF(c, s)
        PROVE ChanAccount'
    BY <2>7 DEF CopyEOF, ChanAccount, Exited, Sides
  <2>8. ASSUME NEW c \in Inbound, NEW s \in Sides, CopyWriteErr(c, s)
        PROVE ChanAccount'
    BY <2>8 DEF CopyWriteErr, ChanAccount, Exited, Sides
  <2>9. ASSUME NEW c \in Inbound, NEW s \in Sides, CopySend(c, s)
        PROVE ChanAccount'
    BY <2>9 DEF CopySend, ChanAccount, Exited, Sides
  <2>10. ASSUME NEW c \in Inbound, NEW s \in Sides, PeerClose(c, s)
         PROVE ChanAccount'
    BY <2>10 DEF PeerClose, ChanAccount, Exited
  <2>11. CASE Close
    BY <2>11 DEF Close, ChanAccount, Exited
  <2>12. CASE UNCHANGED vars
    BY <2>12 DEF vars, ChanAccount, Exited
  <2>13. QED
    BY <2>1, <2>2, <2>3, <2>4, <2>5, <2>6, <2>7, <2>8, <2>9, <2>10, <2>11,
       <2>12, NextSplit DEF FlatNext
<1>3. QED
  BY <1>1, <1>2 DEF IInv

\* The strengthened invariant implies that no copy goroutine is blocked.
LEMMA IInvNeverBlocks == IInv => NeverBlocks
BY DEF IInv, TypeOK, ChanAccount, Exited, NeverBlocks, ErrChanCap, Sides

\* No copy goroutine of proxy.go's relays ever blocks on its errChan send,
\* whatever the number of streams and flows.
THEOREM NeverBlocksHolds == Spec => []NeverBlocks
<1>1. Spec => []IInv
  BY InitIInv, NextIInv, PTL DEF Spec
<1>2. QED
  BY <1>1, IInvNeverBlocks, PTL
=============================================================================
