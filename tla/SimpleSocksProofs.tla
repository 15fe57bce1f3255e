------------------------- MODULE SimpleSocksProofs -------------------------
(***************************************************************************)
(* Proofs about the simplesocks server model: its type invariant, and that *)
(* it implements the abstract ConnQueue under the refinement mapping of    *)
(* SimpleSocksServer, for any set of connections and any channel capacity. *)
(***************************************************************************)
EXTENDS SimpleSocksServer, FiniteSetTheorems, TLAPS

\* The strengthening: the connection acceptLoop holds while it reads a
\* header or sends on a channel is one the underlay handed out.
CurArrived ==
    loop \in {"reading", "sendConn", "sendPacket"} => cur \in arrived

IInv == TypeOK /\ CurArrived

\* Facts about concatenation that the mapping of a blocked send needs.
LEMMA ConcatEmpty ==
    ASSUME NEW S, NEW s \in Seq(S)
    PROVE  s \o <<>> = s
OBVIOUS

LEMMA ConcatOne ==
    ASSUME NEW S, NEW s \in Seq(S), NEW x \in S
    PROVE  s \o <<x>> = Append(s, x)
OBVIOUS

LEMMA HeadTailConcat ==
    ASSUME NEW S, NEW s \in Seq(S), NEW t \in Seq(S), s # <<>>
    PROVE  /\ s \o t # <<>>
           /\ Head(s \o t) = Head(s)
           /\ Tail(s \o t) = Tail(s) \o t
OBVIOUS

LEMMA InitIInv == Init => IInv
<1> SUFFICES ASSUME Init PROVE IInv
  OBVIOUS
<1>1. chans \in [Kinds -> Seq(Conns)] /\ \A k \in Kinds : Len(chans[k]) <= QueueCap
  BY SimpleSocksAssumption DEF Init
<1>2. cur \in Conns \cup {NoConn} /\ cmdOf \in [Conns -> Commands \cup {"none"}]
  BY DEF Init
<1>3. QED
  BY <1>1, <1>2 DEF Init, IInv, TypeOK, CurArrived, LoopStates

\* Every step of acceptLoop, of the consumers and of Close keeps the
\* strengthened invariant.
LEMMA NextIInv == IInv /\ [Next]_vars => IInv'
<1> SUFFICES ASSUME IInv, [Next]_vars PROVE IInv'
  OBVIOUS
<1> USE DEF IInv, TypeOK, CurArrived, LoopStates, Kinds, SendState
<1>1. ASSUME NEW c \in Conns, UnderlayAccept(c) PROVE IInv'
  BY <1>1 DEF UnderlayAccept
<1>2. CASE UnderlayFail
  BY <1>2 DEF UnderlayFail
<1>3. CASE HeaderError
  BY <1>3 DEF HeaderError
<1>4. ASSUME NEW cmd \in Commands, ReadHeader(cmd) PROVE IInv'
  BY <1>4 DEF ReadHeader, Commands, KindOfCommand
<1>5. ASSUME NEW k \in Kinds, Enqueue(k) PROVE IInv'
  <2>1. cur \in Conns
    BY <1>5 DEF Enqueue
  <2>2. chans' \in [Kinds -> Seq(Conns)]
    BY <1>5, <2>1 DEF Enqueue
  <2>3. ASSUME NEW j \in Kinds PROVE Len(chans'[j]) <= QueueCap
    <3>1. CASE j = k
      <4>1. chans'[j] = Append(chans[k], cur) /\ Len(chans[k]) < QueueCap
        BY <1>5, <2>1, <3>1 DEF Enqueue
      <4>2. chans[k] \in Seq(Conns) /\ QueueCap \in Nat
        BY SimpleSocksAssumption
      <4>3. QED
        BY <2>1, <4>1, <4>2
    <3>2. CASE j # k
      BY <1>5, <3>2 DEF Enqueue
    <3>3. QED
      BY <3>1, <3>2
  <2>4. QED
    BY <1>5, <2>2, <2>3 DEF Enqueue
<1>6. ASSUME NEW k \in Kinds, AcceptQueued(k) PROVE IInv'
  <2>1. chans' \in [Kinds -> Seq(Conns)]
    BY <1>6 DEF AcceptQueued
  <2>2. ASSUME NEW j \in Kinds PROVE Len(chans'[j]) <= QueueCap
    <3>1. CASE j = k
      <4>1. chans'[j] = Tail(chans[k]) /\ chans[k] # <<>>
        BY <1>6, <3>1 DEF AcceptQueued
      <4>2. chans[k] \in Seq(Conns) /\ Len(chans[k]) <= QueueCap
            /\ QueueCap \in Nat
        BY SimpleSocksAssumption
      <4>3. QED
        BY <4>1, <4>2
    <3>2. CASE j # k
      BY <1>6, <3>2 DEF AcceptQueued
    <3>3. QED
      BY <3>1, <3>2
  <2>3. delivered' \in [Kinds -> SUBSET Conns]
    BY <1>6 DEF AcceptQueued
  <2>4. QED
    BY <1>6, <2>1, <2>2, <2>3 DEF AcceptQueued
<1>7. ASSUME NEW k \in Kinds, AcceptClosed(k) PROVE IInv'
  BY <1>7 DEF AcceptClosed
<1>8. CASE Close
  BY <1>8 DEF Close
<1>9. CASE UNCHANGED vars
  BY <1>9 DEF vars
<1>10. QED
  BY <1>1, <1>2, <1>3, <1>4, <1>5, <1>6, <1>7, <1>8, <1>9
     DEF Next, acceptLoop, AcceptConn, AcceptPacket, Kinds

\* The simplesocks model keeps its types, both channels within their
\* capacity included, for every value of the constants.
THEOREM TypeCorrect == Spec => []TypeOK
<1>1. IInv => TypeOK
  BY DEF IInv
<1>2. QED
  BY InitIInv, NextIInv, <1>1, PTL DEF Spec

-----------------------------------------------------------------------------
(* The refinement.                                                         *)

LEMMA InitRefines == Init => CQ!Init
BY DEF Init, CQ!Init, Sorted, Held, SendState

\* Each step of the server is a step of ConnQueue or leaves the mapped
\* state alone.
LEMMA NextRefines == IInv /\ [Next]_vars => [CQ!Next]_CQ!cqVars
<1> SUFFICES ASSUME IInv, [Next]_vars PROVE [CQ!Next]_CQ!cqVars
  OBVIOUS
<1> DEFINE Q == [k \in Kinds |-> chans[k] \o Held(k)]
<1> USE DEF IInv, TypeOK, CurArrived, LoopStates, Kinds, SendState,
         CQ!cqVars, Sorted
<1>1. ASSUME NEW c \in Conns, UnderlayAccept(c) PROVE UNCHANGED CQ!cqVars
  <2>1. Held("conn")' = <<>> /\ Held("packet")' = <<>>
    BY <1>1 DEF UnderlayAccept, Held
  <2>2. Held("conn") = <<>> /\ Held("packet") = <<>>
    BY <1>1 DEF UnderlayAccept, Held
  <2>3. QED
    BY <1>1, <2>1, <2>2 DEF UnderlayAccept
<1>2. CASE UnderlayFail
  BY <1>2 DEF UnderlayFail, Held
<1>3. CASE HeaderError
  <2>1. cur \in Conns
    BY <1>3 DEF HeaderError
  <2>2. CQ!Reject(cur)
    BY <1>3, <2>1 DEF HeaderError, Held, CQ!Reject
  <2>3. QED
    BY <2>1, <2>2 DEF CQ!Next
<1>4. ASSUME NEW cmd \in Commands, ReadHeader(cmd) PROVE [CQ!Next]_CQ!cqVars
  <2>1. cur \in Conns /\ cur \in arrived /\ loop = "reading"
    BY <1>4 DEF ReadHeader
  <2>2. CASE cmd \in {"connect", "associate"}
    <3> DEFINE k == KindOfCommand(cmd)
    <3>1. k \in Kinds /\ loop' = SendState(k) /\ cur' = cur /\ chans' = chans
      BY <1>4, <2>2 DEF ReadHeader, KindOfCommand
    <3>2. Held(k)' = <<cur>> /\ Held(k) = <<>>
      BY <2>1, <3>1 DEF Held
    <3>3. \A j \in Kinds \ {k} : Held(j)' = <<>> /\ Held(j) = <<>>
      BY <2>1, <3>1 DEF Held
    <3>4. chans[k] \o <<cur>> = Append(chans[k] \o <<>>, cur)
      BY <2>1, ConcatOne, ConcatEmpty
    <3>5. CQ!Route(cur, k)
      BY <1>4, <2>1, <2>2, <3>1, <3>2, <3>3, <3>4 DEF ReadHeader, CQ!Route
    <3>6. QED
      BY <2>1, <3>1, <3>5 DEF CQ!Next
  <2>3. CASE cmd = "unknown"
    <3>1. CQ!Reject(cur)
      BY <1>4, <2>1, <2>3 DEF ReadHeader, Held, CQ!Reject
    <3>2. QED
      BY <2>1, <3>1 DEF CQ!Next
  <2>4. QED
    BY <2>2, <2>3 DEF Commands
<1>5. ASSUME NEW k \in Kinds, Enqueue(k) PROVE UNCHANGED CQ!cqVars
  <2>1. cur \in Conns /\ loop = SendState(k) /\ loop' = "accepting"
    BY <1>5 DEF Enqueue
  <2>2. chans'[k] \o Held(k)' = chans[k] \o Held(k)
    <3>1. Held(k)' = <<>> /\ Held(k) = <<cur>>
      BY <2>1 DEF Held
    <3>2. QED
      BY <1>5, <2>1, <3>1, ConcatOne, ConcatEmpty DEF Enqueue
  <2>3. \A j \in Kinds \ {k} : chans'[j] \o Held(j)' = chans[j] \o Held(j)
    BY <1>5, <2>1 DEF Enqueue, Held
  <2>4. Q' = Q
    BY <2>2, <2>3
  <2>5. QED
    BY <1>5, <2>1, <2>4 DEF Enqueue
<1>6. ASSUME NEW k \in Kinds, AcceptQueued(k) PROVE [CQ!Next]_CQ!cqVars
  <2>1. chans[k] # <<>> /\ chans[k] \in Seq(Conns) /\ Held(k) \in Seq(Conns)
    BY <1>6 DEF AcceptQueued, Held
  <2>2. /\ Q[k] # <<>>
        /\ Head(Q[k]) = Head(chans[k])
        /\ Tail(Q[k]) = Tail(chans[k]) \o Held(k)
    <3>1. Q[k] = chans[k] \o Held(k)
      BY DEF Q
    <3>2. /\ chans[k] \o Held(k) # <<>>
          /\ Head(chans[k] \o Held(k)) = Head(chans[k])
          /\ Tail(chans[k] \o Held(k)) = Tail(chans[k]) \o Held(k)
      BY <2>1, HeadTailConcat
    <3>3. QED
      BY <3>1, <3>2
  <2>3. CQ!Deliver(k)
    BY <1>6, <2>2 DEF AcceptQueued, Held, CQ!Deliver
  <2>4. QED
    BY <2>3 DEF CQ!Next
<1>7. ASSUME NEW k \in Kinds, AcceptClosed(k) PROVE [CQ!Next]_CQ!cqVars
  <2>1. CQ!Stop(k)
    BY <1>7 DEF AcceptClosed, Held, CQ!Stop
  <2>2. QED
    BY <2>1 DEF CQ!Next
<1>8. CASE Close
  <2>1. CQ!Cancel
    BY <1>8 DEF Close, Held, CQ!Cancel
  <2>2. QED
    BY <2>1 DEF CQ!Next
<1>9. CASE UNCHANGED vars
  BY <1>9 DEF vars, Held
<1>10. QED
  BY <1>1, <1>2, <1>3, <1>4, <1>5, <1>6, <1>7, <1>8, <1>9
     DEF Next, acceptLoop, AcceptConn, AcceptPacket

\* The simplesocks server implements ConnQueue for every set of
\* connections and every channel capacity: acceptLoop sorts each
\* connection once, and AcceptConn / AcceptPacket hand out each channel
\* oldest first, a blocked send coming after the buffered connections.
THEOREM Refinement == Spec => ImplementsConnQueue
<1>1. Spec => []IInv
  BY InitIInv, NextIInv, PTL DEF Spec
<1>2. QED
  BY <1>1, InitRefines, NextRefines, PTL DEF Spec, ImplementsConnQueue, CQ!Spec

-----------------------------------------------------------------------------
(* Every connection in exactly one place.                                  *)

\* The connections in a sequence, and that none is in it twice.
Elems(s) == {s[i] : i \in 1..Len(s)}
NoDup(s) == \A i, j \in 1..Len(s) : s[i] = s[j] => i = j

\* acceptLoop holds a connection between its accept and its send or close.
Holding == loop \in {"reading", "sendConn", "sendPacket"}
HeldSet == IF Holding THEN {cur} ELSE {}

\* The connection held for a send on the channel of kind k.
SendingOn(k) == IF loop = SendState(k) THEN {cur} ELSE {}

\* The places a connection can be in, as sets of connections.
PartNames == {"held", "qconn", "qpacket", "dconn", "dpacket", "closed"}
Part == [held    |-> HeldSet,
         qconn   |-> Elems(chans["conn"]),
         qpacket |-> Elems(chans["packet"]),
         dconn   |-> delivered["conn"],
         dpacket |-> delivered["packet"],
         closed  |-> closed]

\* The strengthening of ConnsAccounted: outside acceptLoop's hold, cur is
\* NoConn; no channel holds a connection twice; the places are pairwise
\* disjoint and together hold the connections that arrived; a queued,
\* delivered or held-for-sending connection has the command of its queue.
CurIdle == ~Holding => cur = NoConn
QueuesNoDup == \A k \in Kinds : NoDup(chans[k])
Disjoint == \A p, q \in PartNames : p # q => Part[p] \cap Part[q] = {}
Covered == \A c \in Conns : c \in arrived <=> \E p \in PartNames : c \in Part[p]
Routed ==
    \A k \in Kinds :
        \A c \in Elems(chans[k]) \cup delivered[k] \cup SendingOn(k) :
            /\ cmdOf[c] \in {"connect", "associate"}
            /\ KindOfCommand(cmdOf[c]) = k

AInv == /\ TypeOK /\ CurArrived /\ CurIdle /\ QueuesNoDup /\ Disjoint
        /\ Covered /\ Routed

\* The parts of Locations(c).
LocHeld(c)   == IF cur = c THEN {"held"} ELSE {}
Positions(k, c) == {j \in 1..Len(chans[k]) : chans[k][j] = c}
LocQueued(c) == UNION {{<<k, i>> : i \in Positions(k, c)} : k \in Kinds}
LocDeliv(c)  == {<<k, "delivered">> : k \in {j \in Kinds : c \in delivered[j]}}
LocClosed(c) == IF c \in closed THEN {"closed"} ELSE {}

QName(k) == IF k = "conn" THEN "qconn" ELSE "qpacket"
DName(k) == IF k = "conn" THEN "dconn" ELSE "dpacket"

LEMMA LocationsSplit ==
    ASSUME NEW c
    PROVE  Locations(c) = LocHeld(c) \cup LocQueued(c) \cup LocDeliv(c) \cup LocClosed(c)
BY Zenon DEF Locations, LocHeld, LocQueued, Positions, LocDeliv, LocClosed

\* Under AInv, each part of Locations(c) is empty or a singleton according
\* to the place of c.
LEMMA LocParts ==
    ASSUME AInv, NEW c \in Conns
    PROVE  /\ LocHeld(c) = IF c \in Part.held THEN {"held"} ELSE {}
           /\ LocClosed(c) = IF c \in Part.closed THEN {"closed"} ELSE {}
           /\ \A k \in Kinds : c \notin Part[QName(k)] => Positions(k, c) = {}
           /\ \A k \in Kinds : c \in Part[QName(k)] =>
                 \E i \in 1..Len(chans[k]) : Positions(k, c) = {i}
           /\ \A k \in Kinds : c \in delivered[k] <=> c \in Part[DName(k)]
<1> USE DEF AInv, TypeOK, Kinds, QName, DName
<1>1. LocHeld(c) = IF c \in Part.held THEN {"held"} ELSE {}
  BY SimpleSocksAssumption DEF LocHeld, Part, HeldSet, CurIdle
<1>2. LocClosed(c) = IF c \in Part.closed THEN {"closed"} ELSE {}
  BY DEF LocClosed, Part
<1>3. ASSUME NEW k \in Kinds, c \notin Part[QName(k)] PROVE Positions(k, c) = {}
  BY <1>3 DEF Positions, Part, Elems
<1>4. ASSUME NEW k \in Kinds, c \in Part[QName(k)]
      PROVE  \E i \in 1..Len(chans[k]) : Positions(k, c) = {i}
  <2>1. PICK i \in 1..Len(chans[k]) : chans[k][i] = c
    BY <1>4 DEF Part, Elems
  <2>2. NoDup(chans[k])
    BY DEF QueuesNoDup
  <2>3. Positions(k, c) = {i}
    BY <2>1, <2>2 DEF Positions, NoDup
  <2>4. QED
    BY <2>3
<1>5. \A k \in Kinds : c \in delivered[k] <=> c \in Part[DName(k)]
  BY DEF Part
<1>6. QED
  BY <1>1, <1>2, <1>3, <1>4, <1>5

\* A connection in exactly one place has exactly one location.
LEMMA AInvAccounted == AInv => ConnsAccounted
<1> SUFFICES ASSUME AInv, NEW c \in Conns
             PROVE  /\ Cardinality(Locations(c)) = IF c \in arrived THEN 1 ELSE 0
                    /\ \A k \in Kinds :
                         (c \in delivered[k] \/ \E i \in 1..Len(chans[k]) : chans[k][i] = c)
                            => cmdOf[c] \in {"connect", "associate"}
                               /\ KindOfCommand(cmdOf[c]) = k
  BY DEF ConnsAccounted
<1> USE DEF Kinds
<1>1. \A k \in Kinds :
         (c \in delivered[k] \/ \E i \in 1..Len(chans[k]) : chans[k][i] = c)
            => cmdOf[c] \in {"connect", "associate"} /\ KindOfCommand(cmdOf[c]) = k
  BY DEF AInv, Routed, Elems
<1>2. Locations(c) = LocHeld(c) \cup LocQueued(c) \cup LocDeliv(c) \cup LocClosed(c)
  BY LocationsSplit
<1>3. LocQueued(c) = {<<"conn", i>> : i \in Positions("conn", c)}
                     \cup {<<"packet", i>> : i \in Positions("packet", c)}
  BY DEF LocQueued
<1>4. LocDeliv(c) = (IF c \in delivered["conn"] THEN {<<"conn", "delivered">>} ELSE {})
                    \cup (IF c \in delivered["packet"] THEN {<<"packet", "delivered">>} ELSE {})
  BY DEF LocDeliv
<1>5. /\ \A p, q \in PartNames : p # q /\ c \in Part[p] => c \notin Part[q]
      /\ (c \in arrived <=> \E p \in PartNames : c \in Part[p])
  BY DEF AInv, Disjoint, Covered
<1>6. /\ LocHeld(c) = IF c \in Part.held THEN {"held"} ELSE {}
      /\ LocClosed(c) = IF c \in Part.closed THEN {"closed"} ELSE {}
      /\ \A k \in Kinds : c \notin Part[QName(k)] => Positions(k, c) = {}
      /\ \A k \in Kinds : c \in Part[QName(k)] =>
            \E i \in 1..Len(chans[k]) : Positions(k, c) = {i}
      /\ \A k \in Kinds : c \in delivered[k] <=> c \in Part[DName(k)]
  BY LocParts
<1>7. ASSUME c \notin arrived PROVE Cardinality(Locations(c)) = 0
  <2>1. Locations(c) = {}
    BY <1>2, <1>3, <1>4, <1>5, <1>6, <1>7 DEF PartNames, QName, DName
  <2>2. Cardinality({}) = 0
    BY FS_EmptySet
  <2>3. QED
    BY <2>1, <2>2
<1>8. ASSUME c \in arrived PROVE Cardinality(Locations(c)) = 1
  <2>1. \E x : Locations(c) = {x}
    <3>1. PICK p \in PartNames : c \in Part[p]
      BY <1>5, <1>8
    <3>2. CASE p = "held"
      <4>1. Locations(c) = {"held"}
        BY <1>2, <1>3, <1>4, <1>5, <1>6, <3>1, <3>2 DEF PartNames, QName, DName
      <4>2. QED
        BY <4>1
    <3>3. CASE p = "closed"
      <4>1. Locations(c) = {"closed"}
        BY <1>2, <1>3, <1>4, <1>5, <1>6, <3>1, <3>3 DEF PartNames, QName, DName
      <4>2. QED
        BY <4>1
    <3>4. CASE p = "dconn"
      <4>1. Locations(c) = {<<"conn", "delivered">>}
        BY <1>2, <1>3, <1>4, <1>5, <1>6, <3>1, <3>4 DEF PartNames, QName, DName
      <4>2. QED
        BY <4>1
    <3>5. CASE p = "dpacket"
      <4>1. Locations(c) = {<<"packet", "delivered">>}
        BY <1>2, <1>3, <1>4, <1>5, <1>6, <3>1, <3>5 DEF PartNames, QName, DName
      <4>2. QED
        BY <4>1
    <3>6. CASE p = "qconn"
      <4>1. PICK i \in 1..Len(chans["conn"]) : Positions("conn", c) = {i}
        BY <1>6, <3>1, <3>6 DEF QName
      <4>2. Locations(c) = {<<"conn", i>>}
        BY <1>2, <1>3, <1>4, <1>5, <1>6, <3>1, <3>6, <4>1 DEF PartNames, QName, DName
      <4>3. QED
        BY <4>2
    <3>7. CASE p = "qpacket"
      <4>1. PICK i \in 1..Len(chans["packet"]) : Positions("packet", c) = {i}
        BY <1>6, <3>1, <3>7 DEF QName
      <4>2. Locations(c) = {<<"packet", i>>}
        BY <1>2, <1>3, <1>4, <1>5, <1>6, <3>1, <3>7, <4>1 DEF PartNames, QName, DName
      <4>3. QED
        BY <4>2
    <3>8. QED
      BY <3>2, <3>3, <3>4, <3>5, <3>6, <3>7 DEF PartNames
  <2>2. PICK x : Locations(c) = {x}
    BY <2>1
  <2>3. Cardinality({x}) = 1
    BY FS_Singleton
  <2>4. QED
    BY <2>2, <2>3
<1>9. QED
  BY <1>1, <1>7, <1>8

\* What a send and a receive do to the connections of a channel.
LEMMA ElemsAppend ==
    ASSUME NEW S, NEW s \in Seq(S), NEW x \in S
    PROVE  /\ Elems(Append(s, x)) = Elems(s) \cup {x}
           /\ NoDup(s) /\ x \notin Elems(s) => NoDup(Append(s, x))
BY DEF Elems, NoDup

LEMMA ElemsTail ==
    ASSUME NEW S, NEW s \in Seq(S), s # <<>>, NoDup(s)
    PROVE  /\ Head(s) \in Elems(s)
           /\ Elems(Tail(s)) = Elems(s) \ {Head(s)}
           /\ NoDup(Tail(s))
<1>1. Head(s) \in Elems(s)
  BY DEF Elems
<1>2. Elems(Tail(s)) = Elems(s) \ {Head(s)}
  <2>1. Elems(Tail(s)) = {s[i] : i \in 2..Len(s)}
    BY DEF Elems
  <2>2. \A i \in 2..Len(s) : s[i] # s[1]
    BY DEF NoDup
  <2>3. QED
    BY <2>1, <2>2 DEF Elems
<1>3. NoDup(Tail(s))
  BY DEF NoDup
<1>4. QED
  BY <1>1, <1>2, <1>3

LEMMA InitAInv == Init => AInv
<1> SUFFICES ASSUME Init PROVE AInv
  OBVIOUS
<1>1. IInv
  BY InitIInv
<1>2. \A p \in PartNames : Part[p] = {}
  BY DEF Init, Part, PartNames, HeldSet, Holding, Elems, Kinds
<1>3. QED
  BY <1>1, <1>2 DEF Init, AInv, IInv, CurIdle, Holding, QueuesNoDup, NoDup,
     Disjoint, Covered, Routed, Elems, SendingOn, SendState, Kinds

\* The places that a step of acceptLoop or of a consumer leaves as they were.
Same(names) == \A p \in names : Part'[p] = Part[p]

\* UnderlayAccept puts a new connection in acceptLoop's hold.
LEMMA AcceptAInv ==
    ASSUME AInv, NEW c \in Conns, UnderlayAccept(c)
    PROVE  CurIdle' /\ QueuesNoDup' /\ Disjoint' /\ Covered' /\ Routed'
<1>1. Part.held = {} /\ Part'.held = {c}
  BY DEF AInv, Part, HeldSet, Holding, UnderlayAccept
<1>2. Same(PartNames \ {"held"})
  BY DEF Same, Part, PartNames, UnderlayAccept
<1>3. \A p \in PartNames : c \notin Part[p]
  BY DEF AInv, Covered, UnderlayAccept
<1>4. Disjoint'
  BY <1>1, <1>2, <1>3 DEF AInv, Disjoint, Same, PartNames
<1>5. Covered'
  BY <1>1, <1>2 DEF AInv, Covered, Same, PartNames, UnderlayAccept
<1>6. Routed'
  BY DEF AInv, Routed, SendingOn, SendState, Kinds, UnderlayAccept, Elems
<1>7. QED
  BY <1>4, <1>5, <1>6 DEF AInv, CurIdle, Holding, QueuesNoDup, UnderlayAccept

\* A step that moves no connection and changes no command.
LEMMA QuietAInv ==
    ASSUME AInv,
           \/ UnderlayFail
           \/ \E k \in Kinds : AcceptClosed(k)
           \/ Close
           \/ UNCHANGED vars
    PROVE  CurIdle' /\ QueuesNoDup' /\ Disjoint' /\ Covered' /\ Routed'
<1>1. /\ Same(PartNames) /\ UNCHANGED <<cur, arrived, cmdOf, chans, delivered>>
      /\ Holding' = Holding /\ \A k \in Kinds : SendingOn(k)' = SendingOn(k)
  BY DEF AInv, Same, Part, PartNames, HeldSet, Holding, SendingOn, SendState,
     UnderlayFail, AcceptClosed, Close, vars, CurIdle
<1>2. QED
  BY <1>1 DEF AInv, Same, CurIdle, QueuesNoDup, Disjoint, Covered, Routed,
     PartNames

\* HeaderError and an unknown command close the held connection.
LEMMA CloseHeldAInv ==
    ASSUME AInv, \/ HeaderError
                 \/ ReadHeader("unknown")
    PROVE  CurIdle' /\ QueuesNoDup' /\ Disjoint' /\ Covered' /\ Routed'
<1>1. loop = "reading" /\ cur \in Conns /\ loop' = "accepting" /\ cur' = NoConn
      /\ closed' = closed \cup {cur} /\ UNCHANGED <<arrived, chans, delivered>>
      /\ \A c \in Conns \ {cur} : cmdOf'[c] = cmdOf[c]
  BY DEF AInv, TypeOK, CurArrived, HeaderError, ReadHeader
<1>2. Part.held = {cur} /\ Part'.held = {} /\ Part'.closed = Part.closed \cup {cur}
  BY <1>1 DEF Part, HeldSet, Holding
<1>3. Same(PartNames \ {"held", "closed"})
  BY <1>1 DEF Same, Part, PartNames
<1>4. \A p \in PartNames \ {"held"} : cur \notin Part[p]
  BY <1>2 DEF AInv, Disjoint, PartNames
<1>5. Disjoint'
  BY <1>2, <1>3, <1>4 DEF AInv, Disjoint, Same, PartNames
<1>6. Covered'
  BY <1>1, <1>2, <1>3 DEF AInv, Covered, Same, PartNames
<1>7. Routed'
  <2>1. \A k \in Kinds : SendingOn(k)' = {} /\ SendingOn(k) = {}
    BY <1>1 DEF SendingOn, SendState, Kinds
  <2>2. \A k \in Kinds : cur \notin Elems(chans[k]) \cup delivered[k]
    BY <1>4 DEF Part, PartNames, Kinds
  <2>3. \A k \in Kinds : Elems(chans[k]) \cup delivered[k] \subseteq Conns
    BY DEF AInv, TypeOK, Elems, Kinds
  <2>4. QED
    BY <1>1, <2>1, <2>2, <2>3 DEF AInv, Routed
<1>8. QED
  BY <1>1, <1>5, <1>6, <1>7 DEF AInv, CurIdle, Holding, QueuesNoDup

\* A Connect or Associate header keeps the connection held, now for the
\* send on the channel of its command.
LEMMA RouteHeldAInv ==
    ASSUME AInv, NEW cmd \in {"connect", "associate"}, ReadHeader(cmd)
    PROVE  CurIdle' /\ QueuesNoDup' /\ Disjoint' /\ Covered' /\ Routed'
<1> DEFINE k0 == KindOfCommand(cmd)
<1>1. /\ loop = "reading" /\ cur \in Conns /\ loop' = SendState(k0)
      /\ k0 \in Kinds /\ cur' = cur
      /\ UNCHANGED <<arrived, chans, delivered, closed>>
      /\ cmdOf' = [cmdOf EXCEPT ![cur] = cmd]
  BY DEF AInv, TypeOK, CurArrived, ReadHeader, KindOfCommand, Kinds, SendState
<1>2. Same(PartNames)
  BY <1>1 DEF Same, Part, PartNames, HeldSet, Holding, SendState, Kinds
<1>3. \A k \in Kinds : SendingOn(k)' = IF k = k0 THEN {cur} ELSE {}
  BY <1>1 DEF SendingOn, SendState, Kinds
<1>4. \A k \in Kinds : SendingOn(k) = {}
  BY <1>1 DEF SendingOn, SendState, Kinds
<1>5. \A k \in Kinds : cur \notin Elems(chans[k]) \cup delivered[k]
  <2>1. cur \in Part.held
    BY <1>1 DEF Part, HeldSet, Holding
  <2>2. QED
    BY <2>1 DEF AInv, Disjoint, Part, PartNames, Kinds
<1>6. Routed'
  <2>1. \A k \in Kinds : Elems(chans[k]) \cup delivered[k] \subseteq Conns
    BY DEF AInv, TypeOK, Elems, Kinds
  <2>2. cmdOf'[cur] = cmd /\ \A c \in Conns \ {cur} : cmdOf'[c] = cmdOf[c]
    BY <1>1 DEF AInv, TypeOK
  <2>3. QED
    BY <1>1, <1>3, <1>4, <1>5, <2>1, <2>2 DEF AInv, Routed
<1>7. QED
  BY <1>1, <1>2, <1>6 DEF AInv, Same, CurIdle, Holding, QueuesNoDup, Disjoint,
     Covered, PartNames, SendState, Kinds

\* A send moves the held connection to the end of its channel.
LEMMA EnqueueAInv ==
    ASSUME AInv, NEW k \in Kinds, Enqueue(k)
    PROVE  CurIdle' /\ QueuesNoDup' /\ Disjoint' /\ Covered' /\ Routed'
<1>1. /\ loop = SendState(k) /\ cur \in Conns /\ loop' = "accepting"
      /\ cur' = NoConn /\ chans' = [chans EXCEPT ![k] = Append(@, cur)]
      /\ UNCHANGED <<arrived, cmdOf, delivered, closed>>
  BY DEF AInv, TypeOK, CurArrived, Enqueue, SendState, Kinds
<1>2. chans[k] \in Seq(Conns)
  BY DEF AInv, TypeOK
<1>3. /\ Elems(chans'[k]) = Elems(chans[k]) \cup {cur}
      /\ \A j \in Kinds \ {k} : chans'[j] = chans[j]
  <2>1. chans'[k] = Append(chans[k], cur) /\ \A j \in Kinds \ {k} : chans'[j] = chans[j]
    BY <1>1 DEF AInv, TypeOK
  <2>2. QED
    BY <1>1, <1>2, <2>1, ElemsAppend
<1>4. cur \in Part.held /\ Part'.held = {}
  BY <1>1 DEF Part, HeldSet, Holding, SendState, Kinds
<1>5. \A p \in PartNames \ {"held"} : cur \notin Part[p]
  BY <1>4 DEF AInv, Disjoint, PartNames
<1>6. QueuesNoDup'
  <2>1. cur \notin Elems(chans[k])
    BY <1>5 DEF Part, PartNames, Kinds
  <2>2. NoDup(chans'[k])
    <3>1. chans'[k] = Append(chans[k], cur)
      BY <1>1 DEF AInv, TypeOK
    <3>2. QED
      BY <1>1, <1>2, <2>1, <3>1, ElemsAppend DEF AInv, QueuesNoDup
  <2>3. QED
    BY <1>3, <2>2 DEF AInv, QueuesNoDup
<1>7. /\ Part'[QName(k)] = Part[QName(k)] \cup {cur}
      /\ Same(PartNames \ {"held", QName(k)})
      /\ Part.held = {cur}
  BY <1>1, <1>3, <1>4 DEF Same, Part, PartNames, QName, HeldSet, Holding, Kinds,
     SendState
<1>8. Disjoint'
  BY <1>4, <1>5, <1>7 DEF AInv, Disjoint, Same, PartNames, QName, Kinds
<1>9. Covered'
  BY <1>1, <1>4, <1>7 DEF AInv, Covered, Same, PartNames, QName, Kinds
<1>10. Routed'
  <2>1. SendingOn(k) = {cur} /\ \A j \in Kinds : SendingOn(j)' = {}
    BY <1>1 DEF SendingOn, SendState, Kinds
  <2>2. \A j \in Kinds \ {k} : SendingOn(j) = {}
    BY <1>1 DEF SendingOn, SendState, Kinds
  <2>3. QED
    BY <1>1, <1>3, <2>1, <2>2 DEF AInv, Routed
<1>11. QED
  BY <1>1, <1>6, <1>8, <1>9, <1>10 DEF AInv, CurIdle, Holding

\* A consumer's receive moves the oldest connection of its channel to the
\* connections its Accept method returned.
LEMMA DeliverAInv ==
    ASSUME AInv, NEW k \in Kinds, AcceptQueued(k)
    PROVE  CurIdle' /\ QueuesNoDup' /\ Disjoint' /\ Covered' /\ Routed'
<1> DEFINE h == Head(chans[k])
<1>1. /\ chans[k] # <<>> /\ chans[k] \in Seq(Conns) /\ NoDup(chans[k])
      /\ chans'[k] = Tail(chans[k]) /\ \A j \in Kinds \ {k} : chans'[j] = chans[j]
      /\ delivered'[k] = delivered[k] \cup {h}
      /\ \A j \in Kinds \ {k} : delivered'[j] = delivered[j]
      /\ UNCHANGED <<loop, cur, arrived, cmdOf, closed>>
  BY DEF AInv, TypeOK, QueuesNoDup, AcceptQueued
<1>2. /\ h \in Elems(chans[k])
      /\ Elems(chans'[k]) = Elems(chans[k]) \ {h}
      /\ NoDup(chans'[k])
  BY <1>1, ElemsTail
<1>3. /\ Part'[QName(k)] = Part[QName(k)] \ {h}
      /\ Part'[DName(k)] = Part[DName(k)] \cup {h}
      /\ Same(PartNames \ {QName(k), DName(k)})
      /\ h \in Part[QName(k)]
  <2>1. Part'.held = Part.held /\ Part'.closed = Part.closed
    BY <1>1 DEF Part, HeldSet, Holding
  <2>2. \A j \in Kinds : /\ Part'[QName(j)] = Elems(chans'[j])
                        /\ Part[QName(j)] = Elems(chans[j])
                        /\ Part'[DName(j)] = delivered'[j]
                        /\ Part[DName(j)] = delivered[j]
    BY DEF Part, QName, DName, Kinds
  <2>3. \A j \in Kinds \ {k} : Elems(chans'[j]) = Elems(chans[j])
    BY <1>1
  <2>4. PartNames \ {QName(k), DName(k)} = {"held", "closed", QName(CHOOSE j \in Kinds : j # k), DName(CHOOSE j \in Kinds : j # k)}
    BY DEF PartNames, QName, DName, Kinds
  <2>5. QED
    BY <1>1, <1>2, <2>1, <2>2, <2>3, <2>4 DEF Same, Kinds
<1>4. Disjoint'
  BY <1>3 DEF AInv, Disjoint, Same, PartNames, QName, DName, Kinds
<1>5. Covered'
  BY <1>1, <1>3 DEF AInv, Covered, Same, PartNames, QName, DName, Kinds
<1>6. QueuesNoDup'
  BY <1>1, <1>2 DEF AInv, QueuesNoDup
<1>7. Routed'
  <2>1. \A j \in Kinds : SendingOn(j)' = SendingOn(j)
    BY <1>1 DEF SendingOn
  <2>2. QED
    BY <1>1, <1>2, <2>1 DEF AInv, Routed
<1>8. QED
  BY <1>1, <1>4, <1>5, <1>6, <1>7 DEF AInv, CurIdle, Holding

LEMMA NextAInv == AInv /\ [Next]_vars => AInv'
<1> SUFFICES ASSUME AInv, [Next]_vars PROVE AInv'
  OBVIOUS
<1>1. TypeOK' /\ CurArrived'
  BY NextIInv DEF AInv, IInv
<1>2. CurIdle' /\ QueuesNoDup' /\ Disjoint' /\ Covered' /\ Routed'
  <2>1. CASE \E c \in Conns : UnderlayAccept(c)
    BY <2>1, AcceptAInv
  <2>2. CASE HeaderError \/ ReadHeader("unknown")
    BY <2>2, CloseHeldAInv
  <2>3. CASE \E cmd \in {"connect", "associate"} : ReadHeader(cmd)
    BY <2>3, RouteHeldAInv
  <2>4. CASE \E k \in Kinds : Enqueue(k)
    BY <2>4, EnqueueAInv
  <2>5. CASE \E k \in Kinds : AcceptQueued(k)
    BY <2>5, DeliverAInv
  <2>6. CASE \/ UnderlayFail \/ \E k \in Kinds : AcceptClosed(k) \/ Close
             \/ UNCHANGED vars
    BY <2>6, QuietAInv
  <2>7. QED
    BY <2>1, <2>2, <2>3, <2>4, <2>5, <2>6
       DEF Next, acceptLoop, AcceptConn, AcceptPacket, Commands, Kinds
<1>3. QED
  BY <1>1, <1>2 DEF AInv

\* acceptLoop neither drops, duplicates nor misroutes a connection: every
\* connection the underlay handed out is, at every moment and for every
\* set of connections and channel capacity, in exactly one place (held by
\* acceptLoop, at one position of one channel, returned by one Accept
\* method, or closed), and one queued or returned went to the channel of
\* its header's command.
THEOREM ConnsAccountedHolds == Spec => []ConnsAccounted
<1>1. Spec => []AInv
  BY InitAInv, NextAInv, PTL DEF Spec
<1>2. QED
  BY <1>1, AInvAccounted, PTL
=============================================================================
