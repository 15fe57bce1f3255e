-------------------------- MODULE HttpServerProofs --------------------------
(***************************************************************************)
(* Proofs about the HTTP server model: its type invariant, and that a      *)
(* client connection never has two sessions open, for any set of          *)
(* connections, any bound on the requests and any capacity of connChan.   *)
(***************************************************************************)
EXTENDS HttpServer, TLAPS

\* y is an element of the sequence q.
InSeq(q, y) == \E i \in 1..Len(q) : q[i] = y

\* Session s has been sent on connChan: it is queued or AcceptConn has
\* returned it.
Sent(s) == s \in delivered \/ InSeq(chan, s)

\* The goroutine states in which the connection has a current session.
InLoop == {"sendOther", "writeReq", "readResp", "writeResp", "readNext"}

\* The strengthening: a goroutine before the loop has no request number, one
\* in the loop has a current request; no session of a later request has
\* been sent, every sent session of an earlier request is closed, the
\* current one is not sent before SendOther and is closed once the
\* goroutine is reading the next request.
SessionOrder ==
    \A c \in Conns :
        /\ h[c] \in {"none", "reading", "connectWrite", "sendConnect"}
               => n[c] = 0
        /\ h[c] \in InLoop => n[c] \in 1..MaxReqs
        /\ \A k \in 1..MaxReqs :
              /\ Sent(<<c, k>>) => k <= n[c]
              /\ Sent(<<c, k>>) /\ k < n[c] => <<c, k>> \in sessClosed
              /\ h[c] = "sendOther" /\ k = n[c] => ~Sent(<<c, k>>)
              /\ h[c] = "readNext" /\ k = n[c] => <<c, k>> \in sessClosed

IInv == TypeOK /\ SessionOrder

-----------------------------------------------------------------------------
(* Lemmas on the channel.                                                  *)

\* A send appends one item to what is in the channel.
LEMMA InSeqAppend ==
    ASSUME NEW S, NEW q \in Seq(S), NEW x \in S, NEW y
    PROVE  InSeq(Append(q, x), y) <=> InSeq(q, y) \/ y = x
BY DEF InSeq

\* A receive takes the head of the channel and leaves the rest.
LEMMA InSeqTail ==
    ASSUME NEW S, NEW q \in Seq(S), q # <<>>, NEW y
    PROVE  InSeq(q, y) <=> y = Head(q) \/ InSeq(Tail(q), y)
<1>1. Len(q) >= 1 /\ Len(Tail(q)) = Len(q) - 1
  OBVIOUS
<1>2. \A i \in 1..Len(Tail(q)) : Tail(q)[i] = q[i + 1]
  OBVIOUS
<1>3. ASSUME InSeq(q, y) PROVE y = Head(q) \/ InSeq(Tail(q), y)
  <2>1. PICK i \in 1..Len(q) : q[i] = y
    BY <1>3 DEF InSeq
  <2>2. CASE i = 1
    BY <2>1, <2>2
  <2>3. CASE i # 1
    <3>1. i - 1 \in 1..Len(Tail(q)) /\ Tail(q)[i - 1] = y
      BY <1>1, <1>2, <2>1, <2>3
    <3>2. QED
      BY <3>1 DEF InSeq
  <2>4. QED
    BY <2>2, <2>3
<1>4. ASSUME y = Head(q) \/ InSeq(Tail(q), y) PROVE InSeq(q, y)
  <2>1. CASE y = Head(q)
    <3>1. 1 \in 1..Len(q) /\ q[1] = y
      BY <1>1, <2>1
    <3>2. QED
      BY <3>1 DEF InSeq
  <2>2. CASE InSeq(Tail(q), y)
    <3>1. PICK j \in 1..Len(Tail(q)) : Tail(q)[j] = y
      BY <2>2 DEF InSeq
    <3>2. j + 1 \in 1..Len(q) /\ q[j + 1] = y
      BY <1>1, <1>2, <3>1
    <3>3. QED
      BY <3>2 DEF InSeq
  <2>3. QED
    BY <1>4, <2>1, <2>2
<1>5. QED
  BY <1>3, <1>4

-----------------------------------------------------------------------------

LEMMA InitIInv == Init => IInv
<1> SUFFICES ASSUME Init PROVE IInv
  OBVIOUS
<1>1. h \in [Conns -> HandlerStates] /\ n \in [Conns -> 0..MaxReqs]
  BY HttpServerAssumption DEF Init, HandlerStates
<1>2. chan \in Seq(Items) /\ Len(chan) <= QueueCap
  BY HttpServerAssumption DEF Init
<1>3. TypeOK
  BY <1>1, <1>2 DEF Init, TypeOK, Sessions, Items
<1>4. SessionOrder
  BY DEF Init, SessionOrder, Sent, InSeq, InLoop
<1>5. QED
  BY <1>3, <1>4 DEF IInv


\* Every step of the server, its goroutines, the proxy's relays and Close
\* keeps the strengthened invariant.
LEMMA NextIInv == IInv /\ [Next]_vars => IInv'
<1> SUFFICES ASSUME IInv, [Next]_vars PROVE IInv'
  OBVIOUS
<1>1. ASSUME NEW c \in Conns, Accept(c) PROVE IInv'
  BY <1>1, HttpServerAssumption DEF IInv, TypeOK, SessionOrder, Sent,
     InLoop, HandlerStates, Items, Sessions, Cur, Accept
<1>2. ASSUME NEW c \in Conns, ReadFail(c) PROVE IInv'
  BY <1>2, HttpServerAssumption DEF IInv, TypeOK, SessionOrder, Sent,
     InLoop, HandlerStates, Items, Sessions, Cur, ReadFail
<1>3. ASSUME NEW c \in Conns, ConnectRespond(c) PROVE IInv'
  BY <1>3, HttpServerAssumption DEF IInv, TypeOK, SessionOrder, Sent,
     InLoop, HandlerStates, Items, Sessions, Cur, ConnectRespond
<1>4. ASSUME NEW c \in Conns, SendConnect(c) PROVE IInv'
  <2>1. chan \in Seq(Items) /\ <<c, 0>> \in Items
    BY DEF IInv, TypeOK, Items
  <2>2. ASSUME NEW c2 \in Conns, NEW k \in 1..MaxReqs
        PROVE  Sent(<<c2, k>>)' <=> Sent(<<c2, k>>)
    <3>1. <<c2, k>> # <<c, 0>>
      OBVIOUS
    <3>2. InSeq(chan', <<c2, k>>) <=> InSeq(chan, <<c2, k>>)
      BY <1>4, <2>1, <3>1, InSeqAppend DEF SendConnect
    <3>3. QED
      BY <1>4, <3>2 DEF Sent, SendConnect
  <2>3. TypeOK'
    <3>1. chan' \in Seq(Items) /\ Len(chan') <= QueueCap
      BY <1>4, <2>1, HttpServerAssumption DEF SendConnect
    <3>2. h' \in [Conns -> HandlerStates] /\ handedOver' \subseteq Conns
      BY <1>4 DEF IInv, TypeOK, SendConnect, HandlerStates
    <3>3. QED
      BY <1>4, <3>1, <3>2 DEF IInv, TypeOK, SendConnect
  <2>4. SessionOrder'
    BY <1>4, <2>2 DEF IInv, SessionOrder, SendConnect, InLoop
  <2>5. QED
    BY <2>3, <2>4 DEF IInv
<1>5. ASSUME NEW c \in Conns, SendOther(c) PROVE IInv'
  <2>1. chan \in Seq(Items) /\ Cur(c) \in Items /\ n[c] \in 1..MaxReqs
    BY <1>5 DEF IInv, TypeOK, SessionOrder, InLoop, SendOther, Cur, Items,
       Sessions
  <2>2. ASSUME NEW c2 \in Conns, NEW k \in 1..MaxReqs
        PROVE  Sent(<<c2, k>>)' <=> Sent(<<c2, k>>) \/ <<c2, k>> = Cur(c)
    <3>1. InSeq(chan', <<c2, k>>)
              <=> InSeq(chan, <<c2, k>>) \/ <<c2, k>> = Cur(c)
      BY <1>5, <2>1, InSeqAppend DEF SendOther
    <3>2. QED
      BY <1>5, <3>1 DEF Sent, SendOther
  <2>3. TypeOK'
    <3>1. chan' \in Seq(Items) /\ Len(chan') <= QueueCap
      BY <1>5, <2>1, HttpServerAssumption DEF SendOther
    <3>2. h' \in [Conns -> HandlerStates]
      BY <1>5 DEF IInv, TypeOK, SendOther, HandlerStates
    <3>3. QED
      BY <1>5, <3>1, <3>2 DEF IInv, TypeOK, SendOther
  <2>4. SessionOrder'
    <3> SUFFICES ASSUME NEW c2 \in Conns
                 PROVE  (/\ h[c2] \in {"none", "reading", "connectWrite",
                                       "sendConnect"} => n[c2] = 0
                         /\ h[c2] \in InLoop => n[c2] \in 1..MaxReqs
                         /\ \A k \in 1..MaxReqs :
                              /\ Sent(<<c2, k>>) => k <= n[c2]
                              /\ Sent(<<c2, k>>) /\ k < n[c2]
                                   => <<c2, k>> \in sessClosed
                              /\ h[c2] = "sendOther" /\ k = n[c2]
                                   => ~Sent(<<c2, k>>)
                              /\ h[c2] = "readNext" /\ k = n[c2]
                                   => <<c2, k>> \in sessClosed)'
      BY DEF SessionOrder
    <3>1. CASE c2 = c
      BY <1>5, <2>1, <2>2, <3>1 DEF IInv, TypeOK, SessionOrder, SendOther,
         InLoop, Cur
    <3>2. CASE c2 # c
      <4>1. \A k \in 1..MaxReqs : Sent(<<c2, k>>)' <=> Sent(<<c2, k>>)
        BY <2>2, <3>2 DEF Cur
      <4>2. QED
        BY <1>5, <3>2, <4>1 DEF IInv, TypeOK, SessionOrder, SendOther
    <3>3. QED
      BY <3>1, <3>2
  <2>5. QED
    BY <2>3, <2>4 DEF IInv
<1>6. ASSUME NEW c \in Conns, WriteReq(c) PROVE IInv'
  BY <1>6, HttpServerAssumption DEF IInv, TypeOK, SessionOrder, Sent,
     InLoop, HandlerStates, Items, Sessions, Cur, WriteReq
<1>7. ASSUME NEW c \in Conns, WriteReqFail(c) PROVE IInv'
  BY <1>7, HttpServerAssumption DEF IInv, TypeOK, SessionOrder, Sent,
     InLoop, HandlerStates, Items, Sessions, Cur, WriteReqFail, Return
<1>8. ASSUME NEW c \in Conns, ReadResp(c) PROVE IInv'
  BY <1>8, HttpServerAssumption DEF IInv, TypeOK, SessionOrder, Sent,
     InLoop, HandlerStates, Items, Sessions, Cur, ReadResp
<1>9. ASSUME NEW c \in Conns, ReadRespFail(c) PROVE IInv'
  BY <1>9, HttpServerAssumption DEF IInv, TypeOK, SessionOrder, Sent,
     InLoop, HandlerStates, Items, Sessions, Cur, ReadRespFail, Return
<1>10. ASSUME NEW c \in Conns, WriteResp(c) PROVE IInv'
  BY <1>10, HttpServerAssumption DEF IInv, TypeOK, SessionOrder, Sent,
     InLoop, HandlerStates, Items, Sessions, Cur, WriteResp
<1>11. ASSUME NEW c \in Conns, WriteRespFail(c) PROVE IInv'
  BY <1>11, HttpServerAssumption DEF IInv, TypeOK, SessionOrder, Sent,
     InLoop, HandlerStates, Items, Sessions, Cur, WriteRespFail, Return
<1>12. ASSUME NEW c \in Conns, ReadNext(c) PROVE IInv'
  BY <1>12, HttpServerAssumption DEF IInv, TypeOK, SessionOrder, Sent,
     InLoop, HandlerStates, Items, Sessions, Cur, ReadNext
<1>13. ASSUME NEW c \in Conns, ReadNextFail(c) PROVE IInv'
  BY <1>13, HttpServerAssumption DEF IInv, TypeOK, SessionOrder, Sent,
     InLoop, HandlerStates, Items, Sessions, Cur, ReadNextFail, Return
<1>14. ASSUME NEW c \in Conns, NEW req \in FirstRequests, ReadFirst(c, req)
       PROVE  IInv'
  BY <1>14, HttpServerAssumption DEF IInv, TypeOK, SessionOrder, Sent,
     InLoop, HandlerStates, Items, Sessions, Cur, ReadFirst, FirstRequests
<1>15. ASSUME AcceptFail PROVE IInv'
  BY <1>15, HttpServerAssumption DEF IInv, TypeOK, SessionOrder, Sent,
     InLoop, HandlerStates, Items, Sessions, Cur, AcceptFail
<1>16. ASSUME AcceptQueued PROVE IInv'
  <2>1. chan \in Seq(Items) /\ chan # <<>>
    BY <1>16 DEF IInv, TypeOK, AcceptQueued
  <2>2. ASSUME NEW s PROVE Sent(s)' <=> Sent(s)
    <3>1. InSeq(chan, s) <=> s = Head(chan) \/ InSeq(Tail(chan), s)
      BY <2>1, InSeqTail
    <3>2. QED
      BY <1>16, <3>1 DEF Sent, AcceptQueued
  <2>3. TypeOK'
    <3>1. chan' \in Seq(Items) /\ Len(chan') <= QueueCap
      BY <1>16, <2>1, HttpServerAssumption DEF IInv, TypeOK, AcceptQueued
    <3>2. delivered' \subseteq Items
      BY <1>16, <2>1 DEF IInv, TypeOK, AcceptQueued
    <3>3. QED
      BY <1>16, <3>1, <3>2 DEF IInv, TypeOK, AcceptQueued
  <2>4. SessionOrder'
    BY <1>16, <2>2 DEF IInv, SessionOrder, AcceptQueued
  <2>5. QED
    BY <2>3, <2>4 DEF IInv
<1>17. ASSUME AcceptClosed PROVE IInv'
  BY <1>17, HttpServerAssumption DEF IInv, TypeOK, SessionOrder, Sent,
     InLoop, HandlerStates, Items, Sessions, Cur, AcceptClosed
<1>18. ASSUME Close PROVE IInv'
  BY <1>18, HttpServerAssumption DEF IInv, TypeOK, SessionOrder, Sent,
     InLoop, HandlerStates, Items, Sessions, Cur, Close
<1>19. ASSUME NEW i \in Items, RelayClose(i) PROVE IInv'
  BY <1>19, HttpServerAssumption DEF IInv, TypeOK, SessionOrder, Sent,
     InLoop, HandlerStates, Items, Sessions, Cur, RelayClose
<1>20. CASE UNCHANGED vars
  BY <1>20, HttpServerAssumption DEF IInv, TypeOK, SessionOrder, Sent,
     InLoop, HandlerStates, Items, Sessions, Cur, vars
<1>21. QED
  BY <1>1, <1>2, <1>3, <1>4, <1>5, <1>6, <1>7, <1>8, <1>9, <1>10, <1>11,
     <1>12, <1>13, <1>14, <1>15, <1>16, <1>17, <1>18, <1>19, <1>20 DEF Next,
     acceptLoop, handler, AcceptConn


\* The strengthening gives the property: a sent, unclosed session of c is
\* neither of a later request nor of an earlier one.
LEMMA IInvSessions == IInv => SessionsSequential
<1> SUFFICES ASSUME IInv, NEW c \in Conns, NEW s \in OpenSessions(c)
             PROVE  s = Cur(c)
  BY DEF SessionsSequential
<1>1. PICK k \in 1..MaxReqs : s = <<c, k>>
  BY DEF OpenSessions
<1>2. Sent(s) /\ s \notin sessClosed
  BY <1>1 DEF OpenSessions, Sent, InSeq
<1>3. k <= n[c] /\ ~(k < n[c]) /\ n[c] \in Nat
  BY <1>1, <1>2 DEF IInv, TypeOK, SessionOrder
<1>4. QED
  BY <1>1, <1>3 DEF Cur

\* The HTTP server model's variables keep their types in every reachable
\* state: connChan never holds more than its capacity.
THEOREM TypeCorrect == Spec => []TypeOK
<1>1. Spec => []IInv
  BY InitIInv, NextIInv, PTL DEF Spec
<1>2. QED
  BY <1>1, PTL DEF IInv

\* Whatever the clients, the proxy's relays and Close do, acceptLoop's
\* goroutine for a keep-alive connection never has two of its OtherConn
\* sessions open: it closes each one before it reads the next request.
THEOREM SessionsSequentialHolds == Spec => []SessionsSequential
<1>1. Spec => []IInv
  BY InitIInv, NextIInv, PTL DEF Spec
<1>2. QED
  BY <1>1, IInvSessions, PTL

=============================================================================
