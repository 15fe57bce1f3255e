--------------------------- MODULE SimpleSocksServer ---------------------------
(***************************************************************************)
(* The simplesocks server (tunnel/simplesocks server.go): one acceptLoop   *)
(* goroutine takes each connection from the underlying tunnel server,      *)
(* reads its simplesocks header in the loop itself, and queues it on       *)
(* connChan (Connect) or packetChan (Associate), two buffered channels of  *)
(* capacity 32.  AcceptConn / AcceptPacket, called by the proxy's accept   *)
(* loops, select between a queued connection and ctx.Done.  Close cancels  *)
(* ctx and closes the underlay, whose accepts then fail.                   *)
(*                                                                         *)
(* The underlay hands out each connection of Conns once; the peer behind   *)
(* it sends a Connect, Associate or unknown header, or garbage.  The       *)
(* consumers are the proxy's relayConnLoop and relayPacketLoop, which call *)
(* Accept again after each connection and return after an error once ctx   *)
(* is done.                                                                *)
(***************************************************************************)
EXTENDS Naturals, Sequences, FiniteSets

CONSTANTS
    Conns,      \* connections the underlying tunnel server hands out
    NoConn,     \* the loop holds no connection
    QueueCap    \* capacity of connChan and packetChan

ASSUME SimpleSocksAssumption ==
    /\ IsFiniteSet(Conns)
    /\ NoConn \notin Conns
    /\ QueueCap \in Nat \ {0}

\* The two queues, named by the Accept method that drains them.
Kinds == {"conn", "packet"}

\* metadata.Command of a header: Connect, Associate, or another value.
Commands == {"connect", "associate", "unknown"}

\* The queue a command is sent to by the switch of acceptLoop.
KindOfCommand(cmd) == IF cmd = "connect" THEN "conn" ELSE "packet"

\* Where acceptLoop is: in underlay.AcceptConn, in metadata.ReadFrom, in a
\* channel send, or returned.
LoopStates == {"accepting", "reading", "sendConn", "sendPacket", "exited"}

SendState(k) == IF k = "conn" THEN "sendConn" ELSE "sendPacket"

VARIABLES
    ctxDone,    \* s.ctx is cancelled
    loop,       \* where the acceptLoop goroutine is
    cur,        \* the connection acceptLoop holds
    arrived,    \* connections the underlay has handed out
    cmdOf,      \* the command read from each connection's header
    chans,      \* contents of connChan and packetChan, oldest first
    delivered,  \* connections each Accept method has returned
    closed,     \* connections acceptLoop has closed
    consumer    \* the proxy accept loop calling AcceptConn / AcceptPacket

vars == <<ctxDone, loop, cur, arrived, cmdOf, chans, delivered, closed,
          consumer>>

TypeOK ==
    /\ ctxDone \in BOOLEAN
    /\ loop \in LoopStates
    /\ cur \in Conns \cup {NoConn}
    /\ arrived \subseteq Conns
    /\ cmdOf \in [Conns -> Commands \cup {"none"}]
    /\ chans \in [Kinds -> Seq(Conns)]
    /\ \A k \in Kinds : Len(chans[k]) <= QueueCap
    /\ delivered \in [Kinds -> SUBSET Conns]
    /\ closed \subseteq Conns
    /\ consumer \in [Kinds -> {"running", "exited"}]

\* NewServer has started acceptLoop; the proxy's loops are calling Accept.
Init ==
    /\ ctxDone = FALSE
    /\ loop = "accepting"
    /\ cur = NoConn
    /\ arrived = {}
    /\ cmdOf = [c \in Conns |-> "none"]
    /\ chans = [k \in Kinds |-> <<>>]
    /\ delivered = [k \in Kinds |-> {}]
    /\ closed = {}
    /\ consumer = [k \in Kinds |-> "running"]

-----------------------------------------------------------------------------
(* acceptLoop.                                                             *)

\* underlay.AcceptConn returns a connection.  The underlay is itself a
\* queue, so it may still return one after Close.
UnderlayAccept(c) ==
    /\ loop = "accepting"
    /\ c \notin arrived
    /\ arrived' = arrived \cup {c}
    /\ cur' = c
    /\ loop' = "reading"
    /\ UNCHANGED <<ctxDone, cmdOf, chans, delivered, closed, consumer>>

\* underlay.AcceptConn fails with ctx done: acceptLoop returns.  A failure
\* with ctx not done only logs and loops, which changes nothing.
UnderlayFail ==
    /\ loop = "accepting"
    /\ ctxDone
    /\ loop' = "exited"
    /\ UNCHANGED <<ctxDone, cur, arrived, cmdOf, chans, delivered, closed,
                   consumer>>

\* Mutant: the conn.Close of the header error path missing.
HeaderErrorLeaks ==
    /\ loop = "reading"
    /\ cur' = NoConn
    /\ loop' = "accepting"
    /\ UNCHANGED <<ctxDone, arrived, cmdOf, chans, delivered, closed, consumer>>

\* metadata.ReadFrom fails: the connection is closed and the loop goes on.
HeaderError ==
    /\ loop = "reading"
    /\ closed' = closed \cup {cur}
    /\ cur' = NoConn
    /\ loop' = "accepting"
    /\ UNCHANGED <<ctxDone, arrived, cmdOf, chans, delivered, consumer>>

\* The header is read: Connect and Associate go to their channel's send,
\* any other command closes the connection.
ReadHeader(cmd) ==
    /\ loop = "reading"
    /\ cmdOf' = [cmdOf EXCEPT ![cur] = cmd]
    /\ \/ /\ cmd \in {"connect", "associate"}
          /\ loop' = SendState(KindOfCommand(cmd))
          /\ UNCHANGED <<cur, closed>>
       \/ /\ cmd = "unknown"
          /\ closed' = closed \cup {cur}
          /\ cur' = NoConn
          /\ loop' = "accepting"
    /\ UNCHANGED <<ctxDone, arrived, chans, delivered, consumer>>

\* Mutant: a send that never waits for room in the channel.
EnqueueUnbounded(k) ==
    /\ loop = SendState(k)
    /\ chans' = [chans EXCEPT ![k] = Append(@, cur)]
    /\ cur' = NoConn
    /\ loop' = "accepting"
    /\ UNCHANGED <<ctxDone, arrived, cmdOf, delivered, closed, consumer>>

\* s.connChan <- conn / s.packetChan <- conn: a plain send, which blocks
\* while the channel is full, whether or not ctx is done.
Enqueue(k) ==
    /\ loop = SendState(k)
    /\ Len(chans[k]) < QueueCap
    /\ chans' = [chans EXCEPT ![k] = Append(@, cur)]
    /\ cur' = NoConn
    /\ loop' = "accepting"
    /\ UNCHANGED <<ctxDone, arrived, cmdOf, delivered, closed, consumer>>

-----------------------------------------------------------------------------
(* AcceptConn / AcceptPacket, called by the proxy's accept loop of kind k. *)
(* When a connection is queued and ctx is done, Go's select picks either   *)
(* case.                                                                   *)

\* The select receives a queued connection and returns it.
AcceptQueued(k) ==
    /\ consumer[k] = "running"
    /\ chans[k] # <<>>
    /\ delivered' = [delivered EXCEPT ![k] = @ \cup {Head(chans[k])}]
    /\ chans' = [chans EXCEPT ![k] = Tail(@)]
    /\ UNCHANGED <<ctxDone, loop, cur, arrived, cmdOf, closed, consumer>>

\* The select takes ctx.Done and returns an error; the proxy's loop sees
\* its own ctx done and returns.
AcceptClosed(k) ==
    /\ consumer[k] = "running"
    /\ ctxDone
    /\ consumer' = [consumer EXCEPT ![k] = "exited"]
    /\ UNCHANGED <<ctxDone, loop, cur, arrived, cmdOf, chans, delivered,
                   closed>>

\* Server.Close (reached from Proxy.Close): s.cancel(), underlay.Close().
Close ==
    /\ ~ctxDone
    /\ ctxDone' = TRUE
    /\ UNCHANGED <<loop, cur, arrived, cmdOf, chans, delivered, closed,
                   consumer>>

-----------------------------------------------------------------------------

\* The acceptLoop goroutine.
acceptLoop ==
    \/ \E c \in Conns : UnderlayAccept(c)
    \/ UnderlayFail
    \/ HeaderError
    \/ \E cmd \in Commands : ReadHeader(cmd)
    \/ \E k \in Kinds : Enqueue(k)

\* Server.AcceptConn.
AcceptConn == AcceptQueued("conn") \/ AcceptClosed("conn")

\* Server.AcceptPacket.
AcceptPacket == AcceptQueued("packet") \/ AcceptClosed("packet")

Next == acceptLoop \/ AcceptConn \/ AcceptPacket \/ Close

(***************************************************************************)
(* Fairness: the goroutines of the server and of the proxy's accept loops  *)
(* are scheduled.  The underlay handing out a connection, the peer         *)
(* sending its header, and the owner calling Close are not fair.           *)
(***************************************************************************)
Fairness ==
    /\ WF_vars(UnderlayFail)
    /\ \A k \in Kinds : /\ WF_vars(Enqueue(k))
                        /\ WF_vars(AcceptQueued(k))
                        /\ WF_vars(AcceptClosed(k))

Spec == Init /\ [][Next]_vars /\ Fairness

-----------------------------------------------------------------------------
(* Properties.                                                             *)

\* The places a connection can be in: held by acceptLoop between its
\* accept and its send, at a position of a channel, returned by an Accept
\* method, or closed by acceptLoop.
Locations(c) ==
    (IF cur = c THEN {"held"} ELSE {})
      \cup (UNION {{<<k, i>> : i \in {j \in 1..Len(chans[k]) : chans[k][j] = c}}
                   : k \in Kinds})
      \cup {<<k, "delivered">> : k \in {j \in Kinds : c \in delivered[j]}}
      \cup (IF c \in closed THEN {"closed"} ELSE {})

\* Every connection the underlay handed out is in exactly one place, and
\* one that was queued or returned went to the queue of its header's
\* command: acceptLoop neither drops, duplicates nor misroutes a
\* connection, whatever the interleaving with Close and the consumers.
ConnsAccounted ==
    \A c \in Conns :
        /\ Cardinality(Locations(c)) = IF c \in arrived THEN 1 ELSE 0
        /\ \A k \in Kinds :
              (c \in delivered[k] \/ \E i \in 1..Len(chans[k]) : chans[k][i] = c)
                  => cmdOf[c] \in {"connect", "associate"}
                     /\ KindOfCommand(cmdOf[c]) = k

\* A send of acceptLoop on connChan or packetChan that is pending when ctx
\* is cancelled completes (spec section 8, property 7: once the root scope
\* is cancelled every accept loop exits and no task remains).
EnqueueCompletes ==
    \A k \in Kinds :
        (ctxDone /\ loop = SendState(k)) ~> (loop # SendState(k))

-----------------------------------------------------------------------------
(* Refinement of ConnQueue.  A connection whose header is being read has   *)
(* not been sorted yet; one held by acceptLoop in a blocked send is at the *)
(* end of its queue, after the connections buffered in the channel.       *)

\* The connection acceptLoop is blocked sending on the channel of kind k.
Held(k) == IF loop = SendState(k) THEN <<cur>> ELSE <<>>

\* The connections acceptLoop has sorted.
Sorted == arrived \ (IF loop = "reading" THEN {cur} ELSE {})

CQ == INSTANCE ConnQueue WITH
        seen <- Sorted,
        queue <- [k \in Kinds |-> chans[k] \o Held(k)],
        rejected <- closed

\* The simplesocks server implements ConnQueue: acceptLoop sorts each
\* connection once, to the channel of its command or to conn.Close, and
\* AcceptConn / AcceptPacket hand out each channel's connections oldest
\* first, a blocked send of acceptLoop coming after the buffered ones.
ImplementsConnQueue == CQ!Spec

=============================================================================
