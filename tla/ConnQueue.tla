------------------------------ MODULE ConnQueue ------------------------------
(***************************************************************************)
(* What a tunnel server that sorts its inbound connections into queues     *)
(* promises its consumers (the proxy's accept loops): every connection the *)
(* underlay hands out is taken once, and either rejected (closed) or put   *)
(* at the end of the queue of its kind; each queue hands out its           *)
(* connections oldest first, to the consumer of that kind; once the server *)
(* is cancelled a consumer may stop.  No bound is placed on a queue here:  *)
(* how a server holds back its producer is its own business.               *)
(***************************************************************************)
EXTENDS Sequences

CONSTANTS
    Conns,      \* the connections the underlay hands out
    Kinds       \* the queues, one per consumer

VARIABLES
    ctxDone,    \* the server is cancelled
    seen,       \* connections taken from the underlay and sorted
    queue,      \* each queue, oldest first
    delivered,  \* connections each consumer has received
    rejected,   \* connections closed instead of queued
    consumer    \* each consumer is running or has exited

cqVars == <<ctxDone, seen, queue, delivered, rejected, consumer>>

Init ==
    /\ ctxDone = FALSE
    /\ seen = {}
    /\ queue = [k \in Kinds |-> <<>>]
    /\ delivered = [k \in Kinds |-> {}]
    /\ rejected = {}
    /\ consumer = [k \in Kinds |-> "running"]

\* A new connection is put at the end of queue k.
Route(c, k) ==
    /\ c \notin seen
    /\ seen' = seen \cup {c}
    /\ queue' = [queue EXCEPT ![k] = Append(@, c)]
    /\ UNCHANGED <<ctxDone, delivered, rejected, consumer>>

\* A new connection is closed.
Reject(c) ==
    /\ c \notin seen
    /\ seen' = seen \cup {c}
    /\ rejected' = rejected \cup {c}
    /\ UNCHANGED <<ctxDone, queue, delivered, consumer>>

\* The consumer of kind k receives the oldest connection of its queue.
Deliver(k) ==
    /\ consumer[k] = "running"
    /\ queue[k] # <<>>
    /\ delivered' = [delivered EXCEPT ![k] = @ \cup {Head(queue[k])}]
    /\ queue' = [queue EXCEPT ![k] = Tail(@)]
    /\ UNCHANGED <<ctxDone, seen, rejected, consumer>>

\* After cancellation the consumer of kind k stops.
Stop(k) ==
    /\ consumer[k] = "running"
    /\ ctxDone
    /\ consumer' = [consumer EXCEPT ![k] = "exited"]
    /\ UNCHANGED <<ctxDone, seen, queue, delivered, rejected>>

Cancel ==
    /\ ~ctxDone
    /\ ctxDone' = TRUE
    /\ UNCHANGED <<seen, queue, delivered, rejected, consumer>>

Next ==
    \/ \E c \in Conns : Reject(c) \/ \E k \in Kinds : Route(c, k)
    \/ \E k \in Kinds : Deliver(k) \/ Stop(k)
    \/ Cancel

Spec == Init /\ [][Next]_cqVars
=============================================================================
