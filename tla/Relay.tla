-------------------------------- MODULE Relay --------------------------------
(***************************************************************************)
(* The proxy relay engine of proxy/proxy.go: Proxy.Run starts one accept   *)
(* loop per kind of inbound flow (relayConnLoop for streams,               *)
(* relayPacketLoop for datagram flows); each accepted inbound flow gets a  *)
(* handler goroutine that dials the sink and starts two copy goroutines,   *)
(* one per direction, which report on a buffered channel errChan of        *)
(* capacity 2.  The handler returns on the first report or on ctx.Done,    *)
(* closing both legs in its deferred calls.  Proxy.Close cancels ctx.      *)
(*                                                                         *)
(* The source and the sink are abstract: the source hands out each         *)
(* inbound flow of Inbound once, and fails its accept once ctx is done;    *)
(* the sink's dial may succeed or fail.  The remote peers of both legs     *)
(* may close (or, for datagram flows, hit their idle deadline) at any      *)
(* time.  Bytes are not modelled: only when a copy loop returns.           *)
(***************************************************************************)
EXTENDS Naturals, FiniteSets

CONSTANTS
    Streams,    \* inbound streams the source's AcceptConn hands out
    Flows       \* inbound datagram flows the source's AcceptPacket hands out

ASSUME RelayAssumption ==
    /\ IsFiniteSet(Streams) /\ IsFiniteSet(Flows)
    /\ Streams \cap Flows = {}

Inbound == Streams \cup Flows

\* The two accept loops of Run: relayConnLoop and relayPacketLoop.
Kinds == {"conn", "packet"}

KindOf(k) == IF k = "conn" THEN Streams ELSE Flows

\* The two legs of a relay: the inbound flow and the outbound one dialled
\* from the sink.  A copy goroutine is named by the leg it reads from.
Sides == {"in", "out"}

Other(s) == IF s = "in" THEN "out" ELSE "in"

\* Mutant: an errChan of capacity 1.
ErrChanCapOne == 1

\* errChan := make(chan error, 2)
ErrChanCap == 2

CopyStates == {"none", "copying", "sending", "exited"}

VARIABLES
    ctxDone,    \* p.ctx is cancelled
    loops,      \* state of the accept loop goroutine of each kind
    st,         \* state of the handler goroutine of each inbound flow
    inOpen,     \* inbound legs not yet closed
    outOpen,    \* outbound legs dialled and not yet closed
    peerEOF,    \* legs whose remote end has closed
    cp,         \* state of the two copy goroutines of each relay
    errs,       \* number of values buffered in each relay's errChan
    taken       \* relays whose handler received a value from errChan

vars == <<ctxDone, loops, st, inOpen, outOpen, peerEOF, cp, errs, taken>>

TypeOK ==
    /\ ctxDone \in BOOLEAN
    /\ loops \in [Kinds -> {"running", "exited"}]
    /\ st \in [Inbound -> {"pending", "dialing", "relaying", "done"}]
    /\ inOpen \subseteq Inbound
    /\ outOpen \subseteq Inbound
    /\ peerEOF \in [Inbound -> SUBSET Sides]
    /\ cp \in [Inbound -> [Sides -> CopyStates]]
    /\ errs \in [Inbound -> 0..ErrChanCap]
    /\ taken \subseteq Inbound

\* The legs of relay c that are open on side s.
IsOpen(c, s) == IF s = "in" THEN c \in inOpen ELSE c \in outOpen

\* Run has started both accept loops; no inbound flow has arrived yet.
Init ==
    /\ ctxDone = FALSE
    /\ loops = [k \in Kinds |-> "running"]
    /\ st = [c \in Inbound |-> "pending"]
    /\ inOpen = {}
    /\ outOpen = {}
    /\ peerEOF = [c \in Inbound |-> {}]
    /\ cp = [c \in Inbound |-> [s \in Sides |-> "none"]]
    /\ errs = [c \in Inbound |-> 0]
    /\ taken = {}

-----------------------------------------------------------------------------
(* The accept loops.                                                       *)

\* source.AcceptConn / AcceptPacket returns an inbound flow: the loop
\* spawns its handler goroutine and accepts again.
Accept(k, c) ==
    /\ loops[k] = "running"
    /\ c \in KindOf(k)
    /\ st[c] = "pending"
    /\ st' = [st EXCEPT ![c] = "dialing"]
    /\ inOpen' = inOpen \cup {c}
    /\ UNCHANGED <<ctxDone, loops, outOpen, peerEOF, cp, errs, taken>>

\* The accept fails with ctx done: the loop logs and returns.  A failure
\* with ctx not done only logs and loops, which changes nothing.
AcceptFail(k) ==
    /\ loops[k] = "running"
    /\ ctxDone
    /\ loops' = [loops EXCEPT ![k] = "exited"]
    /\ UNCHANGED <<ctxDone, st, inOpen, outOpen, peerEOF, cp, errs, taken>>

-----------------------------------------------------------------------------
(* The handler goroutine of one inbound flow.                              *)

\* sink.DialConn / sink.DialPacket succeeds: both copy goroutines start and
\* the handler waits in its select.
DialOK(c) ==
    /\ st[c] = "dialing"
    /\ st' = [st EXCEPT ![c] = "relaying"]
    /\ outOpen' = outOpen \cup {c}
    /\ cp' = [cp EXCEPT ![c] = [s \in Sides |-> "copying"]]
    /\ UNCHANGED <<ctxDone, loops, inOpen, peerEOF, errs, taken>>

\* The dial fails: the handler returns and its deferred inbound.Close runs.
DialFail(c) ==
    /\ st[c] = "dialing"
    /\ st' = [st EXCEPT ![c] = "done"]
    /\ inOpen' = inOpen \ {c}
    /\ UNCHANGED <<ctxDone, loops, outOpen, peerEOF, cp, errs, taken>>

\* Mutant: the receive taken without a value in the channel.
RelayDoneUnguarded(c) ==
    /\ st[c] = "relaying"
    /\ errs' = [errs EXCEPT ![c] = @ - 1]
    /\ taken' = taken \cup {c}
    /\ st' = [st EXCEPT ![c] = "done"]
    /\ inOpen' = inOpen \ {c}
    /\ outOpen' = outOpen \ {c}
    /\ UNCHANGED <<ctxDone, loops, peerEOF, cp>>

\* Mutant: the deferred outbound.Close missing.
RelayDoneKeepsOutbound(c) ==
    /\ st[c] = "relaying"
    /\ errs[c] > 0
    /\ errs' = [errs EXCEPT ![c] = @ - 1]
    /\ taken' = taken \cup {c}
    /\ st' = [st EXCEPT ![c] = "done"]
    /\ inOpen' = inOpen \ {c}
    /\ UNCHANGED <<ctxDone, loops, outOpen, peerEOF, cp>>

\* The select receives the first copy result: the handler returns, and the
\* deferred outbound.Close and inbound.Close run.
RelayDone(c) ==
    /\ st[c] = "relaying"
    /\ errs[c] > 0
    /\ errs' = [errs EXCEPT ![c] = @ - 1]
    /\ taken' = taken \cup {c}
    /\ st' = [st EXCEPT ![c] = "done"]
    /\ inOpen' = inOpen \ {c}
    /\ outOpen' = outOpen \ {c}
    /\ UNCHANGED <<ctxDone, loops, peerEOF, cp>>

\* Mutant: the select without its ctx.Done case.
RelayCancelledMissing(c) == FALSE

\* The select takes ctx.Done: the handler returns and the same deferred
\* closes run (for packets it falls out of the select to the same return).
RelayCancelled(c) ==
    /\ st[c] = "relaying"
    /\ ctxDone
    /\ st' = [st EXCEPT ![c] = "done"]
    /\ inOpen' = inOpen \ {c}
    /\ outOpen' = outOpen \ {c}
    /\ UNCHANGED <<ctxDone, loops, peerEOF, cp, errs, taken>>

-----------------------------------------------------------------------------
(* The copy goroutines copyConn / copyPacket.  cp[c][s] reads leg s and    *)
(* writes leg Other(s).                                                    *)

\* The read of leg s returns EOF or an error: its peer closed, or the leg
\* was closed locally, which unblocks a pending read.
CopyEOF(c, s) ==
    /\ cp[c][s] = "copying"
    /\ s \in peerEOF[c] \/ ~IsOpen(c, s)
    /\ cp' = [cp EXCEPT ![c][s] = "sending"]
    /\ UNCHANGED <<ctxDone, loops, st, inOpen, outOpen, peerEOF, errs, taken>>

\* Data arrives and its write to the other leg fails because that leg was
\* closed.  Nothing forces data to arrive, so this step is not fair.
CopyWriteErr(c, s) ==
    /\ cp[c][s] = "copying"
    /\ Other(s) \in peerEOF[c] \/ ~IsOpen(c, Other(s))
    /\ cp' = [cp EXCEPT ![c][s] = "sending"]
    /\ UNCHANGED <<ctxDone, loops, st, inOpen, outOpen, peerEOF, errs, taken>>

\* errChan <- err; the goroutine then returns.  The send blocks while the
\* channel is full.
CopySend(c, s) ==
    /\ cp[c][s] = "sending"
    /\ errs[c] < ErrChanCap
    /\ errs' = [errs EXCEPT ![c] = @ + 1]
    /\ cp' = [cp EXCEPT ![c][s] = "exited"]
    /\ UNCHANGED <<ctxDone, loops, st, inOpen, outOpen, peerEOF, taken>>

-----------------------------------------------------------------------------
(* The environment: remote peers and the owner of the proxy.               *)

\* The remote end of an open leg closes (for a datagram flow: its idle
\* deadline passes).
PeerClose(c, s) ==
    /\ IsOpen(c, s)
    /\ s \notin peerEOF[c]
    /\ peerEOF' = [peerEOF EXCEPT ![c] = @ \cup {s}]
    /\ UNCHANGED <<ctxDone, loops, st, inOpen, outOpen, cp, errs, taken>>

\* Proxy.Close: p.cancel(), then sink.Close() and source.Close(), which
\* make further accepts fail.  A second Close changes nothing.
Close ==
    /\ ~ctxDone
    /\ ctxDone' = TRUE
    /\ UNCHANGED <<loops, st, inOpen, outOpen, peerEOF, cp, errs, taken>>

-----------------------------------------------------------------------------

(* The goroutines of proxy.go, grouped as in the code.                     *)

\* relayConnLoop's accept loop over source.AcceptConn.
relayConnLoop ==
    \/ \E c \in Streams : Accept("conn", c)
    \/ AcceptFail("conn")

\* relayPacketLoop's accept loop over source.AcceptPacket.
relayPacketLoop ==
    \/ \E c \in Flows : Accept("packet", c)
    \/ AcceptFail("packet")

\* The handler goroutine of an inbound flow, over its whole life.
Handler(c) == DialOK(c) \/ DialFail(c) \/ RelayDone(c) \/ RelayCancelled(c)

\* The handler goroutine relayConnLoop spawns for a stream.
connHandler(c) == c \in Streams /\ Handler(c)

\* The handler goroutine relayPacketLoop spawns for a datagram flow.
packetHandler(c) == c \in Flows /\ Handler(c)

\* One copy goroutine, from io.Copy's return to its errChan send.
Copy(c, s) == CopyEOF(c, s) \/ CopyWriteErr(c, s) \/ CopySend(c, s)

\* copyConn: io.Copy between the two legs of a stream relay.
copyConn(c, s) == c \in Streams /\ Copy(c, s)

\* copyPacket: the ReadWithMetadata / WriteWithMetadata loop of a datagram
\* relay; a zero-length read ends it like an EOF.
copyPacket(c, s) == c \in Flows /\ Copy(c, s)

Next ==
    \/ relayConnLoop
    \/ relayPacketLoop
    \/ \E c \in Streams : connHandler(c)
    \/ \E c \in Flows : packetHandler(c)
    \/ \E c \in Streams, s \in Sides : copyConn(c, s)
    \/ \E c \in Flows, s \in Sides : copyPacket(c, s)
    \/ \E c \in Inbound, s \in Sides : PeerClose(c, s)
    \/ Close

(***************************************************************************)
(* Fairness: every goroutine of the proxy that is runnable is eventually   *)
(* scheduled by the Go runtime, and a read on a closed or EOF leg returns  *)
(* at once.  Peers, clients and the owner calling Close are not fair:      *)
(* they may never act.                                                     *)
(***************************************************************************)
Fairness ==
    /\ \A k \in Kinds : WF_vars(AcceptFail(k))
    /\ \A c \in Inbound :
        /\ WF_vars(DialOK(c) \/ DialFail(c))
        /\ WF_vars(RelayDone(c))
        /\ WF_vars(RelayCancelled(c))
        /\ \A s \in Sides : WF_vars(CopyEOF(c, s)) /\ WF_vars(CopySend(c, s))

Spec == Init /\ [][Next]_vars /\ Fairness

-----------------------------------------------------------------------------
(* Properties.                                                             *)

\* The relay of c is over: its handler returned, both legs are closed and
\* neither copy goroutine is still running or blocked.
Quiet(c) ==
    /\ st[c] = "done"
    /\ c \notin inOpen \cup outOpen
    /\ \A s \in Sides : cp[c][s] \in {"none", "exited"}

\* A copy goroutine never blocks on its errChan send: the buffer of 2 has
\* room for both results even when the handler has left through ctx.Done
\* without receiving either (proxy.go copyConn / copyPacket).
NeverBlocks ==
    \A c \in Inbound, s \in Sides : cp[c][s] = "sending" => errs[c] < ErrChanCap

\* Once a relay is running and either peer closes, the relay ends: the
\* first copy to return makes the handler close both legs, which unblocks
\* the other copy (the two-task pattern of relayConnLoop/relayPacketLoop).
RelayTerminates ==
    \A c \in Inbound :
        (st[c] = "relaying" /\ peerEOF[c] # {}) ~> Quiet(c)

\* After Proxy.Close both accept loops exit and every relay already started
\* ends with both legs closed and no goroutine left, even when no peer
\* ever closes (spec: cancellation safety).
ShutdownQuiesces ==
    ctxDone ~> /\ \A k \in Kinds : loops[k] = "exited"
               /\ \A c \in Inbound : st[c] = "pending" \/ Quiet(c)

=============================================================================
