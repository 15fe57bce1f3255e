------------------------------ MODULE HttpServer ------------------------------
(***************************************************************************)
(* The HTTP server (tunnel/http server.go): acceptLoop takes each client   *)
(* connection from the underlying server and starts a goroutine for it.    *)
(* That goroutine reads the first request.  A CONNECT request is answered  *)
(* "200 Connection established" and the connection itself is sent on       *)
(* connChan (capacity 32) as a ConnectConn.  Any other request starts a    *)
(* loop: each request becomes an OtherConn, a session whose two pipes the  *)
(* proxy's relay reads the request from and writes the response into; the  *)
(* goroutine sends it on connChan, writes the request into the pipe, reads *)
(* the response from the other pipe, writes it back to the client, closes  *)
(* the session and reads the next request.  AcceptConn, called by the      *)
(* proxy's relayConnLoop, selects between connChan and ctx.Done.           *)
(*                                                                         *)
(* A session is the pair of the client connection and the number of its    *)
(* request; a ConnectConn is the pair of the connection and 0.  The        *)
(* proxy's relay of a session or ConnectConn it received may read the      *)
(* request, answer it, or close it (its remote leg ended, or the proxy     *)
(* shut down).  The pipes are synchronous: a write completes only with a   *)
(* read at the other end, so each transfer is one step of both sides.      *)
(***************************************************************************)
EXTENDS Naturals, Sequences, FiniteSets

CONSTANTS
    Conns,      \* client connections the underlying server hands out
    MaxReqs,    \* bound on the requests one client sends on its connection
    QueueCap    \* capacity of connChan

ASSUME HttpServerAssumption ==
    /\ IsFiniteSet(Conns)
    /\ MaxReqs \in Nat \ {0}
    /\ QueueCap \in Nat \ {0}

\* The sessions (OtherConn) of each connection, and the ConnectConns.
Sessions == Conns \X (1..MaxReqs)
Items == (Conns \X {0}) \cup Sessions

\* The first request: CONNECT with a valid host, CONNECT with a host
\* NewAddressFromAddr rejects, or another method (whose host falls back to
\* port 80 and never fails).
FirstRequests == {"connect", "badConnect", "other"}

\* Where each connection's goroutine is.
HandlerStates == {"none", "reading", "connectWrite", "sendConnect",
                  "sendOther", "writeReq", "readResp", "writeResp",
                  "readNext", "returned"}

VARIABLES
    ctxDone,    \* s.ctx is cancelled
    loop,       \* the acceptLoop goroutine: accepting or returned
    h,          \* the goroutine of each client connection
    n,          \* the number of the connection's current request
    connOpen,   \* client connections not yet closed
    handedOver, \* connections sent on connChan as a ConnectConn
    chan,       \* contents of connChan, oldest first
    delivered,  \* items AcceptConn has returned to the proxy
    sessClosed, \* sessions whose OtherConn.Close has run
    consumer    \* the proxy's relayConnLoop calling AcceptConn

vars == <<ctxDone, loop, h, n, connOpen, handedOver, chan, delivered,
          sessClosed, consumer>>

TypeOK ==
    /\ ctxDone \in BOOLEAN
    /\ loop \in {"accepting", "exited"}
    /\ h \in [Conns -> HandlerStates]
    /\ n \in [Conns -> 0..MaxReqs]
    /\ connOpen \subseteq Conns
    /\ handedOver \subseteq Conns
    /\ chan \in Seq(Items)
    /\ Len(chan) <= QueueCap
    /\ delivered \subseteq Items
    /\ sessClosed \subseteq Sessions
    /\ consumer \in {"running", "exited"}

\* The current session of connection c.
Cur(c) == <<c, n[c]>>

\* Sessions sent on connChan and not closed.
OpenSessions(c) ==
    {s \in {c} \X (1..MaxReqs) :
        /\ s \notin sessClosed
        /\ (s \in delivered \/ \E i \in 1..Len(chan) : chan[i] = s)}

\* NewServer has started acceptLoop; the proxy is calling AcceptConn.
Init ==
    /\ ctxDone = FALSE
    /\ loop = "accepting"
    /\ h = [c \in Conns |-> "none"]
    /\ n = [c \in Conns |-> 0]
    /\ connOpen = {}
    /\ handedOver = {}
    /\ chan = <<>>
    /\ delivered = {}
    /\ sessClosed = {}
    /\ consumer = "running"

-----------------------------------------------------------------------------
(* acceptLoop.                                                             *)

\* underlay.AcceptConn returns a connection: go func(conn).
Accept(c) ==
    /\ loop = "accepting"
    /\ h[c] = "none"
    /\ h' = [h EXCEPT ![c] = "reading"]
    /\ connOpen' = connOpen \cup {c}
    /\ UNCHANGED <<ctxDone, loop, n, handedOver, chan, delivered, sessClosed,
                   consumer>>

\* underlay.AcceptConn fails with ctx done: acceptLoop returns.  A failure
\* with ctx not done only logs and loops.
AcceptFail ==
    /\ loop = "accepting"
    /\ ctxDone
    /\ loop' = "exited"
    /\ UNCHANGED <<ctxDone, h, n, connOpen, handedOver, chan, delivered,
                   sessClosed, consumer>>

-----------------------------------------------------------------------------
(* The goroutine of connection c.                                          *)

\* Returning from the GET/POST loop: its deferred conn.Close runs.
Return(c) ==
    /\ h' = [h EXCEPT ![c] = "returned"]
    /\ connOpen' = connOpen \ {c}

\* http.ReadRequest fails on the first request: the goroutine returns,
\* leaving the connection as it is.
ReadFail(c) ==
    /\ h[c] = "reading"
    /\ h' = [h EXCEPT ![c] = "returned"]
    /\ UNCHANGED <<ctxDone, loop, n, connOpen, handedOver, chan, delivered,
                   sessClosed, consumer>>

\* The first request is read: CONNECT goes on to its answer, a CONNECT
\* host that does not parse closes the connection, any other method
\* starts the loop with its first session.
ReadFirst(c, req) ==
    /\ h[c] = "reading"
    /\ \/ /\ req = "connect"
          /\ h' = [h EXCEPT ![c] = "connectWrite"]
          /\ UNCHANGED <<n, connOpen>>
       \/ /\ req = "badConnect"
          /\ h' = [h EXCEPT ![c] = "returned"]
          /\ connOpen' = connOpen \ {c}
          /\ UNCHANGED n
       \/ /\ req = "other"
          /\ h' = [h EXCEPT ![c] = "sendOther"]
          /\ n' = [n EXCEPT ![c] = 1]
          /\ UNCHANGED connOpen
    /\ UNCHANGED <<ctxDone, loop, handedOver, chan, delivered, sessClosed,
                   consumer>>

\* conn.Write of "200 Connection established": on success the connection
\* goes to connChan, on failure it is closed.
ConnectRespond(c) ==
    /\ h[c] = "connectWrite"
    /\ \/ h' = [h EXCEPT ![c] = "sendConnect"] /\ UNCHANGED connOpen
       \/ h' = [h EXCEPT ![c] = "returned"] /\ connOpen' = connOpen \ {c}
    /\ UNCHANGED <<ctxDone, loop, n, handedOver, chan, delivered, sessClosed,
                   consumer>>

\* s.connChan <- &ConnectConn{...}: a plain send, blocking while the
\* channel is full; the goroutine then returns.
SendConnect(c) ==
    /\ h[c] = "sendConnect"
    /\ Len(chan) < QueueCap
    /\ chan' = Append(chan, <<c, 0>>)
    /\ handedOver' = handedOver \cup {c}
    /\ h' = [h EXCEPT ![c] = "returned"]
    /\ UNCHANGED <<ctxDone, loop, n, connOpen, delivered, sessClosed,
                   consumer>>

\* Mutant: a send that never waits for room in the channel.
SendOtherUnbounded(c) ==
    /\ h[c] = "sendOther"
    /\ chan' = Append(chan, Cur(c))
    /\ h' = [h EXCEPT ![c] = "writeReq"]
    /\ UNCHANGED <<ctxDone, loop, n, connOpen, handedOver, delivered,
                   sessClosed, consumer>>

\* s.connChan <- newConn: the session goes to the proxy.
SendOther(c) ==
    /\ h[c] = "sendOther"
    /\ Len(chan) < QueueCap
    /\ chan' = Append(chan, Cur(c))
    /\ h' = [h EXCEPT ![c] = "writeReq"]
    /\ UNCHANGED <<ctxDone, loop, n, connOpen, handedOver, delivered,
                   sessClosed, consumer>>

\* req.Write(reqWriter) completes: the relay of the session has read the
\* request from its reqReader.
WriteReq(c) ==
    /\ h[c] = "writeReq"
    /\ Cur(c) \in delivered \ sessClosed
    /\ h' = [h EXCEPT ![c] = "readResp"]
    /\ UNCHANGED <<ctxDone, loop, n, connOpen, handedOver, chan, delivered,
                   sessClosed, consumer>>

\* req.Write fails: the session was closed, so is its pipe.
WriteReqFail(c) ==
    /\ h[c] = "writeReq"
    /\ Cur(c) \in sessClosed
    /\ Return(c)
    /\ UNCHANGED <<ctxDone, loop, n, handedOver, chan, delivered, sessClosed,
                   consumer>>

\* http.ReadResponse returns: the relay has written the response of its
\* remote into respWriter.
ReadResp(c) ==
    /\ h[c] = "readResp"
    /\ Cur(c) \notin sessClosed
    /\ h' = [h EXCEPT ![c] = "writeResp"]
    /\ UNCHANGED <<ctxDone, loop, n, connOpen, handedOver, chan, delivered,
                   sessClosed, consumer>>

\* http.ReadResponse fails: the pipe was closed, or the remote answered
\* with no valid response.  The goroutine returns without newConn.Close.
ReadRespFail(c) ==
    /\ h[c] = "readResp"
    /\ Return(c)
    /\ UNCHANGED <<ctxDone, loop, n, handedOver, chan, delivered, sessClosed,
                   consumer>>

\* Mutant: the session left open after its response is written back.
WriteRespKeepsSession(c) ==
    /\ h[c] = "writeResp"
    /\ h' = [h EXCEPT ![c] = "readNext"]
    /\ UNCHANGED <<ctxDone, loop, n, connOpen, handedOver, chan, delivered,
                   sessClosed, consumer>>

\* resp.Write(conn) succeeds: newConn.Close() ends the session (and its
\* pipes), then the next request is read.
WriteResp(c) ==
    /\ h[c] = "writeResp"
    /\ h' = [h EXCEPT ![c] = "readNext"]
    /\ sessClosed' = sessClosed \cup {Cur(c)}
    /\ UNCHANGED <<ctxDone, loop, n, connOpen, handedOver, chan, delivered,
                   consumer>>

\* resp.Write(conn) fails (the client went away): the goroutine returns
\* without newConn.Close.
WriteRespFail(c) ==
    /\ h[c] = "writeResp"
    /\ Return(c)
    /\ UNCHANGED <<ctxDone, loop, n, handedOver, chan, delivered, sessClosed,
                   consumer>>

\* The next request is read: a new session starts.
ReadNext(c) ==
    /\ h[c] = "readNext"
    /\ n[c] < MaxReqs
    /\ n' = [n EXCEPT ![c] = @ + 1]
    /\ h' = [h EXCEPT ![c] = "sendOther"]
    /\ UNCHANGED <<ctxDone, loop, connOpen, handedOver, chan, delivered,
                   sessClosed, consumer>>

\* Reading the next request fails (the client closed): the goroutine
\* returns.
ReadNextFail(c) ==
    /\ h[c] = "readNext"
    /\ Return(c)
    /\ UNCHANGED <<ctxDone, loop, n, handedOver, chan, delivered, sessClosed,
                   consumer>>

-----------------------------------------------------------------------------
(* AcceptConn, the proxy's relays, and Close.                              *)

\* AcceptConn's select receives a queued item and returns it.
AcceptQueued ==
    /\ consumer = "running"
    /\ chan # <<>>
    /\ delivered' = delivered \cup {Head(chan)}
    /\ chan' = Tail(chan)
    /\ UNCHANGED <<ctxDone, loop, h, n, connOpen, handedOver, sessClosed,
                   consumer>>

\* AcceptConn's select takes ctx.Done; relayConnLoop returns.
AcceptClosed ==
    /\ consumer = "running"
    /\ ctxDone
    /\ consumer' = "exited"
    /\ UNCHANGED <<ctxDone, loop, h, n, connOpen, handedOver, chan, delivered,
                   sessClosed>>

\* The proxy's relay of a received item ends and closes its inbound leg:
\* for a ConnectConn the client connection, for an OtherConn the session
\* (OtherConn.Close cancels it and closes its pipes, not the client).
RelayClose(i) ==
    /\ i \in delivered
    /\ \/ /\ i[2] = 0
          /\ i[1] \in connOpen
          /\ connOpen' = connOpen \ {i[1]}
          /\ UNCHANGED sessClosed
       \/ /\ i[2] # 0
          /\ i \notin sessClosed
          /\ sessClosed' = sessClosed \cup {i}
          /\ UNCHANGED connOpen
    /\ UNCHANGED <<ctxDone, loop, h, n, handedOver, chan, delivered, consumer>>

\* Server.Close: s.cancel(), underlay.Close().
Close ==
    /\ ~ctxDone
    /\ ctxDone' = TRUE
    /\ UNCHANGED <<loop, h, n, connOpen, handedOver, chan, delivered,
                   sessClosed, consumer>>

-----------------------------------------------------------------------------

\* Server.acceptLoop, without the goroutines it starts.
acceptLoop == (\E c \in Conns : Accept(c)) \/ AcceptFail

\* The goroutine acceptLoop starts for connection c.
handler(c) ==
    \/ ReadFail(c) \/ \E req \in FirstRequests : ReadFirst(c, req)
    \/ ConnectRespond(c) \/ SendConnect(c)
    \/ SendOther(c) \/ WriteReq(c) \/ WriteReqFail(c)
    \/ ReadResp(c) \/ ReadRespFail(c) \/ WriteResp(c) \/ WriteRespFail(c)
    \/ ReadNext(c) \/ ReadNextFail(c)

\* Server.AcceptConn.
AcceptConn == AcceptQueued \/ AcceptClosed

Next ==
    \/ acceptLoop
    \/ \E c \in Conns : handler(c)
    \/ AcceptConn
    \/ \E i \in Items : RelayClose(i)
    \/ Close

Spec == Init /\ [][Next]_vars

-----------------------------------------------------------------------------
(* Properties.                                                             *)

\* A client connection has at most one session open at a time, and it is
\* the one of its current request: the loop of the GET/POST branch closes
\* each OtherConn before it reads the next request, so the proxy never
\* relays two requests of one connection at once, whatever the proxy's
\* relays and the client do.
SessionsSequential ==
    \A c \in Conns : OpenSessions(c) \subseteq {Cur(c)}

\* A goroutine that has returned without handing its connection to the
\* proxy has closed it (spec section 7: a framing error closes the
\* offending stream).
ConnNotLeaked ==
    \A c \in Conns :
        h[c] = "returned" /\ c \notin handedOver => c \notin connOpen

\* A goroutine that has returned leaves no session open: otherwise the
\* proxy's relay of that session waits on its pipes, which nobody reads or
\* writes any more, until the proxy shuts down.
SessionReleased ==
    \A c \in Conns : h[c] = "returned" => OpenSessions(c) = {}

=============================================================================
