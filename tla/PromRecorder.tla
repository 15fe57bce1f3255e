---------------------------- MODULE PromRecorder ----------------------------
(***************************************************************************)
(* The metrics recorder of metrics/prometheus (recorder.go over the        *)
(* collectors declared in server.go).  Each Record* / Set* function is a   *)
(* few updates of process-wide collectors; a collector update is atomic,   *)
(* and the per-user collectors are vectors keyed by the user hash, whose   *)
(* series WithLabelValues creates at zero when it is missing and           *)
(* DeleteLabelValues removes.  The functions are called from any           *)
(* goroutine: the connection handlers that open and close a user's         *)
(* connections and account its traffic, and the code that deletes a user  *)
(* and calls CleanupUserMetrics.                                           *)
(*                                                                         *)
(* Byte counts and speeds are abstracted to small numbers; the counters    *)
(* that only ever count (authentication attempts, relay errors,            *)
(* redirections) are one event counter each.                               *)
(***************************************************************************)
EXTENDS Integers, FiniteSets

CONSTANTS
    Users,      \* user hashes
    NoUser,     \* the empty user hash of an unauthenticated connection
    Conns,      \* connections whose open and close are recorded
    Owner,      \* the user hash each connection is recorded under
    Events,     \* the counters that only count, among authSuccess,
                \* authFailure, relayConnError, relayPacketError, redirected
    MaxCount    \* bound on every counter, for model checking

ASSUME PromRecorderAssumption ==
    /\ NoUser \notin Users
    /\ Owner \in [Conns -> Users \cup {NoUser}]
    /\ MaxCount \in Nat
    /\ Events \subseteq {"authSuccess", "authFailure", "relayConnError",
                         "relayPacketError", "redirected"}

\* The two directions of RecordTraffic: sent bytes go to the upload
\* collectors, received bytes to the download ones.
Dirs == {"up", "down"}

\* Amounts a single call records (bytes, speeds, counts of users or IPs).
Amounts == 0..1

VARIABLES
    active,     \* ActiveConnections
    total,      \* ConnectionsTotal
    userActive, \* UserActiveConnections: user hash -> value, one per series
    bytes,      \* User{Upload,Download}BytesTotal, per direction
    bytesTotal, \* {Upload,Download}BytesTotal, per direction
    speed,      \* User{Upload,Download}Speed, per direction
    activeIPs,  \* UserActiveIPs
    totalUsers, \* TotalUsers
    events,     \* the event counters
    connSt      \* where each connection is: not yet open, open, closed

recVars == <<active, total, userActive, bytes, bytesTotal, speed, activeIPs,
             totalUsers, events, connSt>>

\* A vector of series: a function from the user hashes that have one.
IsVec(v) == DOMAIN v \subseteq Users /\ \A u \in DOMAIN v : v[u] \in Int

RecorderTypeOK ==
    /\ active \in Int
    /\ total \in Nat
    /\ IsVec(userActive)
    /\ \A d \in Dirs : IsVec(bytes[d]) /\ IsVec(speed[d])
    /\ bytesTotal \in [Dirs -> Nat]
    /\ IsVec(activeIPs)
    /\ totalUsers \in Nat
    /\ events \in [Events -> Nat]
    /\ connSt \in [Conns -> {"idle", "open", "closed"}]

\* The collectors as the init function of the package registers them.
RecorderInit ==
    /\ active = 0
    /\ total = 0
    /\ userActive = <<>>
    /\ bytes = [d \in Dirs |-> <<>>]
    /\ bytesTotal = [d \in Dirs |-> 0]
    /\ speed = [d \in Dirs |-> <<>>]
    /\ activeIPs = <<>>
    /\ totalUsers = 0
    /\ events = [e \in Events |-> 0]
    /\ connSt = [c \in Conns |-> "idle"]

\* WithLabelValues(u).Add(n): the series of u, created at 0 if missing,
\* plus n.
AddTo(v, u, n) ==
    [w \in DOMAIN v \cup {u} |->
        (IF w \in DOMAIN v THEN v[w] ELSE 0) + (IF w = u THEN n ELSE 0)]

\* WithLabelValues(u).Set(n).
SetTo(v, u, n) == [w \in DOMAIN v \cup {u} |-> IF w = u THEN n ELSE v[w]]

\* DeleteLabelValues(u).
Delete(v, u) == [w \in DOMAIN v \ {u} |-> v[w]]

\* Every counter is still below the bound of the model.
Bounded(n) == n < MaxCount

-----------------------------------------------------------------------------

\* Mutant: RecordConnectionOpen without its userHash != "" test.
RecordConnectionOpenAnyUser(c) ==
    /\ connSt[c] = "idle"
    /\ connSt' = [connSt EXCEPT ![c] = "open"]
    /\ active' = active + 1
    /\ total' = total + 1
    /\ userActive' = AddTo(userActive, Owner[c], 1)
    /\ UNCHANGED <<bytes, bytesTotal, speed, activeIPs, totalUsers, events>>

\* RecordConnectionOpen(userHash).
RecordConnectionOpen(c) ==
    /\ connSt[c] = "idle"
    /\ connSt' = [connSt EXCEPT ![c] = "open"]
    /\ active' = active + 1
    /\ total' = total + 1
    /\ userActive' = IF Owner[c] # NoUser THEN AddTo(userActive, Owner[c], 1)
                                         ELSE userActive
    /\ UNCHANGED <<bytes, bytesTotal, speed, activeIPs, totalUsers, events>>

\* RecordConnectionClose(userHash).
RecordConnectionClose(c) ==
    /\ connSt[c] = "open"
    /\ connSt' = [connSt EXCEPT ![c] = "closed"]
    /\ active' = active - 1
    /\ userActive' = IF Owner[c] # NoUser THEN AddTo(userActive, Owner[c], -1)
                                         ELSE userActive
    /\ UNCHANGED <<total, bytes, bytesTotal, speed, activeIPs, totalUsers,
                   events>>

\* RecordTraffic(userHash, sent, recv) for an open connection of a user:
\* a positive amount goes to the user's series and to the total.
RecordTraffic(c, sent, recv) ==
    /\ connSt[c] = "open"
    /\ Owner[c] # NoUser
    /\ \A d \in Dirs : Bounded(bytesTotal[d])
    /\ LET n == [d \in Dirs |-> IF d = "up" THEN sent ELSE recv]
       IN  /\ bytes' = [d \in Dirs |->
                          IF n[d] > 0 THEN AddTo(bytes[d], Owner[c], n[d])
                                      ELSE bytes[d]]
           /\ bytesTotal' = [d \in Dirs |-> bytesTotal[d] + n[d]]
    /\ UNCHANGED <<active, total, userActive, speed, activeIPs, totalUsers,
                   events, connSt>>

\* SetUserSpeed(userHash, uploadSpeed, downloadSpeed).
SetUserSpeed(u, up, down) ==
    /\ speed' = [d \in Dirs |-> SetTo(speed[d], u, IF d = "up" THEN up ELSE down)]
    /\ UNCHANGED <<active, total, userActive, bytes, bytesTotal, activeIPs,
                   totalUsers, events, connSt>>

\* SetUserActiveIPs(userHash, count).
SetUserActiveIPs(u, n) ==
    /\ activeIPs' = SetTo(activeIPs, u, n)
    /\ UNCHANGED <<active, total, userActive, bytes, bytesTotal, speed,
                   totalUsers, events, connSt>>

\* SetUserCount(count).
SetUserCount(n) ==
    /\ totalUsers' = n
    /\ UNCHANGED <<active, total, userActive, bytes, bytesTotal, speed,
                   activeIPs, events, connSt>>

\* RecordAuthAttempt, RecordRelayConnectionError, RecordRelayPacketError,
\* RecordRedirectedConnection: one counter each is incremented.
RecordEvent(e) ==
    /\ Bounded(events[e])
    /\ events' = [events EXCEPT ![e] = @ + 1]
    /\ UNCHANGED <<active, total, userActive, bytes, bytesTotal, speed,
                   activeIPs, totalUsers, connSt>>

\* CleanupUserMetrics(userHash): every per-user series of u is deleted.
CleanupUserMetrics(u) ==
    /\ userActive' = Delete(userActive, u)
    /\ bytes' = [d \in Dirs |-> Delete(bytes[d], u)]
    /\ speed' = [d \in Dirs |-> Delete(speed[d], u)]
    /\ activeIPs' = Delete(activeIPs, u)
    /\ UNCHANGED <<active, total, bytesTotal, totalUsers, events, connSt>>

RecorderNext ==
    \/ \E c \in Conns : RecordConnectionOpen(c) \/ RecordConnectionClose(c)
    \/ \E c \in Conns, sent, recv \in Amounts : RecordTraffic(c, sent, recv)
    \/ \E u \in Users, up, down \in Amounts : SetUserSpeed(u, up, down)
    \/ \E u \in Users, n \in Amounts : SetUserActiveIPs(u, n)
    \/ \E n \in Amounts : SetUserCount(n)
    \/ \E e \in Events : RecordEvent(e)
    \/ \E u \in Users : CleanupUserMetrics(u)

RecorderSpec == RecorderInit /\ [][RecorderNext]_recVars

-----------------------------------------------------------------------------
(* Properties.                                                             *)

OpenConns(u) == {c \in Conns : connSt[c] = "open" /\ Owner[c] = u}

\* A user's UserActiveConnections series, while it exists, is the number
\* of that user's open connections ("Number of active connections per
\* user"), so it is never negative.
UserActiveCounted ==
    \A u \in DOMAIN userActive : userActive[u] = Cardinality(OpenConns(u))

=============================================================================
