------------------------------ MODULE MySQLAuth ------------------------------
(***************************************************************************)
(* The MySQL authenticator (statistic/mysql mysql.go): a memory            *)
(* authenticator (statistic/memory) holds the authorised users and their   *)
(* traffic counters, charged by the relays; the updater goroutine loops:   *)
(* for every user it takes the counters with ResetTraffic and adds them to *)
(* the user's row with an UPDATE; then it SELECTs every row and adds the   *)
(* user to memory when under quota (or quota < 0), deletes it otherwise;   *)
(* then it waits updateDuration or returns on ctx.Done.                    *)
(*                                                                         *)
(* Traffic is counted in units, upload and download together (the UPDATE   *)
(* adds recv to upload and sent to download: the sum is what the quota     *)
(* test reads).  The database can fail an UPDATE, the SELECT or a row scan *)
(* (the failures in Faults), and an administrator can delete or insert     *)
(* rows (the operations in AdminOps).                                      *)
(***************************************************************************)
EXTENDS Integers, FiniteSets

CONSTANTS
    Users,      \* password hashes
    Quota,      \* the quota column of each user's row; negative: unlimited
    MaxCharge,  \* bound on the traffic the relays charge to one user
    Faults,     \* the database failures that can happen
    AdminOps    \* what the administrator does to the users table

ASSUME MySQLAssumption ==
    /\ IsFiniteSet(Users)
    /\ Quota \in [Users -> Int]
    /\ MaxCharge \in Nat
    /\ Faults \subseteq {"exec", "query", "scan"}
    /\ AdminOps \subseteq {"delete", "insert"}

\* Where the updater is: the UPDATE loop, the SELECT, the row loop, the
\* select on the timer and ctx.Done, or returned.
Phases == {"flush", "query", "scan", "wait", "exited"}

VARIABLES
    ctxDone,    \* a.ctx is cancelled
    phase,      \* where the updater goroutine is
    todo,       \* users of ListUsers() the UPDATE loop has not reached
    rowsLeft,   \* rows of the SELECT the row loop has not reached
    mem,        \* users in the memory authenticator
    pending,    \* traffic in each user's counters, not yet reset
    charged,    \* traffic the relays have charged to each user in all
    dbPresent,  \* the users table has a row for the user
    dbUsed      \* upload + download of the user's row

vars == <<ctxDone, phase, todo, rowsLeft, mem, pending, charged, dbPresent,
          dbUsed>>

TypeOK ==
    /\ ctxDone \in BOOLEAN
    /\ phase \in Phases
    /\ todo \subseteq Users
    /\ rowsLeft \subseteq Users
    /\ mem \subseteq Users
    /\ pending \in [Users -> 0..MaxCharge]
    /\ charged \in [Users -> 0..MaxCharge]
    /\ dbPresent \in [Users -> BOOLEAN]
    /\ dbUsed \in [Users -> 0..MaxCharge]

\* NewAuthenticator: an empty memory authenticator, and the updater
\* starting its first UPDATE loop over no user.
Init ==
    /\ ctxDone = FALSE
    /\ phase = "flush"
    /\ todo = {}
    /\ rowsLeft = {}
    /\ mem = {}
    /\ pending = [u \in Users |-> 0]
    /\ charged = [u \in Users |-> 0]
    /\ dbPresent \in [Users -> BOOLEAN]
    /\ dbUsed = [u \in Users |-> 0]

-----------------------------------------------------------------------------
(* The updater goroutine.                                                  *)

\* Mutant: the counters read without being reset.
FlushUserNoReset(u) ==
    /\ phase = "flush"
    /\ u \in todo
    /\ todo' = todo \ {u}
    /\ \/ /\ "exec" \in Faults
          /\ UNCHANGED dbUsed
       \/ dbUsed' = [dbUsed EXCEPT ![u] = IF dbPresent[u]
                                         THEN @ + pending[u] ELSE @]
    /\ UNCHANGED <<ctxDone, phase, rowsLeft, mem, pending, charged, dbPresent>>

\* One turn of the UPDATE loop: ResetTraffic takes the counters, then the
\* UPDATE adds them to the row.  A failed UPDATE only logs (the traffic it
\* took is gone); an UPDATE that hits no row leaves RowsAffected = 0 with
\* no error, and the DelUser under `err != nil` is not reached.
FlushUser(u) ==
    /\ phase = "flush"
    /\ u \in todo
    /\ todo' = todo \ {u}
    /\ pending' = [pending EXCEPT ![u] = 0]
    /\ \/ /\ "exec" \in Faults
          /\ UNCHANGED dbUsed
       \/ dbUsed' = [dbUsed EXCEPT ![u] = IF dbPresent[u]
                                         THEN @ + pending[u] ELSE @]
    /\ UNCHANGED <<ctxDone, phase, rowsLeft, mem, charged, dbPresent>>

\* The UPDATE loop is over: the updater runs the SELECT.
FlushEnd ==
    /\ phase = "flush"
    /\ todo = {}
    /\ phase' = "query"
    /\ UNCHANGED <<ctxDone, todo, rowsLeft, mem, pending, charged, dbPresent,
                   dbUsed>>

\* The SELECT returns the rows of the table.
QueryOK ==
    /\ phase = "query"
    /\ rowsLeft' = {u \in Users : dbPresent[u]}
    /\ phase' = "scan"
    /\ UNCHANGED <<ctxDone, todo, mem, pending, charged, dbPresent, dbUsed>>

\* The SELECT fails: the updater sleeps and starts over with the UPDATE
\* loop, without looking at ctx.
QueryFail ==
    /\ phase = "query"
    /\ "query" \in Faults
    /\ phase' = "flush"
    /\ todo' = mem
    /\ UNCHANGED <<ctxDone, rowsLeft, mem, pending, charged, dbPresent, dbUsed>>

\* Mutant: a user whose usage equals its quota kept.
ScanRowInclusive(u) ==
    /\ phase = "scan"
    /\ u \in rowsLeft
    /\ rowsLeft' = rowsLeft \ {u}
    /\ IF dbUsed[u] <= Quota[u] \/ Quota[u] < 0
       THEN /\ mem' = mem \cup {u}
            /\ UNCHANGED pending
       ELSE /\ mem' = mem \ {u}
            /\ pending' = [pending EXCEPT ![u] = 0]
    /\ UNCHANGED <<ctxDone, phase, todo, charged, dbPresent, dbUsed>>

\* One row: under quota (or unlimited) AddUser, which keeps a user already
\* there with its counters; otherwise DelUser, which drops the user and
\* the counters it holds.
ScanRow(u) ==
    /\ phase = "scan"
    /\ u \in rowsLeft
    /\ rowsLeft' = rowsLeft \ {u}
    /\ IF dbUsed[u] < Quota[u] \/ Quota[u] < 0
       THEN /\ mem' = mem \cup {u}
            /\ UNCHANGED pending
       ELSE /\ mem' = mem \ {u}
            /\ pending' = [pending EXCEPT ![u] = 0]
    /\ UNCHANGED <<ctxDone, phase, todo, charged, dbPresent, dbUsed>>

\* rows.Scan fails: the row loop breaks, leaving the other rows unread.
ScanFail ==
    /\ phase = "scan"
    /\ "scan" \in Faults
    /\ rowsLeft # {}
    /\ rowsLeft' = {}
    /\ phase' = "wait"
    /\ UNCHANGED <<ctxDone, todo, mem, pending, charged, dbPresent, dbUsed>>

\* rows.Next() reports no more rows.
ScanEnd ==
    /\ phase = "scan"
    /\ rowsLeft = {}
    /\ phase' = "wait"
    /\ UNCHANGED <<ctxDone, todo, rowsLeft, mem, pending, charged, dbPresent,
                   dbUsed>>

\* time.After fires: the next UPDATE loop runs over ListUsers().
Tick ==
    /\ phase = "wait"
    /\ phase' = "flush"
    /\ todo' = mem
    /\ UNCHANGED <<ctxDone, rowsLeft, mem, pending, charged, dbPresent, dbUsed>>

\* The select takes ctx.Done: the updater returns.
Exit ==
    /\ phase = "wait"
    /\ ctxDone
    /\ phase' = "exited"
    /\ UNCHANGED <<ctxDone, todo, rowsLeft, mem, pending, charged, dbPresent,
                   dbUsed>>

-----------------------------------------------------------------------------
(* The environment.                                                        *)

\* A relay charges traffic to an authorised user: AddTraffic.
Charge(u) ==
    /\ u \in mem
    /\ charged[u] < MaxCharge
    /\ pending' = [pending EXCEPT ![u] = @ + 1]
    /\ charged' = [charged EXCEPT ![u] = @ + 1]
    /\ UNCHANGED <<ctxDone, phase, todo, rowsLeft, mem, dbPresent, dbUsed>>

\* The administrator deletes a user's row.
DeleteRow(u) ==
    /\ "delete" \in AdminOps
    /\ dbPresent[u]
    /\ dbPresent' = [dbPresent EXCEPT ![u] = FALSE]
    /\ UNCHANGED <<ctxDone, phase, todo, rowsLeft, mem, pending, charged,
                   dbUsed>>

\* The administrator inserts a fresh row for a user.
InsertRow(u) ==
    /\ "insert" \in AdminOps
    /\ ~dbPresent[u]
    /\ dbPresent' = [dbPresent EXCEPT ![u] = TRUE]
    /\ dbUsed' = [dbUsed EXCEPT ![u] = 0]
    /\ UNCHANGED <<ctxDone, phase, todo, rowsLeft, mem, pending, charged>>

\* The owner of ctx cancels it.
Cancel ==
    /\ ~ctxDone
    /\ ctxDone' = TRUE
    /\ UNCHANGED <<phase, todo, rowsLeft, mem, pending, charged, dbPresent,
                   dbUsed>>

-----------------------------------------------------------------------------

\* Authenticator.updater.
updater ==
    \/ \E u \in Users : FlushUser(u)
    \/ FlushEnd \/ QueryOK \/ QueryFail
    \/ \E u \in Users : ScanRow(u)
    \/ ScanFail \/ ScanEnd \/ Tick \/ Exit

Next ==
    \/ updater
    \/ \E u \in Users : Charge(u) \/ DeleteRow(u) \/ InsertRow(u)
    \/ Cancel

(***************************************************************************)
(* Fairness: the updater goroutine is scheduled and its timer fires; the   *)
(* database answering without failure, the relays, the administrator and   *)
(* the owner are not fair.                                                 *)
(***************************************************************************)
Fairness ==
    /\ \A u \in Users : WF_vars(FlushUser(u)) /\ WF_vars(ScanRow(u))
    /\ WF_vars(FlushEnd) /\ WF_vars(QueryOK \/ QueryFail)
    /\ WF_vars(ScanEnd) /\ WF_vars(Tick \/ Exit)

Spec == Init /\ [][Next]_vars /\ Fairness

-----------------------------------------------------------------------------
(* Properties.                                                             *)

\* The users table never holds more traffic for a user than the relays
\* charged to it: each unit is taken from the counters once, by
\* ResetTraffic, however UPDATEs, failures and new rows interleave with
\* the relays' AddTraffic.
NoDoubleCount ==
    \A u \in Users : dbUsed[u] <= charged[u]

\* A user whose row has reached its quota is eventually dropped from the
\* memory authenticator, so that AuthUser refuses it (the quota test of
\* the row loop), unless the updater has stopped.
OverQuotaRevoked ==
    \A u \in Users :
        (dbPresent[u] /\ Quota[u] >= 0 /\ dbUsed[u] >= Quota[u])
            ~> (u \notin mem \/ ctxDone)

\* A user whose row is deleted from the table eventually stops being
\* authorised (what the RowsAffected test after the UPDATE is for), unless
\* the row comes back or the updater has stopped.
RevokedUserLosesAccess ==
    \A u \in Users :
        (~dbPresent[u]) ~> (u \notin mem \/ dbPresent[u] \/ ctxDone)

\* Every unit of traffic charged is either in the users table or still in
\* the user's counters (spec section 3: the authenticator keeps per-user
\* traffic counters that the statistic backend periodically flushes).
TrafficConserved ==
    \A u \in Users : charged[u] = dbUsed[u] + pending[u]

=============================================================================
