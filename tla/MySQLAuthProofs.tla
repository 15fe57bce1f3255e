-------------------------- MODULE MySQLAuthProofs --------------------------
(***************************************************************************)
(* Proofs about the MySQL authenticator model: its type invariant, and     *)
(* that no unit of traffic is written to the database twice, for any users,*)
(* quotas, charge bound, database faults and administrator operations.     *)
(***************************************************************************)
EXTENDS MySQLAuth, TLAPS

\* The strengthening: what a user's row holds and what is still in its
\* counters together never exceed what the relays charged.  ResetTraffic
\* moves traffic out of the counters before the UPDATE adds it, so a unit
\* is in at most one of the two.
Accounted == \A u \in Users : dbUsed[u] + pending[u] <= charged[u]

IInv == TypeOK /\ Accounted

LEMMA InitIInv == Init => IInv
<1> SUFFICES ASSUME Init PROVE IInv
  OBVIOUS
<1>1. /\ pending \in [Users -> 0..MaxCharge]
      /\ charged \in [Users -> 0..MaxCharge]
      /\ dbUsed \in [Users -> 0..MaxCharge]
  BY MySQLAssumption DEF Init
<1>2. TypeOK
  BY <1>1 DEF Init, TypeOK, Phases
<1>3. Accounted
  BY DEF Init, Accounted
<1>4. QED
  BY <1>2, <1>3 DEF IInv

\* Every step of the updater, the relays, the administrator and the owner
\* of ctx keeps the strengthened invariant.
LEMMA NextIInv == IInv /\ [Next]_vars => IInv'
<1> SUFFICES ASSUME IInv, [Next]_vars PROVE IInv'
  OBVIOUS
<1>1. ASSUME NEW u \in Users, FlushUser(u) PROVE IInv'
  BY <1>1, MySQLAssumption DEF IInv, TypeOK, Accounted, Phases, FlushUser
<1>2. ASSUME NEW u \in Users, ScanRow(u) PROVE IInv'
  BY <1>2, MySQLAssumption DEF IInv, TypeOK, Accounted, Phases, ScanRow
<1>3. ASSUME NEW u \in Users, Charge(u) PROVE IInv'
  BY <1>3, MySQLAssumption DEF IInv, TypeOK, Accounted, Phases, Charge
<1>4. ASSUME NEW u \in Users, DeleteRow(u) PROVE IInv'
  BY <1>4, MySQLAssumption DEF IInv, TypeOK, Accounted, Phases, DeleteRow
<1>5. ASSUME NEW u \in Users, InsertRow(u) PROVE IInv'
  BY <1>5, MySQLAssumption DEF IInv, TypeOK, Accounted, Phases, InsertRow
<1>6. ASSUME FlushEnd PROVE IInv'
  BY <1>6, MySQLAssumption DEF IInv, TypeOK, Accounted, Phases, FlushEnd
<1>7. ASSUME QueryOK PROVE IInv'
  BY <1>7, MySQLAssumption DEF IInv, TypeOK, Accounted, Phases, QueryOK
<1>8. ASSUME QueryFail PROVE IInv'
  BY <1>8, MySQLAssumption DEF IInv, TypeOK, Accounted, Phases, QueryFail
<1>9. ASSUME ScanFail PROVE IInv'
  BY <1>9, MySQLAssumption DEF IInv, TypeOK, Accounted, Phases, ScanFail
<1>10. ASSUME ScanEnd PROVE IInv'
  BY <1>10, MySQLAssumption DEF IInv, TypeOK, Accounted, Phases, ScanEnd
<1>11. ASSUME Tick PROVE IInv'
  BY <1>11, MySQLAssumption DEF IInv, TypeOK, Accounted, Phases, Tick
<1>12. ASSUME Exit PROVE IInv'
  BY <1>12, MySQLAssumption DEF IInv, TypeOK, Accounted, Phases, Exit
<1>13. ASSUME Cancel PROVE IInv'
  BY <1>13, MySQLAssumption DEF IInv, TypeOK, Accounted, Phases, Cancel
<1>14. CASE UNCHANGED vars
  BY <1>14, MySQLAssumption DEF IInv, TypeOK, Accounted, Phases, vars
<1>15. QED
  BY <1>1, <1>2, <1>3, <1>4, <1>5, <1>6, <1>7, <1>8, <1>9, <1>10, <1>11, <1>12, <1>13, <1>14
     DEF Next, updater

\* The strengthening gives the property.
LEMMA IInvNoDoubleCount == IInv => NoDoubleCount
BY DEF IInv, TypeOK, Accounted, NoDoubleCount

\* The MySQL authenticator model keeps its types: no counter or row goes
\* past the traffic the relays can charge.
THEOREM TypeCorrect == Spec => []TypeOK
<1>1. Spec => []IInv
  BY InitIInv, NextIInv, PTL DEF Spec
<1>2. QED
  BY <1>1, PTL DEF IInv

\* Whatever the database fails, the administrator does to the table and
\* the relays charge, the updater never adds a unit of traffic to a user's
\* row twice: the upload and download columns never exceed what the user
\* was charged.
THEOREM NoDoubleCountHolds == Spec => []NoDoubleCount
<1>1. Spec => []IInv
  BY InitIInv, NextIInv, PTL DEF Spec
<1>2. QED
  BY <1>1, IInvNoDoubleCount, PTL

=============================================================================
