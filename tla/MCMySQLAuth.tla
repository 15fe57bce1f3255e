----------------------------- MODULE MCMySQLAuth -----------------------------
(* MySQLAuth with a user of quota 1 and an unlimited one, each charged at  *)
(* most 2 units: enough to go over quota with traffic still in memory.     *)
EXTENDS MySQLAuth, TLC

CONSTANTS u1, u2

MCUsers == {u1, u2}

MCQuota == (u1 :> 1) @@ (u2 :> -1)

MCMaxCharge == 2

MCAllFaults == {"exec", "query", "scan"}

MCAllAdminOps == {"delete", "insert"}

MCNoFaults == {}

MCOnlyDelete == {"delete"}
=============================================================================
