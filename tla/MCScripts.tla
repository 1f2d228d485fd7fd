----------------------------- MODULE MCScripts -----------------------------
(* A router and two shards, and a script that has no declaration at first  *)
(* or belongs to a shard.                                                  *)
EXTENDS Scripts

CONSTANTS router, s1, s2

MCRole == [p \in Process |-> IF p = router THEN "router" ELSE "shard"]

MCDeclared == {Undeclared, [owner |-> s1, roles |-> {}]}
=============================================================================
