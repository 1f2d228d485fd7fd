--------------------------- MODULE StaleInstance ---------------------------
(***************************************************************************)
(* The Python instance that a caller, a script or session.puppet still     *)
(* holds after cross_shard_move has evicted it.  Inside the transaction    *)
(* object.__setattr__ gives the instance the target's shard_id and         *)
(* db_location_id; neither is put back when the transaction rolls back.    *)
(* Every action of Handoff, with its effect on such instances.             *)
(***************************************************************************)
EXTENDS Handoff

VARIABLE inst   \* inst[s][o]: what the surviving instance of o on s holds

instvars == <<vars, inst>>

Fields == [shard_id : Shard, db_location : Dest]

InstTypeOK == inst \in [Shard -> [Movable -> Fields \cup {None}]]

InstInit == Init /\ inst = [s \in Shard |-> [o \in Movable |-> None]]

(* The assignments past save() that follow the first UPDATE.               *)
Synced(s) ==
  inst' = [inst EXCEPT ![s][call[s].obj] =
             [shard_id    |-> call[s].target_shard,
              db_location |-> call[s].target_location]]

InstCommit(s) == Commit(s) /\ Synced(s)

(* They have happened unless the first UPDATE has matched no row.          *)
InstRollBack(s) ==
  RollBack(s) /\ IF owner[call[s].obj] = s THEN Synced(s) ELSE UNCHANGED inst

InstCrash(s) ==
  /\ Crash(s)
  /\ inst' = [inst EXCEPT ![s] = [o \in Movable |-> None]]

(* obj.save() of such an instance writes every column; the UPDATE carries  *)
(* the tenant filter of the process, and no flag says that shard_id is not *)
(* what was loaded.                                                        *)
Save(s, o) ==
  /\ pc[s] = "idle"
  /\ inst[s][o] # None
  /\ o \in Visible(s)
  /\ owner' = [owner EXCEPT ![o] = inst[s][o].shard_id]
  /\ loc' = [loc EXCEPT ![o] = inst[s][o].db_location]
  /\ UNCHANGED <<flushes, idmap, puppet, redirect, pc, callvars, faults, inst>>

InstNext ==
  \/ \E s \in Shard :
       \/ InstCommit(s) \/ InstRollBack(s) \/ InstCrash(s)
       \/ /\ \/ CollectLevel(s) \/ Detach(s) \/ EndRedirects(s)
             \/ \E k \in Session : Redirect(s, k)
             \/ SendFlush(s) \/ GameStep(s)
          /\ UNCHANGED inst
       \/ \E o \in Movable : Save(s, o)
  \/ \E k \in Session : SessionStep(k) /\ UNCHANGED inst
  \/ \E m \in Flush : HandleFlush(m) /\ UNCHANGED inst

InstSpec == InstInit /\ [][InstNext]_instvars

-----------------------------------------------------------------------------
(* PROPERTIES *)

(* save() never changes the shard of a row: only the two UPDATE statements *)
(* of a cross_shard_move do, at the end of its collection.                 *)
TenantColumnImmutable ==
  [][\A x \in Object : owner'[x] # owner[x] =>
       \E s \in Shard : pc[s] = "update" /\ pc'[s] = "detach"]_instvars

=============================================================================
