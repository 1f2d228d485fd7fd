----------------------------- MODULE MCTeleport -----------------------------
(* Two shards; s2 may have two rooms, between which rows move without it.  *)
(* x1 is a row of its room's shard, x2 a global one; one of them exists.   *)
EXTENDS Teleport

CONSTANTS s1, s2, r1, r2, r3, x1, x2

MCRoomShard == [r \in Room |-> IF r = r1 THEN s1 ELSE s2]

BaseClass == GameKind

Only(x, rooms) ==
  [at : {[y \in Movable |-> IF y = x THEN r ELSE r1] : r \in rooms},
   gone : {Movable \ {x}}]
MCStarts == Only(x1, Room) \cup Only(x2, {r1, r2})
=============================================================================
