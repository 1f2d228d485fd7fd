----------------------------- MODULE Ownership -----------------------------
(***************************************************************************)
(* What cross_shard_move promises about the database, without processes,   *)
(* caches or steps: a row and everything inside it change shard at once,   *)
(* nothing is left behind and nothing else is taken along, and the row     *)
(* ends up in a row of the new shard.                                      *)
(***************************************************************************)
CONSTANTS Shard, Global, Movable, Room, None

VARIABLES owner, loc

Object == Movable \cup Room

(* A row lies in a row of its own shard, or in a global one.               *)
Together(x) ==
  loc[x] # None /\ owner[x] # Global => owner[loc[x]] \in {owner[x], Global}

Init ==
  /\ owner \in [Object -> Shard \cup {Global}]
  /\ loc \in [Object -> Object \cup {None}]
  /\ \A x \in Object : Together(x)

(* The rows of S, which are o and all that lies inside it, go to shard t.  *)
Transfer(S, o, t, d) ==
  /\ o \in S
  /\ \E s \in Shard : \A x \in S : owner[x] = s
  /\ \A x \in Object : loc[x] \in S => x \in S
  /\ \A x \in S \ {o} : loc[x] \in S
  /\ owner[d] \in {t, Global}
  /\ owner' = [x \in Object |-> IF x \in S THEN t ELSE owner[x]]
  /\ loc' = [loc EXCEPT ![o] = d]

(* Game code puts o into another row of its own shard.                     *)
Place(o, c) ==
  /\ owner[c] \in {owner[o], Global}
  /\ loc' = [loc EXCEPT ![o] = c]
  /\ UNCHANGED owner

Next ==
  \/ \E S \in SUBSET Movable : \E o \in S, t \in Shard, d \in Room :
        Transfer(S, o, t, d)
  \/ \E o \in Movable, c \in Object : Place(o, c)

Spec == Init /\ [][Next]_<<owner, loc>>

=============================================================================
