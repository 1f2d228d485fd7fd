---------------------------- MODULE MCHandoff ------------------------------
(* Two shards with one room each, a hub room that is global, a character   *)
(* that players control, and things that can be carried.                   *)
EXTENDS Handoff, TLC

CONSTANTS s1, s2, r1, r2, hub, k1, k2

MCRoomOwner == [r \in Room |-> IF r = r1 THEN s1 ELSE IF r = r2 THEN s2 ELSE Global]
MCHome      == [k \in Session |-> IF k = k1 THEN s1 ELSE s2]

(* What can be carried and not controlled is alike.                        *)
MCSymmetry == Permutations(Carriable \ Puppetable)
=============================================================================
