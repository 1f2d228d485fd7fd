--------------------------- MODULE HandoffProofs ---------------------------
(***************************************************************************)
(* Theorems about Handoff for every set of shards, rows and sessions.      *)
(***************************************************************************)
EXTENDS Handoff, TLAPS

(* What every step of the program is: a case for each action of Next.      *)
LEMMA Cases ==
  ASSUME Next
  PROVE  \/ \E s \in Shard : CollectLevel(s)
         \/ \E s \in Shard : Commit(s)
         \/ \E s \in Shard : RollBack(s)
         \/ \E s \in Shard : Detach(s)
         \/ \E s \in Shard, k \in Session : Redirect(s, k)
         \/ \E s \in Shard : EndRedirects(s)
         \/ \E s \in Shard : SendFlush(s)
         \/ \E s \in Shard, o \in Movable : Load(s, o)
         \/ \E s \in Shard, o \in Movable, c \in Object : LocalMove(s, o, c)
         \/ \E s \in Shard, o \in Movable, t \in Shard, d \in Dest :
               Validate(s, o, t, d)
         \/ \E k \in Session : Unpuppet(k)
         \/ \E k \in Session : Reconnect(k)
         \/ \E k \in Session, o \in Puppetable : Puppet(k, o)
         \/ \E m \in Flush : HandleFlush(m)
         \/ \E s \in Shard : Crash(s)
BY Zenon DEF Next, MoveStep, GameStep, SessionStep

-----------------------------------------------------------------------------
(* A call in progress has its arguments, a finished one has none.          *)
CallOK == \A s \in Shard : pc[s] # "idle" => call[s] \in Call

LEMMA InitType == ASSUME Init PROVE TypeOK /\ CallOK
<1>1. PICK start \in [Movable -> Room] :
         /\ loc = [x \in Object |-> IF x \in Room THEN None ELSE start[x]]
         /\ owner = [x \in Object |->
                       IF x \in GlobalRow THEN Global
                       ELSE IF x \in Room THEN RoomOwner[x]
                       ELSE RoomOwner[start[x]]]
  BY DEF Init
<1>2. owner \in [Object -> Owner]
  <2>1. ASSUME NEW x \in Object
        PROVE  (IF x \in GlobalRow THEN Global
                ELSE IF x \in Room THEN RoomOwner[x]
                ELSE RoomOwner[start[x]]) \in Owner
    <3>1. RoomOwner \in [Room -> Owner] BY HandoffAssumption DEF HandoffAssumption
    <3>2. CASE x \in Room BY <3>1, <3>2 DEF Owner
    <3>3. CASE x \in Movable BY <3>1, <3>3 DEF Owner
    <3>4. QED BY <3>2, <3>3 DEF Object
  <2>2. QED BY <1>1, <2>1
<1>3. loc \in [Object -> Object \cup {None}]
  BY <1>1 DEF Object
<1>4. QED BY <1>2, <1>3, HandoffAssumption
        DEF Init, TypeOK, CallOK, PC, HandoffAssumption

LEMMA StepType ==
  ASSUME TypeOK, CallOK, [Next]_vars PROVE TypeOK' /\ CallOK'
<1> USE DEF TypeOK, CallOK, PC
<1>1. CASE UNCHANGED vars BY <1>1 DEF vars
<1>2. CASE \E s \in Shard : CollectLevel(s)
  BY <1>2 DEF CollectLevel, Children, Goto
<1>3. CASE \E s \in Shard : Commit(s)
  <2> PICK s \in Shard : Commit(s) BY <1>3
  <2>1. call[s] \in Call BY DEF Commit
  <2>2. owner' \in [Object -> Owner]
    BY <2>1 DEF Commit, Write, NewOwner, Call, Owner
  <2>3. loc' \in [Object -> Object \cup {None}]
    BY <2>1, HandoffAssumption DEF Commit, Write, NewLoc, Call, HandoffAssumption
  <2>4. idmap' \in [Shard -> SUBSET Movable]
    BY DEF Commit, Write, Evict
  <2>5. QED BY <2>2, <2>3, <2>4 DEF Commit, Write, Goto, callvars
<1>5. CASE \E s \in Shard : RollBack(s)
  BY <1>5, HandoffAssumption DEF RollBack, Evict, Return, Goto, Fault, HandoffAssumption
<1>6. CASE \E s \in Shard : Detach(s)
  BY <1>6 DEF Detach, Goto, callvars
<1>7. CASE \E s \in Shard, k \in Session : Redirect(s, k)
  <2> PICK s \in Shard, k \in Session : Redirect(s, k) BY <1>7
  <2>1. call[s] \in Call BY DEF Redirect
  <2>2. redirect' \in [Session -> Sent \cup {None}]
    BY <2>1 DEF Redirect, Call, Sent
  <2>3. faults' \in 0..MaxFaults
    BY HandoffAssumption DEF Redirect, Fault, HandoffAssumption
  <2>4. QED BY <2>2, <2>3 DEF Redirect
<1>8. CASE \E s \in Shard : EndRedirects(s)
  BY <1>8 DEF EndRedirects, Goto, callvars
<1>9. CASE \E s \in Shard : SendFlush(s)
  <2> PICK s \in Shard : SendFlush(s) BY <1>9
  <2>1. call[s] \in Call BY DEF SendFlush
  <2>2. flushes' \in SUBSET Flush BY <2>1 DEF SendFlush, Call, Flush
  <2>3. faults' \in 0..MaxFaults
    BY HandoffAssumption DEF SendFlush, Fault, HandoffAssumption
  <2>4. QED BY <2>2, <2>3 DEF SendFlush, Return, Goto
<1>10. CASE \E s \in Shard, o \in Movable : Load(s, o)
  BY <1>10 DEF Load, callvars
<1>11. CASE \E s \in Shard, o \in Movable, c \in Object : LocalMove(s, o, c)
  BY <1>11 DEF LocalMove, callvars, Object
<1>12. CASE \E s \in Shard, o \in Movable, t \in Shard, d \in Dest :
                Validate(s, o, t, d)
  BY <1>12 DEF Validate, Begin, Goto, Call
<1>13. CASE \E k \in Session : Unpuppet(k)
  BY <1>13 DEF Unpuppet, callvars
<1>14. CASE \E k \in Session : Reconnect(k)
  BY <1>14 DEF Reconnect, callvars
<1>15. CASE \E k \in Session, o \in Puppetable : Puppet(k, o)
  <2> PICK k \in Session, o \in Puppetable : Puppet(k, o) BY <1>15
  <2>1. o \in Movable /\ Home[k] \in Shard
    BY HandoffAssumption DEF HandoffAssumption
  <2>2. QED BY <2>1 DEF Puppet, callvars
<1>16. CASE \E m \in Flush : HandleFlush(m)
  BY <1>16 DEF HandleFlush, callvars, Flush
<1>17. CASE \E s \in Shard : Crash(s)
  BY <1>17, HandoffAssumption DEF Crash, Return, Goto, Fault, HandoffAssumption
<1>18. QED BY <1>1, <1>2, <1>3, <1>5, <1>6, <1>7, <1>8, <1>9, <1>10,
              <1>11, <1>12, <1>13, <1>14, <1>15, <1>16, <1>17, Cases

(* Every variable keeps its type.                                          *)
THEOREM TypeCorrect == Spec => [](TypeOK /\ CallOK)
<1>1. Init => TypeOK /\ CallOK BY InitType
<1>2. TypeOK /\ CallOK /\ [Next]_vars => TypeOK' /\ CallOK' BY StepType
<1>3. QED BY <1>1, <1>2, PTL DEF Spec

-----------------------------------------------------------------------------
(* Caches.  What a commit gives away was visible to one process only, and  *)
(* that process evicts it in the same step.                                *)
LEMMA CommitCaches ==
  ASSUME TypeOK, CallOK, NoPhantom, NEW s \in Shard, Commit(s)
  PROVE  NoPhantom'
<1> USE DEF TypeOK, CallOK
<1>1. call[s] \in Call /\ content_pks[s] \subseteq Movable BY DEF Commit
<1> SUFFICES ASSUME NEW q \in Shard, NEW x \in idmap'[q]
             PROVE  x \in Visible(q)'
  BY DEF NoPhantom
<1>2. x \in idmap[q] /\ x \in Object /\ owner[x] \in {q, Global}
  BY DEF Commit, Write, Evict, NoPhantom, Visible, Scope
<1>3. x \notin Moved(s)
  <2>1. CASE q = s BY <2>1, <1>1 DEF Commit, Write, Evict, Tree, Moved
  <2>2. CASE q # s
    BY <2>2, <1>2, HandoffAssumption DEF Commit, Moved, HandoffAssumption
  <2>3. QED BY <2>1, <2>2
<1>4. owner'[x] = owner[x] BY <1>2, <1>3 DEF Commit, Write, NewOwner
<1>5. QED BY <1>2, <1>4 DEF Visible, Scope

LEMMA StepCaches ==
  ASSUME TypeOK, CallOK, NoPhantom, [Next]_vars PROVE NoPhantom'
<1> USE DEF TypeOK, NoPhantom, Visible, Scope
<1>1. CASE UNCHANGED vars BY <1>1 DEF vars
<1>2. CASE \E s \in Shard : CollectLevel(s) BY <1>2 DEF CollectLevel
<1>3. CASE \E s \in Shard : Commit(s) BY <1>3, CommitCaches
<1>5. CASE \E s \in Shard : RollBack(s) BY <1>5 DEF RollBack, Evict
<1>6. CASE \E s \in Shard : Detach(s) BY <1>6 DEF Detach
<1>7. CASE \E s \in Shard, k \in Session : Redirect(s, k)
  BY <1>7 DEF Redirect
<1>8. CASE \E s \in Shard : EndRedirects(s) BY <1>8 DEF EndRedirects
<1>9. CASE \E s \in Shard : SendFlush(s) BY <1>9 DEF SendFlush
<1>10. CASE \E s \in Shard, o \in Movable : Load(s, o)
  BY <1>10 DEF Load
<1>11. CASE \E s \in Shard, o \in Movable, c \in Object : LocalMove(s, o, c)
  BY <1>11 DEF LocalMove
<1>12. CASE \E s \in Shard, o \in Movable, t \in Shard, d \in Dest :
                Validate(s, o, t, d)
  BY <1>12 DEF Validate, Begin
<1>13. CASE \E k \in Session : Unpuppet(k) BY <1>13 DEF Unpuppet
<1>14. CASE \E k \in Session : Reconnect(k) BY <1>14 DEF Reconnect
<1>15. CASE \E k \in Session, o \in Puppetable : Puppet(k, o)
  BY <1>15 DEF Puppet
<1>16. CASE \E m \in Flush : HandleFlush(m) BY <1>16 DEF HandleFlush
<1>17. CASE \E s \in Shard : Crash(s) BY <1>17 DEF Crash
<1>18. QED BY <1>1, <1>2, <1>3, <1>5, <1>6, <1>7, <1>8, <1>9, <1>10,
              <1>11, <1>12, <1>13, <1>14, <1>15, <1>16, <1>17, Cases

(* No process caches a row of another shard: whatever callers pass, with   *)
(* any number of shards, and however many calls fail or processes crash.   *)
THEOREM CachesHoldOwnRows == Spec => []NoPhantom
<1>1. Init => NoPhantom BY DEF Init, NoPhantom
<1>2. TypeOK /\ CallOK /\ NoPhantom /\ [Next]_vars => NoPhantom'
  BY StepCaches
<1>3. QED BY <1>1, <1>2, TypeCorrect, PTL DEF Spec

-----------------------------------------------------------------------------
(* The shard_id column.                                                    *)
LEMMA OnlyCommitWrites ==
  ASSUME TypeOK, CallOK, [Next]_vars
  PROVE  UNCHANGED owner \/ \E s \in Shard : Commit(s)
BY Cases DEF vars, CollectLevel, RollBack, Detach, Redirect,
  EndRedirects, SendFlush, Load, LocalMove, Validate, Begin, Unpuppet,
  Reconnect, Puppet, HandleFlush, Crash

(* A call whose row has gone has one step left: it raises, or dies.        *)
LosersRaise(s) ==
  pc[s] = "update" /\ owner[call[s].obj] # s /\ pc'[s] # "update"
    => pc'[s] = "idle" /\ UNCHANGED <<owner, loc>>

LEMMA LoserStep ==
  ASSUME TypeOK, [Next]_vars, NEW s \in Shard PROVE LosersRaise(s)
<1> USE DEF TypeOK, LosersRaise
<1>2. CASE \E q \in Shard : Crash(q)
  BY <1>2 DEF Crash, Return, Goto
<1>3. CASE \E q \in Shard : Commit(q) \/ RollBack(q)
  BY <1>3 DEF Commit, RollBack, Write, Return, Goto
<1>4. CASE \E q \in Shard : CollectLevel(q) \/ Detach(q) \/ EndRedirects(q) \/ SendFlush(q)
  BY <1>4 DEF CollectLevel, Detach, EndRedirects, SendFlush, Return, Goto
<1>5. CASE \E q \in Shard, o \in Movable, t \in Shard, d \in Dest : Validate(q, o, t, d)
  BY <1>5 DEF Validate, Begin, Goto
<1>6. CASE UNCHANGED pc
  BY <1>6
<1>7. QED
  BY <1>2, <1>3, <1>4, <1>5, <1>6, Cases
     DEF vars, Redirect, Load, LocalMove, Unpuppet, Reconnect, Puppet, HandleFlush

(* The shard_id of a row is changed by its owner's commit alone: of two    *)
(* calls for one row, in one process or in two, at most one takes effect   *)
(* for each ownership of the row, and the other one raises.                *)
THEOREM OwnerGivesAway == Spec => OnlyOwnerGivesAway
<1> DEFINE Given ==
      \A x \in Object : owner'[x] # owner[x] =>
        \E s \in Shard :
           /\ owner[x] = s /\ pc[s] = "update"
           /\ x \in Tree(s)
    Raise ==
      \A s \in Shard :
        pc[s] = "update" /\ owner[call[s].obj] # s /\ pc'[s] # "update"
          => pc'[s] = "idle" /\ UNCHANGED <<owner, loc>>
<1>1. TypeOK /\ CallOK /\ [Next]_vars => Given
  <2> SUFFICES ASSUME TypeOK, CallOK, [Next]_vars PROVE Given OBVIOUS
  <2>1. CASE UNCHANGED owner BY <2>1
  <2>2. CASE \E s \in Shard : Commit(s)
    BY <2>2 DEF Commit, Write, NewOwner, Tree, Moved
  <2>3. QED BY <2>1, <2>2, OnlyCommitWrites
<1>2. TypeOK /\ [Next]_vars => Raise
  BY LoserStep DEF LosersRaise
<1>3. QED BY <1>1, <1>2, TypeCorrect, PTL DEF Spec, OnlyOwnerGivesAway

-----------------------------------------------------------------------------
(* Trees.  From here on callers pass rooms as destinations and rows that   *)
(* their own process sees, which is what the runs of TLC show to be needed *)
(* for Coherent.                                                           *)

(* Rooms are not moved, and no row becomes or stops being global.          *)
Fixed ==
  /\ \A r \in Room : loc[r] = None /\ owner[r] = RoomOwner[r]
  /\ \A x \in Object : owner[x] = Global <=> x \in GlobalRow

Walking(s) == pc[s] \in {"collect", "update"}

LevelCollected == \A s \in Shard : Walking(s) => parents[s] \subseteq Tree(s)

TreeInv == Fixed /\ LevelCollected /\ CollectionSound /\ Coherent

LEMMA InitTree == ASSUME Init PROVE TreeInv
<1>1. PICK start \in [Movable -> Room] :
         /\ \A m \in Movable \ GlobalRow : start[m] \notin GlobalRow
         /\ loc = [x \in Object |-> IF x \in Room THEN None ELSE start[x]]
         /\ owner = [x \in Object |->
                       IF x \in GlobalRow THEN Global
                       ELSE IF x \in Room THEN RoomOwner[x]
                       ELSE RoomOwner[start[x]]]
  BY DEF Init
<1>2. \A r \in Room : RoomOwner[r] = Global <=> r \in GlobalRow
  BY HandoffAssumption DEF HandoffAssumption
<1>3. \A r \in Room : r \in Object /\ r \notin Movable
  BY HandoffAssumption DEF HandoffAssumption, Object
<1>4. \A m \in Movable : m \in Object /\ m \notin Room
  BY HandoffAssumption DEF HandoffAssumption, Object
<1>5. \A r \in Room : loc[r] = None /\ owner[r] = RoomOwner[r]
  BY <1>1, <1>2, <1>3
<1>6. \A m \in Movable : /\ loc[m] = start[m] /\ start[m] \in Room
                         /\ m \notin GlobalRow => owner[m] = RoomOwner[start[m]]
                         /\ m \in GlobalRow => owner[m] = Global
  BY <1>1, <1>4
<1>7. Fixed
  <2>1. \A m \in Movable : owner[m] = Global <=> m \in GlobalRow
    BY <1>1, <1>2, <1>6
  <2>2. QED BY <1>2, <1>5, <2>1 DEF Fixed, Object
<1>8. Coherent
  BY <1>5, <1>6, <1>7 DEF Coherent, Fixed, Object, Scope
<1>9. LevelCollected /\ CollectionSound
  BY DEF Init, LevelCollected, CollectionSound, Walking
<1>10. QED BY <1>7, <1>8, <1>9 DEF TreeInv

(* Steps that leave the database and the calls that are walking alone.     *)
LEMMA QuietTree ==
  ASSUME TreeInv, UNCHANGED <<owner, loc>>,
         \A q \in Shard : Walking(q)' =>
           /\ pc'[q] = pc[q] /\ call'[q] = call[q]
           /\ content_pks'[q] = content_pks[q] /\ parents'[q] = parents[q]
  PROVE  TreeInv'
<1>1. Fixed' BY DEF TreeInv, Fixed
<1>2. LevelCollected' BY DEF TreeInv, LevelCollected, Walking, Tree
<1>3. CollectionSound'
  BY DEF TreeInv, CollectionSound, Walking, Tree, Scope
<1>4. Coherent' BY DEF TreeInv, Coherent, Scope
<1>5. QED BY <1>1, <1>2, <1>3, <1>4 DEF TreeInv

(* A new level: a row of the caller inside the old level is in the new one.*)
LEMMA CollectTree ==
  ASSUME TypeOK, CallOK, TreeInv, NEW s \in Shard, CollectLevel(s)
  PROVE  TreeInv'
<1> USE DEF TypeOK, TreeInv
<1>1. UNCHANGED <<owner, loc, call>> /\ pc[s] = "collect" BY DEF CollectLevel
<1>2. \A q \in Shard \ {s} : /\ pc'[q] = pc[q]
                             /\ content_pks'[q] = content_pks[q]
                             /\ parents'[q] = parents[q]
  BY DEF CollectLevel, Goto
<1>3. /\ call[s].obj \in Movable /\ parents[s] \subseteq Tree(s)
      /\ Tree(s) \subseteq Movable /\ None \notin Movable
  BY <1>1, HandoffAssumption
     DEF CallOK, Call, LevelCollected, Walking, Tree, HandoffAssumption, Object
<1>4. Fixed' BY <1>1 DEF Fixed
<1>5. Coherent' BY <1>1 DEF Coherent, Scope
<1>6. /\ content_pks'[s] = content_pks[s] \cup Children(s)
      /\ parents'[s] = IF Children(s) = {} THEN parents[s] ELSE Children(s)
      /\ pc'[s] = IF Children(s) = {} THEN "update" ELSE "collect"
  BY <1>1 DEF CollectLevel, Goto
<1>7. LevelCollected'
  BY <1>1, <1>2, <1>3, <1>6 DEF LevelCollected, Walking, Tree
<1>8. ASSUME NEW q \in Shard, Walking(q)'
      PROVE  /\ owner[call[q].obj] \in Scope(q)
             /\ owner[call[q].target_location] \in {call[q].target_shard, Global}
  BY <1>1, <1>2, <1>8 DEF CollectionSound, Walking
<1>9. ASSUME NEW x \in content_pks'[s]
      PROVE  /\ owner[x] \in Scope(s)
             /\ owner[x] = s => loc[x] \in Tree(s)'
  <2>1. CASE x \in content_pks[s]
    BY <1>1, <1>6, <2>1 DEF CollectionSound, Tree
  <2>2. CASE x \in Children(s)
    BY <1>1, <1>3, <1>6, <2>2 DEF Children, Visible, Tree
  <2>3. QED BY <1>6, <1>9, <2>1, <2>2
<1>10. ASSUME NEW x \in Object, owner[x] = s,
              loc[x] \in Tree(s)', owner[loc[x]] = s,
              pc'[s] = "collect" => loc[x] \notin parents'[s]
       PROVE  x \in Tree(s)'
  <2>1. CASE loc[x] \in parents[s]
    <3>1. x \in Movable
      BY <1>3, <2>1 DEF Fixed, Object
    <3>2. x \in Children(s) BY <2>1, <3>1, <1>10 DEF Children, Visible, Scope
    <3>3. QED BY <3>2, <1>6 DEF Tree
  <2>2. CASE loc[x] \notin parents[s] /\ loc[x] \in Tree(s)
    BY <1>1, <1>6, <1>10, <2>2 DEF CollectionSound, Tree
  <2>3. CASE loc[x] \in Children(s)
    BY <1>6, <1>10, <2>3
  <2>4. QED BY <1>1, <1>6, <1>10, <2>1, <2>2, <2>3 DEF Tree
<1>11. CollectionSound'
  <2> SUFFICES ASSUME NEW q \in Shard, pc'[q] \in {"collect", "update"}
               PROVE
    /\ owner'[call'[q].obj] \in Scope(q)
    /\ owner'[call'[q].target_location] \in {call'[q].target_shard, Global}
    /\ \A x \in content_pks'[q] :
         owner'[x] \in Scope(q) /\ (owner'[x] = q => loc'[x] \in Tree(q)')
    /\ \A x \in Object :
         /\ owner'[x] = q
         /\ loc'[x] \in Tree(q)' /\ owner'[loc'[x]] = q
         /\ pc'[q] = "collect" => loc'[x] \notin parents'[q]
         => x \in Tree(q)'
    BY DEF CollectionSound, Scope
  <2>1. CASE q = s
    BY <1>1, <1>8, <1>9, <1>10, <2>1 DEF Walking
  <2>2. CASE q # s
    BY <1>1, <1>2, <2>2 DEF CollectionSound, Tree
  <2>3. QED BY <2>1, <2>2
<1>12. QED BY <1>4, <1>5, <1>7, <1>11

(* A commit: nothing of the tree stays behind, the root lands in a room of *)
(* the target shard, and what other calls have read is none of its rows.   *)
LEMMA CommitTree ==
  ASSUME TypeOK, CallOK, TreeInv, Dest \subseteq Room,
         NEW s \in Shard, Commit(s)
  PROVE  TreeInv'
<1> USE DEF TypeOK, TreeInv
<1> DEFINE o == call[s].obj
           t == call[s].target_shard
           d == call[s].target_location
<1>1. /\ pc[s] = "update" /\ owner[o] = s
      /\ \A x \in Object : owner'[x] = IF x \in Moved(s) THEN t ELSE owner[x]
      /\ \A x \in Object : loc'[x] = IF x = o THEN d ELSE loc[x]
      /\ UNCHANGED <<call, content_pks, parents>>
      /\ \A q \in Shard \ {s} : pc'[q] = pc[q]
      /\ pc'[s] = "detach"
  BY DEF Commit, Write, NewOwner, NewLoc, Goto, callvars
<1>2. o \in Movable /\ t \in Shard /\ d \in Room
  BY <1>1 DEF CallOK, Call
<1>3. /\ Global \notin Shard /\ None \notin Object
      /\ Movable \subseteq Object /\ Room \subseteq Object
      /\ \A r \in Room : r \notin Movable
  BY HandoffAssumption DEF HandoffAssumption, Object
<1>4. /\ \A x \in Moved(s) : x \in Movable /\ owner[x] = s
      /\ Moved(s) = {x \in Tree(s) : owner[x] = s}
  BY <1>1, <1>2 DEF Moved, Tree
<1>5. owner[d] \in {t, Global} /\ owner'[d] = owner[d]
  BY <1>1, <1>2, <1>3, <1>4 DEF CollectionSound
<1>6. Fixed'
  <2>1. \A r \in Room : loc'[r] = None /\ owner'[r] = RoomOwner[r]
    BY <1>1, <1>2, <1>3, <1>4 DEF Fixed
  <2>2. \A x \in Object : owner'[x] = Global <=> x \in GlobalRow
    BY <1>1, <1>2, <1>3, <1>4 DEF Fixed
  <2>3. QED BY <2>1, <2>2 DEF Fixed
<1>7. LevelCollected'
  BY <1>1 DEF LevelCollected, Walking, Tree
<1>8. Coherent'
  <2> SUFFICES ASSUME NEW x \in Object, loc'[x] # None, owner'[x] # Global
               PROVE  owner'[loc'[x]] \in {owner'[x], Global}
    BY DEF Coherent, Scope
  <2>1. CASE x = o
    BY <1>1, <1>2, <1>3, <1>5, <2>1 DEF Moved
  <2>2. CASE x # o /\ x \in Moved(s)
    <3>1. owner[x] = s /\ owner'[x] = t /\ loc'[x] = loc[x]
      BY <1>1, <1>4, <2>2
    <3>2. loc[x] \in Tree(s) /\ loc[x] \in Object
      BY <1>1, <1>3, <2>2, <3>1 DEF Moved, CollectionSound
    <3>3. owner[loc[x]] \in {s, Global}
      BY <1>1, <1>3, <2>2, <3>1 DEF Coherent, Scope
    <3>4. CASE owner[loc[x]] = s BY <1>1, <1>4, <3>1, <3>2, <3>4
    <3>5. CASE owner[loc[x]] = Global
      BY <1>1, <1>3, <1>4, <3>1, <3>2, <3>5
    <3>6. QED BY <3>3, <3>4, <3>5
  <2>3. CASE x \notin Moved(s)
    <3>1. owner'[x] = owner[x] /\ loc'[x] = loc[x] /\ loc[x] \in Object
      BY <1>1, <2>3 DEF Moved
    <3>2. owner[loc[x]] \in {owner[x], Global} BY <3>1 DEF Coherent, Scope
    <3>3. loc[x] \notin Moved(s)
      <4> SUFFICES ASSUME loc[x] \in Moved(s) PROVE FALSE OBVIOUS
      <4>1. owner[loc[x]] = s /\ loc[x] \in Tree(s) BY <1>4
      <4>2. owner[x] = s BY <1>3, <3>2, <4>1
      <4>3. x \in Tree(s) BY <1>1, <4>1, <4>2 DEF CollectionSound
      <4>4. QED BY <1>4, <2>3, <4>2, <4>3
    <3>4. QED BY <1>1, <3>1, <3>2, <3>3
  <2>4. QED BY <2>1, <2>2, <2>3
<1>9. CollectionSound'
  <2> SUFFICES ASSUME NEW q \in Shard, pc'[q] \in {"collect", "update"}
               PROVE
    /\ owner'[call'[q].obj] \in Scope(q)
    /\ owner'[call'[q].target_location] \in {call'[q].target_shard, Global}
    /\ \A x \in content_pks'[q] :
         owner'[x] \in Scope(q) /\ (owner'[x] = q => loc'[x] \in Tree(q)')
    /\ \A x \in Object :
         /\ owner'[x] = q
         /\ loc'[x] \in Tree(q)' /\ owner'[loc'[x]] = q
         /\ pc'[q] = "collect" => loc'[x] \notin parents'[q]
         => x \in Tree(q)'
    BY DEF CollectionSound, Scope
  <2>1. q # s /\ pc'[q] = pc[q] /\ Walking(q) BY <1>1 DEF Walking
  <2>2. /\ call[q].obj \in Movable /\ call[q].target_location \in Room
        /\ content_pks[q] \subseteq Movable /\ Tree(q) \subseteq Movable
        /\ Tree(q)' = Tree(q)
    BY <1>1, <2>1 DEF CallOK, Call, Walking, Tree
  <2>3. \A x \in Tree(q) : owner[x] \in Scope(q) /\ x \notin Moved(s)
    BY <1>3, <1>4, <2>1 DEF CollectionSound, Tree, Walking, Scope
  <2>4. \A x \in Tree(q) : x \in Object /\ owner'[x] = owner[x]
                           /\ loc'[x] = loc[x]
    BY <1>1, <1>3, <2>2, <2>3 DEF Moved
  <2>5. owner'[call'[q].obj] \in Scope(q)
    BY <1>1, <2>3, <2>4 DEF Tree
  <2>6. owner'[call'[q].target_location] \in {call'[q].target_shard, Global}
    BY <1>1, <1>3, <1>4, <2>1, <2>2 DEF CollectionSound, Walking
  <2>7. \A x \in content_pks'[q] :
          owner'[x] \in Scope(q) /\ (owner'[x] = q => loc'[x] \in Tree(q)')
    BY <1>1, <2>1, <2>2, <2>4 DEF CollectionSound, Tree, Walking
  <2>8. ASSUME NEW x \in Object, owner'[x] = q,
               loc'[x] \in Tree(q)', owner'[loc'[x]] = q,
               pc'[q] = "collect" => loc'[x] \notin parents'[q]
        PROVE  x \in Tree(q)'
    <3>1. x # o BY <1>1, <1>2, <1>3, <2>2, <2>8
    <3>2. loc'[x] = loc[x] /\ loc[x] \in Tree(q) /\ owner[loc[x]] = q
      BY <1>1, <2>2, <2>4, <2>8, <3>1
    <3>3. x \notin Moved(s)
      <4> SUFFICES ASSUME x \in Moved(s) PROVE FALSE OBVIOUS
      <4>1. owner[x] = s /\ loc[x] # None
        BY <1>3, <1>4, <2>2, <3>2
      <4>2. QED BY <1>3, <2>1, <3>2, <4>1 DEF Coherent, Scope
    <3>4. owner[x] = q BY <1>1, <2>8, <3>3
    <3>5. QED BY <1>1, <2>1, <2>2, <2>8, <3>2, <3>4 DEF CollectionSound, Walking
  <2>9. QED BY <2>5, <2>6, <2>7, <2>8
<1>10. QED BY <1>6, <1>7, <1>8, <1>9

(* Game code between two calls touches rows of its own shard and globals.  *)
LEMMA LocalMoveTree ==
  ASSUME TypeOK, CallOK, TreeInv,
         NEW s \in Shard, NEW o \in Movable, NEW c \in Object,
         LocalMove(s, o, c)
  PROVE  TreeInv'
<1> USE DEF TypeOK, TreeInv
<1>1. /\ pc[s] = "idle" /\ owner[o] \in {s, Global} /\ owner[c] \in {s, Global}
      /\ \A x \in Object : loc'[x] = IF x = o THEN c ELSE loc[x]
      /\ UNCHANGED <<owner, pc, call, content_pks, parents>>
  BY DEF LocalMove, Visible, Scope, callvars
<1>2. /\ Global \notin Shard /\ None \notin Object /\ Movable \subseteq Object
      /\ \A r \in Room : r \notin Movable
  BY HandoffAssumption DEF HandoffAssumption, Object
<1>3. Fixed' BY <1>1, <1>2 DEF Fixed, Object
<1>4. LevelCollected' BY <1>1 DEF LevelCollected, Walking, Tree
<1>5. Coherent' BY <1>1, <1>2 DEF Coherent, Scope
<1>6. CollectionSound'
  <2> SUFFICES ASSUME NEW q \in Shard, pc[q] \in {"collect", "update"}
               PROVE
    /\ owner[call[q].obj] \in Scope(q)
    /\ owner[call[q].target_location] \in {call[q].target_shard, Global}
    /\ \A x \in content_pks[q] :
         owner[x] \in Scope(q) /\ (owner[x] = q => loc'[x] \in Tree(q))
    /\ \A x \in Object :
         /\ owner[x] = q
         /\ loc'[x] \in Tree(q) /\ owner[loc'[x]] = q
         /\ pc[q] = "collect" => loc'[x] \notin parents[q]
         => x \in Tree(q)
    BY <1>1 DEF CollectionSound, Scope, Tree
  <2>1. q # s BY <1>1
  <2>2. \A x \in Object : owner[x] = q => loc'[x] = loc[x]
    BY <1>1, <1>2, <2>1
  <2>3. content_pks[q] \subseteq Object BY <1>2
  <2>4. QED BY <2>2, <2>3 DEF CollectionSound
<1>7. QED BY <1>3, <1>4, <1>5, <1>6

(* A call begins with a row of its own and a destination on the target.    *)
LEMMA ValidateTree ==
  ASSUME TypeOK, CallOK, TreeInv, ~StaleRefs,
         NEW s \in Shard, NEW o \in Movable, NEW t \in Shard, NEW d \in Dest,
         Validate(s, o, t, d)
  PROVE  TreeInv'
<1> USE DEF TypeOK, TreeInv
<1>1. /\ UNCHANGED <<owner, loc>>
      /\ owner[o] \in Scope(s) /\ owner[d] \in {t, Global}
      /\ call'[s].obj = o /\ call'[s].target_shard = t
      /\ call'[s].target_location = d
      /\ content_pks'[s] = {} /\ parents'[s] = {o} /\ pc'[s] = "collect"
  BY DEF Validate, Begin, Goto, Visible
<1>2. \A q \in Shard \ {s} :
         /\ pc'[q] = pc[q] /\ call'[q] = call[q]
         /\ content_pks'[q] = content_pks[q] /\ parents'[q] = parents[q]
  BY DEF Validate, Begin, Goto
<1>3. Fixed' BY <1>1 DEF Fixed
<1>4. LevelCollected'
  BY <1>1, <1>2 DEF LevelCollected, Walking, Tree
<1>5. Coherent' BY <1>1 DEF Coherent, Scope
<1>6. CollectionSound'
  BY <1>1, <1>2 DEF CollectionSound, Tree, Scope
<1>7. QED BY <1>3, <1>4, <1>5, <1>6

LEMMA StepTree ==
  ASSUME TypeOK, CallOK, TreeInv, Dest \subseteq Room, ~StaleRefs, [Next]_vars
  PROVE  TreeInv'
<1>1. CASE \E s \in Shard : CollectLevel(s) BY <1>1, CollectTree
<1>2. CASE \E s \in Shard : Commit(s) BY <1>2, CommitTree
<1>3. CASE \E s \in Shard, o \in Movable, c \in Object : LocalMove(s, o, c)
  BY <1>3, LocalMoveTree
<1>4. CASE \E s \in Shard, o \in Movable, t \in Shard, d \in Dest :
              Validate(s, o, t, d)
  BY <1>4, ValidateTree
<1>5. CASE UNCHANGED <<owner, loc, pc, call, content_pks, parents>>
  BY <1>5, QuietTree DEF Walking
<1>6. ASSUME NEW s \in Shard, UNCHANGED <<owner, loc>>,
             ~Walking(s)',
             \A q \in Shard \ {s} :
               /\ pc'[q] = pc[q] /\ call'[q] = call[q]
               /\ content_pks'[q] = content_pks[q] /\ parents'[q] = parents[q]
      PROVE  TreeInv'
  BY <1>6, QuietTree
<1>7. CASE \E s \in Shard : \/ RollBack(s) \/ Detach(s)
                            \/ EndRedirects(s) \/ SendFlush(s) \/ Crash(s)
  <2> PICK s \in Shard : \/ RollBack(s) \/ Detach(s)
                         \/ EndRedirects(s) \/ SendFlush(s) \/ Crash(s)
    BY <1>7
  <2>1. UNCHANGED <<owner, loc>>
    BY DEF RollBack, Detach, EndRedirects, SendFlush, Crash
  <2>2. ~Walking(s)'
    BY DEF RollBack, Detach, EndRedirects, SendFlush, Crash, Return,
           Goto, Walking, TypeOK
  <2>3. \A q \in Shard \ {s} :
          /\ pc'[q] = pc[q] /\ call'[q] = call[q]
          /\ content_pks'[q] = content_pks[q] /\ parents'[q] = parents[q]
    BY DEF RollBack, Detach, EndRedirects, SendFlush, Crash, Return,
           Goto, callvars, TypeOK
  <2>4. QED BY <1>6, <2>1, <2>2, <2>3
<1>8. CASE \/ UNCHANGED vars
           \/ \E s \in Shard, k \in Session : Redirect(s, k)
           \/ \E s \in Shard, o \in Movable : Load(s, o)
           \/ \E k \in Session : Unpuppet(k)
           \/ \E k \in Session : Reconnect(k)
           \/ \E k \in Session, o \in Puppetable : Puppet(k, o)
           \/ \E m \in Flush : HandleFlush(m)
  BY <1>5, <1>8 DEF vars, Redirect, Load, Unpuppet, Reconnect, Puppet,
                    HandleFlush, callvars
<1>9. QED BY <1>1, <1>2, <1>3, <1>4, <1>7, <1>8, Cases

LEMMA TreeInvariant ==
  ASSUME Dest \subseteq Room, ~StaleRefs
  PROVE  Spec => [](TypeOK /\ CallOK /\ TreeInv)
<1>1. Init => TreeInv BY InitTree
<1>2. TypeOK /\ CallOK /\ TreeInv /\ [Next]_vars => TreeInv' BY StepTree
<1>3. QED BY <1>1, <1>2, TypeCorrect, PTL DEF Spec

(* Whatever the interleaving of the calls of any number of shards, a row   *)
(* and what is inside it are on one shard, or their container is global,   *)
(* provided that callers move things into rooms and hold no reference to a *)
(* row that has left their shard.                                          *)
THEOREM RowsStayTogether ==
  ASSUME Dest \subseteq Room, ~StaleRefs
  PROVE  Spec => []Coherent
<1>1. TreeInv => Coherent BY DEF TreeInv
<1>2. QED BY <1>1, TreeInvariant, PTL

(* Under the same conditions the collection that precedes the transaction  *)
(* is as good as one inside it: no other process can make it wrong.        *)
THEOREM CollectedRowsStayValid ==
  ASSUME Dest \subseteq Room, ~StaleRefs
  PROVE  Spec => []CollectionSound
<1>1. TreeInv => CollectionSound BY DEF TreeInv
<1>2. QED BY <1>1, TreeInvariant, PTL

-----------------------------------------------------------------------------
(* The handoff implements the abstract specification of ownership.         *)
LEMMA StepOwnership ==
  ASSUME TypeOK, CallOK, TreeInv, Dest \subseteq Room, GlobalRow \subseteq Room,
         [Next]_vars
  PROVE  O!Next \/ UNCHANGED <<owner, loc>>
<1> USE DEF TypeOK, TreeInv
<1>1. CASE \E s \in Shard : Commit(s)
  <2> PICK s \in Shard : Commit(s) BY <1>1
  <2> DEFINE o == call[s].obj
             t == call[s].target_shard
             d == call[s].target_location
  <2>1. /\ pc[s] = "update" /\ owner[o] = s
        /\ o \in Movable /\ t \in Shard /\ d \in Room
        /\ Tree(s) \subseteq Movable
    BY DEF Commit, CallOK, Call, Tree
  <2>2. /\ Global \notin Shard /\ None \notin Object
        /\ Movable \subseteq Object /\ \A r \in Room : r \notin Movable
    BY HandoffAssumption DEF HandoffAssumption, Object
  <2>3. \A x \in Movable : owner[x] # Global
    BY <2>2 DEF Fixed
  <2>4. \A x \in Tree(s) : owner[x] = s
    BY <2>1, <2>3 DEF CollectionSound, Tree, Scope
  <2>5. Moved(s) = Tree(s) BY <2>4 DEF Moved, Tree
  <2>6. ASSUME NEW x \in Object, loc[x] \in Tree(s) PROVE x \in Tree(s)
    <3>1. x \in Movable /\ loc[x] # None
      BY <2>1, <2>2, <2>6 DEF Fixed, Object
    <3>2. owner[x] = s
      BY <2>2, <2>3, <2>4, <2>6, <3>1 DEF Coherent, Scope
    <3>3. QED BY <2>1, <2>4, <2>6, <3>2 DEF CollectionSound
  <2>7. \A x \in Tree(s) \ {o} : loc[x] \in Tree(s)
    BY <2>1, <2>4 DEF CollectionSound, Tree
  <2>8. owner[d] \in {t, Global} BY <2>1 DEF CollectionSound
  <2>9. /\ owner' = [x \in Object |-> IF x \in Tree(s) THEN t ELSE owner[x]]
        /\ loc' = [loc EXCEPT ![o] = d]
    BY <2>5 DEF Commit, Write, NewOwner, NewLoc
  <2>10. O!Transfer(Tree(s), o, t, d)
    BY <2>4, <2>6, <2>7, <2>8, <2>9 DEF O!Transfer, O!Object, Object, Tree
  <2>11. QED BY <2>1, <2>10 DEF O!Next, Tree
<1>2. CASE \E s \in Shard, o \in Movable, c \in Object : LocalMove(s, o, c)
  <2> PICK s \in Shard, o \in Movable, c \in Object : LocalMove(s, o, c)
    BY <1>2
  <2>1. owner[o] # Global
    BY HandoffAssumption DEF Fixed, HandoffAssumption, Object
  <2>2. owner[o] = s /\ owner[c] \in {s, Global}
    BY <2>1 DEF LocalMove, Visible, Scope
  <2>3. O!Place(o, c) BY <2>2 DEF LocalMove, O!Place
  <2>4. QED BY <2>3 DEF O!Next, O!Object, Object
<1>3. CASE UNCHANGED vars BY <1>3 DEF vars
<1>4. QED
  BY <1>1, <1>2, <1>3, Cases
  DEF CollectLevel, RollBack, Detach, Redirect, EndRedirects,
      SendFlush, Load, Validate, Begin, Unpuppet, Reconnect, Puppet,
      HandleFlush, Crash

(* To the database the interleaved steps of all calls are whole trees that *)
(* change shard in one piece and things put into other things of their     *)
(* shard, when only rooms are global.                                      *)
THEOREM HandoffImplementsOwnership ==
  ASSUME Dest \subseteq Room, ~StaleRefs, GlobalRow \subseteq Room
  PROVE  Spec => ImplementsOwnership
<1>1. TypeOK /\ Coherent /\ Init => O!Init
  BY DEF TypeOK, Coherent, O!Init, O!Together, O!Object, Object, Owner, Scope
<1>2. Init => O!Init BY <1>1, InitType, InitTree DEF TreeInv
<1>3. TypeOK /\ CallOK /\ TreeInv /\ [Next]_vars =>
        [O!Next]_<<owner, loc>>
  BY StepOwnership
<1>4. QED
  BY <1>2, <1>3, TreeInvariant, PTL DEF Spec, ImplementsOwnership, O!Spec

-----------------------------------------------------------------------------
(* Sessions.  Here what players control is not carried by anything, which  *)
(* the violation of PuppetLocal found by TLC shows to be needed.           *)
PuppetInv ==
  /\ \A x \in Movable \ Carriable : loc[x] \in Room
  /\ \A s \in Shard : content_pks[s] \subseteq Carriable
  /\ \A k \in Session : puppet[k] \in Puppetable \cup {None}
  /\ \A k \in Session :
       Walking(Home[k]) /\ puppet[k] = call[Home[k]].obj
         => k \in sessions[Home[k]]
  /\ PuppetLocal

LEMMA InitPuppet == ASSUME Init PROVE PuppetInv
<1>1. PICK start \in [Movable -> Room] :
         loc = [x \in Object |-> IF x \in Room THEN None ELSE start[x]]
  BY DEF Init
<1>2. \A x \in Movable : x \in Object /\ x \notin Room
  BY HandoffAssumption DEF HandoffAssumption, Object
<1>3. \A x \in Movable : loc[x] \in Room BY <1>1, <1>2
<1>4. \A k \in Session : Home[k] \in Shard /\ puppet[k] = None
  BY HandoffAssumption DEF Init, HandoffAssumption
<1>5. \A s \in Shard : content_pks[s] = {} /\ ~Walking(s)
  BY DEF Init, Walking
<1>6. QED BY <1>3, <1>4, <1>5 DEF PuppetInv, PuppetLocal

LEMMA CommitPuppet ==
  ASSUME TypeOK, CallOK, PuppetInv,
         Dest \subseteq Room, Puppetable \cap Carriable = {},
         NEW s \in Shard, Commit(s)
  PROVE  PuppetInv'
<1> USE DEF TypeOK, PuppetInv
<1>1. /\ call[s] \in Call /\ pc[s] = "update" /\ owner[call[s].obj] = s
      /\ \A x \in Object \ Moved(s) : owner'[x] = owner[x]
      /\ loc' = [loc EXCEPT ![call[s].obj] = call[s].target_location]
      /\ UNCHANGED <<puppet, call, content_pks, sessions>>
      /\ pc' = [pc EXCEPT ![s] = "detach"]
  BY DEF Commit, CallOK, Write, NewOwner, NewLoc, Goto, callvars
<1>2. /\ Global \notin Shard /\ None \notin Object /\ Movable \subseteq Object
      /\ Puppetable \subseteq Movable /\ Home \in [Session -> Shard]
  BY HandoffAssumption DEF HandoffAssumption, Object
<1>3. \A x \in Movable \ Carriable : loc'[x] \in Room
  BY <1>1, <1>2 DEF Call
<1>4. PuppetLocal'
  <2> SUFFICES ASSUME NEW k \in Session, puppet[k] # None
               PROVE  \/ owner'[puppet[k]] \in {Home[k], Global}
                      \/ pc'[Home[k]] = "detach" /\ k \in sessions[Home[k]]
    BY <1>1, <1>2 DEF PuppetLocal, Visible, Scope, Object
  <2>1. puppet[k] \in Puppetable /\ puppet[k] \in Object /\ Home[k] \in Shard
    BY <1>2
  <2>2. CASE pc[Home[k]] = "detach" /\ k \in sessions[Home[k]]
    BY <1>1, <2>1, <2>2
  <2>3. CASE owner[puppet[k]] \in {Home[k], Global} /\ puppet[k] \notin Moved(s)
    BY <1>1, <2>1, <2>3
  <2>4. CASE owner[puppet[k]] \in {Home[k], Global} /\ puppet[k] \in Moved(s)
    <3>1. puppet[k] = call[s].obj BY <2>1, <2>4 DEF Moved
    <3>2. Home[k] = s BY <1>1, <1>2, <2>4, <3>1
    <3>3. QED BY <1>1, <3>1, <3>2 DEF Walking
  <2>5. QED BY <2>2, <2>3, <2>4 DEF PuppetLocal, Visible, Scope
<1>5. \A k \in Session :
        Walking(Home[k])' /\ puppet'[k] = call'[Home[k]].obj
          => k \in sessions'[Home[k]]
  BY <1>1, <1>2 DEF Walking
<1>6. QED BY <1>1, <1>3, <1>4, <1>5

LEMMA StepPuppet ==
  ASSUME TypeOK, CallOK, PuppetInv,
         Dest \subseteq Room, Puppetable \cap Carriable = {}, [Next]_vars
  PROVE  PuppetInv'
<1> USE DEF TypeOK, PuppetInv, PuppetLocal, Visible, Scope, Walking, Goto,
            Return, callvars
<1>0. /\ Home \in [Session -> Shard] /\ None \notin Movable
      /\ \A r \in Room : r \notin Movable
      /\ Puppetable \subseteq Movable
  BY HandoffAssumption DEF HandoffAssumption, Object
<1>1. CASE UNCHANGED vars BY <1>1 DEF vars
<1>2. CASE \E s \in Shard : CollectLevel(s)
  <2> PICK s \in Shard : CollectLevel(s) BY <1>2
  <2>1. Children(s) \subseteq Carriable BY <1>0 DEF Children
  <2>2. UNCHANGED <<owner, loc, puppet, call, sessions>> BY DEF CollectLevel
  <2>3. \A q \in Shard : content_pks'[q] \subseteq Carriable
    BY <2>1 DEF CollectLevel
  <2>4. \A q \in Shard : /\ Walking(q)' => Walking(q)
                         /\ pc[q] = "detach" => pc'[q] = "detach"
    BY DEF CollectLevel
  <2>5. QED BY <1>0, <2>2, <2>3, <2>4
<1>3. CASE \E s \in Shard : Commit(s) BY <1>3, CommitPuppet
<1>5. CASE \E s \in Shard : RollBack(s) BY <1>0, <1>5 DEF RollBack
<1>6. CASE \E s \in Shard : Detach(s)
  <2> PICK s \in Shard : Detach(s) BY <1>6
  <2>1. /\ puppet' = [k \in Session |-> IF k \in sessions[s] THEN None ELSE puppet[k]]
        /\ pc' = [pc EXCEPT ![s] = "redirect"]
        /\ UNCHANGED <<owner, loc, call, content_pks, sessions>>
    BY DEF Detach
  <2>2. \A k \in Session : puppet'[k] # None => puppet'[k] = puppet[k]
                              /\ k \notin sessions[s]
    BY <2>1
  <2>3. PuppetLocal'
    BY <1>0, <2>1, <2>2
  <2>4. \A k \in Session :
          Walking(Home[k])' /\ puppet'[k] = call'[Home[k]].obj
            => k \in sessions'[Home[k]]
    <3> SUFFICES ASSUME NEW k \in Session, Walking(Home[k])',
                        puppet'[k] = call'[Home[k]].obj
                 PROVE  k \in sessions[Home[k]]
      BY <2>1
    <3>1. Home[k] \in Shard /\ Walking(Home[k]) BY <1>0, <2>1
    <3>2. puppet'[k] # None
      BY <1>0, <2>1, <3>1 DEF CallOK, Call
    <3>3. QED BY <2>1, <2>2, <3>1, <3>2
  <2>5. QED BY <2>1, <2>2, <2>3, <2>4
<1>7. CASE \E s \in Shard, k \in Session : Redirect(s, k)
  BY <1>0, <1>7 DEF Redirect
<1>8. CASE \E s \in Shard : EndRedirects(s) BY <1>0, <1>8 DEF EndRedirects
<1>9. CASE \E s \in Shard : SendFlush(s) BY <1>0, <1>9 DEF SendFlush
<1>10. CASE \E s \in Shard, o \in Movable : Load(s, o)
  BY <1>0, <1>10 DEF Load
<1>11. CASE \E s \in Shard, o \in Movable, c \in Object : LocalMove(s, o, c)
  BY <1>0, <1>11 DEF LocalMove
<1>12. CASE \E s \in Shard, o \in Movable, t \in Shard, d \in Dest :
                Validate(s, o, t, d)
  BY <1>0, <1>12 DEF Validate, Begin
<1>13. CASE \E k \in Session : Unpuppet(k)
  BY <1>0, <1>13 DEF Unpuppet, CallOK, Call
<1>14. CASE \E k \in Session : Reconnect(k) BY <1>0, <1>14 DEF Reconnect
<1>15. CASE \E k \in Session, o \in Puppetable : Puppet(k, o)
  BY <1>0, <1>15 DEF Puppet
<1>16. CASE \E m \in Flush : HandleFlush(m) BY <1>16 DEF HandleFlush
<1>17. CASE \E s \in Shard : Crash(s)
  BY <1>0, <1>17 DEF Crash
<1>18. QED BY <1>1, <1>2, <1>3, <1>5, <1>6, <1>7, <1>8, <1>9, <1>10,
              <1>11, <1>12, <1>13, <1>14, <1>15, <1>16, <1>17, Cases

(* A session controls a row of its own shard, or is about to be detached   *)
(* by the call that moved the row, when characters travel to rooms and     *)
(* what players control is not carried.                                    *)
THEOREM PuppetsStayLocal ==
  ASSUME Dest \subseteq Room, Puppetable \cap Carriable = {}
  PROVE  Spec => []PuppetLocal
<1>1. Init => PuppetInv BY InitPuppet
<1>2. TypeOK /\ CallOK /\ PuppetInv /\ [Next]_vars => PuppetInv'
  BY StepPuppet
<1>3. PuppetInv => PuppetLocal BY DEF PuppetInv
<1>4. QED BY <1>1, <1>2, <1>3, TypeCorrect, PTL DEF Spec

=============================================================================
