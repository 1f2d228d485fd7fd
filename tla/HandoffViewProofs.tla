------------------------- MODULE HandoffViewProofs -------------------------
(***************************************************************************)
(* Theorems about HandoffView: the calls of Handoff together with what     *)
(* rooms have cached, for every set of shards, rows and sessions.          *)
(***************************************************************************)
EXTENDS HandoffView, HandoffProofs

ViewType == view \in [Shard -> [Room -> (SUBSET Movable) \cup {Unset}]]

(* What moves has one shard.                                               *)
OneOwner == \A x \in Movable : owner[x] \in Shard

(* What a call has collected stays the caller's until its transaction, and *)
(* stays inside a row that moves: it is in no room.                        *)
Carried ==
  \A s \in Shard : Walking(s) =>
    \A x \in content_pks[s] : owner[x] = s /\ loc[x] \in Movable

(* Whether or not the instances of a room's contents are all there, the    *)
(* cache lacks nothing that no flush accounts for: an invalid cache may    *)
(* become valid again.                                                     *)
Shown(s, r) ==
  \/ view[s][r] = Unset
  \/ Contents(s, r) \subseteq view[s][r]
  \/ FlushComing(s, r)
  \/ [to |-> s, pk |-> r] \in lost

ViewInv ==
  /\ TypeOK /\ CallOK /\ NoPhantom
  /\ ViewType /\ OneOwner /\ Carried
  /\ \A s \in Shard, r \in Room : Shown(s, r)

-----------------------------------------------------------------------------
(* The steps: those of Handoff, and reading a room.                        *)
LEMMA ViewSteps ==
  ASSUME [ViewNext]_viewvars
  PROVE  [Next]_vars \/ \E s \in Shard, r \in Room : Look(s, r)
BY DEF ViewNext, viewvars, vars, Next, GameStep, ViewMoveStep, ViewLocalMove, ViewCrash,
       ViewHandleFlush

LEMMA StepBase ==
  ASSUME TypeOK, CallOK, NoPhantom, [ViewNext]_viewvars
  PROVE  TypeOK' /\ CallOK' /\ NoPhantom'
<1>1. CASE [Next]_vars BY <1>1, StepType, StepCaches
<1>2. CASE \E s \in Shard, r \in Room : Look(s, r)
  BY <1>2 DEF Look, Contents, TypeOK, CallOK, NoPhantom, Visible, Scope, callvars
<1>3. QED BY <1>1, <1>2, ViewSteps

-----------------------------------------------------------------------------
(* Owners and collected rows.                                              *)
LEMMA StepOwner ==
  ASSUME TypeOK, CallOK, OneOwner, [ViewNext]_viewvars
  PROVE  OneOwner'
<1>1. CASE UNCHANGED owner BY <1>1 DEF OneOwner
<1>2. CASE \E s \in Shard : Commit(s)
  <2> PICK s \in Shard : Commit(s) BY <1>2
  <2>1. call[s] \in Call BY DEF Commit, CallOK
  <2>2. call[s].target_shard \in Shard BY <2>1 DEF Call
  <2>3. QED BY <2>2 DEF Commit, Write, NewOwner, OneOwner, Object
<1>3. QED BY <1>1, <1>2, ViewSteps, OnlyCommitWrites DEF Look

(* A row of one shard is moved by no other.                                *)
LEMMA CommitOthers ==
  ASSUME TypeOK, CallOK, OneOwner, NEW q \in Shard, Commit(q),
         NEW x \in Movable, x \notin Moved(q)
  PROVE  owner'[x] = owner[x] /\ loc'[x] = loc[x]
BY DEF Commit, Write, NewOwner, NewLoc, Moved, TypeOK, Object

LEMMA StepCarried ==
  ASSUME TypeOK, CallOK, OneOwner, Carried, [ViewNext]_viewvars
  PROVE  Carried'
<1> SUFFICES ASSUME NEW s \in Shard, Walking(s)', NEW x \in content_pks'[s]
             PROVE  owner'[x] = s /\ loc'[x] \in Movable
  BY DEF Carried
<1>1. CASE Walking(s) /\ x \in content_pks[s] /\ owner'[x] = owner[x] /\ loc'[x] = loc[x]
  BY <1>1 DEF Carried
<1>2. CASE \E q \in Shard : CollectLevel(q)
  <2> PICK q \in Shard : CollectLevel(q) BY <1>2
  <2>1. UNCHANGED <<owner, loc>> /\ Walking(q) BY DEF CollectLevel, Walking
  <2>2. CASE x \in content_pks[s]
    BY <1>1, <2>1, <2>2 DEF CollectLevel, Walking, Goto, TypeOK
  <2>3. CASE x \notin content_pks[s]
    <3>1. q = s /\ x \in Children(s) BY <2>3 DEF CollectLevel, TypeOK
    <3>2. x \in Movable /\ loc[x] \in Movable /\ owner[x] \in {s, Global}
      BY <3>1 DEF Children, TypeOK, Visible, Scope
    <3>3. QED
      BY <2>1, <3>2, HandoffAssumption DEF OneOwner, HandoffAssumption
  <2>4. QED BY <2>2, <2>3
<1>3. CASE \E q \in Shard : Commit(q)
  <2> PICK q \in Shard : Commit(q) BY <1>3
  <2>1. q # s /\ Walking(s) /\ x \in content_pks[s]
    BY DEF Commit, Write, Goto, Walking, callvars, TypeOK
  <2>2. owner[x] = s /\ x \in Movable BY <2>1 DEF Carried, TypeOK
  <2>3. x \notin Moved(q) BY <2>1, <2>2 DEF Commit, Moved
  <2>4. QED BY <1>1, <2>1, <2>2, <2>3, CommitOthers
<1>4. CASE \E q \in Shard, o \in Movable, c \in Object : LocalMove(q, o, c)
  <2> PICK q \in Shard, o \in Movable, c \in Object : LocalMove(q, o, c) BY <1>4
  <2>1. q # s /\ Walking(s) /\ x \in content_pks[s]
    BY DEF LocalMove, Walking, callvars
  <2>2. owner[x] = s /\ owner[o] \in {q, Global} /\ x \in Object
    BY <2>1 DEF Carried, LocalMove, Visible, Scope, TypeOK, Object
  <2>3. x # o BY <2>1, <2>2, HandoffAssumption DEF HandoffAssumption
  <2>4. owner'[x] = owner[x] /\ loc'[x] = loc[x]
    BY <2>2, <2>3 DEF LocalMove, TypeOK
  <2>5. QED BY <1>1, <2>1, <2>4
<1>5. CASE \E q \in Shard : \E o \in Movable, t \in Shard, d \in Dest : Validate(q, o, t, d)
  BY <1>1, <1>5 DEF Validate, Begin, Goto, Walking, TypeOK
<1>6. CASE \E q \in Shard : RollBack(q) \/ SendFlush(q) \/ Crash(q)
  BY <1>1, <1>6 DEF RollBack, SendFlush, Crash, Return, Goto, Walking, TypeOK
<1>7. CASE \E q \in Shard : Detach(q) \/ EndRedirects(q)
  BY <1>1, <1>7 DEF Detach, EndRedirects, Goto, Walking, TypeOK, callvars
<1>8. CASE UNCHANGED <<owner, loc, pc, content_pks>>
  BY <1>1, <1>8 DEF Walking
<1>9. CASE Next
  BY <1>2, <1>3, <1>4, <1>5, <1>6, <1>7, <1>8, <1>9, Cases
     DEF Redirect, Load, Unpuppet, Reconnect, Puppet, HandleFlush, callvars
<1>10. QED BY <1>8, <1>9, ViewSteps DEF Look, vars, callvars
-----------------------------------------------------------------------------
(* Flushes.                                                                *)

(* The flush m is on its way, or is known not to have been sent.           *)
Accounted(m) ==
  m \in flushes \/ m \in lost \/ \E q \in Shard : m \in Owed(q)

LEMMA ShownAs ==
  ASSUME NEW s \in Shard, NEW r \in Room
  PROVE  Shown(s, r) <=> \/ view[s][r] = Unset
                         \/ Contents(s, r) \subseteq view[s][r]
                         \/ Accounted([to |-> s, pk |-> r])
BY DEF Shown, FlushComing, Accounted

(* A step of a call hands on what it owes.                                 *)
LEMMA CallAccounts ==
  ASSUME TypeOK, NEW q \in Shard, MoveStep(q), lost' = Needed(lost \cup Untold(q) \cup Unsent(q)),
         NEW s \in Shard, NEW r, NEW m, m = [to |-> s, pk |-> r],
         view'[s][r] # Unset, Accounted(m)
  PROVE  Accounted(m)'
<1>1. /\ \A p \in Shard \ {q} : pc'[p] = pc[p] /\ call'[p] = call[p]
      /\ flushes \subseteq flushes'
  BY DEF MoveStep, CollectLevel, Commit, Write, RollBack, Detach, Redirect, EndRedirects,
         SendFlush, Return, Goto, TypeOK, callvars
<1>2. m \in lost \cup Untold(q) \cup Unsent(q) => m \in lost'
  BY DEF Needed
<1>3. CASE m \in Owed(q)
  <2>1. /\ pc[q] \in {"detach", "redirect", "flush"} /\ call[q].target_shard # q
        /\ m = [to |-> call[q].target_shard, pk |-> call[q].target_location]
    BY <1>3 DEF Owed
  <2>2. CASE SendFlush(q)
    <3>1. CASE m \in flushes' BY <3>1 DEF Accounted
    <3>2. CASE Fault
      <4>1. faults' # faults BY <3>2 DEF Fault, TypeOK
      <4>2. m \in Unsent(q) BY <1>3, <2>2, <4>1 DEF SendFlush, Unsent
      <4>3. QED BY <1>2, <4>2 DEF Accounted
    <3>3. QED BY <2>1, <2>2, <3>1, <3>2 DEF SendFlush
  <2>3. CASE ~SendFlush(q)
    <3>1. pc'[q] \in {"detach", "redirect", "flush"} /\ call'[q] = call[q]
      BY <2>1, <2>3
         DEF MoveStep, CollectLevel, Commit, RollBack, Detach, Redirect, EndRedirects,
             Goto, TypeOK, callvars
    <3>2. m \in Owed(q)' BY <2>1, <3>1 DEF Owed
    <3>3. QED BY <3>2 DEF Accounted
  <2>4. QED BY <2>2, <2>3
<1>4. CASE \E p \in Shard \ {q} : m \in Owed(p)
  <2> PICK p \in Shard \ {q} : m \in Owed(p) BY <1>4
  <2>1. m \in Owed(p)' BY <1>1 DEF Owed
  <2>2. QED BY <2>1 DEF Accounted
<1>5. QED BY <1>1, <1>2, <1>3, <1>4 DEF Accounted

(* Whatever happens, a flush stays accounted for until its room has no     *)
(* cache, or is read.                                                      *)
LEMMA StepAccounts ==
  ASSUME TypeOK, [ViewNext]_viewvars, NEW s \in Shard, NEW r \in Room,
         NEW m, m = [to |-> s, pk |-> r], ~Look(s, r),
         view'[s][r] # Unset, ViewType, Accounted(m)
  PROVE  Accounted(m)'
<1>1. CASE UNCHANGED <<flushes, lost, pc, call>>
  BY <1>1 DEF Accounted, Owed
<1>2. CASE \E q \in Shard : ViewMoveStep(q)
  BY <1>2, CallAccounts DEF ViewMoveStep
<1>3. CASE \E q \in Shard : ViewCrash(q)
  <2> PICK q \in Shard : ViewCrash(q) BY <1>3
  <2>1. /\ \A p \in Shard \ {q} : pc'[p] = pc[p] /\ call'[p] = call[p]
        /\ flushes' = flushes
    BY DEF ViewCrash, Crash, Return, Goto, TypeOK
  <2>2. m \in lost \cup Owed(q) => m \in lost' BY DEF ViewCrash, Needed
  <2>3. \A p \in Shard \ {q} : m \in Owed(p) => m \in Owed(p)' BY <2>1 DEF Owed
  <2>4. QED BY <2>1, <2>2, <2>3 DEF Accounted
<1>4. CASE \E n \in Flush : ViewHandleFlush(n)
  <2> PICK n \in Flush : ViewHandleFlush(n) BY <1>4
  <2>1. m # n
    <3>1. n.to \in Shard BY DEF Flush
    <3>2. view'[n.to] = [x \in Room |-> IF x = n.pk THEN Unset ELSE view[n.to][x]]
      BY <3>1 DEF ViewHandleFlush, ViewType
    <3>3. QED BY <3>2
  <2>2. UNCHANGED <<pc, call>> /\ (m \in flushes => m \in flushes') /\ (m \in lost => m \in lost')
    BY <2>1 DEF ViewHandleFlush, HandleFlush, callvars
  <2>3. QED BY <2>2 DEF Accounted, Owed
<1>5. CASE \E q \in Shard : \E x \in Room : Look(q, x)
  <2> PICK q \in Shard, x \in Room : Look(q, x) BY <1>5
  <2>1. [to |-> q, pk |-> x] # m OBVIOUS
  <2>2. UNCHANGED <<pc, call, flushes>> /\ (m \in lost => m \in lost')
    BY <2>1 DEF Look, callvars
  <2>3. QED BY <2>2 DEF Accounted, Owed
<1>6. CASE \E q \in Shard : \E o \in Movable, t \in Shard, d \in Dest :
            Validate(q, o, t, d) /\ UNCHANGED lost
  <2> PICK q \in Shard : \E o \in Movable, t \in Shard, d \in Dest :
            Validate(q, o, t, d) /\ UNCHANGED lost
    BY <1>6
  <2>1. /\ pc[q] = "idle" /\ UNCHANGED <<flushes, lost>>
        /\ \A p \in Shard \ {q} : pc'[p] = pc[p] /\ call'[p] = call[p]
    BY DEF Validate, Begin, Goto, TypeOK
  <2>2. \A p \in Shard : m \in Owed(p) => m \in Owed(p)' BY <2>1 DEF Owed
  <2>3. QED BY <2>1, <2>2 DEF Accounted
<1>7. CASE \E q \in Shard, o \in Movable, c \in Object : ViewLocalMove(q, o, c)
  BY <1>1, <1>7 DEF ViewLocalMove, LocalMove, callvars
<1>8. CASE UNCHANGED lost /\ \E q \in Shard, o \in Movable : Load(q, o)
  BY <1>1, <1>8 DEF Load, callvars
<1>9. CASE UNCHANGED lost /\ \E k \in Session : SessionStep(k)
  BY <1>1, <1>9 DEF SessionStep, Unpuppet, Reconnect, Puppet, callvars
<1>10. CASE UNCHANGED viewvars BY <1>1, <1>10 DEF viewvars, vars, callvars
<1>11. QED
  BY <1>2, <1>3, <1>4, <1>5, <1>6, <1>7, <1>8, <1>9, <1>10 DEF ViewNext
-----------------------------------------------------------------------------
(* The caches.                                                             *)
LEMMA StepViewType ==
  ASSUME TypeOK, ViewType, [ViewNext]_viewvars
  PROVE  ViewType'
<1>1. CASE UNCHANGED view BY <1>1 DEF ViewType
<1>2. CASE \E q \in Shard : \E x \in Room : Look(q, x)
  BY <1>2 DEF Look, Contents, ViewType
<1>3. CASE \E q \in Shard, o \in Movable, c \in Object : ViewLocalMove(q, o, c)
  <2> PICK q \in Shard, o \in Movable, c \in Object : ViewLocalMove(q, o, c) BY <1>3
  <2>1. view[q] \in [Room -> (SUBSET Movable) \cup {Unset}] BY DEF ViewType
  <2>2. ASSUME NEW r \in Room
        PROVE  (IF view[q][r] = Unset THEN Unset
                ELSE IF r = c THEN view[q][r] \cup {o} ELSE view[q][r] \ {o})
                 \in (SUBSET Movable) \cup {Unset}
    BY <2>1
  <2>3. QED BY <2>2 DEF ViewLocalMove, ViewType
<1>4. CASE \E q \in Shard : ViewCrash(q) BY <1>4 DEF ViewCrash, ViewType
<1>5. CASE \E m \in Flush : ViewHandleFlush(m)
  <2> PICK m \in Flush : ViewHandleFlush(m) BY <1>5
  <2>1. m.to \in Shard BY DEF Flush
  <2>2. QED BY <2>1 DEF ViewHandleFlush, ViewType
<1>6. QED
  BY <1>1, <1>2, <1>3, <1>4, <1>5 DEF ViewNext, ViewMoveStep, viewvars

(* Of a commit, only the row itself comes into a room, and the flush that  *)
(* the call owes for it, or the one it cannot send, names that room.       *)
LEMMA CommitShown ==
  ASSUME ViewInv, NEW q \in Shard, Commit(q), ViewMoveStep(q),
         NEW s \in Shard, NEW r \in Room
  PROVE  Shown(s, r)'
<1> DEFINE o == call[q].obj
           t == call[q].target_shard
           d == call[q].target_location
<1>1. /\ TypeOK /\ CallOK /\ OneOwner /\ Carried /\ Shown(s, r) /\ ViewType
      /\ call[q] \in Call /\ o \in Movable /\ t \in Shard
  BY DEF ViewInv, Commit, CallOK, Call
<1>2. /\ pc[q] = "update" /\ pc'[q] = "detach" /\ call'[q] = call[q]
      /\ view' = view
  BY <1>1 DEF Commit, Write, Goto, callvars, TypeOK, ViewMoveStep
<1> PICK m : m = [to |-> s, pk |-> r] OBVIOUS
<1>3. [ViewNext]_viewvars BY DEF ViewNext
<1>4. ~Look(s, r)
  BY <1>2 DEF Look, callvars
<1>5. view'[s][r] # Unset /\ Accounted(m) => Accounted(m)'
  BY <1>1, <1>3, <1>4, StepAccounts
<1>6. ASSUME NEW x \in Contents(s, r)', x \notin Contents(s, r), view'[s][r] # Unset
      PROVE  Accounted(m)'
  <2>1. x \in Movable /\ x \in Object /\ owner'[x] \in {s, Global} /\ loc'[x] = r
    BY <1>6 DEF Contents, Visible, Scope
  <2>2. x \in Moved(q)
    BY <1>1, <1>6, <2>1, CommitOthers DEF Contents, Visible, Scope
  <2>3. owner'[x] = t /\ t = s
    BY <1>1, <2>1, <2>2, HandoffAssumption
       DEF Commit, Write, NewOwner, HandoffAssumption
  <2>4. CASE x # o
    <3>1. x \in content_pks[q] BY <2>2, <2>4 DEF Moved
    <3>2. loc[x] \in Movable BY <1>1, <1>2, <3>1 DEF Carried, Walking
    <3>3. loc'[x] = loc[x] BY <1>1, <2>1, <2>4 DEF Commit, Write, NewLoc, TypeOK
    <3>4. QED BY <2>1, <3>2, <3>3, HandoffAssumption DEF HandoffAssumption
  <2>5. CASE x = o
    <3>1. d = r
      BY <1>1, <2>1, <2>5 DEF Commit, Write, NewLoc, TypeOK
    <3>2. CASE t # q
      <4>1. m \in Owed(q)' BY <1>2, <2>3, <3>1, <3>2 DEF Owed
      <4>2. QED BY <4>1 DEF Accounted
    <3>3. CASE t = q
      <4>1. m \in Untold(q) BY <1>2, <2>3, <3>1, <3>3 DEF Untold
      <4>2. m \in lost' BY <1>6, <4>1 DEF ViewMoveStep, Needed
      <4>3. QED BY <4>2 DEF Accounted
    <3>4. QED BY <3>2, <3>3
  <2>6. QED BY <2>4, <2>5
<1>7. \/ view'[s][r] = Unset
      \/ Contents(s, r)' \subseteq view'[s][r]
      \/ Accounted(m)'
  BY <1>1, <1>2, <1>5, <1>6, ShownAs
<1>8. Accounted(m)' = Accounted([to |-> s, pk |-> r])'
  OBVIOUS
<1>9. QED BY <1>7, <1>8 DEF Shown, FlushComing, Accounted

LEMMA LocalMoveShown ==
  ASSUME ViewInv, NEW q \in Shard, NEW o \in Movable, NEW c \in Object,
         ViewLocalMove(q, o, c), NEW s \in Shard, NEW r \in Room
  PROVE  Shown(s, r)'
<1>1. /\ TypeOK /\ OneOwner /\ Shown(s, r) /\ ViewType
  BY DEF ViewInv
<1>2. /\ o \in Visible(q) /\ loc' = [loc EXCEPT ![o] = c] /\ o \in Object
      /\ UNCHANGED <<owner, flushes, pc, call, lost>>
  BY DEF ViewLocalMove, LocalMove, callvars, Visible
<1>3. owner[o] = q
  BY <1>1, <1>2, HandoffAssumption DEF Visible, Scope, OneOwner, HandoffAssumption
<1>4. /\ \A p \in Shard \ {q} : view'[p] = view[p]
      /\ view'[q][r] = IF view[q][r] = Unset THEN Unset
                       ELSE IF r = c THEN view[q][r] \cup {o} ELSE view[q][r] \ {o}
  BY <1>1 DEF ViewLocalMove, ViewType
<1>5. FlushComing(s, r)' = FlushComing(s, r)
  BY <1>2 DEF FlushComing, Owed
<1>6. CASE s # q
  <2>1. Contents(s, r)' = Contents(s, r)
    BY <1>1, <1>2, <1>3, <1>6, HandoffAssumption
       DEF Contents, Visible, Scope, TypeOK, HandoffAssumption
  <2>2. QED BY <1>1, <1>2, <1>4, <1>5, <1>6, <2>1 DEF Shown
<1>7. CASE s = q
  <2>1. Contents(s, r)' = IF r = c THEN Contents(s, r) \cup {o} ELSE Contents(s, r) \ {o}
    BY <1>1, <1>2, <1>7 DEF Contents, Visible, Scope, TypeOK
  <2>2. CASE view[s][r] = Unset BY <1>4, <1>7, <2>2 DEF Shown
  <2>3. CASE view[s][r] # Unset /\ Contents(s, r) \subseteq view[s][r]
    <3>1. Contents(s, r)' \subseteq view'[s][r] BY <1>4, <1>7, <2>1, <2>3
    <3>2. QED BY <3>1 DEF Shown
  <2>4. QED BY <1>1, <1>2, <1>5, <2>2, <2>3 DEF Shown
<1>8. QED BY <1>6, <1>7

LEMMA StepShown ==
  ASSUME ViewInv, [ViewNext]_viewvars, NEW s \in Shard, NEW r \in Room
  PROVE  Shown(s, r)'
<1>1. TypeOK /\ CallOK /\ ViewType /\ Shown(s, r) BY DEF ViewInv
<1>2. CASE Look(s, r)
  <2>1. view'[s][r] = Contents(s, r) /\ UNCHANGED <<owner, loc>>
    BY <1>1, <1>2 DEF Look, ViewType
  <2>2. Contents(s, r)' = Contents(s, r) BY <2>1 DEF Contents, Visible
  <2>3. QED BY <2>1, <2>2 DEF Shown
<1>3. CASE ~Look(s, r) /\ UNCHANGED <<owner, loc>>
           /\ view'[s][r] \in {view[s][r], Unset}
  <2> PICK m : m = [to |-> s, pk |-> r] OBVIOUS
  <2>1. view'[s][r] # Unset /\ Accounted(m) => Accounted(m)'
    BY <1>1, <1>3, StepAccounts
  <2>2. Contents(s, r)' = Contents(s, r) BY <1>3 DEF Contents, Visible
  <2>3. \/ view'[s][r] = Unset
        \/ Contents(s, r)' \subseteq view'[s][r]
        \/ Accounted(m)'
    BY <1>1, <1>3, <2>1, <2>2, ShownAs
  <2>4. Accounted(m)' = Accounted([to |-> s, pk |-> r])' OBVIOUS
  <2>5. QED BY <2>3, <2>4 DEF Shown, FlushComing, Accounted
<1>4. CASE \E q \in Shard : Commit(q) /\ ViewMoveStep(q) BY <1>4, CommitShown
<1>5. CASE \E q \in Shard, o \in Movable, c \in Object : ViewLocalMove(q, o, c)
  BY <1>5, LocalMoveShown
<1>6. CASE ~Look(s, r) /\ \E q \in Shard : \E x \in Room : Look(q, x)
  <2> PICK q \in Shard, x \in Room : Look(q, x) BY <1>6
  <2>1. q # s \/ x # r BY <1>6
  <2>2. view'[s][r] = view[s][r] BY <1>1, <2>1 DEF Look, ViewType
  <2>3. QED BY <1>3, <1>6, <2>2 DEF Look
<1>7. CASE ~Look(s, r) /\ \E q \in Shard : ViewMoveStep(q) /\ ~Commit(q)
  <2> PICK q \in Shard : ViewMoveStep(q) /\ ~Commit(q) BY <1>7
  <2>1. UNCHANGED <<owner, loc, view>>
    BY DEF ViewMoveStep, MoveStep, CollectLevel, RollBack, Detach, Redirect, EndRedirects,
           SendFlush
  <2>2. QED BY <1>3, <1>7, <2>1
<1>8. CASE ~Look(s, r) /\ \E q \in Shard : ViewCrash(q)
  <2> PICK q \in Shard : ViewCrash(q) BY <1>8
  <2>1. UNCHANGED <<owner, loc>> /\ view'[s][r] \in {view[s][r], Unset}
    BY <1>1 DEF ViewCrash, Crash, ViewType
  <2>2. QED BY <1>3, <1>8, <2>1
<1>9. CASE ~Look(s, r) /\ \E m \in Flush : ViewHandleFlush(m)
  <2> PICK m \in Flush : ViewHandleFlush(m) BY <1>9
  <2>1. m.to \in Shard BY DEF Flush
  <2>2. UNCHANGED <<owner, loc>> /\ view'[s][r] \in {view[s][r], Unset}
    BY <1>1, <2>1 DEF ViewHandleFlush, HandleFlush, ViewType
  <2>3. QED BY <1>3, <1>9, <2>2
<1>10. CASE ~Look(s, r) /\ UNCHANGED <<owner, loc, view>> BY <1>3, <1>10
<1>11. QED
  BY <1>2, <1>4, <1>5, <1>6, <1>7, <1>8, <1>9, <1>10
     DEF ViewNext, Load, Validate, Begin, SessionStep, Unpuppet, Reconnect, Puppet,
         viewvars, vars

-----------------------------------------------------------------------------
LEMMA ViewStepInv == ViewInv /\ [ViewNext]_viewvars => ViewInv'
<1> SUFFICES ASSUME ViewInv, [ViewNext]_viewvars PROVE ViewInv'
  OBVIOUS
<1>1. TypeOK /\ CallOK /\ NoPhantom /\ ViewType /\ OneOwner /\ Carried BY DEF ViewInv
<1>2. TypeOK' /\ CallOK' /\ NoPhantom' BY <1>1, StepBase
<1>3. ViewType' /\ OneOwner' /\ Carried'
  BY <1>1, StepViewType, StepOwner, StepCarried
<1>4. \A s \in Shard, r \in Room : Shown(s, r)' BY StepShown
<1>5. QED BY <1>2, <1>3, <1>4 DEF ViewInv

LEMMA ViewInitInv == ASSUME GlobalRow \subseteq Room PROVE ViewInit => ViewInv
<1> SUFFICES ASSUME ViewInit PROVE ViewInv
  OBVIOUS
<1>1. TypeOK /\ CallOK BY InitType DEF ViewInit
<1>2. OneOwner
  <2>1. Fixed BY InitTree DEF ViewInit, TreeInv
  <2>2. QED
    BY <1>1, <2>1, HandoffAssumption
       DEF OneOwner, Fixed, TypeOK, Owner, Object, HandoffAssumption
<1>3. NoPhantom /\ Carried BY DEF ViewInit, Init, NoPhantom, Carried, Walking
<1>4. ViewType /\ \A s \in Shard, r \in Room : Shown(s, r)
  BY DEF ViewInit, ViewType, Shown
<1>5. QED BY <1>1, <1>2, <1>3, <1>4 DEF ViewInv

(* A room hides nobody for long: what its cache lacks is what a flush on   *)
(* its way will reveal, or one that is known not to have been sent.  Rows  *)
(* that move belong to one shard: of a global row no process would be told *)
(* that another one has moved it.                                          *)
THEOREM CachesLackOnlyFlushed ==
  ASSUME GlobalRow \subseteq Room
  PROVE  ViewSpec => []MissingOnlyUntilFlush
<1>1. ViewInit => ViewInv BY ViewInitInv
<1>2. ViewInv => MissingOnlyUntilFlush
  <2> SUFFICES ASSUME ViewInv, NEW s \in Shard, NEW r \in Room
               PROVE  \/ Contents(s, r) \subseteq Seen(s, r)
                      \/ FlushComing(s, r)
                      \/ [to |-> s, pk |-> r] \in lost
    BY DEF MissingOnlyUntilFlush
  <2>1. Shown(s, r) BY DEF ViewInv
  <2>2. QED BY <2>1 DEF Shown, Seen, Valid
<1>3. QED BY <1>1, <1>2, ViewStepInv, PTL DEF ViewSpec

(* The process-local caches hold the rows of their own shard although      *)
(* reading a room loads whatever lies in it.                               *)
THEOREM ViewsHoldOwnRows == ViewSpec => []NoPhantom
<1>1. ViewInit => TypeOK /\ CallOK /\ NoPhantom
  BY InitType DEF ViewInit, Init, NoPhantom
<1>2. TypeOK /\ CallOK /\ NoPhantom /\ [ViewNext]_viewvars =>
        TypeOK' /\ CallOK' /\ NoPhantom'
  BY StepBase
<1>3. QED BY <1>1, <1>2, PTL DEF ViewSpec
=============================================================================
