---------------------------- MODULE HandoffView ----------------------------
(***************************************************************************)
(* What players see: the contents_cache that a room's instance keeps on    *)
(* each shard, and the flush_from_cache message by which cross_shard_move  *)
(* tells the destination that its cache is out of date.  Every action of   *)
(* Handoff, with its effect on the caches.                                 *)
(***************************************************************************)
EXTENDS Handoff

CONSTANT Unset   \* the room's instance has no contents_cache yet

VARIABLES
  view,   \* view[s][r]: the pks in the contents_cache of r on s
  lost    \* history: flushes that a committed move would have needed and that
          \* were not sent, while the room has not been read again

viewvars == <<vars, view, lost>>

ViewInit ==
  /\ Init
  /\ view = [s \in Shard |-> [r \in Room |-> Unset]]
  /\ lost = {}

(* The flush that a call which has committed still has to send.            *)
Owed(q) ==
  IF pc[q] \in {"detach", "redirect", "flush"} /\ call[q].target_shard # q
    THEN {[to |-> call[q].target_shard, pk |-> call[q].target_location]}
    ELSE {}

(* The rows in r that the tenant filter of s admits.                       *)
Contents(s, r) == {x \in Movable \cap Visible(s) : loc[x] = r}

(* Every pk of the cache still resolves in the idmapper; otherwise the     *)
(* next access reads the database again.                                   *)
Valid(s, r) == view[s][r] # Unset /\ view[s][r] \subseteq idmap[s]

Seen(s, r) == IF Valid(s, r) THEN view[s][r] ELSE Contents(s, r)

(* room.contents                                                           *)
Look(s, r) ==
  /\ pc[s] = "idle"
  /\ r \in Visible(s)
  /\ ~Valid(s, r)
  /\ view' = [view EXCEPT ![s][r] = Contents(s, r)]
  /\ idmap' = [idmap EXCEPT ![s] = @ \cup Contents(s, r)]
  /\ lost' = lost \ {[to |-> s, pk |-> r]}
  /\ UNCHANGED <<owner, loc, flushes, puppet, redirect, pc, callvars, faults>>

(* The save of a new location updates the caches of the two rooms on the   *)
(* process that saves.                                                     *)
ViewLocalMove(s, o, c) ==
  /\ LocalMove(s, o, c)
  /\ view' = [view EXCEPT ![s] = [r \in Room |->
                IF @[r] = Unset THEN Unset
                ELSE IF r = c THEN @[r] \cup {o} ELSE @[r] \ {o}]]
  /\ UNCHANGED lost

(* What the caches of s are not told: the move that commits is within s.   *)
Untold(s) ==
  IF pc[s] = "update" /\ pc'[s] = "detach" /\ call[s].target_shard = s
    THEN {[to |-> s, pk |-> call[s].target_location]}
    ELSE {}

(* A room that has not been read yet needs no flush.                       *)
Needed(ms) == {m \in ms : view'[m.to][m.pk] # Unset}

(* A step of a call that fails where the flush should be sent.             *)
Unsent(s) == IF pc[s] = "flush" /\ faults' # faults THEN Owed(s) ELSE {}

(* The send of the flush may fail; the move stands.                        *)
ViewMoveStep(s) ==
  /\ MoveStep(s)
  /\ UNCHANGED view
  /\ lost' = Needed(lost \cup Untold(s) \cup Unsent(s))

(* Mutant: the pk is flushed while the room's cached contents survive.     *)
ViewHandleFlushKeep(m) == HandleFlush(m) /\ UNCHANGED <<view, lost>>

(* The instance of the row goes, and its contents_cache with it.           *)
ViewHandleFlush(m) ==
  /\ HandleFlush(m)
  /\ view' = [view EXCEPT ![m.to] =
                [r \in Room |-> IF r = m.pk THEN Unset ELSE @[r]]]
  /\ lost' = lost \ {m}

(* The caches of s start empty; the flush that s still owed is never sent. *)
ViewCrash(s) ==
  /\ Crash(s)
  /\ view' = [view EXCEPT ![s] = [r \in Room |-> Unset]]
  /\ lost' = Needed(lost \cup Owed(s))

(* Loads, the begin of a call and what connections do change no cache.     *)
ViewNext ==
  \/ \E s \in Shard :
       \/ \E r \in Room : Look(s, r)
       \/ ViewMoveStep(s)
       \/ \E o \in Movable, c \in Object : ViewLocalMove(s, o, c)
       \/ ViewCrash(s)
  \/ \E m \in Flush : ViewHandleFlush(m)
  \/ /\ \/ \E s \in Shard, o \in Movable :
             Load(s, o) \/ \E t \in Shard, d \in Dest : Validate(s, o, t, d)
        \/ \E k \in Session : SessionStep(k)
     /\ UNCHANGED <<view, lost>>

ViewSpec == ViewInit /\ [][ViewNext]_viewvars

(* The reactor goes on with a call it has begun; between two calls the     *)
(* LoopingCall of the bus gets its turn, whatever else is waiting for it,  *)
(* and one turn handles every message that is there.                       *)
ViewFairness ==
  /\ \A s \in Shard : WF_viewvars(ViewMoveStep(s))
  /\ \A m \in Flush : SF_viewvars(ViewHandleFlush(m))

ViewFairSpec == ViewSpec /\ ViewFairness

-----------------------------------------------------------------------------
(* PROPERTIES *)

(* The flush for (s, r) is in the bus, or the call that will send it has   *)
(* committed and not yet returned.                                         *)
FlushComing(s, r) ==
  [to |-> s, pk |-> r] \in flushes \cup UNION {Owed(q) : q \in Shard}

(* A room hides an object that is in it only while the flush that will     *)
(* reveal the object is on its way, or because exactly that flush was not  *)
(* sent, by a failed send, a crash of the mover after its commit or a      *)
(* mover that named its own shard, and the room has not been read since.   *)
MissingOnlyUntilFlush ==
  \A s \in Shard, r \in Room :
    r \in Visible(s) =>
      \/ Contents(s, r) \subseteq Seen(s, r)
      \/ FlushComing(s, r)
      \/ [to |-> s, pk |-> r] \in lost

(* An object that has arrived in a room is eventually seen there, or has   *)
(* gone elsewhere, unless the flush for the room has been lost.            *)
ArrivalsAppear ==
  \A s \in Shard, r \in Room, x \in Movable :
    x \in Contents(s, r) ~>
      \/ x \in Seen(s, r) \/ x \notin Contents(s, r)
      \/ [to |-> s, pk |-> r] \in lost

=============================================================================
