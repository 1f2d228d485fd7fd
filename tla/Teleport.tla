------------------------------ MODULE Teleport ------------------------------
(***************************************************************************)
(* The @teleport command and the search it rests on, composed with the bus *)
(* and the messages of Messaging: a global search that reads a row's shard *)
(* first and loads its instance afterwards, the dispatch of the command,   *)
(* the text to the room that is left, cross_shard_move with the flush it   *)
(* sends, and the text that announces the arrival to the other shard.      *)
(*                                                                         *)
(* The transaction of cross_shard_move is one step here; Handoff shows     *)
(* that it may be taken for one.                                           *)
(***************************************************************************)
EXTENDS Messaging

CONSTANT Dest   \* bound: the rooms that commands name

ASSUME TeleportAssumption == Dest \subseteq Room

At(s, step) == cmd[s] # None /\ cmd[s].step = step
GoTo(s, step) == cmd' = [cmd EXCEPT ![s].step = step]

-----------------------------------------------------------------------------
(* parse and the searches.                                                 *)

(* The values of the one row that is named, whatever its shard.            *)
Search(s, x, d) ==
  /\ Idle(s) /\ WithinBound
  /\ x \notin gone
  /\ cmd' = [cmd EXCEPT ![s] = [step |-> "search", pk |-> x, shard |-> ShardOf(x),
                                room |-> d, moves |-> moves[x], quiet |-> FALSE]]
  /\ UNCHANGED <<vars, idmap, view, body, dropped, game>>

(* No object is named: the caller itself, whose instance the command has.  *)
SearchSelf(s, x, d) ==
  /\ Idle(s) /\ WithinBound
  /\ x \in idmap[s]
  /\ cmd' = [cmd EXCEPT ![s] = [step |-> "func", pk |-> x, shard |-> ShardOf(x),
                                room |-> d, moves |-> moves[x], quiet |-> FALSE]]
  /\ UNCHANGED <<vars, idmap, view, body, dropped, game>>

(* A row of this shard or a global one is loaded; it may have vanished     *)
(* since, which counts as not found.                                       *)
FoundHere(s) ==
  /\ At(s, "search") /\ Admits(s, cmd[s].shard)
  /\ Get(s, cmd[s].pk)
  /\ IF Found(s, cmd[s].pk) THEN GoTo(s, "func") ELSE Done(s)
  /\ UNCHANGED <<vars, view, body, dropped, game>>

(* Mutant: func does not ask whether the search has found an instance.     *)
FoundAnywhere(s) ==
  /\ At(s, "search") /\ ~Admits(s, cmd[s].shard)
  /\ GoTo(s, "func")
  /\ UNCHANGED <<vars, idmap, view, body, dropped, game>>

(* func refuses to move what is not here.                                  *)
FoundElsewhere(s) ==
  /\ At(s, "search") /\ ~Admits(s, cmd[s].shard)
  /\ Done(s)
  /\ UNCHANGED <<vars, idmap, view, body, dropped, game>>

-----------------------------------------------------------------------------
(* func.                                                                   *)

Foreign(s) == RoomShard[cmd[s].room] # s

(* Both are here: the original command moves the object, unless it is in   *)
(* that room, and the save of its location updates both rooms' caches.  If *)
(* the row has vanished the save fails, and only the instance has changed. *)
(* An instance of a global row may say that it is there already, because   *)
(* another process has moved the row since.                                *)
Vanilla(s) ==
  LET x == cmd[s].pk
      d == cmd[s].room
  IN /\ At(s, "func") /\ ~Foreign(s)
     /\ \/ /\ at' = [at EXCEPT ![x] = d]
           /\ IF x \in gone \/ at[x] = d THEN UNCHANGED view
              ELSE view' = [r \in Room |->
                              IF view[r] = Unset \/ RoomShard[r] # s THEN view[r]
                              ELSE IF r = d THEN view[r] \cup {x} ELSE view[r] \ {x}]
        \/ x \in GlobalRow /\ UNCHANGED <<at, view>>
     /\ Done(s)
     /\ UNCHANGED <<vars, gone, idmap, body, moves, dropped, unsent>>

(* /loc, /intoexit and the object's teleport lock.                         *)
Refuse(s) ==
  /\ At(s, "func") /\ Foreign(s)
  /\ Done(s)
  /\ UNCHANGED <<vars, idmap, view, body, dropped, game>>

(* The room that the object leaves is told, before the move.  What the     *)
(* instance of a global row says may be out of date, and a room of another *)
(* shard reads as None.                                                    *)
Leave(s) ==
  LET x == cmd[s].pk
  IN /\ At(s, "func") /\ Foreign(s)
     /\ \/ x \notin GlobalRow /\ Read(at[x], idmap[s])
        \/ /\ x \in GlobalRow
           /\ \E r \in Room : RoomShard[r] = s /\ Read(r, idmap[s])
        \/ x \in GlobalRow /\ UNCHANGED <<idmap, view>>
     /\ GoTo(s, "move")
     /\ UNCHANGED <<vars, body, dropped, game>>

LeaveQuietly(s) ==
  /\ At(s, "func") /\ Foreign(s)
  /\ cmd' = [cmd EXCEPT ![s].step = "move", ![s].quiet = TRUE]
  /\ UNCHANGED <<vars, idmap, view, body, dropped, game>>

(* The row that the UPDATE of cross_shard_move on s finds: one with s in   *)
(* its column, neither a vanished nor a global one.                        *)
Updatable(s, x) == x \notin gone /\ ShardOf(x) = s

(* Mutant: the moved row stays among the instances of its old shard.       *)
MoveKeep(s) ==
  LET x == cmd[s].pk
  IN /\ At(s, "move") /\ Updatable(s, x)
     /\ at' = [at EXCEPT ![x] = cmd[s].room]
     /\ moves' = [moves EXCEPT ![x] = @ + 1]
     /\ cmd' = [cmd EXCEPT ![s].step = "flush", ![s].moves = @ + 1]
     /\ UNCHANGED <<vars, gone, idmap, view, body, dropped, unsent>>

(* cross_shard_move up to its flush.                                       *)
Move(s) ==
  LET x == cmd[s].pk
  IN /\ At(s, "move") /\ Updatable(s, x)
     /\ at' = [at EXCEPT ![x] = cmd[s].room]
     /\ moves' = [moves EXCEPT ![x] = @ + 1]
     /\ idmap' = [idmap EXCEPT ![s] = @ \ {x}]
     /\ cmd' = [cmd EXCEPT ![s].step = "flush", ![s].moves = @ + 1]
     /\ UNCHANGED <<vars, gone, view, body, dropped, unsent>>

(* No row is updated: it raises, with the instance evicted.                *)
MoveRefused(s) ==
  /\ At(s, "move") /\ ~Updatable(s, cmd[s].pk)
  /\ idmap' = [idmap EXCEPT ![s] = @ \ {cmd[s].pk}]
  /\ Done(s)
  /\ UNCHANGED <<vars, view, body, dropped, game>>

(* It raises: rolled back, the instance evicted or not, no second text.    *)
MoveRaises(s) ==
  /\ At(s, "move") /\ Fault
  /\ \E evicted \in SUBSET {cmd[s].pk} :
       idmap' = [idmap EXCEPT ![s] = @ \ evicted]
  /\ Done(s)
  /\ UNCHANGED <<sent, table, expired, loop, cycle, handled, bounced>>
  /\ UNCHANGED <<view, body, dropped, game>>

AfterFlush(s) == IF cmd[s].quiet THEN Done(s) ELSE GoTo(s, "announce")

(* Mutant: the arrival text is thought to be enough.                       *)
FlushForgotten(s) ==
  /\ At(s, "flush")
  /\ AfterFlush(s)
  /\ UNCHANGED <<vars, idmap, view, body, dropped, game>>

SendFlush(s) ==
  /\ At(s, "flush")
  /\ Post(s, RoomShard[cmd[s].room], [what |-> "flush", room |-> cmd[s].room])
  /\ AfterFlush(s)
  /\ UNCHANGED <<faults, idmap, view, dropped, game>>

(* The insert fails: it is logged, and the command goes on.                *)
FlushFails(s) ==
  /\ At(s, "flush") /\ Fault
  /\ unsent' = unsent \cup {cmd[s].room}
  /\ AfterFlush(s)
  /\ UNCHANGED <<sent, table, expired, loop, cycle, handled, bounced>>
  /\ UNCHANGED <<idmap, view, body, dropped, at, gone, moves>>

Announce(s) ==
  /\ At(s, "announce")
  /\ TellRoom(s, cmd[s].pk, cmd[s].room, cmd[s].moves)
  /\ Done(s)
  /\ UNCHANGED <<faults, idmap, view, dropped, game>>

(* This insert is not guarded: the command ends with an error.             *)
AnnounceRaises(s) ==
  /\ At(s, "announce") /\ Fault
  /\ Done(s)
  /\ UNCHANGED <<sent, table, expired, loop, cycle, handled, bounced>>
  /\ UNCHANGED <<idmap, view, body, dropped, game>>

CommandStep(s) ==
  \/ TellStep(s)
  \/ FoundHere(s) \/ FoundElsewhere(s)
  \/ Vanilla(s) \/ Refuse(s) \/ Leave(s) \/ LeaveQuietly(s)
  \/ Move(s) \/ MoveRefused(s) \/ MoveRaises(s)
  \/ SendFlush(s) \/ FlushFails(s)
  \/ Announce(s) \/ AnnounceRaises(s)

-----------------------------------------------------------------------------
(* The process and the clock.                                              *)

(* The instances go, and what the command still had to do is not done.     *)
TeleportCrash(s) ==
  /\ Crash(s)
  /\ idmap' = [idmap EXCEPT ![s] = {}]
  /\ view' = [r \in Room |-> IF RoomShard[r] = s THEN Unset ELSE view[r]]
  /\ Done(s)
  /\ unsent' = {r \in unsent : RoomShard[r] # s}
                 \cup (IF At(s, "flush") THEN {cmd[s].room} ELSE {})
  /\ UNCHANGED <<body, dropped, at, gone, moves>>

TeleportNext ==
  \/ \E s \in Shard :
       \/ \E x \in Movable :
            \/ DeleteRow(s, x)
            \/ Tell(s, x)
            \/ \E d \in Dest : Search(s, x, d) \/ SearchSelf(s, x, d)
       \/ CommandStep(s)
       \/ InboxStep(s)
       \/ /\ Raise(s) \/ Restart(s)
          /\ cmd[s] = None
          /\ UNCHANGED <<idmap, view, cmd, body, dropped, game>>
       \/ TeleportCrash(s)
  \/ \E r \in Room : Look(r)
  \/ \E x \in Movable : RouterDelete(x)
  \/ \E p \in table : Expire(p) /\ UNCHANGED <<idmap, view, cmd, body, dropped, game>>

TeleportSpec == MessagingInit /\ [][TeleportNext]_mvars

-----------------------------------------------------------------------------
(* PROPERTIES *)

(* A message that a handler drops because it does not find its row is one  *)
(* whose row has moved or been deleted since the sender read the row's     *)
(* shard: the silent drop of the handlers never hides a misrouted message. *)
DroppedOnlyIfMoved ==
  [][\A p \in dropped' \ dropped : moves[body[p].pk] # body[p].moves]_mvars

(* Whoever reads that somebody arrives sees them: when an arrival text is  *)
(* shown to a room, the room's contents have the row, unless the row has   *)
(* left again, or the flush was not sent, or an exception in the handler   *)
(* of the flush has let the text overtake it.                              *)
Overtaken(p) ==
  \E q \in 1..(p - 1) :
    /\ body[q] # None /\ body[q].what = "flush" /\ body[q].room = body[p].room
    /\ handled[q] = 0

ArrivalSeen ==
  [][\A p \in 1..Len(sent) :
       (body[p] # None /\ body[p].what = "room_msg" /\ handled'[p] # handled[p]) =>
         \/ body[p].pk \in view'[body[p].room]
         \/ at[body[p].pk] # body[p].room \/ moves[body[p].pk] # body[p].moves
         \/ body[p].room \in unsent
         \/ Overtaken(p)]_mvars

(* What a command has found on its shard stays there until it has done     *)
(* with it, although nothing is locked between the unscoped read of the    *)
(* row's shard, the load of its instance and the move: no process takes    *)
(* the row to another shard meanwhile.  It can only vanish, deleted by a   *)
(* process that also sees it, and then the load or the move refuses it.    *)
LocalStaysLocal ==
  \A s \in Shard :
    /\ cmd[s] # None
    /\ \/ cmd[s].step \in {"func", "move"}
       \/ cmd[s].step \in {"tell", "search"} /\ Admits(s, cmd[s].shard)
    => /\ cmd[s].pk \in Own(s)
       /\ cmd[s].pk \in gone \/ cmd[s].moves = moves[cmd[s].pk]

=============================================================================
