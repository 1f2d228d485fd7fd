----------------------------- MODULE Messaging -----------------------------
(***************************************************************************)
(* What the messages of the bus mean to the game: send_cross_shard_message *)
(* and send_cross_shard_room_message at one end, the handlers of obj_msg,  *)
(* room_msg and flush_from_cache at the other.                             *)
(*                                                                         *)
(* The bus is that of MessageBus, step by step.  New are the rows that are *)
(* addressed, which move and vanish while messages to them travel, the     *)
(* cached contents of rooms, and the command that a process is in the      *)
(* middle of.  A command and a cycle of the bus share one reactor: neither *)
(* starts before the other has ended, while other processes go on.         *)
(***************************************************************************)
EXTENDS MessageBus, Functions

CONSTANTS
  Movable,   \* rows that messages are addressed to and that move
  GlobalRow, \* those whose shard_id is "*", which every shard sees as its own
  Global,    \* GLOBAL_SHARD_ID, that is "*"
  Room,      \* rooms, which stay where they are
  RoomShard, \* their shard_id
  Starts,    \* where the rows may be at the start, and which are deleted then
  Unset      \* the room's instance has no contents_cache yet

Payload == [what : {"obj_msg", "room_msg"}, pk : Movable, room : Room \cup {None},
            moves : Nat]
             \cup [what : {"flush"}, room : Room]
Command == [step : {"tell", "search", "func", "move", "flush", "announce"},
            pk : Movable, shard : Shard \cup {Global}, room : Room \cup {None},
            moves : Nat, quiet : BOOLEAN]

ASSUME MessagingAssumption ==
  /\ RoomShard \in [Room -> Shard]
  /\ GlobalRow \subseteq Movable /\ Global \notin Shard
  /\ Starts \subseteq [at : [Movable -> Room], gone : SUBSET Movable]
  /\ Movable \cap Room = {} /\ None \notin Movable \cup Room
  /\ None \notin Payload \cup Command

VARIABLES
  at,       \* at[x]: the room that row x is in, and whose shard_id it has if
            \* it is not global; what its instances say once it is deleted
  gone,     \* the rows that are deleted
  idmap,    \* idmap[s]: movable rows with an instance on s
  view,     \* view[r]: the contents_cache of room r on its shard
  cmd,      \* cmd[s]: the command that s executes, and what it has read
  body,     \* body[p]: the payload of row p
  moves,    \* history: how often x has changed shard, or was deleted
  dropped,  \* history: messages consumed because the row was not found
  unsent    \* history: rooms that were owed a flush which was not sent

game  == <<at, gone, moves, unsent>>
mvars == <<vars, at, gone, idmap, view, cmd, body, moves, dropped, unsent>>

ShardOf(x) == IF x \in GlobalRow THEN Global ELSE RoomShard[at[x]]

(* What the tenant filter of s admits, and what code on s calls local.     *)
Admits(s, shard) == shard \in {s, Global}

(* The rows of s, deleted ones included, and those that a query of s sees. *)
Own(s)     == {x \in Movable : Admits(s, ShardOf(x))}
Visible(s) == Own(s) \ gone

(* No instance of a row of another shard is cached anywhere.  That of a    *)
(* row which another process has deleted is: nobody tells its shard.       *)
MessagingTypeOK ==
  /\ at \in [Movable -> Room] /\ gone \subseteq Movable
  /\ \A s \in Shard : idmap[s] \subseteq Own(s)
  /\ view \in [Room -> (SUBSET Movable) \cup {Unset}]
  /\ cmd \in [Shard -> Command \cup {None}]
  /\ body \in Seq(Payload \cup {None}) /\ Len(body) = Len(sent)
  /\ moves \in [Movable -> Nat]
  /\ dropped \subseteq 1..Len(sent) /\ unsent \subseteq Room

MessagingInit ==
  /\ Init
  /\ \E start \in Starts : at = start.at /\ gone = start.gone
  /\ idmap = [s \in Shard |-> {}]
  /\ view = [r \in Room |-> Unset]
  /\ cmd = [s \in Shard |-> None]
  /\ body = <<>>
  /\ moves = [x \in Movable |-> 0]
  /\ dropped = {} /\ unsent = {}

-----------------------------------------------------------------------------
(* The contents of a room, as in HandoffView: the cached ones while every  *)
(* pk of them resolves among the instances of the process.                 *)
Contents(r)         == {x \in Movable \ gone : at[x] = r}
Valid(r, instances) == view[r] # Unset /\ view[r] \subseteq instances
SeenWith(r, instances) ==
  IF Valid(r, instances) THEN view[r] ELSE Contents(r)
Seen(r) == SeenWith(r, idmap[RoomShard[r]])

(* room.contents is read: the cache is filled where it is not valid.       *)
Read(r, instances) ==
  /\ view' = [view EXCEPT ![r] = SeenWith(r, instances)]
  /\ idmap' = [idmap EXCEPT ![RoomShard[r]] = instances \cup SeenWith(r, instances)]

(* Mutant: only the idmapper is asked, as in the handler of the flush.     *)
GotCached(s, x) == idmap[s]

(* The instances of s after ObjectDB.objects.get(pk=x), which returns the  *)
(* cached instance if there is one and fails when the row is not cached    *)
(* and the query does not see it.                                          *)
Got(s, x)   == idmap[s] \cup ({x} \cap Visible(s))
Get(s, x)   == idmap' = [idmap EXCEPT ![s] = Got(s, x)]
Found(s, x) == x \in Got(s, x)

(* Game code on s has the reactor.                                         *)
Idle(s) == stage[s] = "idle" /\ loop[s] # "down" /\ cmd[s] = None

(* Bound: a command begins only while two more rows, the most that one     *)
(* sends, fit beside those that the commands under way may send.           *)
MaySend(s) ==
  IF cmd[s] = None THEN 0 ELSE IF cmd[s].step = "tell" THEN 1 ELSE 2

WithinBound ==
  Len(sent) + 2 + SumFunction([s \in Shard |-> MaySend(s)]) <= MaxSent

Done(s) == cmd' = [cmd EXCEPT ![s] = None]

Look(r) ==
  /\ Idle(RoomShard[r]) /\ ~Valid(r, idmap[RoomShard[r]])
  /\ Read(r, idmap[RoomShard[r]])
  /\ UNCHANGED <<vars, cmd, body, dropped, game>>

Vanish(x) ==
  /\ gone' = gone \cup {x}
  /\ moves' = [moves EXCEPT ![x] = @ + 1]
  /\ UNCHANGED <<vars, at, view, cmd, body, dropped, unsent>>

(* obj.delete() on a shard that sees the row: its own, or any if the row   *)
(* is global.  The instances that other processes have of it stay.         *)
DeleteRow(s, x) ==
  /\ Idle(s) /\ x \in Visible(s)
  /\ Vanish(x)
  /\ idmap' = [idmap EXCEPT ![s] = @ \ {x}]

(* The router runs unscoped and deletes any row, whatever its shard does.  *)
RouterDelete(x) == x \notin gone /\ Vanish(x) /\ UNCHANGED idmap

-----------------------------------------------------------------------------
(* Senders.                                                                *)

(* send_message on s, within a command: the row and its payload.           *)
Post(s, to, payload) ==
  /\ Insert(Message("deliver", to, s, None), handled, bounced)
  /\ body' = Append(body, payload)
  /\ UNCHANGED <<expired, loop, cycle>>

(* send_cross_shard_message reads the row of its target, unscoped, and     *)
(* refuses a target that does not exist.                                   *)
Tell(s, x) ==
  /\ Idle(s) /\ WithinBound
  /\ x \notin gone
  /\ cmd' = [cmd EXCEPT ![s] = [step |-> "tell", pk |-> x, shard |-> ShardOf(x),
                                room |-> None, moves |-> moves[x],
                                quiet |-> FALSE]]
  /\ UNCHANGED <<vars, idmap, view, body, dropped, game>>

(* The target is here or global: its msg() is called.  If it has vanished  *)
(* since it was read, get raises, and nothing catches that.                *)
TellLocal(s) ==
  /\ cmd[s] # None /\ cmd[s].step = "tell" /\ Admits(s, cmd[s].shard)
  /\ Get(s, cmd[s].pk)
  /\ Done(s)
  /\ UNCHANGED <<vars, view, body, dropped, game>>

(* It was elsewhere when it was read: a row for that shard.                *)
TellRemote(s) ==
  /\ cmd[s] # None /\ cmd[s].step = "tell" /\ ~Admits(s, cmd[s].shard)
  /\ Post(s, cmd[s].shard, [what |-> "obj_msg", pk |-> cmd[s].pk, room |-> None,
                            moves |-> cmd[s].moves])
  /\ Done(s)
  /\ UNCHANGED <<faults, idmap, view, dropped, game>>

(* send_cross_shard_room_message for a room of another shard: rooms stay,  *)
(* so that the shard it reads is the room's.                               *)
TellRoom(s, x, r, n) ==
  /\ RoomShard[r] # s
  /\ Post(s, RoomShard[r], [what |-> "room_msg", pk |-> x, room |-> r,
                            moves |-> n])

-----------------------------------------------------------------------------
(* Handlers.                                                               *)

(* A row that is not found, because it was deleted or is another shard's,  *)
(* is logged and the message consumed.  An instance that has outlived its  *)
(* row takes it.                                                           *)
HandleObj(s, p) ==
  /\ body[p] # None /\ body[p].what = "obj_msg"
  /\ Handle(s, p)
  /\ Get(s, body[p].pk)
  /\ dropped' = IF Found(s, body[p].pk) THEN dropped ELSE dropped \cup {p}
  /\ UNCHANGED <<view, cmd, body, game>>

(* The text goes to what is in the room's contents, except the arriving    *)
(* row, which is fetched first.                                            *)
HandleRoom(s, p) ==
  /\ body[p] # None /\ body[p].what = "room_msg"
  /\ Handle(s, p)
  /\ Read(body[p].room, Got(s, body[p].pk))
  /\ UNCHANGED <<cmd, body, dropped, game>>

(* The room's instance is evicted, its contents_cache with it.             *)
HandleFlush(s, p) ==
  /\ body[p] # None /\ body[p].what = "flush"
  /\ Handle(s, p)
  /\ view' = [view EXCEPT ![body[p].room] = Unset]
  /\ unsent' = unsent \ {body[p].room}
  /\ UNCHANGED <<idmap, cmd, body, dropped, at, gone, moves>>

HandleReply(s, p) ==
  /\ body[p] = None
  /\ Handle(s, p)
  /\ UNCHANGED <<idmap, view, cmd, body, dropped, game>>

(* The database fails inside a handler, before it has done anything.       *)
HandlerRaises(s, p) ==
  /\ MayDefer(p)
  /\ Turn(s, p) /\ Fault
  /\ NotHandled(s, p)
  /\ UNCHANGED <<sent, table, expired, loop, handled, bounced>>
  /\ UNCHANGED <<idmap, view, cmd, body, dropped, game>>

(* A cycle starts only when no command is under way.                       *)
InboxStep(s) ==
  \/ cmd[s] = None /\ Poll(s) /\ UNCHANGED <<idmap, view, cmd, body, dropped, game>>
  \/ \E p \in inbox[s] :
       \/ HandleObj(s, p) \/ HandleRoom(s, p)
       \/ HandleFlush(s, p) \/ HandleReply(s, p)
       \/ HandlerRaises(s, p)
  \/ /\ Reply(s)
     /\ body' = IF sent' = sent THEN body ELSE Append(body, None)
     /\ UNCHANGED <<idmap, view, cmd, dropped, game>>
  \/ Delete(s) /\ UNCHANGED <<idmap, view, cmd, body, dropped, game>>

TellStep(s) == TellLocal(s) \/ TellRemote(s)

=============================================================================
