--------------------------- MODULE TeleportProofs ---------------------------
(***************************************************************************)
(* Theorems about Teleport, and about the bus and the messages that it     *)
(* composes, for every set of shards, rooms and rows and any number of     *)
(* commands, crashes and exceptions.                                       *)
(***************************************************************************)
EXTENDS Teleport, MessageBusProofs

Text(p)    == body[p] # None /\ body[p].what \in {"obj_msg", "room_msg"}
Arrival(p) == body[p] # None /\ body[p].what = "room_msg"
Flush(p)   == body[p] # None /\ body[p].what = "flush"

GameTypes ==
  /\ at \in [Movable -> Room] /\ gone \subseteq Movable
  /\ idmap \in [Shard -> SUBSET Movable]
  /\ view \in [Room -> (SUBSET Movable) \cup {Unset}]
  /\ cmd \in [Shard -> Command \cup {None}]
  /\ body \in Seq(Payload \cup {None}) /\ Len(body) = Len(sent)
  /\ moves \in [Movable -> Nat]
  /\ dropped \subseteq 1..Len(sent) /\ unsent \subseteq Room

Instances == \A s \in Shard : idmap[s] \subseteq Own(s)

(* The command has found its row on this shard.                            *)
Local(s) ==
  \/ cmd[s].step \in {"func", "move"}
  \/ cmd[s].step \in {"tell", "search"} /\ Admits(s, cmd[s].shard)

Arriving(s) == At(s, "flush") \/ At(s, "announce")

(* What a command knows of its row, which others may move meanwhile: moves *)
(* tells whether they have.                                                *)
CmdOK(s) ==
  /\ stage[s] = "idle" /\ loop[s] # "down"
  /\ cmd[s].moves <= moves[cmd[s].pk]
  /\ Local(s) => /\ cmd[s].pk \in Own(s)
                 /\ cmd[s].pk \in gone \/ cmd[s].moves = moves[cmd[s].pk]
  /\ /\ cmd[s].step = "tell" /\ ~Admits(s, cmd[s].shard)
     /\ cmd[s].moves = moves[cmd[s].pk]
     => cmd[s].pk \in Visible(cmd[s].shard)
  /\ cmd[s].step \in {"flush", "announce"} =>
       /\ cmd[s].pk \notin GlobalRow
       /\ cmd[s].moves = moves[cmd[s].pk] => cmd[s].pk \notin gone
  /\ cmd[s].step # "tell" => cmd[s].room \in Room
  /\ cmd[s].step \in {"move", "flush", "announce"} => Foreign(s)

Commands == \A s \in Shard : cmd[s] # None => CmdOK(s)

(* The same of the rows of the bus, which are addressed to where the row   *)
(* was, or to where the room is.                                           *)
BodyOK(p) ==
  /\ sent[p].kind = IF body[p] = None THEN "undeliverable_reply" ELSE "deliver"
  /\ Text(p) => body[p].moves <= moves[body[p].pk]
  /\ body[p] # None /\ body[p].what = "obj_msg" /\ body[p].moves = moves[body[p].pk]
       => body[p].pk \in Visible(sent[p].to)
  /\ Arrival(p) =>
       /\ body[p].pk \notin GlobalRow
       /\ body[p].moves = moves[body[p].pk] => body[p].pk \notin gone
  /\ Arrival(p) \/ Flush(p) =>
       body[p].room \in Room /\ sent[p].to = RoomShard[body[p].room]

Bodies == \A p \in 1..Len(sent) : BodyOK(p)

(* A move has one command that announces it, which announces it after its  *)
(* flush.                                                                  *)
Announcers ==
  /\ \A s, q \in Shard : Arriving(s) /\ Arriving(q) /\ s # q =>
       cmd[s].pk # cmd[q].pk \/ cmd[s].moves # cmd[q].moves
  /\ \A s \in Shard, p \in 1..Len(sent) : At(s, "flush") /\ Arrival(p) =>
       cmd[s].pk # body[p].pk \/ cmd[s].moves # body[p].moves

(* The room that row x is in would show it, or the flush that makes it do  *)
(* so is still to come, before any text that announces x.                  *)
InView(x) ==
  x \notin gone \cup GlobalRow => view[at[x]] = Unset \/ x \in view[at[x]]

FlushFirst(x, q) ==
  /\ Flush(q) /\ body[q].room = at[x] /\ handled[q] = 0
  /\ \A p \in 1..Len(sent) :
       Arrival(p) /\ body[p].pk = x /\ body[p].moves = moves[x] => q < p

Owes(x, s) ==
  /\ At(s, "flush")
  /\ cmd[s].pk = x /\ cmd[s].room = at[x] /\ cmd[s].moves = moves[x]

Explained(x) ==
  \/ at[x] \in unsent
  \/ \E s \in Shard : Owes(x, s)
  \/ \E q \in 1..Len(sent) : FlushFirst(x, q)

Views == \A x \in Movable : InView(x) \/ Explained(x)

GameInv == GameTypes /\ Instances /\ Commands /\ Bodies /\ Announcers /\ Views

-----------------------------------------------------------------------------
(* What a step of s may do to the rows: it moves those of s alone to other *)
(* shards; any may vanish.                                                 *)
RowsKept(s) ==
  /\ at' \in [Movable -> Room] /\ moves' \in [Movable -> Nat]
  /\ gone' \subseteq Movable /\ gone \subseteq gone'
  /\ \A x \in Movable :
       /\ moves[x] <= moves'[x]
       /\ moves'[x] = moves[x] =>
            /\ x \in gone' => x \in gone
            /\ \A q \in Shard : x \in Visible(q) => x \in Visible(q)'
       /\ \A q \in Shard \ {s} : x \in Own(q) =>
            x \in Own(q)' /\ (x \in gone' \/ moves'[x] = moves[x])

LEMMA NoneMoved ==
  ASSUME GameTypes, NEW s, UNCHANGED <<at, gone, moves>>
  PROVE  RowsKept(s)
BY DEF RowsKept, GameTypes, Visible, Own, Admits, ShardOf

LEMMA OneMoved ==
  ASSUME GameTypes, NEW s \in Shard, NEW x \in Movable, Updatable(s, x), NEW d \in Room,
         at' = [at EXCEPT ![x] = d], moves' = [moves EXCEPT ![x] = @ + 1],
         UNCHANGED gone
  PROVE  RowsKept(s)
<1>1. x \notin GlobalRow /\ RoomShard[at[x]] = s
  BY MessagingAssumption DEF MessagingAssumption, Updatable, ShardOf
<1>2. \A q \in Shard \ {s} : x \notin Own(q)
  BY <1>1, MessagingAssumption DEF Own, Admits, ShardOf, MessagingAssumption
<1>3. /\ at' \in [Movable -> Room] /\ moves' \in [Movable -> Nat]
      /\ moves[x] \in Nat /\ moves'[x] = moves[x] + 1
      /\ \A y \in Movable \ {x} : at'[y] = at[y] /\ moves'[y] = moves[y]
      /\ \A y \in Movable : moves[y] \in Nat
  BY DEF GameTypes
<1>4. \A y \in Movable \ {x}, q \in Shard :
        (y \in Own(q))' = (y \in Own(q)) /\ (y \in Visible(q))' = (y \in Visible(q))
  BY <1>3 DEF Own, Visible, Admits, ShardOf
<1>5. moves[x] <= moves'[x] /\ moves'[x] # moves[x] BY <1>3
<1>6. \A y \in Movable : moves[y] <= moves[y] BY <1>3
<1>7. QED BY <1>2, <1>3, <1>4, <1>5, <1>6 DEF RowsKept, GameTypes

LEMMA OneVanished ==
  ASSUME GameTypes, NEW s, NEW x \in Movable, gone' = gone \cup {x},
         moves' = [moves EXCEPT ![x] = @ + 1], UNCHANGED at
  PROVE  RowsKept(s) /\ \A q : Own(q)' = Own(q)
<1>1. \A q : Own(q)' = Own(q) BY DEF Own, Admits, ShardOf
<1>2. /\ moves' \in [Movable -> Nat] /\ moves[x] \in Nat /\ moves'[x] = moves[x] + 1
      /\ \A y \in Movable \ {x} : moves'[y] = moves[y]
      /\ \A y \in Movable : moves[y] \in Nat
  BY DEF GameTypes
<1>3. moves[x] <= moves'[x] /\ moves'[x] # moves[x] BY <1>2
<1>4. \A y \in Movable : moves[y] <= moves[y] BY <1>2
<1>5. \A y \in Movable \ {x}, q \in Shard : y \in Visible(q) => y \in Visible(q)'
  BY <1>1 DEF Visible
<1>6. QED BY <1>1, <1>2, <1>3, <1>4, <1>5 DEF RowsKept, GameTypes

LEMMA OneShifted ==
  ASSUME GameTypes, NEW s \in Shard, NEW x \in Own(s), NEW d \in Room,
         RoomShard[d] = s, at' = [at EXCEPT ![x] = d], UNCHANGED <<gone, moves>>
  PROVE  /\ RowsKept(s)
         /\ \A q \in Shard : Own(q)' = Own(q) /\ Visible(q)' = Visible(q)
<1>1. x \in Movable BY DEF Own
<1>2. ASSUME NEW q \in Shard, NEW y \in Movable
      PROVE  y \in Own(q)' <=> y \in Own(q)
  <2>1. CASE y # x \/ x \in GlobalRow
    BY <1>1, <2>1 DEF GameTypes, Own, Admits, ShardOf
  <2>2. CASE y = x /\ x \notin GlobalRow
    <3>1. RoomShard[at[x]] = s /\ RoomShard[at'[x]] = s
      BY <1>1, <2>2, MessagingAssumption
         DEF GameTypes, Own, Admits, ShardOf, MessagingAssumption
    <3>2. QED BY <2>2, <3>1 DEF Own, Admits, ShardOf
  <2>3. QED BY <2>1, <2>2
<1>3. \A q \in Shard : Own(q)' = Own(q) BY <1>2 DEF Own
<1>4. \A q \in Shard : Visible(q)' = Visible(q) BY <1>3 DEF Visible
<1>5. \A y \in Movable : moves[y] <= moves[y] BY DEF GameTypes
<1>6. QED BY <1>1, <1>3, <1>4, <1>5 DEF RowsKept, GameTypes

LEMMA BodyTypes ==
  ASSUME GameTypes, TypeOK, NEW p \in 1..Len(sent)
  PROVE  /\ body[p] \in Payload \cup {None} /\ sent[p].to \in Shard
         /\ Text(p) => body[p].pk \in Movable /\ body[p].moves \in Nat
<1>1. sent[p] \in Row BY ElementOfSeq DEF TypeOK
<1>2. body[p] \in Payload \cup {None}
  BY ElementOfSeq DEF GameTypes
<1>3. sent[p].to \in Shard BY <1>1 DEF Row
<1>4. Text(p) => body[p].pk \in Movable /\ body[p].moves \in Nat
  BY <1>2 DEF Text, Payload
<1>5. QED BY <1>2, <1>3, <1>4

(* Messages and commands of others outlive it.                             *)
LEMMA CommandsKept ==
  ASSUME GameTypes, Commands, NEW s, RowsKept(s),
         \A q \in Shard \ {s} : cmd'[q] = cmd[q],
         \A q \in Shard \ {s} : cmd[q] # None =>
           stage'[q] = stage[q] /\ loop'[q] = loop[q],
         s \in Shard /\ cmd'[s] # None => CmdOK(s)'
  PROVE  Commands'
<1> SUFFICES ASSUME NEW q \in Shard, cmd'[q] # None PROVE CmdOK(q)'
  BY DEF Commands
<1>1. CASE q = s BY <1>1
<1>2. CASE q # s
  <2>1. /\ cmd'[q] = cmd[q] /\ stage'[q] = stage[q] /\ loop'[q] = loop[q]
        /\ cmd[q] \in Command /\ CmdOK(q)
    BY <1>2 DEF GameTypes, Commands
  <2> DEFINE x == cmd[q].pk
             o == cmd[q].shard
  <2>2. x \in Movable /\ o \in Shard \cup {Global} /\ cmd[q].moves \in Nat
    BY <2>1 DEF Command
  <2>3. /\ moves[x] \in Nat /\ moves'[x] \in Nat /\ moves[x] <= moves'[x]
        /\ gone \subseteq gone'
        /\ moves'[x] = moves[x] /\ x \in gone' => x \in gone
        /\ moves'[x] = moves[x] /\ o \in Shard /\ x \in Visible(o) => x \in Visible(o)'
        /\ x \in Own(q) => x \in Own(q)' /\ (x \in gone' \/ moves'[x] = moves[x])
    BY <1>2, <2>2 DEF RowsKept, GameTypes
  <2> HIDE DEF x, o
  <2>4. Local(q)' = Local(q) /\ Foreign(q)' = Foreign(q)
    BY <2>1 DEF Local, Foreign
  <2>5. cmd[q].moves <= moves'[x] BY <2>1, <2>2, <2>3 DEF CmdOK, x
  <2>6. Local(q) => x \in Own(q)' /\ (x \in gone' \/ cmd[q].moves = moves'[x])
    BY <2>1, <2>3 DEF CmdOK, x
  <2>10. cmd[q].moves = moves'[x] => cmd[q].moves = moves[x] /\ moves'[x] = moves[x]
    BY <2>1, <2>2, <2>3 DEF CmdOK, x
  <2>7. cmd[q].step = "tell" /\ ~Admits(q, o) /\ cmd[q].moves = moves'[x] =>
          x \in Visible(o)'
    BY <2>1, <2>2, <2>3, <2>10 DEF CmdOK, x, o, Admits
  <2>8. cmd[q].step \in {"flush", "announce"} =>
          x \notin GlobalRow /\ (cmd[q].moves = moves'[x] => x \notin gone')
    BY <2>1, <2>3, <2>10 DEF CmdOK, x
  <2>9. QED
    BY <2>1, <2>4, <2>5, <2>6, <2>7, <2>8 DEF CmdOK, x, o, Visible, Own
<1>3. QED BY <1>1, <1>2

LEMMA BodiesKept ==
  ASSUME GameTypes, TypeOK, Bodies, NEW s, RowsKept(s), UNCHANGED <<sent, body>>
  PROVE  Bodies'
<1> SUFFICES ASSUME NEW p \in 1..Len(sent) PROVE BodyOK(p)'
  BY DEF Bodies
<1>1. BodyOK(p) /\ sent[p].to \in Shard BY BodyTypes DEF Bodies
<1>2. Text(p) => body[p].pk \in Movable /\ body[p].moves \in Nat BY BodyTypes
<1>3. ASSUME Text(p)
      PROVE  /\ body[p].moves <= moves'[body[p].pk]
             /\ body[p].moves = moves'[body[p].pk] => body[p].moves = moves[body[p].pk]
             /\ moves'[body[p].pk] = moves[body[p].pk] =>
                  /\ body[p].pk \in gone' => body[p].pk \in gone
                  /\ \A q \in Shard :
                       body[p].pk \in Visible(q) => body[p].pk \in Visible(q)'
             /\ body[p].moves = moves'[body[p].pk] =>
                  moves'[body[p].pk] = moves[body[p].pk]
  <2>1. body[p].pk \in Movable /\ body[p].moves \in Nat BY <1>2, <1>3
  <2>2. /\ moves[body[p].pk] \in Nat /\ moves'[body[p].pk] \in Nat
        /\ moves[body[p].pk] <= moves'[body[p].pk]
        /\ body[p].moves <= moves[body[p].pk]
    BY <1>1, <1>3, <2>1 DEF GameTypes, RowsKept, BodyOK
  <2>3. QED BY <2>1, <2>2 DEF RowsKept
<1>4. body[p] # None /\ body[p].what = "obj_msg" /\ body[p].moves = moves'[body[p].pk]
        => body[p].pk \in Visible(sent[p].to)'
  <2> SUFFICES ASSUME body[p] # None, body[p].what = "obj_msg",
                      body[p].moves = moves'[body[p].pk]
               PROVE  body[p].pk \in Visible(sent[p].to)'
    OBVIOUS
  <2>1. body[p].pk \in Visible(sent[p].to) BY <1>1, <1>3 DEF BodyOK, Text
  <2>2. \A q \in Shard : body[p].pk \in Visible(q) => body[p].pk \in Visible(q)'
    BY <1>3 DEF Text
  <2>3. QED BY <1>1, <2>1, <2>2 DEF Visible, Own, Admits, ShardOf
<1>6. Arrival(p) /\ body[p].moves = moves'[body[p].pk] => body[p].pk \notin gone'
  BY <1>1, <1>3 DEF BodyOK, Text, Arrival
<1>5. /\ Text(p)' = Text(p) /\ Arrival(p)' = Arrival(p) /\ Flush(p)' = Flush(p)
  BY DEF Text, Arrival, Flush
<1> QED BY <1>1, <1>3, <1>4, <1>5, <1>6 DEF BodyOK

LEMMA AnnouncersKept ==
  ASSUME Announcers, NEW s \in Shard, \A q \in Shard \ {s} : cmd'[q] = cmd[q],
         Arriving(s)' =>
           /\ Arriving(s) /\ cmd'[s].pk = cmd[s].pk /\ cmd'[s].moves = cmd[s].moves
           /\ At(s, "flush")' => At(s, "flush"),
         \A p \in 1..Len(sent)' : Arrival(p)' =>
           p \in 1..Len(sent) /\ Arrival(p) /\ body'[p] = body[p]
  PROVE  Announcers'
<1>1. ASSUME NEW q \in Shard
      PROVE  /\ Arriving(q)' =>
                  /\ Arriving(q) /\ cmd'[q].pk = cmd[q].pk
                  /\ cmd'[q].moves = cmd[q].moves
             /\ At(q, "flush")' => Arriving(q)' /\ At(q, "flush")
  BY DEF Arriving, At
<1>2. QED BY <1>1 DEF Announcers

(* The rows of the bus stay as they are, and others may come after them.   *)
Extended ==
  /\ Len(sent) \in Nat /\ Len(sent)' \in Nat /\ Len(sent) <= Len(sent)'
  /\ \A q \in 1..Len(sent) : body'[q] = body[q]

LEMMA ExplainedKept ==
  ASSUME NEW x \in Movable, Explained(x), at'[x] = at[x], moves'[x] = moves[x],
         at[x] \in unsent => at[x] \in unsent', Extended,
         \A q \in 1..Len(sent) : Flush(q) /\ body[q].room = at[x] =>
           handled'[q] = handled[q],
         \A s \in Shard : Owes(x, s) => cmd'[s] = cmd[s]
  PROVE  Explained(x)'
<1>1. CASE at[x] \in unsent BY <1>1 DEF Explained
<1>2. CASE \E s \in Shard : Owes(x, s)
  <2> PICK s \in Shard : Owes(x, s) BY <1>2
  <2>1. Owes(x, s)' BY DEF Owes, At
  <2>2. QED BY <2>1 DEF Explained
<1>3. CASE \E q \in 1..Len(sent) : FlushFirst(x, q)
  <2> PICK q \in 1..Len(sent) : FlushFirst(x, q) BY <1>3
  <2>1. Flush(q)' /\ body'[q].room = at'[x] /\ handled'[q] = 0
    BY DEF FlushFirst, Flush, Extended
  <2>2. ASSUME NEW p \in 1..Len(sent)', Arrival(p)', body'[p].pk = x,
               body'[p].moves = moves'[x]
        PROVE  q < p
    <3>1. CASE p \in 1..Len(sent)
      BY <2>2, <3>1 DEF FlushFirst, Arrival, Extended
    <3>2. CASE p \notin 1..Len(sent) BY <3>2 DEF Extended
    <3>3. QED BY <3>1, <3>2
  <2>3. q \in 1..Len(sent)' BY DEF Extended
  <2>4. FlushFirst(x, q)' BY <2>1, <2>2 DEF FlushFirst
  <2>5. QED BY <2>3, <2>4 DEF Explained
<1>4. QED BY <1>1, <1>2, <1>3 DEF Explained

LEMMA SameExtended ==
  ASSUME BusInv, UNCHANGED <<sent, body>>
  PROVE  Extended
BY DEF Extended, BusInv, TypeOK

-----------------------------------------------------------------------------
(* Steps of the bus that leave the game alone.                             *)
LEMMA BusOnly ==
  ASSUME BusInv, GameInv, UNCHANGED <<sent, idmap, view, cmd, body, dropped, game>>,
         \A q \in Shard : cmd[q] # None => stage'[q] = stage[q] /\ loop'[q] = loop[q],
         \A q \in 1..Len(sent) : Flush(q) => handled'[q] = handled[q]
  PROVE  GameInv'
<1>1. GameTypes' /\ Instances'
  BY DEF GameInv, GameTypes, Instances, Own, Admits, ShardOf, game
<1>2. Commands'
  BY DEF GameInv, Commands, CmdOK, Local, Foreign, Visible, Own, Admits, ShardOf, game
<1>3. Bodies'
  BY DEF GameInv, Bodies, BodyOK, Text, Arrival, Flush, Visible, Own, Admits, ShardOf, game
<1>4. Announcers' BY DEF GameInv, Announcers, Arriving, At, Arrival
<1>5. Views'
  <2> SUFFICES ASSUME NEW x \in Movable PROVE InView(x)' \/ Explained(x)'
    BY DEF Views
  <2>1. InView(x)' = InView(x) BY DEF InView, game
  <2>2. Explained(x) => Explained(x)' BY SameExtended, ExplainedKept DEF game
  <2>3. QED BY <2>1, <2>2 DEF GameInv, Views
<1>6. QED BY <1>1, <1>2, <1>3, <1>4, <1>5 DEF GameInv

(* Steps of s that leave the rows where they are, may load instances, read *)
(* rooms, and go on with the command.                                      *)
LEMMA StaysInv ==
  ASSUME BusInv, GameInv, NEW s \in Shard, NEW c \in Command \cup {None},
         UNCHANGED <<sent, body, game>>, dropped' \subseteq 1..Len(sent),
         idmap' \in [Shard -> SUBSET Movable], Instances',
         view' \in [Room -> (SUBSET Movable) \cup {Unset}],
         \A x \in Movable : InView(x) => InView(x)',
         \A q \in Shard \ {s} : cmd[q] # None => stage'[q] = stage[q] /\ loop'[q] = loop[q],
         \A q \in 1..Len(sent) : Flush(q) => handled'[q] = handled[q],
         cmd' = [cmd EXCEPT ![s] = c], c # None => CmdOK(s)',
         \/ c = cmd[s]
         \/ ~At(s, "flush") /\ (c = None \/ c.step \notin {"flush", "announce"})
  PROVE  GameInv'
<1>1. /\ GameTypes /\ Instances /\ Commands /\ Bodies /\ Announcers /\ Views /\ TypeOK
      /\ cmd'[s] = c
      /\ \A q \in Shard \ {s} : cmd'[q] = cmd[q]
  BY DEF GameInv, GameTypes, BusInv
<1>2. GameTypes' BY <1>1 DEF GameTypes, game
<1>3. RowsKept(s) BY <1>1, NoneMoved DEF game
<1>4. Commands' BY <1>1, <1>3, CommandsKept
<1>5. Bodies' BY <1>1, <1>3, BodiesKept
<1>6. Announcers'
  <2>1. Arriving(s)' =>
          /\ Arriving(s) /\ cmd'[s].pk = cmd[s].pk /\ cmd'[s].moves = cmd[s].moves
          /\ At(s, "flush")' => At(s, "flush")
    BY <1>1 DEF Arriving, At
  <2>2. \A p : Arrival(p)' = Arrival(p) BY DEF Arrival
  <2>3. QED BY <1>1, <2>1, <2>2, AnnouncersKept
<1>7. Views'
  <2> SUFFICES ASSUME NEW x \in Movable PROVE InView(x)' \/ Explained(x)'
    BY DEF Views
  <2>1. \A q \in Shard : Owes(x, q) => cmd'[q] = cmd[q] BY <1>1 DEF Owes
  <2>2. Explained(x) => Explained(x)' BY <2>1, SameExtended, ExplainedKept DEF game
  <2>3. QED BY <1>1, <2>2 DEF Views
<1>8. QED BY <1>2, <1>4, <1>5, <1>6, <1>7 DEF GameInv

(* A room's contents are read.                                             *)
LEMMA ReadKept ==
  ASSUME GameTypes, Instances, NEW r \in Room, NEW instances \in SUBSET Movable,
         instances \subseteq Own(RoomShard[r]), Read(r, instances),
         UNCHANGED <<at, gone>>
  PROVE  /\ idmap' \in [Shard -> SUBSET Movable] /\ Instances'
         /\ view' \in [Room -> (SUBSET Movable) \cup {Unset}]
         /\ \A x \in Movable : InView(x) => InView(x)'
         /\ \A x \in Movable \ (gone \cup GlobalRow) :
              at[x] = r /\ InView(x) => x \in view'[r]
<1> DEFINE S == SeenWith(r, instances)
<1>1. /\ RoomShard[r] \in Shard /\ r # None
      /\ Contents(r) \subseteq Own(RoomShard[r])
  BY MessagingAssumption DEF MessagingAssumption, Contents, Own, Admits, ShardOf
<1>2. S \subseteq Own(RoomShard[r]) /\ S \in SUBSET Movable
  BY <1>1 DEF SeenWith, Valid, Own
<1>3. /\ view' = [view EXCEPT ![r] = S]
      /\ idmap' = [idmap EXCEPT ![RoomShard[r]] = instances \cup S]
  BY DEF Read
<1>4. \A x \in Movable \ (gone \cup GlobalRow) : at[x] = r /\ InView(x) => x \in S
  BY <1>1 DEF InView, SeenWith, Valid, Contents
<1> HIDE DEF S
<1>5. idmap' \in [Shard -> SUBSET Movable] BY <1>1, <1>2, <1>3 DEF GameTypes
<1>6. Instances'
  <2>1. \A q \in Shard : Own(q)' = Own(q) BY DEF Own, Admits, ShardOf
  <2>2. QED BY <1>1, <1>2, <1>3, <2>1 DEF GameTypes, Instances
<1>7. view' \in [Room -> (SUBSET Movable) \cup {Unset}] /\ view'[r] = S
  BY <1>2, <1>3 DEF GameTypes
<1>8. \A x \in Movable : InView(x) => InView(x)'
  BY <1>3, <1>4, <1>7 DEF GameTypes, InView
<1>9. QED BY <1>4, <1>5, <1>6, <1>7, <1>8

LEMMA GotKept ==
  ASSUME GameTypes, Instances, NEW s \in Shard, NEW x \in Movable
  PROVE  Got(s, x) \in SUBSET Movable /\ Got(s, x) \subseteq Own(s)
BY DEF GameTypes, Instances, Got, Visible

LEMMA GetKept ==
  ASSUME GameTypes, Instances, NEW s \in Shard, NEW x \in Movable, Get(s, x),
         UNCHANGED at
  PROVE  idmap' \in [Shard -> SUBSET Movable] /\ Instances'
<1>1. Got(s, x) \in SUBSET Movable /\ Got(s, x) \subseteq Own(s) BY GotKept
<1>2. \A q \in Shard : Own(q)' = Own(q) BY DEF Own, Admits, ShardOf
<1>3. QED BY <1>1, <1>2 DEF GameTypes, Instances, Get

-----------------------------------------------------------------------------
(* A step that inserts a row: an answer of the bus, or what a command on s *)
(* sends.                                                                  *)
Appended(row, load) ==
  /\ sent' = Append(sent, row) /\ body' = Append(body, load)
  /\ handled' = Append(handled, 0)

LEMMA AppendedRow ==
  ASSUME BusInv, GameInv, NEW row \in Row, NEW load \in Payload \cup {None},
         Appended(row, load)
  PROVE  /\ Len(sent) \in Nat /\ Len(sent') = Len(sent) + 1
         /\ body' \in Seq(Payload \cup {None}) /\ Len(body') = Len(sent')
         /\ sent'[Len(sent) + 1] = row /\ body'[Len(sent) + 1] = load
         /\ handled'[Len(sent) + 1] = 0
         /\ \A p \in 1..Len(sent) :
              sent'[p] = sent[p] /\ body'[p] = body[p] /\ handled'[p] = handled[p]
<1>1. /\ sent \in Seq(Row) /\ body \in Seq(Payload \cup {None})
      /\ Len(body) = Len(sent) /\ handled \in [1..Len(sent) -> Nat]
  BY DEF BusInv, TypeOK, GameInv, GameTypes
<1>2. Len(sent) \in Nat BY <1>1, LenProperties
<1>3. /\ Len(sent') = Len(sent) + 1 /\ sent'[Len(sent) + 1] = row
      /\ \A p \in 1..Len(sent) : sent'[p] = sent[p]
  BY <1>1, AppendProperties DEF Appended
<1>4. /\ body' \in Seq(Payload \cup {None}) /\ Len(body') = Len(body) + 1
      /\ body'[Len(body) + 1] = load
      /\ \A p \in 1..Len(body) : body'[p] = body[p]
  BY <1>1, AppendProperties DEF Appended
<1>5. /\ handled'[Len(sent) + 1] = 0
      /\ \A p \in 1..Len(sent) : handled'[p] = handled[p]
  BY <1>1, <1>2, AppendCount DEF Appended
<1>6. QED BY <1>1, <1>2, <1>3, <1>4, <1>5

LEMMA PostedInv ==
  ASSUME BusInv, GameInv, NEW s \in Shard, NEW c \in Command \cup {None},
         NEW row \in Row, NEW load \in Payload \cup {None}, Appended(row, load),
         NEW k, k = Len(sent) + 1, BodyOK(k)',
         UNCHANGED <<idmap, view, dropped, game>>,
         \A q \in Shard \ {s} : cmd[q] # None => stage'[q] = stage[q] /\ loop'[q] = loop[q],
         cmd' = [cmd EXCEPT ![s] = c], c # None => CmdOK(s)',
         c # None => /\ At(s, "flush") /\ c.step = "announce"
                     /\ c.pk = cmd[s].pk /\ c.moves = cmd[s].moves,
         load # None /\ load.what = "room_msg" =>
           /\ At(s, "announce")
           /\ load.pk = cmd[s].pk /\ load.moves = cmd[s].moves,
         At(s, "flush") =>
           load # None /\ load.what = "flush" /\ load.room = cmd[s].room
  PROVE  GameInv'
<1> DEFINE n == Len(sent)
<1>1. /\ n \in Nat /\ Len(sent') = k /\ k = n + 1
      /\ body' \in Seq(Payload \cup {None}) /\ Len(body') = k
      /\ body'[k] = load /\ handled'[k] = 0
      /\ \A p \in 1..n :
           sent'[p] = sent[p] /\ body'[p] = body[p] /\ handled'[p] = handled[p]
  BY AppendedRow
<1>2. /\ GameTypes /\ Instances /\ Commands /\ Bodies /\ Announcers /\ Views
      /\ cmd'[s] = c
      /\ \A q \in Shard \ {s} : cmd'[q] = cmd[q]
  BY DEF GameInv, GameTypes
<1>3. GameTypes' /\ Instances'
  <2>1. 1..n \subseteq 1..k BY <1>1
  <2>2. QED BY <1>1, <1>2, <2>1 DEF GameTypes, Instances, Visible, Own, Admits, ShardOf, game
<1>4. Commands' BY <1>2, NoneMoved, CommandsKept DEF game
<1>5. Bodies'
  <2>1. ASSUME NEW p \in 1..n PROVE BodyOK(p)'
    BY <1>1, <1>2 DEF Bodies, BodyOK, Text, Arrival, Flush, Visible, Own, Admits, ShardOf, game
  <2>2. ASSUME NEW p \in 1..k PROVE BodyOK(p)'
    <3>1. p \in 1..n \/ p = k BY <1>1
    <3>2. QED BY <2>1, <3>1
  <2>3. QED BY <1>1, <2>2 DEF Bodies
<1>6. \A p \in 1..k : p \in 1..n \/ p = k BY <1>1
<1> HIDE DEF n
<1>7. Announcers'
  <2>1. ASSUME NEW q \in Shard, Arriving(q)'
        PROVE  /\ Arriving(q) /\ cmd'[q].pk = cmd[q].pk /\ cmd'[q].moves = cmd[q].moves
               /\ At(q, "flush")' => At(q, "flush") /\ q # s
    BY <1>2, <2>1 DEF Arriving, At
  <2>2. ASSUME NEW q \in Shard, NEW p \in 1..Len(sent'), At(q, "flush")', Arrival(p)'
        PROVE  cmd'[q].pk # body'[p].pk \/ cmd'[q].moves # body'[p].moves
    <3>1. /\ Arriving(q) /\ cmd'[q].pk = cmd[q].pk /\ cmd'[q].moves = cmd[q].moves
          /\ At(q, "flush") /\ q # s
      BY <2>1, <2>2 DEF Arriving
    <3>2. CASE p \in 1..n
      BY <1>1, <1>2, <2>2, <3>1, <3>2 DEF Announcers, Arrival, n
    <3>3. CASE p = k
      <4>1. Arriving(s) /\ load.pk = cmd[s].pk /\ load.moves = cmd[s].moves
        BY <1>1, <2>2, <3>3 DEF Arrival, Arriving
      <4>2. QED BY <1>1, <1>2, <3>1, <3>3, <4>1 DEF Announcers
    <3>4. QED BY <1>1, <1>6, <3>2, <3>3
  <2>3. QED BY <1>2, <2>1, <2>2 DEF Announcers
<1>8. Views'
  <2> SUFFICES ASSUME NEW x \in Movable PROVE InView(x)' \/ Explained(x)'
    BY DEF Views
  <2>1. InView(x)' = InView(x) BY DEF InView, game
  <2>2. CASE Owes(x, s)
    <3>1. ASSUME NEW p \in 1..Len(sent'), Arrival(p)', body'[p].pk = x,
                 body'[p].moves = moves'[x]
          PROVE  FALSE
      <4>1. CASE p = k BY <1>1, <2>2, <3>1, <4>1 DEF Arrival, Owes
      <4>2. CASE p \in 1..n
        BY <1>1, <1>2, <2>2, <3>1, <4>2 DEF Announcers, Arrival, Owes, game, n
      <4>3. QED BY <1>1, <1>6, <4>1, <4>2
    <3>2. FlushFirst(x, k)'
      BY <1>1, <2>2, <3>1 DEF FlushFirst, Flush, Owes, game, n
    <3>3. k \in 1..Len(sent') BY <1>1
    <3>4. QED BY <3>2, <3>3 DEF Explained
  <2>3. CASE ~Owes(x, s)
    <3>1. Extended BY <1>1 DEF Extended, n
    <3>2. \A q \in Shard : Owes(x, q) => cmd'[q] = cmd[q] BY <1>2, <2>3
    <3>3. Explained(x) => Explained(x)'
      BY <1>1, <3>1, <3>2, ExplainedKept DEF game, n
    <3>4. QED BY <1>2, <2>1, <3>3 DEF Views
  <2>4. QED BY <2>2, <2>3
<1>9. QED BY <1>3, <1>4, <1>5, <1>7, <1>8 DEF GameInv

-----------------------------------------------------------------------------
(* What a step means to the bus.                                           *)

(* It may take a fault, and no more.                                       *)
LEMMA BusStays ==
  ASSUME BusInv, UNCHANGED <<sent, table, expired, loop, cycle, handled, bounced>>,
         Fault \/ UNCHANGED faults
  PROVE  BusInv'
<1>1. TypeOK /\ Rows /\ Stages /\ SoleConsumer /\ NothingLost /\ Counts
  BY DEF BusInv
<1>2. faults \in Nat /\ faults' \in 0..MaxFaults /\ faults <= faults'
  BY <1>1, BusAssumption DEF TypeOK, Fault, BusAssumption
<1>3. TypeOK' BY <1>1, <1>2 DEF TypeOK, cycle
<1>4. Rows' BY <1>1 DEF Rows, RowOK
<1>5. Stages' BY <1>1 DEF Stages, StageOK, cycle
<1>6. SoleConsumer' BY <1>1 DEF SoleConsumer, cycle
<1>7. NothingLost' BY <1>1 DEF NothingLost
<1>8. Counts'
  <2>1. ASSUME NEW p \in 1..Len(sent)
        PROVE  /\ handled[p] + bounced[p] <= 1 + faults'
               /\ p \in table /\ ~Settling(p) => handled[p] + bounced[p] <= faults'
    <3>1. handled[p] \in Nat /\ bounced[p] \in Nat BY <1>1 DEF TypeOK
    <3>2. QED BY <1>1, <1>2, <3>1 DEF Counts
  <2>2. \A p : Settling(p)' = Settling(p) BY DEF Settling, cycle
  <2>3. QED BY <2>1, <2>2 DEF Counts
<1>9. QED BY <1>3, <1>4, <1>5, <1>6, <1>7, <1>8 DEF BusInv

(* A row has its turn while no command is under way.                       *)
LEMMA TurnTaken ==
  ASSUME BusInv, GameInv, NEW s \in Shard, NEW p \in inbox[s], Turn(s, p)
  PROVE  /\ p \in 1..Len(sent) /\ sent[p].to = s /\ BodyOK(p)
         /\ sent[p].kind # "ping" /\ cmd[s] = None
<1>1. p \in 1..Len(sent) /\ sent[p].to = s BY OwnRow
<1>2. BodyOK(p) BY <1>1 DEF GameInv, Bodies
<1>3. cmd[s] = None BY DEF GameInv, Commands, CmdOK, Turn
<1>4. QED BY <1>1, <1>2, <1>3 DEF BodyOK

LEMMA HandledRow ==
  ASSUME BusInv, GameInv, NEW s \in Shard, NEW p \in inbox[s], Handle(s, p)
  PROVE  /\ p \in 1..Len(sent) /\ sent[p].to = s /\ BodyOK(p) /\ cmd[s] = None
         /\ UNCHANGED <<sent, loop>>
         /\ \A q \in Shard \ {s} : stage'[q] = stage[q]
         /\ \A q \in (1..Len(sent)) \ {p} : handled'[q] = handled[q]
<1>1. /\ p \in 1..Len(sent) /\ sent[p].to = s /\ BodyOK(p)
      /\ sent[p].kind # "ping" /\ cmd[s] = None
  BY TurnTaken DEF Handle
<1>2. TypeOK BY DEF BusInv
<1>3. /\ handled' = [handled EXCEPT ![p] = @ + 1] /\ UNCHANGED <<sent, loop>>
      /\ stage' = [stage EXCEPT ![s] = "delete"]
  BY <1>1 DEF Handle
<1>4. QED BY <1>1, <1>2, <1>3 DEF TypeOK

-----------------------------------------------------------------------------
(* The cycle of the bus and its faults.                                    *)
Idles == UNCHANGED <<idmap, view, cmd, body, dropped, game>>

LEMMA PollOK ==
  ASSUME BusInv, GameInv, NEW s \in Shard, cmd[s] = None, Poll(s), Idles
  PROVE  BusInv' /\ GameInv'
<1>1. BusInv' BY PollInv
<1>2. \A q \in Shard : cmd[q] # None => stage'[q] = stage[q] /\ loop'[q] = loop[q]
  BY DEF Poll, BusInv, TypeOK
<1>3. QED BY <1>1, <1>2, BusOnly DEF Poll, Idles

LEMMA ReplyHandled ==
  ASSUME BusInv, GameInv, NEW s \in Shard, NEW p \in inbox[s], HandleReply(s, p)
  PROVE  BusInv' /\ GameInv'
<1>1. BusInv' BY HandleInv DEF HandleReply
<1>2. /\ p \in 1..Len(sent) /\ sent[p].to = s /\ BodyOK(p) /\ cmd[s] = None
      /\ UNCHANGED <<sent, loop>>
      /\ \A q \in Shard \ {s} : stage'[q] = stage[q]
      /\ \A q \in (1..Len(sent)) \ {p} : handled'[q] = handled[q]
  BY HandledRow DEF HandleReply
<1>3. \A q \in 1..Len(sent) : Flush(q) => handled'[q] = handled[q]
  BY <1>2 DEF Flush, HandleReply
<1>4. QED BY <1>1, <1>2, <1>3, BusOnly DEF HandleReply

LEMMA HandlerRaisesOK ==
  ASSUME BusInv, GameInv, NEW s \in Shard, NEW p \in inbox[s], HandlerRaises(s, p)
  PROVE  BusInv' /\ GameInv'
<1>1. /\ p \in 1..Len(sent) /\ sent[p].to = s /\ BodyOK(p)
      /\ sent[p].kind # "ping" /\ cmd[s] = None
  BY TurnTaken DEF HandlerRaises
<1>2. sent[p].kind \in Deferrable BY DEF HandlerRaises, MayDefer
<1>3. BusInv' BY <1>2, NotHandledInv DEF HandlerRaises
<1>4. \A q \in Shard \ {s} : stage'[q] = stage[q]
  <2>1. stage \in [Shard -> {"idle", "handle", "reply", "delete"}]
    BY DEF BusInv, TypeOK
  <2>2. \E v : stage' = [stage EXCEPT ![s] = v]
    BY DEF HandlerRaises, NotHandled
  <2>3. QED BY <2>1, <2>2
<1>5. QED BY <1>1, <1>3, <1>4, BusOnly DEF HandlerRaises

LEMMA DeleteOK ==
  ASSUME BusInv, GameInv, NEW s \in Shard, Delete(s), Idles
  PROVE  BusInv' /\ GameInv'
<1>1. BusInv' BY DeleteInv
<1>2. cmd[s] = None BY DEF GameInv, Commands, CmdOK, Delete
<1>3. \A q \in Shard : cmd[q] # None => stage'[q] = stage[q] /\ loop'[q] = loop[q]
  BY <1>2 DEF Delete, BusInv, TypeOK
<1>4. QED BY <1>1, <1>3, BusOnly DEF Delete, Idles

LEMMA AbandonOK ==
  ASSUME BusInv, GameInv, NEW s \in Shard, Raise(s) \/ Restart(s), cmd[s] = None, Idles
  PROVE  BusInv' /\ GameInv'
<1>1. BusInv'
  <2>1. CASE Raise(s) BY <2>1, AbandonInv DEF Raise
  <2>2. CASE Restart(s)
    <3>1. stage[s] = "idle" BY <2>2 DEF BusInv, Stages, StageOK, Restart
    <3>2. QED BY <2>2, <3>1, AbandonInv DEF Restart
  <2>3. QED BY <2>1, <2>2
<1>2. /\ UNCHANGED <<sent, handled>>
      /\ \A q \in Shard : cmd[q] # None => stage'[q] = stage[q] /\ loop'[q] = loop[q]
  BY DEF Raise, Restart, Abandon, BusInv, TypeOK
<1>3. QED BY <1>1, <1>2, BusOnly DEF Idles

LEMMA ExpireOK ==
  ASSUME BusInv, GameInv, NEW p \in table, Expire(p), Idles
  PROVE  BusInv' /\ GameInv'
BY ExpireInv, BusOnly DEF Expire, cycle, Idles
(* A timeout is answered, or the row has nobody to answer to.              *)
LEMMA ReplyOK ==
  ASSUME BusInv, GameInv, NEW s \in Shard, Reply(s),
         body' = IF sent' = sent THEN body ELSE Append(body, None),
         UNCHANGED <<idmap, view, cmd, dropped, game>>
  PROVE  BusInv' /\ GameInv'
<1> DEFINE p == cur[s]
           row == Message("undeliverable_reply", sent[p].from, s, p)
<1>1. BusInv' BY ReplyInv
<1>2. /\ p \in 1..Len(sent) /\ sent[p] \in Row
      /\ stage[s] = "reply" /\ cmd[s] = None /\ Len(sent) \in Nat
  <2>1. stage[s] = "reply" BY DEF Reply
  <2>2. p \in 1..Len(sent) /\ sent[p] \in Row BY <2>1, OwnCur
  <2>3. cmd[s] = None BY <2>1 DEF GameInv, Commands, CmdOK
  <2>4. Len(sent) \in Nat BY LenProperties DEF BusInv, TypeOK
  <2>5. QED BY <2>1, <2>2, <2>3, <2>4
<1>3. \A q \in Shard : cmd[q] # None => stage'[q] = stage[q] /\ loop'[q] = loop[q]
  BY <1>2 DEF Reply, BusInv, TypeOK
<1>4. CASE UNCHANGED <<sent, handled>>
  BY <1>1, <1>3, <1>4, BusOnly
<1>5. CASE sent[p].from # None /\ sent[p].from # s /\ Insert(row, handled, [bounced EXCEPT ![p] = @ + 1])
  <2>1. row \in Row
    BY <1>2, <1>5 DEF Message, Row, Kind, Pk
  <2>2. sent \in Seq(Row) BY DEF BusInv, TypeOK
  <2>3. Len(sent') = Len(sent) + 1
    BY <1>5, <2>1, <2>2, AppendProperties DEF Insert
  <2>4. Appended(row, None) BY <1>2, <1>5, <2>3 DEF Appended, Insert
  <2> DEFINE k == Len(sent) + 1
  <2>5. sent'[k] = row /\ body'[k] = None BY <2>1, <2>4, AppendedRow
  <2>6. k \in Nat BY <1>2
  <2> HIDE DEF k, row
  <2>7. PICK m : m = k OBVIOUS
  <2>13. row.kind = "undeliverable_reply" BY DEF row, Message
  <2>14. sent'[m] = row /\ body'[m] = None BY <2>5, <2>7
  <2>8. BodyOK(m)' BY <2>13, <2>14 DEF BodyOK, Text, Arrival, Flush
  <2>9. cmd' = [cmd EXCEPT ![s] = None]
    BY <1>2 DEF GameInv, GameTypes
  <2>10. ~At(s, "flush") BY <1>2 DEF At
  <2>11. GameInv'
    BY <1>3, <2>1, <2>4, <2>7, <2>8, <2>9, <2>10, PostedInv DEF k
  <2>12. QED BY <1>1, <2>11
<1>6. QED BY <1>4, <1>5 DEF Reply

-----------------------------------------------------------------------------
(* Steps of a command that leave the rows where they are.                  *)
(* They may load instances and read rooms.                                 *)
Loads == /\ idmap' \in [Shard -> SUBSET Movable] /\ Instances'
         /\ view' \in [Room -> (SUBSET Movable) \cup {Unset}]
         /\ \A x \in Movable : InView(x) => InView(x)'

LEMMA NoLoads ==
  ASSUME GameInv, UNCHANGED <<at, gone, idmap, view>>
  PROVE  Loads
BY DEF GameInv, GameTypes, Instances, Visible, Own, Admits, ShardOf, InView, Loads

LEMMA CommandOK ==
  ASSUME BusInv, GameInv, NEW s \in Shard, NEW c \in Command \cup {None},
         UNCHANGED <<sent, table, expired, loop, cycle, handled, bounced>>,
         Fault \/ UNCHANGED faults,
         UNCHANGED <<body, dropped, game>>, Loads,
         cmd' = [cmd EXCEPT ![s] = c], c # None => CmdOK(s)',
         \/ c = cmd[s]
         \/ ~At(s, "flush") /\ (c = None \/ c.step \notin {"flush", "announce"})
  PROVE  BusInv' /\ GameInv'
<1>1. BusInv' BY BusStays
<1>2. dropped' \subseteq 1..Len(sent) BY DEF GameInv, GameTypes
<1>3. QED BY <1>1, <1>2, StaysInv DEF Loads, cycle

LEMMA TellOK ==
  ASSUME BusInv, GameInv, NEW s \in Shard, NEW x \in Movable, Tell(s, x)
  PROVE  BusInv' /\ GameInv'
<1> DEFINE c == [step |-> "tell", pk |-> x, shard |-> ShardOf(x), room |-> None,
                 moves |-> moves[x], quiet |-> FALSE]
<1>1. Loads BY NoLoads DEF Tell, game
<1>2. GameTypes /\ Instances BY DEF GameInv
<1>3. /\ ShardOf(x) \in Shard \cup {Global} /\ moves[x] \in Nat
      /\ x \in Visible(ShardOf(x))
  BY <1>2, MessagingAssumption
     DEF GameTypes, Tell, MessagingAssumption, ShardOf, Visible, Own, Admits
<1>4. c \in Command BY <1>3 DEF Command
<1>5. cmd' = [cmd EXCEPT ![s] = c] /\ cmd'[s] = c BY <1>2 DEF Tell, GameTypes
<1>6. ~At(s, "flush") BY DEF At, Tell, Idle
<1>7. CmdOK(s)'
  BY <1>3, <1>5 DEF CmdOK, Local, Visible, Own, Admits, ShardOf, Tell, Idle, vars, game
<1>8. QED BY <1>1, <1>4, <1>5, <1>6, <1>7, CommandOK DEF Tell, vars, cycle
LEMMA SearchOK ==
  ASSUME BusInv, GameInv, NEW s \in Shard, NEW x \in Movable, NEW d \in Room,
         Search(s, x, d)
  PROVE  BusInv' /\ GameInv'
<1> DEFINE c == [step |-> "search", pk |-> x, shard |-> ShardOf(x), room |-> d,
                 moves |-> moves[x], quiet |-> FALSE]
<1>1. Loads BY NoLoads DEF Search, game
<1>2. GameTypes BY DEF GameInv
<1>3. /\ ShardOf(x) \in Shard \cup {Global} /\ moves[x] \in Nat
      /\ x \in Visible(ShardOf(x))
  BY <1>2, MessagingAssumption
     DEF GameTypes, Search, MessagingAssumption, ShardOf, Visible, Own, Admits
<1>4. c \in Command BY <1>3 DEF Command
<1>5. cmd' = [cmd EXCEPT ![s] = c] /\ cmd'[s] = c BY <1>2 DEF Search, GameTypes
<1>6. ~At(s, "flush") BY DEF At, Search, Idle
<1>7. CmdOK(s)'
  BY <1>3, <1>5 DEF CmdOK, Local, Visible, Own, Admits, ShardOf, Search, Idle, vars, game
<1>8. QED BY <1>1, <1>4, <1>5, <1>6, <1>7, CommandOK DEF Search, vars, cycle

LEMMA SearchSelfOK ==
  ASSUME BusInv, GameInv, NEW s \in Shard, NEW x \in Movable, NEW d \in Room,
         SearchSelf(s, x, d)
  PROVE  BusInv' /\ GameInv'
<1> DEFINE c == [step |-> "func", pk |-> x, shard |-> ShardOf(x), room |-> d,
                 moves |-> moves[x], quiet |-> FALSE]
<1>1. Loads BY NoLoads DEF SearchSelf, game
<1>2. GameTypes BY DEF GameInv
<1>3. moves[x] \in Nat /\ x \in Own(s) /\ ShardOf(x) \in Shard \cup {Global}
  BY <1>2, MessagingAssumption
     DEF GameTypes, SearchSelf, GameInv, Instances, MessagingAssumption, ShardOf
<1>4. c \in Command BY <1>3 DEF Command
<1>5. cmd' = [cmd EXCEPT ![s] = c] /\ cmd'[s] = c BY <1>2 DEF SearchSelf, GameTypes
<1>6. ~At(s, "flush") BY DEF At, SearchSelf, Idle
<1>7. CmdOK(s)'
  BY <1>3, <1>5 DEF CmdOK, Local, Visible, Own, Admits, ShardOf, SearchSelf, Idle, vars, game
<1>8. QED BY <1>1, <1>4, <1>5, <1>6, <1>7, CommandOK DEF SearchSelf, vars, cycle

(* A step that ends the command.                                           *)
LEMMA DoneOK ==
  ASSUME BusInv, GameInv, NEW s \in Shard,
         UNCHANGED <<sent, table, expired, loop, cycle, handled, bounced>>,
         Fault \/ UNCHANGED faults,
         UNCHANGED <<body, dropped, game>>, Loads, Done(s), ~At(s, "flush")
  PROVE  BusInv' /\ GameInv'
BY CommandOK DEF Done

(* A step that goes on to another point of the command.                    *)
LEMMA GoOnOK ==
  ASSUME BusInv, GameInv, NEW s \in Shard, NEW c \in Command,
         UNCHANGED <<vars, body, dropped, game>>, Loads,
         cmd[s] # None, ~At(s, "flush"), cmd' = [cmd EXCEPT ![s] = c],
         c.pk = cmd[s].pk, c.moves = cmd[s].moves, c.room = cmd[s].room,
         \/ cmd[s].step = "search" /\ c.step = "func" /\ Admits(s, cmd[s].shard)
         \/ cmd[s].step = "func" /\ c.step = "move" /\ Foreign(s)
  PROVE  BusInv' /\ GameInv'
<1>1. CmdOK(s) /\ cmd'[s] = c BY DEF GameInv, Commands, GameTypes
<1>2. CmdOK(s)'
  BY <1>1 DEF CmdOK, Local, Foreign, Visible, Own, Admits, ShardOf, vars, cycle, game
<1>3. QED BY <1>2, CommandOK DEF vars, cycle

LEMMA TellLocalOK ==
  ASSUME BusInv, GameInv, NEW s \in Shard, TellLocal(s)
  PROVE  BusInv' /\ GameInv'
<1>1. cmd[s].pk \in Movable
  BY DEF TellLocal, GameInv, GameTypes, Command
<1>2. Loads
  BY <1>1, GetKept DEF TellLocal, Loads, GameInv, GameTypes, InView, game
<1>3. QED BY <1>2, DoneOK DEF TellLocal, At, vars, cycle

LEMMA FoundHereOK ==
  ASSUME BusInv, GameInv, NEW s \in Shard, FoundHere(s)
  PROVE  BusInv' /\ GameInv'
<1>1. cmd[s] \in Command /\ cmd[s].pk \in Movable /\ ~At(s, "flush")
  BY DEF FoundHere, At, GameInv, GameTypes, Command
<1>2. Loads
  BY <1>1, GetKept DEF FoundHere, Loads, GameInv, GameTypes, InView, game
<1>3. CASE Done(s)
  BY <1>1, <1>2, <1>3, DoneOK DEF FoundHere, vars, cycle
<1>4. CASE GoTo(s, "func")
  <2> DEFINE c == [cmd[s] EXCEPT !.step = "func"]
  <2>1. /\ c \in Command /\ c.step = "func" /\ c.pk = cmd[s].pk
        /\ c.moves = cmd[s].moves /\ c.room = cmd[s].room
    BY <1>1 DEF Command
  <2>2. cmd' = [cmd EXCEPT ![s] = c] BY <1>4 DEF GoTo
  <2> HIDE DEF c
  <2>3. QED
    BY <1>1, <1>2, <1>4, <2>1, <2>2, GoOnOK DEF FoundHere, At
<1>5. QED BY <1>3, <1>4 DEF FoundHere

LEMMA FoundElsewhereOK ==
  ASSUME BusInv, GameInv, NEW s \in Shard, FoundElsewhere(s) \/ Refuse(s)
  PROVE  BusInv' /\ GameInv'
<1>1. Loads BY NoLoads DEF FoundElsewhere, Refuse, game
<1>2. QED BY <1>1, DoneOK DEF FoundElsewhere, Refuse, At, vars, cycle

LEMMA LeaveOK ==
  ASSUME BusInv, GameInv, NEW s \in Shard, Leave(s) \/ LeaveQuietly(s)
  PROVE  BusInv' /\ GameInv'
<1>1. /\ cmd[s] \in Command /\ CmdOK(s) /\ cmd[s] # None /\ cmd[s].step = "func"
      /\ ~At(s, "flush") /\ Foreign(s)
  BY DEF Leave, LeaveQuietly, At, GameInv, GameTypes, Commands
<1>2. /\ cmd[s].pk \in Movable /\ at[cmd[s].pk] \in Room
      /\ cmd[s].pk \notin GlobalRow => RoomShard[at[cmd[s].pk]] = s
  BY <1>1, MessagingAssumption
     DEF CmdOK, Local, Own, Admits, ShardOf, GameInv, GameTypes, MessagingAssumption
<1>3. CASE Leave(s)
  <2> DEFINE c == [cmd[s] EXCEPT !.step = "move"]
  <2>1. /\ c \in Command /\ c.step = "move" /\ c.pk = cmd[s].pk
        /\ c.moves = cmd[s].moves /\ c.room = cmd[s].room
    BY <1>1 DEF Command
  <2>2. cmd' = [cmd EXCEPT ![s] = c] BY <1>3 DEF Leave, GoTo
  <2>3. idmap[s] \in SUBSET Movable /\ idmap[s] \subseteq Own(s)
    BY DEF GameInv, GameTypes, Instances
  <2>4. Loads
    <3>1. CASE UNCHANGED <<idmap, view>> BY <1>3, <3>1, NoLoads DEF Leave, game
    <3>2. CASE \E r \in Room : RoomShard[r] = s /\ Read(r, idmap[s])
      <4> PICK r \in Room : RoomShard[r] = s /\ Read(r, idmap[s]) BY <3>2
      <4>1. UNCHANGED <<at, gone>> BY <1>3 DEF Leave, game
      <4>2. QED BY <2>3, <4>1, ReadKept DEF GameInv, Loads
    <3>3. QED BY <1>2, <1>3, <3>1, <3>2 DEF Leave
  <2> HIDE DEF c
  <2>5. QED BY <1>1, <1>3, <2>1, <2>2, <2>4, GoOnOK DEF Leave
<1>4. CASE LeaveQuietly(s)
  <2> DEFINE c == [cmd[s] EXCEPT !.step = "move", !.quiet = TRUE]
  <2>1. /\ c \in Command /\ c.step = "move" /\ c.pk = cmd[s].pk
        /\ c.moves = cmd[s].moves /\ c.room = cmd[s].room
    BY <1>1 DEF Command
  <2>2. cmd' = [cmd EXCEPT ![s] = c] BY <1>4 DEF LeaveQuietly
  <2>3. Loads BY <1>4, NoLoads DEF LeaveQuietly, game
  <2> HIDE DEF c
  <2>4. QED BY <1>1, <1>4, <2>1, <2>2, <2>3, GoOnOK DEF LeaveQuietly
<1>5. QED BY <1>3, <1>4

(* A step that raises, and ends the command.                               *)
LEMMA RaisesOK ==
  ASSUME BusInv, GameInv, NEW s \in Shard,
         MoveRaises(s) \/ MoveRefused(s) \/ AnnounceRaises(s)
  PROVE  BusInv' /\ GameInv'
<1>1. Loads
  <2>1. CASE AnnounceRaises(s) BY <2>1, NoLoads DEF AnnounceRaises, game
  <2>2. CASE MoveRaises(s) \/ MoveRefused(s)
    <3> PICK evicted : idmap' = [idmap EXCEPT ![s] = @ \ evicted]
      BY <2>2 DEF MoveRaises, MoveRefused
    <3>1. UNCHANGED <<at, gone, view>> BY <2>2 DEF MoveRaises, MoveRefused, game
    <3>2. \A q \in Shard : Own(q)' = Own(q) BY <3>1 DEF Own, Admits, ShardOf
    <3>3. QED BY <3>1, <3>2 DEF Loads, GameInv, GameTypes, Instances, InView
  <2>3. QED BY <2>1, <2>2
<1>2. QED
  BY <1>1, DoneOK DEF MoveRaises, MoveRefused, AnnounceRaises, At, vars, cycle

LEMMA LookOK ==
  ASSUME BusInv, GameInv, NEW r \in Room, Look(r)
  PROVE  BusInv' /\ GameInv'
<1> DEFINE s == RoomShard[r]
<1>1. s \in Shard BY MessagingAssumption DEF MessagingAssumption
<1>2. cmd[s] = None /\ cmd \in [Shard -> Command \cup {None}]
  BY DEF Look, Idle, GameInv, GameTypes
<1>3. idmap[s] \in SUBSET Movable /\ idmap[s] \subseteq Own(s)
  BY <1>1 DEF GameInv, GameTypes, Instances
<1>4. Loads BY <1>3, ReadKept DEF Look, GameInv, Loads, game
<1>5. cmd' = [cmd EXCEPT ![s] = None] BY <1>2 DEF Look
<1> HIDE DEF s
<1>6. QED BY <1>1, <1>2, <1>4, <1>5, CommandOK DEF Look, vars, cycle
-----------------------------------------------------------------------------
(* Handlers.                                                               *)
LEMMA HandlerOK ==
  ASSUME BusInv, GameInv, NEW s \in Shard, NEW p \in inbox[s], Handle(s, p), ~Flush(p),
         UNCHANGED <<cmd, body, game>>, dropped' \subseteq dropped \cup {p}, Loads
  PROVE  BusInv' /\ GameInv'
<1>1. BusInv' BY HandleInv
<1>2. /\ p \in 1..Len(sent) /\ cmd[s] = None /\ UNCHANGED <<sent, loop>>
      /\ \A q \in Shard \ {s} : stage'[q] = stage[q]
      /\ \A q \in (1..Len(sent)) \ {p} : handled'[q] = handled[q]
  BY HandledRow
<1>3. /\ cmd' = [cmd EXCEPT ![s] = None] /\ dropped' \subseteq 1..Len(sent)
  BY <1>2 DEF GameInv, GameTypes
<1>4. GameInv' BY <1>2, <1>3, StaysInv DEF Loads
<1>5. QED BY <1>1, <1>4

LEMMA HandleObjOK ==
  ASSUME BusInv, GameInv, NEW s \in Shard, NEW p \in inbox[s], HandleObj(s, p)
  PROVE  BusInv' /\ GameInv'
<1>1. p \in 1..Len(sent) /\ TypeOK /\ GameTypes
  BY HandledRow DEF HandleObj, GameInv, BusInv
<1>2. body[p].pk \in Movable /\ ~Flush(p)
  BY <1>1, BodyTypes DEF HandleObj, Text, Flush
<1>3. Loads
  BY <1>2, GetKept DEF HandleObj, Loads, GameInv, GameTypes, InView, game
<1>4. QED BY <1>2, <1>3, HandlerOK DEF HandleObj

LEMMA HandleRoomOK ==
  ASSUME BusInv, GameInv, NEW s \in Shard, NEW p \in inbox[s], HandleRoom(s, p)
  PROVE  BusInv' /\ GameInv'
<1>1. /\ p \in 1..Len(sent) /\ TypeOK /\ GameTypes /\ Instances /\ BodyOK(p)
      /\ sent[p].to = s
  BY HandledRow DEF HandleRoom, GameInv, BusInv
<1>2. body[p].pk \in Movable /\ ~Flush(p)
  BY <1>1, BodyTypes DEF HandleRoom, Text, Flush
<1>3. body[p].room \in Room /\ RoomShard[body[p].room] = s
  BY <1>1 DEF BodyOK, HandleRoom, Arrival
<1>4. Got(s, body[p].pk) \in SUBSET Movable /\ Got(s, body[p].pk) \subseteq Own(s)
  BY <1>1, <1>2, GotKept
<1>5. Loads BY <1>1, <1>3, <1>4, ReadKept DEF HandleRoom, Loads, game
<1>6. QED BY <1>2, <1>5, HandlerOK DEF HandleRoom

(* The flush of room r has its effect: what it owed is paid, and nothing   *)
(* else changes.                                                           *)
LEMMA HandleFlushOK ==
  ASSUME BusInv, GameInv, NEW s \in Shard, NEW p \in inbox[s], HandleFlush(s, p)
  PROVE  BusInv' /\ GameInv'
<1> DEFINE r == body[p].room
<1>1. BusInv' BY HandleInv DEF HandleFlush
<1>2. /\ p \in 1..Len(sent) /\ cmd[s] = None /\ BodyOK(p) /\ UNCHANGED <<sent, loop>>
      /\ \A q \in Shard \ {s} : stage'[q] = stage[q]
      /\ \A q \in (1..Len(sent)) \ {p} : handled'[q] = handled[q]
  BY HandledRow DEF HandleFlush
<1>3. /\ GameTypes /\ Instances /\ Commands /\ Bodies /\ Announcers /\ Views /\ TypeOK
      /\ r \in Room
  BY <1>2 DEF GameInv, BusInv, BodyOK, Flush, HandleFlush
<1>4. GameTypes' BY <1>2, <1>3 DEF HandleFlush, GameTypes
<1>5. Instances' BY <1>3 DEF HandleFlush, Instances, Visible, Own, Admits, ShardOf
<1>6. RowsKept(s) BY <1>3, NoneMoved DEF HandleFlush
<1>7. Commands' BY <1>2, <1>3, <1>6, CommandsKept DEF HandleFlush
<1>8. Bodies' BY <1>2, <1>3, <1>6, BodiesKept DEF HandleFlush
<1>9. Announcers' BY <1>2, <1>3 DEF HandleFlush, Announcers, Arriving, At, Arrival
<1>10. Views'
  <2> SUFFICES ASSUME NEW x \in Movable PROVE InView(x)' \/ Explained(x)'
    BY DEF Views
  <2>1. CASE at[x] = r
    BY <1>3, <2>1 DEF HandleFlush, InView, GameTypes
  <2>2. CASE at[x] # r
    <3>1. InView(x) => InView(x)'
      BY <1>3, <2>2 DEF HandleFlush, InView, GameTypes
    <3>2. at[x] \in unsent => at[x] \in unsent' BY <2>2 DEF HandleFlush
    <3>3. Extended BY <1>2, SameExtended DEF HandleFlush
    <3>4. \A q \in 1..Len(sent) : Flush(q) /\ body[q].room = at[x] =>
            handled'[q] = handled[q]
      BY <1>2, <2>2
    <3>5. Explained(x) => Explained(x)'
      BY <3>2, <3>3, <3>4, ExplainedKept DEF HandleFlush
    <3>6. QED BY <1>3, <3>1, <3>5 DEF Views
  <2>3. QED BY <2>1, <2>2
<1>11. QED BY <1>1, <1>4, <1>5, <1>7, <1>8, <1>9, <1>10 DEF GameInv
-----------------------------------------------------------------------------
(* Senders.                                                                *)
LEMMA PostOK ==
  ASSUME BusInv, GameInv, NEW s \in Shard, NEW c \in Command \cup {None},
         NEW to \in Shard, to # s, NEW load \in Payload, Post(s, to, load),
         UNCHANGED <<faults, idmap, view, dropped, game>>,
         load.what \in {"obj_msg", "room_msg"} => load.moves <= moves[load.pk],
         load.what = "obj_msg" /\ load.moves = moves[load.pk] => load.pk \in Visible(to),
         load.what = "room_msg" =>
           /\ load.pk \notin GlobalRow
           /\ load.moves = moves[load.pk] => load.pk \notin gone,
         load.what \in {"room_msg", "flush"} =>
           load.room \in Room /\ to = RoomShard[load.room],
         cmd' = [cmd EXCEPT ![s] = c], c # None => CmdOK(s)',
         c # None => /\ At(s, "flush") /\ c.step = "announce"
                     /\ c.pk = cmd[s].pk /\ c.moves = cmd[s].moves,
         load.what = "room_msg" =>
           At(s, "announce") /\ load.pk = cmd[s].pk /\ load.moves = cmd[s].moves,
         At(s, "flush") => load.what = "flush" /\ load.room = cmd[s].room
  PROVE  BusInv' /\ GameInv'
<1> DEFINE row == Message("deliver", to, s, None)
<1>1. BusInv' BY PostInv, BusAssumption DEF Post, GameKind, BusAssumption
<1>2. row \in Row /\ row.kind = "deliver" /\ row.to = to
  BY DEF Message, Row, Kind, GameKind
<1>3. Appended(row, load) BY DEF Post, Insert, Appended
<1> HIDE DEF row
<1>4. PICK k : k = Len(sent) + 1 OBVIOUS
<1>5. sent'[k] = row /\ body'[k] = load /\ load # None
  BY <1>2, <1>3, <1>4, AppendedRow, MessagingAssumption DEF MessagingAssumption
<1>6. /\ moves' = moves /\ gone' = gone /\ \A q : Visible(q)' = Visible(q)
  BY DEF game, Visible, Own, Admits, ShardOf
<1>7. sent'[k].kind = "deliver" /\ sent'[k].to = to /\ body'[k] # None
  BY <1>2, <1>5
<1>8. body'[k] # None /\ body'[k].what = "obj_msg" /\ body'[k].moves = moves'[body'[k].pk]
        => body'[k].pk \in Visible(sent[k].to)'
  BY <1>5, <1>6, <1>7 DEF game, Visible, Own, Admits, ShardOf
<1>9. BodyOK(k)'
  BY <1>5, <1>6, <1>7, <1>8 DEF BodyOK, Text, Arrival, Flush
<1>10. \A q \in Shard : stage'[q] = stage[q] /\ loop'[q] = loop[q]
  BY DEF Post, cycle
<1>11. /\ load \in Payload \cup {None}
       /\ load # None /\ load.what = "room_msg" =>
            /\ At(s, "announce")
            /\ load.pk = cmd[s].pk /\ load.moves = cmd[s].moves
       /\ At(s, "flush") =>
            load # None /\ load.what = "flush" /\ load.room = cmd[s].room
  BY <1>5
<1>12. GameInv'
  BY <1>2, <1>3, <1>4, <1>9, <1>10, <1>11, PostedInv, ZenonT(60)
<1>13. QED BY <1>1, <1>12

LEMMA TellRemoteOK ==
  ASSUME BusInv, GameInv, NEW s \in Shard, TellRemote(s)
  PROVE  BusInv' /\ GameInv'
<1> DEFINE load == [what |-> "obj_msg", pk |-> cmd[s].pk, room |-> None,
                    moves |-> cmd[s].moves]
<1>1. /\ cmd[s] \in Command /\ CmdOK(s) /\ cmd[s].step = "tell"
      /\ ~Admits(s, cmd[s].shard)
  BY DEF TellRemote, GameInv, GameTypes, Commands
<1>2. load \in Payload /\ cmd[s].shard \in Shard /\ cmd[s].shard # s
  BY <1>1 DEF Payload, Command, Admits
<1>3. /\ load.what = "obj_msg" /\ load.moves <= moves[load.pk]
      /\ load.moves = moves[load.pk] => load.pk \in Visible(cmd[s].shard)
  BY <1>1 DEF CmdOK
<1>4. /\ cmd' = [cmd EXCEPT ![s] = None] /\ Post(s, cmd[s].shard, load)
      /\ UNCHANGED <<faults, idmap, view, dropped, game>> /\ ~At(s, "flush")
  BY <1>1 DEF TellRemote, Done, At
<1> HIDE DEF load
<1>5. QED BY <1>1, <1>2, <1>3, <1>4, PostOK

LEMMA SendFlushOK ==
  ASSUME BusInv, GameInv, NEW s \in Shard, SendFlush(s)
  PROVE  BusInv' /\ GameInv'
<1> DEFINE load == [what |-> "flush", room |-> cmd[s].room]
           to == RoomShard[cmd[s].room]
           c == IF cmd[s].quiet THEN None ELSE [cmd[s] EXCEPT !.step = "announce"]
<1>1. cmd[s] \in Command /\ cmd \in [Shard -> Command \cup {None}]
      /\ CmdOK(s) /\ At(s, "flush")
  BY DEF SendFlush, At, GameInv, GameTypes, Commands
<1>2. cmd[s].room \in Room /\ to # s /\ to \in Shard
  BY <1>1, MessagingAssumption DEF CmdOK, At, Foreign, MessagingAssumption
<1>3. load \in Payload /\ load.what = "flush" /\ load.room = cmd[s].room
  BY <1>2 DEF Payload
<1>4. /\ c \in Command \cup {None}
      /\ c # None => /\ c.step = "announce" /\ c.pk = cmd[s].pk
                     /\ c.moves = cmd[s].moves /\ c.room = cmd[s].room
  BY <1>1 DEF Command
<1>5. cmd' = [cmd EXCEPT ![s] = c] BY DEF SendFlush, AfterFlush, Done, GoTo
<1>6. /\ Post(s, to, load) /\ UNCHANGED <<faults, idmap, view, dropped, game>>
  BY DEF SendFlush
<1> HIDE DEF load, c, to
<1>7. cmd'[s] = c BY <1>1, <1>5
<1>8. c # None => CmdOK(s)'
  BY <1>1, <1>2, <1>4, <1>6, <1>7
     DEF CmdOK, At, Local, Foreign, Visible, Own, Admits, ShardOf, Post, cycle, game
<1>9. QED
  BY <1>1, <1>2, <1>3, <1>4, <1>5, <1>6, <1>8, PostOK DEF to

LEMMA AnnounceOK ==
  ASSUME BusInv, GameInv, NEW s \in Shard, Announce(s)
  PROVE  BusInv' /\ GameInv'
<1> DEFINE load == [what |-> "room_msg", pk |-> cmd[s].pk, room |-> cmd[s].room,
                    moves |-> cmd[s].moves]
           to == RoomShard[cmd[s].room]
<1>1. cmd[s] \in Command /\ CmdOK(s) /\ At(s, "announce") /\ ~At(s, "flush")
  BY DEF Announce, At, GameInv, GameTypes, Commands
<1>2. cmd[s].room \in Room /\ to # s /\ to \in Shard
  BY <1>1, MessagingAssumption DEF CmdOK, At, Foreign, MessagingAssumption
<1>3. /\ load \in Payload /\ load.what = "room_msg" /\ load.room = cmd[s].room
      /\ load.pk = cmd[s].pk /\ load.moves = cmd[s].moves
  BY <1>1, <1>2 DEF Payload, Command
<1>4. /\ load.moves <= moves[load.pk] /\ load.pk \notin GlobalRow
      /\ load.moves = moves[load.pk] => load.pk \notin gone
  BY <1>1, <1>3 DEF CmdOK, At
<1>5. /\ cmd' = [cmd EXCEPT ![s] = None] /\ Post(s, to, load)
      /\ UNCHANGED <<faults, idmap, view, dropped, game>>
  BY DEF Announce, TellRoom, Done
<1> HIDE DEF load, to
<1>6. QED BY <1>1, <1>2, <1>3, <1>4, <1>5, PostOK DEF to
-----------------------------------------------------------------------------
(* Rows move and vanish.                                                   *)
LEMMA MovedOK ==
  ASSUME BusInv, GameInv, NEW s \in Shard, NEW x \in Movable, Updatable(s, x),
         NEW d \in Room, NEW c \in Command \cup {None},
         at' = [at EXCEPT ![x] = d], moves' = [moves EXCEPT ![x] = @ + 1],
         idmap' = [idmap EXCEPT ![s] = @ \ {x}], cmd' = [cmd EXCEPT ![s] = c],
         UNCHANGED <<vars, gone, view, body, dropped, unsent>>, ~At(s, "flush"),
         c # None => CmdOK(s)', Announcers', Owes(x, s)'
  PROVE  BusInv' /\ GameInv'
<1>1. BusInv' BY BusStays DEF vars, cycle
<1>2. /\ GameTypes /\ Instances /\ Commands /\ Bodies /\ Views /\ TypeOK
      /\ cmd'[s] = c
      /\ \A q \in Shard \ {s} : cmd'[q] = cmd[q]
  BY DEF GameInv, GameTypes, BusInv
<1>3. GameTypes' BY <1>2 DEF GameTypes, vars
<1>5. RowsKept(s) BY <1>2, OneMoved
<1>4. Instances'
  <2>1. \A q \in Shard \ {s} : Own(q) \subseteq Own(q)' BY <1>5 DEF RowsKept, Own
  <2>2. Own(s) \ {x} \subseteq Own(s)'
    BY <1>2 DEF GameTypes, Own, Admits, ShardOf
  <2>3. QED BY <1>2, <2>1, <2>2 DEF GameTypes, Instances
<1>6. Commands' BY <1>2, <1>5, CommandsKept DEF vars, cycle
<1>7. Bodies' BY <1>2, <1>5, BodiesKept DEF vars
<1>8. Views'
  <2> SUFFICES ASSUME NEW y \in Movable PROVE InView(y)' \/ Explained(y)'
    BY DEF Views
  <2>1. CASE y = x BY <2>1 DEF Explained
  <2>2. CASE y # x
    <3>1. at'[y] = at[y] /\ moves'[y] = moves[y] BY <1>2, <2>2 DEF GameTypes
    <3>2. InView(y)' = InView(y) BY <3>1 DEF InView
    <3>3. \A q \in Shard : Owes(y, q) => cmd'[q] = cmd[q] BY <1>2 DEF Owes
    <3>4. Explained(y) => Explained(y)'
      BY <3>1, <3>3, SameExtended, ExplainedKept DEF vars
    <3>5. QED BY <1>2, <3>2, <3>4 DEF Views
  <2>3. QED BY <2>1, <2>2
<1>9. QED BY <1>1, <1>3, <1>4, <1>6, <1>7, <1>8 DEF GameInv

LEMMA VanishedOK ==
  ASSUME BusInv, GameInv, NEW x \in Movable, Vanish(x),
         idmap' \in [Shard -> SUBSET Movable], \A q \in Shard : idmap'[q] \subseteq idmap[q]
  PROVE  BusInv' /\ GameInv'
<1>1. BusInv' BY BusStays DEF Vanish, vars, cycle
<1>2. /\ GameTypes /\ Instances /\ Commands /\ Bodies /\ Announcers /\ Views /\ TypeOK
      /\ Global \notin Shard
  BY MessagingAssumption DEF GameInv, BusInv, MessagingAssumption
<1>3. /\ gone' = gone \cup {x} /\ moves' = [moves EXCEPT ![x] = @ + 1]
      /\ UNCHANGED <<vars, at, view, cmd, body, dropped, unsent>>
  BY DEF Vanish
<1>4. RowsKept(Global) /\ \A q : Own(q)' = Own(q)
  BY <1>2, <1>3, OneVanished
<1>5. GameTypes' BY <1>2, <1>3, <1>4 DEF GameTypes, RowsKept, vars
<1>6. Instances' BY <1>2, <1>4 DEF Instances
<1>7. Commands' BY <1>2, <1>3, <1>4, CommandsKept DEF vars, cycle
<1>8. Bodies' BY <1>2, <1>3, <1>4, BodiesKept DEF vars
<1>9. Announcers' BY <1>2, <1>3 DEF Announcers, Arriving, At, Arrival, vars
<1>10. Views'
  <2> SUFFICES ASSUME NEW y \in Movable PROVE InView(y)' \/ Explained(y)'
    BY DEF Views
  <2>1. CASE y = x BY <1>3, <2>1 DEF InView
  <2>2. CASE y # x
    <3>1. at'[y] = at[y] /\ moves'[y] = moves[y] BY <1>2, <1>3, <2>2 DEF GameTypes
    <3>2. InView(y) => InView(y)' BY <1>3, <2>2 DEF InView
    <3>3. Explained(y) => Explained(y)'
      BY <1>3, <3>1, SameExtended, ExplainedKept DEF vars
    <3>4. QED BY <1>2, <3>2, <3>3 DEF Views
  <2>3. QED BY <2>1, <2>2
<1>11. QED BY <1>1, <1>5, <1>6, <1>7, <1>8, <1>9, <1>10 DEF GameInv

LEMMA DeleteRowOK ==
  ASSUME BusInv, GameInv, NEW x \in Movable,
         RouterDelete(x) \/ \E s \in Shard : DeleteRow(s, x)
  PROVE  BusInv' /\ GameInv'
<1>1. /\ idmap' \in [Shard -> SUBSET Movable]
      /\ \A q \in Shard : idmap'[q] \subseteq idmap[q]
  BY DEF DeleteRow, RouterDelete, GameInv, GameTypes
<1>2. Vanish(x) BY DEF DeleteRow, RouterDelete
<1>3. QED BY <1>1, <1>2, VanishedOK

LEMMA MoveOK ==
  ASSUME BusInv, GameInv, NEW s \in Shard, Move(s)
  PROVE  BusInv' /\ GameInv'
<1> PICK x, d, c : x = cmd[s].pk /\ d = cmd[s].room
                   /\ c = [cmd[s] EXCEPT !.step = "flush", !.moves = @ + 1]
  OBVIOUS
<1>1. /\ cmd[s] \in Command /\ CmdOK(s) /\ cmd[s].step = "move"
      /\ GameTypes /\ Commands /\ Bodies /\ Announcers /\ TypeOK
      /\ cmd \in [Shard -> Command \cup {None}]
  BY DEF Move, At, GameInv, GameTypes, Commands, BusInv
<1>2. /\ d \in Room /\ cmd[s].moves = moves[x] /\ Foreign(s)
      /\ x \in Movable /\ moves[x] \in Nat
      /\ Updatable(s, x) /\ x \notin gone /\ x \notin GlobalRow
  BY <1>1, MessagingAssumption
     DEF Move, Updatable, CmdOK, Local, Command, GameTypes, ShardOf, MessagingAssumption
<1>3. /\ c \in Command /\ c.step = "flush" /\ c.pk = x /\ c.room = d
      /\ c.moves = moves[x] + 1
  <2>1. /\ c.step = "flush" /\ c.pk = x /\ c.room = d
        /\ c.moves = cmd[s].moves + 1
    BY <1>1 DEF Command
  <2>2. cmd[s].moves + 1 \in Nat BY <1>2
  <2>3. c \in Command BY <1>1, <2>2 DEF Command
  <2>4. QED BY <1>2, <2>1, <2>3
<1>4. /\ at' = [at EXCEPT ![x] = d] /\ moves' = [moves EXCEPT ![x] = @ + 1]
      /\ idmap' = [idmap EXCEPT ![s] = @ \ {x}]
      /\ cmd' = [cmd EXCEPT ![s] = c]
      /\ UNCHANGED <<vars, gone, view, body, dropped, unsent>> /\ ~At(s, "flush")
      /\ ~Arriving(s)
  BY <1>1 DEF Move, At, Arriving
<1>5. c # None BY <1>3, MessagingAssumption DEF MessagingAssumption
<1>6. RoomShard[d] # s BY <1>2 DEF Foreign
<1>7. /\ cmd'[s] = c /\ \A q \in Shard \ {s} : cmd'[q] = cmd[q]
      /\ moves'[x] = moves[x] + 1 /\ at'[x] = d
  BY <1>1, <1>2, <1>4 DEF GameTypes
<1>8. CmdOK(s)'
  <2>1. stage'[s] = "idle" /\ loop'[s] # "down"
    BY <1>1, <1>4 DEF CmdOK, vars, cycle
  <2>2. c.moves <= moves'[x] /\ moves'[x] \in Nat BY <1>2, <1>3, <1>7
  <2>3. ~Local(s)' BY <1>3, <1>7 DEF Local
  <2>4. Foreign(s)' BY <1>3, <1>6, <1>7 DEF Foreign
  <2>5. QED BY <1>2, <1>3, <1>4, <1>7, <2>1, <2>2, <2>3, <2>4 DEF CmdOK
<1>9. Owes(x, s)' BY <1>3, <1>5, <1>7 DEF Owes, At
<1>10. Announcers'
  <2>1. ASSUME NEW q \in Shard \ {s}, cmd[q] # None
        PROVE  cmd[q].pk # x \/ cmd[q].moves # c.moves
    <3>1. CmdOK(q) /\ cmd[q].moves \in Nat
      BY <1>1, <2>1 DEF Commands, GameTypes, Command
    <3>2. QED BY <1>2, <1>3, <3>1 DEF CmdOK
  <2>2. ASSUME NEW p \in 1..Len(sent), Arrival(p)
        PROVE  body[p].pk # x \/ body[p].moves # c.moves
    <3>1. BodyOK(p) BY <1>1 DEF Bodies
    <3>2. Text(p) BY <2>2 DEF Arrival, Text
    <3>3. body[p].moves \in Nat BY <1>1, <3>2, BodyTypes
    <3>4. QED BY <1>2, <1>3, <3>1, <3>2, <3>3 DEF BodyOK
  <2>3. ASSUME NEW q \in Shard
        PROVE  /\ Arriving(q)' <=> q = s \/ Arriving(q)
               /\ At(q, "flush")' <=> q = s \/ At(q, "flush")
               /\ Arriving(q) => cmd[q] # None /\ q # s
    BY <1>3, <1>4, <1>5, <1>7 DEF Arriving, At
  <2>4. \A p : Arrival(p)' = Arrival(p) BY <1>4 DEF Arrival
  <2>5. ASSUME NEW a \in Shard, NEW q \in Shard, Arriving(a)', Arriving(q)', a # q
        PROVE  cmd'[a].pk # cmd'[q].pk \/ cmd'[a].moves # cmd'[q].moves
    <3>1. CASE a = s BY <1>3, <1>7, <2>1, <2>3, <2>5, <3>1
    <3>2. CASE q = s BY <1>3, <1>7, <2>1, <2>3, <2>5, <3>2
    <3>3. CASE a # s /\ q # s
      BY <1>1, <1>7, <2>3, <2>5, <3>3 DEF Announcers
    <3>4. QED BY <3>1, <3>2, <3>3
  <2>6. ASSUME NEW q \in Shard, NEW p \in 1..Len(sent), At(q, "flush")', Arrival(p)
        PROVE  cmd'[q].pk # body[p].pk \/ cmd'[q].moves # body[p].moves
    <3>1. CASE q = s BY <1>3, <1>7, <2>2, <2>6, <3>1
    <3>2. CASE q # s BY <1>1, <1>7, <2>3, <2>6, <3>2 DEF Announcers
    <3>3. QED BY <3>1, <3>2
  <2>7. UNCHANGED <<sent, body>> BY <1>4 DEF vars
  <2>8. QED BY <2>4, <2>5, <2>6, <2>7 DEF Announcers
<1>11. QED BY <1>2, <1>3, <1>4, <1>8, <1>9, <1>10, MovedOK
(* A row goes to another room of its shard.                                *)
LEMMA VanillaOK ==
  ASSUME BusInv, GameInv, NEW s \in Shard, Vanilla(s)
  PROVE  BusInv' /\ GameInv'
<1> PICK x, d : x = cmd[s].pk /\ d = cmd[s].room
  OBVIOUS
<1>1. /\ cmd[s] \in Command /\ CmdOK(s) /\ cmd[s].step = "func"
      /\ GameTypes /\ Instances /\ Commands /\ Bodies /\ Announcers /\ Views
      /\ TypeOK /\ ~At(s, "flush")
  BY DEF Vanilla, At, GameInv, GameTypes, Commands, BusInv
<1>2. d \in Room /\ x \in Own(s) /\ RoomShard[d] = s /\ x \in Movable
  BY <1>1 DEF CmdOK, Local, Command, Vanilla, Foreign
<1>3. /\ cmd' = [cmd EXCEPT ![s] = None]
      /\ UNCHANGED <<vars, gone, idmap, body, moves, dropped, unsent>>
  BY DEF Vanilla, Done
<1>14. CASE UNCHANGED <<at, view>>
  <2>1. Loads BY <1>3, <1>14, NoLoads
  <2>2. Done(s) /\ UNCHANGED <<vars, body, dropped, game>>
    BY <1>3, <1>14 DEF Done, game
  <2>3. QED BY <1>1, <2>1, <2>2, DoneOK DEF vars, cycle
<1>15. CASE /\ at' = [at EXCEPT ![x] = d]
            /\ IF x \in gone \/ at[x] = d THEN UNCHANGED view
               ELSE view' = [r \in Room |->
                               IF view[r] = Unset \/ RoomShard[r] # s THEN view[r]
                               ELSE IF r = d THEN view[r] \cup {x} ELSE view[r] \ {x}]
  <2>1. BusInv' BY <1>3, BusStays DEF vars, cycle
  <2>2. RowsKept(s) /\ \A q \in Shard : Own(q)' = Own(q)
    BY <1>1, <1>2, <1>3, <1>15, OneShifted
  <2>3. GameTypes'
    <3>1. view' \in [Room -> (SUBSET Movable) \cup {Unset}]
      <4>1. \A r \in Room : view[r] # Unset => view[r] \in SUBSET Movable
        BY <1>1 DEF GameTypes
      <4>2. QED BY <1>1, <1>2, <1>15, <4>1 DEF GameTypes
    <3>2. QED BY <1>1, <1>2, <1>3, <1>15, <3>1 DEF GameTypes, vars
  <2>4. Instances' BY <1>1, <1>3, <2>2 DEF Instances, GameTypes
  <2>5. cmd'[s] = None /\ \A q \in Shard \ {s} : cmd'[q] = cmd[q]
    BY <1>1, <1>3 DEF GameTypes
  <2>6. Commands' BY <1>1, <1>3, <2>2, <2>5, CommandsKept DEF vars, cycle
  <2>7. Bodies' BY <1>1, <1>3, <2>2, BodiesKept DEF vars
  <2>8. Announcers'
    <3>1. ~Arriving(s)' BY <2>5 DEF Arriving, At
    <3>2. \A p : Arrival(p)' = Arrival(p) BY <1>3 DEF Arrival
    <3>3. QED BY <1>1, <1>3, <2>5, <3>1, <3>2, AnnouncersKept DEF vars
  <2>9. Views'
    <3> SUFFICES ASSUME NEW y \in Movable PROVE InView(y)' \/ Explained(y)'
      BY DEF Views
    <3>1. CASE y \in gone BY <1>3, <3>1 DEF InView
    <3>2. CASE y = x /\ y \notin gone /\ at[x] # d
      <4>1. at'[y] = d BY <1>1, <1>2, <1>15, <3>2 DEF GameTypes
      <4>2. view'[d] = Unset \/ x \in view'[d] BY <1>2, <1>15, <3>2
      <4>3. QED BY <3>2, <4>1, <4>2 DEF InView
    <3>3. CASE y \notin gone /\ (y # x \/ at[x] = d)
      <4>1. at'[y] = at[y] /\ at[y] \in Room
        BY <1>1, <1>2, <1>15, <3>3 DEF GameTypes
      <4>2. InView(y) => InView(y)'
        <5>1. CASE view' = view BY <1>3, <4>1, <5>1 DEF InView
        <5>2. CASE y # x BY <1>3, <1>15, <3>3, <4>1, <5>2 DEF InView
        <5>3. QED BY <1>15, <3>3, <5>1, <5>2
      <4>3. \A q \in Shard : Owes(y, q) => cmd'[q] = cmd[q] BY <1>1, <2>5 DEF Owes
      <4>4. Explained(y) => Explained(y)'
        BY <1>3, <4>1, <4>3, SameExtended, ExplainedKept DEF vars
      <4>5. QED BY <1>1, <4>2, <4>4 DEF Views
    <3>4. QED BY <3>1, <3>2, <3>3
  <2>10. QED BY <2>1, <2>3, <2>4, <2>6, <2>7, <2>8, <2>9 DEF GameInv
<1>16. QED BY <1>14, <1>15 DEF Vanilla

-----------------------------------------------------------------------------
(* A flush is not sent.                                                    *)

(* Instances may go, with what rooms have cached of rows that are there;   *)
(* the command on s, if it owes a flush, never sends it.                   *)
LEMMA UnsentOK ==
  ASSUME BusInv, GameInv, NEW s \in Shard, NEW c \in Command \cup {None},
         UNCHANGED <<sent, handled, body, dropped, at, gone, moves>>,
         \A q \in Shard \ {s} : stage'[q] = stage[q] /\ loop'[q] = loop[q],
         idmap' \in [Shard -> SUBSET Movable], \A q \in Shard : idmap'[q] \subseteq idmap[q],
         view' \in [Room -> (SUBSET Movable) \cup {Unset}],
         unsent' \subseteq Room, At(s, "flush") => cmd[s].room \in unsent',
         \A r \in Room : /\ view'[r] = Unset \/ view'[r] = view[r]
                         /\ r \in unsent => view'[r] = Unset \/ r \in unsent',
         cmd' = [cmd EXCEPT ![s] = c], c # None => CmdOK(s)',
         c # None => /\ At(s, "flush") /\ c.step = "announce"
                     /\ c.pk = cmd[s].pk /\ c.moves = cmd[s].moves
  PROVE  GameInv'
<1>1. /\ GameTypes /\ Instances /\ Commands /\ Bodies /\ Announcers /\ Views /\ TypeOK
      /\ cmd'[s] = c
      /\ \A q \in Shard \ {s} : cmd'[q] = cmd[q]
  BY DEF GameInv, GameTypes, BusInv
<1>2. GameTypes' BY <1>1 DEF GameTypes
<1>3. Instances'
  <2>1. \A q \in Shard : Own(q)' = Own(q) BY DEF Own, Admits, ShardOf
  <2>2. QED BY <1>1, <2>1 DEF Instances
<1>4. RowsKept(s) BY <1>1, NoneMoved
<1>5. Commands' BY <1>1, <1>4, CommandsKept
<1>6. Bodies' BY <1>1, <1>4, BodiesKept
<1>7. Announcers'
  <2>1. Arriving(s)' =>
          /\ Arriving(s) /\ cmd'[s].pk = cmd[s].pk /\ cmd'[s].moves = cmd[s].moves
          /\ At(s, "flush")' => At(s, "flush")
    BY <1>1 DEF Arriving, At
  <2>2. \A p : Arrival(p)' = Arrival(p) BY DEF Arrival
  <2>3. QED BY <1>1, <2>1, <2>2, AnnouncersKept
<1>8. Views'
  <2> SUFFICES ASSUME NEW x \in Movable PROVE InView(x)' \/ Explained(x)'
    BY DEF Views
  <2>1. at[x] \in Room BY <1>1 DEF GameTypes
  <2>2. InView(x) => InView(x)' BY <2>1 DEF InView
  <2>3. CASE view'[at[x]] = Unset BY <2>3 DEF InView
  <2>4. CASE Owes(x, s) BY <2>4 DEF Owes, Explained
  <2>5. CASE view'[at[x]] # Unset /\ ~Owes(x, s)
    <3>1. \A q \in Shard : Owes(x, q) => cmd'[q] = cmd[q] BY <1>1, <2>5
    <3>2. Explained(x) => Explained(x)'
      BY <2>1, <2>5, <3>1, SameExtended, ExplainedKept
    <3>3. QED BY <1>1, <2>2, <3>2 DEF Views
  <2>6. QED BY <2>3, <2>4, <2>5
<1>9. QED BY <1>2, <1>3, <1>5, <1>6, <1>7, <1>8 DEF GameInv

LEMMA FlushFailsOK ==
  ASSUME BusInv, GameInv, NEW s \in Shard, FlushFails(s)
  PROVE  BusInv' /\ GameInv'
<1> PICK c : c = IF cmd[s].quiet THEN None ELSE [cmd[s] EXCEPT !.step = "announce"]
  OBVIOUS
<1>1. /\ cmd[s] \in Command /\ cmd \in [Shard -> Command \cup {None}]
      /\ CmdOK(s) /\ At(s, "flush") /\ GameTypes
  BY DEF FlushFails, At, GameInv, GameTypes, Commands
<1>2. BusInv' BY BusStays DEF FlushFails
<1>3. /\ c \in Command \cup {None}
      /\ c # None => /\ c.step = "announce" /\ c.pk = cmd[s].pk
                     /\ c.moves = cmd[s].moves /\ c.room = cmd[s].room
  BY <1>1 DEF Command
<1>4. cmd' = [cmd EXCEPT ![s] = c] /\ cmd'[s] = c
  BY <1>1 DEF FlushFails, AfterFlush, Done, GoTo
<1>5. c # None => CmdOK(s)'
  BY <1>1, <1>3, <1>4
     DEF FlushFails, CmdOK, At, Local, Foreign, Visible, Own, Admits, ShardOf, cycle
<1>6. cmd[s].room \in Room BY <1>1 DEF CmdOK, At
<1>7. /\ \A q \in Shard \ {s} : stage'[q] = stage[q] /\ loop'[q] = loop[q]
      /\ UNCHANGED <<sent, handled, body, dropped, at, gone, moves, idmap, view>>
      /\ unsent' = unsent \cup {cmd[s].room}
  BY DEF FlushFails, cycle
<1>8. /\ idmap' \in [Shard -> SUBSET Movable]
      /\ view' \in [Room -> (SUBSET Movable) \cup {Unset}]
      /\ unsent' \subseteq Room
  BY <1>1, <1>6, <1>7 DEF GameTypes
<1>9. GameInv' BY <1>1, <1>3, <1>4, <1>5, <1>7, <1>8, UnsentOK
<1>10. QED BY <1>2, <1>9

LEMMA CrashOK ==
  ASSUME BusInv, GameInv, NEW s \in Shard, TeleportCrash(s)
  PROVE  BusInv' /\ GameInv'
<1>1. GameTypes /\ TypeOK BY DEF GameInv, BusInv
<1>2. BusInv' BY AbandonInv DEF TeleportCrash, Crash
<1>3. /\ \A q \in Shard \ {s} : stage'[q] = stage[q] /\ loop'[q] = loop[q]
      /\ UNCHANGED <<sent, handled, body, dropped, at, gone, moves>>
  BY <1>1 DEF TeleportCrash, Crash, Abandon, TypeOK
<1>4. cmd' = [cmd EXCEPT ![s] = None] BY DEF TeleportCrash, Done
<1>5. /\ idmap' \in [Shard -> SUBSET Movable]
      /\ \A q \in Shard : idmap'[q] \subseteq idmap[q]
  BY <1>1 DEF TeleportCrash, GameTypes
<1>6. /\ view' \in [Room -> (SUBSET Movable) \cup {Unset}]
      /\ \A r \in Room : view'[r] = IF RoomShard[r] = s THEN Unset ELSE view[r]
  BY <1>1 DEF TeleportCrash, GameTypes
<1>7. At(s, "flush") => cmd[s].room \in Room
  BY DEF GameInv, Commands, CmdOK, At
<1>8. /\ unsent' \subseteq Room /\ (At(s, "flush") => cmd[s].room \in unsent')
      /\ \A r \in Room : r \in unsent => RoomShard[r] = s \/ r \in unsent'
  BY <1>1, <1>7 DEF TeleportCrash, GameTypes
<1>9. GameInv' BY <1>3, <1>4, <1>5, <1>6, <1>8, UnsentOK
<1>10. QED BY <1>2, <1>9
-----------------------------------------------------------------------------
TeleportInv == BusInv /\ GameInv

LEMMA CommandStepOK ==
  ASSUME TeleportInv, NEW s \in Shard, CommandStep(s)
  PROVE  TeleportInv'
BY TellLocalOK, TellRemoteOK, FoundHereOK, FoundElsewhereOK, VanillaOK, LeaveOK,
   MoveOK, RaisesOK, SendFlushOK, FlushFailsOK, AnnounceOK
   DEF CommandStep, TellStep, TeleportInv

LEMMA InboxStepOK ==
  ASSUME TeleportInv, NEW s \in Shard, InboxStep(s)
  PROVE  TeleportInv'
BY PollOK, HandleObjOK, HandleRoomOK, HandleFlushOK, ReplyHandled, HandlerRaisesOK,
   ReplyOK, DeleteOK
   DEF InboxStep, TeleportInv, Idles

LEMMA TeleportStepInv == TeleportInv /\ [TeleportNext]_mvars => TeleportInv'
<1> SUFFICES ASSUME TeleportInv, [TeleportNext]_mvars PROVE TeleportInv'
  OBVIOUS
<1>1. CASE UNCHANGED mvars
  <2>1. UNCHANGED <<vars, idmap, view, cmd, body, dropped, game>>
    BY <1>1 DEF mvars, game
  <2>2. BusInv' BY <2>1, BusStays DEF TeleportInv, vars, cycle
  <2>3. GameInv' BY <2>1, BusOnly DEF TeleportInv, vars, cycle
  <2>4. QED BY <2>2, <2>3 DEF TeleportInv
<1>2. CASE \E x \in Movable : RouterDelete(x) \/ \E s \in Shard : DeleteRow(s, x)
  BY <1>2, DeleteRowOK DEF TeleportInv
<1>3. CASE \E s \in Shard, x \in Movable : Tell(s, x)
  BY <1>3, TellOK DEF TeleportInv
<1>4. CASE \E s \in Shard, x \in Movable, d \in Dest : Search(s, x, d) \/ SearchSelf(s, x, d)
  BY <1>4, SearchOK, SearchSelfOK, TeleportAssumption DEF TeleportInv, TeleportAssumption
<1>5. CASE \E s \in Shard : CommandStep(s) BY <1>5, CommandStepOK
<1>6. CASE \E s \in Shard : InboxStep(s) BY <1>6, InboxStepOK
<1>7. CASE \E s \in Shard : /\ Raise(s) \/ Restart(s)
                            /\ cmd[s] = None
                            /\ UNCHANGED <<idmap, view, cmd, body, dropped, game>>
  BY <1>7, AbandonOK DEF TeleportInv, Idles
<1>8. CASE \E s \in Shard : TeleportCrash(s) BY <1>8, CrashOK DEF TeleportInv
<1>9. CASE \E r \in Room : Look(r) BY <1>9, LookOK DEF TeleportInv
<1>10. CASE \E p \in table : /\ Expire(p)
                             /\ UNCHANGED <<idmap, view, cmd, body, dropped, game>>
  BY <1>10, ExpireOK DEF TeleportInv, Idles
<1>11. QED
  BY <1>1, <1>2, <1>3, <1>4, <1>5, <1>6, <1>7, <1>8, <1>9, <1>10 DEF TeleportNext

LEMMA TeleportInitInv == MessagingInit => TeleportInv
<1> SUFFICES ASSUME MessagingInit PROVE TeleportInv
  OBVIOUS
<1>1. BusInv BY InitInv DEF MessagingInit
<1>2. /\ Len(sent) = 0 /\ 1..Len(sent) = {} /\ Len(body) = 0
      /\ body \in Seq(Payload \cup {None})
  BY EmptySeq DEF MessagingInit, Init
<1>3. PICK start \in Starts : at = start.at /\ gone = start.gone
  BY Zenon DEF MessagingInit
<1>4. at \in [Movable -> Room] /\ gone \subseteq Movable
  BY <1>3, MessagingAssumption DEF MessagingAssumption
<1>5. GameTypes BY <1>2, <1>4 DEF MessagingInit, GameTypes
<1>6. Instances /\ Commands BY DEF MessagingInit, Instances, Commands
<1>7. Views BY <1>4 DEF MessagingInit, Views, InView
<1>8. Bodies /\ Announcers
  BY <1>2 DEF MessagingInit, Bodies, Announcers, Arriving, At
<1>9. QED BY <1>1, <1>5, <1>6, <1>7, <1>8 DEF TeleportInv, GameInv

LEMMA AlwaysTeleportInv == TeleportSpec => []TeleportInv
BY TeleportInitInv, TeleportStepInv, PTL DEF TeleportSpec

-----------------------------------------------------------------------------
(* No process ever holds an instance of a row that is another shard's,     *)
(* through moves, refused ones included, reads of other shards, crashes,   *)
(* deletions by other processes and messages that come too late.           *)
THEOREM NoForeignInstances == TeleportSpec => []MessagingTypeOK
<1>1. TeleportInv => MessagingTypeOK
  BY DEF TeleportInv, GameInv, GameTypes, Instances, MessagingTypeOK
<1>2. QED BY <1>1, AlwaysTeleportInv, PTL

(* What a command has found on its shard is not taken to another shard     *)
(* until the command has done with it, although any process that sees the  *)
(* row, and the router, may delete it meanwhile: a row that is still there *)
(* has not moved.                                                          *)
THEOREM FoundStaysFound == TeleportSpec => []LocalStaysLocal
<1>1. TeleportInv => LocalStaysLocal
  BY DEF TeleportInv, GameInv, Commands, CmdOK, Local, LocalStaysLocal
<1>2. QED BY <1>1, AlwaysTeleportInv, PTL

(* The promises of the bus survive its composition with commands and with  *)
(* handlers that change the game.                                          *)
THEOREM BusKeepsPromises ==
  TeleportSpec => [](NothingLost /\ SoleConsumer /\ OneOutcome /\ NoReplyToReply)
<1>1. TeleportInv => NothingLost /\ SoleConsumer /\ OneOutcome /\ NoReplyToReply
  BY DEF TeleportInv, BusInv, Counts, OneOutcome, Rows, RowOK, NoReplyToReply
<1>2. QED BY <1>1, AlwaysTeleportInv, PTL
-----------------------------------------------------------------------------
(* Only a handler acts on a row.                                           *)
Acts(s, p) ==
  HandleObj(s, p) \/ HandleRoom(s, p) \/ HandleFlush(s, p) \/ HandleReply(s, p)

LEMMA InsertCounts ==
  ASSUME BusInv, handled' = Append(handled, 0), NEW p \in 1..Len(sent)
  PROVE  handled'[p] = handled[p]
<1>1. Len(sent) \in Nat /\ handled \in [1..Len(sent) -> Nat]
  BY LenProperties DEF BusInv, TypeOK
<1>2. QED BY <1>1, AppendCount

NobodyActs ==
  dropped' = dropped /\ \A p \in 1..Len(sent) : handled'[p] = handled[p]

LEMMA CommandCounts ==
  ASSUME BusInv, NEW s \in Shard, CommandStep(s)
  PROVE  NobodyActs
<1>1. CASE UNCHANGED <<handled, dropped>> BY <1>1 DEF NobodyActs
<1>2. CASE TellRemote(s) \/ SendFlush(s) \/ Announce(s)
  <2>1. handled' = Append(handled, 0) /\ dropped' = dropped
    BY <1>2 DEF TellRemote, SendFlush, Announce, TellRoom, Post, Insert
  <2>2. QED BY <2>1, InsertCounts DEF NobodyActs
<1>3. QED
  BY <1>1, <1>2
     DEF CommandStep, TellStep, TellLocal, FoundHere, FoundElsewhere, Vanilla, Refuse,
         Leave, LeaveQuietly, Move, MoveRefused, MoveRaises, FlushFails, AnnounceRaises,
         vars

OneActs(s) ==
  \E q \in inbox[s] :
    Acts(s, q) /\ \A p \in (1..Len(sent)) \ {q} : handled'[p] = handled[p]

LEMMA OnlyHandlersAct ==
  ASSUME TeleportInv, TeleportNext
  PROVE  NobodyActs \/ \E s \in Shard : OneActs(s)
<1>1. ASSUME NEW s \in Shard, InboxStep(s)
      PROVE  NobodyActs \/ OneActs(s)
  <2>1. ASSUME UNCHANGED <<handled, dropped>> PROVE NobodyActs
    BY <2>1 DEF NobodyActs
  <2>2. ASSUME Reply(s), UNCHANGED dropped PROVE NobodyActs
    <3>1. handled' = Append(handled, 0) \/ handled' = handled
      BY <2>2 DEF Reply, Insert
    <3>2. QED BY <2>2, <3>1, InsertCounts DEF TeleportInv, NobodyActs
  <2>3. ASSUME NEW q \in inbox[s], Acts(s, q)
        PROVE  \A p \in (1..Len(sent)) \ {q} : handled'[p] = handled[p]
    <3>1. Handle(s, q)
      BY <2>3 DEF Acts, HandleObj, HandleRoom, HandleFlush, HandleReply
    <3>2. QED BY <3>1, HandledRow DEF TeleportInv
  <2>4. \/ UNCHANGED <<handled, dropped>>
        \/ Reply(s) /\ UNCHANGED dropped
        \/ \E q \in inbox[s] : Acts(s, q)
    <3>1. CASE \E q \in inbox[s] : HandlerRaises(s, q) BY <3>1 DEF HandlerRaises
    <3>2. CASE Poll(s) /\ UNCHANGED dropped BY <3>2 DEF Poll
    <3>3. CASE Delete(s) /\ UNCHANGED dropped BY <3>3 DEF Delete
    <3>4. QED BY <1>1, <3>1, <3>2, <3>3 DEF InboxStep, Acts
  <2>5. ASSUME \E q \in inbox[s] : Acts(s, q)
        PROVE  OneActs(s)
    <3> PICK q \in inbox[s] : Acts(s, q) BY <2>5
    <3>1. \A p \in (1..Len(sent)) \ {q} : handled'[p] = handled[p] BY <2>3
    <3>2. QED BY <3>1 DEF OneActs
  <2>6. QED BY <2>1, <2>2, <2>4, <2>5
<1>2. ASSUME NEW s \in Shard, CommandStep(s) PROVE NobodyActs
  BY <1>2, CommandCounts DEF TeleportInv
<1>3. CASE UNCHANGED <<handled, dropped>> BY <1>3 DEF NobodyActs
<1>4. QED
  BY <1>1, <1>2, <1>3
     DEF TeleportNext, DeleteRow, RouterDelete, Vanish, Tell, Search, SearchSelf, Raise, Restart, Abandon,
         TeleportCrash, Crash, Look, Expire, vars

(* The silent drop of a handler never hides a misrouted message: whatever  *)
(* crosses the message on its way, a row that it does not find has moved   *)
(* or was deleted after the sender had read where it was.                  *)
THEOREM DropsAreExplained == TeleportSpec => DroppedOnlyIfMoved
<1> DEFINE Explains ==
      \A p \in dropped' \ dropped : moves[body[p].pk] # body[p].moves
<1>1. TeleportInv /\ [TeleportNext]_mvars => [Explains]_mvars
  <2> SUFFICES ASSUME TeleportInv, TeleportNext, NEW p \in dropped' \ dropped
               PROVE  moves[body[p].pk] # body[p].moves
    OBVIOUS
  <2> PICK s \in Shard : \E q \in inbox[s] : Acts(s, q)
    BY OnlyHandlersAct DEF NobodyActs, OneActs
  <2> PICK q \in inbox[s] : Acts(s, q) OBVIOUS
  <2>1. HandleObj(s, q) /\ q = p /\ body[p].pk \notin Visible(s)
    BY DEF Found, Got, Acts, HandleObj, HandleRoom, HandleFlush, HandleReply
  <2>2. BodyOK(p) /\ sent[p].to = s
    BY <2>1, HandledRow DEF HandleObj, TeleportInv
  <2>3. QED BY <2>1, <2>2 DEF BodyOK, HandleObj
<1>2. QED BY <1>1, AlwaysTeleportInv, PTL DEF TeleportSpec, DroppedOnlyIfMoved

(* Whoever is told of an arrival sees who arrives: the flush of a move is  *)
(* sent before its text and polled before it, so that only a flush that    *)
(* was lost with its process, or whose handler raised, lets the text pass. *)
THEOREM ArrivalsAreSeen == TeleportSpec => ArrivalSeen
<1> DEFINE Shown ==
      \A p \in 1..Len(sent) :
        (body[p] # None /\ body[p].what = "room_msg" /\ handled'[p] # handled[p]) =>
          \/ body[p].pk \in view'[body[p].room]
          \/ at[body[p].pk] # body[p].room \/ moves[body[p].pk] # body[p].moves
          \/ body[p].room \in unsent
          \/ Overtaken(p)
<1>1. TeleportInv /\ [TeleportNext]_mvars => [Shown]_mvars
  <2> SUFFICES ASSUME TeleportInv, TeleportNext, NEW p \in 1..Len(sent), Arrival(p),
                      handled'[p] # handled[p], NEW x, x = body[p].pk,
                      NEW r, r = body[p].room, at[x] = r, moves[x] = body[p].moves,
                      r \notin unsent
               PROVE  x \in view'[r] \/ Overtaken(p)
    BY DEF Arrival
  <2> PICK s \in Shard : p \in inbox[s] /\ Acts(s, p)
    BY OnlyHandlersAct DEF NobodyActs, OneActs
  <2>6. HandleRoom(s, p)
    BY DEF Acts, Arrival, HandleObj, HandleFlush, HandleReply
  <2>1. /\ BusInv /\ GameInv /\ GameTypes /\ Instances /\ Bodies /\ Announcers /\ Views
        /\ TypeOK
    BY DEF TeleportInv, GameInv, BusInv
  <2>2. /\ x \in Movable \ (gone \cup GlobalRow) /\ r \in Room /\ RoomShard[r] = s
    <3>1. BodyOK(p) /\ sent[p].to = s BY <2>1, <2>6, HandledRow DEF HandleRoom
    <3>2. Text(p) BY DEF Arrival, Text
    <3>3. QED BY <2>1, <3>1, <3>2, BodyTypes DEF BodyOK
  <2>3. CASE InView(x)
    <3>1. Got(s, x) \in SUBSET Movable /\ Got(s, x) \subseteq Own(s)
      BY <2>1, <2>2, GotKept
    <3>2. Read(r, Got(s, x)) /\ UNCHANGED <<at, gone>> BY <2>6 DEF HandleRoom, game
    <3>3. QED BY <2>1, <2>2, <2>3, <3>1, <3>2, ReadKept
  <2>4. CASE Explained(x)
    <3>1. ~\E q \in Shard : Owes(x, q)
      BY <2>1 DEF Announcers, Owes
    <3> PICK q \in 1..Len(sent) : FlushFirst(x, q) BY <2>4, <3>1 DEF Explained
    <3>2. q < p BY DEF FlushFirst
    <3>3. q \in 1..(p - 1) BY <3>2
    <3>4. QED BY <3>3 DEF FlushFirst, Flush, Overtaken
  <2>5. QED BY <2>1, <2>2, <2>3, <2>4 DEF Views
<1>2. QED BY <1>1, AlwaysTeleportInv, PTL DEF TeleportSpec, ArrivalSeen
=============================================================================
