-------------------------- MODULE MessageBusProofs --------------------------
(***************************************************************************)
(* Theorems about MessageBus for every set of shards, every bound on what  *)
(* game code sends and any number of crashes and exceptions.               *)
(***************************************************************************)
EXTENDS MessageBus, SequenceTheorems, TLAPS

(* A row is never addressed to its own sender, and an answer is about an   *)
(* earlier row that game code sent.                                        *)
RowOK(p) ==
  /\ sent[p].to # sent[p].from
  /\ sent[p].about # None =>
       sent[p].about \in 1..Len(sent) /\ sent[sent[p].about].kind \in Deferrable

Rows == \A p \in 1..Len(sent) : RowOK(p)

(* What each stage of process_inbox knows of the row whose turn it is.     *)
StageOK(s) ==
  /\ loop[s] # "running" => stage[s] = "idle"
  /\ stage[s] = "idle" => inbox[s] = {}
  /\ stage[s] \in {"idle", "handle"} => cur[s] = None
  /\ stage[s] \in {"reply", "delete"} =>
       cur[s] \in 1..Len(sent) /\ cur[s] \notin inbox[s]
  /\ stage[s] = "reply" => sent[cur[s]].kind \in Deferrable
  /\ stage[s] = "delete" =>
       \/ handled[cur[s]] > 0 \/ bounced[cur[s]] > 0
       \/ sent[cur[s]].from = None

Stages == \A s \in Shard : StageOK(s)

(* The row has had its outcome and its delete comes next.                  *)
Settling(p) == \E s \in Shard : stage[s] = "delete" /\ cur[s] = p

(* A row that can still be taken up has had one outcome less than one that *)
(* is gone or about to go.                                                 *)
Counts ==
  \A p \in 1..Len(sent) :
    /\ handled[p] + bounced[p] <= 1 + faults
    /\ p \in table /\ ~Settling(p) => handled[p] + bounced[p] <= faults

BusInv == TypeOK /\ Rows /\ Stages /\ SoleConsumer /\ NothingLost /\ Counts

-----------------------------------------------------------------------------
(* At most one new row joins those that are there, and the counts of these *)
(* become nh and nb: all that an insert, or its absence, means to BusInv.  *)
More(nh, nb) ==
  /\ Len(sent) \in Nat /\ Len(sent') \in {Len(sent), Len(sent) + 1}
  /\ sent' \in Seq(Row)
  /\ table' = table \cup ((1..Len(sent')) \ (1..Len(sent)))
  /\ handled' \in [1..Len(sent') -> Nat] /\ bounced' \in [1..Len(sent') -> Nat]
  /\ \A p \in 1..Len(sent) :
       sent'[p] = sent[p] /\ handled'[p] = nh[p] /\ bounced'[p] = nb[p]
  /\ \A p \in (1..Len(sent')) \ (1..Len(sent)) :
       handled'[p] = 0 /\ bounced'[p] = 0 /\ RowOK(p)'

(* Append to a function on 1..n.                                           *)
LEMMA AppendCount ==
  ASSUME NEW n \in Nat, NEW f \in [1..n -> Nat]
  PROVE  /\ Append(f, 0) \in [1..(n + 1) -> Nat]
         /\ \A p \in 1..n : Append(f, 0)[p] = f[p]
         /\ Append(f, 0)[n + 1] = 0
<1>1. f \in Seq(Nat) /\ Len(f) = n OBVIOUS
<1>2. 0 \in Nat OBVIOUS
<1>3. /\ Append(f, 0) \in Seq(Nat) /\ Len(Append(f, 0)) = Len(f) + 1
      /\ \A i \in 1..Len(f) : Append(f, 0)[i] = f[i]
      /\ Append(f, 0)[Len(f) + 1] = 0
  BY <1>1, <1>2, AppendProperties
<1>4. Append(f, 0) \in [1..Len(Append(f, 0)) -> Nat]
  BY <1>3, LenProperties, Zenon
<1>5. QED BY <1>1, <1>3, <1>4

LEMMA InsertMore ==
  ASSUME sent \in Seq(Row), Rows, NEW row \in Row, row.to # row.from,
         row.about # None =>
           row.about \in 1..Len(sent) /\ sent[row.about].kind \in Deferrable,
         NEW nh \in [1..Len(sent) -> Nat], NEW nb \in [1..Len(sent) -> Nat],
         Insert(row, nh, nb)
  PROVE  More(nh, nb) /\ Rows'
<1> DEFINE n == Len(sent)
<1>1. n \in Nat OBVIOUS
<1>2. /\ sent' \in Seq(Row) /\ Len(sent') = n + 1
      /\ \A p \in 1..n : sent'[p] = sent[p]
      /\ sent'[n + 1] = row
  BY <1>1, AppendProperties DEF Insert
<1>3. (1..Len(sent')) \ (1..n) = {n + 1} BY <1>1, <1>2
<1>4. /\ handled' \in [1..(n + 1) -> Nat] /\ handled'[n + 1] = 0
      /\ \A p \in 1..n : handled'[p] = nh[p]
  BY <1>1, AppendCount DEF Insert
<1>5. /\ bounced' \in [1..(n + 1) -> Nat] /\ bounced'[n + 1] = 0
      /\ \A p \in 1..n : bounced'[p] = nb[p]
  BY <1>1, AppendCount DEF Insert
<1>6. \A p \in {n + 1} : RowOK(p)'
  BY <1>1, <1>2 DEF RowOK
<1>7. \A p \in 1..n : RowOK(p)'
  <2> SUFFICES ASSUME NEW p \in 1..n PROVE RowOK(p)'
    OBVIOUS
  <2>1. RowOK(p) BY DEF Rows
  <2>2. p \in 1..Len(sent') /\ sent'[p] = sent[p] BY <1>1, <1>2
  <2>3. sent[p].about \in 1..n =>
          /\ sent[p].about \in 1..Len(sent')
          /\ sent'[sent[p].about] = sent[sent[p].about]
    BY <1>1, <1>2
  <2>4. QED BY <2>1, <2>2, <2>3 DEF RowOK
<1>8. Rows' BY <1>1, <1>2, <1>6, <1>7 DEF Rows
<1>9. table' = table \cup {n + 1} BY DEF Insert
<1>10. QED BY <1>1, <1>2, <1>3, <1>4, <1>5, <1>6, <1>8, <1>9 DEF More

LEMMA NothingMore ==
  ASSUME TypeOK, Rows, UNCHANGED <<sent, table>>,
         NEW nh \in [1..Len(sent) -> Nat], NEW nb \in [1..Len(sent) -> Nat],
         handled' = nh, bounced' = nb
  PROVE  More(nh, nb) /\ Rows'
<1>1. Len(sent) \in Nat BY DEF TypeOK
<1>2. Rows' BY DEF Rows, RowOK
<1>3. QED BY <1>1, <1>2 DEF More, TypeOK

(* What holds of the rows of a cycle, one by one.                          *)
LEMMA OwnRow ==
  ASSUME BusInv, NEW s \in Shard, NEW p \in inbox[s]
  PROVE  /\ p \in 1..Len(sent) /\ p \in table /\ sent[p] \in Row
         /\ sent[p].to = s /\ sent[p].from # s
         /\ \A q \in Shard \ {s} : p \notin inbox[q] /\ cur[q] # p
<1>1. p \in 1..Len(sent) BY DEF BusInv, TypeOK
<1>2. p \in table /\ sent[p].to = s BY DEF BusInv, SoleConsumer
<1>3. sent[p] \in Row BY <1>1 DEF BusInv, TypeOK
<1>4. sent[p].from # s BY <1>1, <1>2 DEF BusInv, Rows, RowOK
<1>5. ASSUME NEW q \in Shard \ {s} PROVE p \notin inbox[q] /\ cur[q] # p
  <2>1. p # None BY <1>1, BusAssumption DEF BusAssumption
  <2>2. QED BY <1>2, <2>1 DEF BusInv, SoleConsumer
<1>6. QED BY <1>1, <1>2, <1>3, <1>4, <1>5

LEMMA OwnCur ==
  ASSUME BusInv, NEW s \in Shard, stage[s] \in {"reply", "delete"}
  PROVE  /\ cur[s] \in 1..Len(sent) /\ cur[s] \in table /\ sent[cur[s]] \in Row
         /\ sent[cur[s]].to = s /\ sent[cur[s]].from # s
         /\ cur[s] \notin inbox[s]
         /\ \A q \in Shard \ {s} : cur[s] \notin inbox[q] /\ cur[q] # cur[s]
<1>1. cur[s] \in 1..Len(sent) /\ cur[s] \notin inbox[s]
  BY DEF BusInv, Stages, StageOK
<1>2. cur[s] # None BY <1>1, BusAssumption DEF BusAssumption
<1>3. cur[s] \in table /\ sent[cur[s]].to = s
  BY <1>2 DEF BusInv, SoleConsumer
<1>4. sent[cur[s]] \in Row BY <1>1 DEF BusInv, TypeOK
<1>5. sent[cur[s]].from # s BY <1>1, <1>3 DEF BusInv, Rows, RowOK
<1>6. \A q \in Shard \ {s} : cur[s] \notin inbox[q] /\ cur[q] # cur[s]
  BY <1>2, <1>3 DEF BusInv, SoleConsumer
<1>7. QED BY <1>1, <1>3, <1>4, <1>5, <1>6

(* No outcome is taken back when rows join.                                *)
LEMMA MoreKept ==
  ASSUME TypeOK, NothingLost,
         NEW nh \in [1..Len(sent) -> Nat], NEW nb \in [1..Len(sent) -> Nat],
         More(nh, nb),
         \A p \in 1..Len(sent) : nh[p] >= handled[p] /\ nb[p] >= bounced[p]
  PROVE  /\ NothingLost' /\ table' \subseteq 1..Len(sent') /\ table \subseteq table'
         /\ 1..Len(sent) \subseteq 1..Len(sent')
<1>1. 1..Len(sent) \subseteq 1..Len(sent') BY DEF More
<1>2. table' \subseteq 1..Len(sent') /\ table \subseteq table'
  BY <1>1 DEF More, TypeOK
<1>3. ASSUME NEW p \in 1..Len(sent')
      PROVE  \/ p \in table' \/ handled'[p] > 0 \/ bounced'[p] > 0
             \/ sent'[p].from = None
  <2>1. CASE p \notin 1..Len(sent) BY <2>1 DEF More
  <2>2. CASE p \in 1..Len(sent)
    <3>1. /\ handled[p] \in Nat /\ bounced[p] \in Nat
          /\ nh[p] \in Nat /\ nb[p] \in Nat
      BY <2>2 DEF TypeOK
    <3>2. handled'[p] = nh[p] /\ bounced'[p] = nb[p] /\ sent'[p] = sent[p]
      BY <2>2 DEF More
    <3>3. p \in table \/ handled[p] > 0 \/ bounced[p] > 0 \/ sent[p].from = None
      BY <2>2 DEF NothingLost
    <3>4. QED BY <1>2, <2>2, <3>1, <3>2, <3>3
  <2>3. QED BY <2>1, <2>2
<1>4. QED BY <1>1, <1>2, <1>3 DEF NothingLost

-----------------------------------------------------------------------------
(* One lemma for each action of a cycle that has an effect on rows.        *)
LEMMA HandleInv ==
  ASSUME BusInv, NEW s \in Shard, NEW p \in inbox[s], Handle(s, p)
  PROVE  BusInv'
<1> DEFINE nh == [handled EXCEPT ![p] = @ + 1]
<1>1. /\ p \in 1..Len(sent) /\ p \in table /\ sent[p] \in Row
      /\ sent[p].to = s /\ sent[p].from # s
      /\ \A q \in Shard \ {s} : p \notin inbox[q] /\ cur[q] # p
  BY OwnRow
<1>2. TypeOK /\ Rows /\ Stages /\ SoleConsumer /\ NothingLost /\ Counts
  BY DEF BusInv
<1>3. /\ stage[s] = "handle" /\ cur[s] = None /\ loop[s] = "running"
      /\ inbox' = [inbox EXCEPT ![s] = @ \ {p}]
      /\ late' = [late EXCEPT ![s] = @ \ {p}]
      /\ cur' = [cur EXCEPT ![s] = p]
      /\ stage' = [stage EXCEPT ![s] = "delete"]
      /\ UNCHANGED <<expired, loop, faults>>
  BY <1>2 DEF Handle, Turn, Stages, StageOK, TypeOK
<1>4. /\ nh \in [1..Len(sent) -> Nat] /\ bounced \in [1..Len(sent) -> Nat]
      /\ nh[p] = handled[p] + 1
      /\ \A q \in 1..Len(sent) \ {p} : nh[q] = handled[q]
  BY <1>1, <1>2 DEF TypeOK
<1>5. More(nh, bounced) /\ Rows'
  <2>1. CASE sent[p].kind = "ping" /\ sent[p].from # None /\ sent[p].from # s
    <3> DEFINE row == Message("ping_received", sent[p].from, s, p)
    <3>1. Insert(row, nh, bounced) BY <2>1 DEF Handle
    <3>2. row \in Row /\ row.to # row.from /\ row.about = p
      BY <1>1, <2>1 DEF Message, Row, Kind, Pk
    <3>3. sent[p].kind \in Deferrable
      BY <2>1, BusAssumption DEF BusAssumption, GameKind
    <3>4. sent \in Seq(Row) BY <1>2 DEF TypeOK
    <3> HIDE DEF row, nh
    <3>5. QED BY <1>1, <1>2, <1>4, <3>1, <3>2, <3>3, <3>4, InsertMore
  <2>2. CASE ~(sent[p].kind = "ping" /\ sent[p].from # None /\ sent[p].from # s)
    <3>1. handled' = nh /\ UNCHANGED <<sent, table, bounced>>
      BY <2>2 DEF Handle
    <3>2. QED BY <1>2, <1>4, <3>1, NothingMore
  <2>3. QED BY <2>1, <2>2
<1> HIDE DEF nh
<1>6. /\ NothingLost' /\ table' \subseteq 1..Len(sent') /\ table \subseteq table'
      /\ 1..Len(sent) \subseteq 1..Len(sent')
  <2>1. \A q \in 1..Len(sent) : nh[q] >= handled[q] /\ bounced[q] >= bounced[q]
    BY <1>2, <1>4 DEF TypeOK
  <2>2. QED BY <1>2, <1>4, <1>5, <2>1, MoreKept
<1>7. TypeOK'
  BY <1>1, <1>2, <1>3, <1>5, <1>6 DEF TypeOK, More
<1>8. Stages'
  <2> SUFFICES ASSUME NEW q \in Shard PROVE StageOK(q)'
    BY DEF Stages
  <2>1. StageOK(q) BY <1>2 DEF Stages
  <2>2. CASE q = s
    <3>1. cur'[s] = p /\ stage'[s] = "delete" /\ p \notin inbox'[s]
      BY <1>2, <1>3 DEF TypeOK
    <3>2. handled'[p] = handled[p] + 1 /\ handled[p] \in Nat
      BY <1>1, <1>2, <1>4, <1>5 DEF More, TypeOK
    <3>3. QED BY <1>1, <1>3, <1>6, <2>2, <3>1, <3>2 DEF StageOK
  <2>3. CASE q # s
    <3>1. /\ cur'[q] = cur[q] /\ stage'[q] = stage[q] /\ inbox'[q] = inbox[q]
          /\ loop'[q] = loop[q]
      BY <1>3, <2>3, <1>2 DEF TypeOK
    <3>2. stage[q] \in {"reply", "delete"} =>
            /\ cur[q] \in 1..Len(sent) /\ cur[q] # p
            /\ sent'[cur[q]] = sent[cur[q]]
            /\ handled'[cur[q]] = handled[cur[q]]
            /\ bounced'[cur[q]] = bounced[cur[q]]
      BY <1>1, <1>4, <1>5, <2>1, <2>3 DEF More, StageOK
    <3>3. QED BY <1>6, <2>1, <3>1, <3>2 DEF StageOK
  <2>4. QED BY <2>2, <2>3
<1>9. SoleConsumer'
  <2> SUFFICES ASSUME NEW q \in Shard,
                      NEW r \in inbox'[q] \cup ({cur'[q]} \ {None})
               PROVE  r \in table' /\ sent'[r].to = q
    BY DEF SoleConsumer
  <2>1. r \in inbox[q] \cup ({cur[q]} \ {None}) \/ (q = s /\ r = p)
    BY <1>2, <1>3 DEF TypeOK
  <2>2. r \in table /\ sent[r].to = q
    BY <1>1, <1>2, <2>1 DEF SoleConsumer
  <2>3. r \in 1..Len(sent) BY <1>2, <2>2 DEF TypeOK
  <2>4. QED BY <1>5, <1>6, <2>2, <2>3 DEF More
<1>10. Counts'
  <2> SUFFICES ASSUME NEW r \in 1..Len(sent')
               PROVE  /\ handled'[r] + bounced'[r] <= 1 + faults'
                      /\ r \in table' /\ ~Settling(r)' =>
                           handled'[r] + bounced'[r] <= faults'
    BY DEF Counts
  <2>0. faults' = faults /\ faults \in Nat BY <1>2, <1>3, BusAssumption DEF TypeOK, BusAssumption
  <2>1. CASE r \notin 1..Len(sent) BY <1>5, <2>0, <2>1 DEF More
  <2>2. CASE r = p
    <3>1. ~Settling(p) BY <1>1, <1>3 DEF Settling
    <3>2. handled[p] + bounced[p] <= faults BY <1>1, <1>2, <3>1 DEF Counts
    <3>3. Settling(p)' BY <1>2, <1>3 DEF Settling, TypeOK
    <3>4. handled'[p] = handled[p] + 1 /\ bounced'[p] = bounced[p]
      BY <1>1, <1>4, <1>5 DEF More
    <3>5. handled[p] \in Nat /\ bounced[p] \in Nat BY <1>1, <1>2 DEF TypeOK
    <3>6. QED BY <2>0, <2>2, <3>2, <3>3, <3>4, <3>5
  <2>3. CASE r \in 1..Len(sent) /\ r # p
    <3>1. handled'[r] = handled[r] /\ bounced'[r] = bounced[r]
      BY <1>4, <1>5, <2>3 DEF More
    <3>2. Settling(r) => Settling(r)' BY <1>2, <1>3 DEF Settling, TypeOK
    <3>3. r \in table' => r \in table BY <1>5, <2>3 DEF More
    <3>4. QED BY <1>2, <2>0, <2>3, <3>1, <3>2, <3>3 DEF Counts
  <2>4. QED BY <2>1, <2>2, <2>3
<1>11. QED BY <1>5, <1>6, <1>7, <1>8, <1>9, <1>10 DEF BusInv

LEMMA ReplyInv ==
  ASSUME BusInv, NEW s \in Shard, NEW p, cur[s] = p, Reply(s)
  PROVE  BusInv'
<1> DEFINE row == Message("undeliverable_reply", sent[p].from, s, p)
           told == sent[p].from # None /\ sent[p].from # s
<1>1. /\ p \in 1..Len(sent) /\ p \in table /\ sent[p] \in Row
      /\ sent[p].to = s /\ sent[p].from # s /\ p \notin inbox[s]
      /\ \A q \in Shard \ {s} : p \notin inbox[q] /\ cur[q] # p
  BY OwnCur DEF Reply
<1>2. TypeOK /\ Rows /\ Stages /\ SoleConsumer /\ NothingLost /\ Counts
  BY DEF BusInv
<1>3. /\ stage[s] = "reply" /\ loop[s] = "running"
      /\ sent[p].kind \in Deferrable
      /\ stage' = [stage EXCEPT ![s] = "delete"]
      /\ UNCHANGED <<expired, loop, inbox, late, cur, faults>>
  BY <1>2 DEF Reply, Stages, StageOK, TypeOK
<1>4. PICK nb \in [1..Len(sent) -> Nat] :
        /\ nb[p] = IF told THEN bounced[p] + 1 ELSE bounced[p]
        /\ \A q \in 1..Len(sent) \ {p} : nb[q] = bounced[q]
        /\ More(handled, nb) /\ Rows'
  <2>1. CASE told
    <3> DEFINE nb == [bounced EXCEPT ![p] = @ + 1]
    <3>1. Insert(row, handled, nb) BY <2>1 DEF Reply
    <3>2. row \in Row /\ row.to # row.from /\ row.about = p
      BY <1>1, <2>1 DEF Message, Row, Kind, Pk
    <3>3. /\ nb \in [1..Len(sent) -> Nat] /\ nb[p] = bounced[p] + 1
          /\ \A q \in 1..Len(sent) \ {p} : nb[q] = bounced[q]
      BY <1>1, <1>2 DEF TypeOK
    <3>4. sent \in Seq(Row) /\ handled \in [1..Len(sent) -> Nat]
      BY <1>2 DEF TypeOK
    <3> HIDE DEF row, nb
    <3>5. More(handled, nb) /\ Rows'
      BY <1>1, <1>2, <1>3, <3>1, <3>2, <3>3, <3>4, InsertMore
    <3>6. QED BY <2>1, <3>3, <3>5
  <2>2. CASE ~told
    <3>1. UNCHANGED <<sent, table, handled, bounced>> BY <2>2 DEF Reply
    <3>2. /\ handled \in [1..Len(sent) -> Nat]
          /\ bounced \in [1..Len(sent) -> Nat]
      BY <1>2 DEF TypeOK
    <3>3. More(handled, bounced) /\ Rows' BY <1>2, <3>1, <3>2, NothingMore
    <3>4. QED BY <2>2, <3>2, <3>3
  <2>3. QED BY <2>1, <2>2
<1>5. /\ NothingLost' /\ table' \subseteq 1..Len(sent') /\ table \subseteq table'
      /\ 1..Len(sent) \subseteq 1..Len(sent')
  <2>1. handled \in [1..Len(sent) -> Nat] BY <1>2 DEF TypeOK
  <2>2. \A q \in 1..Len(sent) : handled[q] >= handled[q] /\ nb[q] >= bounced[q]
    <3> SUFFICES ASSUME NEW q \in 1..Len(sent)
                 PROVE  handled[q] >= handled[q] /\ nb[q] >= bounced[q]
      OBVIOUS
    <3>1. handled[q] \in Nat /\ bounced[q] \in Nat BY <1>2 DEF TypeOK
    <3>2. nb[q] = bounced[q] \/ nb[q] = bounced[q] + 1 BY <1>4
    <3>3. QED BY <3>1, <3>2
  <2>3. QED BY <1>2, <1>4, <2>1, <2>2, MoreKept
<1> HIDE DEF row
<1>6. TypeOK'
  BY <1>1, <1>2, <1>3, <1>4, <1>5 DEF TypeOK, More
<1>7. Stages'
  <2> SUFFICES ASSUME NEW q \in Shard PROVE StageOK(q)'
    BY DEF Stages
  <2>1. StageOK(q) BY <1>2 DEF Stages
  <2>2. CASE q = s
    <3>1. stage'[s] = "delete" /\ cur'[s] = p /\ inbox'[s] = inbox[s]
      BY <1>2, <1>3 DEF TypeOK
    <3>2. /\ sent'[p] = sent[p] /\ bounced'[p] = nb[p] /\ bounced[p] \in Nat
      BY <1>1, <1>2, <1>4 DEF More, TypeOK
    <3>3. sent'[p].from = None \/ bounced'[p] > 0
      BY <1>1, <1>4, <3>2
    <3>4. QED BY <1>1, <1>3, <1>5, <2>2, <3>1, <3>3 DEF StageOK
  <2>3. CASE q # s
    <3>1. stage'[q] = stage[q] BY <1>2, <1>3, <2>3 DEF TypeOK
    <3>2. stage[q] \in {"reply", "delete"} =>
            /\ cur[q] \in 1..Len(sent) /\ cur[q] # p
            /\ sent'[cur[q]] = sent[cur[q]]
            /\ handled'[cur[q]] = handled[cur[q]]
            /\ bounced'[cur[q]] = bounced[cur[q]]
      BY <1>1, <1>4, <2>1, <2>3 DEF More, StageOK
    <3>3. QED BY <1>3, <1>5, <2>1, <3>1, <3>2 DEF StageOK
  <2>4. QED BY <2>2, <2>3
<1>8. SoleConsumer'
  <2> SUFFICES ASSUME NEW q \in Shard,
                      NEW r \in inbox[q] \cup ({cur[q]} \ {None})
               PROVE  r \in table' /\ sent'[r].to = q
    BY <1>3 DEF SoleConsumer
  <2>1. r \in table /\ sent[r].to = q BY <1>2 DEF SoleConsumer
  <2>2. r \in 1..Len(sent) BY <1>2, <2>1 DEF TypeOK
  <2>3. QED BY <1>4, <1>5, <2>1, <2>2 DEF More
<1>9. Counts'
  <2> SUFFICES ASSUME NEW r \in 1..Len(sent')
               PROVE  /\ handled'[r] + bounced'[r] <= 1 + faults'
                      /\ r \in table' /\ ~Settling(r)' =>
                           handled'[r] + bounced'[r] <= faults'
    BY DEF Counts
  <2>0. faults' = faults /\ faults \in Nat
    BY <1>2, <1>3, BusAssumption DEF TypeOK, BusAssumption
  <2>1. CASE r \notin 1..Len(sent) BY <1>4, <2>0, <2>1 DEF More
  <2>2. CASE r = p
    <3>1. ~Settling(p) BY <1>1, <1>3 DEF Settling
    <3>2. handled[p] + bounced[p] <= faults BY <1>1, <1>2, <3>1 DEF Counts
    <3>3. Settling(p)' BY <1>2, <1>3 DEF Settling, TypeOK
    <3>4. handled'[p] = handled[p] /\ bounced'[p] <= bounced[p] + 1
      BY <1>1, <1>2, <1>4 DEF More, TypeOK
    <3>5. /\ handled[p] \in Nat /\ bounced[p] \in Nat /\ bounced'[p] \in Nat
      BY <1>1, <1>2, <1>5, <1>6 DEF TypeOK
    <3>6. QED BY <2>0, <2>2, <3>2, <3>3, <3>4, <3>5
  <2>3. CASE r \in 1..Len(sent) /\ r # p
    <3>1. handled'[r] = handled[r] /\ bounced'[r] = bounced[r]
      BY <1>4, <2>3 DEF More
    <3>2. Settling(r) => Settling(r)' BY <1>2, <1>3 DEF Settling, TypeOK
    <3>3. r \in table' => r \in table BY <1>4, <2>3 DEF More
    <3>4. QED BY <1>2, <2>0, <2>3, <3>1, <3>2, <3>3 DEF Counts
  <2>4. QED BY <2>1, <2>2, <2>3
<1>10. QED BY <1>4, <1>5, <1>6, <1>7, <1>8, <1>9 DEF BusInv

LEMMA DeleteInv ==
  ASSUME BusInv, NEW s \in Shard, Delete(s)
  PROVE  BusInv'
<1> DEFINE p == cur[s]
<1>1. /\ p \in 1..Len(sent) /\ p \in table /\ p \notin inbox[s]
      /\ \A q \in Shard \ {s} : p \notin inbox[q] /\ cur[q] # p
  BY OwnCur DEF Delete
<1>2. TypeOK /\ Rows /\ Stages /\ SoleConsumer /\ NothingLost /\ Counts
  BY DEF BusInv
<1>3. /\ stage[s] = "delete" /\ loop[s] = "running"
      /\ handled[p] > 0 \/ bounced[p] > 0 \/ sent[p].from = None
  BY <1>2 DEF Delete, Stages, StageOK, TypeOK
<1>4. TypeOK' BY <1>2 DEF TypeOK, Delete
<1>5. Rows' BY <1>2 DEF Rows, RowOK, Delete
<1>6. Stages'
  <2> SUFFICES ASSUME NEW q \in Shard PROVE StageOK(q)'
    BY DEF Stages
  <2>1. StageOK(q) BY <1>2 DEF Stages
  <2>2. QED BY <1>2, <1>3, <2>1 DEF StageOK, Delete, TypeOK
<1>7. SoleConsumer' BY <1>1, <1>2 DEF SoleConsumer, Delete, TypeOK
<1>8. NothingLost' BY <1>2, <1>3 DEF NothingLost, Delete
<1>9. Counts'
  <2>1. \A r \in table \ {p} : Settling(r) => Settling(r)'
    BY <1>2 DEF Settling, Delete, TypeOK
  <2>2. QED BY <1>2, <2>1 DEF Counts, Delete
<1>10. QED BY <1>4, <1>5, <1>6, <1>7, <1>8, <1>9 DEF BusInv

(* The handler has left the row, with or without effects before it raised. *)
LEMMA NotHandledInv ==
  ASSUME BusInv, NEW s \in Shard, NEW p \in inbox[s],
         sent[p].kind \in Deferrable, Turn(s, p), NotHandled(s, p),
         UNCHANGED <<sent, table, expired, loop, bounced>>,
         \/ UNCHANGED <<handled, faults>>
         \/ Fault /\ UNCHANGED handled
         \/ Fault /\ handled' = [handled EXCEPT ![p] = @ + 1]
  PROVE  BusInv'
<1>1. /\ p \in 1..Len(sent) /\ p \in table /\ sent[p].to = s
      /\ \A q \in Shard \ {s} : p \notin inbox[q] /\ cur[q] # p
  BY OwnRow
<1>2. TypeOK /\ Rows /\ Stages /\ SoleConsumer /\ NothingLost /\ Counts
  BY DEF BusInv
<1>3. /\ stage[s] = "handle" /\ cur[s] = None /\ loop[s] = "running"
      /\ inbox' = [inbox EXCEPT ![s] = @ \ {p}]
      /\ late' = [late EXCEPT ![s] = @ \ {p}]
  BY <1>2 DEF Turn, Stages, StageOK, TypeOK
<1>4. \/ /\ cur' = [cur EXCEPT ![s] = p]
         /\ stage' = [stage EXCEPT ![s] = "reply"]
      \/ /\ UNCHANGED <<cur, stage>>
      \/ /\ cur' = cur /\ stage' = [stage EXCEPT ![s] = "idle"]
         /\ inbox'[s] = {}
  BY <1>2, <1>3 DEF NotHandled, TypeOK
<1>5. /\ handled' \in [1..Len(sent) -> Nat]
      /\ \A r \in 1..Len(sent) \ {p} : handled'[r] = handled[r]
      /\ \/ handled'[p] = handled[p] /\ faults <= faults'
         \/ handled'[p] = handled[p] + 1 /\ faults' = faults + 1
      /\ faults' \in 0..MaxFaults /\ faults \in Nat
  <2>1. /\ handled \in [1..Len(sent) -> Nat] /\ faults \in 0..MaxFaults
        /\ MaxFaults \in Nat
    BY <1>2, BusAssumption DEF TypeOK, BusAssumption
  <2>2. CASE UNCHANGED <<handled, faults>> BY <2>1, <2>2
  <2>3. CASE Fault /\ handled' = [handled EXCEPT ![p] = @ + 1]
    <3>1. faults' = faults + 1 /\ faults' \in 0..MaxFaults /\ faults \in Nat
      BY <2>1, <2>3 DEF Fault
    <3>2. /\ handled' \in [1..Len(sent) -> Nat]
          /\ handled'[p] = handled[p] + 1
          /\ \A r \in 1..Len(sent) \ {p} : handled'[r] = handled[r]
      BY <1>1, <2>1, <2>3
    <3>3. QED BY <3>1, <3>2
  <2>4. CASE Fault /\ UNCHANGED handled
    <3>1. faults' = faults + 1 /\ faults' \in 0..MaxFaults /\ faults \in Nat
      BY <2>1, <2>4 DEF Fault
    <3>2. QED BY <2>1, <2>4, <3>1
  <2>5. QED BY <2>2, <2>3, <2>4
<1>6. \A r \in 1..Len(sent) :
        handled[r] \in Nat /\ bounced[r] \in Nat /\ handled'[r] >= handled[r]
  BY <1>1, <1>2, <1>5 DEF TypeOK
<1>7. TypeOK'
  <2>1. cur' \in [Shard -> 1..Len(sent) \cup {None}] BY <1>1, <1>2, <1>4 DEF TypeOK
  <2>2. stage' \in [Shard -> {"idle", "handle", "reply", "delete"}]
    BY <1>2, <1>4 DEF TypeOK
  <2>3. QED BY <1>2, <1>3, <1>5, <2>1, <2>2 DEF TypeOK
<1>8. Rows' BY <1>2 DEF Rows, RowOK
<1>9. Stages'
  <2> SUFFICES ASSUME NEW q \in Shard PROVE StageOK(q)'
    BY DEF Stages
  <2>1. StageOK(q) BY <1>2 DEF Stages
  <2>2. CASE q = s
    <3>1. p \notin inbox'[s] BY <1>2, <1>3 DEF TypeOK
    <3>2. \/ cur'[s] = p /\ stage'[s] = "reply"
          \/ cur'[s] = None /\ stage'[s] = "handle"
          \/ cur'[s] = None /\ stage'[s] = "idle" /\ inbox'[s] = {}
      BY <1>2, <1>3, <1>4 DEF TypeOK
    <3>3. QED BY <1>1, <1>3, <2>1, <2>2, <3>1, <3>2 DEF StageOK
  <2>3. CASE q # s
    <3>1. cur'[q] = cur[q] /\ stage'[q] = stage[q] /\ inbox'[q] = inbox[q]
      BY <1>2, <1>3, <1>4, <2>3 DEF TypeOK
    <3>2. stage[q] \in {"reply", "delete"} =>
            cur[q] \in 1..Len(sent) /\ handled'[cur[q]] = handled[cur[q]]
      BY <1>1, <1>5, <2>1, <2>3 DEF StageOK
    <3>3. QED BY <2>1, <3>1, <3>2 DEF StageOK
  <2>4. QED BY <2>2, <2>3
<1>10. SoleConsumer'
  <2> SUFFICES ASSUME NEW q \in Shard,
                      NEW r \in inbox'[q] \cup ({cur'[q]} \ {None})
               PROVE  r \in table /\ sent[r].to = q
    BY DEF SoleConsumer
  <2>1. r \in inbox[q] \cup ({cur[q]} \ {None}) \/ (q = s /\ r = p)
    BY <1>2, <1>3, <1>4 DEF TypeOK
  <2>2. QED BY <1>1, <1>2, <2>1 DEF SoleConsumer
<1>11. NothingLost'
  <2>1. \A r \in 1..Len(sent) : handled[r] > 0 => handled'[r] > 0
    BY <1>5, <1>6
  <2>2. QED BY <1>2, <2>1 DEF NothingLost
<1>12. Counts'
  <2> SUFFICES ASSUME NEW r \in 1..Len(sent)
               PROVE  /\ handled'[r] + bounced[r] <= 1 + faults'
                      /\ r \in table /\ ~Settling(r)' =>
                           handled'[r] + bounced[r] <= faults'
    BY DEF Counts
  <2>1. CASE r = p
    <3>1. ~Settling(p) BY <1>1, <1>3 DEF Settling
    <3>2. handled[p] + bounced[p] <= faults BY <1>1, <1>2, <3>1 DEF Counts
    <3>3. /\ handled[p] \in Nat /\ handled'[p] \in Nat /\ bounced[p] \in Nat
          /\ faults \in Nat /\ faults' \in Nat
      BY <1>1, <1>5, <1>6
    <3>4. \/ handled'[p] = handled[p] /\ faults' >= faults
          \/ handled'[p] = handled[p] + 1 /\ faults' = faults + 1
      BY <1>1, <1>5
    <3>5. handled'[p] + bounced[p] <= faults' BY <3>2, <3>3, <3>4
    <3>6. QED BY <2>1, <3>3, <3>5
  <2>2. CASE r # p
    <3>1. handled'[r] = handled[r] /\ faults' \in Nat /\ faults <= faults'
      BY <1>5, <2>2
    <3>2. Settling(r) => Settling(r)' BY <1>2, <1>3, <1>4 DEF Settling, TypeOK
    <3>3. /\ handled[r] + bounced[r] <= 1 + faults
          /\ r \in table /\ ~Settling(r) => handled[r] + bounced[r] <= faults
      BY <1>2 DEF Counts
    <3>4. handled[r] \in Nat /\ bounced[r] \in Nat /\ faults \in Nat
      BY <1>5, <1>6
    <3>5. handled[r] + bounced[r] <= 1 + faults' BY <3>1, <3>3, <3>4
    <3>6. r \in table /\ ~Settling(r)' => handled[r] + bounced[r] <= faults'
      <4> SUFFICES ASSUME r \in table, ~Settling(r)'
                   PROVE  handled[r] + bounced[r] <= faults'
        OBVIOUS
      <4>1. handled[r] + bounced[r] <= faults BY <3>2, <3>3
      <4>2. QED BY <3>1, <3>4, <4>1
    <3>7. QED BY <3>1, <3>5, <3>6
  <2>3. QED BY <2>1, <2>2
<1>13. QED BY <1>7, <1>8, <1>9, <1>10, <1>11, <1>12 DEF BusInv

(* A cycle that ends before its time leaves its rows in the table; if one  *)
(* of them has had its outcome, the end was a fault.                       *)
LEMMA AbandonInv ==
  ASSUME BusInv, NEW s \in Shard, NEW how \in {"running", "stopped", "down"},
         Abandon(s, how), Fault \/ (UNCHANGED faults /\ stage[s] = "idle")
  PROVE  BusInv'
<1>1. TypeOK /\ Rows /\ Stages /\ SoleConsumer /\ NothingLost /\ Counts
  BY DEF BusInv
<1>2. /\ faults \in Nat /\ faults' \in 0..MaxFaults /\ faults <= faults'
      /\ faults' = faults + 1 \/ (faults' = faults /\ stage[s] = "idle")
  BY <1>1, BusAssumption DEF TypeOK, Fault, BusAssumption
<1>3. TypeOK' BY <1>1, <1>2 DEF TypeOK, Abandon
<1>4. Rows' BY <1>1 DEF Rows, RowOK, Abandon
<1>5. Stages' BY <1>1 DEF Stages, StageOK, Abandon, TypeOK
<1>6. SoleConsumer' BY <1>1 DEF SoleConsumer, Abandon, TypeOK
<1>7. NothingLost' BY <1>1 DEF NothingLost, Abandon
<1>8. Counts'
  <2> SUFFICES ASSUME NEW r \in 1..Len(sent)
               PROVE  /\ handled[r] + bounced[r] <= 1 + faults'
                      /\ r \in table /\ ~Settling(r)' =>
                           handled[r] + bounced[r] <= faults'
    BY DEF Counts, Abandon
  <2>1. handled[r] \in Nat /\ bounced[r] \in Nat BY <1>1 DEF TypeOK
  <2>2. handled[r] + bounced[r] <= 1 + faults BY <1>1 DEF Counts
  <2>3. CASE faults' = faults + 1 BY <1>2, <2>1, <2>2, <2>3
  <2>4. CASE faults' = faults /\ stage[s] = "idle"
    <3>1. Settling(r) => Settling(r)'
      BY <1>1, <2>4 DEF Settling, Abandon, TypeOK
    <3>2. QED BY <1>1, <2>4, <3>1 DEF Counts
  <2>5. QED BY <1>2, <2>3, <2>4
<1>9. QED BY <1>3, <1>4, <1>5, <1>6, <1>7, <1>8 DEF BusInv

LEMMA PollInv ==
  ASSUME BusInv, NEW s \in Shard, Poll(s)
  PROVE  BusInv'
<1>1. TypeOK /\ Rows /\ Stages /\ SoleConsumer /\ NothingLost /\ Counts
  BY DEF BusInv
<1>2. /\ inbox' = [inbox EXCEPT ![s] = Polled(s)]
      /\ stage' = [stage EXCEPT ![s] = "handle"]
      /\ loop[s] = "running" /\ stage[s] = "idle" /\ cur[s] = None
      /\ UNCHANGED <<sent, table, expired, loop, cur, handled, bounced, faults>>
  BY <1>1 DEF Poll, Stages, StageOK
<1>3. Polled(s) \subseteq table /\ \A p \in Polled(s) : sent[p].to = s
  BY DEF Polled
<1>4. TypeOK' BY <1>1, <1>3 DEF TypeOK, Poll
<1>5. Rows' BY <1>1, <1>2 DEF Rows, RowOK
<1>6. Stages' BY <1>1, <1>2 DEF Stages, StageOK, TypeOK
<1>7. SoleConsumer' BY <1>1, <1>2, <1>3 DEF SoleConsumer, TypeOK
<1>8. NothingLost' BY <1>1, <1>2 DEF NothingLost
<1>9. \A r : Settling(r) => Settling(r)' BY <1>1, <1>2 DEF Settling, TypeOK
<1>10. Counts' BY <1>1, <1>2, <1>9 DEF Counts
<1>11. QED BY <1>4, <1>5, <1>6, <1>7, <1>8, <1>10 DEF BusInv

(* Game code inserts a row.                                                *)
LEMMA PostInv ==
  ASSUME BusInv, NEW to \in Shard, NEW from \in Shard \cup {None},
         NEW k \in GameKind, to # from,
         Insert(Message(k, to, from, None), handled, bounced),
         UNCHANGED <<expired, loop, cycle, faults>>
  PROVE  BusInv'
<1> DEFINE row == Message(k, to, from, None)
<1>1. TypeOK /\ Rows /\ Stages /\ SoleConsumer /\ NothingLost /\ Counts
  BY DEF BusInv
<1>2. row \in Row /\ row.to # row.from /\ row.about = None
  BY DEF Message, Row, Kind
<1>3. /\ handled \in [1..Len(sent) -> Nat] /\ bounced \in [1..Len(sent) -> Nat]
      /\ sent \in Seq(Row)
  BY <1>1 DEF TypeOK
<1>4. Insert(row, handled, bounced) OBVIOUS
<1> HIDE DEF row
<1>5. More(handled, bounced) /\ Rows' BY <1>1, <1>2, <1>3, <1>4, InsertMore
<1>6. /\ NothingLost' /\ table' \subseteq 1..Len(sent') /\ table \subseteq table'
      /\ 1..Len(sent) \subseteq 1..Len(sent')
  <2>1. \A q \in 1..Len(sent) : handled[q] >= handled[q] /\ bounced[q] >= bounced[q]
    BY <1>3
  <2>2. QED BY <1>1, <1>3, <1>5, <2>1, MoreKept
<1>7. TypeOK' BY <1>1, <1>4, <1>5, <1>6 DEF TypeOK, More, cycle
<1>8. Stages'
  <2> SUFFICES ASSUME NEW q \in Shard PROVE StageOK(q)'
    BY DEF Stages
  <2>1. StageOK(q) BY <1>1 DEF Stages
  <2>2. cur[q] \in 1..Len(sent) =>
          /\ sent'[cur[q]] = sent[cur[q]]
          /\ handled'[cur[q]] = handled[cur[q]]
          /\ bounced'[cur[q]] = bounced[cur[q]]
    BY <1>5 DEF More
  <2>3. QED BY <1>4, <1>6, <2>1, <2>2 DEF StageOK, cycle
<1>9. SoleConsumer'
  <2> SUFFICES ASSUME NEW q \in Shard,
                      NEW r \in inbox[q] \cup ({cur[q]} \ {None})
               PROVE  r \in table' /\ sent'[r].to = q
    BY <1>4 DEF SoleConsumer, cycle
  <2>1. r \in table /\ sent[r].to = q BY <1>1 DEF SoleConsumer
  <2>2. r \in 1..Len(sent) BY <1>1, <2>1 DEF TypeOK
  <2>3. QED BY <1>5, <1>6, <2>1, <2>2 DEF More
<1>10. Counts'
  <2> SUFFICES ASSUME NEW r \in 1..Len(sent')
               PROVE  /\ handled'[r] + bounced'[r] <= 1 + faults
                      /\ r \in table' /\ ~Settling(r)' =>
                           handled'[r] + bounced'[r] <= faults
    BY <1>4 DEF Counts
  <2>1. faults \in Nat BY <1>1, BusAssumption DEF TypeOK, BusAssumption
  <2>2. CASE r \notin 1..Len(sent) BY <1>5, <2>1, <2>2 DEF More
  <2>3. CASE r \in 1..Len(sent)
    <3>1. /\ handled'[r] = handled[r] /\ bounced'[r] = bounced[r]
          /\ r \in table' => r \in table
      BY <1>5, <2>3 DEF More
    <3>2. Settling(r) => Settling(r)' BY <1>4 DEF Settling, cycle
    <3>3. QED BY <1>1, <2>3, <3>1, <3>2 DEF Counts
  <2>4. QED BY <2>2, <2>3
<1>11. QED BY <1>5, <1>6, <1>7, <1>8, <1>9, <1>10 DEF BusInv

LEMMA SendInv ==
  ASSUME BusInv, NEW s \in Shard, NEW to \in Shard, NEW from \in {s, None},
         NEW k \in GameKind, Send(s, to, from, k)
  PROVE  BusInv'
BY PostInv, BusAssumption DEF Send, BusAssumption

LEMMA ExpireInv ==
  ASSUME BusInv, NEW p \in table, Expire(p)
  PROVE  BusInv'
<1>1. TypeOK' BY DEF BusInv, TypeOK, Expire, cycle
<1>2. Rows' BY DEF BusInv, Rows, RowOK, Expire
<1>3. Stages' BY DEF BusInv, Stages, StageOK, Expire, cycle
<1>4. SoleConsumer' BY DEF BusInv, SoleConsumer, Expire, cycle
<1>5. NothingLost' BY DEF BusInv, NothingLost, Expire
<1>6. Counts' BY DEF BusInv, Counts, Settling, Expire, cycle
<1>7. QED BY <1>1, <1>2, <1>3, <1>4, <1>5, <1>6 DEF BusInv

-----------------------------------------------------------------------------
LEMMA StepInv == BusInv /\ [Next]_vars => BusInv'
<1> SUFFICES ASSUME BusInv, [Next]_vars PROVE BusInv'
  OBVIOUS
<1>1. CASE UNCHANGED vars
  BY <1>1 DEF vars, BusInv, TypeOK, Rows, RowOK, Stages, StageOK, SoleConsumer,
              NothingLost, Counts, Settling
<1>2. CASE \E s, to \in Shard, k \in GameKind :
              \E from \in {s, None} : Send(s, to, from, k)
  BY <1>2, SendInv
<1>3. CASE \E s \in Shard : Poll(s) BY <1>3, PollInv
<1>4. CASE \E s \in Shard : \E p \in inbox[s] : Handle(s, p) BY <1>4, HandleInv
<1>5. CASE \E s \in Shard : \E p \in inbox[s] : Defer(s, p)
  BY <1>5, NotHandledInv DEF Defer, MayDefer
<1>6. CASE \E s \in Shard : \E p \in inbox[s] : ActAndRaise(s, p)
  BY <1>6, NotHandledInv DEF ActAndRaise, MayDefer
<1>7. CASE \E s \in Shard : Reply(s) BY <1>7, ReplyInv
<1>8. CASE \E s \in Shard : Delete(s) BY <1>8, DeleteInv
<1>9. CASE \E s \in Shard : Raise(s) \/ Crash(s)
  <2> PICK s \in Shard : Raise(s) \/ Crash(s) BY <1>9
  <2>1. Fault /\ (Abandon(s, "stopped") \/ Abandon(s, "down"))
    BY DEF Raise, Crash
  <2>2. QED BY <2>1, AbandonInv
<1>10. CASE \E s \in Shard : Restart(s)
  <2> PICK s \in Shard : Restart(s) BY <1>10
  <2>1. stage[s] = "idle" BY DEF BusInv, Stages, StageOK, Restart
  <2>2. QED BY <2>1, AbandonInv DEF Restart
<1>11. CASE \E p \in table : Expire(p) BY <1>11, ExpireInv
<1>12. QED
  BY <1>1, <1>2, <1>3, <1>4, <1>5, <1>6, <1>7, <1>8, <1>9, <1>10, <1>11
     DEF Next, BusStep

LEMMA InitInv == Init => BusInv
<1> SUFFICES ASSUME Init PROVE BusInv
  OBVIOUS
<1>1. Len(sent) = 0 /\ 1..Len(sent) = {} /\ sent \in Seq(Row)
  BY EmptySeq DEF Init
<1>2. handled \in [1..Len(sent) -> Nat] /\ bounced \in [1..Len(sent) -> Nat]
  <2>1. <<>> \in Seq(Nat) /\ Len(<<>>) = 0 BY EmptySeq
  <2>2. <<>> \in [1..Len(<<>>) -> Nat] BY <2>1, LenProperties
  <2>3. QED BY <2>2 DEF Init
<1>3. TypeOK BY <1>1, <1>2, BusAssumption DEF TypeOK, Init, BusAssumption
<1>4. Stages /\ SoleConsumer BY DEF Stages, StageOK, SoleConsumer, Init
<1>5. Rows /\ NothingLost /\ Counts BY <1>1 DEF Rows, NothingLost, Counts
<1>6. QED BY <1>3, <1>4, <1>5 DEF BusInv

LEMMA AlwaysBusInv == Spec => []BusInv
BY InitInv, StepInv, PTL DEF Spec

(* No row disappears from the table without an outcome that somebody has   *)
(* seen, wherever crashes and exceptions cut cycles short.                 *)
THEOREM NoRowLost == Spec => []NothingLost
<1>1. BusInv => NothingLost BY DEF BusInv
<1>2. QED BY <1>1, AlwaysBusInv, PTL

(* Any number of shards poll without locks, and no two of them ever work   *)
(* on one row.                                                             *)
THEOREM OneConsumer == Spec => []SoleConsumer
<1>1. BusInv => SoleConsumer BY DEF BusInv
<1>2. QED BY <1>1, AlwaysBusInv, PTL

(* The delete is no part of the handler's transaction: an outcome repeats, *)
(* but only as often as faults come between it and the delete.             *)
THEOREM OutcomesBounded == Spec => []OneOutcome
<1>1. BusInv => OneOutcome BY DEF BusInv, Counts, OneOutcome
<1>2. QED BY <1>1, AlwaysBusInv, PTL

(* Only a row whose handler could refuse it is answered: with the handlers *)
(* of the base class every chain of answers ends after one answer.         *)
THEOREM AnswersEnd == Spec => []NoReplyToReply
<1>1. BusInv => NoReplyToReply BY DEF BusInv, Rows, RowOK, NoReplyToReply
<1>2. QED BY <1>1, AlwaysBusInv, PTL

=============================================================================
