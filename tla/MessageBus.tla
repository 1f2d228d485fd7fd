----------------------------- MODULE MessageBus -----------------------------
(***************************************************************************)
(* The cross-shard message bus: a table of rows addressed to shards, which *)
(* every process polls with process_inbox from a Twisted LoopingCall.      *)
(*                                                                         *)
(* A cycle reads the rows of its shard once and then, row by row, runs the *)
(* handler and deletes the row, or leaves it, or reports a timeout to the  *)
(* sender and deletes it.  The statements of a cycle are not one           *)
(* transaction: each is a step, other processes run between them, and the  *)
(* process can die or an exception can leave the cycle after any of them.  *)
(***************************************************************************)
EXTENDS Naturals, Sequences

CONSTANTS
  Shard,      \* the processes, each with its SHARD_ID
  None,       \* no return address, no row, not a reply
  Deferrable, \* the kinds whose handler may raise or return falsy
  MaxSent,    \* bound: game code sends while there were fewer rows than this
  MaxFaults   \* bound: crashes and exceptions in a behaviour

(* Kinds of message.  "deliver" is any other kind that game code sends:    *)
(* those that the base class delivers by calling into the game and those   *)
(* that only the consumer's subclass knows.                                *)
GameKind == {"ping", "deliver"}
Kind     == GameKind \cup {"ping_received", "undeliverable_reply"}

Pk  == Nat \ {0}
Row == [kind : Kind, to : Shard, from : Shard \cup {None},
        about : Pk \cup {None}]

(* The base class consumes every reply, and a deployment's subclass may    *)
(* handle them in its own way; the insert of a ping's answer can raise.    *)
ASSUME BusAssumption ==
  /\ None \notin Shard /\ None \notin Nat /\ MaxSent \in Nat /\ MaxFaults \in Nat
  /\ GameKind \subseteq Deferrable /\ Deferrable \subseteq Kind

VARIABLES
  sent,      \* every row ever inserted; its index is the pk and the order
             \* of created_at
  table,     \* the pks that are still in the table
  expired,   \* those older than the timeout of their kind
  loop,      \* loop[s]: the LoopingCall of s runs, has stopped, or s is down
  stage,     \* stage[s]: what process_inbox does next
  inbox,     \* inbox[s]: rows of this cycle that have not had their turn
  late,      \* late[s]: those of the cycle that had expired at its start
  cur,       \* cur[s]: the row whose turn it is
  handled,   \* handled[p]: how often a handler acted on row p
  bounced,   \* bounced[p]: how often row p was reported undeliverable
  faults     \* crashes and exceptions so far

cycle == <<stage, inbox, late, cur>>
vars  == <<sent, table, expired, loop, stage, inbox, late, cur, handled,
           bounced, faults>>

TypeOK ==
  /\ sent \in Seq(Row)
  /\ table \subseteq 1..Len(sent)
  /\ expired \subseteq table
  /\ loop \in [Shard -> {"running", "stopped", "down"}]
  /\ stage \in [Shard -> {"idle", "handle", "reply", "delete"}]
  /\ inbox \in [Shard -> SUBSET (1..Len(sent))]
  /\ late \in [Shard -> SUBSET (1..Len(sent))]
  /\ cur \in [Shard -> 1..Len(sent) \cup {None}]
  /\ handled \in [1..Len(sent) -> Nat]
  /\ bounced \in [1..Len(sent) -> Nat]
  /\ faults \in 0..MaxFaults

Init ==
  /\ sent = <<>>
  /\ table = {}
  /\ expired = {}
  /\ loop = [s \in Shard |-> "running"]
  /\ stage = [s \in Shard |-> "idle"]
  /\ inbox = [s \in Shard |-> {}]
  /\ late = [s \in Shard |-> {}]
  /\ cur = [s \in Shard |-> None]
  /\ handled = <<>>
  /\ bounced = <<>>
  /\ faults = 0

Fault == faults < MaxFaults /\ faults' = faults + 1

-----------------------------------------------------------------------------
Message(kind, to, from, about) ==
  [kind |-> kind, to |-> to, from |-> from, about |-> about]

(* Message.objects.create, with the counts of what becomes of other rows.  *)
Insert(row, newhandled, newbounced) ==
  /\ sent' = Append(sent, row)
  /\ table' = table \cup {Len(sent) + 1}
  /\ handled' = Append(newhandled, 0)
  /\ bounced' = Append(newbounced, 0)

(* Game code on s, between two turns of the reactor.  A row for the        *)
(* sender's own shard is refused; from may be missing, the column is NULL. *)
Send(s, to, from, kind) ==
  /\ Len(sent) < MaxSent
  /\ stage[s] = "idle" /\ loop[s] # "down"
  /\ to # s
  /\ Insert(Message(kind, to, from, None), handled, bounced)
  /\ UNCHANGED <<expired, loop, cycle, faults>>

(* created_at + get_message_timeout(kind) passes.                          *)
Expire(p) ==
  /\ p \in table \ expired
  /\ expired' = expired \cup {p}
  /\ UNCHANGED <<sent, table, loop, cycle, handled, bounced, faults>>

-----------------------------------------------------------------------------
(* One cycle of process_inbox.                                             *)

(* Mutant: the query has no to_shard.                                      *)
PolledAll(s) == table

Polled(s) == {p \in table : sent[p].to = s}

(* now is read once, before the rows are.                                  *)
Poll(s) ==
  /\ loop[s] = "running" /\ stage[s] = "idle"
  /\ Polled(s) # {}
  /\ inbox' = [inbox EXCEPT ![s] = Polled(s)]
  /\ late' = [late EXCEPT ![s] = Polled(s) \cap expired]
  /\ stage' = [stage EXCEPT ![s] = "handle"]
  /\ UNCHANGED <<sent, table, expired, loop, cur, handled, bounced, faults>>

(* The rows are taken oldest first.                                        *)
Turn(s, p) ==
  /\ stage[s] = "handle"
  /\ p \in inbox[s] /\ \A q \in inbox[s] : p <= q
  /\ inbox' = [inbox EXCEPT ![s] = @ \ {p}]
  /\ late' = [late EXCEPT ![s] = @ \ {p}]

(* handler.handle(p) returned truthy: the row is to be deleted.            *)
Handle(s, p) ==
  LET counted == [handled EXCEPT ![p] = @ + 1]
      from    == sent[p].from
  IN /\ Turn(s, p)
     /\ IF sent[p].kind = "ping" /\ from # None /\ from # s
          THEN Insert(Message("ping_received", from, s, p), counted, bounced)
          ELSE handled' = counted /\ UNCHANGED <<sent, table, bounced>>
     /\ cur' = [cur EXCEPT ![s] = p]
     /\ stage' = [stage EXCEPT ![s] = "delete"]
     /\ UNCHANGED <<expired, loop, faults>>

(* Mutant: the base class forgets that it consumes undeliverable_reply.    *)
MayDeferReply(p) == sent[p].kind \in Deferrable \cup {"undeliverable_reply"}

(* A handler of any kind that raises or returns falsy defers its row.      *)
MayDefer(p) == sent[p].kind \in Deferrable

(* Mutant: an expired row is dropped without a reply.                      *)
NotHandledDrop(s, p) ==
  IF p \in late[s]
    THEN /\ cur' = [cur EXCEPT ![s] = p]
         /\ stage' = [stage EXCEPT ![s] = "delete"]
    ELSE /\ stage' = [stage EXCEPT ![s] = IF inbox'[s] = {} THEN "idle" ELSE @]
         /\ UNCHANGED cur

(* Falsy: the row stays for the next cycle unless its time had come.       *)
NotHandled(s, p) ==
  IF p \in late[s]
    THEN /\ cur' = [cur EXCEPT ![s] = p]
         /\ stage' = [stage EXCEPT ![s] = "reply"]
    ELSE /\ stage' = [stage EXCEPT ![s] = IF inbox'[s] = {} THEN "idle" ELSE @]
         /\ UNCHANGED cur

Defer(s, p) ==
  /\ Turn(s, p)
  /\ MayDefer(p)
  /\ NotHandled(s, p)
  /\ UNCHANGED <<sent, table, expired, loop, handled, bounced, faults>>

(* The handler acts and raises afterwards, which counts as falsy.  That of *)
(* a ping has nothing left to do once its answer is inserted.              *)
ActAndRaise(s, p) ==
  /\ Turn(s, p)
  /\ MayDefer(p) /\ sent[p].kind # "ping"
  /\ Fault
  /\ handled' = [handled EXCEPT ![p] = @ + 1]
  /\ NotHandled(s, p)
  /\ UNCHANGED <<sent, table, expired, loop, bounced>>

(* Mutant: the two addresses of the reply are swapped.                     *)
ReplyHome(s) ==
  LET p    == cur[s]
      from == sent[p].from
  IN /\ stage[s] = "reply"
     /\ IF from # None /\ from # s
          THEN Insert(Message("undeliverable_reply", s, from, p), handled,
                      [bounced EXCEPT ![p] = @ + 1])
          ELSE UNCHANGED <<sent, table, handled, bounced>>
     /\ stage' = [stage EXCEPT ![s] = "delete"]
     /\ UNCHANGED <<expired, loop, inbox, late, cur, faults>>

(* Mutant: the row stays in the table after the reply, and comes back.     *)
ReplyKeep(s) ==
  LET p    == cur[s]
      from == sent[p].from
  IN /\ stage[s] = "reply"
     /\ IF from # None /\ from # s
          THEN Insert(Message("undeliverable_reply", from, s, p), handled,
                      [bounced EXCEPT ![p] = @ + 1])
          ELSE UNCHANGED <<sent, table, handled, bounced>>
     /\ cur' = [cur EXCEPT ![s] = None]
     /\ stage' = [stage EXCEPT ![s] = IF inbox[s] = {} THEN "idle" ELSE "handle"]
     /\ UNCHANGED <<expired, loop, inbox, late, faults>>

(* A timeout is reported to the sender, if there is one.                   *)
Reply(s) ==
  LET p    == cur[s]
      from == sent[p].from
  IN /\ stage[s] = "reply"
     /\ IF from # None /\ from # s
          THEN Insert(Message("undeliverable_reply", from, s, p), handled,
                      [bounced EXCEPT ![p] = @ + 1])
          ELSE UNCHANGED <<sent, table, handled, bounced>>
     /\ stage' = [stage EXCEPT ![s] = "delete"]
     /\ UNCHANGED <<expired, loop, inbox, late, cur, faults>>

Delete(s) ==
  /\ stage[s] = "delete"
  /\ table' = table \ {cur[s]}
  /\ expired' = expired \ {cur[s]}
  /\ cur' = [cur EXCEPT ![s] = None]
  /\ stage' = [stage EXCEPT ![s] = IF inbox[s] = {} THEN "idle" ELSE "handle"]
  /\ UNCHANGED <<sent, loop, inbox, late, handled, bounced, faults>>

-----------------------------------------------------------------------------
(* The cycle of s is over before its end.                                  *)
Abandon(s, how) ==
  /\ loop' = [loop EXCEPT ![s] = how]
  /\ stage' = [stage EXCEPT ![s] = "idle"]
  /\ inbox' = [inbox EXCEPT ![s] = {}]
  /\ late' = [late EXCEPT ![s] = {}]
  /\ cur' = [cur EXCEPT ![s] = None]
  /\ UNCHANGED <<sent, table, expired, handled, bounced>>

(* The query, the insert of a reply or a delete raises: nothing inside     *)
(* process_inbox catches that, and a LoopingCall stops when its function   *)
(* raises.                                                                 *)
Raise(s) ==
  /\ loop[s] = "running" /\ stage[s] \in {"idle", "reply", "delete"}
  /\ Fault
  /\ Abandon(s, "stopped")

Crash(s) == loop[s] # "down" /\ Fault /\ Abandon(s, "down")

Restart(s) == loop[s] = "down" /\ Abandon(s, "running") /\ UNCHANGED faults

-----------------------------------------------------------------------------
BusStep(s) ==
  \/ Poll(s)
  \/ \E p \in inbox[s] : Handle(s, p) \/ Defer(s, p) \/ ActAndRaise(s, p)
  \/ Reply(s)
  \/ Delete(s)

Next ==
  \/ \E s \in Shard :
       \/ \E to \in Shard, from \in {s, None}, k \in GameKind :
            Send(s, to, from, k)
       \/ BusStep(s)
       \/ Raise(s) \/ Crash(s) \/ Restart(s)
  \/ \E p \in table : Expire(p)

Spec == Init /\ [][Next]_vars

(* A running LoopingCall goes on, and time passes.  Nothing says that a    *)
(* process that went down comes back.                                      *)
Fairness ==
  /\ \A s \in Shard : WF_vars(BusStep(s))
  /\ \A p \in 1..MaxSent : WF_vars(Expire(p))

FairSpec == Spec /\ Fairness

-----------------------------------------------------------------------------
(* PROPERTIES *)

(* A row disappears only when a handler has acted on it or its sender has  *)
(* been sent an undeliverable_reply, unless it carries no return address,  *)
(* wherever a cycle is cut short.                                          *)
NothingLost ==
  \A p \in 1..Len(sent) :
    \/ p \in table
    \/ handled[p] > 0 \/ bounced[p] > 0
    \/ sent[p].from = None

(* A message is handled once or bounced once, and not both, except that    *)
(* each crash or exception between a handler's effects and the delete of   *)
(* the row adds at most one more outcome.  This is what the code keeps.    *)
(* The bus's documentation promises more, one transaction for effects and  *)
(* delete: the README says how a crash breaks that.                        *)
OneOutcome ==
  \A p \in 1..Len(sent) : handled[p] + bounced[p] <= 1 + faults

(* What a cycle has read stays its own to process although no row is       *)
(* locked: the rows are in the table and addressed to it.                  *)
SoleConsumer ==
  \A s \in Shard : \A p \in inbox[s] \cup ({cur[s]} \ {None}) :
    p \in table /\ sent[p].to = s

(* The bus answers only what its handlers could refuse.  With the handlers *)
(* of the base class, which consume every reply, it does not answer its    *)
(* own answers, so that two shards never keep each other busy with replies *)
(* to replies; a subclass whose reply handlers raise or defer gives that   *)
(* up.                                                                     *)
NoReplyToReply ==
  \A p \in 1..Len(sent) :
    sent[p].about # None => sent[sent[p].about].kind \in Deferrable

(* The message p has been acted on, or its sender has processed the news   *)
(* that it was not.                                                        *)
Settled(p) ==
  \/ handled[p] > 0
  \/ \E q \in 1..Len(sent) :
       sent[q].about = p /\ sent[q].to = sent[p].from /\ handled[q] > 0

(* While all loops run, nobody waits for ever: every message with a return *)
(* address is acted on or comes back, however often it is deferred, if the *)
(* handlers of the replies consume them.                                   *)
SenderLearns ==
  (<>[](\A s \in Shard : loop[s] = "running")) =>
    \A p \in 1..MaxSent :
      (p <= Len(sent) /\ sent[p].from # None) ~> (p <= Len(sent) /\ Settled(p))

=============================================================================
