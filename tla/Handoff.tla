------------------------------ MODULE Handoff ------------------------------
(***************************************************************************)
(* cross_shard_move: how an ObjectDB row and everything inside it pass     *)
(* from the shard process that owns them to another one.                   *)
(*                                                                         *)
(* Every shard is one Server process with one reactor thread.  The         *)
(* processes share a database and nothing else, so the calls of two        *)
(* processes interleave between the database statements of                 *)
(* cross_shard_move, while inside one process nothing else runs until the  *)
(* call returns.  Each statement that reads or writes the database is a    *)
(* step of its own; the transaction is one step, because other processes   *)
(* see it only when it commits.                                            *)
(***************************************************************************)
EXTENDS Naturals, FiniteSets

CONSTANTS
  Shard,      \* the keys of SHARD_URLS: one game-hosting process each
  Global,     \* GLOBAL_SHARD_ID, the shard_id "*" of rows every shard sees
  Movable,    \* rows that game code moves: characters, items, containers
  Room,       \* rows with no location, which nothing moves
  GlobalRow,  \* the rows whose shard_id is "*"
  RoomOwner,  \* the shard_id each room was created with
  Carriable,  \* rows that game code puts inside other movable rows
  Puppetable, \* rows that players control
  Dest,       \* rows that callers pass as target_location_pk
  Session,    \* client connections
  Home,       \* the shard whose Server process holds each connection
  None,       \* no location, no puppet, no redirect, no call
  StaleRefs,  \* may callers pass an instance of a row that has left?
  SameShard,  \* shards whose callers may name their own shard as target_shard
  MaxFaults   \* bound: injected failures and crashes in a behaviour

Object == Movable \cup Room
Owner  == Shard \cup {Global}

ASSUME HandoffAssumption ==
  /\ Global \notin Shard
  /\ Movable \cap Room = {}
  /\ None \notin Object /\ None \notin Shard
  /\ GlobalRow \subseteq Object
  /\ Carriable \subseteq Movable /\ Puppetable \subseteq Movable
  /\ Dest \subseteq Object
  /\ RoomOwner \in [Room -> Owner]
  /\ \A r \in Room : RoomOwner[r] = Global <=> r \in GlobalRow
  /\ Home \in [Session -> Shard]
  /\ StaleRefs \in BOOLEAN /\ SameShard \subseteq Shard
  /\ MaxFaults \in Nat

VARIABLES
  \* the database
  owner,         \* owner[x]: the shard_id column of row x
  loc,           \* loc[x]: its db_location_id column
  flushes,       \* undelivered flush_from_cache messages
  \* memory of the processes
  idmap,         \* idmap[s]: movable rows with an instance in s's idmapper
  puppet,        \* puppet[k]: the object connection k controls on its Server
  redirect,      \* redirect[k]: the shard_redirect that k has been sent
  \* the call of cross_shard_move that a process executes
  pc,            \* pc[s]: where it is
  call,          \* call[s]: its arguments
  content_pks,   \* content_pks[s]: descendants collected so far
  parents,       \* parents[s]: the level whose children are read next
  sessions,      \* sessions[s]: sessions_to_redirect not yet redirected
  faults         \* failures and crashes so far

callvars == <<call, content_pks, parents, sessions>>
vars == <<owner, loc, flushes, idmap, puppet, redirect, pc, call,
          content_pks, parents, sessions, faults>>

PC    == {"idle", "collect", "update", "detach", "redirect", "flush"}
Call  == [obj : Movable, target_shard : Shard, target_location : Dest]
Flush == [to : Shard, pk : Dest]
Sent  == [char : Movable, to : Shard]

TypeOK ==
  /\ owner \in [Object -> Owner]
  /\ loc \in [Object -> Object \cup {None}]
  /\ flushes \in SUBSET Flush
  /\ idmap \in [Shard -> SUBSET Movable]
  /\ puppet \in [Session -> Movable \cup {None}]
  /\ redirect \in [Session -> Sent \cup {None}]
  /\ pc \in [Shard -> PC]
  /\ call \in [Shard -> Call \cup {None}]
  /\ content_pks \in [Shard -> SUBSET Movable]
  /\ parents \in [Shard -> SUBSET Movable]
  /\ sessions \in [Shard -> SUBSET Session]
  /\ faults \in 0..MaxFaults

-----------------------------------------------------------------------------
(* The tenant filter of a shard process: shard_id IN (current, "*").       *)
Scope(s)   == {s, Global}
Visible(s) == {x \in Object : owner[x] \in Scope(s)}

(* Rows enter the database in a room of the shard that creates them.       *)
Init ==
  /\ \E start \in [Movable -> Room] :
       /\ \A m \in Movable \ GlobalRow : start[m] \notin GlobalRow
       /\ loc = [x \in Object |-> IF x \in Room THEN None ELSE start[x]]
       /\ owner = [x \in Object |->
                     IF x \in GlobalRow THEN Global
                     ELSE IF x \in Room THEN RoomOwner[x]
                     ELSE RoomOwner[start[x]]]
  /\ flushes = {}
  /\ idmap = [s \in Shard |-> {}]
  /\ puppet = [k \in Session |-> None]
  /\ redirect = [k \in Session |-> None]
  /\ pc = [s \in Shard |-> "idle"]
  /\ call = [s \in Shard |-> None]
  /\ content_pks = [s \in Shard |-> {}]
  /\ parents = [s \in Shard |-> {}]
  /\ sessions = [s \in Shard |-> {}]
  /\ faults = 0

Goto(s, label) == pc' = [pc EXCEPT ![s] = label]
Fault          == faults < MaxFaults /\ faults' = faults + 1

(* The call is over: its local variables are gone.                         *)
Return(s) ==
  /\ Goto(s, "idle")
  /\ call' = [call EXCEPT ![s] = None]
  /\ content_pks' = [content_pks EXCEPT ![s] = {}]
  /\ parents' = [parents EXCEPT ![s] = {}]
  /\ sessions' = [sessions EXCEPT ![s] = {}]

-----------------------------------------------------------------------------
(* What game code on shard s does between two calls, through Evennia.      *)

(* A query materialises a row that the tenant filter admits.               *)
Load(s, o) ==
  /\ pc[s] = "idle"
  /\ o \in Visible(s)
  /\ idmap' = [idmap EXCEPT ![s] = @ \cup {o}]
  /\ UNCHANGED <<owner, loc, flushes, puppet, redirect, pc, callvars, faults>>

(* c is o or lies inside it, walking up through rows that s can see.       *)
Inside(s, c, o) ==
  \A S \in SUBSET Object :
     (/\ o \in S
      /\ \A x \in Object : loc[x] \in S \cap Visible(s) => x \in S)
     => c \in S

(* obj.location = c: Evennia refuses a loop and saves that one column, and *)
(* the tenant filter on the UPDATE skips a row the process does not own.   *)
LocalMove(s, o, c) ==
  /\ pc[s] = "idle"
  /\ o \in Visible(s) /\ c \in Visible(s)
  /\ c \in Room \/ o \in Carriable
  /\ ~Inside(s, c, o)
  /\ loc' = [loc EXCEPT ![o] = c]
  /\ idmap' = [idmap EXCEPT ![s] = @ \cup ({o, c} \cap Movable)]
  /\ UNCHANGED <<owner, flushes, puppet, redirect, pc, callvars, faults>>

(* A connection takes control of a row of its shard, or lets go of it.     *)
Puppet(k, o) ==
  /\ pc[Home[k]] = "idle"
  /\ puppet[k] = None /\ redirect[k] = None
  /\ o \in Visible(Home[k])
  /\ puppet' = [puppet EXCEPT ![k] = o]
  /\ idmap' = [idmap EXCEPT ![Home[k]] = @ \cup {o}]
  /\ UNCHANGED <<owner, loc, flushes, redirect, pc, callvars, faults>>

Unpuppet(k) ==
  /\ pc[Home[k]] = "idle"
  /\ puppet[k] # None
  /\ puppet' = [puppet EXCEPT ![k] = None]
  /\ UNCHANGED <<owner, loc, flushes, idmap, redirect, pc, callvars, faults>>

(* The client follows its redirect and later comes back on a fresh one.    *)
Reconnect(k) ==
  /\ pc[Home[k]] = "idle"
  /\ redirect[k] # None
  /\ redirect' = [redirect EXCEPT ![k] = None]
  /\ UNCHANGED <<owner, loc, flushes, idmap, puppet, pc, callvars, faults>>

-----------------------------------------------------------------------------
(* The steps of cross_shard_move(o, t, d) on shard s.                      *)

(* 1-3 begin: the arguments, and the sessions that puppet o.               *)
Begin(s, o, t, d) ==
  /\ pc[s] = "idle"
  /\ o \in Visible(s) \/ StaleRefs
  /\ t # s \/ s \in SameShard
  /\ Goto(s, "collect")
  /\ call' = [call EXCEPT ![s] = [obj |-> o, target_shard |-> t,
                                  target_location |-> d]]
  /\ content_pks' = [content_pks EXCEPT ![s] = {}]
  /\ parents' = [parents EXCEPT ![s] = {o}]
  /\ sessions' = [sessions EXCEPT ![s] =
                    {k \in Session : Home[k] = s /\ puppet[k] = o}]
  /\ UNCHANGED <<owner, loc, flushes, idmap, puppet, redirect, faults>>

(* Mutant: the target row's shard_id is read and not compared.             *)
ValidateAnywhere(s, o, t, d) == Begin(s, o, t, d)

(* 1-3. The target row is read unscoped and must be on the target shard or *)
(* global.  A failed check raises and changes nothing.                     *)
Validate(s, o, t, d) == owner[d] \in {t, Global} /\ Begin(s, o, t, d)

(* Mutant: direct contents only, no descent into what they hold.           *)
ChildrenOfRoot(s) ==
  {x \in Movable \cap Visible(s) : loc[x] = call[s].obj /\ x \notin content_pks[s]}

(* Mutant: the walk never leaves its first level.                          *)
ChildrenAgain(s) == {x \in Movable \cap Visible(s) : loc[x] = call[s].obj}

(* One query of _collect_all_contents: the rows directly inside the        *)
(* current level that the tenant filter admits.                            *)
Children(s) == {x \in Movable \cap Visible(s) : loc[x] \in parents[s]}

(* 3b. One turn of the breadth-first walk.  No children: it is done.       *)
CollectLevel(s) ==
  /\ pc[s] = "collect"
  /\ IF Children(s) = {}
       THEN Goto(s, "update") /\ UNCHANGED <<content_pks, parents>>
       ELSE /\ content_pks' = [content_pks EXCEPT ![s] = @ \cup Children(s)]
            /\ parents' = [parents EXCEPT ![s] = Children(s)]
            /\ UNCHANGED pc
  /\ UNCHANGED <<owner, loc, flushes, idmap, puppet, redirect, call,
                 sessions, faults>>

(* The row and its collected contents.                                     *)
Tree(s) == {call[s].obj} \cup content_pks[s]

(* The rows that the two UPDATE statements match.                          *)
Moved(s) == {call[s].obj} \cup {x \in content_pks[s] : owner[x] = s}

(* Mutant: only the root leaves the idmapper.                              *)
EvictRoot(s) == idmap' = [idmap EXCEPT ![s] = @ \ {call[s].obj}]

Evict(s) == idmap' = [idmap EXCEPT ![s] = @ \ Tree(s)]

(* The two UPDATE statements, the assignments and evictions between them.  *)
Write(s, shard_id, db_location) ==
  /\ owner' = shard_id
  /\ loc' = db_location
  /\ Evict(s)
  /\ Goto(s, "detach")
  /\ UNCHANGED <<flushes, puppet, redirect, callvars, faults>>

NewOwner(s) ==
  [x \in Object |-> IF x \in Moved(s) THEN call[s].target_shard ELSE owner[x]]

NewLoc(s) == [loc EXCEPT ![call[s].obj] = call[s].target_location]

(* Mutant: the two values of the first UPDATE are swapped.                 *)
CommitSwapped(s) ==
  /\ pc[s] = "update"
  /\ owner[call[s].obj] = s
  /\ Write(s, [owner EXCEPT ![call[s].obj] = call[s].target_location],
              [loc EXCEPT ![call[s].obj] = call[s].target_shard])

(* Mutant: the contents get the new location as well as the new shard.     *)
CommitFlat(s) ==
  /\ pc[s] = "update"
  /\ owner[call[s].obj] = s
  /\ Write(s, NewOwner(s),
              [x \in Object |->
                 IF x \in Moved(s) THEN call[s].target_location ELSE loc[x]])

(* Mutant: the first UPDATE is not narrowed to shard_id = current_shard.   *)
CommitAnyOwner(s) == pc[s] = "update" /\ Write(s, NewOwner(s), NewLoc(s))

(* 4-5. The transaction commits: the row has shard and location replaced,  *)
(* its contents the shard; all of them leave the idmapper.                 *)
Commit(s) ==
  /\ pc[s] = "update"
  /\ owner[call[s].obj] = s
  /\ Write(s, NewOwner(s), NewLoc(s))

(* The transaction rolls back, because the first UPDATE has matched no row *)
(* or because an eviction, the second UPDATE or the commit fails: the      *)
(* handler evicts defensively and the exception reaches the caller.        *)
RollBack(s) ==
  /\ pc[s] = "update"
  /\ IF owner[call[s].obj] = s THEN Fault ELSE UNCHANGED faults
  /\ Evict(s)
  /\ Return(s)
  /\ UNCHANGED <<owner, loc, flushes, puppet, redirect>>

(* Mutant: the sessions keep their puppet until the client disconnects.    *)
DetachNone(s) ==
  /\ pc[s] = "detach"
  /\ Goto(s, "redirect")
  /\ UNCHANGED <<owner, loc, flushes, idmap, puppet, redirect, callvars, faults>>

(* 6. session.puppet = None for every session of the snapshot.             *)
Detach(s) ==
  /\ pc[s] = "detach"
  /\ puppet' = [k \in Session |->
                  IF k \in sessions[s] THEN None ELSE puppet[k]]
  /\ Goto(s, "redirect")
  /\ UNCHANGED <<owner, loc, flushes, idmap, redirect, callvars, faults>>

(* 7. _redirect_to_character_shard for one session: _last_puppet, a ticket *)
(* and the shard_redirect message; or it raises and the loop goes on.      *)
Redirect(s, k) ==
  /\ pc[s] = "redirect"
  /\ k \in sessions[s]
  /\ sessions' = [sessions EXCEPT ![s] = @ \ {k}]
  /\ \/ /\ redirect' = [redirect EXCEPT ![k] =
                          [char |-> call[s].obj, to |-> call[s].target_shard]]
        /\ UNCHANGED faults
     \/ /\ Fault
        /\ UNCHANGED redirect
  /\ UNCHANGED <<owner, loc, flushes, idmap, puppet, pc, call, content_pks,
                 parents>>

EndRedirects(s) ==
  /\ pc[s] = "redirect"
  /\ sessions[s] = {}
  /\ Goto(s, "flush")
  /\ UNCHANGED <<owner, loc, flushes, idmap, puppet, redirect, callvars,
                 faults>>

(* Mutant: the flush goes to the sender's own shard.                       *)
SendFlushHome(s) ==
  /\ pc[s] = "flush"
  /\ flushes' = IF call[s].target_shard = s THEN flushes
                ELSE flushes \cup {[to |-> s, pk |-> call[s].target_location]}
  /\ Return(s)
  /\ UNCHANGED <<owner, loc, idmap, puppet, redirect, faults>>

(* 8. Ask the destination to drop its view of the target row, unless the   *)
(* destination is this process; a failed send is logged and forgotten.     *)
SendFlush(s) ==
  /\ pc[s] = "flush"
  /\ \/ /\ flushes' = IF call[s].target_shard = s THEN flushes
                      ELSE flushes \cup {[to |-> call[s].target_shard,
                                          pk |-> call[s].target_location]}
        /\ UNCHANGED faults
     \/ /\ call[s].target_shard # s
        /\ Fault
        /\ UNCHANGED flushes
  /\ Return(s)
  /\ UNCHANGED <<owner, loc, idmap, puppet, redirect>>

-----------------------------------------------------------------------------
(* MessageHandler.handle_flush_from_cache on the receiving process.        *)
HandleFlush(m) ==
  /\ m \in flushes
  /\ pc[m.to] = "idle"
  /\ flushes' = flushes \ {m}
  /\ idmap' = [idmap EXCEPT ![m.to] = @ \ {m.pk}]
  /\ UNCHANGED <<owner, loc, puppet, redirect, pc, callvars, faults>>

(* A process dies at any point and starts again with empty memory; its     *)
(* connections have lost their puppets.                                    *)
Crash(s) ==
  /\ Fault
  /\ idmap' = [idmap EXCEPT ![s] = {}]
  /\ puppet' = [k \in Session |-> IF Home[k] = s THEN None ELSE puppet[k]]
  /\ Return(s)
  /\ UNCHANGED <<owner, loc, flushes, redirect>>

-----------------------------------------------------------------------------
(* One step of the call in progress on shard s.                            *)
MoveStep(s) ==
  \/ CollectLevel(s)
  \/ Commit(s) \/ RollBack(s)
  \/ Detach(s)
  \/ \E k \in Session : Redirect(s, k)
  \/ EndRedirects(s)
  \/ SendFlush(s)

GameStep(s) ==
  \/ \E o \in Movable : Load(s, o)
  \/ \E o \in Movable, c \in Object : LocalMove(s, o, c)
  \/ \E o \in Movable, t \in Shard, d \in Dest : Validate(s, o, t, d)

SessionStep(k) == Unpuppet(k) \/ Reconnect(k) \/ \E o \in Puppetable : Puppet(k, o)

Next ==
  \/ \E s \in Shard : MoveStep(s) \/ GameStep(s) \/ Crash(s)
  \/ \E k \in Session : SessionStep(k)
  \/ \E m \in Flush : HandleFlush(m)

Spec == Init /\ [][Next]_vars

(* The reactor goes on with a call it has begun.                           *)
Fairness == \A s \in Shard : WF_vars(MoveStep(s))

FairSpec == Spec /\ Fairness

-----------------------------------------------------------------------------
(* PROPERTIES *)

(* A row lies in a row of its own shard or in a global one: dereferencing  *)
(* obj.location on the owning process finds it, and whatever is inside a   *)
(* moved container has moved with it.                                      *)
Coherent ==
  \A x \in Object :
    loc[x] # None /\ owner[x] # Global => owner[loc[x]] \in Scope(owner[x])

(* What a call has read stays true until its UPDATE, whatever the other     *)
(* processes do meanwhile: its row and the collected ones are still the    *)
(* caller's or global, still one inside the other, and nothing that the    *)
(* caller owns inside the levels already read is missing.                  *)
CollectionSound ==
  \A s \in Shard : pc[s] \in {"collect", "update"} =>
    /\ owner[call[s].obj] \in Scope(s)
    /\ owner[call[s].target_location] \in {call[s].target_shard, Global}
    /\ \A x \in content_pks[s] :
         owner[x] \in Scope(s) /\ (owner[x] = s => loc[x] \in Tree(s))
    /\ \A x \in Object :
         /\ owner[x] = s
         /\ loc[x] \in Tree(s) /\ owner[loc[x]] = s
         /\ pc[s] = "collect" => loc[x] \notin parents[s]
         => x \in Tree(s)

(* No process caches an instance of a row that another process owns: what  *)
(* a move gives away, root and contents at every depth, it also evicts,    *)
(* whatever fails on the way.                                              *)
NoPhantom == \A s \in Shard : idmap[s] \subseteq Visible(s)

(* A connection controls a row of its own process's shard, except between  *)
(* the commit of the row's move and the detach that follows it in the same *)
(* turn of the reactor.                                                    *)
PuppetLocal ==
  \A k \in Session :
    puppet[k] # None =>
      \/ puppet[k] \in Visible(Home[k])
      \/ pc[Home[k]] = "detach" /\ k \in sessions[Home[k]]

(* A row changes shard only by the owning process's own commit, for a row  *)
(* that this call moves.  Of two processes that move the same row, the one *)
(* that no longer owns it raises: it touches no row and no session.        *)
OnlyOwnerGivesAway ==
  [][/\ \A x \in Object : owner'[x] # owner[x] =>
          \E s \in Shard :
             /\ owner[x] = s /\ pc[s] = "update"
             /\ x \in Tree(s)
     /\ \A s \in Shard :
          pc[s] = "update" /\ owner[call[s].obj] # s /\ pc'[s] # "update"
            => pc'[s] = "idle" /\ UNCHANGED <<owner, loc>>]_vars

(* Every call of cross_shard_move returns or raises.                       *)
MoveFinishes == \A s \in Shard : pc[s] # "idle" ~> pc[s] = "idle"

O == INSTANCE Ownership
       WITH Shard <- Shard, Global <- Global, Movable <- Movable,
            Room <- Room, None <- None, owner <- owner, loc <- loc

(* The steps of a call, interleaved with those of other processes, look to *)
(* the database like whole trees that change shard in one piece.           *)
ImplementsOwnership == O!Spec

=============================================================================
