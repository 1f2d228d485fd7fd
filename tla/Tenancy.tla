------------------------------ MODULE Tenancy ------------------------------
(***************************************************************************)
(* The tenant that scopes every query, how rows get their shard_id, and    *)
(* the one operation that inserts a row without it: character creation on  *)
(* the router.                                                             *)
(*                                                                         *)
(* A process runs game code on its reactor thread and on the workers of a  *)
(* thread pool, which serve one job after another.  Tenant and permission  *)
(* are variables of a thread; with blocks save what they replace and put   *)
(* it back.  The threads of a process share its idmapper, the processes    *)
(* share the rows.                                                         *)
(***************************************************************************)
EXTENDS Naturals, Sequences, FiniteSets

CONSTANTS
  Shard, Global,    \* the values of the column, Global is "*"
  Router,           \* the router's name, which is no shard
  None,             \* NULL, no tenant
  Absent,           \* no such row, no such instance
  Process,          \* the processes that run
  Reactor,          \* the thread of the reactor
  Pool,             \* Pool[p]: the workers of p's thread pool
  Row,              \* primary keys
  Entered,          \* the arguments of shard_context
  Start,            \* the shard_id of the start locations of new characters
  Given,            \* what game code sets shard_id to before an INSERT
  Assigned,         \* and on the instance of an existing row
  MaxBlocks,        \* bound: with blocks and jobs open at the same time
  MaxQueue          \* bound: jobs of a process that wait for a worker

Column == Shard \cup {Global, None}
Tenant == Shard \cup {None}
Thread == UNION {{p} \X (Pool[p] \cup {Reactor}) : p \in Process}

Block == [kind : {"context", "allow", "chargen", "job", "bare"},
          names : Tenant,    \* whom the text of the block says it acts for
          tenant : Tenant,   \* previous
          allowed : BOOLEAN] \* previous
Job == [wrapped : BOOLEAN, captured : Tenant, names : Tenant]
Instance == [shard_id : Column, marked : BOOLEAN]
Making == [stage : {"no", "creating", "created", "assigned"},
           char : Row \cup {None}, start : Start \cup {None}]

ASSUME TenancyAssumption ==
  /\ Process \subseteq Shard \cup {Router}
  /\ Router \notin Shard /\ Global \notin Shard /\ \A p \in Process : Reactor \notin Pool[p]
  /\ None \notin Shard \cup {Global} \cup Row /\ Absent \notin Column \cup Instance
  /\ Entered \subseteq Tenant /\ Start \subseteq Column \cup {Router}
  /\ Given \subseteq Column /\ Assigned \subseteq Column
  /\ MaxBlocks \in Nat /\ MaxQueue \in Nat

VARIABLES
  row,      \* row[r]: shard_id in the database
  tenant,   \* tenant[t]: get_current_tenant() on thread t, its first item
  allowed,  \* allowed[t]: unstamped_insert_allowed()
  blocks,   \* blocks[t]: the with blocks and the job that t is inside
  jobs,     \* jobs[p]: what waits for a worker
  inst,     \* inst[p][r]: the instance in the idmapper of p
  making,   \* making[t]: the create_character that t is in
  born,     \* history: how the row got its shard, or came to have none
  cleared,  \* history: rows that game code has set to NULL on an instance
  settled   \* history: what create_character gave the row as it returned

scope   == <<tenant, allowed, blocks>>
history == <<born, cleared, settled>>
vars    == <<row, scope, jobs, inst, making, history>>

TypeOK ==
  /\ row \in [Row -> Column \cup {Absent}]
  /\ tenant \in [Thread -> Tenant]
  /\ allowed \in [Thread -> BOOLEAN]
  /\ blocks \in [Thread -> Seq(Block)]
  /\ jobs \in [Process -> Seq(Job)]
  /\ inst \in [Process -> [Row -> Instance \cup {Absent}]]
  /\ making \in [Thread -> Making]
  /\ born \in [Row -> {"owned", "sanctioned", "stray"}]
  /\ cleared \in [Row -> BOOLEAN]
  /\ settled \in [Row -> Column]

NotMaking == [stage |-> "no", char |-> None, start |-> None]

(* A shard's reactor thread keeps the process's scope; the router and every *)
(* thread of the pool start without one.                                   *)
BootstrapEveryRole(t) == IF t[2] = Reactor THEN t[1] ELSE None

Bootstrap(t) == IF t[2] = Reactor /\ t[1] # Router THEN t[1] ELSE None

Init ==
  /\ row = [r \in Row |-> Absent]
  /\ tenant = [t \in Thread |-> Bootstrap(t)]
  /\ allowed = [t \in Thread |-> FALSE]
  /\ blocks = [t \in Thread |-> <<>>]
  /\ jobs = [p \in Process |-> <<>>]
  /\ inst = [p \in Process |-> [r \in Row |-> Absent]]
  /\ making = [t \in Thread |-> NotMaking]
  /\ born = [r \in Row |-> "owned"]
  /\ cleared = [r \in Row |-> FALSE]
  /\ settled = [r \in Row |-> None]

(* Game code runs on the reactor at any time and on a worker within a job; *)
(* between the statements of create_character there is none of it.         *)
Running(t) ==
  /\ t[2] = Reactor \/ blocks[t] # <<>>
  /\ making[t].stage \in {"no", "creating"}

Top(t) == blocks[t][Len(blocks[t])]
Pop(t) == SubSeq(blocks[t], 1, Len(blocks[t]) - 1)

(* Whom the thread acts for, by the text of the program.                   *)
Names(t) == IF blocks[t] = <<>> THEN Bootstrap(t) ELSE Top(t).names

InAllow(t) ==
  \E i \in 1..Len(blocks[t]) : blocks[t][i].kind \in {"allow", "chargen"}

Room == Cardinality(UNION {{t} \X DOMAIN blocks[t] : t \in Thread}) < MaxBlocks

Open(t, kind, names) ==
  /\ Room
  /\ blocks' = [blocks EXCEPT ![t] =
       Append(@, [kind |-> kind, names |-> names,
                  tenant |-> tenant[t], allowed |-> allowed[t]])]

-----------------------------------------------------------------------------
(* With blocks and jobs.                                                   *)

Enter(t, s) ==
  /\ Running(t)
  /\ Open(t, "context", s)
  /\ tenant' = [tenant EXCEPT ![t] = s]
  /\ UNCHANGED <<row, allowed, jobs, inst, making, history>>

Allow(t) ==
  /\ Running(t)
  /\ Open(t, "allow", Names(t))
  /\ allowed' = [allowed EXCEPT ![t] = TRUE]
  /\ UNCHANGED <<row, tenant, jobs, inst, making, history>>

(* preserve_tenant_context reads the tenant as it wraps the function.      *)
Dispatch(p, wrapped) ==
  LET t == <<p, Reactor>> IN
    /\ Running(t)
    /\ Pool[p] # {} /\ Len(jobs[p]) < MaxQueue
    /\ jobs' = [jobs EXCEPT ![p] =
         Append(@, [wrapped |-> wrapped, captured |-> tenant[t],
                    names |-> IF wrapped THEN Names(t) ELSE None])]
    /\ UNCHANGED <<row, scope, inst, making, history>>

(* The tenant under which the function runs on the worker; the mutant      *)
(* reads it when the function is called.                                   *)
CapturedAtCall(t, job) ==
  IF job.wrapped THEN tenant[<<t[1], Reactor>>] ELSE tenant[t]
TenantOf(t, job) == IF job.wrapped THEN job.captured ELSE tenant[t]

Take(t) ==
  LET job == Head(jobs[t[1]]) IN
    /\ t[2] # Reactor /\ blocks[t] = <<>>
    /\ jobs[t[1]] # <<>>
    /\ jobs' = [jobs EXCEPT ![t[1]] = Tail(@)]
    /\ Open(t, IF job.wrapped THEN "job" ELSE "bare", job.names)
    /\ tenant' = [tenant EXCEPT ![t] = TenantOf(t, job)]
    /\ UNCHANGED <<row, allowed, inst, making, history>>

RestoredTenant(t) ==
  IF Top(t).kind \in {"context", "job"} THEN Top(t).tenant ELSE tenant[t]

RestoredAllowed(t) ==
  IF Top(t).kind \in {"allow", "chargen"} THEN Top(t).allowed ELSE allowed[t]

(* The innermost block ends, by its last statement or by an exception.     *)
Leave(t) ==
  /\ Running(t)
  /\ blocks[t] # <<>>
  /\ blocks' = [blocks EXCEPT ![t] = Pop(t)]
  /\ tenant' = [tenant EXCEPT ![t] = RestoredTenant(t)]
  /\ allowed' = [allowed EXCEPT ![t] = RestoredAllowed(t)]
  /\ IF Top(t).kind # "chargen" THEN UNCHANGED making
     ELSE \/ making' = [making EXCEPT ![t] = NotMaking]
          \/ making[t].char # None /\ making' = [making EXCEPT ![t].stage = "created"]
  /\ UNCHANGED <<row, jobs, inst, history>>

-----------------------------------------------------------------------------
(* Rows and their instances.                                               *)

Loaded(v) == [shard_id |-> v, marked |-> FALSE]

Visible(t, v) == tenant[t] = None \/ v \in {tenant[t], Global}

(* The column of a new row for which game code has set v.                  *)
StampAlways(t, v) == IF tenant[t] # None THEN tenant[t] ELSE v

Stamp(t, v) == IF v = None THEN tenant[t] ELSE v

UnstampedInProcess(t, v) ==
  Stamp(t, v) = None /\ ~\E u \in Thread : u[1] = t[1] /\ allowed[u]

Unstamped(t, v) == Stamp(t, v) = None /\ ~allowed[t]

Birth(t, v) ==
  CASE Stamp(t, v) # None -> "owned"
    [] Stamp(t, v) = None /\ InAllow(t) -> "sanctioned"
    [] OTHER -> "stray"

InsertRow(t, r, v) ==
  /\ row[r] = Absent
  /\ ~Unstamped(t, v)
  /\ row' = [row EXCEPT ![r] = Stamp(t, v)]
  /\ inst' = [inst EXCEPT ![t[1]][r] = Loaded(Stamp(t, v))]
  /\ born' = [born EXCEPT ![r] = Birth(t, v)]

Insert(t, r, v) ==
  /\ Running(t)
  /\ InsertRow(t, r, v)
  /\ UNCHANGED <<scope, jobs, making, cleared, settled>>

BulkInsert(t, vs) ==
  /\ Running(t)
  /\ \A r \in DOMAIN vs : row[r] = Absent /\ ~Unstamped(t, vs[r])
  /\ row' = [r \in Row |-> IF r \in DOMAIN vs THEN Stamp(t, vs[r]) ELSE row[r]]
  /\ born' = [r \in Row |-> IF r \in DOMAIN vs THEN Birth(t, vs[r]) ELSE born[r]]
  /\ UNCHANGED <<scope, jobs, inst, making, cleared, settled>>

Load(t, r) ==
  /\ Running(t)
  /\ row[r] # Absent /\ Visible(t, row[r])
  /\ inst[t[1]][r] = Absent
  /\ inst' = [inst EXCEPT ![t[1]][r] = Loaded(row[r])]
  /\ UNCHANGED <<row, scope, jobs, making, history>>

(* Does the assignment raise the flag that save() checks?                  *)
NeverDiffers(i, v) == FALSE

Differs(i, v) == v # None /\ i.shard_id # None /\ v # i.shard_id

SetShard(i, v) ==
  [i EXCEPT !.shard_id = v, !.marked = @ \/ Differs(i, v)]

Assign(t, r, v) ==
  /\ Running(t)
  /\ inst[t[1]][r] # Absent
  /\ inst' = [inst EXCEPT ![t[1]][r] = SetShard(@, v)]
  /\ cleared' = [cleared EXCEPT ![r] = @ \/ v = None]
  /\ UNCHANGED <<row, scope, jobs, making, born, settled>>

(* save() of an existing row: the stamp stays on the instance even where   *)
(* the UPDATE, which has the tenant filter, matches nothing.               *)
Saved(t, r) ==
  LET i == inst[t[1]][r]
      v == Stamp(t, i.shard_id)
  IN /\ ~i.marked
     /\ inst' = [inst EXCEPT ![t[1]][r].shard_id = v]
     /\ row' = IF Visible(t, row[r]) THEN [row EXCEPT ![r] = v] ELSE row

Save(t, r) ==
  /\ Running(t)
  /\ inst[t[1]][r] # Absent
  /\ Saved(t, r)
  /\ UNCHANGED <<scope, jobs, making, history>>

-----------------------------------------------------------------------------
(* create_character on the router.                                         *)

CreateCharacter(t, start) ==
  /\ Running(t) /\ making[t].stage = "no"
  /\ t[1] = Router
  /\ Open(t, "chargen", Names(t))
  /\ allowed' = [allowed EXCEPT ![t] = TRUE]
  /\ making' = [making EXCEPT ![t] =
       [stage |-> "creating", char |-> None, start |-> start]]
  /\ UNCHANGED <<row, tenant, jobs, inst, history>>

(* The original create_character; its hooks may insert further rows.       *)
InsertCharacter(t, r) ==
  /\ making[t].stage = "creating" /\ making[t].char = None
  /\ Top(t).kind = "chargen"
  /\ InsertRow(t, r, None)
  /\ making' = [making EXCEPT ![t].char = r]
  /\ UNCHANGED <<scope, jobs, cleared, settled>>

(* The shard_id of the start location, as far as the query sees the row.   *)
LocationShard(t) ==
  IF Visible(t, making[t].start) THEN making[t].start ELSE None

Usable(v) == v \notin {None, Global, Router}

SettleCharacter(t) ==
  LET v == LocationShard(t) IN
    /\ making[t].stage = "created"
    /\ IF Usable(v)
       THEN /\ inst' = [inst EXCEPT ![t[1]][making[t].char] = SetShard(@, v)]
            /\ making' = [making EXCEPT ![t].stage = "assigned"]
       ELSE /\ making' = [making EXCEPT ![t] = NotMaking]
            /\ UNCHANGED inst
    /\ UNCHANGED <<row, scope, jobs, history>>

(* The second save raises if its UPDATE matches nothing.                   *)
SaveCharacter(t) ==
  LET r == making[t].char IN
    /\ making[t].stage = "assigned"
    /\ \/ /\ Saved(t, r)
          /\ settled' = IF Visible(t, row[r])
                        THEN [settled EXCEPT ![r] = making[t].start] ELSE settled
       \/ inst[t[1]][r].marked /\ UNCHANGED <<row, inst, settled>>
    /\ making' = [making EXCEPT ![t] = NotMaking]
    /\ UNCHANGED <<scope, jobs, born, cleared>>

(* The process dies and starts again.                                      *)
Restart(p) ==
  LET Of(t) == t[1] = p IN
    /\ tenant' = [t \in Thread |-> IF Of(t) THEN Bootstrap(t) ELSE tenant[t]]
    /\ allowed' = [t \in Thread |-> ~Of(t) /\ allowed[t]]
    /\ blocks' = [t \in Thread |-> IF Of(t) THEN <<>> ELSE blocks[t]]
    /\ making' = [t \in Thread |-> IF Of(t) THEN NotMaking ELSE making[t]]
    /\ jobs' = [jobs EXCEPT ![p] = <<>>]
    /\ inst' = [inst EXCEPT ![p] = [r \in Row |-> Absent]]
    /\ UNCHANGED <<row, history>>

-----------------------------------------------------------------------------
ScopeStep(t) ==
  \/ \E s \in Entered : Enter(t, s)
  \/ Allow(t) \/ Take(t) \/ Leave(t)

RowStep(t) ==
  \/ \E r \in Row : \/ \E v \in Given : Insert(t, r, v)
                    \/ Load(t, r)
                    \/ \E v \in Assigned : Assign(t, r, v)
                    \/ Save(t, r)
  \/ \E R \in SUBSET Row \ {{}} : \E vs \in [R -> Given] : BulkInsert(t, vs)

CharacterStep(t) ==
  \/ \E v \in Start : CreateCharacter(t, v)
  \/ \E r \in Row : InsertCharacter(t, r)
  \/ SettleCharacter(t) \/ SaveCharacter(t)

Next ==
  \/ \E t \in Thread : ScopeStep(t) \/ RowStep(t) \/ CharacterStep(t)
  \/ \E p \in Process : \/ \E wrapped \in BOOLEAN : Dispatch(p, wrapped)
                        \/ Restart(p)

Spec == Init /\ [][Next]_vars

-----------------------------------------------------------------------------
(* PROPERTIES *)

(* However blocks nest, end early or are carried to another thread, the    *)
(* tenant of a thread is the one its innermost block names, a job's is its *)
(* dispatcher's of that moment, and a NULL insert is allowed only to code  *)
(* that is itself inside the block that allows it (tenancy.py 157-162,     *)
(* 583-594, 630-647).                                                      *)
Scoped ==
  \A t \in Thread : tenant[t] = Names(t) /\ allowed[t] = InAllow(t)

(* No row comes into being without a shard except under the block meant    *)
(* for that, open on the thread of the INSERT (tenancy.py 306-352,         *)
(* 475-500).                                                               *)
NoStrayRow == \A r \in Row : born[r] # "stray"

(* A row inserted with a shard, none of whose instances is ever set to     *)
(* NULL, keeps that shard: save() does not move it, from whatever thread   *)
(* and however old the instance (tenancy.py 290-381, 394-423).             *)
OwnedRowsStay ==
  [][\A r \in Row :
       row[r] # Absent /\ row'[r] # row[r] =>
         born[r] = "sanctioned" \/ cleared[r]]_vars

(* When create_character returns a settled character its row carries the   *)
(* start location's shard, which is a shard, unless game code cleared the  *)
(* column between its two statements (chargen.py 77-99).                   *)
StartShard ==
  [][\A r \in Row :
       settled'[r] # settled[r] =>
         settled'[r] \in Shard /\ (row'[r] = settled'[r] \/ cleared[r])]_vars

=============================================================================
