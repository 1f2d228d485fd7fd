------------------------------ MODULE Scripts ------------------------------
(***************************************************************************)
(* Which processes run a persistent script.                                *)
(*                                                                         *)
(* The script is one row that every process sees; each process that runs   *)
(* it has a LoopingCall of its own.  A process that shuts down leaves a    *)
(* pause marker on the row; every process that boots walks over all active *)
(* rows and resumes those that carry the marker.  The library's guards     *)
(* around _unpause_task and _start_task keep a process away from a script  *)
(* that has been declared to belong elsewhere.  They read the declaration, *)
(* like everything that is kept in Attributes, through the process's own   *)
(* cache, which no other process updates.                                  *)
(***************************************************************************)
EXTENDS Naturals

CONSTANTS
  Process,   \* the Server processes, by their SHARD_ID or another name
  Shard,     \* those that have a SHARD_ID
  Role,      \* Role[p]: the role that process p was started with
  None,      \* no owning shard
  Declared,  \* what may have been declared at the start
  MaxFaults, \* bound: crashes, and reads that fail
  MaxDeclare \* bound: changes of the declaration

Roles == {Role[p] : p \in Process}

(* The Attributes owning_shard and owning_roles of the script.             *)
Declaration == [owner : Shard \cup {None}, roles : SUBSET Roles]
Undeclared  == [owner |-> None, roles |-> {}]
Key         == {"owner", "roles"}

ASSUME ScriptsAssumption ==
  /\ Shard \subseteq Process /\ None \notin Process
  /\ Declared \subseteq Declaration
  /\ MaxFaults \in Nat /\ MaxDeclare \in Nat

VARIABLES
  \* the row and its Attributes
  active,    \* db_is_active
  marker,    \* is _paused_time set?
  declared,  \* its declaration
  \* the processes
  up,        \* those that run
  stage,     \* stage[p]: what p does next with the script
  task,      \* those with a LoopingCall for it
  cached,    \* cached[p]: the Attributes in p's cache, ...
  seen,      \* ... seen[p]: and what it has for them
  unmarked,  \* those whose cache says that there is no marker
  \* history
  excused,   \* processes that passed the guard before the declaration
             \* changed, or on a read that failed
  faults, declares

row  == <<active, marker, declared>>
vars == <<row, up, stage, task, cached, seen, unmarked, excused, faults, declares>>

(* A process has a task while it is up, and is busy only then.             *)
TypeOK ==
  /\ active \in BOOLEAN /\ marker \in BOOLEAN
  /\ declared \in Declaration
  /\ up \subseteq Process
  /\ stage \in [Process -> {"idle", "walk", "start", "clear"}]
  /\ task \subseteq up /\ excused \subseteq up /\ unmarked \subseteq up
  /\ cached \in [Process -> SUBSET Key] /\ seen \in [Process -> Declaration]
  /\ \A p \in Process \ up : stage[p] = "idle"
  /\ faults \in 0..MaxFaults
  /\ declares \in 0..MaxDeclare

Init ==
  /\ active = FALSE /\ marker = FALSE
  /\ declared \in Declared
  /\ up = Process
  /\ stage = [p \in Process |-> "idle"]
  /\ task = {} /\ excused = {} /\ unmarked = {}
  /\ cached = [p \in Process |-> {}] /\ seen = [p \in Process |-> Undeclared]
  /\ faults = 0 /\ declares = 0

Goto(p, where) == stage' = [stage EXCEPT ![p] = where]

Fault == faults < MaxFaults /\ faults' = faults + 1

-----------------------------------------------------------------------------
(* The declaration.  The owner and the roles are two Attributes, each      *)
(* cached when it is first read or when this process writes it.            *)

(* What p's Attribute handler returns.                                     *)
View(p) ==
  [owner |-> IF "owner" \in cached[p] THEN seen[p].owner ELSE declared.owner,
   roles |-> IF "roles" \in cached[p] THEN seen[p].roles ELSE declared.roles]

(* _read_attr: a key that has to be fetched counts as not set, and is not  *)
(* cached, if that fails.  The guard on p goes by d.                       *)
Read(p, d) ==
  \E lost \in SUBSET (Key \ cached[p]) :
    /\ IF lost = {} THEN UNCHANGED faults ELSE Fault
    /\ d = [owner |-> IF "owner" \in lost THEN None ELSE View(p).owner,
            roles |-> IF "roles" \in lost THEN {} ELSE View(p).roles]
    /\ cached' = [cached EXCEPT ![p] = Key \ lost]
    /\ seen' = [seen EXCEPT ![p] = d]
    /\ excused' = IF d = View(p) THEN excused ELSE excused \cup {p}

(* Both declarations at once are a contradiction, and nobody may run it.   *)
Foreign(p, d) ==
  \/ d.owner # None /\ d.roles # {}
  \/ d.owner # None /\ d.owner # p
  \/ d.roles # {} /\ Role[p] \notin d.roles

(* The passed guards remain passed.                                        *)
Declare(p, d) ==
  /\ p \in up /\ stage[p] = "idle"
  /\ d # declared /\ declares < MaxDeclare
  /\ declared' = d
  /\ declares' = declares + 1
  /\ excused' = excused \cup task \cup {q \in up : stage[q] = "start"}
  /\ UNCHANGED <<active, marker, up, stage, task, unmarked, faults>>

(* A key that is removed leaves the cache as well.                         *)
DeclareOwner(p, o) ==
  /\ Declare(p, [declared EXCEPT !.owner = o])
  /\ seen' = [seen EXCEPT ![p].owner = o]
  /\ cached' = [cached EXCEPT ![p] = IF o = None THEN @ \ {"owner"} ELSE @ \cup {"owner"}]

DeclareRoles(p, r) ==
  /\ Declare(p, [declared EXCEPT !.roles = r])
  /\ seen' = [seen EXCEPT ![p].roles = r]
  /\ cached' = [cached EXCEPT ![p] = IF r = {} THEN @ \ {"roles"} ELSE @ \cup {"roles"}]

-----------------------------------------------------------------------------
(* Mutant: only _unpause_task is guarded.                                  *)
StartTaskUnguarded(p) ==
  /\ p \in up \ task /\ stage[p] = "idle"
  /\ active' = TRUE
  /\ Goto(p, "start")
  /\ UNCHANGED <<marker, declared, up, task, cached, seen, unmarked, excused, faults, declares>>

(* start(), unpause(), and the start of a script that is created, before   *)
(* anything can have been declared.                                        *)
StartTask(p) ==
  /\ p \in up \ task /\ stage[p] = "idle"
  /\ \E d \in Declaration :
       /\ Read(p, d)
       /\ IF Foreign(p, d) THEN UNCHANGED <<active, stage>>
                           ELSE active' = TRUE /\ Goto(p, "start")
  /\ UNCHANGED <<marker, declared, up, task, unmarked, declares>>

(* _paused_time as p reads it.                                             *)
Marked(p) == marker /\ p \notin unmarked

(* _start_task calls _unpause_task, which the second guard may block by    *)
(* now, and starts the loop itself if that did not.                        *)
StartLoop(p) ==
  /\ stage[p] = "start"
  /\ task' = task \cup {p}
  /\ \E d \in Declaration :
       /\ Read(p, d)
       /\ Goto(p, IF Marked(p) /\ ~Foreign(p, d) THEN "clear" ELSE "idle")
       /\ unmarked' = IF Marked(p) \/ Foreign(p, d) THEN unmarked
                      ELSE unmarked \cup {p}
  /\ UNCHANGED <<row, up, declares>>

(* Mutant: the guard sits behind the marker.                               *)
WalkGuardedLate(p) ==
  /\ stage[p] = "walk"
  /\ \E d \in Declaration :
       /\ Read(p, d)
       /\ IF active /\ marker
            THEN Goto(p, "clear") /\ task' = (IF Foreign(p, d) THEN task ELSE task \cup {p})
            ELSE Goto(p, "idle") /\ UNCHANGED task
  /\ UNCHANGED <<row, up, unmarked, declares>>

(* The walk of a process that boots reaches the script, if it is active.   *)
Walk(p) ==
  /\ stage[p] = "walk"
  /\ IF active
       THEN \E d \in Declaration :
              /\ Read(p, d)
              /\ IF marker /\ ~Foreign(p, d)
                   THEN Goto(p, "clear") /\ task' = task \cup {p}
                   ELSE Goto(p, "idle") /\ UNCHANGED task
              /\ unmarked' = IF marker \/ Foreign(p, d) THEN unmarked
                             ELSE unmarked \cup {p}
       ELSE Goto(p, "idle") /\ UNCHANGED <<task, cached, seen, unmarked, excused, faults>>
  /\ UNCHANGED <<row, up, declares>>

(* _unpause_task has attached the loop, and removes the marker.            *)
Clear(p) ==
  /\ stage[p] = "clear"
  /\ marker' = FALSE
  /\ unmarked' = unmarked \cup {p}
  /\ Goto(p, "idle")
  /\ UNCHANGED <<active, declared, up, task, cached, seen, excused, faults, declares>>

-----------------------------------------------------------------------------
Boot(p) ==
  /\ p \notin up
  /\ up' = up \cup {p}
  /\ Goto(p, "walk")
  /\ UNCHANGED <<row, task, cached, seen, unmarked, excused, faults, declares>>

(* A process ends, and its loop and its caches with it.                    *)
Gone(p) ==
  /\ up' = up \ {p} /\ task' = task \ {p}
  /\ excused' = excused \ {p} /\ unmarked' = unmarked \ {p}
  /\ cached' = [cached EXCEPT ![p] = {}] /\ seen' = [seen EXCEPT ![p] = Undeclared]

(* Mutant: the process forgets to stop its loop.                           *)
ShutdownRunning(p) ==
  /\ p \in up /\ stage[p] = "idle"
  /\ marker' = (marker \/ p \in task)
  /\ up' = up \ {p} /\ UNCHANGED task
  /\ excused' = excused \ {p} /\ unmarked' = unmarked \ {p}
  /\ cached' = [cached EXCEPT ![p] = {}] /\ seen' = [seen EXCEPT ![p] = Undeclared]
  /\ UNCHANGED <<active, declared, stage, faults, declares>>

(* _pause_task(auto_pause=True): only a process that holds the task writes *)
(* to the row.                                                             *)
Shutdown(p) ==
  /\ p \in up /\ stage[p] = "idle"
  /\ marker' = (marker \/ p \in task)
  /\ Gone(p)
  /\ UNCHANGED <<active, declared, stage, faults, declares>>

Crash(p) ==
  /\ p \in up
  /\ Fault
  /\ Gone(p)
  /\ Goto(p, "idle")
  /\ UNCHANGED <<row, declares>>

ScriptStep(p) == StartLoop(p) \/ Walk(p) \/ Clear(p)

Next ==
  \E p \in Process :
    \/ \E o \in Shard \cup {None} : DeclareOwner(p, o)
    \/ \E r \in SUBSET Roles : DeclareRoles(p, r)
    \/ StartTask(p) \/ StartLoop(p) \/ Walk(p) \/ Clear(p)
    \/ Boot(p) \/ Shutdown(p) \/ Crash(p)

Spec == Init /\ [][Next]_vars

(* The reactor goes on with what it has begun.  Nothing says that a        *)
(* process boots.                                                          *)
FairSpec == Spec /\ \A p \in Process : WF_vars(ScriptStep(p))

-----------------------------------------------------------------------------
(* PROPERTIES *)

(* The declaration lets p run the script; or p passed the guard before the *)
(* declaration changed or on a read that failed; or the declaration has    *)
(* changed since p cached it.                                              *)
Entitled(p) ==
  ~Foreign(p, declared) \/ p \in excused \/ View(p) # declared

(* A script ticks only where its declaration puts it, except in a process  *)
(* whose guard could not know better; and no restart excuses a process: a  *)
(* boot that follows the last change and reads it runs what it should.     *)
Confined == \A p \in task : Entitled(p)

(* The marker of a paused script is removed only by a process that has     *)
(* attached its loop and belongs to it in this sense: one that is not      *)
(* entitled consumes nothing, in whatever order the processes boot.        *)
MarkerOnlyClaimed ==
  [][marker /\ ~marker' =>
       \E p \in task : stage[p] = "clear" /\ stage'[p] = "idle" /\ Entitled(p)]_vars

(* A script that is paused while all the processes entitled to it are      *)
(* down is resumed by one of them, if they are started again from time to  *)
(* time, whichever processes boot before them, as long as those that run   *)
(* know of the declaration and no read fails.                              *)
PausedResumes ==
  (\A p \in Process : []<>(p \in up)) =>
    \A n \in 0..MaxDeclare :
      /\ declares = n /\ active /\ marker /\ excused = {}
      /\ \E p \in Process : ~Foreign(p, declared)
      /\ \A p \in up : Foreign(p, declared) /\ View(p) = declared
      ~> declares # n \/ excused # {} \/ \E p \in task : ~Foreign(p, declared)

=============================================================================
