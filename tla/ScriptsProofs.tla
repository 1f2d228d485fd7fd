--------------------------- MODULE ScriptsProofs ---------------------------
(* What Scripts keeps for every set of processes and declarations.         *)
EXTENDS Scripts, TLAPS

(* A process that is about to start its loop has passed the guard, and one *)
(* that is about to clear the marker has its loop.                         *)
StageOK ==
  \A p \in Process :
    /\ stage[p] = "start" => Entitled(p)
    /\ stage[p] = "clear" => p \in task

ScriptInv == TypeOK /\ Confined /\ StageOK

LEMMA InitOK == ASSUME ScriptsAssumption, Init PROVE ScriptInv
<1>1. declared \in Declaration /\ Undeclared \in Declaration
  BY DEF Init, Declaration, Undeclared, ScriptsAssumption
<1>2. faults \in 0..MaxFaults /\ declares \in 0..MaxDeclare
  BY SMT DEF ScriptsAssumption, Init
<1>3. TypeOK
  BY <1>1, <1>2 DEF Init, TypeOK, Key
<1> QED
  BY <1>3 DEF Init, ScriptInv, Confined, StageOK

(* What a process's Attribute handler returns is a declaration, and does   *)
(* not depend on what other processes have cached.                         *)
LEMMA ViewType == ASSUME TypeOK, NEW p \in Process PROVE View(p) \in Declaration
BY DEF TypeOK, View, Declaration

LEMMA FaultBound == ASSUME ScriptsAssumption, TypeOK, Fault PROVE faults' \in 0..MaxFaults
BY SMT DEF ScriptsAssumption, TypeOK, Fault

(* A read fills the cache with what it returns, if nothing is lost, and    *)
(* changes no process's view; whoever it misleads is excused.              *)
LEMMA ReadOK ==
  ASSUME ScriptsAssumption, TypeOK, NEW p \in Process, p \in up,
         NEW d \in Declaration, Read(p, d), UNCHANGED <<declared, up>>
  PROVE  /\ cached' \in [Process -> SUBSET Key] /\ seen' \in [Process -> Declaration]
         /\ faults' \in 0..MaxFaults
         /\ excused \subseteq excused' /\ excused' \subseteq up
         /\ \A q \in Process : View(q)' = View(q)
         /\ ~Foreign(p, d) => Entitled(p)'
<1> PICK lost \in SUBSET (Key \ cached[p]) :
      /\ IF lost = {} THEN UNCHANGED faults ELSE Fault
      /\ d = [owner |-> IF "owner" \in lost THEN None ELSE View(p).owner,
              roles |-> IF "roles" \in lost THEN {} ELSE View(p).roles]
      /\ cached' = [cached EXCEPT ![p] = Key \ lost]
      /\ seen' = [seen EXCEPT ![p] = d]
      /\ excused' = IF d = View(p) THEN excused ELSE excused \cup {p}
  BY Zenon DEF Read
<1>1. cached' \in [Process -> SUBSET Key] /\ seen' \in [Process -> Declaration]
  BY DEF TypeOK
<1>2. faults' \in 0..MaxFaults
  BY FaultBound DEF TypeOK
<1>3. excused \subseteq excused' /\ excused' \subseteq up
  BY DEF TypeOK
<1>4. ASSUME NEW q \in Process PROVE View(q)' = View(q)
  <2>1. CASE q # p
    BY <2>1 DEF View, TypeOK
  <2>2. CASE q = p
    <3>1. cached'[p] = Key \ lost /\ seen'[p] = d
      BY DEF TypeOK
    <3>2. View(p).owner = View(p)'.owner
      BY <3>1 DEF View, Key
    <3>3. View(p).roles = View(p)'.roles
      BY <3>1 DEF View, Key
    <3> QED
      BY <2>2, <3>2, <3>3 DEF View
  <2> QED
    BY <2>1, <2>2
<1>5. ASSUME ~Foreign(p, d) PROVE Entitled(p)'
  <2>1. CASE d # View(p)
    BY <2>1 DEF Entitled
  <2>2. CASE d = View(p) /\ View(p) # declared
    BY <1>4, <2>2 DEF Entitled
  <2>3. CASE d = View(p) /\ View(p) = declared
    BY <1>5, <2>3 DEF Entitled, Foreign
  <2> QED
    BY <2>1, <2>2, <2>3
<1> QED
  BY <1>1, <1>2, <1>3, <1>4, <1>5

(* While the declaration and the views stay as they are, and nobody loses  *)
(* his excuse, the entitled remain so.                                     *)
LEMMA StaysEntitled ==
  ASSUME NEW p, Entitled(p), UNCHANGED declared, View(p)' = View(p),
         p \in excused => p \in excused'
  PROVE  Entitled(p)'
BY DEF Entitled, Foreign

LEMMA StartTaskOK ==
  ASSUME ScriptsAssumption, ScriptInv, NEW p \in Process, StartTask(p)
  PROVE  ScriptInv'
<1> PICK d \in Declaration :
      /\ Read(p, d)
      /\ IF Foreign(p, d) THEN UNCHANGED <<active, stage>>
                          ELSE active' = TRUE /\ Goto(p, "start")
  BY Zenon DEF StartTask
<1>1. /\ TypeOK /\ p \in up /\ stage[p] = "idle"
      /\ UNCHANGED <<marker, declared, up, task, unmarked, declares>>
  BY DEF ScriptInv, StartTask
<1>2. /\ cached' \in [Process -> SUBSET Key] /\ seen' \in [Process -> Declaration]
      /\ faults' \in 0..MaxFaults
      /\ excused \subseteq excused' /\ excused' \subseteq up
      /\ \A q \in Process : View(q)' = View(q)
      /\ ~Foreign(p, d) => Entitled(p)'
  BY <1>1, ReadOK
<1>3. \A q \in Process : Entitled(q) => Entitled(q)'
  BY <1>1, <1>2, StaysEntitled
<1>4. active' \in BOOLEAN /\ marker' \in BOOLEAN
  BY <1>1, Zenon DEF TypeOK
<1>5. TypeOK'
  BY <1>1, <1>2, <1>4 DEF TypeOK, Goto
<1>6. Confined'
  BY <1>1, <1>3 DEF ScriptInv, Confined, TypeOK
<1>7. StageOK'
  BY <1>1, <1>2, <1>3 DEF ScriptInv, StageOK, Goto, TypeOK
<1> QED
  BY <1>5, <1>6, <1>7 DEF ScriptInv

LEMMA StartLoopOK ==
  ASSUME ScriptsAssumption, ScriptInv, NEW p \in Process, StartLoop(p)
  PROVE  ScriptInv'
<1> PICK d \in Declaration :
      /\ Read(p, d)
      /\ Goto(p, IF Marked(p) /\ ~Foreign(p, d) THEN "clear" ELSE "idle")
      /\ unmarked' = IF Marked(p) \/ Foreign(p, d) THEN unmarked
                     ELSE unmarked \cup {p}
  BY Zenon DEF StartLoop
<1>1. /\ TypeOK /\ p \in up /\ stage[p] = "start" /\ Entitled(p)
      /\ task' = task \cup {p}
      /\ UNCHANGED <<row, up, declares>> /\ UNCHANGED declared
  BY DEF ScriptInv, TypeOK, StageOK, StartLoop, row
<1>2. /\ cached' \in [Process -> SUBSET Key] /\ seen' \in [Process -> Declaration]
      /\ faults' \in 0..MaxFaults
      /\ excused \subseteq excused' /\ excused' \subseteq up
      /\ \A q \in Process : View(q)' = View(q)
  BY <1>1, ReadOK
<1>3. \A q \in Process : Entitled(q) => Entitled(q)'
  BY <1>1, <1>2, StaysEntitled
<1>4. active' \in BOOLEAN /\ marker' \in BOOLEAN
  BY <1>1, Zenon DEF TypeOK, row
<1>5. TypeOK'
  BY <1>1, <1>2, <1>4 DEF TypeOK, Goto
<1>6. Confined'
  BY <1>1, <1>3 DEF ScriptInv, Confined, TypeOK
<1>7. StageOK'
  BY <1>1, <1>3 DEF ScriptInv, StageOK, Goto, TypeOK
<1> QED
  BY <1>5, <1>6, <1>7 DEF ScriptInv

LEMMA WalkOK ==
  ASSUME ScriptsAssumption, ScriptInv, NEW p \in Process, Walk(p)
  PROVE  ScriptInv'
<1>1. /\ TypeOK /\ p \in up /\ stage[p] = "walk"
      /\ UNCHANGED <<row, up, declares>> /\ UNCHANGED declared
  BY DEF ScriptInv, TypeOK, Walk, row
<1>2. active' \in BOOLEAN /\ marker' \in BOOLEAN
  BY <1>1, Zenon DEF TypeOK, row
<1>3. CASE ~active
  <2>1. Goto(p, "idle") /\ UNCHANGED <<task, cached, seen, unmarked, excused, faults>>
    BY <1>3, Zenon DEF Walk
  <2>2. \A q \in Process : Entitled(q) => Entitled(q)'
    BY <1>1, <2>1 DEF Entitled, View, Foreign
  <2> QED
    BY <1>1, <1>2, <2>1, <2>2 DEF ScriptInv, TypeOK, Confined, StageOK, Goto
<1>4. CASE active
  <2> PICK d \in Declaration :
        /\ Read(p, d)
        /\ IF marker /\ ~Foreign(p, d)
             THEN Goto(p, "clear") /\ task' = task \cup {p}
             ELSE Goto(p, "idle") /\ UNCHANGED task
        /\ unmarked' = IF marker \/ Foreign(p, d) THEN unmarked
                       ELSE unmarked \cup {p}
    BY <1>4, Zenon DEF Walk
  <2>1. /\ cached' \in [Process -> SUBSET Key] /\ seen' \in [Process -> Declaration]
        /\ faults' \in 0..MaxFaults
        /\ excused \subseteq excused' /\ excused' \subseteq up
        /\ \A q \in Process : View(q)' = View(q)
        /\ ~Foreign(p, d) => Entitled(p)'
    BY <1>1, ReadOK
  <2>2. \A q \in Process : Entitled(q) => Entitled(q)'
    BY <1>1, <2>1, StaysEntitled
  <2>3. TypeOK'
    BY <1>1, <1>2, <2>1 DEF TypeOK, Goto
  <2>4. Confined'
    BY <1>1, <2>1, <2>2 DEF ScriptInv, Confined, TypeOK
  <2>5. StageOK'
    BY <1>1, <2>2 DEF ScriptInv, StageOK, Goto, TypeOK
  <2> QED
    BY <2>3, <2>4, <2>5 DEF ScriptInv
<1> QED
  BY <1>3, <1>4

(* A change of the declaration excuses those that have passed the guard.   *)
LEMMA DeclareOK ==
  ASSUME ScriptsAssumption, ScriptInv, NEW p \in Process,
         NEW d \in Declaration, Declare(p, d),
         cached' \in [Process -> SUBSET Key], seen' \in [Process -> Declaration]
  PROVE  ScriptInv'
<1>1. declares' \in 0..MaxDeclare
  BY SMT DEF ScriptsAssumption, ScriptInv, TypeOK, Declare
<1>2. active' \in BOOLEAN /\ marker' \in BOOLEAN
  BY Zenon DEF ScriptInv, TypeOK, Declare
<1>3. TypeOK'
  BY <1>1, <1>2 DEF ScriptInv, TypeOK, Declare
<1>4. Confined' /\ StageOK'
  BY DEF ScriptInv, TypeOK, StageOK, Confined, Declare, Entitled
<1> QED
  BY <1>3, <1>4 DEF ScriptInv

LEMMA DeclareKeyOK ==
  ASSUME ScriptsAssumption, ScriptInv, NEW p \in Process,
         \/ \E o \in Shard \cup {None} : DeclareOwner(p, o)
         \/ \E r \in SUBSET Roles : DeclareRoles(p, r)
  PROVE  ScriptInv'
<1>1. ASSUME NEW o \in Shard \cup {None}, DeclareOwner(p, o) PROVE ScriptInv'
  <2>1. [declared EXCEPT !.owner = o] \in Declaration
    BY DEF ScriptInv, TypeOK, Declaration
  <2>2. cached' \in [Process -> SUBSET Key]
    BY <1>1 DEF ScriptInv, TypeOK, DeclareOwner, Key
  <2>3. seen' \in [Process -> Declaration]
    <3>1. seen[p] \in Declaration
      BY DEF ScriptInv, TypeOK
    <3>2. [seen[p] EXCEPT !.owner = o] \in Declaration
      BY <3>1 DEF Declaration
    <3>3. seen' = [seen EXCEPT ![p] = [seen[p] EXCEPT !.owner = o]]
      BY <1>1 DEF DeclareOwner
    <3> QED
      BY <3>2, <3>3 DEF ScriptInv, TypeOK
  <2> QED
    BY <1>1, <2>1, <2>2, <2>3, DeclareOK DEF DeclareOwner
<1>2. ASSUME NEW r \in SUBSET Roles, DeclareRoles(p, r) PROVE ScriptInv'
  <2>1. [declared EXCEPT !.roles = r] \in Declaration
    BY DEF ScriptInv, TypeOK, Declaration
  <2>2. cached' \in [Process -> SUBSET Key]
    BY <1>2 DEF ScriptInv, TypeOK, DeclareRoles, Key
  <2>3. seen' \in [Process -> Declaration]
    <3>1. seen[p] \in Declaration
      BY DEF ScriptInv, TypeOK
    <3>2. [seen[p] EXCEPT !.roles = r] \in Declaration
      BY <3>1 DEF Declaration
    <3>3. seen' = [seen EXCEPT ![p] = [seen[p] EXCEPT !.roles = r]]
      BY <1>2 DEF DeclareRoles
    <3> QED
      BY <3>2, <3>3 DEF ScriptInv, TypeOK
  <2> QED
    BY <1>2, <2>1, <2>2, <2>3, DeclareOK DEF DeclareRoles
<1> QED
  BY <1>1, <1>2

(* A process that ends leaves the views of the others alone.               *)
LEMMA GoneOK ==
  ASSUME ScriptInv, NEW p \in Process, Gone(p), UNCHANGED <<declared, declares>>,
         active' \in BOOLEAN, marker' \in BOOLEAN, faults' \in 0..MaxFaults,
         stage' = [stage EXCEPT ![p] = "idle"]
  PROVE  ScriptInv'
<1>1. Undeclared \in Declaration
  BY DEF Undeclared, Declaration
<1>2. TypeOK'
  BY <1>1 DEF ScriptInv, TypeOK, Gone
<1>3. \A q \in Process \ {p} : Entitled(q) => Entitled(q)'
  BY DEF ScriptInv, TypeOK, Gone, Entitled, View, Foreign
<1>4. Confined' /\ StageOK'
  BY <1>3 DEF ScriptInv, TypeOK, Confined, StageOK, Gone
<1> QED
  BY <1>2, <1>4 DEF ScriptInv

LEMMA StopOK ==
  ASSUME ScriptsAssumption, ScriptInv, NEW p \in Process, Shutdown(p) \/ Crash(p)
  PROVE  ScriptInv'
<1>1. CASE Shutdown(p)
  <2>1. active' \in BOOLEAN /\ marker' \in BOOLEAN
    BY <1>1, Zenon DEF ScriptInv, TypeOK, Shutdown
  <2>2. stage' = [stage EXCEPT ![p] = "idle"] /\ faults' \in 0..MaxFaults
    BY <1>1 DEF ScriptInv, TypeOK, Shutdown
  <2> QED
    BY <1>1, <2>1, <2>2, GoneOK DEF Shutdown
<1>2. CASE Crash(p)
  <2>1. active' \in BOOLEAN /\ marker' \in BOOLEAN
    BY <1>2, Zenon DEF ScriptInv, TypeOK, Crash, row
  <2>2. faults' \in 0..MaxFaults
    BY <1>2, FaultBound DEF ScriptInv, Crash
  <2> QED
    BY <1>2, <2>1, <2>2, GoneOK DEF Crash, row, Goto
<1> QED
  BY <1>1, <1>2

LEMMA StepOK == ASSUME ScriptsAssumption, ScriptInv, [Next]_vars PROVE ScriptInv'
<1>1. ASSUME NEW p \in Process, Clear(p) PROVE ScriptInv'
  <2>1. active' \in BOOLEAN /\ marker' \in BOOLEAN
    BY <1>1, Zenon DEF ScriptInv, TypeOK, Clear
  <2>2. TypeOK'
    BY <1>1, <2>1 DEF ScriptInv, TypeOK, Clear, Goto
  <2>3. \A q \in Process : Entitled(q) => Entitled(q)'
    BY <1>1 DEF Clear, Entitled, View, Foreign
  <2> QED
    BY <1>1, <2>2, <2>3 DEF ScriptInv, TypeOK, Confined, StageOK, Clear, Goto
<1>2. ASSUME NEW p \in Process, Boot(p) PROVE ScriptInv'
  <2>1. active' \in BOOLEAN /\ marker' \in BOOLEAN
    BY <1>2, Zenon DEF ScriptInv, TypeOK, Boot, row
  <2>2. TypeOK'
    BY <1>2, <2>1 DEF ScriptInv, TypeOK, Boot, Goto, row
  <2>3. \A q \in Process : Entitled(q) => Entitled(q)'
    BY <1>2 DEF Boot, row, Entitled, View, Foreign
  <2> QED
    BY <1>2, <2>2, <2>3 DEF ScriptInv, TypeOK, Confined, StageOK, Boot, Goto
<1>3. CASE UNCHANGED vars
  BY <1>3 DEF vars, row, ScriptInv, TypeOK, Confined, StageOK, Entitled, View, Foreign
<1> QED
  BY <1>1, <1>2, <1>3, StartTaskOK, StartLoopOK, WalkOK, DeclareKeyOK, StopOK DEF Next

(* The state of the row and the processes stays well typed, and what a     *)
(* process runs or is about to do agrees with whether it is up.            *)
THEOREM ScriptsTyped == ASSUME ScriptsAssumption PROVE Spec => []TypeOK
<1>1. Init => ScriptInv
  BY InitOK
<1>2. ScriptInv /\ [Next]_vars => ScriptInv'
  BY StepOK
<1>3. ScriptInv => TypeOK
  BY DEF ScriptInv
<1> QED
  BY <1>1, <1>2, <1>3, PTL DEF Spec

(* A script ticks nowhere but where its declaration puts it, unless the    *)
(* process passed the guard before the declaration changed, on a read that *)
(* failed, or with an older declaration in its cache; however many         *)
(* processes boot, in whatever order, and stop or crash at any point.      *)
THEOREM ScriptsConfined == ASSUME ScriptsAssumption PROVE Spec => []Confined
<1>1. Init => ScriptInv
  BY InitOK
<1>2. ScriptInv /\ [Next]_vars => ScriptInv'
  BY StepOK
<1>3. ScriptInv => Confined
  BY DEF ScriptInv
<1> QED
  BY <1>1, <1>2, <1>3, PTL DEF Spec

LEMMA OnlyClearClears ==
  ASSUME ScriptInv, [Next]_vars, marker, ~marker'
  PROVE  \E p \in task : stage[p] = "clear" /\ stage'[p] = "idle" /\ Entitled(p)
<1>1. marker' # marker
  OBVIOUS
<1>2. PICK p \in Process :
        \/ \E o \in Shard \cup {None} : DeclareOwner(p, o)
        \/ \E r \in SUBSET Roles : DeclareRoles(p, r)
        \/ StartTask(p) \/ StartLoop(p) \/ Walk(p) \/ Clear(p)
        \/ Boot(p) \/ Shutdown(p) \/ Crash(p)
  BY <1>1, Zenon DEF Next, vars, row
<1>3. ~Shutdown(p)
  BY Zenon DEF Shutdown
<1>4. Clear(p)
  BY <1>1, <1>2, <1>3, Zenon
     DEF Declare, DeclareOwner, DeclareRoles, StartTask, StartLoop, Walk, Boot, Crash, row
<1>5. p \in task /\ stage[p] = "clear" /\ stage'[p] = "idle"
  BY <1>4 DEF Clear, Goto, ScriptInv, StageOK, TypeOK
<1> QED
  BY <1>5 DEF ScriptInv, Confined

(* The guards return before they touch the pause marker: who removes it    *)
(* has attached its loop, and is entitled to the script.                   *)
THEOREM MarkersAreClaimed == ASSUME ScriptsAssumption PROVE Spec => MarkerOnlyClaimed
<1>1. Init => ScriptInv
  BY InitOK
<1>2. ScriptInv /\ [Next]_vars => ScriptInv'
  BY StepOK
<1>3. ScriptInv /\ [Next]_vars
        => [marker /\ ~marker' =>
              \E p \in task : stage[p] = "clear" /\ stage'[p] = "idle" /\ Entitled(p)]_vars
  BY OnlyClearClears
<1> QED
  BY <1>1, <1>2, <1>3, PTL DEF Spec, MarkerOnlyClaimed

=============================================================================
