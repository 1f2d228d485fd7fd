--------------------------- MODULE TenancyProofs ---------------------------
(***************************************************************************)
(* Theorems about Tenancy for every set of processes, threads and rows,    *)
(* and for with blocks nested to any depth.                                *)
(***************************************************************************)
EXTENDS Tenancy, TLAPS

(* What the blocks of a thread must have saved for the ends of all of them *)
(* to put the right tenant and permission back.                            *)
NamesBefore(t, i) == IF i = 1 THEN Bootstrap(t) ELSE blocks[t][i - 1].names

AllowBefore(t, i) ==
  \E j \in 1..(i - 1) : blocks[t][j].kind \in {"allow", "chargen"}

SavedWell(t, i) ==
  LET f == blocks[t][i] IN
    /\ f.kind \in {"context", "job"} => f.tenant = NamesBefore(t, i)
    /\ f.kind \in {"allow", "chargen", "bare"} => f.names = NamesBefore(t, i)
    /\ f.kind \in {"allow", "chargen"} => f.allowed = AllowBefore(t, i)

BlocksOK ==
  /\ blocks \in [Thread -> Seq(Block)]
  /\ \A t \in Thread : \A i \in 1..Len(blocks[t]) : SavedWell(t, i)

JobOK(job) == job.names = IF job.wrapped THEN job.captured ELSE None

JobsOK ==
  /\ jobs \in [Process -> Seq(Job)]
  /\ \A p \in Process : \A i \in 1..Len(jobs[p]) : JobOK(jobs[p][i])

ScopeType == tenant \in [Thread -> Tenant] /\ allowed \in [Thread -> BOOLEAN]

ScopeInv == ScopeType /\ BlocksOK /\ JobsOK /\ Scoped

LEMMA Threads ==
  ASSUME NEW t \in Thread
  PROVE  /\ t[1] \in Process
         /\ t = <<t[1], t[2]>>
         /\ t[2] \in Pool[t[1]] \cup {Reactor}
BY DEF Thread

LEMMA Reactors ==
  ASSUME NEW p \in Process PROVE <<p, Reactor>> \in Thread
BY DEF Thread

(* A reactor keeps the scope of its process, a worker has none.            *)
LEMMA BootstrapType ==
  ASSUME NEW t \in Thread
  PROVE  Bootstrap(t) \in Tenant /\ (t[2] # Reactor => Bootstrap(t) = None)
BY Threads, TenancyAssumption DEF TenancyAssumption, Bootstrap, Tenant

LEMMA NamesType ==
  ASSUME BlocksOK, NEW t \in Thread PROVE Names(t) \in Tenant
<1>1. CASE blocks[t] = <<>> BY <1>1, BootstrapType DEF Names
<1>2. CASE blocks[t] # <<>>
  <2>1. blocks[t] \in Seq(Block) BY DEF BlocksOK
  <2>2. Top(t) \in Block BY <1>2, <2>1 DEF Top
  <2>3. QED BY <1>2, <2>2 DEF Names, Block
<1>3. QED BY <1>1, <1>2

(* A block that opens saves the scope it replaces.                         *)
LEMMA Opening ==
  ASSUME ScopeInv, NEW t \in Thread, NEW names \in Tenant,
         NEW kind \in {"context", "allow", "chargen", "job", "bare"},
         Open(t, kind, names),
         kind \in {"allow", "chargen", "bare"} => names = Names(t)
  PROVE  /\ BlocksOK'
         /\ Names(t)' = names
         /\ InAllow(t)' = (InAllow(t) \/ kind \in {"allow", "chargen"})
         /\ \A u \in Thread \ {t} : /\ Names(u)' = Names(u)
                                    /\ InAllow(u)' = InAllow(u)
<1> DEFINE f == [kind |-> kind, names |-> names,
                 tenant |-> tenant[t], allowed |-> allowed[t]]
           s == blocks[t]
           n == Len(s)
<1>1. s \in Seq(Block) /\ n \in Nat BY DEF ScopeInv, BlocksOK
<1>2. f \in Block BY DEF ScopeInv, ScopeType, Block, Tenant
<1>3. /\ blocks' = [blocks EXCEPT ![t] = Append(s, f)]
      /\ blocks'[t] = Append(s, f)
  BY DEF Open, ScopeInv, BlocksOK
<1>4. /\ Append(s, f) \in Seq(Block) /\ Len(Append(s, f)) = n + 1
      /\ Append(s, f)[n + 1] = f
      /\ \A i \in 1..n : Append(s, f)[i] = s[i]
  BY <1>1, <1>2
<1>5. \A u \in Thread \ {t} : blocks'[u] = blocks[u]
  BY <1>3 DEF ScopeInv, BlocksOK
<1>6. Bootstrap(t)' = Bootstrap(t) /\ \A u \in Thread : Bootstrap(u)' = Bootstrap(u)
  BY DEF Bootstrap
<1>7. Names(t)' = names
  <2>1. Append(s, f) # <<>> BY <1>1, <1>4
  <2>2. QED BY <2>1, <1>3, <1>4 DEF Names, Top
<1>8. InAllow(t)' = (InAllow(t) \/ kind \in {"allow", "chargen"})
  <2>1. InAllow(t)' = (\E i \in 1..(n + 1) :
                         Append(s, f)[i].kind \in {"allow", "chargen"})
    BY <1>3, <1>4 DEF InAllow
  <2>2. 1..(n + 1) = (1..n) \cup {n + 1} BY <1>1
  <2>3. InAllow(t) <=> \E i \in 1..n : Append(s, f)[i].kind \in {"allow", "chargen"}
    BY <1>4 DEF InAllow
  <2>4. Append(s, f)[n + 1].kind = kind BY <1>4
  <2>5. InAllow(t)' <=> (InAllow(t) \/ kind \in {"allow", "chargen"})
    <3> HIDE DEF f
    <3>1. QED BY <2>1, <2>2, <2>3, <2>4
  <2>6. QED BY <2>5, Zenon DEF InAllow
<1>9. \A u \in Thread \ {t} : Names(u)' = Names(u) /\ InAllow(u)' = InAllow(u)
  BY <1>5, <1>6 DEF Names, Top, InAllow
<1>10. ASSUME NEW u \in Thread, NEW i \in 1..Len(blocks'[u])
       PROVE  SavedWell(u, i)'
  <2>1. CASE u # t
    <3>1. i \in 1..Len(blocks[u]) /\ blocks'[u] = blocks[u] BY <2>1, <1>5
    <3>2. SavedWell(u, i) BY <3>1 DEF ScopeInv, BlocksOK
    <3>3. QED BY <3>1, <3>2, <1>6 DEF SavedWell, NamesBefore, AllowBefore
  <2>2. CASE u = t /\ i \in 1..n
    <3>1. SavedWell(t, i) BY <2>2 DEF ScopeInv, BlocksOK
    <3>2. \A j \in 1..i : blocks'[t][j] = blocks[t][j]
      BY <2>2, <1>1, <1>3, <1>4
    <3>3. NamesBefore(t, i)' = NamesBefore(t, i)
      BY <2>2, <3>2, <1>1, <1>6 DEF NamesBefore
    <3>4. AllowBefore(t, i)' = AllowBefore(t, i)
      BY <2>2, <3>2, <1>1 DEF AllowBefore
    <3>5. blocks'[t][i] = blocks[t][i] BY <2>2, <3>2, <1>1
    <3>6. QED BY <2>2, <3>1, <3>3, <3>4, <3>5 DEF SavedWell
  <2>3. CASE u = t /\ i = n + 1
    <3>1. blocks'[t][i] = f BY <2>3, <1>3, <1>4
    <3>2. NamesBefore(t, i)' = Names(t)
      <4>1. CASE n = 0
        <5>1. s = <<>> BY <4>1, <1>1
        <5>2. QED BY <2>3, <4>1, <5>1, <1>6 DEF NamesBefore, Names
      <4>2. CASE n # 0
        <5>1. s # <<>> BY <4>2
        <5>2. blocks'[t][i - 1] = s[n] BY <4>2, <2>3, <1>1, <1>3, <1>4
        <5>3. QED BY <2>3, <4>2, <5>1, <5>2, <1>1 DEF NamesBefore, Names, Top
      <4>3. QED BY <4>1, <4>2
    <3>3. AllowBefore(t, i)' = InAllow(t)
      <4>1. AllowBefore(t, i)' =
              (\E j \in 1..n : blocks'[t][j].kind \in {"allow", "chargen"})
        BY <2>3, <1>1 DEF AllowBefore
      <4>2. QED BY <4>1, <1>3, <1>4 DEF InAllow
    <3>4. tenant[t] = Names(t) /\ allowed[t] = InAllow(t) BY DEF ScopeInv, Scoped
    <3>5. QED BY <2>3, <3>1, <3>2, <3>3, <3>4 DEF SavedWell
  <2>4. QED BY <2>1, <2>2, <2>3, <1>1, <1>3, <1>4, <1>10
<1>11. blocks' \in [Thread -> Seq(Block)] BY <1>3, <1>4 DEF ScopeInv, BlocksOK
<1>12. QED BY <1>7, <1>8, <1>9, <1>10, <1>11 DEF BlocksOK

(* A block that ends leaves the scope of the block around it.              *)
LEMMA Closing ==
  ASSUME ScopeInv, NEW t \in Thread, blocks[t] # <<>>,
         blocks' = [blocks EXCEPT ![t] = Pop(t)]
  PROVE  /\ BlocksOK'
         /\ RestoredTenant(t) = Names(t)'
         /\ RestoredAllowed(t) = InAllow(t)'
         /\ \A u \in Thread \ {t} : /\ Names(u)' = Names(u)
                                    /\ InAllow(u)' = InAllow(u)
<1> DEFINE s == blocks[t]
           n == Len(s)
           q == SubSeq(s, 1, n - 1)
<1>1. s \in Seq(Block) /\ n \in Nat /\ n > 0 BY DEF ScopeInv, BlocksOK
<1>2. /\ q \in Seq(Block) /\ Len(q) = n - 1
      /\ \A i \in 1..(n - 1) : q[i] = s[i]
  BY <1>1
<1>3. blocks'[t] = q /\ \A u \in Thread \ {t} : blocks'[u] = blocks[u]
  BY DEF ScopeInv, BlocksOK, Pop
<1>4. \A u \in Thread : Bootstrap(u)' = Bootstrap(u) BY DEF Bootstrap
<1> HIDE DEF q
<1>5. NamesBefore(t, n) = Names(t)'
  <2>1. CASE n = 1
    <3>1. q = <<>> BY <2>1, <1>2
    <3>2. QED BY <2>1, <3>1, <1>3, <1>4 DEF NamesBefore, Names
  <2>2. CASE n > 1
    <3>1. q # <<>> /\ q[n - 1] = s[n - 1] BY <2>2, <1>1, <1>2
    <3>2. QED BY <2>2, <3>1, <1>1, <1>2, <1>3 DEF NamesBefore, Names, Top
  <2>3. n = 1 \/ n > 1
    <3>1. n \in Nat /\ n > 0 BY <1>1
    <3> HIDE DEF n
    <3>2. QED BY <3>1
  <2>4. QED BY <2>1, <2>2, <2>3, Zenon
<1>6. AllowBefore(t, n) <=> InAllow(t)'
  BY <1>1, <1>2, <1>3 DEF AllowBefore, InAllow
<1>7. SavedWell(t, n) /\ Top(t) = s[n] /\ s[n] \in Block
  BY <1>1 DEF ScopeInv, BlocksOK, Top
<1>8. tenant[t] = s[n].names /\ (allowed[t] <=> InAllow(t))
  BY <1>1, <1>7 DEF ScopeInv, Scoped, Names
<1>9. RestoredTenant(t) = Names(t)'
  BY <1>5, <1>7, <1>8 DEF RestoredTenant, SavedWell, Block
<1>10. RestoredAllowed(t) <=> InAllow(t)'
  <2>1. CASE s[n].kind \in {"allow", "chargen"}
    BY <2>1, <1>6, <1>7 DEF RestoredAllowed, SavedWell
  <2>2. CASE s[n].kind \notin {"allow", "chargen"}
    <3>1. InAllow(t) <=> AllowBefore(t, n)
      BY <2>2, <1>1 DEF InAllow, AllowBefore
    <3>2. QED BY <2>2, <3>1, <1>6, <1>7, <1>8 DEF RestoredAllowed
  <2>3. QED BY <2>1, <2>2
<1>11. RestoredAllowed(t) \in BOOLEAN
  BY <1>7 DEF RestoredAllowed, Block, ScopeInv, ScopeType
<1>12. RestoredAllowed(t) = InAllow(t)' BY <1>10, <1>11 DEF InAllow
<1>13. \A u \in Thread \ {t} : Names(u)' = Names(u) /\ InAllow(u)' = InAllow(u)
  BY <1>3, <1>4 DEF Names, Top, InAllow
<1>14. ASSUME NEW u \in Thread, NEW i \in 1..Len(blocks'[u])
       PROVE  SavedWell(u, i)'
  <2>1. i \in 1..Len(blocks[u]) BY <1>1, <1>2, <1>3, <1>14
  <2>2. SavedWell(u, i) BY <2>1 DEF ScopeInv, BlocksOK
  <2>3. \A j \in 1..i : blocks'[u][j] = blocks[u][j]
    BY <1>1, <1>2, <1>3, <1>14
  <2>4. NamesBefore(u, i)' = NamesBefore(u, i)
    <3>1. i \in Nat /\ i > 0 BY <1>1, <1>2, <1>3, <1>14, <2>1 DEF ScopeInv, BlocksOK
    <3>2. QED BY <3>1, <2>3, <1>4 DEF NamesBefore
  <2>5. AllowBefore(u, i)' = AllowBefore(u, i)
    <3>1. i \in Nat BY <2>1 DEF ScopeInv, BlocksOK
    <3>2. \A j \in 1..(i - 1) : blocks'[u][j] = blocks[u][j] BY <3>1, <2>3
    <3>3. QED BY <3>2 DEF AllowBefore
  <2>6. blocks'[u][i] = blocks[u][i] BY <2>1, <2>3 DEF ScopeInv, BlocksOK
  <2>7. QED BY <2>2, <2>4, <2>5, <2>6 DEF SavedWell
<1>15. blocks' \in [Thread -> Seq(Block)] BY <1>2 DEF ScopeInv, BlocksOK, Pop, q
<1>16. QED BY <1>9, <1>12, <1>13, <1>14, <1>15 DEF BlocksOK

-----------------------------------------------------------------------------
(* Each action and the scopes.                                             *)

LEMMA InitScope == ASSUME Init PROVE ScopeInv
<1>1. \A t \in Thread : Bootstrap(t) \in Tenant BY BootstrapType
<1>2. <<>> \in Seq(Block) /\ <<>> \in Seq(Job) OBVIOUS
<1>3. \A t \in Thread : ~InAllow(t) BY DEF Init, InAllow
<1>4. ScopeType BY <1>1 DEF Init, ScopeType
<1>5. BlocksOK BY <1>2 DEF Init, BlocksOK
<1>6. JobsOK BY <1>2 DEF Init, JobsOK
<1>7. Scoped
  <2>1. ASSUME NEW t \in Thread
        PROVE  tenant[t] = Names(t) /\ allowed[t] = InAllow(t)
    <3>1. tenant[t] = Names(t) BY DEF Init, Names
    <3>2. allowed[t] = FALSE BY DEF Init
    <3>3. allowed[t] = InAllow(t) BY <3>2, <1>3 DEF InAllow
    <3>4. QED BY <3>1, <3>3
  <2>2. QED BY <2>1 DEF Scoped
<1>8. QED BY <1>4, <1>5, <1>6, <1>7 DEF ScopeInv

(* A step that leaves scopes and blocks alone.                             *)
LEMMA SameScope ==
  ASSUME ScopeInv, UNCHANGED scope, JobsOK' PROVE ScopeInv'
<1>1. \A t \in Thread : Bootstrap(t)' = Bootstrap(t) BY DEF Bootstrap
<1>2. \A t \in Thread : Names(t)' = Names(t) /\ InAllow(t)' = InAllow(t)
  BY <1>1 DEF scope, Names, Top, InAllow
<1>3. BlocksOK'
  BY <1>1 DEF scope, ScopeInv, BlocksOK, SavedWell, NamesBefore, AllowBefore
<1>4. QED BY <1>2, <1>3 DEF scope, ScopeInv, ScopeType, Scoped

LEMMA SameJobs == ASSUME ScopeInv, UNCHANGED jobs PROVE JobsOK'
BY DEF ScopeInv, JobsOK, JobOK

LEMMA EnterScope ==
  ASSUME ScopeInv, NEW t \in Thread, NEW s \in Entered, Enter(t, s)
  PROVE  ScopeInv'
<1>1. s \in Tenant BY TenancyAssumption DEF TenancyAssumption
<1>2. Open(t, "context", s) BY DEF Enter
<1>3. /\ BlocksOK'
      /\ Names(t)' = s /\ InAllow(t)' = InAllow(t)
      /\ \A u \in Thread \ {t} : Names(u)' = Names(u) /\ InAllow(u)' = InAllow(u)
  <2>1. BlocksOK' /\ Names(t)' = s
        /\ InAllow(t)' = (InAllow(t) \/ "context" \in {"allow", "chargen"})
        /\ \A u \in Thread \ {t} : Names(u)' = Names(u) /\ InAllow(u)' = InAllow(u)
    BY <1>1, <1>2, Opening
  <2>2. QED BY <2>1 DEF InAllow
<1>4. tenant' = [tenant EXCEPT ![t] = s] /\ allowed' = allowed /\ jobs' = jobs
  BY DEF Enter
<1>5. QED BY <1>1, <1>3, <1>4, SameJobs DEF ScopeInv, ScopeType, Scoped

(* The two blocks that open the guard.                                     *)
LEMMA AllowScope ==
  ASSUME ScopeInv, NEW t \in Thread, NEW kind \in {"allow", "chargen"},
         Open(t, kind, Names(t)),
         allowed' = [allowed EXCEPT ![t] = TRUE], UNCHANGED <<tenant, jobs>>
  PROVE  ScopeInv'
<1>1. Names(t) \in Tenant BY NamesType DEF ScopeInv
<1>2. /\ BlocksOK'
      /\ Names(t)' = Names(t) /\ InAllow(t)' = TRUE
      /\ \A u \in Thread \ {t} : Names(u)' = Names(u) /\ InAllow(u)' = InAllow(u)
  <2>1. BlocksOK' /\ Names(t)' = Names(t)
        /\ InAllow(t)' = (InAllow(t) \/ kind \in {"allow", "chargen"})
        /\ \A u \in Thread \ {t} : Names(u)' = Names(u) /\ InAllow(u)' = InAllow(u)
    BY <1>1, Opening
  <2>2. QED BY <2>1 DEF InAllow
<1>3. QED BY <1>2, SameJobs DEF ScopeInv, ScopeType, Scoped

LEMMA TakeScope ==
  ASSUME ScopeInv, NEW t \in Thread, Take(t) PROVE ScopeInv'
<1> DEFINE job == Head(jobs[t[1]])
           kind == IF job.wrapped THEN "job" ELSE "bare"
<1>1. t[1] \in Process BY Threads
<1>2. jobs[t[1]] \in Seq(Job) /\ jobs[t[1]] # <<>>
  BY <1>1 DEF Take, ScopeInv, JobsOK
<1>3. job \in Job /\ JobOK(job)
  BY <1>1, <1>2 DEF ScopeInv, JobsOK
<1>4. /\ Open(t, kind, job.names)
      /\ tenant' = [tenant EXCEPT ![t] = TenantOf(t, job)]
      /\ allowed' = allowed
      /\ jobs' = [jobs EXCEPT ![t[1]] = Tail(@)]
      /\ t[2] # Reactor /\ blocks[t] = <<>>
  BY DEF Take
<1>5. JobsOK'
  <2>1. /\ Tail(jobs[t[1]]) \in Seq(Job)
        /\ \A i \in 1..Len(Tail(jobs[t[1]])) :
             i + 1 \in 1..Len(jobs[t[1]]) /\ Tail(jobs[t[1]])[i] = jobs[t[1]][i + 1]
    BY <1>2
  <2>2. \A i \in 1..Len(Tail(jobs[t[1]])) : JobOK(Tail(jobs[t[1]])[i])
    BY <2>1, <1>1 DEF ScopeInv, JobsOK
  <2>3. QED BY <2>1, <2>2, <1>1, <1>4 DEF ScopeInv, JobsOK, JobOK
<1>6. Names(t) = None /\ tenant[t] = None
  BY <1>4, BootstrapType DEF Names, ScopeInv, Scoped
<1>7. job.names \in Tenant BY <1>3 DEF Job
<1>8. kind \in {"allow", "chargen", "bare"} => job.names = Names(t)
  BY <1>3, <1>6 DEF JobOK
<1>9. /\ BlocksOK'
      /\ Names(t)' = job.names /\ InAllow(t)' = InAllow(t)
      /\ \A u \in Thread \ {t} : Names(u)' = Names(u) /\ InAllow(u)' = InAllow(u)
  <2>1. kind \in {"context", "allow", "chargen", "job", "bare"}
        /\ kind \notin {"allow", "chargen"}
    OBVIOUS
  <2> HIDE DEF job, kind
  <2>2. BlocksOK' /\ Names(t)' = job.names
        /\ InAllow(t)' = (InAllow(t) \/ kind \in {"allow", "chargen"})
        /\ \A u \in Thread \ {t} : Names(u)' = Names(u) /\ InAllow(u)' = InAllow(u)
    BY <1>4, <1>7, <1>8, <2>1, Opening
  <2>3. QED BY <2>1, <2>2 DEF InAllow
<1>10. TenantOf(t, job) = job.names BY <1>3, <1>6 DEF TenantOf, JobOK
<1>11. QED BY <1>4, <1>5, <1>7, <1>9, <1>10 DEF ScopeInv, ScopeType, Scoped

LEMMA LeaveScope ==
  ASSUME ScopeInv, NEW t \in Thread, Leave(t) PROVE ScopeInv'
<1>1. /\ blocks[t] # <<>> /\ blocks' = [blocks EXCEPT ![t] = Pop(t)]
      /\ tenant' = [tenant EXCEPT ![t] = RestoredTenant(t)]
      /\ allowed' = [allowed EXCEPT ![t] = RestoredAllowed(t)]
      /\ jobs' = jobs
  BY DEF Leave
<1>2. /\ BlocksOK'
      /\ RestoredTenant(t) = Names(t)' /\ RestoredAllowed(t) = InAllow(t)'
      /\ \A u \in Thread \ {t} : Names(u)' = Names(u) /\ InAllow(u)' = InAllow(u)
  BY <1>1, Closing
<1>3. RestoredTenant(t) \in Tenant
  <2>1. Top(t) \in Block BY <1>1 DEF ScopeInv, BlocksOK, Top
  <2>2. QED BY <2>1 DEF RestoredTenant, Block, ScopeInv, ScopeType
<1>4. RestoredAllowed(t) \in BOOLEAN
  <2>1. Top(t) \in Block BY <1>1 DEF ScopeInv, BlocksOK, Top
  <2>2. QED BY <2>1 DEF RestoredAllowed, Block, ScopeInv, ScopeType
<1>5. QED BY <1>1, <1>2, <1>3, <1>4, SameJobs DEF ScopeInv, ScopeType, Scoped

LEMMA DispatchScope ==
  ASSUME ScopeInv, NEW p \in Process, NEW wrapped \in BOOLEAN,
         Dispatch(p, wrapped)
  PROVE  ScopeInv'
<1> DEFINE t == <<p, Reactor>>
           job == [wrapped |-> wrapped, captured |-> tenant[t],
                   names |-> IF wrapped THEN Names(t) ELSE None]
<1>1. t \in Thread BY Reactors
<1>2. tenant[t] = Names(t) /\ Names(t) \in Tenant
  BY <1>1, NamesType DEF ScopeInv, Scoped
<1>3. job \in Job /\ JobOK(job) BY <1>2 DEF Job, JobOK, Tenant
<1>4. jobs' = [jobs EXCEPT ![p] = Append(@, job)] /\ UNCHANGED scope
  BY DEF Dispatch
<1> HIDE DEF job, t
<1>5. /\ Append(jobs[p], job) \in Seq(Job)
      /\ \A i \in 1..Len(Append(jobs[p], job)) :
           \/ Append(jobs[p], job)[i] = job
           \/ i \in 1..Len(jobs[p]) /\ Append(jobs[p], job)[i] = jobs[p][i]
  BY <1>3 DEF ScopeInv, JobsOK
<1>6. \A i \in 1..Len(Append(jobs[p], job)) : JobOK(Append(jobs[p], job)[i])
  BY <1>3, <1>5 DEF ScopeInv, JobsOK
<1>7. JobsOK' BY <1>4, <1>5, <1>6 DEF ScopeInv, JobsOK, JobOK
<1>8. QED BY <1>4, <1>7, SameScope

LEMMA RestartScope ==
  ASSUME ScopeInv, NEW p \in Process, Restart(p) PROVE ScopeInv'
<1>1. \A t \in Thread : Bootstrap(t)' = Bootstrap(t) BY DEF Bootstrap
<1>2. ASSUME NEW t \in Thread, t[1] = p
      PROVE  /\ blocks'[t] = <<>> /\ tenant'[t] = Bootstrap(t) /\ ~allowed'[t]
             /\ Names(t)' = Bootstrap(t) /\ ~InAllow(t)'
  <2>1. blocks'[t] = <<>> /\ tenant'[t] = Bootstrap(t) BY <1>2 DEF Restart
  <2>2. ~allowed'[t] BY <1>2 DEF Restart
  <2>3. Names(t)' = Bootstrap(t) BY <2>1, <1>1 DEF Names
  <2>4. ~InAllow(t)' BY <2>1 DEF InAllow
  <2>5. QED BY <2>1, <2>2, <2>3, <2>4
<1>3. ASSUME NEW t \in Thread, t[1] # p
      PROVE  /\ blocks'[t] = blocks[t] /\ tenant'[t] = tenant[t]
             /\ allowed'[t] = allowed[t]
             /\ Names(t)' = Names(t) /\ InAllow(t)' = InAllow(t)
  <2>1. blocks'[t] = blocks[t] /\ tenant'[t] = tenant[t] BY <1>3 DEF Restart
  <2>2. allowed'[t] = allowed[t] BY <1>3 DEF Restart, ScopeInv, ScopeType
  <2>3. QED BY <2>1, <2>2, <1>1 DEF Names, Top, InAllow
<1>4. <<>> \in Seq(Block) /\ <<>> \in Seq(Job) OBVIOUS
<1>5. blocks' \in [Thread -> Seq(Block)]
  BY <1>4 DEF Restart, ScopeInv, BlocksOK
<1>6. ASSUME NEW t \in Thread, NEW i \in 1..Len(blocks'[t]) PROVE SavedWell(t, i)'
  <2>1. t[1] # p BY <1>2, <1>6
  <2>2. blocks'[t] = blocks[t] /\ i \in 1..Len(blocks[t]) BY <2>1, <1>3, <1>6
  <2>3. SavedWell(t, i) BY <2>2 DEF ScopeInv, BlocksOK
  <2>4. QED BY <2>2, <2>3, <1>1 DEF SavedWell, NamesBefore, AllowBefore
<1>7. JobsOK' BY <1>4 DEF Restart, ScopeInv, JobsOK, JobOK
<1>8. ScopeType' BY BootstrapType DEF Restart, ScopeInv, ScopeType
<1>9. Scoped'
  <2>1. ASSUME NEW t \in Thread
        PROVE  tenant'[t] = Names(t)' /\ allowed'[t] = InAllow(t)'
    <3>1. CASE t[1] = p
      <4>1. allowed'[t] \in BOOLEAN BY <1>8 DEF ScopeType
      <4>2. QED BY <3>1, <4>1, <1>2 DEF InAllow
    <3>2. CASE t[1] # p BY <3>2, <1>3 DEF ScopeInv, Scoped
    <3>3. QED BY <3>1, <3>2
  <2>2. QED BY <2>1 DEF Scoped
<1>10. QED BY <1>5, <1>6, <1>7, <1>8, <1>9 DEF ScopeInv, BlocksOK

-----------------------------------------------------------------------------
(* Scopes along every behavior.                                            *)

LEMMA Cases ==
  ASSUME Next
  PROVE  \/ \E t \in Thread, s \in Entered : Enter(t, s)
         \/ \E t \in Thread : Allow(t)
         \/ \E t \in Thread : Take(t)
         \/ \E t \in Thread : Leave(t)
         \/ \E t \in Thread, r \in Row, v \in Given : Insert(t, r, v)
         \/ \E t \in Thread, r \in Row : Load(t, r)
         \/ \E t \in Thread, r \in Row, v \in Assigned : Assign(t, r, v)
         \/ \E t \in Thread, r \in Row : Save(t, r)
         \/ \E t \in Thread, R \in SUBSET Row : \E vs \in [R -> Given] :
               BulkInsert(t, vs)
         \/ \E t \in Thread, v \in Start : CreateCharacter(t, v)
         \/ \E t \in Thread, r \in Row : InsertCharacter(t, r)
         \/ \E t \in Thread : SettleCharacter(t)
         \/ \E t \in Thread : SaveCharacter(t)
         \/ \E p \in Process, wrapped \in BOOLEAN : Dispatch(p, wrapped)
         \/ \E p \in Process : Restart(p)
BY Zenon DEF Next, ScopeStep, RowStep, CharacterStep

LEMMA StepScope == ASSUME ScopeInv, [Next]_vars PROVE ScopeInv'
<1>1. CASE UNCHANGED vars BY <1>1, SameJobs, SameScope DEF vars, scope
<1>2. CASE \E t \in Thread, s \in Entered : Enter(t, s) BY <1>2, EnterScope
<1>3. CASE \E t \in Thread : Allow(t)
  BY <1>3, AllowScope DEF Allow
<1>4. CASE \E t \in Thread : Take(t) BY <1>4, TakeScope
<1>5. CASE \E t \in Thread : Leave(t) BY <1>5, LeaveScope
<1>6. CASE \E t \in Thread, v \in Start : CreateCharacter(t, v)
  BY <1>6, AllowScope DEF CreateCharacter
<1>7. CASE \E p \in Process, wrapped \in BOOLEAN : Dispatch(p, wrapped)
  BY <1>7, DispatchScope
<1>8. CASE \E p \in Process : Restart(p) BY <1>8, RestartScope
<1>9. CASE \/ \E t \in Thread, r \in Row, v \in Given : Insert(t, r, v)
           \/ \E t \in Thread, r \in Row : Load(t, r)
           \/ \E t \in Thread, r \in Row, v \in Assigned : Assign(t, r, v)
           \/ \E t \in Thread, r \in Row : Save(t, r)
           \/ \E t \in Thread, R \in SUBSET Row : \E vs \in [R -> Given] :
                 BulkInsert(t, vs)
           \/ \E t \in Thread, r \in Row : InsertCharacter(t, r)
           \/ \E t \in Thread : SettleCharacter(t)
           \/ \E t \in Thread : SaveCharacter(t)
  <2>1. UNCHANGED scope /\ UNCHANGED jobs
    BY <1>9 DEF Insert, Load, Assign, Save, BulkInsert, InsertCharacter,
                SettleCharacter, SaveCharacter
  <2>2. QED BY <2>1, SameJobs, SameScope
<1>10. QED
  BY <1>1, <1>2, <1>3, <1>4, <1>5, <1>6, <1>7, <1>8, <1>9, Cases, Zenon

(* However with blocks nest and whatever thread a job lands on, a thread's *)
(* tenant and permission are those of its innermost blocks.                *)
THEOREM AlwaysScoped == Spec => []Scoped
<1>1. Init => ScopeInv BY InitScope
<1>2. ScopeInv /\ [Next]_vars => ScopeInv' BY StepScope
<1>3. ScopeInv => Scoped BY DEF ScopeInv
<1>4. QED BY <1>1, <1>2, <1>3, PTL DEF Spec

(* No INSERT that the guard lets through makes a stray row.                *)
LEMMA NeverStray ==
  ASSUME ScopeInv, NEW t \in Thread, NEW v, ~Unstamped(t, v)
  PROVE  Birth(t, v) # "stray"
<1>1. Stamp(t, v) # None \/ InAllow(t)
  BY DEF Unstamped, ScopeInv, Scoped
<1>2. QED BY <1>1 DEF Birth

LEMMA StepStray ==
  ASSUME ScopeInv, NoStrayRow, [Next]_vars PROVE NoStrayRow'
<1>1. CASE UNCHANGED born BY <1>1 DEF NoStrayRow
<1>2. ASSUME NEW t \in Thread, NEW r \in Row, NEW v, InsertRow(t, r, v)
      PROVE  NoStrayRow'
  BY <1>2, NeverStray DEF InsertRow, NoStrayRow
<1>3. CASE \E t \in Thread, r \in Row, v \in Given : Insert(t, r, v)
  BY <1>2, <1>3 DEF Insert
<1>4. CASE \E t \in Thread, r \in Row : InsertCharacter(t, r)
  BY <1>2, <1>4 DEF InsertCharacter
<1>5. CASE \E t \in Thread, R \in SUBSET Row : \E vs \in [R -> Given] :
             BulkInsert(t, vs)
  BY <1>5, NeverStray DEF BulkInsert, NoStrayRow
<1>6. CASE ~ (\/ \E t \in Thread, r \in Row, v \in Given : Insert(t, r, v)
              \/ \E t \in Thread, r \in Row : InsertCharacter(t, r)
              \/ \E t \in Thread, R \in SUBSET Row : \E vs \in [R -> Given] :
                    BulkInsert(t, vs))
  <2>1. CASE UNCHANGED vars BY <2>1, <1>1 DEF vars, history
  <2>2. CASE Next
    <3>1. UNCHANGED born
      BY <1>6, <2>2, Cases DEF Enter, Allow, Take, Leave, Load, Assign, Save,
         CreateCharacter, SettleCharacter, SaveCharacter, Dispatch, Restart,
         history
    <3>2. QED BY <3>1, <1>1
  <2>3. QED BY <2>1, <2>2
<1>7. QED BY <1>3, <1>4, <1>5, <1>6

(* A row without a shard was inserted by a thread that was itself inside   *)
(* an allow_unstamped_insert block, or lost its shard after its INSERT.    *)
THEOREM NoStrayRows == Spec => []NoStrayRow
<1>1. Init => ScopeInv /\ NoStrayRow
  BY InitScope DEF Init, NoStrayRow
<1>2. ScopeInv /\ NoStrayRow /\ [Next]_vars => ScopeInv' /\ NoStrayRow'
  BY StepScope, StepStray
<1>3. QED BY <1>1, <1>2, PTL DEF Spec

-----------------------------------------------------------------------------
(* The rows and their instances.                                           *)

RowType ==
  /\ row \in [Row -> Column \cup {Absent}]
  /\ inst \in [Process -> [Row -> Instance \cup {Absent}]]
  /\ making \in [Thread -> Making]
  /\ born \in [Row -> {"owned", "sanctioned", "stray"}]
  /\ cleared \in [Row -> BOOLEAN]
  /\ settled \in [Row -> Column]

(* A character in the making has its row, and its process the instance.    *)
MakingOK ==
  \A t \in Thread :
    /\ making[t].stage \in {"created", "assigned"} =>
         making[t].char # None /\ (making[t].stage = "assigned" => making[t].start \in Shard)
    /\ making[t].char # None => /\ row[making[t].char] # Absent
                                /\ inst[t[1]][making[t].char] # Absent

Firm(r) == row[r] # Absent /\ born[r] # "sanctioned" /\ ~cleared[r]

(* Every instance of a row that was never without a shard agrees with the  *)
(* row, or save() refuses it.                                              *)
InstancesOK ==
  /\ \A r \in Row, p \in Process : inst[p][r] # Absent => row[r] # Absent
  /\ \A r \in Row : Firm(r) =>
       /\ row[r] # None
       /\ \A p \in Process : inst[p][r] # Absent =>
            inst[p][r].marked \/ inst[p][r].shard_id = row[r]

RowInv == ScopeInv /\ NoStrayRow /\ RowType /\ MakingOK /\ InstancesOK

LEMMA StampType ==
  ASSUME ScopeInv, NEW t \in Thread, NEW v \in Column
  PROVE  Stamp(t, v) \in Column
BY DEF Stamp, ScopeInv, ScopeType, Tenant, Column

LEMMA InstanceType ==
  ASSUME NEW v \in Column
  PROVE  /\ Loaded(v) \in Instance /\ Loaded(v) # Absent
         /\ Loaded(v).shard_id = v
         /\ \A i \in Instance :
              /\ SetShard(i, v) \in Instance /\ SetShard(i, v) # Absent
              /\ SetShard(i, v).shard_id = v
              /\ SetShard(i, v).marked = (i.marked \/ Differs(i, v))
              /\ [i EXCEPT !.shard_id = v] \in Instance
              /\ [i EXCEPT !.shard_id = v] # Absent
              /\ [i EXCEPT !.shard_id = v].shard_id = v
              /\ [i EXCEPT !.shard_id = v].marked = i.marked
<1>1. Absent \notin Instance BY TenancyAssumption DEF TenancyAssumption
<1>2. Loaded(v) \in Instance /\ Loaded(v).shard_id = v BY DEF Loaded, Instance
<1>3. ASSUME NEW i \in Instance
      PROVE  /\ SetShard(i, v) \in Instance /\ SetShard(i, v).shard_id = v
             /\ SetShard(i, v).marked = (i.marked \/ Differs(i, v))
             /\ [i EXCEPT !.shard_id = v] \in Instance
             /\ [i EXCEPT !.shard_id = v].shard_id = v
             /\ [i EXCEPT !.shard_id = v].marked = i.marked
  <2>1. Differs(i, v) \in BOOLEAN BY DEF Differs
  <2>2. QED BY <2>1 DEF SetShard, Instance
<1>4. QED BY <1>1, <1>2, <1>3

(* Nothing that is there goes away.                                        *)
Kept ==
  /\ \A r \in Row : row[r] # Absent => row'[r] # Absent
  /\ \A p \in Process, r \in Row : inst[p][r] # Absent => inst'[p][r] # Absent

Steady == \A r \in Row : Firm(r) => row'[r] = row[r]

LEMMA KeepMaking ==
  ASSUME RowType, MakingOK, Kept, UNCHANGED making PROVE MakingOK'
<1>1. ASSUME NEW t \in Thread, making[t].char # None
      PROVE  row'[making[t].char] # Absent /\ inst'[t[1]][making[t].char] # Absent
  <2>1. making[t].char \in Row BY <1>1 DEF RowType, Making
  <2>2. t[1] \in Process BY Threads
  <2>3. QED BY <1>1, <2>1, <2>2 DEF MakingOK, Kept
<1>2. QED BY <1>1 DEF MakingOK

(* save() of an instance that is there.                                    *)
LEMMA SavedRows ==
  ASSUME RowInv, NEW t \in Thread, NEW r \in Row, inst[t[1]][r] # Absent,
         Saved(t, r), UNCHANGED <<born, cleared>>
  PROVE  /\ row' \in [Row -> Column \cup {Absent}]
         /\ inst' \in [Process -> [Row -> Instance \cup {Absent}]]
         /\ InstancesOK' /\ Kept /\ Steady
<1> DEFINE p == t[1]
           i == inst[p][r]
           v == Stamp(t, i.shard_id)
           j == [i EXCEPT !.shard_id = v]
<1>1. p \in Process BY Threads
<1>2. i \in Instance /\ i.shard_id \in Column
  BY <1>1 DEF RowInv, RowType, Instance
<1>3. v \in Column BY <1>2, StampType DEF RowInv
<1>4. j \in Instance /\ j # Absent /\ j.shard_id = v /\ j.marked = i.marked
  BY <1>2, <1>3, InstanceType
<1>5. /\ ~i.marked
      /\ inst' = [inst EXCEPT ![p] = [inst[p] EXCEPT ![r] = j]]
      /\ row' = IF Visible(t, row[r]) THEN [row EXCEPT ![r] = v] ELSE row
  BY DEF Saved
<1>6. v # Absent BY <1>3, TenancyAssumption DEF TenancyAssumption
<1>7. Firm(r) => v = row[r]
  BY <1>1, <1>5 DEF RowInv, InstancesOK, Stamp
<1> HIDE DEF j, v, i, p
<1>8. row' \in [Row -> Column \cup {Absent}]
  BY <1>3, <1>5 DEF RowInv, RowType
<1>9. inst' \in [Process -> [Row -> Instance \cup {Absent}]]
  BY <1>1, <1>4, <1>5 DEF RowInv, RowType
<1>10. \A x \in Row : row'[x] = row[x] \/ (x = r /\ row'[x] = v)
  BY <1>5 DEF RowInv, RowType
<1>11. /\ inst'[p][r] = j
       /\ \A q \in Process, x \in Row :
            (q # p \/ x # r) => inst'[q][x] = inst[q][x]
  BY <1>1, <1>5 DEF RowInv, RowType
<1>12. row[r] # Absent BY <1>1 DEF RowInv, InstancesOK, p
<1>13. Kept BY <1>4, <1>6, <1>10, <1>11 DEF Kept
<1>14. Steady BY <1>7, <1>10 DEF Steady
<1>15. \A x \in Row : Firm(x)' => Firm(x)
  BY <1>10, <1>12 DEF Firm
<1>16. InstancesOK'
  <2>1. ASSUME NEW x \in Row, NEW q \in Process, inst'[q][x] # Absent
        PROVE  row'[x] # Absent
    <3>1. row[x] # Absent
      BY <2>1, <1>11, <1>12 DEF RowInv, InstancesOK
    <3>2. QED BY <3>1, <1>13 DEF Kept
  <2>2. ASSUME NEW x \in Row, Firm(x)'
        PROVE  /\ row'[x] # None
               /\ \A q \in Process : inst'[q][x] # Absent =>
                    inst'[q][x].marked \/ inst'[q][x].shard_id = row'[x]
    <3>1. Firm(x) BY <2>2, <1>15
    <3>2. row'[x] = row[x] /\ row[x] # None
      BY <3>1, <1>14 DEF Steady, RowInv, InstancesOK
    <3>3. ASSUME NEW q \in Process, inst'[q][x] # Absent
          PROVE  inst'[q][x].marked \/ inst'[q][x].shard_id = row'[x]
      <4>1. CASE q = p /\ x = r BY <4>1, <3>1, <3>2, <1>4, <1>7, <1>11
      <4>2. CASE q # p \/ x # r
        BY <4>2, <3>1, <3>2, <3>3, <1>11 DEF RowInv, InstancesOK
      <4>3. QED BY <4>1, <4>2
    <3>4. QED BY <3>2, <3>3
  <2>3. QED BY <2>1, <2>2 DEF InstancesOK
<1>17. QED BY <1>8, <1>9, <1>13, <1>14, <1>16

(* The rows that an INSERT adds: vs[r] is what game code asked for.        *)
LEMMA InsertedRows ==
  ASSUME RowInv, NEW t \in Thread, NEW R \in SUBSET Row, NEW vs \in [R -> Column],
         \A r \in R : row[r] = Absent /\ ~Unstamped(t, vs[r]),
         row' = [r \in Row |-> IF r \in R THEN Stamp(t, vs[r]) ELSE row[r]],
         born' = [r \in Row |-> IF r \in R THEN Birth(t, vs[r]) ELSE born[r]],
         inst' \in [Process -> [Row -> Instance \cup {Absent}]],
         \A p \in Process, r \in Row :
           \/ inst'[p][r] = inst[p][r]
           \/ r \in R /\ inst'[p][r] = Loaded(Stamp(t, vs[r])),
         UNCHANGED cleared
  PROVE  /\ row' \in [Row -> Column \cup {Absent}]
         /\ born' \in [Row -> {"owned", "sanctioned", "stray"}]
         /\ InstancesOK' /\ Kept /\ Steady
<1>1. \A r \in R : /\ Stamp(t, vs[r]) \in Column
                   /\ Stamp(t, vs[r]) # Absent
                   /\ Birth(t, vs[r]) \in {"owned", "sanctioned", "stray"}
                   /\ Birth(t, vs[r]) # "stray"
                   /\ Birth(t, vs[r]) # "sanctioned" => Stamp(t, vs[r]) # None
  <2>1. ASSUME NEW r \in R
        PROVE  /\ Stamp(t, vs[r]) \in Column /\ Stamp(t, vs[r]) # Absent
               /\ Birth(t, vs[r]) # "stray"
    BY StampType, NeverStray, TenancyAssumption DEF TenancyAssumption, RowInv
  <2>2. ASSUME NEW r \in R
        PROVE  /\ Birth(t, vs[r]) \in {"owned", "sanctioned", "stray"}
               /\ Birth(t, vs[r]) \notin {"stray", "sanctioned"} =>
                    Stamp(t, vs[r]) # None
    BY DEF Birth
  <2>3. QED BY <2>1, <2>2
<1>2. row' \in [Row -> Column \cup {Absent}] BY <1>1 DEF RowInv, RowType
<1>3. born' \in [Row -> {"owned", "sanctioned", "stray"}]
  BY <1>1 DEF RowInv, RowType
<1>4. Kept
  <2>1. \A r \in R : Loaded(Stamp(t, vs[r])) # Absent BY <1>1, InstanceType
  <2>2. QED BY <1>1, <2>1 DEF Kept
<1>5. Steady BY DEF Steady, Firm
<1>6. InstancesOK'
  <2>1. ASSUME NEW r \in Row, NEW p \in Process, inst'[p][r] # Absent
        PROVE  row'[r] # Absent
    BY <2>1, <1>1 DEF RowInv, InstancesOK
  <2>2. ASSUME NEW r \in Row, Firm(r)'
        PROVE  /\ row'[r] # None
               /\ \A p \in Process : inst'[p][r] # Absent =>
                    inst'[p][r].marked \/ inst'[p][r].shard_id = row'[r]
    <3>1. CASE r \in R
      <4>1. row'[r] = Stamp(t, vs[r]) /\ row'[r] # None
        BY <2>2, <3>1, <1>1 DEF Firm
      <4>2. \A p \in Process : inst[p][r] = Absent
        BY <3>1 DEF RowInv, InstancesOK
      <4>3. Loaded(Stamp(t, vs[r])).shard_id = Stamp(t, vs[r])
        BY <3>1, <1>1, InstanceType
      <4>4. QED BY <3>1, <4>1, <4>2, <4>3
    <3>2. CASE r \notin R
      <4>1. Firm(r) BY <2>2, <3>2 DEF Firm
      <4>2. QED BY <3>2, <4>1 DEF RowInv, InstancesOK
    <3>3. QED BY <3>1, <3>2
  <2>3. QED BY <2>1, <2>2 DEF InstancesOK
<1>7. QED BY <1>2, <1>3, <1>4, <1>5, <1>6

LEMMA InsertedRow ==
  ASSUME RowInv, NEW t \in Thread, NEW r \in Row, NEW v \in Column,
         InsertRow(t, r, v), UNCHANGED cleared
  PROVE  /\ row' \in [Row -> Column \cup {Absent}]
         /\ inst' \in [Process -> [Row -> Instance \cup {Absent}]]
         /\ born' \in [Row -> {"owned", "sanctioned", "stray"}]
         /\ row'[r] # Absent /\ inst'[t[1]][r] # Absent
         /\ InstancesOK' /\ Kept /\ Steady
<1> DEFINE vs == [x \in {r} |-> v]
           i == Loaded(Stamp(t, v))
<1>1. t[1] \in Process BY Threads
<1>2. Stamp(t, v) \in Column /\ Stamp(t, v) # Absent /\ i \in Instance /\ i # Absent
  BY StampType, InstanceType, TenancyAssumption DEF RowInv, TenancyAssumption
<1>3. /\ row[r] = Absent /\ ~Unstamped(t, v)
      /\ row' = [row EXCEPT ![r] = Stamp(t, v)]
      /\ inst' = [inst EXCEPT ![t[1]] = [inst[t[1]] EXCEPT ![r] = i]]
      /\ born' = [born EXCEPT ![r] = Birth(t, v)]
  BY DEF InsertRow
<1> HIDE DEF i
<1>4. inst' \in [Process -> [Row -> Instance \cup {Absent}]]
  BY <1>1, <1>2, <1>3 DEF RowInv, RowType
<1>5. /\ row' = [x \in Row |-> IF x \in {r} THEN Stamp(t, vs[x]) ELSE row[x]]
      /\ born' = [x \in Row |-> IF x \in {r} THEN Birth(t, vs[x]) ELSE born[x]]
  BY <1>3 DEF RowInv, RowType
<1>6. \A p \in Process, x \in Row :
        inst'[p][x] = inst[p][x] \/ (x \in {r} /\ inst'[p][x] = Loaded(Stamp(t, vs[x])))
  BY <1>1, <1>3 DEF RowInv, RowType, i
<1>7. vs \in [{r} -> Column] /\ \A x \in {r} : row[x] = Absent /\ ~Unstamped(t, vs[x])
  BY <1>3
<1>8. {r} \in SUBSET Row OBVIOUS
<1> HIDE DEF vs
<1>9. /\ row' \in [Row -> Column \cup {Absent}]
      /\ born' \in [Row -> {"owned", "sanctioned", "stray"}]
      /\ InstancesOK' /\ Kept /\ Steady
  BY <1>4, <1>5, <1>6, <1>7, <1>8, InsertedRows
<1>10. row'[r] # Absent /\ inst'[t[1]][r] # Absent
  BY <1>1, <1>2, <1>3 DEF RowInv, RowType
<1>11. QED BY <1>4, <1>9, <1>10

(* An assignment to an instance that is there.                             *)
LEMMA AssignedRows ==
  ASSUME RowInv, NEW t \in Thread, NEW r \in Row, NEW v \in Column,
         inst[t[1]][r] # Absent,
         inst' = [inst EXCEPT ![t[1]][r] = SetShard(@, v)],
         cleared' \in [Row -> BOOLEAN],
         \A x \in Row : cleared[x] => cleared'[x],
         v = None => cleared'[r],
         UNCHANGED <<row, born>>
  PROVE  /\ inst' \in [Process -> [Row -> Instance \cup {Absent}]]
         /\ InstancesOK' /\ Kept /\ Steady
<1> DEFINE p == t[1]
           i == inst[p][r]
           j == SetShard(i, v)
<1>1. p \in Process BY Threads
<1>2. i \in Instance BY <1>1 DEF RowInv, RowType
<1>3. /\ j \in Instance /\ j # Absent /\ j.shard_id = v
      /\ j.marked = (i.marked \/ Differs(i, v))
  BY <1>2, InstanceType
<1>4. inst' = [inst EXCEPT ![p] = [inst[p] EXCEPT ![r] = j]] OBVIOUS
<1>5. Firm(r)' => j.marked \/ j.shard_id = row[r]
  <2>1. ASSUME Firm(r)' PROVE j.marked \/ j.shard_id = row[r]
    <3>1. Firm(r) /\ v # None BY <2>1 DEF Firm
    <3>2. row[r] # None /\ (i.marked \/ i.shard_id = row[r])
      BY <3>1, <1>1 DEF RowInv, InstancesOK
    <3>3. QED BY <3>1, <3>2, <1>3 DEF Differs
  <2>2. QED BY <2>1
<1> HIDE DEF j
<1>6. inst' \in [Process -> [Row -> Instance \cup {Absent}]]
  BY <1>1, <1>3, <1>4 DEF RowInv, RowType
<1>7. /\ inst'[p][r] = j
      /\ \A q \in Process, x \in Row :
           (q # p \/ x # r) => inst'[q][x] = inst[q][x]
  BY <1>1, <1>4 DEF RowInv, RowType
<1>8. Kept BY <1>3, <1>7 DEF Kept
<1>9. Steady BY DEF Steady
<1>10. \A x \in Row : Firm(x)' => Firm(x) BY DEF Firm
<1>11. InstancesOK'
  <2>1. row[r] # Absent BY <1>1 DEF RowInv, InstancesOK
  <2>2. QED BY <2>1, <1>5, <1>7, <1>10 DEF RowInv, InstancesOK
<1>12. QED BY <1>6, <1>8, <1>9, <1>11

LEMMA LoadedRows ==
  ASSUME RowInv, NEW t \in Thread, NEW r \in Row, Load(t, r)
  PROVE  /\ inst' \in [Process -> [Row -> Instance \cup {Absent}]]
         /\ InstancesOK' /\ Kept /\ Steady
<1> DEFINE p == t[1]
           j == Loaded(row[r])
<1>1. p \in Process BY Threads
<1>2. row[r] \in Column /\ row[r] # Absent BY DEF Load, RowInv, RowType
<1>3. j \in Instance /\ j # Absent /\ j.shard_id = row[r]
  BY <1>2, InstanceType
<1>4. /\ inst' = [inst EXCEPT ![p] = [inst[p] EXCEPT ![r] = j]]
      /\ UNCHANGED <<row, born, cleared>>
  BY DEF Load, history
<1> HIDE DEF j
<1>5. inst' \in [Process -> [Row -> Instance \cup {Absent}]]
  BY <1>1, <1>3, <1>4 DEF RowInv, RowType
<1>6. /\ inst'[p][r] = j
      /\ \A q \in Process, x \in Row :
           (q # p \/ x # r) => inst'[q][x] = inst[q][x]
  BY <1>1, <1>4 DEF RowInv, RowType
<1>7. Kept BY <1>3, <1>4, <1>6 DEF Kept
<1>8. Steady BY <1>4 DEF Steady
<1>9. \A x \in Row : Firm(x)' <=> Firm(x) BY <1>4 DEF Firm
<1>10. InstancesOK'
  BY <1>2, <1>3, <1>4, <1>6, <1>9 DEF RowInv, InstancesOK
<1>11. QED BY <1>5, <1>7, <1>8, <1>10

(* Steps that touch neither rows nor instances.                            *)
LEMMA SameRows ==
  ASSUME RowInv, UNCHANGED <<row, inst, born, cleared>>
  PROVE  /\ row' \in [Row -> Column \cup {Absent}]
         /\ inst' \in [Process -> [Row -> Instance \cup {Absent}]]
         /\ InstancesOK' /\ Kept /\ Steady
<1>1. \A r \in Row : Firm(r)' <=> Firm(r) BY DEF Firm
<1>2. QED BY <1>1 DEF RowInv, RowType, InstancesOK, Kept, Steady

LEMMA RestartRows ==
  ASSUME RowInv, NEW p \in Process, Restart(p)
  PROVE  RowType' /\ MakingOK' /\ InstancesOK' /\ Steady
<1>1. /\ inst' = [inst EXCEPT ![p] = [r \in Row |-> Absent]]
      /\ making' = [t \in Thread |-> IF t[1] = p THEN NotMaking ELSE making[t]]
      /\ UNCHANGED <<row, born, cleared, settled>>
  BY DEF Restart, history
<1>2. NotMaking \in Making BY DEF NotMaking, Making
<1>3. RowType' BY <1>1, <1>2 DEF RowInv, RowType
<1>4. \A q \in Process, r \in Row :
        inst'[q][r] = IF q = p THEN Absent ELSE inst[q][r]
  BY <1>1 DEF RowInv, RowType
<1>5. \A r \in Row : Firm(r)' <=> Firm(r) BY <1>1 DEF Firm
<1>6. InstancesOK' BY <1>1, <1>4, <1>5 DEF RowInv, InstancesOK
<1>7. Steady BY <1>1 DEF Steady
<1>8. MakingOK'
  <2>1. ASSUME NEW t \in Thread
        PROVE  /\ making'[t].stage \in {"created", "assigned"} =>
                    /\ making'[t].char # None
                    /\ making'[t].stage = "assigned" => making'[t].start \in Shard
               /\ making'[t].char # None =>
                    /\ row'[making'[t].char] # Absent
                    /\ inst'[t[1]][making'[t].char] # Absent
    <3>1. CASE t[1] = p BY <3>1, <1>1 DEF NotMaking
    <3>2. CASE t[1] # p
      <4>1. making'[t] = making[t] /\ t[1] \in Process BY <3>2, <1>1, Threads
      <4>2. making[t].char # None => making[t].char \in Row
        BY DEF RowInv, RowType, Making
      <4>3. QED BY <3>2, <4>1, <4>2, <1>1, <1>4 DEF RowInv, MakingOK
    <3>3. QED BY <3>1, <3>2
  <2>2. QED BY <2>1 DEF MakingOK
<1>9. QED BY <1>3, <1>6, <1>7, <1>8

-----------------------------------------------------------------------------
(* create_character.                                                       *)

CharacterOK(t, m) ==
  /\ m.stage \in {"created", "assigned"} => m.char # None
  /\ m.stage = "assigned" => m.start \in Shard
  /\ m.char # None => row'[m.char] # Absent /\ inst'[t[1]][m.char] # Absent

LEMMA ChangeMaking ==
  ASSUME RowType, MakingOK, Kept, NEW t \in Thread, NEW m \in Making,
         making' = [making EXCEPT ![t] = m], CharacterOK(t, m)
  PROVE  making' \in [Thread -> Making] /\ MakingOK'
<1>1. making' \in [Thread -> Making] BY DEF RowType
<1>2. ASSUME NEW u \in Thread PROVE CharacterOK(u, making'[u])
  <2>1. CASE u = t BY <2>1 DEF RowType
  <2>2. CASE u # t
    <3>1. making'[u] = making[u] BY <2>2 DEF RowType
    <3>2. u[1] \in Process /\ (making[u].char # None => making[u].char \in Row)
      BY Threads DEF RowType, Making
    <3>3. QED BY <3>1, <3>2 DEF CharacterOK, MakingOK, Kept
  <2>3. QED BY <2>1, <2>2
<1>3. MakingOK' BY <1>2 DEF MakingOK, CharacterOK
<1>4. QED BY <1>1, <1>3

LEMMA NotMakingOK ==
  ASSUME NEW t \in Thread PROVE NotMaking \in Making /\ CharacterOK(t, NotMaking)
BY DEF NotMaking, Making, CharacterOK

LEMMA CreateRows ==
  ASSUME RowInv, NEW t \in Thread, NEW v \in Start, CreateCharacter(t, v)
  PROVE  RowType' /\ MakingOK' /\ InstancesOK' /\ Steady
<1> DEFINE m == [stage |-> "creating", char |-> None, start |-> v]
<1>1. UNCHANGED <<row, inst, born, cleared, settled>>
  BY DEF CreateCharacter, history
<1>2. /\ row' \in [Row -> Column \cup {Absent}]
      /\ inst' \in [Process -> [Row -> Instance \cup {Absent}]]
      /\ InstancesOK' /\ Kept /\ Steady
  BY <1>1, SameRows
<1>3. m \in Making /\ CharacterOK(t, m) BY DEF Making, CharacterOK
<1>4. making' = [making EXCEPT ![t] = m] BY DEF CreateCharacter
<1> HIDE DEF m
<1>5. making' \in [Thread -> Making] /\ MakingOK'
  BY <1>2, <1>3, <1>4, ChangeMaking DEF RowInv
<1>6. QED BY <1>1, <1>2, <1>5 DEF RowInv, RowType

LEMMA LeaveRows ==
  ASSUME RowInv, NEW t \in Thread, Leave(t)
  PROVE  RowType' /\ MakingOK' /\ InstancesOK' /\ Steady
<1> DEFINE m == [making[t] EXCEPT !.stage = "created"]
<1>1. UNCHANGED <<row, inst, born, cleared, settled>> BY DEF Leave, history
<1>2. /\ row' \in [Row -> Column \cup {Absent}]
      /\ inst' \in [Process -> [Row -> Instance \cup {Absent}]]
      /\ InstancesOK' /\ Kept /\ Steady
  BY <1>1, SameRows
<1>3. making' \in [Thread -> Making] /\ MakingOK'
  <2>1. CASE UNCHANGED making
    BY <2>1, <1>2, KeepMaking DEF RowInv, RowType
  <2>2. CASE making' = [making EXCEPT ![t] = NotMaking]
    BY <2>2, <1>2, ChangeMaking, NotMakingOK DEF RowInv
  <2>3. CASE making[t].char # None /\ making' = [making EXCEPT ![t].stage = "created"]
    <3>1. making[t] \in Making BY DEF RowInv, RowType
    <3>2. m \in Making /\ m.char = making[t].char /\ m.stage = "created"
      BY <3>1 DEF Making
    <3>3. making' = [making EXCEPT ![t] = m] BY <2>3
    <3>4. CharacterOK(t, m)
      BY <2>3, <3>2, <1>1 DEF CharacterOK, RowInv, MakingOK
    <3> HIDE DEF m
    <3>5. QED BY <3>2, <3>3, <3>4, <1>2, ChangeMaking DEF RowInv
  <2>4. QED BY <2>1, <2>2, <2>3 DEF Leave
<1>4. QED BY <1>1, <1>2, <1>3 DEF RowInv, RowType

LEMMA InsertCharacterRows ==
  ASSUME RowInv, NEW t \in Thread, NEW r \in Row, InsertCharacter(t, r)
  PROVE  RowType' /\ MakingOK' /\ InstancesOK' /\ Steady
<1> DEFINE m == [making[t] EXCEPT !.char = r]
<1>1. /\ InsertRow(t, r, None) /\ UNCHANGED <<cleared, settled>>
      /\ making[t].stage = "creating"
      /\ making' = [making EXCEPT ![t] = m]
  BY DEF InsertCharacter
<1>2. None \in Column BY DEF Column
<1>3. /\ row' \in [Row -> Column \cup {Absent}]
      /\ inst' \in [Process -> [Row -> Instance \cup {Absent}]]
      /\ born' \in [Row -> {"owned", "sanctioned", "stray"}]
      /\ row'[r] # Absent /\ inst'[t[1]][r] # Absent
      /\ InstancesOK' /\ Kept /\ Steady
  BY <1>1, <1>2, InsertedRow
<1>4. making[t] \in Making BY DEF RowInv, RowType
<1>5. m \in Making /\ m.char = r /\ m.stage = "creating"
  BY <1>1, <1>4 DEF Making
<1>6. CharacterOK(t, m) BY <1>3, <1>5 DEF CharacterOK
<1> HIDE DEF m
<1>7. making' \in [Thread -> Making] /\ MakingOK'
  BY <1>1, <1>3, <1>5, <1>6, ChangeMaking DEF RowInv
<1>8. QED BY <1>1, <1>3, <1>7 DEF RowInv, RowType

LEMMA SettleRows ==
  ASSUME RowInv, NEW t \in Thread, SettleCharacter(t)
  PROVE  RowType' /\ MakingOK' /\ InstancesOK' /\ Steady
<1> DEFINE v == LocationShard(t)
           r == making[t].char
           m == [making[t] EXCEPT !.stage = "assigned"]
<1>1. UNCHANGED <<row, born, cleared, settled>> BY DEF SettleCharacter, history
<1>2. making[t] \in Making BY DEF RowInv, RowType
<1>3. making[t].stage = "created" BY DEF SettleCharacter
<1>4. /\ r \in Row /\ row[r] # Absent /\ inst[t[1]][r] # Absent /\ r # None
  BY <1>2, <1>3 DEF RowInv, MakingOK, Making
<1>5. CASE Usable(v)
  <2>1. v = making[t].start /\ v \in Shard
    <3>1. v \in Start \cup {None} BY <1>2 DEF LocationShard, Making
    <3>2. v \in Shard BY <1>5, <3>1, TenancyAssumption
      DEF TenancyAssumption, Usable, Column
    <3>3. v # None BY <1>5 DEF Usable
    <3>4. QED BY <3>2, <3>3 DEF LocationShard
  <2>2. v \in Column /\ v # None BY <1>5, <2>1 DEF Column, Usable
  <2>3. inst' = [inst EXCEPT ![t[1]][r] = SetShard(@, v)]
    BY <1>5 DEF SettleCharacter
  <2>4. making' = [making EXCEPT ![t] = m] BY <1>5 DEF SettleCharacter
  <2>5. m \in Making /\ m.char = r /\ m.start = making[t].start
    BY <1>2 DEF Making
  <2> HIDE DEF v, r, m
  <2>6. cleared' \in [Row -> BOOLEAN] BY <1>1 DEF RowInv, RowType
  <2>7. /\ inst' \in [Process -> [Row -> Instance \cup {Absent}]]
        /\ InstancesOK' /\ Kept /\ Steady
    BY <1>1, <1>4, <2>2, <2>3, <2>6, AssignedRows
  <2>8. t[1] \in Process BY Threads
  <2>9. CharacterOK(t, m)
    BY <1>1, <1>4, <2>1, <2>5, <2>7, <2>8 DEF CharacterOK, Kept
  <2>10. making' \in [Thread -> Making] /\ MakingOK'
    BY <2>4, <2>5, <2>7, <2>9, ChangeMaking DEF RowInv
  <2>11. QED BY <1>1, <2>7, <2>10 DEF RowInv, RowType
<1>6. CASE ~Usable(v)
  <2>1. UNCHANGED inst /\ making' = [making EXCEPT ![t] = NotMaking]
    BY <1>6 DEF SettleCharacter
  <2>2. /\ row' \in [Row -> Column \cup {Absent}]
        /\ inst' \in [Process -> [Row -> Instance \cup {Absent}]]
        /\ InstancesOK' /\ Kept /\ Steady
    BY <1>1, <2>1, SameRows
  <2>3. making' \in [Thread -> Making] /\ MakingOK'
    BY <2>1, <2>2, ChangeMaking, NotMakingOK DEF RowInv
  <2>4. QED BY <1>1, <2>2, <2>3 DEF RowInv, RowType
<1>7. QED BY <1>5, <1>6

LEMMA SaveCharacterRows ==
  ASSUME RowInv, NEW t \in Thread, SaveCharacter(t)
  PROVE  RowType' /\ MakingOK' /\ InstancesOK' /\ Steady
<1> DEFINE r == making[t].char
<1>1. /\ UNCHANGED <<born, cleared>> /\ making[t].stage = "assigned"
      /\ making' = [making EXCEPT ![t] = NotMaking]
  BY DEF SaveCharacter
<1>2. making[t] \in Making BY DEF RowInv, RowType
<1>3. r \in Row /\ inst[t[1]][r] # Absent /\ making[t].start \in Column
  BY <1>1, <1>2 DEF RowInv, MakingOK, Making, Column
<1>4. CASE Saved(t, r)
  <2>1. /\ row' \in [Row -> Column \cup {Absent}]
        /\ inst' \in [Process -> [Row -> Instance \cup {Absent}]]
        /\ InstancesOK' /\ Kept /\ Steady
    <3> HIDE DEF r
    <3>1. QED BY <1>1, <1>3, <1>4, SavedRows
  <2>2. settled' \in [Row -> Column]
    <3>1. settled' = settled \/ settled' = [settled EXCEPT ![r] = making[t].start]
      BY DEF SaveCharacter
    <3>2. QED BY <3>1, <1>3 DEF RowInv, RowType
  <2>3. making' \in [Thread -> Making] /\ MakingOK'
    BY <1>1, <2>1, ChangeMaking, NotMakingOK DEF RowInv
  <2>4. QED BY <1>1, <2>1, <2>2, <2>3 DEF RowInv, RowType
<1>5. CASE UNCHANGED <<row, inst, settled>>
  <2>1. /\ row' \in [Row -> Column \cup {Absent}]
        /\ inst' \in [Process -> [Row -> Instance \cup {Absent}]]
        /\ InstancesOK' /\ Kept /\ Steady
    BY <1>1, <1>5, SameRows
  <2>2. making' \in [Thread -> Making] /\ MakingOK'
    BY <1>1, <2>1, ChangeMaking, NotMakingOK DEF RowInv
  <2>3. QED BY <1>1, <1>5, <2>1, <2>2 DEF RowInv, RowType
<1>6. QED BY <1>4, <1>5 DEF SaveCharacter

-----------------------------------------------------------------------------
(* Rows along every behavior.                                              *)

LEMMA InitRows == ASSUME Init PROVE RowInv
<1>1. ScopeInv /\ NoStrayRow BY InitScope DEF Init, NoStrayRow
<1>2. NotMaking \in Making BY DEF NotMaking, Making
<1>3. RowType BY <1>2 DEF Init, RowType, Column
<1>4. MakingOK BY DEF Init, MakingOK, NotMaking
<1>5. /\ \A r \in Row, p \in Process : inst[p][r] = Absent
      /\ \A r \in Row : ~Firm(r)
  BY DEF Init, Firm
<1>6. InstancesOK BY <1>5 DEF InstancesOK
<1>7. QED BY <1>1, <1>3, <1>4, <1>6 DEF RowInv

LEMMA StepRows ==
  ASSUME RowInv, [Next]_vars
  PROVE  RowType' /\ MakingOK' /\ InstancesOK' /\ Steady
<1>1. CASE UNCHANGED <<row, inst, making, history>>
  <2>1. /\ row' \in [Row -> Column \cup {Absent}]
        /\ inst' \in [Process -> [Row -> Instance \cup {Absent}]]
        /\ InstancesOK' /\ Kept /\ Steady
    BY <1>1, SameRows DEF history
  <2>2. MakingOK' BY <1>1, <2>1, KeepMaking DEF RowInv
  <2>3. QED BY <1>1, <2>1, <2>2 DEF RowInv, RowType, history
<1>2. CASE \/ UNCHANGED vars
           \/ \E t \in Thread, s \in Entered : Enter(t, s)
           \/ \E t \in Thread : Allow(t)
           \/ \E t \in Thread : Take(t)
           \/ \E p \in Process, wrapped \in BOOLEAN : Dispatch(p, wrapped)
  BY <1>1, <1>2 DEF Enter, Allow, Take, Dispatch, vars
<1>3. CASE \E t \in Thread : Leave(t) BY <1>3, LeaveRows
<1>4. CASE \E t \in Thread, v \in Start : CreateCharacter(t, v)
  BY <1>4, CreateRows
<1>5. CASE \E t \in Thread, r \in Row : InsertCharacter(t, r)
  BY <1>5, InsertCharacterRows
<1>6. CASE \E t \in Thread : SettleCharacter(t) BY <1>6, SettleRows
<1>7. CASE \E t \in Thread : SaveCharacter(t) BY <1>7, SaveCharacterRows
<1>8. CASE \E p \in Process : Restart(p) BY <1>8, RestartRows
<1>9. ASSUME NEW t \in Thread, NEW r \in Row, NEW v \in Given, Insert(t, r, v)
      PROVE  RowType' /\ MakingOK' /\ InstancesOK' /\ Steady
  <2>1. v \in Column /\ InsertRow(t, r, v) /\ UNCHANGED <<making, cleared, settled>>
    BY <1>9, TenancyAssumption DEF Insert, TenancyAssumption
  <2>2. /\ row' \in [Row -> Column \cup {Absent}]
        /\ inst' \in [Process -> [Row -> Instance \cup {Absent}]]
        /\ born' \in [Row -> {"owned", "sanctioned", "stray"}]
        /\ InstancesOK' /\ Kept /\ Steady
    BY <2>1, InsertedRow
  <2>3. MakingOK' BY <2>1, <2>2, KeepMaking DEF RowInv
  <2>4. QED BY <2>1, <2>2, <2>3 DEF RowInv, RowType
<1>10. ASSUME NEW t \in Thread, NEW R \in SUBSET Row, NEW vs \in [R -> Given],
              BulkInsert(t, vs)
       PROVE  RowType' /\ MakingOK' /\ InstancesOK' /\ Steady
  <2>1. vs \in [R -> Column] /\ DOMAIN vs = R
    BY TenancyAssumption DEF TenancyAssumption
  <2>2. /\ \A r \in R : row[r] = Absent /\ ~Unstamped(t, vs[r])
        /\ row' = [r \in Row |-> IF r \in R THEN Stamp(t, vs[r]) ELSE row[r]]
        /\ born' = [r \in Row |-> IF r \in R THEN Birth(t, vs[r]) ELSE born[r]]
        /\ UNCHANGED <<inst, making, cleared, settled>>
    BY <1>10, <2>1 DEF BulkInsert
  <2>3. inst' \in [Process -> [Row -> Instance \cup {Absent}]]
    BY <2>2 DEF RowInv, RowType
  <2>4. /\ row' \in [Row -> Column \cup {Absent}]
        /\ born' \in [Row -> {"owned", "sanctioned", "stray"}]
        /\ InstancesOK' /\ Kept /\ Steady
    BY <2>1, <2>2, <2>3, InsertedRows
  <2>5. MakingOK' BY <2>2, <2>4, KeepMaking DEF RowInv
  <2>6. QED BY <2>2, <2>3, <2>4, <2>5 DEF RowInv, RowType
<1>11. ASSUME NEW t \in Thread, NEW r \in Row, Load(t, r)
       PROVE  RowType' /\ MakingOK' /\ InstancesOK' /\ Steady
  <2>1. UNCHANGED <<row, making, history>> BY <1>11 DEF Load
  <2>2. /\ inst' \in [Process -> [Row -> Instance \cup {Absent}]]
        /\ InstancesOK' /\ Kept /\ Steady
    BY <1>11, LoadedRows
  <2>3. MakingOK' BY <2>1, <2>2, KeepMaking DEF RowInv
  <2>4. QED BY <2>1, <2>2, <2>3 DEF RowInv, RowType, history
<1>12. ASSUME NEW t \in Thread, NEW r \in Row, NEW v \in Assigned, Assign(t, r, v)
       PROVE  RowType' /\ MakingOK' /\ InstancesOK' /\ Steady
  <2>1. v \in Column BY TenancyAssumption DEF TenancyAssumption
  <2>2. /\ inst[t[1]][r] # Absent
        /\ inst' = [inst EXCEPT ![t[1]][r] = SetShard(@, v)]
        /\ cleared' = [cleared EXCEPT ![r] = @ \/ v = None]
        /\ UNCHANGED <<row, making, born, settled>>
    BY <1>12 DEF Assign
  <2>3. /\ cleared' \in [Row -> BOOLEAN]
        /\ \A x \in Row : cleared[x] => cleared'[x]
        /\ v = None => cleared'[r]
    BY <2>2 DEF RowInv, RowType
  <2>4. /\ inst' \in [Process -> [Row -> Instance \cup {Absent}]]
        /\ InstancesOK' /\ Kept /\ Steady
    BY <2>1, <2>2, <2>3, AssignedRows
  <2>5. MakingOK' BY <2>2, <2>4, KeepMaking DEF RowInv
  <2>6. QED BY <2>2, <2>3, <2>4, <2>5 DEF RowInv, RowType
<1>13. ASSUME NEW t \in Thread, NEW r \in Row, Save(t, r)
       PROVE  RowType' /\ MakingOK' /\ InstancesOK' /\ Steady
  <2>1. inst[t[1]][r] # Absent /\ Saved(t, r) /\ UNCHANGED <<making, history>>
    BY <1>13 DEF Save
  <2>2. /\ row' \in [Row -> Column \cup {Absent}]
        /\ inst' \in [Process -> [Row -> Instance \cup {Absent}]]
        /\ InstancesOK' /\ Kept /\ Steady
    BY <2>1, SavedRows DEF history
  <2>3. MakingOK' BY <2>1, <2>2, KeepMaking DEF RowInv
  <2>4. QED BY <2>1, <2>2, <2>3 DEF RowInv, RowType, history
<1>14. CASE Next
  BY <1>2, <1>3, <1>4, <1>5, <1>6, <1>7, <1>8, <1>9, <1>10, <1>11, <1>12,
     <1>13, <1>14, Cases, Zenon
<1>15. QED BY <1>2, <1>14

LEMMA KeepInv == ASSUME RowInv, [Next]_vars PROVE RowInv'
BY StepScope, StepStray, StepRows DEF RowInv

(* What SettleCharacter gave the instance stays until SaveCharacter writes *)
(* it: whoever sets the instance to something else in between has marked   *)
(* it, so that the save raises, or has cleared it.                         *)
Holds(p, r, v) == cleared[r] \/ inst[p][r].marked \/ inst[p][r].shard_id = v

AssignedOK ==
  \A t \in Thread : making[t].stage = "assigned" =>
    Holds(t[1], making[t].char, making[t].start)

LEMMA HoldSame ==
  ASSUME NEW p, NEW r, NEW v, Holds(p, r, v),
         cleared[r] => cleared'[r], inst'[p][r] = inst[p][r]
  PROVE  Holds(p, r, v)'
BY DEF Holds

LEMMA SetFields ==
  ASSUME NEW i \in Instance, NEW w \in Column
  PROVE  SetShard(i, w).shard_id = w /\ SetShard(i, w).marked = (i.marked \/ Differs(i, w))
BY InstanceType

LEMMA HoldSet ==
  ASSUME RowInv, NEW p \in Process, NEW r \in Row, NEW v \in Shard,
         Holds(p, r, v), inst[p][r] # Absent,
         NEW t \in Thread, NEW x \in Row, NEW w \in Column,
         inst' = [inst EXCEPT ![t[1]][x] = SetShard(@, w)],
         \A y \in Row : cleared[y] => cleared'[y],
         w = None => cleared'[x]
  PROVE  Holds(p, r, v)'
<1>1. t[1] \in Process BY Threads
<1>2. CASE p = t[1] /\ r = x
  <2> PICK i : i = inst[p][r] OBVIOUS
  <2>1. i \in Instance BY DEF RowInv, RowType
  <2>2. inst'[p][r] = SetShard(i, w) BY <1>2, <1>1 DEF RowInv, RowType
  <2>3. /\ inst'[p][r].shard_id = w
        /\ inst'[p][r].marked = (i.marked \/ Differs(i, w))
    BY <2>1, <2>2, SetFields
  <2>4. v # None BY TenancyAssumption DEF TenancyAssumption
  <2>5. QED BY <1>2, <2>3, <2>4 DEF Holds, Differs
<1>3. CASE ~(p = t[1] /\ r = x)
  <2>1. inst'[p][r] = inst[p][r] BY <1>1, <1>3 DEF RowInv, RowType
  <2>2. QED BY <2>1, HoldSame
<1>4. QED BY <1>2, <1>3

LEMMA HoldSaved ==
  ASSUME RowInv, NEW p \in Process, NEW r \in Row, NEW v \in Shard,
         Holds(p, r, v), inst[p][r] # Absent,
         NEW t \in Thread, NEW x \in Row, Saved(t, x), UNCHANGED cleared
  PROVE  Holds(p, r, v)'
<1>1. t[1] \in Process BY Threads
<1>2. CASE p = t[1] /\ r = x
  <2> DEFINE w == Stamp(t, inst[p][r].shard_id)
  <2>1. inst[p][r] \in Instance /\ inst[p][r].shard_id \in Column
    BY DEF RowInv, RowType, Instance
  <2>2. w \in Column BY <2>1, StampType DEF RowInv
  <2>3. inst'[p][r] = [inst[p][r] EXCEPT !.shard_id = w]
    BY <1>1, <1>2 DEF Saved, RowInv, RowType
  <2>4. inst'[p][r].shard_id = w /\ inst'[p][r].marked = inst[p][r].marked
    BY <2>1, <2>2, <2>3, InstanceType
  <2>5. inst[p][r].shard_id = v => w = v
    BY TenancyAssumption DEF TenancyAssumption, Stamp
  <2>6. QED BY <2>4, <2>5 DEF Holds
<1>3. CASE ~(p = t[1] /\ r = x)
  <2>1. inst'[p][r] = inst[p][r] BY <1>1, <1>3 DEF Saved, RowInv, RowType
  <2>2. QED BY <2>1, HoldSame
<1>4. QED BY <1>2, <1>3

(* A row that has an instance is there: no INSERT makes it.                *)
LEMMA HoldInsert ==
  ASSUME RowInv, NEW p \in Process, NEW r \in Row, NEW v \in Shard,
         Holds(p, r, v), inst[p][r] # Absent,
         NEW t \in Thread, NEW x \in Row, NEW w, InsertRow(t, x, w),
         UNCHANGED cleared
  PROVE  Holds(p, r, v)'
<1>1. t[1] \in Process BY Threads
<1>2. row[r] # Absent BY DEF RowInv, InstancesOK
<1>3. r # x BY <1>2 DEF InsertRow
<1>4. inst'[p][r] = inst[p][r] BY <1>1, <1>3 DEF InsertRow, RowInv, RowType
<1>5. QED BY <1>4, HoldSame

LEMMA HoldLoad ==
  ASSUME RowInv, NEW p \in Process, NEW r \in Row, NEW v \in Shard,
         Holds(p, r, v), inst[p][r] # Absent,
         NEW t \in Thread, NEW x \in Row, Load(t, x)
  PROVE  Holds(p, r, v)'
<1>1. t[1] \in Process BY Threads
<1>2. p # t[1] \/ r # x BY DEF Load
<1>3. inst'[p][r] = inst[p][r] BY <1>1, <1>2 DEF Load, RowInv, RowType
<1>4. UNCHANGED cleared BY DEF Load, history
<1>5. QED BY <1>3, <1>4, HoldSame

(* What a settled character's process gives the column of its instance.    *)
LEMMA Settling ==
  ASSUME RowInv, NEW t \in Thread, SettleCharacter(t), Usable(LocationShard(t))
  PROVE  /\ LocationShard(t) = making[t].start
         /\ making[t].start \in Shard /\ making[t].start \in Column
         /\ making[t].start # None
         /\ making[t].char \in Row
         /\ inst[t[1]][making[t].char] # Absent
         /\ inst' = [inst EXCEPT ![t[1]][making[t].char] = SetShard(@, making[t].start)]
         /\ making' = [making EXCEPT ![t].stage = "assigned"]
         /\ UNCHANGED cleared
<1> DEFINE v == LocationShard(t)
<1>1. making[t] \in Making BY DEF RowInv, RowType
<1>2. v \in Start \cup {None} BY <1>1 DEF LocationShard, Making
<1>3. v \in Shard
  BY <1>2, TenancyAssumption DEF TenancyAssumption, Usable, Column
<1>4. v # None BY DEF Usable
<1>5. v = making[t].start BY <1>4 DEF LocationShard
<1>6. making[t].stage = "created" BY DEF SettleCharacter
<1>7. making[t].char \in Row /\ inst[t[1]][making[t].char] # Absent
  BY <1>1, <1>6 DEF RowInv, MakingOK, Making
<1>8. /\ inst' = [inst EXCEPT ![t[1]][making[t].char] = SetShard(@, v)]
      /\ making' = [making EXCEPT ![t].stage = "assigned"]
      /\ UNCHANGED cleared
  BY DEF SettleCharacter, history
<1>9. v \in Column BY <1>3 DEF Column
<1>10. QED BY <1>3, <1>4, <1>5, <1>7, <1>8, <1>9

(* Every step but the death of the process keeps what an instance holds.   *)
LEMMA StepHolds ==
  ASSUME RowInv, [Next]_vars,
         NEW p \in Process, NEW r \in Row, NEW v \in Shard,
         Holds(p, r, v), inst[p][r] # Absent
  PROVE  Holds(p, r, v)' \/ Restart(p)
<1> DEFINE H == Holds(p, r, v)'
<1>1. ASSUME UNCHANGED <<inst, cleared>> PROVE H BY <1>1, HoldSame
<1>2. CASE \/ UNCHANGED vars
           \/ \E t \in Thread, s \in Entered : Enter(t, s)
           \/ \E t \in Thread : Allow(t)
           \/ \E t \in Thread : Take(t)
           \/ \E t \in Thread : Leave(t)
           \/ \E t \in Thread, R \in SUBSET Row : \E vs \in [R -> Given] :
                 BulkInsert(t, vs)
           \/ \E t \in Thread, s \in Start : CreateCharacter(t, s)
           \/ \E q \in Process, wrapped \in BOOLEAN : Dispatch(q, wrapped)
  <2>1. UNCHANGED <<inst, cleared>>
    BY <1>2 DEF Enter, Allow, Take, Leave, BulkInsert, CreateCharacter, Dispatch,
                vars, history
  <2>2. H BY <1>1, <2>1
  <2>3. QED BY <2>2
<1>3. ASSUME NEW t \in Thread, NEW x \in Row, NEW w \in Given, Insert(t, x, w)
      PROVE  H
  BY <1>3, HoldInsert DEF Insert
<1>4. ASSUME NEW t \in Thread, NEW x \in Row, Load(t, x) PROVE H
  BY <1>4, HoldLoad
<1>5. ASSUME NEW t \in Thread, NEW x \in Row, NEW w \in Assigned, Assign(t, x, w)
      PROVE  H
  <2>1. /\ inst' = [inst EXCEPT ![t[1]][x] = SetShard(@, w)]
        /\ cleared' = [cleared EXCEPT ![x] = @ \/ w = None]
    BY <1>5 DEF Assign
  <2>2. (\A y \in Row : cleared[y] => cleared'[y]) /\ (w = None => cleared'[x])
    BY <2>1 DEF RowInv, RowType
  <2>3. w \in Column BY TenancyAssumption DEF TenancyAssumption
  <2>4. QED BY <2>1, <2>2, <2>3, HoldSet
<1>6. ASSUME NEW t \in Thread, NEW x \in Row, Save(t, x) PROVE H
  BY <1>6, HoldSaved DEF Save, history
<1>7. ASSUME NEW t \in Thread, NEW x \in Row, InsertCharacter(t, x) PROVE H
  BY <1>7, HoldInsert DEF InsertCharacter
<1>8. ASSUME NEW t \in Thread, SettleCharacter(t) PROVE H
  <2>1. CASE Usable(LocationShard(t))
    <3>1. /\ making[t].char \in Row /\ making[t].start \in Column
          /\ making[t].start # None /\ UNCHANGED cleared
          /\ inst' = [inst EXCEPT ![t[1]][making[t].char] =
                        SetShard(@, making[t].start)]
      BY <1>8, <2>1, Settling
    <3>2. QED BY <3>1, HoldSet
  <2>2. CASE ~Usable(LocationShard(t))
    BY <1>1, <1>8, <2>2 DEF SettleCharacter, history
  <2>3. QED BY <2>1, <2>2
<1>9. ASSUME NEW t \in Thread, SaveCharacter(t) PROVE H
  <2>1. UNCHANGED cleared /\ making[t].stage = "assigned"
    BY <1>9 DEF SaveCharacter
  <2>2. making[t].char \in Row
    BY <2>1 DEF RowInv, RowType, MakingOK, Making
  <2>3. CASE Saved(t, making[t].char) BY <2>1, <2>2, <2>3, HoldSaved
  <2>4. CASE UNCHANGED inst BY <1>1, <2>1, <2>4
  <2>5. QED BY <1>9, <2>3, <2>4 DEF SaveCharacter
<1>10. ASSUME NEW q \in Process, Restart(q), q # p PROVE H
  <2>1. inst'[p][r] = inst[p][r] /\ UNCHANGED cleared
    BY <1>10 DEF Restart, history, RowInv, RowType
  <2>2. QED BY <2>1, HoldSame
<1> HIDE DEF H
<1>11. CASE Next
  <2>1. CASE \E q \in Process : Restart(q) BY <2>1, <1>10 DEF H
  <2>2. QED
    BY <1>2, <1>3, <1>4, <1>5, <1>6, <1>7, <1>8, <1>9, <1>11, <2>1, Cases, Zenon
       DEF H
<1>12. QED BY <1>2, <1>11 DEF H

(* Only SettleCharacter takes a character to the second statement.         *)
LEMMA StaysAssigned ==
  ASSUME RowInv, [Next]_vars, NEW t \in Thread, making'[t].stage = "assigned"
  PROVE  \/ making'[t] = making[t]
         \/ SettleCharacter(t) /\ Usable(LocationShard(t))
<1> DEFINE C == making'[t] = making[t] \/ (SettleCharacter(t) /\ Usable(LocationShard(t)))
<1>1. ASSUME NEW u \in Thread, NEW m \in Making, m.stage # "assigned",
             making' = [making EXCEPT ![u] = m]
      PROVE  making'[t] = making[t]
  BY <1>1 DEF RowInv, RowType
<1>2. \A u \in Thread : making[u] \in Making BY DEF RowInv, RowType
<1>3. NotMaking \in Making /\ NotMaking.stage = "no" BY DEF NotMaking, Making
<1>4. CASE UNCHANGED making BY <1>4
<1>5. CASE \/ UNCHANGED vars
           \/ \E u \in Thread, s \in Entered : Enter(u, s)
           \/ \E u \in Thread : Allow(u)
           \/ \E u \in Thread : Take(u)
           \/ \E u \in Thread, r \in Row, v \in Given : Insert(u, r, v)
           \/ \E u \in Thread, r \in Row : Load(u, r)
           \/ \E u \in Thread, r \in Row, v \in Assigned : Assign(u, r, v)
           \/ \E u \in Thread, r \in Row : Save(u, r)
           \/ \E u \in Thread, R \in SUBSET Row : \E vs \in [R -> Given] :
                 BulkInsert(u, vs)
           \/ \E q \in Process, wrapped \in BOOLEAN : Dispatch(q, wrapped)
  BY <1>4, <1>5 DEF Enter, Allow, Take, Insert, Load, Assign, Save, BulkInsert,
                    Dispatch, vars
<1>6. ASSUME NEW u \in Thread, Leave(u) PROVE C
  <2>1. CASE UNCHANGED making BY <2>1
  <2>2. CASE making' = [making EXCEPT ![u] = NotMaking] BY <2>2, <1>1, <1>3
  <2>3. CASE making' = [making EXCEPT ![u].stage = "created"]
    <3> DEFINE m == [making[u] EXCEPT !.stage = "created"]
    <3>1. m \in Making /\ m.stage = "created" BY <1>2 DEF Making
    <3>2. making' = [making EXCEPT ![u] = m] BY <2>3
    <3> HIDE DEF m
    <3>3. QED BY <3>1, <3>2, <1>1
  <2>4. QED BY <1>6, <2>1, <2>2, <2>3 DEF Leave
<1>7. ASSUME NEW u \in Thread, NEW v \in Start, CreateCharacter(u, v) PROVE C
  <2> DEFINE m == [stage |-> "creating", char |-> None, start |-> v]
  <2>1. m \in Making /\ m.stage = "creating" BY DEF Making
  <2>2. making' = [making EXCEPT ![u] = m] BY <1>7 DEF CreateCharacter
  <2> HIDE DEF m
  <2>3. QED BY <2>1, <2>2, <1>1
<1>8. ASSUME NEW u \in Thread, NEW r \in Row, InsertCharacter(u, r) PROVE C
  <2> DEFINE m == [making[u] EXCEPT !.char = r]
  <2>1. m \in Making /\ m.stage = "creating"
    BY <1>2, <1>8 DEF Making, InsertCharacter
  <2>2. making' = [making EXCEPT ![u] = m] BY <1>8 DEF InsertCharacter
  <2> HIDE DEF m
  <2>3. QED BY <2>1, <2>2, <1>1
<1>9. ASSUME NEW u \in Thread, SettleCharacter(u) PROVE C
  <2>1. CASE ~Usable(LocationShard(u))
    BY <1>9, <2>1, <1>1, <1>3 DEF SettleCharacter
  <2>2. CASE Usable(LocationShard(u)) /\ u = t BY <1>9, <2>2
  <2>3. CASE Usable(LocationShard(u)) /\ u # t
    BY <1>9, <2>3 DEF SettleCharacter, RowInv, RowType
  <2>4. QED BY <2>1, <2>2, <2>3
<1>10. ASSUME NEW u \in Thread, SaveCharacter(u) PROVE C
  BY <1>10, <1>1, <1>3 DEF SaveCharacter
<1>11. ASSUME NEW q \in Process, Restart(q) PROVE C
  BY <1>11, <1>3 DEF Restart
<1> HIDE DEF C
<1>12. CASE Next
  <2>1. UNCHANGED making => C BY DEF C
  <2>2. QED
    BY <1>5, <1>6, <1>7, <1>8, <1>9, <1>10, <1>11, <1>12, Cases, Zenon DEF C
<1>13. QED BY <1>5, <1>12 DEF C

LEMMA StepAssigned ==
  ASSUME RowInv, AssignedOK, [Next]_vars PROVE AssignedOK'
<1>1. SUFFICES ASSUME NEW t \in Thread, making'[t].stage = "assigned"
               PROVE  Holds(t[1], making[t].char, making[t].start)'
  BY DEF AssignedOK
<1>2. t[1] \in Process /\ making[t] \in Making BY Threads DEF RowInv, RowType
<1>3. CASE making'[t] = making[t]
  <2> PICK r : r = making[t].char OBVIOUS
  <2> PICK v : v = making[t].start OBVIOUS
  <2>1. /\ Holds(t[1], r, v) /\ r \in Row /\ v \in Shard
        /\ inst[t[1]][r] # Absent
    BY <1>1, <1>2, <1>3 DEF AssignedOK, RowInv, MakingOK, Making
  <2>2. ~Restart(t[1])
    <3>1. Restart(t[1]) => making'[t].stage = "no"
      BY DEF Restart, NotMaking
    <3>2. QED BY <1>1, <3>1
  <2>3. Holds(t[1], r, v)' BY <1>2, <2>1, <2>2, StepHolds
  <2>4. QED BY <1>3, <2>3 DEF Holds
<1>4. CASE SettleCharacter(t) /\ Usable(LocationShard(t))
  <2> PICK r : r = making[t].char OBVIOUS
  <2> PICK v : v = making[t].start OBVIOUS
  <2>1. /\ r \in Row /\ v \in Column /\ inst[t[1]][r] # Absent
        /\ inst' = [inst EXCEPT ![t[1]][r] = SetShard(@, v)]
        /\ making' = [making EXCEPT ![t].stage = "assigned"]
    BY <1>4, Settling
  <2> PICK i : i = inst[t[1]][r] OBVIOUS
  <2>2. i \in Instance /\ inst'[t[1]][r] = SetShard(i, v)
    BY <1>2, <2>1 DEF RowInv, RowType
  <2>3. inst'[t[1]][r].shard_id = v BY <2>1, <2>2, SetFields
  <2>4. making'[t].char = r /\ making'[t].start = v
    BY <1>2, <2>1 DEF RowInv, RowType, Making
  <2>5. QED BY <2>3, <2>4 DEF Holds
<1>5. QED BY <1>1, <1>3, <1>4, StaysAssigned

(* What create_character returns.                                          *)
Arrives(r) ==
  settled'[r] # settled[r] =>
    settled'[r] \in Shard /\ (row'[r] = settled'[r] \/ cleared[r])

LEMMA StepSettled ==
  ASSUME RowInv, AssignedOK, [Next]_vars PROVE \A r \in Row : Arrives(r)
<1>1. CASE UNCHANGED settled BY <1>1 DEF Arrives
<1>2. ASSUME NEW t \in Thread, SaveCharacter(t), NEW r \in Row,
             settled'[r] # settled[r]
      PROVE  settled'[r] \in Shard /\ (row'[r] = settled'[r] \/ cleared[r])
  <2> PICK c : c = making[t].char OBVIOUS
  <2> PICK v : v = making[t].start OBVIOUS
  <2>1. /\ making[t].stage = "assigned" /\ Saved(t, c) /\ Visible(t, row[c])
        /\ settled' = [settled EXCEPT ![c] = v]
    BY <1>2 DEF SaveCharacter
  <2>2. r = c /\ settled'[r] = v BY <1>2, <2>1 DEF RowInv, RowType
  <2>3. v \in Shard /\ v # None
    BY <2>1, TenancyAssumption DEF RowInv, MakingOK, TenancyAssumption
  <2>4. Holds(t[1], c, v) BY <2>1 DEF AssignedOK
  <2>5. /\ ~inst[t[1]][c].marked
        /\ row' = [row EXCEPT ![c] = Stamp(t, inst[t[1]][c].shard_id)]
    BY <2>1 DEF Saved
  <2>6. row'[r] = Stamp(t, inst[t[1]][c].shard_id)
    BY <2>2, <2>5 DEF RowInv, RowType
  <2>7. QED BY <2>2, <2>3, <2>4, <2>5, <2>6 DEF Holds, Stamp
<1>3. (\E t \in Thread : SaveCharacter(t)) \/ UNCHANGED settled
  <2>1. CASE UNCHANGED vars BY <2>1 DEF vars, history
  <2>2. CASE Next
    BY <2>2, Cases DEF Enter, Allow, Take, Leave, Insert, Load, Assign, Save, BulkInsert,
       CreateCharacter, InsertCharacter, SettleCharacter, Dispatch, Restart, history
  <2>3. QED BY <2>1, <2>2
<1>4. QED BY <1>1, <1>2, <1>3 DEF Arrives

(* Every variable keeps its type.                                          *)
THEOREM Typed == Spec => []TypeOK
<1>1. Init => RowInv BY InitRows
<1>2. RowInv /\ [Next]_vars => RowInv' BY KeepInv
<1>3. RowInv => TypeOK
  BY DEF RowInv, RowType, ScopeInv, ScopeType, BlocksOK, JobsOK, TypeOK
<1>4. QED BY <1>1, <1>2, <1>3, PTL DEF Spec

(* save() does not move a row that was inserted with a shard and that no   *)
(* assignment sets to NULL, whatever threads and processes hold of it.     *)
THEOREM OwnedRowsNeverMove == Spec => OwnedRowsStay
<1> DEFINE Stays == \A r \in Row :
                      row[r] # Absent /\ row'[r] # row[r] =>
                        born[r] = "sanctioned" \/ cleared[r]
<1>1. Init => RowInv BY InitRows
<1>2. RowInv /\ [Next]_vars => RowInv' BY KeepInv
<1>3. RowInv /\ [Next]_vars => [Stays]_vars
  <2>1. ASSUME RowInv, [Next]_vars PROVE Stays
    BY <2>1, StepRows DEF Steady, Firm
  <2>2. QED BY <2>1
<1>4. Spec => [][Stays]_vars BY <1>1, <1>2, <1>3, PTL DEF Spec
<1>5. QED BY <1>4 DEF OwnedRowsStay

(* A character that create_character returns settled is on the start       *)
(* location's shard in the database, however many threads of the router    *)
(* set or save the instance between the two statements.                    *)
THEOREM CharactersStartOnShards == Spec => StartShard
<1>1. Init => RowInv /\ AssignedOK BY InitRows DEF Init, AssignedOK, NotMaking
<1>2. RowInv /\ AssignedOK /\ [Next]_vars => RowInv' /\ AssignedOK'
  BY KeepInv, StepAssigned
<1>3. RowInv /\ AssignedOK /\ [Next]_vars => [\A r \in Row : Arrives(r)]_vars
  BY StepSettled
<1>4. Spec => [][\A r \in Row : Arrives(r)]_vars
  BY <1>1, <1>2, <1>3, PTL DEF Spec
<1>5. QED BY <1>4 DEF StartShard, Arrives

=============================================================================
