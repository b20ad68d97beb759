--------------------------- MODULE EnvAccessProofs ---------------------------
(***************************************************************************)
(* What holds of the environment monitor for every set of tasks, every     *)
(* number of priorities and every choice of the priorities they use.       *)
(*                                                                         *)
(* The inductive invariant has three parts besides the types.  Baton says  *)
(* who owns the mutex, without counting: it is free, in one task's hands   *)
(* or in one private semaphore, and never in two places.  Users says what  *)
(* count and the program counters say of each other.  NoLostWakeup is      *)
(* inductive together with these two.                                      *)
(*                                                                         *)
(* The bound on overtaking: release_env looks at the priorities in a       *)
(* circle that starts after its own, so each access brings the monitor     *)
(* nearer, on that circle, to every priority that is blocked.  The         *)
(* invariant Behind says that the priorities let in while p is blocked are *)
(* behind the one that has the environment, or was handed it; none of them *)
(* can be next before p.                                                   *)
(***************************************************************************)
EXTENDS EnvOvertaking, FiniteSetTheorems, TLAPS

Types ==
  /\ mutex \in {0, 1}
  /\ count \in {0, 1}
  /\ blk \in [Prio -> Nat]
  /\ sem \in [Prio -> {0, 1}]
  /\ pc \in [Task -> PC]
  /\ prio \in [Task -> Prio]

Owns(t) == pc[t] \in {"queueing", "entering", "leaving"}
HasEnv(t) == pc[t] \in {"entering", "using"}

Baton ==
  /\ \A t, u \in Task : Owns(t) /\ Owns(u) => t = u
  /\ \A t \in Task : Owns(t) => mutex = 0
  /\ \A p \in Prio : sem[p] = 1 => mutex = 0 /\ blk[p] > 0
  /\ \A p \in Prio, t \in Task : sem[p] = 1 => ~ Owns(t)
  /\ \A p, q \in Prio : sem[p] = 1 /\ sem[q] = 1 => p = q
  /\ mutex = 0 => (\E t \in Task : Owns(t)) \/ (\E p \in Prio : sem[p] = 1)

Users ==
  /\ \A t, u \in Task : HasEnv(t) /\ HasEnv(u) => t = u
  /\ \A t \in Task : HasEnv(t) => count = 1
  /\ \A p \in Prio : sem[p] = 1 => count = 0
  /\ \A t \in Task : pc[t] = "leaving" => count = 0
  /\ \A t \in Task : pc[t] = "queueing" => count = 1

IInv == Types /\ Baton /\ Users /\ NoLostWakeup

-----------------------------------------------------------------------------
\* The priorities release_env looks at are priorities.
LEMMA NthIsPrio ==
  ASSUME NEW p \in Prio, NEW k \in 1 .. ENV_PRIOS
  PROVE  Nth(p, k) \in Prio
BY EnvAccessAssumption DEF Nth, Prio

\* release_env looks at every priority.
LEMMA NthReachesAll ==
  ASSUME NEW p \in Prio, NEW q \in Prio
  PROVE  \E k \in 1 .. ENV_PRIOS : Nth(p, k) = q
<1>1. ENV_PRIOS \in Nat /\ ENV_PRIOS > 0 /\ p \in 0 .. ENV_PRIOS - 1 /\ q \in 0 .. ENV_PRIOS - 1
  BY EnvAccessAssumption DEF Prio
<1>2. CASE q > p
  <2>1. q - p \in 1 .. ENV_PRIOS
    BY <1>1, <1>2
  <2>2. (p + (q - p)) % ENV_PRIOS = q
    BY <1>1
  <2>3. QED
    BY <2>1, <2>2 DEF Nth
<1>3. CASE ~ (q > p)
  <2>1. q - p + ENV_PRIOS \in 1 .. ENV_PRIOS
    BY <1>1, <1>3
  <2>2. (p + (q - p + ENV_PRIOS)) % ENV_PRIOS = q
    BY <1>1
  <2>3. QED
    BY <2>1, <2>2 DEF Nth
<1>4. QED
  BY <1>2, <1>3

-----------------------------------------------------------------------------
LEMMA InitIInv == Init => IInv
BY EnvAccessAssumption
   DEF Init, IInv, Types, Baton, Users, NoLostWakeup, PC, Prio, Owns, HasEnv

LEMMA NextIInv == IInv /\ [Next]_vars => IInv'
<1> SUFFICES ASSUME IInv, [Next]_vars
             PROVE  IInv'
  OBVIOUS
<1> USE DEF IInv, Types, Baton, Users, NoLostWakeup, PC, Owns, HasEnv, Go
<1>1. ASSUME NEW t \in Task, NEW p \in Prio, CallAccess(t, p)
      PROVE  IInv'
  BY <1>1 DEF CallAccess
<1>2. ASSUME NEW t \in Task, AccessBusy(t)
      PROVE  IInv'
  <2>1. prio[t] \in Prio /\ 0 .. prio[t] \subseteq Prio
    BY EnvAccessAssumption DEF Prio
  <2>2. count = 1
    BY <1>2, <2>1 DEF AccessBusy, MustWait
  <2>3. QED
    BY <1>2, <2>1, <2>2 DEF AccessBusy
<1>3. ASSUME NEW t \in Task, AccessFree(t)
      PROVE  IInv'
  BY <1>3 DEF AccessFree, MustWait
<1>4. ASSUME NEW t \in Task, Block(t)
      PROVE  IInv'
  BY <1>4 DEF Block
<1>5. ASSUME NEW t \in Task, Woken(t)
      PROVE  IInv'
  BY <1>5 DEF Woken
<1>6. ASSUME NEW t \in Task, Enter(t)
      PROVE  IInv'
  BY <1>6 DEF Enter
<1>7. ASSUME NEW t \in Task, Release(t)
      PROVE  IInv'
  BY <1>7 DEF Release
<1>8. ASSUME NEW t \in Task, HandOver(t)
      PROVE  IInv'
  <2>1. PICK k \in 1 .. ENV_PRIOS :
          /\ FirstBlocked(prio[t], k)
          /\ sem' = [sem EXCEPT ![Nth(prio[t], k)] = @ + 1]
    BY <1>8 DEF HandOver
  <2>2. Nth(prio[t], k) \in Prio /\ blk[Nth(prio[t], k)] # 0
    BY <2>1, NthIsPrio DEF FirstBlocked
  <2>3. QED
    BY <1>8, <2>1, <2>2 DEF HandOver
<1>9. ASSUME NEW t \in Task, PostMutex(t)
      PROVE  IInv'
  <2>1. \A p \in Prio : blk[p] = 0
    BY <1>9, NthReachesAll DEF PostMutex
  <2>2. QED
    BY <1>9, <2>1 DEF PostMutex
<1>10. CASE UNCHANGED vars
  BY <1>10 DEF vars
<1>11. QED
  BY <1>1, <1>2, <1>3, <1>4, <1>5, <1>6, <1>7, <1>8, <1>9, <1>10 DEF Next, Progress

\* The inductive invariant holds in every reachable state of the monitor.
THEOREM SpecIInv == Spec => []IInv
BY InitIInv, NextIInv, PTL DEF Spec

-----------------------------------------------------------------------------
\* Mutual exclusion: at most one task is between access_env and release_env.
THEOREM SpecMutualExclusion == Spec => []MutualExclusion
<1>1. IInv => MutualExclusion
  BY DEF IInv, Users, HasEnv, MutualExclusion, At
<1>2. QED
  BY SpecIInv, <1>1, PTL

\* No lost wakeup: release_env leaves nobody blocked on a free monitor.
THEOREM SpecNoLostWakeup == Spec => []NoLostWakeup
<1>1. IInv => NoLostWakeup
  BY DEF IInv
<1>2. QED
  BY SpecIInv, <1>1, PTL

\* The mutex has one owner: nobody, a task or a private semaphore.  In
\* particular env.mutex is never posted when it is already free.
THEOREM SpecOneOwner == Spec => []OneOwner
<1> DEFINE owners == At({"queueing", "entering", "leaving"})
           handed == {p \in Prio : sem[p] > 0}
<1>1. ASSUME IInv
      PROVE  Cardinality(owners) + Cardinality(handed) + mutex = 1
  <2> USE <1>1 DEF IInv, Types, Baton, Owns
  <2>1. \/ mutex = 1 /\ owners = {} /\ handed = {}
        \/ mutex = 0 /\ (\E t \in Task : owners = {t}) /\ handed = {}
        \/ mutex = 0 /\ owners = {} /\ \E p \in Prio : handed = {p}
    <3>1. handed = {p \in Prio : sem[p] = 1}
      OBVIOUS
    <3>2. CASE mutex = 1
      BY <3>1, <3>2 DEF At
    <3>3. CASE mutex = 0 /\ \E t \in Task : Owns(t)
      BY <3>1, <3>3 DEF At
    <3>4. CASE mutex = 0 /\ \E p \in Prio : sem[p] = 1
      BY <3>1, <3>4 DEF At
    <3>5. QED
      BY <3>2, <3>3, <3>4
  <2> HIDE <1>1 DEF owners, handed
  <2>2. /\ owners = {} => Cardinality(owners) = 0
        /\ handed = {} => Cardinality(handed) = 0
    BY FS_EmptySet
  <2>3. /\ \A t : owners = {t} => Cardinality(owners) = 1
        /\ \A p : handed = {p} => Cardinality(handed) = 1
    BY FS_Singleton
  <2>4. QED
    BY <2>1, <2>2, <2>3
<1>2. IInv => OneOwner
  BY <1>1 DEF OneOwner
<1>3. QED
  BY SpecIInv, <1>2, PTL

-----------------------------------------------------------------------------
\* How the sets of blocked tasks change when one task moves.
LEMMA BlockedStep ==
  ASSUME Types, NEW t \in Task, NEW from, NEW to \in PC, Go(t, from, to),
         prio' = prio, NEW p \in Prio
  PROVE  Blocked(p)' =
           IF p # prio[t] THEN Blocked(p)
           ELSE IF to \in {"queueing", "blocked"} THEN Blocked(p) \cup {t}
           ELSE Blocked(p) \ {t}
BY DEF Types, Go, Blocked, At

\* The blocked tasks of a priority are finitely many.
LEMMA BlockedFinite ==
  ASSUME NEW p \in Prio
  PROVE  IsFiniteSet(Blocked(p)) /\ Cardinality(Blocked(p)) <= Cardinality(Task)
BY EnvAccessAssumption, FS_Subset DEF Blocked, At

LEMMA NextBlkCounts == IInv /\ BlkCounts /\ [Next]_vars => BlkCounts'
<1> SUFFICES ASSUME IInv, BlkCounts, [Next]_vars, NEW p \in Prio
             PROVE  blk'[p] = Cardinality(Blocked(p)')
  BY DEF BlkCounts
<1> blk[p] = Cardinality(Blocked(p)) /\ Types
  BY DEF BlkCounts, IInv
<1> USE BlockedStep, BlockedFinite DEF PC
<1>1. ASSUME NEW t \in Task, NEW q \in Prio, CallAccess(t, q)
      PROVE  blk'[p] = Cardinality(Blocked(p)')
  <2>1. Blocked(p)' = Blocked(p)
    BY <1>1 DEF CallAccess, Go, Blocked, At, Types
  <2>2. QED
    BY <1>1, <2>1 DEF CallAccess
<1>2. ASSUME NEW t \in Task, AccessBusy(t)
      PROVE  blk'[p] = Cardinality(Blocked(p)')
  <2>1. t \notin Blocked(p) /\ Go(t, "access", "queueing") /\ prio' = prio
    BY <1>2 DEF AccessBusy, Go, Blocked, At
  <2>2. Blocked(p)' = IF p # prio[t] THEN Blocked(p) ELSE Blocked(p) \cup {t}
    BY <2>1
  <2>3. blk'[p] = IF p # prio[t] THEN blk[p] ELSE blk[p] + 1
    BY <1>2 DEF AccessBusy, Types
  <2>4. Cardinality(Blocked(p) \cup {t}) = Cardinality(Blocked(p)) + 1
    BY <2>1, FS_AddElement
  <2>5. QED
    BY <2>2, <2>3, <2>4
<1>3. ASSUME NEW t \in Task, Woken(t)
      PROVE  blk'[p] = Cardinality(Blocked(p)')
  <2>1. /\ p = prio[t] => t \in Blocked(p)
        /\ Go(t, "blocked", "entering") /\ prio' = prio
    BY <1>3 DEF Woken, Go, Blocked, At
  <2>2. Blocked(p)' = IF p # prio[t] THEN Blocked(p) ELSE Blocked(p) \ {t}
    BY <2>1
  <2>3. blk'[p] = IF p # prio[t] THEN blk[p] ELSE blk[p] - 1
    BY <1>3 DEF Woken, Types
  <2>4. QED
    BY <2>1, <2>2, <2>3, FS_RemoveElement
<1>4. ASSUME NEW t \in Task,
             AccessFree(t) \/ Block(t) \/ Enter(t) \/ Release(t) \/ HandOver(t)
               \/ PostMutex(t)
      PROVE  blk'[p] = Cardinality(Blocked(p)')
  <2>1. Blocked(p)' = Blocked(p)
    BY <1>4 DEF AccessFree, Block, Enter, Release, HandOver, PostMutex, Go,
                Blocked, At, Types
  <2>2. blk' = blk
    BY <1>4 DEF AccessFree, Block, Enter, Release, HandOver, PostMutex
  <2>3. QED
    BY <2>1, <2>2
<1>5. CASE UNCHANGED vars
  BY <1>5 DEF vars, Blocked, At
<1>6. QED
  BY <1>1, <1>2, <1>3, <1>4, <1>5 DEF Next, Progress

\* blk counts the tasks that are blocked, so a posted private semaphore
\* always finds a task of its priority to wake.
THEOREM SpecBlkCounts == Spec => []BlkCounts
<1>1. Init => BlkCounts
  <2> SUFFICES ASSUME Init, NEW p \in Prio
               PROVE  blk[p] = Cardinality(Blocked(p))
    BY DEF BlkCounts
  <2>1. Blocked(p) = {}
    BY DEF Init, Blocked, At
  <2>2. QED
    BY <2>1, FS_EmptySet DEF Init
<1>2. QED
  BY <1>1, NextBlkCounts, SpecIInv, PTL DEF Spec

\* The semaphores stay binary and the counters within the number of tasks.
THEOREM SpecTypeOK == Spec => []TypeOK
<1>1. IInv /\ BlkCounts => TypeOK
  <2> SUFFICES ASSUME IInv, BlkCounts
               PROVE  TypeOK
    OBVIOUS
  <2>1. \A p \in Prio : blk[p] \in 0 .. Cardinality(Task)
    BY BlockedFinite, EnvAccessAssumption, FS_CardinalityType
       DEF BlkCounts, IInv, Types
  <2>2. QED
    BY <2>1 DEF IInv, Types, TypeOK
<1>2. QED
  BY <1>1, SpecIInv, SpecBlkCounts, PTL

-----------------------------------------------------------------------------
\* Every step of the monitor is a step of the lock or changes nothing of it.
LEMMA StepImplementsLock ==
  IInv /\ IInv' /\ [Next]_vars => [Lock!LockNext]_(Lock!lockVars)
<1> DEFINE waiting == At({"access", "queueing", "blocked"})
           user == At({"entering", "using"})
<1> SUFFICES ASSUME IInv, IInv', [Next]_vars
             PROVE  Lock!LockNext \/ UNCHANGED <<waiting, user>>
  BY DEF Lock!lockVars
<1> USE DEF IInv, Types, Users, HasEnv, PC, Go, At
<1>1. ASSUME NEW t \in Task, NEW p \in Prio, CallAccess(t, p)
      PROVE  Lock!Ask(t)
  BY <1>1 DEF CallAccess, Lock!Ask
<1>2. ASSUME NEW t \in Task, AccessFree(t) \/ Woken(t)
      PROVE  Lock!LetIn(t)
  <2>1. count = 0
    BY <1>2, EnvAccessAssumption DEF AccessFree, MustWait, Woken
  <2>2. user = {}
    BY <2>1
  <2>3. t \in waiting /\ waiting' = waiting \ {t}
    BY <1>2 DEF AccessFree, Woken
  <2>4. user' = {t}
    BY <1>2, <2>2 DEF AccessFree, Woken
  <2>5. QED
    BY <2>2, <2>3, <2>4 DEF Lock!LetIn
<1>3. ASSUME NEW t \in Task, Release(t)
      PROVE  Lock!GiveBack(t)
  BY <1>3 DEF Release, Lock!GiveBack
<1>4. ASSUME NEW t \in Task,
             AccessBusy(t) \/ Block(t) \/ Enter(t) \/ HandOver(t) \/ PostMutex(t)
      PROVE  UNCHANGED <<waiting, user>>
  BY <1>4 DEF AccessBusy, Block, Enter, HandOver, PostMutex
<1>5. CASE UNCHANGED vars
  BY <1>5 DEF vars
<1>6. QED
  BY <1>1, <1>2, <1>3, <1>4, <1>5 DEF Next, Progress, Lock!LockNext

\* access_env / release_env implement the abstract lock of EnvLock.
THEOREM SpecImplementsLock == Spec => ImplementsLock
<1>1. Init => Lock!LockInit
  BY DEF Init, At, Lock!LockInit
<1>2. QED
  BY <1>1, StepImplementsLock, SpecIInv, PTL
     DEF Spec, ImplementsLock, Lock!LockSpec

-----------------------------------------------------------------------------
\* Bounded overtaking

\* How many priorities release_env(r) looks at to find p.
Dist(r, p) == IF p > r THEN p - r ELSE p - r + ENV_PRIOS

InMonitor(t) == pc[t] \in {"entering", "using", "leaving"}

Behind ==
  /\ passed \in [Prio -> SUBSET Prio]
  /\ \A p \in Prio : blk[p] = 0 => passed[p] = {}
  /\ \A t \in Task, p \in Prio : InMonitor(t) /\ blk[p] > 0 =>
       \A r \in passed[p] : Dist(r, p) >= Dist(prio[t], p)
  /\ \A q, p \in Prio : sem[q] = 1 /\ blk[p] > 0 /\ p # q =>
       \A r \in passed[p] : Dist(r, p) > Dist(q, p)

-----------------------------------------------------------------------------
\* The circle

LEMMA DistIsNth ==
  ASSUME NEW r \in Prio, NEW p \in Prio
  PROVE  Dist(r, p) \in 1 .. ENV_PRIOS /\ Nth(r, Dist(r, p)) = p
<1>1. /\ ENV_PRIOS \in Nat /\ ENV_PRIOS > 0
      /\ r \in 0 .. ENV_PRIOS - 1 /\ p \in 0 .. ENV_PRIOS - 1
  BY EnvAccessAssumption DEF Prio
<1>2. CASE p > r
  <2>1. (r + (p - r)) % ENV_PRIOS = p
    BY <1>1
  <2> QED
    BY <1>1, <1>2, <2>1 DEF Dist, Nth
<1>3. CASE ~ (p > r)
  <2>1. (r + (p - r + ENV_PRIOS)) % ENV_PRIOS = p
    BY <1>1
  <2> QED
    BY <1>1, <1>3, <2>1 DEF Dist, Nth
<1> QED
  BY <1>2, <1>3

LEMMA NthDist ==
  ASSUME NEW r \in Prio, NEW k \in 1 .. ENV_PRIOS
  PROVE  Dist(r, Nth(r, k)) = k
<1>1. /\ ENV_PRIOS \in Nat /\ ENV_PRIOS > 0
      /\ r \in 0 .. ENV_PRIOS - 1 /\ k \in 1 .. ENV_PRIOS
  BY EnvAccessAssumption DEF Prio
<1>2. CASE r + k < ENV_PRIOS
  <2>1. (r + k) % ENV_PRIOS = r + k
    BY <1>1, <1>2
  <2> QED
    BY <1>1, <2>1 DEF Dist, Nth
<1>3. CASE r + k >= ENV_PRIOS
  <2>1. (r + k) % ENV_PRIOS = r + k - ENV_PRIOS
    BY <1>1, <1>3
  <2> QED
    BY <1>1, <1>3, <2>1 DEF Dist, Nth
<1> QED
  BY <1>1, <1>2, <1>3

\* The priority that release_env(r) wakes is before every other blocked one.
LEMMA WokenIsNearer ==
  ASSUME blk \in [Prio -> Nat], NEW r \in Prio, NEW k \in 1 .. ENV_PRIOS,
         FirstBlocked(r, k), NEW p \in Prio, blk[p] > 0, p # Nth(r, k)
  PROVE  Dist(Nth(r, k), p) < Dist(r, p)
<1> DEFINE q == Nth(r, k)
<1>1. /\ Dist(r, p) \in 1 .. ENV_PRIOS /\ Nth(r, Dist(r, p)) = p
      /\ q \in Prio /\ Dist(r, q) = k
  BY DistIsNth, NthDist, NthIsPrio
<1> HIDE DEF q
<1>2. k < Dist(r, p)
  <2>1. ~ (Dist(r, p) \in 1 .. k - 1)
    BY <1>1 DEF FirstBlocked
  <2>2. Dist(r, p) # k
    BY <1>1 DEF q
  <2> QED
    BY <1>1, <2>1, <2>2
<1>3. Dist(q, p) < Dist(r, p)
  BY <1>1, <1>2, EnvAccessAssumption DEF Dist, Prio
<1> QED
  BY <1>3 DEF q

-----------------------------------------------------------------------------
\* Nobody is let in past a blocked task but by release_env.
LEMMA FreeMeansNobodyBlocked ==
  ASSUME IInv, NEW t \in Task, AccessFree(t)
  PROVE  \A p \in Prio : blk[p] = 0
<1>1. mutex = 1 /\ count = 0
  BY DEF AccessFree, MustWait, IInv, Types
<1> QED
  BY <1>1 DEF IInv, NoLostWakeup

\* The priorities a step lets in.
LEMMA LetInNobody ==
  ASSUME pc \in [Task -> PC], NEW t \in Task, NEW from, NEW to, to # "entering", Go(t, from, to)
  PROVE  LetIn = {}
BY DEF LetIn, Go

LEMMA LetInOne ==
  ASSUME pc \in [Task -> PC], NEW t \in Task, NEW from, from # "entering",
         Go(t, from, "entering")
  PROVE  LetIn = {prio[t]}
BY DEF LetIn, Go

LEMMA InitBehind == HistInit => Behind
BY DEF HistInit, Init, Behind, InMonitor

\* A step that lets nobody in, and after which those in the monitor are as
\* near to the blocked priorities as before.
LEMMA StaysBehind ==
  ASSUME IInv, Behind, HistNext, LetIn = {}, blk' \in [Prio -> Nat],
         \A p \in Prio : blk[p] = 0 \/ blk'[p] > 0,
         \A u \in Task : InMonitor(u)' => InMonitor(u) /\ prio'[u] = prio[u],
         \A q \in Prio : sem'[q] = 1 => sem[q] = 1
  PROVE  Behind'
<1>1. \A p \in Prio : passed'[p] = IF blk'[p] = 0 THEN {} ELSE passed[p]
  BY DEF HistNext
<1>2. passed' \in [Prio -> SUBSET Prio]
  BY DEF HistNext, Behind
<1>3. \A p \in Prio : blk'[p] > 0 => passed'[p] = passed[p] /\ (blk[p] > 0 \/ passed[p] = {})
  BY <1>1 DEF Behind, IInv, Types
<1>4. ASSUME NEW u \in Task, NEW p \in Prio, InMonitor(u)', blk'[p] > 0,
             NEW r \in passed'[p]
      PROVE  Dist(r, p) >= Dist(prio'[u], p)
  BY <1>3, <1>4 DEF Behind
<1>5. ASSUME NEW q \in Prio, NEW p \in Prio, sem'[q] = 1, blk'[p] > 0, p # q,
             NEW r \in passed'[p]
      PROVE  Dist(r, p) > Dist(q, p)
  BY <1>3, <1>5 DEF Behind
<1> QED
  BY <1>1, <1>2, <1>4, <1>5 DEF Behind

LEMMA WokenBehind ==
  ASSUME IInv, Behind, NEW t \in Task, Woken(t), HistNext
  PROVE  Behind'
<1> DEFINE q == prio[t]
<1>1. /\ pc \in [Task -> PC] /\ q \in Prio /\ sem[q] = 1
      /\ blk \in [Prio -> Nat] /\ sem \in [Prio -> {0, 1}]
      /\ Go(t, "blocked", "entering") /\ prio' = prio
      /\ sem' = [sem EXCEPT ![q] = @ - 1] /\ blk' = [blk EXCEPT ![q] = @ - 1]
  BY DEF Woken, IInv, Types
<1>2. LetIn = {q}
  BY <1>1, LetInOne
<1>3. /\ \A p \in Prio : p # q => sem[p] = 0
      /\ \A u \in Task : ~ InMonitor(u)
  <2>1. (\A u \in Task : ~ Owns(u)) /\ count = 0
    BY <1>1 DEF IInv, Baton, Users
  <2> QED
    BY <1>1, <2>1 DEF IInv, Baton, Users, InMonitor, Owns, HasEnv
<1> HIDE DEF q
<1>4. \A p \in Prio :
        passed'[p] = IF blk'[p] = 0 \/ p = q THEN {} ELSE passed[p] \cup {q}
  BY <1>2 DEF HistNext
<1>5. \A p \in Prio : sem'[p] # 1
  BY <1>1, <1>3
<1>6. \A u \in Task : InMonitor(u)' => u = t
  BY <1>1, <1>3 DEF InMonitor, Go
<1>7. ASSUME NEW p \in Prio, blk'[p] > 0, NEW r \in passed'[p]
      PROVE  Dist(r, p) >= Dist(q, p)
  <2>1. p # q /\ blk[p] > 0 /\ (r \in passed[p] \/ r = q)
    BY <1>1, <1>4, <1>7
  <2>2. CASE r \in passed[p]
    <3>1. Dist(r, p) > Dist(q, p) /\ r \in Prio
      BY <1>1, <2>1, <2>2 DEF Behind
    <3>2. Dist(r, p) \in Int /\ Dist(q, p) \in Int
      BY <1>1, <3>1, DistIsNth
    <3> QED
      BY <3>1, <3>2
  <2>3. CASE r = q
    BY <1>1, <2>3, DistIsNth
  <2> QED
    BY <2>1, <2>2, <2>3
<1>8. passed' \in [Prio -> SUBSET Prio]
  BY <1>1, <1>2 DEF HistNext, Behind
<1>9. \A u \in Task, p \in Prio : InMonitor(u)' /\ blk'[p] > 0 =>
        \A r \in passed'[p] : Dist(r, p) >= Dist(prio'[u], p)
  BY <1>1, <1>6, <1>7 DEF q
<1> QED
  BY <1>4, <1>5, <1>8, <1>9 DEF Behind

LEMMA HandOverBehind ==
  ASSUME IInv, Behind, NEW t \in Task, HandOver(t), HistNext
  PROVE  Behind'
<1>1. PICK k \in 1 .. ENV_PRIOS :
        /\ FirstBlocked(prio[t], k)
        /\ sem' = [sem EXCEPT ![Nth(prio[t], k)] = @ + 1]
  BY DEF HandOver
<1> DEFINE q == Nth(prio[t], k)
<1>2. /\ pc \in [Task -> PC] /\ prio[t] \in Prio /\ q \in Prio
      /\ blk \in [Prio -> Nat] /\ sem \in [Prio -> {0, 1}]
      /\ Go(t, "leaving", "idle") /\ UNCHANGED <<blk, prio>>
  BY NthIsPrio DEF HandOver, IInv, Types
<1>3. LetIn = {}
  BY <1>2, LetInNobody
<1>4. /\ \A p \in Prio : sem[p] = 0
      /\ \A u \in Task : InMonitor(u) => u = t
  BY <1>2 DEF IInv, Baton, Users, InMonitor, Owns, HasEnv, Go
<1>5. \A p \in Prio : passed'[p] = passed[p]
  BY <1>2, <1>3 DEF HistNext, Behind
<1>6. \A u \in Task : ~ InMonitor(u)'
  BY <1>2, <1>4 DEF InMonitor, Go
<1>7. \A p \in Prio : sem'[p] = 1 => p = q
  BY <1>1, <1>2, <1>4
<1>8. ASSUME NEW p \in Prio, blk[p] > 0, p # q, NEW r \in passed[p]
      PROVE  Dist(r, p) > Dist(q, p)
  <2>1. Dist(q, p) < Dist(prio[t], p)
    BY <1>1, <1>2, <1>8, WokenIsNearer
  <2>2. Dist(r, p) >= Dist(prio[t], p) /\ r \in Prio
    BY <1>2, <1>8 DEF Behind, InMonitor, Go
  <2>3. Dist(r, p) \in Int /\ Dist(q, p) \in Int /\ Dist(prio[t], p) \in Int
    BY <1>2, <2>2, DistIsNth
  <2> QED
    BY <2>1, <2>2, <2>3
<1> HIDE DEF q
<1>9. passed' \in [Prio -> SUBSET Prio]
  BY <1>3 DEF HistNext, Behind
<1>10. \A p \in Prio : blk'[p] = 0 => passed'[p] = {}
  BY <1>2, <1>5 DEF Behind
<1>11. \A s, p \in Prio : sem'[s] = 1 /\ blk'[p] > 0 /\ p # s =>
         \A r \in passed'[p] : Dist(r, p) > Dist(s, p)
  BY <1>2, <1>5, <1>7, <1>8
<1> QED
  BY <1>6, <1>9, <1>10, <1>11 DEF Behind

LEMMA NextBehind == IInv /\ IInv' /\ Behind /\ [HistNext]_ovars => Behind'
<1> SUFFICES ASSUME IInv, IInv', Behind, [HistNext]_ovars PROVE Behind'
  OBVIOUS
<1>1. CASE UNCHANGED ovars
  BY <1>1 DEF ovars, Behind, InMonitor
<1> SUFFICES ASSUME HistNext PROVE Behind'
  BY <1>1
<1>2. pc \in [Task -> PC] /\ blk \in [Prio -> Nat] /\ blk' \in [Prio -> Nat]
      /\ prio \in [Task -> Prio] /\ sem \in [Prio -> {0, 1}]
  BY DEF IInv, Types
<1>3. ASSUME NEW t \in Task, NEW p \in Prio, CallAccess(t, p) PROVE Behind'
  <2>1. LetIn = {}
    BY <1>2, <1>3, LetInNobody DEF CallAccess
  <2>2. \A u \in Task : InMonitor(u)' => InMonitor(u) /\ prio'[u] = prio[u]
    BY <1>2, <1>3 DEF CallAccess, Go, InMonitor
  <2> QED
    BY <1>2, <1>3, <2>1, <2>2, StaysBehind DEF CallAccess
<1>4. ASSUME NEW t \in Task, AccessBusy(t) PROVE Behind'
  <2>1. LetIn = {}
    BY <1>2, <1>4, LetInNobody DEF AccessBusy
  <2>2. \A u \in Task : InMonitor(u)' => InMonitor(u) /\ prio'[u] = prio[u]
    BY <1>2, <1>4 DEF AccessBusy, Go, InMonitor
  <2>3. (\A p \in Prio : blk[p] = 0 \/ blk'[p] > 0) /\ sem' = sem
    BY <1>2, <1>4 DEF AccessBusy
  <2> QED
    BY <1>2, <2>1, <2>2, <2>3, StaysBehind
<1>5. ASSUME NEW t \in Task, AccessFree(t) PROVE Behind'
  <2>1. (\A p \in Prio : blk'[p] = 0) /\ (\A p \in Prio : sem'[p] # 1)
    BY <1>2, <1>5, FreeMeansNobodyBlocked DEF AccessFree, IInv, Baton
  <2>2. passed' = [p \in Prio |-> {}]
    BY <2>1 DEF HistNext
  <2> QED
    BY <2>1, <2>2 DEF Behind
<1>6. ASSUME NEW t \in Task, Block(t) \/ Enter(t) \/ Release(t) \/ PostMutex(t)
      PROVE  Behind'
  <2>1. LetIn = {}
    BY <1>2, <1>6, LetInNobody DEF Block, Enter, Release, PostMutex
  <2>2. \A u \in Task : InMonitor(u)' => InMonitor(u) /\ prio'[u] = prio[u]
    BY <1>2, <1>6 DEF Block, Enter, Release, PostMutex, Go, InMonitor
  <2>3. UNCHANGED <<blk, sem>>
    BY <1>6 DEF Block, Enter, Release, PostMutex
  <2>4. \A p \in Prio : blk[p] = 0 \/ blk'[p] > 0
    BY <1>2, <2>3
  <2> QED
    BY <1>2, <2>1, <2>2, <2>3, <2>4, StaysBehind
<1>7. ASSUME NEW t \in Task, Woken(t) PROVE Behind'
  BY <1>7, WokenBehind
<1>8. ASSUME NEW t \in Task, HandOver(t) PROVE Behind'
  BY <1>8, HandOverBehind
<1> QED
  BY <1>3, <1>4, <1>5, <1>6, <1>7, <1>8 DEF HistNext, Next, Progress

\* What the history records is behind the monitor on the circle.
THEOREM SpecBehind == HistSpec => [](IInv /\ Behind)
<1>1. HistInit => IInv /\ Behind
  BY InitIInv, InitBehind DEF HistInit
<1>2. IInv /\ Behind /\ [HistNext]_ovars => (IInv /\ Behind)'
  <2>1. [HistNext]_ovars => [Next]_vars
    BY DEF HistNext, ovars, vars
  <2> QED
    BY <2>1, NextIInv, NextBehind
<1> QED
  BY <1>1, <1>2, PTL DEF HistSpec

\* Bounded overtaking: while a priority has blocked tasks no other priority
\* is let in twice, for any number of tasks and of priorities.
THEOREM SpecNoSecondPass == HistSpec => NoSecondPass
<1> DEFINE Fair == \A p \in Prio : blk[p] > 0 /\ p \notin LetIn => LetIn \cap passed[p] = {}
<1>1. ASSUME IInv, Behind, HistNext PROVE Fair
  <2>1. pc \in [Task -> PC] /\ prio \in [Task -> Prio] /\ sem \in [Prio -> {0, 1}]
    BY <1>1 DEF IInv, Types
  <2>2. ASSUME NEW t \in Task, NEW p \in Prio, CallAccess(t, p) PROVE LetIn = {}
    BY <2>1, <2>2, LetInNobody DEF CallAccess
  <2>3. ASSUME NEW t \in Task,
               \/ AccessBusy(t) \/ Block(t) \/ Enter(t) \/ Release(t) \/ HandOver(t)
               \/ PostMutex(t)
        PROVE  LetIn = {}
    BY <2>1, <2>3, LetInNobody
    DEF AccessBusy, Block, Enter, Release, HandOver, PostMutex
  <2>4. ASSUME NEW t \in Task, AccessFree(t) PROVE \A p \in Prio : blk[p] = 0
    BY <1>1, <2>4, FreeMeansNobodyBlocked
  <2>5. ASSUME NEW t \in Task, Woken(t) PROVE Fair
    <3>1. LetIn = {prio[t]} /\ prio[t] \in Prio /\ sem[prio[t]] = 1
      BY <2>1, <2>5, LetInOne DEF Woken
    <3> SUFFICES ASSUME NEW p \in Prio, blk[p] > 0, p # prio[t]
                 PROVE  prio[t] \notin passed[p]
      BY <3>1
    <3>2. prio[t] \in passed[p] => Dist(prio[t], p) > Dist(prio[t], p)
      BY <1>1, <3>1 DEF Behind
    <3>3. Dist(prio[t], p) \in Int
      BY <3>1, DistIsNth
    <3> QED
      BY <3>2, <3>3
  <2> QED
    BY <1>1, <2>2, <2>3, <2>4, <2>5 DEF HistNext, Next, Progress
<1>2. IInv /\ Behind /\ [HistNext]_ovars => [Fair]_ovars
  BY <1>1
<1> QED
  BY <1>2, SpecBehind, PTL DEF HistSpec, NoSecondPass
=============================================================================
