------------------------------ MODULE EnvAccess ------------------------------
(***************************************************************************)
(* The monitor that guards the shared structure "env" (gestor.c): a mutex  *)
(* semaphore, a count of the tasks using the structure and one private     *)
(* semaphore per access priority, with the mutex handed to the task that   *)
(* release_env wakes ("passing the baton").                                *)
(*                                                                         *)
(* One action is one semaphore operation together with the accesses to     *)
(* count and blk that follow it, up to the next semaphore operation.       *)
(* Those accesses are made by the one task that owns the mutex or was      *)
(* handed it, which is what OneOwner states.                               *)
(***************************************************************************)
EXTENDS Integers, FiniteSets

CONSTANTS Task,       \* tasks that use the environment
          ENV_PRIOS,  \* number of access priorities; 0 is the highest
          Uses        \* Uses[t]: the priorities task t calls access_env with

Prio == 0 .. ENV_PRIOS - 1

ASSUME EnvAccessAssumption ==
  /\ IsFiniteSet(Task)
  /\ ENV_PRIOS \in Nat \ {0}
  /\ Uses \in [Task -> SUBSET Prio]

VARIABLES mutex,  \* value of env.mutex
          count,  \* env.count: tasks using the structure
          blk,    \* env.prio_sem[p].blk: tasks blocked at priority p
          sem,    \* value of env.prio_sem[p].sem
          pc,     \* where each task is in access_env / release_env
          prio    \* the priority of its current or last access

vars == <<mutex, count, blk, sem, pc, prio>>

PC == {"idle",      \* outside
       "access",    \* access_env: about to wait for the mutex
       "queueing",  \* access_env: counted in blk, about to post the mutex
       "blocked",   \* access_env: about to wait for the private semaphore
       "entering",  \* access_env: counted in count, about to post the mutex
       "using",     \* between access_env and release_env
       "leaving"}   \* release_env: count decremented, about to post

Init ==
  /\ mutex = 1
  /\ count = 0
  /\ blk = [p \in Prio |-> 0]
  /\ sem = [p \in Prio |-> 0]
  /\ pc = [t \in Task |-> "idle"]
  /\ prio = [t \in Task |-> 0]

Go(t, from, to) ==
  /\ pc[t] = from
  /\ pc' = [pc EXCEPT ![t] = to]

-----------------------------------------------------------------------------
\* access_env

CallAccess(t, p) ==
  /\ Go(t, "idle", "access")
  /\ p \in Uses[t]
  /\ prio' = [prio EXCEPT ![t] = p]
  /\ UNCHANGED <<mutex, count, blk, sem>>

\* Faulty variant: only the blocked tasks are looked at.
MustWaitForBlocked(p) == \E q \in 0 .. p : blk[q] # 0

\* A task waits if the structure is in use or a task of its own or a more
\* urgent priority is blocked.
MustWait(p) == count # 0 \/ \E q \in 0 .. p : blk[q] # 0

AccessBusy(t) ==
  /\ Go(t, "access", "queueing")
  /\ mutex > 0
  /\ mutex' = mutex - 1
  /\ MustWait(prio[t])
  /\ blk' = [blk EXCEPT ![prio[t]] = @ + 1]
  /\ UNCHANGED <<count, sem, prio>>

AccessFree(t) ==
  /\ Go(t, "access", "entering")
  /\ mutex > 0
  /\ mutex' = mutex - 1
  /\ ~ MustWait(prio[t])
  /\ count' = count + 1
  /\ UNCHANGED <<blk, sem, prio>>

Block(t) ==
  /\ Go(t, "queueing", "blocked")
  /\ mutex' = mutex + 1
  /\ UNCHANGED <<count, blk, sem, prio>>

\* Faulty variant: blk is not given back.
WokenKeepsBlk(t) ==
  /\ Go(t, "blocked", "entering")
  /\ sem[prio[t]] > 0
  /\ sem' = [sem EXCEPT ![prio[t]] = @ - 1]
  /\ count' = count + 1
  /\ UNCHANGED <<mutex, blk, prio>>

\* The woken task finds the mutex already taken on its behalf.
Woken(t) ==
  /\ Go(t, "blocked", "entering")
  /\ sem[prio[t]] > 0
  /\ sem' = [sem EXCEPT ![prio[t]] = @ - 1]
  /\ blk' = [blk EXCEPT ![prio[t]] = @ - 1]
  /\ count' = count + 1
  /\ UNCHANGED <<mutex, prio>>

Enter(t) ==
  /\ Go(t, "entering", "using")
  /\ mutex' = mutex + 1
  /\ UNCHANGED <<count, blk, sem, prio>>

-----------------------------------------------------------------------------
\* release_env

Release(t) ==
  /\ Go(t, "using", "leaving")
  /\ mutex > 0
  /\ mutex' = mutex - 1
  /\ count' = count - 1
  /\ UNCHANGED <<blk, sem, prio>>

\* Faulty variant: the search starts at the releasing task's own priority.
NthFromOwn(p, k) == (p + k - 1) % ENV_PRIOS

\* Faulty variant: the search stops before the releasing task's own priority.
NthNeverOwn(p, k) == IF k = ENV_PRIOS THEN (p + 1) % ENV_PRIOS
                                      ELSE (p + k) % ENV_PRIOS

\* The k-th priority release_env(p) looks at; the last one is p itself.
Nth(p, k) == (p + k) % ENV_PRIOS

FirstBlocked(p, k) ==
  /\ blk[Nth(p, k)] # 0
  /\ \A j \in 1 .. k - 1 : blk[Nth(p, j)] = 0

\* Faulty variant: the mutex is posted although it was handed over.
HandOverAndPost(t) ==
  /\ Go(t, "leaving", "idle")
  /\ \E k \in 1 .. ENV_PRIOS :
       /\ FirstBlocked(prio[t], k)
       /\ sem' = [sem EXCEPT ![Nth(prio[t], k)] = @ + 1]
  /\ mutex' = mutex + 1
  /\ UNCHANGED <<count, blk, prio>>

\* Wakes one blocked task and leaves it the mutex.
HandOver(t) ==
  /\ Go(t, "leaving", "idle")
  /\ \E k \in 1 .. ENV_PRIOS :
       /\ FirstBlocked(prio[t], k)
       /\ sem' = [sem EXCEPT ![Nth(prio[t], k)] = @ + 1]
  /\ UNCHANGED <<mutex, count, blk, prio>>

PostMutex(t) ==
  /\ Go(t, "leaving", "idle")
  /\ \A k \in 1 .. ENV_PRIOS : blk[Nth(prio[t], k)] = 0
  /\ mutex' = mutex + 1
  /\ UNCHANGED <<count, blk, sem, prio>>

-----------------------------------------------------------------------------
Progress(t) ==
  \/ AccessBusy(t) \/ AccessFree(t) \/ Block(t) \/ Woken(t) \/ Enter(t)
  \/ Release(t) \/ HandOver(t) \/ PostMutex(t)

Next == \E t \in Task : Progress(t) \/ \E p \in Prio : CallAccess(t, p)

Spec == Init /\ [][Next]_vars

\* A task inside the monitor is scheduled and its critical section, bounded
\* loops over the cells, ends.  No task is obliged to call access_env.
FairSpec == Spec /\ \A t \in Task : WF_vars(Progress(t))

-----------------------------------------------------------------------------
At(states) == {t \in Task : pc[t] \in states}

Blocked(p) == {t \in At({"queueing", "blocked"}) : prio[t] = p}

\* The variables stay in their ranges: env.mutex and the private semaphores
\* are binary, and no counter of gestor.c's env_t goes below zero or above
\* the number of tasks.
TypeOK ==
  /\ mutex \in {0, 1}
  /\ count \in {0, 1}
  /\ blk \in [Prio -> 0 .. Cardinality(Task)]
  /\ sem \in [Prio -> {0, 1}]
  /\ pc \in [Task -> PC]
  /\ prio \in [Task -> Prio]

\* At most one task is between access_env and release_env, whatever the
\* priorities and the order in which the semaphores are posted.
MutualExclusion ==
  \A t, u \in At({"entering", "using"}) : t = u

\* The mutex has exactly one owner: nobody (it is free), the task that took
\* it, or the task of priority p it was handed to through prio_sem[p].
OneOwner ==
  LET owners == At({"queueing", "entering", "leaving"})
      handed == {p \in Prio : sem[p] > 0}
  IN  Cardinality(owners) + Cardinality(handed) + mutex = 1

\* blk counts the blocked tasks, so release_env posts a private semaphore
\* only when a task is there to take it.
BlkCounts == \A p \in Prio : blk[p] = Cardinality(Blocked(p))

\* No lost wakeup: while nobody uses the environment and nobody owns the
\* mutex, nobody is blocked.  Otherwise the blocked task would wait for the
\* release_env of an access that may never come.
NoLostWakeup ==
  mutex = 1 /\ count = 0 => \A p \in Prio : blk[p] = 0

\* The monitor implements the lock it promises.
Lock == INSTANCE EnvLock
          WITH waiting <- At({"access", "queueing", "blocked"}),
               user <- At({"entering", "using"})

ImplementsLock == Lock!LockSpec

\* A blocked priority is served: some task of it gets the environment.
BlockedServed ==
  \A p \in Prio :
    blk[p] > 0 ~> \E t \in At({"entering", "using"}) : prio[t] = p
=============================================================================
