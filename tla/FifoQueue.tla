------------------------------ MODULE FifoQueue ------------------------------
(***************************************************************************)
(* The missile index queue of launchers.c (fifo_queue_gestor_t): the free  *)
(* indexes and the indexes accepted for a launch, two lists threaded       *)
(* through one array "next", under a mutex semaphore that is handed to the *)
(* task a wakeup is meant for.                                             *)
(*                                                                         *)
(* The attack queue is used by main (request_atk_launch), the attack       *)
(* launcher (get_next_index) and the attacker missiles (clear_missile);    *)
(* the defence queue by the defence launcher (request_def_index) and the   *)
(* defender missiles.  Main, AtkLauncher and DefLauncher are sets so that  *)
(* one module is both queues.                                              *)
(*                                                                         *)
(* One action is one semaphore operation with the accesses to the queue    *)
(* that follow it, up to the next semaphore operation: whoever makes them  *)
(* owns the mutex (OneOwner).                                              *)
(***************************************************************************)
EXTENDS Integers, FiniteSets

CONSTANTS N,            \* missiles of one kind
          Main,         \* the task that reads the keyboard
          AtkLauncher,  \* the task that calls get_next_index
          DefLauncher   \* the task that calls request_def_index

Index == 0 .. N - 1
NONE == -1
Launcher == AtkLauncher \cup DefLauncher
Task == Main \cup Launcher

ASSUME FifoQueueAssumption ==
  /\ N \in Nat \ {0}
  /\ IsFiniteSet(Task)
  /\ Main \cap Launcher = {}
  /\ AtkLauncher \cap DefLauncher = {}

VARIABLES
  freeIndex, headIndex, tailIndex, next,  \* the two lists
  mutex,                                  \* value of gestor.mutex
  readBlk, readSem,                       \* gestor.read_sem
  writeBlk, writeSem,                     \* gestor.write_sem
  pc,                                     \* where each task is
  held,                                   \* local "index" of each launcher
  thread,                                 \* the missile thread of each index
  end                                     \* the global flag "end"

lists == <<freeIndex, headIndex, tailIndex, next>>
reading == <<readBlk, readSem>>
writing == <<writeBlk, writeSem>>
vars == <<lists, mutex, reading, writing, pc, held, thread, end>>

PC == {"away",      \* outside the queue
       "wait",      \* about to wait for the mutex
       "refused",   \* request_atk_launch: about to post the mutex
       "accepted",  \* request_atk_launch: about to post read_sem
       "queueing",  \* counted in blk, about to post the mutex
       "blocked",   \* about to wait for the private semaphore
       "got",       \* has taken an index, about to post the mutex
       "holding",   \* has an index, no missile launched with it yet
       "done"}      \* the task loop ended

Thread == {"none",      \* no missile uses the index
           "flying",    \* task_missile_movement (or aiming, for a defender)
           "clearing",  \* clear_missile: about to wait for the mutex
           "splicing"}  \* splice_index done, about to post

Init ==
  /\ freeIndex = 0
  /\ headIndex = NONE
  /\ tailIndex = NONE
  /\ next = [i \in Index |-> IF i = N - 1 THEN NONE ELSE i + 1]
  /\ mutex = 1
  /\ readBlk = 0 /\ readSem = 0
  /\ writeBlk = 0 /\ writeSem = 0
  /\ pc = [t \in Task |-> IF t \in DefLauncher THEN "wait" ELSE "away"]
  /\ held = [t \in Launcher |-> NONE]
  /\ thread = [i \in Index |-> "none"]
  /\ end = 0

Go(t, from, to) ==
  /\ pc[t] = from
  /\ pc' = [pc EXCEPT ![t] = to]

TakeMutex == mutex > 0 /\ mutex' = mutex - 1
PostMutex == mutex' = mutex + 1

-----------------------------------------------------------------------------
\* main

PressSpace(m) ==
  /\ Go(m, "away", "wait")
  /\ end = 0
  /\ UNCHANGED <<lists, mutex, reading, writing, held, thread, end>>

PressEsc ==
  /\ \A m \in Main : pc[m] = "away"
  /\ end' = 1
  /\ UNCHANGED <<lists, mutex, reading, writing, pc, held, thread>>

\* Faulty variant: a launch is accepted although no reader is blocked.
CanAcceptAnyTime == freeIndex # NONE

CanAccept == freeIndex # NONE /\ readBlk > 0

RequestRefused(m) ==
  /\ Go(m, "wait", "refused")
  /\ TakeMutex
  /\ ~ CanAccept
  /\ UNCHANGED <<lists, reading, writing, held, thread, end>>

Refuse(m) ==
  /\ Go(m, "refused", "away")
  /\ PostMutex
  /\ UNCHANGED <<lists, reading, writing, held, thread, end>>

\* Faulty variant: freeIndex does not move on.
AcceptStays(index) ==
  /\ headIndex' = index
  /\ next' = [next EXCEPT ![index] = NONE]
  /\ tailIndex' = index
  /\ UNCHANGED freeIndex

\* update_queue_head(index), after freeIndex moved on to next[index].
Accept(index) ==
  /\ freeIndex' = next[index]
  /\ headIndex' = IF headIndex = NONE THEN index ELSE headIndex
  /\ next' = IF headIndex = NONE
               THEN [next EXCEPT ![index] = NONE]
               ELSE [next EXCEPT ![index] = NONE, ![tailIndex] = index]
  /\ tailIndex' = index

RequestAccepted(m) ==
  /\ Go(m, "wait", "accepted")
  /\ TakeMutex
  /\ CanAccept
  /\ Accept(freeIndex)
  /\ UNCHANGED <<reading, writing, held, thread, end>>

\* Faulty variant: the mutex is posted, the blocked launcher is not woken.
WakeNoReader(m) ==
  /\ Go(m, "accepted", "away")
  /\ PostMutex
  /\ UNCHANGED <<lists, reading, writing, held, thread, end>>

\* Faulty variant: the mutex is posted and the blocked launcher is woken.
WakeReaderAndPost(m) ==
  /\ Go(m, "accepted", "away")
  /\ PostMutex
  /\ readSem' = readSem + 1
  /\ UNCHANGED <<lists, readBlk, writing, held, thread, end>>

WakeReader(m) ==
  /\ Go(m, "accepted", "away")
  /\ readSem' = readSem + 1
  /\ UNCHANGED <<lists, mutex, readBlk, writing, held, thread, end>>

-----------------------------------------------------------------------------
\* get_next_index, called by the attack launcher

PopHead(t) ==
  /\ headIndex # NONE
  /\ held' = [held EXCEPT ![t] = headIndex]
  /\ headIndex' = next[headIndex]
  /\ UNCHANGED <<freeIndex, tailIndex, next>>

GetNextIndex(t) ==
  /\ TakeMutex
  /\ IF headIndex = NONE
       THEN /\ Go(t, "wait", "queueing")
            /\ readBlk' = readBlk + 1
            /\ UNCHANGED <<lists, held>>
       ELSE /\ Go(t, "wait", "got")
            /\ PopHead(t)
            /\ UNCHANGED readBlk
  /\ UNCHANGED <<readSem, writing, thread, end>>

GetWoken(t) ==
  /\ Go(t, "blocked", "got")
  /\ readSem > 0
  /\ readSem' = readSem - 1
  /\ readBlk' = readBlk - 1
  /\ PopHead(t)
  /\ UNCHANGED <<mutex, writing, thread, end>>

-----------------------------------------------------------------------------
\* request_def_index, called by the defence launcher

\* Faulty variant: the index stays the first free one.
PopFreeStays(t) ==
  /\ freeIndex # NONE
  /\ held' = [held EXCEPT ![t] = freeIndex]
  /\ UNCHANGED lists

PopFree(t) ==
  /\ freeIndex # NONE
  /\ held' = [held EXCEPT ![t] = freeIndex]
  /\ freeIndex' = next[freeIndex]
  /\ UNCHANGED <<headIndex, tailIndex, next>>

MustWait == freeIndex = NONE \/ writeBlk > 0

RequestEmpty(t) ==
  /\ Go(t, "wait", "queueing")
  /\ TakeMutex
  /\ MustWait
  /\ writeBlk' = writeBlk + 1
  /\ UNCHANGED <<lists, reading, writeSem, held, thread, end>>

RequestReady(t) ==
  /\ Go(t, "wait", "got")
  /\ TakeMutex
  /\ ~ MustWait
  /\ PopFree(t)
  /\ UNCHANGED <<reading, writing, thread, end>>

RequestWoken(t) ==
  /\ Go(t, "blocked", "got")
  /\ writeSem > 0
  /\ writeSem' = writeSem - 1
  /\ writeBlk' = writeBlk - 1
  /\ PopFree(t)
  /\ UNCHANGED <<mutex, reading, thread, end>>

-----------------------------------------------------------------------------
\* What the two launchers do alike

Block(t) ==
  /\ Go(t, "queueing", "blocked")
  /\ PostMutex
  /\ UNCHANGED <<lists, reading, writing, held, thread, end>>

Leave(t) ==
  /\ Go(t, "got", "holding")
  /\ PostMutex
  /\ UNCHANGED <<lists, reading, writing, held, thread, end>>

\* launch_atk_missile / launch_def_missile; the local index is forgotten.
Launch(t) ==
  /\ Go(t, "holding", "away")
  /\ thread' = [thread EXCEPT ![held[t]] = "flying"]
  /\ held' = [held EXCEPT ![t] = NONE]
  /\ UNCHANGED <<lists, mutex, reading, writing, end>>

LoopAgain(t) ==
  /\ Go(t, "away", "wait")
  /\ end = 0
  /\ UNCHANGED <<lists, mutex, reading, writing, held, thread, end>>

\* The defence launcher may leave its loop with an index it found no target
\* for.
LoopEnds(t) ==
  /\ Go(t, "away", "done") \/ (t \in DefLauncher /\ Go(t, "holding", "done"))
  /\ end = 1
  /\ UNCHANGED <<lists, mutex, reading, writing, held, thread, end>>

-----------------------------------------------------------------------------
\* The missile thread of index i

Fly(i, from, to) ==
  /\ thread[i] = from
  /\ thread' = [thread EXCEPT ![i] = to]

\* The movement loop ends: the missile collided, was deleted, or "end".
Collided(i) ==
  /\ Fly(i, "flying", "clearing")
  /\ UNCHANGED <<lists, mutex, reading, writing, pc, held, end>>

\* Faulty variant: the free list is restarted instead of extended.
SpliceForgetsList(i) ==
  /\ next' = [next EXCEPT ![i] = NONE]
  /\ freeIndex' = i
  /\ UNCHANGED <<headIndex, tailIndex>>

\* Faulty variant: i is linked, the free list does not start with it.
SpliceDropsIndex(i) ==
  /\ next' = [next EXCEPT ![i] = freeIndex]
  /\ UNCHANGED <<freeIndex, headIndex, tailIndex>>

\* splice_index: i becomes the first free index.
Splice(i) ==
  /\ next' = [next EXCEPT ![i] = freeIndex]
  /\ freeIndex' = i
  /\ UNCHANGED <<headIndex, tailIndex>>

ClearMissile(i) ==
  /\ Fly(i, "clearing", "splicing")
  /\ TakeMutex
  /\ Splice(i)
  /\ UNCHANGED <<reading, writing, pc, held, end>>

\* Faulty variant: the mutex is posted, the blocked launcher is not woken.
WakeNoWriter(i) ==
  /\ Fly(i, "splicing", "none")
  /\ writeBlk > 0
  /\ PostMutex
  /\ UNCHANGED <<lists, reading, writing, pc, held, end>>

\* Faulty variant: the mutex is posted and the blocked launcher is woken.
WakeWriterAndPost(i) ==
  /\ Fly(i, "splicing", "none")
  /\ writeBlk > 0
  /\ writeSem' = writeSem + 1
  /\ PostMutex
  /\ UNCHANGED <<lists, reading, writeBlk, pc, held, end>>

WakeWriter(i) ==
  /\ Fly(i, "splicing", "none")
  /\ writeBlk > 0
  /\ writeSem' = writeSem + 1
  /\ UNCHANGED <<lists, mutex, reading, writeBlk, pc, held, end>>

PostSpliced(i) ==
  /\ Fly(i, "splicing", "none")
  /\ writeBlk = 0
  /\ PostMutex
  /\ UNCHANGED <<lists, reading, writing, pc, held, end>>

-----------------------------------------------------------------------------
MainStep(m) ==
  RequestRefused(m) \/ Refuse(m) \/ RequestAccepted(m) \/ WakeReader(m)

LauncherStep(t) ==
  \/ t \in AtkLauncher /\ (GetNextIndex(t) \/ GetWoken(t))
  \/ t \in DefLauncher /\ (RequestEmpty(t) \/ RequestReady(t) \/ RequestWoken(t))
  \/ Block(t) \/ Leave(t) \/ LoopAgain(t) \/ LoopEnds(t) \/ Launch(t)

ThreadStep(i) ==
  Collided(i) \/ ClearMissile(i) \/ WakeWriter(i) \/ PostSpliced(i)

Next ==
  \/ \E m \in Main : PressSpace(m) \/ MainStep(m)
  \/ \E t \in Launcher : LauncherStep(t)
  \/ \E i \in Index : ThreadStep(i)
  \/ PressEsc

Spec == Init /\ [][Next]_vars

\* Every task in a queue operation is scheduled, the attack launcher
\* launches what it was given, and a missile's movement loop ends.  The
\* keyboard owes nothing, nor does the search for a target that the defence
\* launcher makes before it launches.
FairSpec ==
  /\ Spec
  /\ \A m \in Main : WF_vars(MainStep(m))
  /\ \A t \in Launcher : WF_vars(LauncherStep(t) /\ ~ Launch(t))
  /\ \A t \in AtkLauncher : WF_vars(Launch(t))
  /\ \A i \in Index : WF_vars(ThreadStep(i))

-----------------------------------------------------------------------------
\* A set of indexes that the links do not leave.
Closed(S, links) == \A i \in S : links[i] \in S \cup {NONE}

\* The indexes the links reach from start: the smallest closed set with it.
Reach(start, links) ==
  {i \in Index : \A S \in SUBSET Index :
                   start \in S \cup {NONE} /\ Closed(S, links) => i \in S}

\* The indexes of the list whose first one is start.
Chain(start) == Reach(start, next)

Given == {held[t] : t \in Launcher} \ {NONE}

Flying == {i \in Index : thread[i] \in {"flying", "clearing"}}

Ready == {headIndex} \ {NONE}

\* The variables stay in their ranges; the semaphores of a queue are binary.
TypeOK ==
  /\ {freeIndex, headIndex, tailIndex} \subseteq Index \cup {NONE}
  /\ next \in [Index -> Index \cup {NONE}]
  /\ {mutex, readSem, writeSem} \subseteq {0, 1}
  /\ readBlk \in 0 .. Cardinality(AtkLauncher)
  /\ writeBlk \in 0 .. Cardinality(DefLauncher)
  /\ pc \in [Task -> PC]
  /\ held \in [Launcher -> Index \cup {NONE}]
  /\ thread \in [Index -> Thread]
  /\ end \in {0, 1}

\* The mutex of a queue has exactly one owner: nobody (it is free), a task,
\* a missile, or the launcher it was handed to.
OneOwner ==
  LET tasks == {t \in Task : pc[t] \in {"refused", "accepted", "queueing", "got"}}
      missiles == {i \in Index : thread[i] = "splicing"}
  IN  Cardinality(tasks) + Cardinality(missiles) + mutex + readSem + writeSem = 1

\* A launcher is woken with an index there for it: the asserts after the two
\* sem_wait of get_next_index and request_def_index, and the one in
\* update_queue_head that a reader is blocked.
WokenFindsIndex ==
  /\ readSem > 0 => readBlk > 0 /\ headIndex # NONE
  /\ writeSem > 0 => writeBlk > 0 /\ freeIndex # NONE

\* No lost wakeup: nobody is blocked on a queue that has what it waits for.
NoLostWakeup ==
  mutex = 1 => /\ readBlk > 0 => headIndex = NONE
               /\ writeBlk > 0 => freeIndex = NONE

\* No index is lost or in two places: each one is on the free list, on the
\* list of accepted launches, in the hands of one launcher or used by one
\* missile.  It relates the linked lists, that only the owner of the mutex
\* sees whole, to the threads that run without it.
Conserved ==
  \A i \in Index :
    LET launchers == {t \in Launcher : held[t] = i}
        places == {p \in {"free", "ready", "flying"} :
                     \/ p = "free" /\ i \in Chain(freeIndex)
                     \/ p = "ready" /\ i \in Chain(headIndex)
                     \/ p = "flying" /\ i \in Flying}
    IN  Cardinality(launchers) + Cardinality(places) = 1

\* The linked lists implement the pool they promise.
Pool == INSTANCE IndexPool
          WITH free <- Index \ (Ready \cup Given \cup Flying),
               ready <- Ready, given <- Given, flying <- Flying

ImplementsPool == Pool!PoolSpec

\* An accepted launch takes place: the missile it reserved an index for flies.
AcceptedFlies == \A i \in Index : headIndex = i ~> thread[i] = "flying"

\* A defence launcher that waits for an index is served: the missile that
\* ends wakes it.
WaitingServed ==
  \A t \in DefLauncher : pc[t] = "blocked" ~> pc[t] = "holding"

\* The documented effect of the space key: a press launches an attacker
\* unless all of them are in use.
SpaceLaunches == \A m \in Main : pc[m] = "refused" => freeIndex = NONE
=============================================================================
