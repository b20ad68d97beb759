--------------------------- MODULE FifoQueueProofs ---------------------------
(***************************************************************************)
(* What holds of the missile index queue for every number of indexes and   *)
(* of tasks.                                                               *)
(*                                                                         *)
(* The inductive invariant has four parts.  Baton says who owns the mutex, *)
(* without counting.  Wakeups says what a task that is blocked, or was     *)
(* just woken, may rely on.  Places says where each index is, and Links    *)
(* how the free ones are chained.                                          *)
(***************************************************************************)
EXTENDS FifoQueue, NumberTheorems, FiniteSetTheorems, TLAPS

Types ==
  /\ {freeIndex, headIndex, tailIndex} \subseteq Index \cup {NONE}
  /\ next \in [Index -> Index \cup {NONE}]
  /\ {mutex, readSem, writeSem} \subseteq {0, 1}
  /\ readBlk \in Nat
  /\ writeBlk \in Nat
  /\ pc \in [Task -> PC]
  /\ held \in [Launcher -> Index \cup {NONE}]
  /\ thread \in [Index -> Thread]
  /\ end \in {0, 1}

Owns(t) == pc[t] \in {"refused", "accepted", "queueing", "got"}
Splices(i) == thread[i] = "splicing"

Baton ==
  /\ \A t, u \in Task : Owns(t) /\ Owns(u) => t = u
  /\ \A i, j \in Index : Splices(i) /\ Splices(j) => i = j
  /\ \A t \in Task, i \in Index : ~ (Owns(t) /\ Splices(i))
  /\ \A t \in Task : Owns(t) => mutex = 0 /\ readSem = 0 /\ writeSem = 0
  /\ \A i \in Index : Splices(i) => mutex = 0 /\ readSem = 0 /\ writeSem = 0
  /\ mutex + readSem + writeSem <= 1
  /\ mutex + readSem + writeSem = 0 =>
       (\E t \in Task : Owns(t)) \/ (\E i \in Index : Splices(i))

\* A launch was accepted, and the launcher is about to take it.
ReadWake == readSem = 1 \/ \E m \in Main : pc[m] = "accepted"

\* An index became free, and a launcher that waits for one is about to take it.
WriteWake == writeSem = 1 \/ \E i \in Index : Splices(i)

Wakeups ==
  /\ ReadWake => readBlk > 0 /\ headIndex # NONE
  /\ ~ ReadWake => (readBlk > 0 => headIndex = NONE)
  /\ writeSem = 1 => writeBlk > 0
  /\ WriteWake => freeIndex # NONE /\ (writeBlk > 0 => next[freeIndex] = NONE)
  /\ ~ WriteWake => (writeBlk > 0 => freeIndex = NONE)

Free == Index \ (Ready \cup Given \cup Flying)

Places ==
  /\ Ready \cap Given = {} /\ Ready \cap Flying = {} /\ Given \cap Flying = {}
  /\ \A t, u \in Launcher : held[t] = held[u] /\ held[t] # NONE => t = u
  /\ \A t \in Launcher : /\ pc[t] \in {"got", "holding"} => held[t] # NONE
                         /\ pc[t] \notin {"got", "holding", "done"} => held[t] = NONE
  /\ \A i \in Index : Splices(i) => i = freeIndex

Links ==
  /\ Chain(freeIndex) = Free
  /\ \A i \in Free : next[i] # freeIndex \/ freeIndex = NONE
  /\ \A i, j \in Free : next[i] = next[j] /\ next[i] # NONE => i = j
  /\ headIndex # NONE => next[headIndex] = NONE

IInv == Types /\ Baton /\ Wakeups /\ Places /\ Links

-----------------------------------------------------------------------------
\* What the links reach

\* A list contains its first index.
LEMMA ReachStart ==
  ASSUME NEW links, NEW i \in Index
  PROVE  i \in Reach(i, links)
BY DEF Reach, NONE, Index

\* The links do not leave a list.
LEMMA ReachClosed ==
  ASSUME NEW links \in [Index -> Index \cup {NONE}], NEW start
  PROVE  Closed(Reach(start, links), links)
<1> SUFFICES ASSUME NEW i \in Reach(start, links), links[i] # NONE
             PROVE  links[i] \in Reach(start, links)
  BY DEF Closed
<1>1. i \in Index /\ links[i] \in Index
  BY DEF Reach
<1>2. ASSUME NEW S \in SUBSET Index, start \in S \cup {NONE}, Closed(S, links)
      PROVE  links[i] \in S
  <2>1. i \in S
    BY <1>2 DEF Reach
  <2> QED
    BY <2>1, <1>2 DEF Closed
<1> QED
  BY <1>1, <1>2 DEF Reach

\* A list is in every closed set with its first index.
LEMMA ReachLeast ==
  ASSUME NEW links, NEW start, NEW S \in SUBSET Index,
         start \in S \cup {NONE}, Closed(S, links)
  PROVE  Reach(start, links) \subseteq S
BY DEF Reach

LEMMA ReachNone ==
  ASSUME NEW links
  PROVE  Reach(NONE, links) = {}
<1>1. Closed({}, links)
  BY DEF Closed
<1> QED
  BY <1>1, ReachLeast

\* A list is its first index and the list that this one links to.
LEMMA ReachUnfold ==
  ASSUME NEW links \in [Index -> Index \cup {NONE}], NEW i \in Index
  PROVE  Reach(i, links) = {i} \cup Reach(links[i], links)
<1> DEFINE L == Reach(i, links)
           R == Reach(links[i], links)
<1>1. L \in SUBSET Index /\ R \in SUBSET Index
  BY DEF Reach
<1>2. i \in L /\ Closed(L, links) /\ Closed(R, links)
  BY ReachStart, ReachClosed
<1>3. R \subseteq L
  <2>1. links[i] \in L \cup {NONE}
    BY <1>2 DEF Closed
  <2> HIDE DEF L
  <2> QED
    BY <2>1, <1>1, <1>2, ReachLeast
<1>4. links[i] \in R \cup {NONE}
  BY ReachStart
<1>5. L \subseteq {i} \cup R
  <2> HIDE DEF R
  <2>1. Closed({i} \cup R, links)
    BY <1>2, <1>4 DEF Closed
  <2> QED
    BY <2>1, <1>1, ReachLeast
<1> QED
  BY <1>2, <1>3, <1>5

\* Taking the first index of a list that no index of it links to.
LEMMA ReachPop ==
  ASSUME NEW links \in [Index -> Index \cup {NONE}], NEW i \in Index,
         \A j \in Reach(i, links) : links[j] # i
  PROVE  Reach(links[i], links) = Reach(i, links) \ {i}
<1> DEFINE L == Reach(i, links)
<1>1. L \in SUBSET Index /\ i \in L /\ Closed(L, links)
  BY ReachStart, ReachClosed DEF Reach
<1>2. Closed(L \ {i}, links) /\ links[i] \in (L \ {i}) \cup {NONE}
  BY <1>1 DEF Closed
<1>3. Reach(links[i], links) \subseteq L \ {i}
  <2> HIDE DEF L
  <2> QED
    BY <1>1, <1>2, ReachLeast
<1> QED
  BY <1>3, ReachUnfold

\* A list does not depend on the links of other indexes.
LEMMA ReachSame ==
  ASSUME NEW links \in [Index -> Index \cup {NONE}],
         NEW new \in [Index -> Index \cup {NONE}], NEW start \in Index \cup {NONE},
         \A i \in Reach(start, links) : new[i] = links[i]
  PROVE  Reach(start, new) = Reach(start, links)
<1> DEFINE L == Reach(start, links)
           M == Reach(start, new)
<1>1. /\ L \in SUBSET Index /\ M \in SUBSET Index
      /\ start \in L \cup {NONE} /\ start \in M \cup {NONE}
      /\ Closed(L, links) /\ Closed(M, new)
  <2>1. L \in SUBSET Index /\ M \in SUBSET Index
    BY DEF Reach
  <2> QED
    BY <2>1, ReachStart, ReachClosed
<1>2. M \subseteq L
  <2>1. Closed(L, new)
    BY <1>1 DEF Closed
  <2> HIDE DEF L
  <2> QED
    BY <2>1, <1>1, ReachLeast
<1>3. L \subseteq M
  <2> HIDE DEF M
  <2>1. Closed(L \cap M, links)
    BY <1>1 DEF Closed
  <2> QED
    BY <2>1, <1>1, ReachLeast
<1> QED
  BY <1>2, <1>3

\* Putting an index before a list that does not contain it.
LEMMA ReachPush ==
  ASSUME NEW links \in [Index -> Index \cup {NONE}], NEW start \in Index \cup {NONE},
         NEW i \in Index, i \notin Reach(start, links)
  PROVE  Reach(i, [links EXCEPT ![i] = start]) = Reach(start, links) \cup {i}
<1> DEFINE new == [links EXCEPT ![i] = start]
<1>1. new \in [Index -> Index \cup {NONE}] /\ new[i] = start
  OBVIOUS
<1>2. \A j \in Reach(start, links) : new[j] = links[j]
  BY DEF Reach
<1> HIDE DEF new
<1>3. Reach(start, new) = Reach(start, links)
  BY <1>1, <1>2, ReachSame
<1> QED
  BY <1>1, <1>3, ReachUnfold DEF new

\* At first every index is linked to the next one.
LEMMA ReachInit ==
  Reach(0, [i \in Index |-> IF i = N - 1 THEN NONE ELSE i + 1]) = Index
<1> DEFINE links == [i \in Index |-> IF i = N - 1 THEN NONE ELSE i + 1]
<1> SUFFICES ASSUME NEW S \in SUBSET Index, 0 \in S \cup {NONE}, Closed(S, links)
             PROVE  Index \ S = {}
  BY DEF Reach
<1>1. 0 \in S
  BY DEF NONE
<1>2. ASSUME Index \ S # {} PROVE FALSE
  <2>1. PICK x \in Index \ S : \A y \in Index \ S : x <= y
    <3>1. Index \ S \subseteq Nat
      BY FifoQueueAssumption DEF Index
    <3> QED
      BY <3>1, <1>2, LeastNumber
  <2>2. x \in Nat /\ x # 0 /\ x - 1 \in Index /\ x - 1 # N - 1
    BY <1>1, FifoQueueAssumption DEF Index
  <2>3. x - 1 \in S
    BY <2>1, <2>2
  <2>4. links[x - 1] = x /\ x # NONE
    BY <2>2 DEF NONE
  <2> QED
    BY <2>3, <2>4 DEF Closed
<1> QED
  BY <1>2

-----------------------------------------------------------------------------
\* The initial state

LEMMA InitIInv == Init => IInv
<1> SUFFICES ASSUME Init PROVE IInv
  OBVIOUS
<1>1. N \in Nat /\ N > 0 /\ 0 \in Index /\ NONE \notin Index
  BY FifoQueueAssumption DEF Index, NONE
<1>2. Types
  <2>1. next \in [Index -> Index \cup {NONE}]
    BY <1>1 DEF Init, Index
  <2> QED
    BY <1>1, <2>1 DEF Init, Types, PC, Thread
<1>3. Baton
  BY DEF Init, Baton, Owns, Splices, Task
<1>4. Wakeups
  BY DEF Init, Wakeups, ReadWake, WriteWake, Splices, Task
<1>5. Ready = {} /\ Given = {} /\ Flying = {}
  BY DEF Init, Ready, Given, Flying
<1>6. Places
  BY <1>5 DEF Init, Places, Splices, Task, Launcher
<1>7. Links
  <2>1. Chain(freeIndex) = Free
    BY <1>5, ReachInit DEF Init, Chain, Free
  <2>2. \A i \in Index : next[i] # freeIndex
    BY <1>1 DEF Init, Index, NONE
  <2>3. \A i, j \in Index : next[i] = next[j] /\ next[i] # NONE => i = j
    BY <1>1 DEF Init, Index
  <2> QED
    BY <2>1, <2>2, <2>3 DEF Init, Links, Free
<1> QED
  BY <1>2, <1>3, <1>4, <1>6, <1>7 DEF IInv

-----------------------------------------------------------------------------
\* The mutex and the wakeups

\* While the mutex is free nobody was just woken.
LEMMA FreeMutex ==
  ASSUME IInv, mutex > 0
  PROVE  /\ mutex = 1 /\ readSem = 0 /\ writeSem = 0
         /\ \A t \in Task : ~ Owns(t)
         /\ \A i \in Index : ~ Splices(i)
         /\ ~ ReadWake /\ ~ WriteWake
<1>1. mutex = 1 /\ readSem = 0 /\ writeSem = 0
  BY DEF IInv, Types, Baton
<1>2. (\A t \in Task : ~ Owns(t)) /\ (\A i \in Index : ~ Splices(i))
  BY <1>1 DEF IInv, Baton
<1> QED
  BY <1>1, <1>2 DEF ReadWake, WriteWake, Owns, Task

\* A launch is accepted only when no other one waits to be taken, so that its
\* index becomes the first and the last one of the list.
LEMMA AcceptAlone ==
  ASSUME IInv, NEW m \in Main, RequestAccepted(m)
  PROVE  /\ freeIndex \in Index /\ headIndex = NONE /\ readBlk > 0 /\ writeBlk = 0
         /\ freeIndex' = next[freeIndex]
         /\ headIndex' = freeIndex /\ tailIndex' = freeIndex
         /\ next' = [next EXCEPT ![freeIndex] = NONE]
<1>1. mutex > 0 /\ freeIndex # NONE /\ readBlk > 0 /\ Accept(freeIndex)
  BY DEF RequestAccepted, TakeMutex, CanAccept
<1>2. headIndex = NONE /\ writeBlk = 0
  BY <1>1, FreeMutex DEF IInv, Types, Wakeups
<1>3. freeIndex \in Index
  BY <1>1 DEF IInv, Types
<1> QED
  BY <1>1, <1>2, <1>3 DEF Accept

\* A missile is launched with an index that no thread uses.
LEMMA LaunchUnused ==
  ASSUME IInv, NEW t \in Launcher, Launch(t)
  PROVE  held[t] \in Given /\ held[t] \in Index /\ thread[held[t]] = "none"
<1>1. held[t] \in Given /\ held[t] \in Index
  BY DEF Launch, Go, IInv, Types, Places, Given
<1>2. held[t] \notin Flying
  BY <1>1 DEF IInv, Places
<1>3. ~ Splices(held[t])
  <2> SUFFICES ASSUME Splices(held[t]) PROVE FALSE
    OBVIOUS
  <2>1. held[t] = freeIndex
    BY <1>1 DEF IInv, Places
  <2>2. held[t] \in Free
    BY <1>1, <2>1, ReachStart DEF IInv, Links, Chain
  <2> QED
    BY <1>1, <2>2 DEF Free
<1> QED
  BY <1>1, <1>2, <1>3 DEF IInv, Types, Thread, Flying, Splices

LEMMA TypesStep == IInv /\ [Next]_vars => Types'
<1> SUFFICES ASSUME IInv, [Next]_vars PROVE Types'
  OBVIOUS
<1> USE DEF IInv, Types, Go, TakeMutex, PostMutex, Task, lists, reading, writing
<1>1. NONE \notin Index
  BY FifoQueueAssumption DEF Index, NONE
<1>2. /\ \A t \in Task : Owns(t) => mutex = 0 /\ readSem = 0 /\ writeSem = 0
      /\ \A i \in Index : Splices(i) => mutex = 0 /\ readSem = 0 /\ writeSem = 0
      /\ readSem = 1 => readBlk > 0
      /\ writeSem = 1 => writeBlk > 0
  BY DEF Baton, Wakeups, ReadWake
<1>3. ASSUME NEW m \in Main, PressSpace(m) PROVE Types'
  BY <1>3 DEF PressSpace, PC
<1>4. ASSUME NEW m \in Main, RequestRefused(m) PROVE Types'
  BY <1>4 DEF RequestRefused, PC
<1>5. ASSUME NEW m \in Main, Refuse(m) PROVE Types'
  BY <1>5, <1>2 DEF Refuse, PC, Owns
<1>6. ASSUME NEW m \in Main, RequestAccepted(m) PROVE Types'
  <2>1. /\ next[freeIndex] \in Index \cup {NONE}
        /\ [next EXCEPT ![freeIndex] = NONE] \in [Index -> Index \cup {NONE}]
    BY <1>6, AcceptAlone
  <2>2. /\ {freeIndex, headIndex, tailIndex}' \subseteq Index \cup {NONE}
        /\ next' \in [Index -> Index \cup {NONE}]
    BY <1>6, <2>1, AcceptAlone
  <2> QED
    BY <1>6, <2>2 DEF RequestAccepted, PC
<1>7. ASSUME NEW m \in Main, WakeReader(m) PROVE Types'
  BY <1>7, <1>2 DEF WakeReader, PC, Owns
<1>8. ASSUME NEW t \in Launcher, GetNextIndex(t) PROVE Types'
  BY <1>8 DEF GetNextIndex, PopHead, PC
<1>9. ASSUME NEW t \in Launcher, GetWoken(t) PROVE Types'
  BY <1>9, <1>2 DEF GetWoken, PopHead, PC
<1>10. ASSUME NEW t \in Launcher, RequestEmpty(t) PROVE Types'
  BY <1>10 DEF RequestEmpty, PC
<1>11. ASSUME NEW t \in Launcher, RequestReady(t) PROVE Types'
  BY <1>11 DEF RequestReady, PopFree, PC
<1>12. ASSUME NEW t \in Launcher, RequestWoken(t) PROVE Types'
  BY <1>12, <1>2 DEF RequestWoken, PopFree, PC
<1>13. ASSUME NEW t \in Launcher, Block(t) \/ Leave(t) PROVE Types'
  BY <1>13, <1>2 DEF Block, Leave, PC, Owns
<1>14. ASSUME NEW t \in Launcher, Launch(t) PROVE Types'
  BY <1>14 DEF Launch, PC, Thread
<1>15. ASSUME NEW t \in Launcher, LoopAgain(t) \/ LoopEnds(t) PROVE Types'
  BY <1>15 DEF LoopAgain, LoopEnds, PC
<1>16. ASSUME NEW i \in Index, Collided(i) PROVE Types'
  BY <1>16 DEF Collided, Fly, Thread
<1>17. ASSUME NEW i \in Index, ClearMissile(i) PROVE Types'
  BY <1>17 DEF ClearMissile, Splice, Fly, Thread
<1>18. ASSUME NEW i \in Index, WakeWriter(i) \/ PostSpliced(i) PROVE Types'
  BY <1>18, <1>2 DEF WakeWriter, PostSpliced, Fly, Thread, Splices
<1>19. CASE PressEsc \/ UNCHANGED vars
  BY <1>19 DEF PressEsc, vars
<1> QED
  BY <1>3, <1>4, <1>5, <1>6, <1>7, <1>8, <1>9, <1>10, <1>11, <1>12, <1>13, <1>14,
     <1>15, <1>16, <1>17, <1>18, <1>19
  DEF Next, MainStep, LauncherStep, ThreadStep

LEMMA BatonStep == IInv /\ [Next]_vars => Baton'
<1> SUFFICES ASSUME IInv, [Next]_vars PROVE Baton'
  OBVIOUS
<1>1. /\ {mutex, readSem, writeSem} \subseteq {0, 1}
      /\ pc \in [Task -> PC] /\ thread \in [Index -> Thread]
      /\ Baton
  BY DEF IInv, Types
<1> USE <1>1 DEF Baton, Go, Fly, TakeMutex, PostMutex, Task, Owns, Splices, reading, writing
\* Steps that take the mutex, for a task.
<1>2. ASSUME NEW t \in Task, NEW to \in {"refused", "accepted", "queueing", "got"},
             Go(t, "wait", to), TakeMutex, UNCHANGED <<readSem, writeSem, thread>>
      PROVE  Baton'
  BY <1>2
\* Steps that take a private semaphore.
<1>3. ASSUME NEW t \in Task, Go(t, "blocked", "got"), UNCHANGED <<mutex, thread>>,
             \/ readSem > 0 /\ readSem' = readSem - 1 /\ writeSem' = writeSem
             \/ writeSem > 0 /\ writeSem' = writeSem - 1 /\ readSem' = readSem
      PROVE  Baton'
  BY <1>3
\* Steps of a task that post the mutex, or a private semaphore.
<1>4. ASSUME NEW t \in Task, NEW from \in {"refused", "accepted", "queueing", "got"},
             NEW to \in {"away", "blocked", "holding"}, Go(t, from, to),
             UNCHANGED <<writeSem, thread>>,
             \/ PostMutex /\ readSem' = readSem
             \/ readSem' = readSem + 1 /\ mutex' = mutex
      PROVE  Baton'
  BY <1>4
\* Steps of a task that do neither.
<1>5. ASSUME NEW t \in Task, NEW from \in {"away", "holding"},
             NEW to \in {"away", "wait", "done"}, Go(t, from, to),
             UNCHANGED <<mutex, readSem, writeSem>>,
             \A i \in Index : Splices(i)' <=> Splices(i)
      PROVE  Baton'
  BY <1>5
<1>6. ASSUME NEW m \in Main, PressSpace(m) PROVE Baton'
  BY <1>6, <1>5 DEF PressSpace
<1>7. ASSUME NEW m \in Main, RequestRefused(m) \/ RequestAccepted(m) PROVE Baton'
  BY <1>7, <1>2 DEF RequestRefused, RequestAccepted
<1>8. ASSUME NEW m \in Main, Refuse(m) \/ WakeReader(m) PROVE Baton'
  BY <1>8, <1>4 DEF Refuse, WakeReader
<1>9. ASSUME NEW t \in Launcher, GetNextIndex(t) PROVE Baton'
  BY <1>9, <1>2 DEF GetNextIndex
<1>10. ASSUME NEW t \in Launcher, RequestEmpty(t) \/ RequestReady(t) PROVE Baton'
  BY <1>10, <1>2 DEF RequestEmpty, RequestReady
<1>11. ASSUME NEW t \in Launcher, GetWoken(t) \/ RequestWoken(t) PROVE Baton'
  BY <1>11, <1>3 DEF GetWoken, RequestWoken
<1>12. ASSUME NEW t \in Launcher, Block(t) \/ Leave(t) PROVE Baton'
  BY <1>12, <1>4 DEF Block, Leave
<1>13. ASSUME NEW t \in Launcher, LoopAgain(t) \/ LoopEnds(t) PROVE Baton'
  BY <1>13, <1>5 DEF LoopAgain, LoopEnds
<1>14. ASSUME NEW t \in Launcher, Launch(t) PROVE Baton'
  <2>1. \A i \in Index : Splices(i)' <=> Splices(i)
    BY <1>14, LaunchUnused DEF Launch
  <2> QED
    BY <1>14, <1>5, <2>1 DEF Launch
<1>15. ASSUME NEW i \in Index, Collided(i) PROVE Baton'
  BY <1>15 DEF Collided
<1>16. ASSUME NEW i \in Index, ClearMissile(i) PROVE Baton'
  BY <1>16 DEF ClearMissile
<1>17. ASSUME NEW i \in Index, WakeWriter(i) \/ PostSpliced(i) PROVE Baton'
  BY <1>17 DEF WakeWriter, PostSpliced
<1>18. CASE PressEsc \/ UNCHANGED vars
  BY <1>18 DEF PressEsc, vars
<1> QED
  BY <1>6, <1>7, <1>8, <1>9, <1>10, <1>11, <1>12, <1>13, <1>14, <1>15, <1>16, <1>17,
     <1>18
  DEF Next, MainStep, LauncherStep, ThreadStep

LEMMA WakeupsStep == IInv /\ [Next]_vars => Wakeups'
<1> SUFFICES ASSUME IInv, [Next]_vars PROVE Wakeups'
  OBVIOUS
<1>1. /\ {mutex, readSem, writeSem} \subseteq {0, 1} /\ {readBlk, writeBlk} \subseteq Nat
      /\ pc \in [Task -> PC] /\ thread \in [Index -> Thread]
      /\ next \in [Index -> Index \cup {NONE}]
      /\ {freeIndex, headIndex} \subseteq Index \cup {NONE}
      /\ Baton /\ Wakeups
      /\ headIndex # NONE => next[headIndex] = NONE
  BY DEF IInv, Types, Links
<1> USE <1>1 DEF Go, Fly, Task, lists, reading, writing
\* Steps that change nothing of it.
<1>2. ASSUME UNCHANGED <<freeIndex, headIndex, next, reading, writing>>,
             \A m \in Main : pc'[m] = "accepted" <=> pc[m] = "accepted",
             \A i \in Index : Splices(i)' <=> Splices(i)
      PROVE  Wakeups'
  BY <1>2 DEF Wakeups, ReadWake, WriteWake
<1>3. ASSUME NEW m \in Main, PressSpace(m) \/ RequestRefused(m) \/ Refuse(m)
      PROVE  Wakeups'
  BY <1>3, <1>2 DEF PressSpace, RequestRefused, Refuse, Splices
<1>4. ASSUME NEW m \in Main, RequestAccepted(m) PROVE Wakeups'
  <2>1. ~ ReadWake /\ ~ WriteWake
    BY <1>4, FreeMutex DEF RequestAccepted, TakeMutex
  <2>2. /\ headIndex' # NONE /\ readBlk' > 0 /\ writeBlk' = 0
        /\ UNCHANGED <<reading, writing, thread>>
    <3>1. headIndex' \in Index /\ readBlk > 0 /\ writeBlk = 0
      BY <1>4, AcceptAlone
    <3>2. UNCHANGED <<reading, writing, thread>>
      BY <1>4 DEF RequestAccepted
    <3> QED
      BY <3>1, <3>2, FifoQueueAssumption DEF Index, NONE
  <2>3. ReadWake' /\ ~ WriteWake'
    BY <2>1, <2>2, <1>4 DEF RequestAccepted, ReadWake, WriteWake, Splices
  <2> QED
    BY <2>1, <2>2, <2>3 DEF Wakeups, WriteWake
<1>5. ASSUME NEW m \in Main, WakeReader(m) PROVE Wakeups'
  <2>1. ReadWake /\ (WriteWake' <=> WriteWake)
    BY <1>5 DEF WakeReader, ReadWake, WriteWake, Splices
  <2>2. ReadWake'
    <3>1. readSem = 0
      BY <1>5 DEF WakeReader, Baton, Owns
    <3> QED
      BY <1>5, <3>1 DEF WakeReader, ReadWake
  <2> QED
    BY <1>5, <2>1, <2>2 DEF WakeReader, Wakeups
<1>6. ASSUME NEW t \in Launcher, GetNextIndex(t) PROVE Wakeups'
  <2>1. ~ ReadWake /\ ~ WriteWake
    BY <1>6, FreeMutex DEF GetNextIndex, TakeMutex
  <2>2. ~ ReadWake' /\ ~ WriteWake'
    BY <2>1, <1>6 DEF GetNextIndex, ReadWake, WriteWake, Splices
  <2>3. /\ headIndex' = NONE /\ UNCHANGED <<freeIndex, writing, next>>
        /\ readBlk' \in Nat
    BY <1>6 DEF GetNextIndex, PopHead
  <2> QED
    BY <2>1, <2>2, <2>3 DEF Wakeups, WriteWake
<1>7. ASSUME NEW t \in Launcher, GetWoken(t) PROVE Wakeups'
  <2>1. readSem = 1 /\ mutex = 0 /\ writeSem = 0 /\ \A u \in Task : ~ Owns(u)
    BY <1>7 DEF GetWoken, Baton
  <2>2. ~ ReadWake' /\ ~ WriteWake /\ ~ WriteWake'
    <3>1. \A i \in Index : ~ Splices(i)
      BY <2>1 DEF Baton
    <3> QED
      BY <1>7, <2>1, <3>1 DEF GetWoken, ReadWake, WriteWake, Splices, Owns
  <2>3. headIndex' = NONE /\ UNCHANGED <<freeIndex, writing, next>>
    BY <1>7 DEF GetWoken, PopHead
  <2> QED
    BY <2>1, <2>2, <2>3 DEF Wakeups, WriteWake
<1>8. ASSUME NEW t \in Launcher, RequestEmpty(t) PROVE Wakeups'
  <2>1. ~ ReadWake /\ ~ WriteWake
    BY <1>8, FreeMutex DEF RequestEmpty, TakeMutex
  <2>2. ~ ReadWake' /\ ~ WriteWake'
    BY <2>1, <1>8 DEF RequestEmpty, ReadWake, WriteWake, Splices
  <2>3. freeIndex' = NONE /\ UNCHANGED <<headIndex, reading, writeSem>>
    BY <1>8, <2>1 DEF RequestEmpty, MustWait, Wakeups
  <2> QED
    BY <2>1, <2>2, <2>3 DEF Wakeups, WriteWake
<1>9. ASSUME NEW t \in Launcher, RequestReady(t) PROVE Wakeups'
  <2>1. ~ ReadWake /\ ~ WriteWake
    BY <1>9, FreeMutex DEF RequestReady, TakeMutex
  <2>2. ~ ReadWake' /\ ~ WriteWake'
    BY <2>1, <1>9 DEF RequestReady, ReadWake, WriteWake, Splices
  <2>3. writeBlk' = 0 /\ UNCHANGED <<headIndex, reading, writeSem>>
    BY <1>9 DEF RequestReady, MustWait, PopFree
  <2> QED
    BY <2>1, <2>2, <2>3 DEF Wakeups, WriteWake
<1>10. ASSUME NEW t \in Launcher, RequestWoken(t) PROVE Wakeups'
  <2>1. writeSem = 1 /\ mutex = 0 /\ readSem = 0 /\ \A u \in Task : ~ Owns(u)
    BY <1>10 DEF RequestWoken, Baton
  <2>2. WriteWake /\ ~ WriteWake' /\ ~ ReadWake /\ ~ ReadWake'
    <3>1. \A i \in Index : ~ Splices(i)
      BY <2>1 DEF Baton
    <3> QED
      BY <1>10, <2>1, <3>1 DEF RequestWoken, ReadWake, WriteWake, Splices, Owns
  <2>3. freeIndex' = NONE /\ UNCHANGED <<headIndex, reading>> /\ writeSem' = 0
    BY <1>10, <2>1, <2>2 DEF RequestWoken, PopFree, Wakeups
  <2> QED
    BY <2>1, <2>2, <2>3 DEF Wakeups
<1>11. ASSUME NEW t \in Launcher, Block(t) \/ Leave(t) \/ LoopAgain(t) \/ LoopEnds(t)
       PROVE  Wakeups'
  BY <1>11, <1>2 DEF Block, Leave, LoopAgain, LoopEnds, Splices
<1>12. ASSUME NEW t \in Launcher, Launch(t) PROVE Wakeups'
  <2>1. \A i \in Index : Splices(i)' <=> Splices(i)
    BY <1>12, LaunchUnused DEF Launch, Splices
  <2> QED
    BY <1>12, <1>2, <2>1 DEF Launch
<1>13. ASSUME NEW i \in Index, Collided(i) PROVE Wakeups'
  BY <1>13, <1>2 DEF Collided, Splices
<1>14. ASSUME NEW i \in Index, ClearMissile(i) PROVE Wakeups'
  <2>1. ~ ReadWake /\ ~ WriteWake
    BY <1>14, FreeMutex DEF ClearMissile, TakeMutex
  <2>2. ~ ReadWake' /\ WriteWake'
    BY <2>1, <1>14 DEF ClearMissile, ReadWake, WriteWake, Splices
  <2>3. /\ freeIndex' = i /\ i # NONE /\ next'[i] = freeIndex
        /\ UNCHANGED <<headIndex, reading, writing>>
    BY <1>14, FifoQueueAssumption DEF ClearMissile, Splice, Index, NONE
  <2> QED
    BY <2>1, <2>2, <2>3 DEF Wakeups, WriteWake
<1>15. ASSUME NEW i \in Index, WakeWriter(i) PROVE Wakeups'
  <2>1. Splices(i) /\ writeSem = 0
    BY <1>15 DEF WakeWriter, Splices, Baton
  <2>2. WriteWake /\ WriteWake' /\ (ReadWake' <=> ReadWake)
    BY <2>1, <1>15 DEF WakeWriter, ReadWake, WriteWake
  <2> QED
    BY <2>1, <2>2, <1>15 DEF WakeWriter, Wakeups
<1>16. ASSUME NEW i \in Index, PostSpliced(i) PROVE Wakeups'
  <2>1. WriteWake /\ (ReadWake' <=> ReadWake) /\ writeSem = 0
    BY <1>16 DEF PostSpliced, ReadWake, WriteWake, Splices, Baton
  <2>2. ~ WriteWake'
    BY <1>16, <2>1 DEF PostSpliced, WriteWake, Splices, Baton
  <2> QED
    BY <2>1, <2>2, <1>16 DEF PostSpliced, Wakeups
<1>17. CASE PressEsc \/ UNCHANGED vars
  BY <1>17, <1>2 DEF PressEsc, vars, Splices
<1> QED
  BY <1>3, <1>4, <1>5, <1>6, <1>7, <1>8, <1>9, <1>10, <1>11, <1>12, <1>13, <1>14,
     <1>15, <1>16, <1>17
  DEF Next, MainStep, LauncherStep, ThreadStep

-----------------------------------------------------------------------------
\* Where the indexes are

LEMMA FreeFirst ==
  ASSUME IInv, freeIndex # NONE
  PROVE  freeIndex \in Free
BY ReachStart DEF IInv, Types, Links, Chain

\* Steps that move no index.
LEMMA MoveNone ==
  ASSUME UNCHANGED <<headIndex, held>>, Flying' = Flying
  PROVE  Ready' = Ready /\ Given' = Given /\ Free' = Free
BY DEF Ready, Given, Free

\* request_atk_launch accepts: the first free index becomes the ready one.
LEMMA MoveAccept ==
  ASSUME IInv, NEW m \in Main, RequestAccepted(m)
  PROVE  /\ freeIndex \in Free /\ Ready = {}
         /\ Ready' = {freeIndex} /\ Given' = Given /\ Flying' = Flying
         /\ Free' = Free \ {freeIndex}
<1>1. freeIndex \in Index /\ headIndex = NONE /\ headIndex' = freeIndex
  BY AcceptAlone
<1>2. NONE \notin Index
  BY FifoQueueAssumption DEF Index, NONE
<1>3. UNCHANGED <<held, thread>>
  BY DEF RequestAccepted
<1>4. freeIndex \in Free
  BY <1>1, <1>2, FreeFirst
<1>5. Ready = {} /\ Ready' = {freeIndex} /\ Given' = Given /\ Flying' = Flying
  BY <1>1, <1>2, <1>3 DEF Ready, Given, Flying
<1> QED
  BY <1>4, <1>5 DEF Free

\* A launcher takes an index that no launcher has.
LEMMA MoveGive ==
  ASSUME IInv, NEW t \in Launcher, held[t] = NONE, NEW i \in Index, i \notin Given,
         held' = [held EXCEPT ![t] = i]
  PROVE  /\ Given' = Given \cup {i}
         /\ \A u, v \in Launcher : held'[u] = held'[v] /\ held'[u] # NONE => u = v
<1>1. NONE \notin Index
  BY FifoQueueAssumption DEF Index, NONE
<1>2. held \in [Launcher -> Index \cup {NONE}]
  BY DEF IInv, Types
<1>3. \A u \in Launcher : held'[u] = IF u = t THEN i ELSE held[u]
  BY <1>2
<1>4. \A u \in Launcher : held[u] # i
  BY <1>1 DEF Given
<1>5. Given' = Given \cup {i}
  BY <1>1, <1>3 DEF Given
<1> QED
  BY <1>3, <1>4, <1>5 DEF IInv, Places

\* get_next_index takes the only index of the list of accepted launches.
LEMMA MovePopHead ==
  ASSUME IInv, NEW t \in Launcher, held[t] = NONE, PopHead(t), UNCHANGED thread
  PROVE  /\ headIndex \in Index /\ headIndex' = NONE
         /\ Ready = {headIndex} /\ Ready' = {} /\ Given' = Given \cup {headIndex}
         /\ Flying' = Flying /\ Free' = Free
         /\ \A u, v \in Launcher : held'[u] = held'[v] /\ held'[u] # NONE => u = v
<1>1. headIndex \in Index /\ headIndex' = NONE /\ headIndex \in Ready
  BY DEF PopHead, IInv, Types, Links, Ready
<1>2. headIndex \notin Given
  BY <1>1 DEF IInv, Places
<1>3. /\ Given' = Given \cup {headIndex}
      /\ \A u, v \in Launcher : held'[u] = held'[v] /\ held'[u] # NONE => u = v
  BY <1>1, <1>2, MoveGive DEF PopHead
<1>4. Ready = {headIndex} /\ Ready' = {} /\ Flying' = Flying
  BY <1>1 DEF Ready, Flying
<1> QED
  BY <1>1, <1>3, <1>4 DEF Free

\* request_def_index takes the first free index.
LEMMA MovePopFree ==
  ASSUME IInv, NEW t \in Launcher, held[t] = NONE, PopFree(t), UNCHANGED thread
  PROVE  /\ freeIndex \in Free
         /\ Ready' = Ready /\ Given' = Given \cup {freeIndex} /\ Flying' = Flying
         /\ Free' = Free \ {freeIndex}
         /\ \A u, v \in Launcher : held'[u] = held'[v] /\ held'[u] # NONE => u = v
<1>1. freeIndex \in Free
  BY FreeFirst DEF PopFree
<1>2. freeIndex \in Index /\ freeIndex \notin Given
  BY <1>1 DEF Free
<1>3. /\ Given' = Given \cup {freeIndex}
      /\ \A u, v \in Launcher : held'[u] = held'[v] /\ held'[u] # NONE => u = v
  BY <1>2, MoveGive DEF PopFree
<1>4. Ready' = Ready /\ Flying' = Flying
  BY DEF PopFree, Ready, Flying
<1> QED
  BY <1>1, <1>3, <1>4 DEF Free

\* The launcher gives its index to a missile.
LEMMA MoveLaunch ==
  ASSUME IInv, NEW t \in Launcher, Launch(t)
  PROVE  /\ held[t] \in Given
         /\ Ready' = Ready /\ Given' = Given \ {held[t]}
         /\ Flying' = Flying \cup {held[t]} /\ Free' = Free
         /\ \A u, v \in Launcher : held'[u] = held'[v] /\ held'[u] # NONE => u = v
         /\ \A i \in Index : Splices(i)' <=> Splices(i)
<1>1. held[t] \in Given /\ held[t] \in Index /\ thread[held[t]] = "none"
  BY LaunchUnused
<1>2. /\ held \in [Launcher -> Index \cup {NONE}] /\ thread \in [Index -> Thread]
      /\ held' = [held EXCEPT ![t] = NONE]
      /\ thread' = [thread EXCEPT ![held[t]] = "flying"]
      /\ headIndex' = headIndex
  BY DEF IInv, Types, Launch, lists
<1>3. \A u \in Launcher : held'[u] = IF u = t THEN NONE ELSE held[u]
  BY <1>2
<1>4. \A u, v \in Launcher : held[u] = held[v] /\ held[u] # NONE => u = v
  BY DEF IInv, Places
<1>5. Ready' = Ready /\ Given' = Given \ {held[t]}
  BY <1>1, <1>2, <1>3, <1>4 DEF Ready, Given
<1>6. Flying' = Flying \cup {held[t]} /\ \A i \in Index : Splices(i)' <=> Splices(i)
  BY <1>1, <1>2 DEF Flying, Splices
<1>7. Free' = Free
  BY <1>1, <1>5, <1>6 DEF Free
<1> QED
  BY <1>1, <1>3, <1>4, <1>5, <1>6, <1>7

\* clear_missile gives the index back.
LEMMA MoveReturn ==
  ASSUME IInv, NEW i \in Index, ClearMissile(i)
  PROVE  /\ i \in Flying /\ i \notin Free
         /\ Ready' = Ready /\ Given' = Given /\ Flying' = Flying \ {i}
         /\ Free' = Free \cup {i}
<1>1. i \in Flying /\ i \notin Free
  BY DEF ClearMissile, Fly, Flying, Free
<1>2. thread \in [Index -> Thread] /\ thread' = [thread EXCEPT ![i] = "splicing"]
  BY DEF IInv, Types, ClearMissile, Fly
<1>3. Ready' = Ready /\ Given' = Given /\ Flying' = Flying \ {i}
  BY <1>2 DEF ClearMissile, Splice, Ready, Given, Flying
<1>4. i \notin Ready /\ i \notin Given
  BY <1>1 DEF IInv, Places
<1> QED
  BY <1>1, <1>3, <1>4 DEF Free

LEMMA PlacesStep == IInv /\ [Next]_vars => Places'
<1> SUFFICES ASSUME IInv, [Next]_vars PROVE Places'
  OBVIOUS
<1>1. /\ pc \in [Task -> PC] /\ thread \in [Index -> Thread]
      /\ held \in [Launcher -> Index \cup {NONE}]
      /\ freeIndex \in Index \cup {NONE}
      /\ Places
  BY DEF IInv, Types
<1>2. NONE \notin Index /\ Main \cap Launcher = {}
  BY FifoQueueAssumption DEF Index, NONE
<1> USE <1>1, <1>2 DEF Go, Fly, Task
\* Steps that move no index.
<1>3. ASSUME UNCHANGED <<freeIndex, headIndex, held>>, Flying' = Flying,
             \A i \in Index : Splices(i)' => Splices(i),
             \A t \in Launcher :
               /\ pc'[t] \in {"got", "holding"} => pc[t] \in {"got", "holding"}
               /\ pc'[t] \notin {"got", "holding", "done"} =>
                    pc[t] \notin {"got", "holding", "done"}
      PROVE  Places'
  <2>1. Ready' = Ready /\ Given' = Given
    BY <1>3, MoveNone
  <2>2. \A t \in Launcher :
          /\ pc'[t] \in {"got", "holding"} => held'[t] # NONE
          /\ pc'[t] \notin {"got", "holding", "done"} => held'[t] = NONE
    BY <1>3 DEF Places
  <2>3. \A t, u \in Launcher : held'[t] = held'[u] /\ held'[t] # NONE => t = u
    BY <1>3 DEF Places
  <2> QED
    BY <1>3, <2>1, <2>2, <2>3 DEF Places
<1>4. ASSUME NEW m \in Main, PressSpace(m) \/ RequestRefused(m) \/ Refuse(m)
      PROVE  Places'
  BY <1>4, <1>3 DEF PressSpace, RequestRefused, Refuse, lists, Flying, Splices
<1>5. ASSUME NEW m \in Main, RequestAccepted(m) PROVE Places'
  <2>1. \A i \in Index : ~ Splices(i)'
    BY <1>5, FreeMutex DEF RequestAccepted, TakeMutex, Splices
  <2>2. Ready' \cap Given' = {} /\ Ready' \cap Flying' = {} /\ Given' \cap Flying' = {}
    BY <1>5, MoveAccept DEF Free, Places
  <2>3. \A t \in Launcher : pc'[t] = pc[t] /\ held'[t] = held[t]
    BY <1>5 DEF RequestAccepted
  <2> QED
    BY <2>1, <2>2, <2>3 DEF Places
<1>6. ASSUME NEW m \in Main, WakeReader(m) PROVE Places'
  BY <1>6, <1>3 DEF WakeReader, lists, Flying, Splices
\* Steps that take the first index of a list.
<1>7. ASSUME NEW t \in Launcher, pc[t] \in {"wait", "blocked"},
             pc' = [pc EXCEPT ![t] = "got"], UNCHANGED thread,
             PopHead(t) \/ PopFree(t), \A i \in Index : ~ Splices(i)
      PROVE  Places'
  <2>1. held[t] = NONE
    BY <1>7 DEF Places
  <2>2. /\ Ready' \cap Given' = {} /\ Ready' \cap Flying' = {} /\ Given' \cap Flying' = {}
        /\ \A u, v \in Launcher : held'[u] = held'[v] /\ held'[u] # NONE => u = v
    <3>1. CASE PopHead(t)
      BY <1>7, <2>1, <3>1, MovePopHead DEF Places
    <3>2. CASE PopFree(t)
      BY <1>7, <2>1, <3>2, MovePopFree DEF Places, Free
    <3> QED
      BY <1>7, <3>1, <3>2
  <2>3. \A u \in Launcher : /\ u # t => pc'[u] = pc[u] /\ held'[u] = held[u]
                            /\ pc'[t] = "got" /\ held'[t] # NONE
    BY <1>7 DEF PopHead, PopFree
  <2>4. \A i \in Index : ~ Splices(i)'
    BY <1>7 DEF Splices
  <2> QED
    BY <2>2, <2>3, <2>4 DEF Places
<1>8. ASSUME NEW t \in Launcher, GetNextIndex(t) PROVE Places'
  <2>1. CASE headIndex = NONE
    BY <1>8, <2>1, <1>3 DEF GetNextIndex, lists, Flying, Splices
  <2>2. CASE headIndex # NONE
    BY <1>8, <2>2, <1>7, FreeMutex DEF GetNextIndex, TakeMutex
  <2> QED
    BY <2>1, <2>2
<1>9. ASSUME NEW t \in Launcher, GetWoken(t) \/ RequestWoken(t) PROVE Places'
  <2>1. \A i \in Index : ~ Splices(i)
    BY <1>9 DEF GetWoken, RequestWoken, IInv, Baton
  <2> QED
    BY <1>9, <1>7, <2>1 DEF GetWoken, RequestWoken
<1>10. ASSUME NEW t \in Launcher, RequestEmpty(t) PROVE Places'
  BY <1>10, <1>3 DEF RequestEmpty, lists, Flying, Splices
<1>11. ASSUME NEW t \in Launcher, RequestReady(t) PROVE Places'
  BY <1>11, <1>7, FreeMutex DEF RequestReady, TakeMutex
<1>12. ASSUME NEW t \in Launcher, Block(t) \/ Leave(t) \/ LoopAgain(t) PROVE Places'
  BY <1>12, <1>3 DEF Block, Leave, LoopAgain, lists, Flying, Splices
<1>13. ASSUME NEW t \in Launcher, LoopEnds(t) PROVE Places'
  BY <1>13, <1>3 DEF LoopEnds, lists, Flying, Splices
<1>14. ASSUME NEW t \in Launcher, Launch(t) PROVE Places'
  <2>1. Ready' \cap Given' = {} /\ Ready' \cap Flying' = {} /\ Given' \cap Flying' = {}
    BY <1>14, MoveLaunch DEF Places
  <2>2. \A u, v \in Launcher : held'[u] = held'[v] /\ held'[u] # NONE => u = v
    BY <1>14, MoveLaunch
  <2>3. \A i \in Index : Splices(i)' => i = freeIndex'
    BY <1>14, MoveLaunch DEF Places, Launch, lists
  <2>4. \A u \in Launcher : /\ u # t => pc'[u] = pc[u] /\ held'[u] = held[u]
                            /\ pc'[t] = "away" /\ held'[t] = NONE
    BY <1>14 DEF Launch
  <2> QED
    BY <2>1, <2>2, <2>3, <2>4 DEF Places
<1>15. ASSUME NEW i \in Index, Collided(i) PROVE Places'
  <2>1. Flying' = Flying /\ \A j \in Index : Splices(j)' => Splices(j)
    BY <1>15 DEF Collided, Flying, Splices
  <2> QED
    BY <1>15, <2>1, <1>3 DEF Collided, lists
<1>16. ASSUME NEW i \in Index, ClearMissile(i) PROVE Places'
  <2>1. Ready' \cap Given' = {} /\ Ready' \cap Flying' = {} /\ Given' \cap Flying' = {}
    BY <1>16, MoveReturn DEF Places
  <2>2. \A j \in Index : Splices(j)' => j = freeIndex'
    BY <1>16, FreeMutex DEF ClearMissile, TakeMutex, Splice, Splices
  <2>3. UNCHANGED <<pc, held>>
    BY <1>16 DEF ClearMissile
  <2> QED
    BY <2>1, <2>2, <2>3 DEF Places
<1>17. ASSUME NEW i \in Index, WakeWriter(i) \/ PostSpliced(i) PROVE Places'
  <2>1. Flying' = Flying /\ \A j \in Index : Splices(j)' => Splices(j)
    BY <1>17 DEF WakeWriter, PostSpliced, Flying, Splices
  <2> QED
    BY <1>17, <2>1, <1>3 DEF WakeWriter, PostSpliced, lists
<1>18. CASE PressEsc \/ UNCHANGED vars
  BY <1>18, <1>3 DEF PressEsc, vars, lists, Flying, Splices
<1> QED
  BY <1>4, <1>5, <1>6, <1>8, <1>9, <1>10, <1>11, <1>12, <1>13, <1>14, <1>15, <1>16,
     <1>17, <1>18
  DEF Next, MainStep, LauncherStep, ThreadStep

\* The first free index leaves the free list.
LEMMA FreePop ==
  ASSUME IInv, freeIndex # NONE
  PROVE  /\ Reach(next[freeIndex], next) = Free \ {freeIndex}
         /\ \A i \in Free \ {freeIndex} : next[i] # next[freeIndex] \/ next[freeIndex] = NONE
<1>1. freeIndex \in Index /\ next \in [Index -> Index \cup {NONE}]
  BY DEF IInv, Types
<1>2. Reach(freeIndex, next) = Free
  BY DEF IInv, Links, Chain
<1>3. \A j \in Reach(freeIndex, next) : next[j] # freeIndex
  BY <1>2 DEF IInv, Links
<1>4. \A i \in Free \ {freeIndex} : next[i] # next[freeIndex] \/ next[freeIndex] = NONE
  BY FreeFirst DEF IInv, Links
<1> QED
  BY <1>1, <1>2, <1>3, <1>4, ReachPop

LEMMA LinksStep == IInv /\ [Next]_vars => Links'
<1> SUFFICES ASSUME IInv, [Next]_vars PROVE Links'
  OBVIOUS
<1>1. /\ next \in [Index -> Index \cup {NONE}]
      /\ {freeIndex, headIndex} \subseteq Index \cup {NONE}
      /\ Links /\ NONE \notin Index
  BY FifoQueueAssumption DEF IInv, Types, Index, NONE
<1> USE <1>1 DEF Go, Fly, lists
\* Steps that change no list, or only take the ready index.
<1>2. ASSUME UNCHANGED <<freeIndex, next>>, headIndex' \in {headIndex, NONE}, Free' = Free
      PROVE  Links'
  BY <1>2 DEF Links, Chain
<1>3. ASSUME UNCHANGED <<lists, held>>, Flying' = Flying PROVE Links'
  BY <1>2, <1>3, MoveNone
<1>4. ASSUME NEW m \in Main,
             PressSpace(m) \/ RequestRefused(m) \/ Refuse(m) \/ WakeReader(m)
      PROVE  Links'
  BY <1>4, <1>3 DEF PressSpace, RequestRefused, Refuse, WakeReader, Flying
<1>5. ASSUME NEW m \in Main, RequestAccepted(m) PROVE Links'
  <2>1. /\ freeIndex \in Index /\ freeIndex' = next[freeIndex] /\ headIndex' = freeIndex
        /\ next' = [next EXCEPT ![freeIndex] = NONE]
    BY <1>5, AcceptAlone
  <2>2. Free' = Free \ {freeIndex}
    BY <1>5, MoveAccept
  <2>3. Chain(freeIndex)' = Free'
    <3>1. Reach(next[freeIndex], next) = Free \ {freeIndex}
      BY <2>1, FreePop
    <3>2. /\ next' \in [Index -> Index \cup {NONE}]
          /\ next[freeIndex] \in Index \cup {NONE}
          /\ \A i \in Free \ {freeIndex} : next'[i] = next[i]
      BY <2>1 DEF Free
    <3>3. Reach(next[freeIndex], next') = Reach(next[freeIndex], next)
      BY <3>1, <3>2, ReachSame
    <3> QED
      BY <2>1, <2>2, <3>1, <3>3 DEF Chain
  <2>4. \A i \in Free' : i \in Free /\ next'[i] = next[i]
    BY <2>1, <2>2 DEF Free
  <2>5. \A i \in Free' : next'[i] # freeIndex' \/ freeIndex' = NONE
    BY <2>1, <2>2, <2>4, FreePop
  <2>6. \A i, j \in Free' : next'[i] = next'[j] /\ next'[i] # NONE => i = j
    BY <2>4 DEF Links
  <2>7. next'[headIndex'] = NONE
    BY <2>1
  <2> QED
    BY <2>3, <2>5, <2>6, <2>7 DEF Links
<1>6. ASSUME NEW t \in Launcher, held[t] = NONE, PopHead(t), UNCHANGED thread
      PROVE  Links'
  BY <1>6, <1>2, MovePopHead DEF PopHead
<1>7. ASSUME NEW t \in Launcher, held[t] = NONE, PopFree(t), UNCHANGED thread
      PROVE  Links'
  <2>1. /\ freeIndex # NONE /\ freeIndex' = next[freeIndex]
        /\ UNCHANGED <<headIndex, next>>
    BY <1>7 DEF PopFree
  <2>2. Free' = Free \ {freeIndex}
    BY <1>7, MovePopFree
  <2>3. Chain(freeIndex)' = Free'
    BY <2>1, <2>2, FreePop DEF Chain
  <2>4. \A i \in Free' : next'[i] # freeIndex' \/ freeIndex' = NONE
    BY <2>1, <2>2, FreePop
  <2> QED
    BY <2>1, <2>2, <2>3, <2>4 DEF Links
<1>8. ASSUME NEW t \in Launcher, GetNextIndex(t) PROVE Links'
  <2>1. held[t] = NONE
    BY <1>8 DEF GetNextIndex, IInv, Places
  <2> QED
    BY <1>8, <2>1, <1>3, <1>6 DEF GetNextIndex, Flying
<1>9. ASSUME NEW t \in Launcher, GetWoken(t) PROVE Links'
  BY <1>9, <1>6 DEF GetWoken, IInv, Places
<1>10. ASSUME NEW t \in Launcher, RequestEmpty(t) PROVE Links'
  BY <1>10, <1>3 DEF RequestEmpty, Flying
<1>11. ASSUME NEW t \in Launcher, RequestReady(t) \/ RequestWoken(t) PROVE Links'
  BY <1>11, <1>7 DEF RequestReady, RequestWoken, IInv, Places
<1>12. ASSUME NEW t \in Launcher, Block(t) \/ Leave(t) \/ LoopAgain(t) \/ LoopEnds(t)
       PROVE  Links'
  BY <1>12, <1>3 DEF Block, Leave, LoopAgain, LoopEnds, Flying
<1>13. ASSUME NEW t \in Launcher, Launch(t) PROVE Links'
  BY <1>13, <1>2, MoveLaunch DEF Launch
<1>14. ASSUME NEW i \in Index, Collided(i) PROVE Links'
  <2>1. Flying' = Flying
    BY <1>14 DEF Collided, Flying, IInv, Types
  <2> QED
    BY <1>14, <2>1, <1>3 DEF Collided
<1>15. ASSUME NEW i \in Index, ClearMissile(i) PROVE Links'
  <2>1. /\ freeIndex' = i /\ next' = [next EXCEPT ![i] = freeIndex]
        /\ headIndex' = headIndex
    BY <1>15 DEF ClearMissile, Splice
  <2>2. i \in Flying /\ i \notin Free /\ Free' = Free \cup {i}
    BY <1>15, MoveReturn
  <2>3. Chain(freeIndex)' = Free'
    <3>1. Reach(freeIndex, next) = Free
      BY DEF Links, Chain
    <3> QED
      BY <2>1, <2>2, <3>1, ReachPush DEF Chain
  <2>4. Closed(Free, next) /\ freeIndex \in Free \cup {NONE}
    BY ReachClosed, FreeFirst DEF Links, Chain
  <2>5. next'[i] = freeIndex /\ \A j \in Free : next'[j] = next[j] /\ next[j] # i
    BY <2>1, <2>2, <2>4 DEF Closed, Free
  <2>6. \A j \in Free' : next'[j] # freeIndex'
    BY <2>1, <2>2, <2>4, <2>5
  <2>7. \A j, k \in Free' : next'[j] = next'[k] /\ next'[j] # NONE => j = k
    BY <2>2, <2>5 DEF Links
  <2>8. headIndex' # NONE => next'[headIndex'] = NONE
    <3>1. headIndex # i
      BY <2>2 DEF IInv, Places, Ready
    <3> QED
      BY <2>1, <3>1 DEF Links
  <2> QED
    BY <2>3, <2>6, <2>7, <2>8 DEF Links
<1>16. ASSUME NEW i \in Index, WakeWriter(i) \/ PostSpliced(i) PROVE Links'
  <2>1. Flying' = Flying
    BY <1>16 DEF WakeWriter, PostSpliced, Flying, IInv, Types
  <2> QED
    BY <1>16, <2>1, <1>3 DEF WakeWriter, PostSpliced
<1>17. CASE PressEsc \/ UNCHANGED vars
  BY <1>17, <1>3 DEF PressEsc, vars, Flying
<1> QED
  BY <1>4, <1>5, <1>8, <1>9, <1>10, <1>11, <1>12, <1>13, <1>14, <1>15, <1>16, <1>17
  DEF Next, MainStep, LauncherStep, ThreadStep

LEMMA NextIInv == IInv /\ [Next]_vars => IInv'
BY TypesStep, BatonStep, WakeupsStep, PlacesStep, LinksStep DEF IInv

-----------------------------------------------------------------------------
\* The invariants

\* The inductive invariant holds: who owns the mutex, what a woken launcher
\* may rely on, where each index is and how the free ones are linked.
THEOREM SpecIInv == Spec => []IInv
BY InitIInv, NextIInv, PTL DEF Spec

\* A launcher is woken with an index there for it, whatever the number of
\* missiles and of launchers: the asserts of get_next_index, of
\* request_def_index and of update_queue_head hold.
THEOREM SpecWokenFindsIndex == Spec => []WokenFindsIndex
<1>1. IInv => WokenFindsIndex
  BY DEF IInv, Types, Wakeups, ReadWake, WriteWake, WokenFindsIndex
<1> QED
  BY <1>1, SpecIInv, PTL

\* No wakeup is lost: while the mutex is free nobody is blocked on a queue
\* that has an index for it.
THEOREM SpecNoLostWakeup == Spec => []NoLostWakeup
<1>1. IInv => NoLostWakeup
  <2> SUFFICES ASSUME IInv, mutex = 1 PROVE NoLostWakeup
    BY DEF NoLostWakeup
  <2>1. ~ ReadWake /\ ~ WriteWake
    BY FreeMutex
  <2> QED
    BY <2>1 DEF IInv, Wakeups, NoLostWakeup
<1> QED
  BY <1>1, SpecIInv, PTL

\* The set of the only element that has a property, or of none.
LEMMA AtMostOne ==
  ASSUME NEW S, \A x, y \in S : x = y
  PROVE  Cardinality(S) = IF S = {} THEN 0 ELSE 1
<1>1. CASE S = {}
  BY <1>1, FS_EmptySet
<1>2. CASE S # {}
  <2>1. PICK x \in S : S = {x}
    BY <1>2
  <2> QED
    BY <2>1, FS_Singleton
<1> QED
  BY <1>1, <1>2

\* The mutex has exactly one owner: nobody, a task, a missile, or the
\* launcher the mutex was handed to with a private semaphore.
THEOREM SpecOneOwner == Spec => []OneOwner
<1>1. IInv => OneOwner
  <2> SUFFICES ASSUME IInv PROVE OneOwner
    OBVIOUS
  <2> DEFINE tasks == {t \in Task : Owns(t)}
             missiles == {i \in Index : Splices(i)}
  <2>1. {mutex, readSem, writeSem} \subseteq {0, 1} /\ Baton
    BY DEF IInv, Types
  <2>2. /\ Cardinality(tasks) = IF tasks = {} THEN 0 ELSE 1
        /\ Cardinality(missiles) = IF missiles = {} THEN 0 ELSE 1
    BY <2>1, AtMostOne DEF Baton
  <2>3. Cardinality(tasks) + Cardinality(missiles) + mutex + readSem + writeSem = 1
    <3>1. CASE tasks # {}
      <4>1. missiles = {} /\ mutex = 0 /\ readSem = 0 /\ writeSem = 0
        BY <2>1, <3>1 DEF Baton
      <4> QED
        BY <2>2, <3>1, <4>1
    <3>2. CASE missiles # {}
      <4>1. tasks = {} /\ mutex = 0 /\ readSem = 0 /\ writeSem = 0
        BY <2>1, <3>2 DEF Baton
      <4> QED
        BY <2>2, <3>2, <4>1
    <3>3. CASE tasks = {} /\ missiles = {}
      <4>1. mutex + readSem + writeSem = 1
        BY <2>1, <3>3 DEF Baton
      <4> HIDE DEF tasks, missiles
      <4> QED
        BY <2>1, <2>2, <3>3, <4>1
    <3> QED
      BY <3>1, <3>2, <3>3
  <2> QED
    BY <2>3 DEF OneOwner, Owns, Splices
<1> QED
  BY <1>1, SpecIInv, PTL

\* No index is lost or in two places: each one is on the free list, is the
\* accepted one, is held by exactly one launcher or is used by a missile.
THEOREM SpecConserved == Spec => []Conserved
<1>1. IInv => Conserved
  <2> SUFFICES ASSUME IInv, NEW i \in Index
               PROVE  LET launchers == {t \in Launcher : held[t] = i}
                          places == {p \in {"free", "ready", "flying"} :
                                       \/ p = "free" /\ i \in Chain(freeIndex)
                                       \/ p = "ready" /\ i \in Chain(headIndex)
                                       \/ p = "flying" /\ i \in Flying}
                      IN  Cardinality(launchers) + Cardinality(places) = 1
    BY DEF Conserved
  <2> DEFINE launchers == {t \in Launcher : held[t] = i}
             places == {p \in {"free", "ready", "flying"} :
                          \/ p = "free" /\ i \in Free
                          \/ p = "ready" /\ i \in Ready
                          \/ p = "flying" /\ i \in Flying}
  <2>1. i # NONE
    BY FifoQueueAssumption DEF Index, NONE
  <2>2. Chain(freeIndex) = Free /\ Chain(headIndex) = Ready
    <3>1. CASE headIndex = NONE
      BY <3>1, ReachNone DEF IInv, Links, Chain, Ready
    <3>2. CASE headIndex # NONE
      <4>1. headIndex \in Index /\ next[headIndex] = NONE
        BY <3>2 DEF IInv, Types, Links
      <4>2. Reach(headIndex, next) = {headIndex}
        BY <4>1, ReachUnfold, ReachNone DEF IInv, Types
      <4> QED
        BY <3>2, <4>2 DEF IInv, Links, Chain, Ready
    <3> QED
      BY <3>1, <3>2
  <2>3. i \in Given <=> launchers # {}
    BY <2>1 DEF Given
  <2>4. Cardinality(launchers) = IF launchers = {} THEN 0 ELSE 1
    <3>1. \A t, u \in launchers : t = u
      BY <2>1 DEF IInv, Places
    <3> QED
      BY <3>1, AtMostOne
  <2>5. Cardinality(places) = IF places = {} THEN 0 ELSE 1
    <3>1. \A p, q \in places : p = q
      BY DEF IInv, Places, Free
    <3> QED
      BY <3>1, AtMostOne
  <2>6. places = {} <=> i \in Given
    BY DEF IInv, Places, Free
  <2>7. Cardinality(launchers) + Cardinality(places) = 1
    <3> HIDE DEF launchers, places
    <3> QED
      BY <2>3, <2>4, <2>5, <2>6
  <2> QED
    BY <2>2, <2>7
<1> QED
  BY <1>1, SpecIInv, PTL

-----------------------------------------------------------------------------
\* The refinement

LEMMA InitPool == Init => Pool!PoolInit
BY DEF Init, Pool!PoolInit, Ready, Given, Flying

LEMMA NextPool == IInv /\ [Next]_vars => [Pool!PoolNext]_(Pool!poolVars)
<1> SUFFICES ASSUME IInv, [Next]_vars PROVE [Pool!PoolNext]_(Pool!poolVars)
  OBVIOUS
<1> DEFINE Stays == Ready' = Ready /\ Given' = Given /\ Flying' = Flying /\ Free' = Free
<1> USE DEF Go, lists
<1>1. Stays => [Pool!PoolNext]_(Pool!poolVars)
  BY DEF Pool!poolVars, Free
<1>2. UNCHANGED <<headIndex, held, thread>> => Stays
  BY MoveNone DEF Flying
<1> HIDE DEF Stays
<1>3. ASSUME NEW m \in Main,
             PressSpace(m) \/ RequestRefused(m) \/ Refuse(m) \/ WakeReader(m)
      PROVE  Stays
  BY <1>3, <1>2 DEF PressSpace, RequestRefused, Refuse, WakeReader
<1>4. ASSUME NEW m \in Main, RequestAccepted(m)
      PROVE  freeIndex \in Index /\ Pool!Accept(freeIndex)
  BY <1>4, MoveAccept DEF Pool!Accept, Free
<1>5. ASSUME NEW t \in Launcher, GetNextIndex(t)
      PROVE  Stays \/ (headIndex \in Index /\ Pool!Give(headIndex))
  <2>1. CASE headIndex = NONE
    BY <1>5, <2>1, <1>2 DEF GetNextIndex
  <2>2. CASE headIndex # NONE
    <3>1. held[t] = NONE /\ PopHead(t) /\ UNCHANGED thread
      BY <1>5, <2>2 DEF GetNextIndex, IInv, Places
    <3>2. headIndex \notin Free
      BY <2>2 DEF Free, Ready
    <3> QED
      BY <3>1, <3>2, MovePopHead DEF Pool!Give, Free
  <2> QED
    BY <2>1, <2>2
<1>6. ASSUME NEW t \in Launcher, GetWoken(t)
      PROVE  headIndex \in Index /\ Pool!Give(headIndex)
  <2>1. held[t] = NONE /\ PopHead(t) /\ UNCHANGED thread
    BY <1>6 DEF GetWoken, IInv, Places
  <2>2. headIndex \notin Free
    BY <2>1 DEF PopHead, Free, Ready
  <2> QED
    BY <2>1, <2>2, MovePopHead DEF Pool!Give, Free
<1>7. ASSUME NEW t \in Launcher, RequestEmpty(t) PROVE Stays
  BY <1>7, <1>2 DEF RequestEmpty
<1>8. ASSUME NEW t \in Launcher, RequestReady(t) \/ RequestWoken(t)
      PROVE  freeIndex \in Index /\ Pool!Give(freeIndex)
  <2>1. held[t] = NONE /\ PopFree(t) /\ UNCHANGED thread
    BY <1>8 DEF RequestReady, RequestWoken, IInv, Places
  <2>2. freeIndex \in Free => freeIndex \notin Ready
    BY DEF Free
  <2> QED
    BY <2>1, <2>2, MovePopFree DEF Pool!Give, Free
<1>9. ASSUME NEW t \in Launcher, Block(t) \/ Leave(t) \/ LoopAgain(t) \/ LoopEnds(t)
      PROVE  Stays
  BY <1>9, <1>2 DEF Block, Leave, LoopAgain, LoopEnds
<1>10. ASSUME NEW t \in Launcher, Launch(t)
       PROVE  held[t] \in Index /\ Pool!Launch(held[t])
  <2>1. held[t] \in Index
    BY <1>10, LaunchUnused
  <2> QED
    BY <1>10, <2>1, MoveLaunch DEF Pool!Launch, Free
<1>11. ASSUME NEW i \in Index, Collided(i) PROVE Stays
  <2>1. Flying' = Flying
    BY <1>11 DEF Collided, Fly, Flying, IInv, Types
  <2> QED
    BY <1>11, <2>1, MoveNone DEF Collided, Stays
<1>12. ASSUME NEW i \in Index, ClearMissile(i) PROVE Pool!Return(i)
  BY <1>12, MoveReturn DEF Pool!Return, Free
<1>13. ASSUME NEW i \in Index, WakeWriter(i) \/ PostSpliced(i) PROVE Stays
  <2>1. Flying' = Flying
    BY <1>13 DEF WakeWriter, PostSpliced, Fly, Flying, IInv, Types
  <2> QED
    BY <1>13, <2>1, MoveNone DEF WakeWriter, PostSpliced, Stays
<1>14. CASE PressEsc \/ UNCHANGED vars
  BY <1>14, <1>1, <1>2 DEF PressEsc, vars
<1> QED
  BY <1>1, <1>3, <1>4, <1>5, <1>6, <1>7, <1>8, <1>9, <1>10, <1>11, <1>12, <1>13, <1>14
  DEF Next, MainStep, LauncherStep, ThreadStep, Pool!PoolNext

\* The two lists, threaded through one array, implement the pool of indexes:
\* every step of the queue takes, launches or returns one index as the pool
\* allows, or changes no index's place.
THEOREM SpecImplementsPool == Spec => ImplementsPool
<1>1. Init => Pool!PoolInit
  BY InitPool
<1>2. IInv /\ [Next]_vars => [Pool!PoolNext]_(Pool!poolVars)
  BY NextPool
<1> QED
  BY <1>1, <1>2, SpecIInv, PTL DEF Spec, ImplementsPool, Pool!PoolSpec

-----------------------------------------------------------------------------
\* The types

\* The launchers that blk counts, in one of the two semaphores.
Waiting(S) == {t \in S : pc[t] \in {"queueing", "blocked"}}

Counts ==
  /\ readBlk = Cardinality(Waiting(AtkLauncher))
  /\ writeBlk = Cardinality(Waiting(DefLauncher))

\* A launcher starts to wait.
LEMMA WaitingAdd ==
  ASSUME NEW S, IsFiniteSet(S), S \subseteq Task, pc \in [Task -> PC],
         NEW t \in S, pc[t] = "wait", pc' = [pc EXCEPT ![t] = "queueing"]
  PROVE  Cardinality(Waiting(S)') = Cardinality(Waiting(S)) + 1
<1>1. Waiting(S)' = Waiting(S) \cup {t} /\ t \notin Waiting(S)
  BY DEF Waiting
<1>2. IsFiniteSet(Waiting(S))
  BY FS_Subset DEF Waiting
<1> QED
  BY <1>1, <1>2, FS_AddElement

\* A launcher is woken.
LEMMA WaitingRemove ==
  ASSUME NEW S, IsFiniteSet(S), S \subseteq Task, pc \in [Task -> PC],
         NEW t \in S, pc[t] = "blocked", pc' = [pc EXCEPT ![t] = "got"]
  PROVE  Cardinality(Waiting(S)') = Cardinality(Waiting(S)) - 1
<1>1. Waiting(S)' = Waiting(S) \ {t} /\ t \in Waiting(S)
  BY DEF Waiting
<1>2. IsFiniteSet(Waiting(S))
  BY FS_Subset DEF Waiting
<1>3. Cardinality(Waiting(S) \ {t}) = Cardinality(Waiting(S)) - 1
  BY <1>1, <1>2, FS_RemoveElement
<1> QED
  BY <1>1, <1>3

\* A step of any other task, or of this one outside of the wait.
LEMMA WaitingSame ==
  ASSUME NEW S, S \subseteq Task, pc \in [Task -> PC],
         \A t \in S : pc'[t] \in {"queueing", "blocked"} <=> pc[t] \in {"queueing", "blocked"}
  PROVE  Waiting(S)' = Waiting(S)
BY DEF Waiting

LEMMA FiniteLaunchers ==
  /\ IsFiniteSet(AtkLauncher) /\ AtkLauncher \subseteq Task
  /\ IsFiniteSet(DefLauncher) /\ DefLauncher \subseteq Task
  /\ Main \cap AtkLauncher = {} /\ Main \cap DefLauncher = {}
  /\ AtkLauncher \cap DefLauncher = {}
  /\ Launcher \subseteq Task
BY FifoQueueAssumption, FS_Subset DEF Task, Launcher

LEMMA InitCounts == Init => Counts
<1> SUFFICES ASSUME Init PROVE Counts
  OBVIOUS
<1>1. Waiting(AtkLauncher) = {} /\ Waiting(DefLauncher) = {}
  BY FiniteLaunchers DEF Init, Waiting
<1> QED
  BY <1>1, FS_EmptySet DEF Init, Counts

LEMMA CountsStep == Types /\ Counts /\ [Next]_vars => Counts'
<1> SUFFICES ASSUME Types, Counts, [Next]_vars PROVE Counts'
  OBVIOUS
<1>1. pc \in [Task -> PC] /\ Counts
  BY DEF Types
<1> USE <1>1, FiniteLaunchers DEF Go, Fly
\* Steps in which nobody starts or ends to wait.
<1>2. ASSUME UNCHANGED <<readBlk, writeBlk>>,
             \A t \in Launcher :
               pc'[t] \in {"queueing", "blocked"} <=> pc[t] \in {"queueing", "blocked"}
      PROVE  Counts'
  <2>1. Waiting(AtkLauncher)' = Waiting(AtkLauncher)
    BY <1>2, WaitingSame DEF Launcher
  <2>2. Waiting(DefLauncher)' = Waiting(DefLauncher)
    BY <1>2, WaitingSame DEF Launcher
  <2> QED
    BY <1>2, <2>1, <2>2 DEF Counts
\* Steps that change pc of one launcher, of one kind.
<1>3. ASSUME NEW t \in AtkLauncher, NEW to, pc' = [pc EXCEPT ![t] = to]
      PROVE  Cardinality(Waiting(DefLauncher)') = Cardinality(Waiting(DefLauncher))
  <2>1. \A u \in DefLauncher : pc'[u] = pc[u]
    BY <1>3
  <2> QED
    BY <2>1, WaitingSame
<1>4. ASSUME NEW t \in DefLauncher, NEW to, pc' = [pc EXCEPT ![t] = to]
       PROVE  Cardinality(Waiting(AtkLauncher)') = Cardinality(Waiting(AtkLauncher))
  <2>1. \A u \in AtkLauncher : pc'[u] = pc[u]
    BY <1>4
  <2> QED
    BY <2>1, WaitingSame
<1>5. ASSUME NEW m \in Main,
             PressSpace(m) \/ RequestRefused(m) \/ Refuse(m) \/ RequestAccepted(m) \/ WakeReader(m)
      PROVE  Counts'
  BY <1>5, <1>2 DEF PressSpace, RequestRefused, Refuse, RequestAccepted, WakeReader,
                    reading, writing, Launcher
<1>6. ASSUME NEW t \in AtkLauncher, GetNextIndex(t) PROVE Counts'
  <2>1. CASE headIndex = NONE
    <3>1. pc[t] = "wait" /\ pc' = [pc EXCEPT ![t] = "queueing"]
      BY <1>6, <2>1 DEF GetNextIndex
    <3>2. readBlk' = readBlk + 1 /\ writeBlk' = writeBlk
      BY <1>6, <2>1 DEF GetNextIndex, writing
    <3>3. Cardinality(Waiting(AtkLauncher)') = Cardinality(Waiting(AtkLauncher)) + 1
      BY <3>1, WaitingAdd
    <3>4. Cardinality(Waiting(DefLauncher)') = Cardinality(Waiting(DefLauncher))
      BY <3>1, <1>3
    <3> QED
      BY <3>2, <3>3, <3>4 DEF Counts
  <2>2. CASE headIndex # NONE
    BY <1>6, <2>2, <1>2 DEF GetNextIndex, writing, Launcher
  <2> QED
    BY <2>1, <2>2
<1>7. ASSUME NEW t \in AtkLauncher, GetWoken(t) PROVE Counts'
  <2>1. /\ pc[t] = "blocked" /\ pc' = [pc EXCEPT ![t] = "got"]
        /\ readBlk' = readBlk - 1 /\ writeBlk' = writeBlk
    BY <1>7 DEF GetWoken, writing
  <2>2. Cardinality(Waiting(AtkLauncher)') = Cardinality(Waiting(AtkLauncher)) - 1
    BY <2>1, WaitingRemove
  <2>3. Cardinality(Waiting(DefLauncher)') = Cardinality(Waiting(DefLauncher))
    BY <2>1, <1>3
  <2> QED
    BY <2>1, <2>2, <2>3 DEF Counts
<1>8. ASSUME NEW t \in DefLauncher, RequestEmpty(t) PROVE Counts'
  <2>1. /\ pc[t] = "wait" /\ pc' = [pc EXCEPT ![t] = "queueing"]
        /\ writeBlk' = writeBlk + 1 /\ readBlk' = readBlk
    BY <1>8 DEF RequestEmpty, reading
  <2>2. Cardinality(Waiting(DefLauncher)') = Cardinality(Waiting(DefLauncher)) + 1
    BY <2>1, WaitingAdd
  <2>3. Cardinality(Waiting(AtkLauncher)') = Cardinality(Waiting(AtkLauncher))
    BY <2>1, <1>4
  <2> QED
    BY <2>1, <2>2, <2>3 DEF Counts
<1>9. ASSUME NEW t \in DefLauncher, RequestReady(t) PROVE Counts'
  BY <1>9, <1>2 DEF RequestReady, reading, writing
<1>10. ASSUME NEW t \in DefLauncher, RequestWoken(t) PROVE Counts'
  <2>1. /\ pc[t] = "blocked" /\ pc' = [pc EXCEPT ![t] = "got"]
        /\ writeBlk' = writeBlk - 1 /\ readBlk' = readBlk
    BY <1>10 DEF RequestWoken, reading
  <2>2. Cardinality(Waiting(DefLauncher)') = Cardinality(Waiting(DefLauncher)) - 1
    BY <2>1, WaitingRemove
  <2>3. Cardinality(Waiting(AtkLauncher)') = Cardinality(Waiting(AtkLauncher))
    BY <2>1, <1>4
  <2> QED
    BY <2>1, <2>2, <2>3 DEF Counts
<1>11. ASSUME NEW t \in Launcher,
              Block(t) \/ Leave(t) \/ LoopAgain(t) \/ LoopEnds(t) \/ Launch(t)
       PROVE  Counts'
  <2>1. /\ UNCHANGED <<reading, writing>>
        /\ \E from, to : Go(t, from, to) /\ (from = "queueing" <=> to = "blocked")
                        /\ from # "blocked" /\ to # "queueing"
    BY <1>11 DEF Block, Leave, LoopAgain, LoopEnds, Launch
  <2> QED
    BY <2>1, <1>2 DEF reading, writing
<1>12. ASSUME NEW i \in Index,
              Collided(i) \/ ClearMissile(i) \/ WakeWriter(i) \/ PostSpliced(i)
       PROVE  Counts'
  BY <1>12, <1>2 DEF Collided, ClearMissile, WakeWriter, PostSpliced, reading, writing
<1>13. CASE PressEsc \/ UNCHANGED vars
  BY <1>13, <1>2 DEF PressEsc, vars, reading, writing
<1> QED
  BY <1>5, <1>6, <1>7, <1>8, <1>9, <1>10, <1>11, <1>12, <1>13
  DEF Next, MainStep, LauncherStep, ThreadStep, Launcher

\* The variables stay in their ranges; above all blk, that sem_wait and its
\* return change in two different steps, never exceeds the launchers there
\* are, and the two private semaphores are binary.
THEOREM SpecTypeOK == Spec => []TypeOK
<1>1. IInv /\ Counts => TypeOK
  <2> SUFFICES ASSUME IInv, Counts PROVE TypeOK
    OBVIOUS
  <2>1. /\ Cardinality(Waiting(AtkLauncher)) \in 0 .. Cardinality(AtkLauncher)
        /\ Cardinality(Waiting(DefLauncher)) \in 0 .. Cardinality(DefLauncher)
    <3> DEFINE A == Waiting(AtkLauncher)
               D == Waiting(DefLauncher)
    <3>1. A \subseteq AtkLauncher /\ D \subseteq DefLauncher
      BY DEF Waiting
    <3> HIDE DEF A, D
    <3>2. /\ Cardinality(A) <= Cardinality(AtkLauncher)
          /\ Cardinality(D) <= Cardinality(DefLauncher)
          /\ IsFiniteSet(A) /\ IsFiniteSet(D)
      BY <3>1, FiniteLaunchers, FS_Subset
    <3>3. /\ Cardinality(A) \in Nat /\ Cardinality(AtkLauncher) \in Nat
          /\ Cardinality(D) \in Nat /\ Cardinality(DefLauncher) \in Nat
      BY <3>2, FiniteLaunchers, FS_CardinalityType
    <3> QED
      BY <3>2, <3>3 DEF A, D
  <2> QED
    BY <2>1 DEF IInv, Types, Counts, TypeOK
<1>2. IInv /\ Counts /\ [Next]_vars => Counts'
  BY CountsStep DEF IInv
<1> QED
  BY <1>1, <1>2, InitCounts, SpecIInv, PTL DEF Spec
=============================================================================
