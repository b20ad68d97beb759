---------------------------- MODULE EnvOvertaking ----------------------------
(***************************************************************************)
(* EnvAccess with a history variable that records, for each priority with  *)
(* blocked tasks, the other priorities that were let in meanwhile.  It     *)
(* answers the question the real-time tasks of the program depend on: how  *)
(* many critical sections of the others can a blocked display manager (or  *)
(* missile, or launcher) have to sit through.                              *)
(***************************************************************************)
EXTENDS EnvAccess

VARIABLE passed  \* passed[p]: priorities let in since a task is blocked at p

ovars == <<mutex, count, blk, sem, pc, prio, passed>>

\* The priorities let in by the step.
LetIn ==
  {prio[t] : t \in {u \in Task : pc[u] # "entering" /\ pc'[u] = "entering"}}

HistInit == Init /\ passed = [p \in Prio |-> {}]

HistNext ==
  /\ Next
  /\ passed' = [p \in Prio |-> IF blk'[p] = 0 \/ p \in LetIn
                                 THEN {}
                                 ELSE passed[p] \cup LetIn]

HistSpec == HistInit /\ [][HistNext]_ovars

FairHistSpec == HistSpec /\ \A t \in Task : WF_vars(Progress(t))

\* Bounded overtaking: while a priority has blocked tasks no other priority
\* is let in twice, so a blocked priority waits for the access in progress
\* and at most ENV_PRIOS - 1 others, one of each other priority.
NoSecondPass ==
  [][\A p \in Prio : blk[p] > 0 /\ p \notin LetIn => LetIn \cap passed[p] = {}]_ovars
=============================================================================
