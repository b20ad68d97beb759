------------------------------- MODULE EnvLock -------------------------------
(***************************************************************************)
(* What the environment monitor of gestor.c promises to the tasks that     *)
(* share "env": a task that asked for the environment waits, at most one   *)
(* task has it, and only a waiting task is let in.  Which waiting task is  *)
(* let in, and how the semaphores arrange it, is left to EnvAccess.        *)
(***************************************************************************)
CONSTANT Task        \* the tasks that call access_env / release_env

VARIABLES waiting,   \* tasks inside access_env, not let in yet
          user       \* tasks between access_env and release_env

lockVars == <<waiting, user>>

LockInit == waiting = {} /\ user = {}

Ask(t) ==
  /\ t \notin waiting \cup user
  /\ waiting' = waiting \cup {t}
  /\ UNCHANGED user

LetIn(t) ==
  /\ user = {}
  /\ t \in waiting
  /\ waiting' = waiting \ {t}
  /\ user' = {t}

GiveBack(t) ==
  /\ t \in user
  /\ user' = user \ {t}
  /\ UNCHANGED waiting

LockNext == \E t \in Task : Ask(t) \/ LetIn(t) \/ GiveBack(t)

LockSpec == LockInit /\ [][LockNext]_lockVars
=============================================================================
