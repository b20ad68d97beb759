------------------------------ MODULE IndexPool ------------------------------
(***************************************************************************)
(* What a missile queue of launchers.c promises: a pool of N indexes, each *)
(* free, accepted for a launch, given to a launcher or flying, and never   *)
(* two of these.  At most one accepted launch is waiting for the launcher. *)
(* How the indexes are chained, and which free one is taken, is left to    *)
(* FifoQueue.                                                              *)
(***************************************************************************)
CONSTANT Index

VARIABLES free,     \* may be taken
          ready,    \* accepted by request_atk_launch
          given,    \* returned to a launcher, no missile yet
          flying    \* a missile of this index exists

poolVars == <<free, ready, given, flying>>

PoolInit == free = Index /\ ready = {} /\ given = {} /\ flying = {}

Accept(i) ==
  /\ i \in free
  /\ ready = {}
  /\ free' = free \ {i}
  /\ ready' = {i}
  /\ UNCHANGED <<given, flying>>

Give(i) ==
  /\ i \in free \cup ready
  /\ free' = free \ {i}
  /\ ready' = ready \ {i}
  /\ given' = given \cup {i}
  /\ UNCHANGED flying

Launch(i) ==
  /\ i \in given
  /\ given' = given \ {i}
  /\ flying' = flying \cup {i}
  /\ UNCHANGED <<free, ready>>

Return(i) ==
  /\ i \in flying
  /\ flying' = flying \ {i}
  /\ free' = free \cup {i}
  /\ UNCHANGED <<ready, given>>

PoolNext == \E i \in Index : Accept(i) \/ Give(i) \/ Launch(i) \/ Return(i)

PoolSpec == PoolInit /\ [][PoolNext]_poolVars
=============================================================================
