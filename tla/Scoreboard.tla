------------------------------ MODULE Scoreboard ------------------------------
(***************************************************************************)
(* What the environment of gestor.c promises about the game: an attacker   *)
(* that is alive ends once, intercepted by a defender (a defender point),  *)
(* in the goal (an attacker point), or lost without a point.  How missiles *)
(* move, and how collisions are found in a grid of cells, is left to       *)
(* Battlefield.                                                            *)
(***************************************************************************)
EXTENDS Naturals

CONSTANT Attacker

VARIABLES alive,       \* attackers launched and not ended
          atk_points,
          def_points

scoreVars == <<alive, atk_points, def_points>>

ScoreInit == alive = {} /\ atk_points = 0 /\ def_points = 0

Appear(i) ==
  /\ i \notin alive
  /\ alive' = alive \cup {i}
  /\ UNCHANGED <<atk_points, def_points>>

Intercepted(i) ==
  /\ i \in alive
  /\ alive' = alive \ {i}
  /\ def_points' = def_points + 1
  /\ UNCHANGED atk_points

InGoal(i) ==
  /\ i \in alive
  /\ alive' = alive \ {i}
  /\ atk_points' = atk_points + 1
  /\ UNCHANGED def_points

\* At a wall or outside (one attacker), or against each other (two).
Lost(i, j) ==
  /\ {i, j} \subseteq alive
  /\ alive' = alive \ {i, j}
  /\ UNCHANGED <<atk_points, def_points>>

ScoreNext ==
  \E i, j \in Attacker : Appear(i) \/ Intercepted(i) \/ InGoal(i) \/ Lost(i, j)

ScoreSpec == ScoreInit /\ [][ScoreNext]_scoreVars
=============================================================================
