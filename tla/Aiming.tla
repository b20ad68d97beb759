-------------------------------- MODULE Aiming -------------------------------
(***************************************************************************)
(* How a defender finds the column in which it meets its attacker          *)
(* (collect_positions and get_expected_position_x in launchers.c), with    *)
(* the times and the sizes of the program: one attacker that nothing       *)
(* disturbs, and the defenders launched at it one after the other.         *)
(*                                                                         *)
(* Times are in ms, positions of moving missiles in hundredths of a pixel, *)
(* so that a speed of v pixels per second is v hundredths in the           *)
(* attacker's period of 10 ms.  Tasks are activated exactly at their       *)
(* periods, and the clock is exact; which task goes first when two are     *)
(* activated together is open.                                             *)
(***************************************************************************)
EXTENDS Integers

CONSTANTS
  Velocity,  \* the attacker's speed and angle, as <<vx, vy>> in pixels/s
  StartX,    \* the columns in which it may start
  Delay      \* ms until the launcher has found it and started a defender

XWIN == 640
WALL_THICKNESS == 2
GOAL_START_Y == 384
MISSILE_RADIUS == 5
MIN_ATK_SPEED == 30
MAX_ATK_SPEED == 100
ATK_MISSILE_PERIOD == 10
DEF_MISSILE_PERIOD == 15
DEF_MISSILE_START_Y == GOAL_START_Y - MISSILE_RADIUS - 1
DEF_MISSILE_SPEED == 130
TRAJECTORY_PRECISION == 50
SAMPLE_LIMIT == 2 * TRAJECTORY_PRECISION
MIN_SAMPLES == SAMPLE_LIMIT \div 5

\* The angle is between 30 and 150 degrees: vy is at least half the speed.
ASSUME AimingAssumption ==
  /\ \A v \in Velocity :
       LET vv == v[1] * v[1] + v[2] * v[2]
       IN  /\ v \in Int \X Nat /\ 4 * v[2] * v[2] >= vv
           /\ MIN_ATK_SPEED * MIN_ATK_SPEED <= vv
           /\ vv <= MAX_ATK_SPEED * MAX_ATK_SPEED
  /\ StartX \subseteq 0 .. XWIN
  /\ Delay \subseteq Nat \ {0}

VARIABLES
  vel, atk,        \* the attacker: speed, partial_x and partial_y
  outcome,         \* "flying", or how its flight ended
  phase,           \* the defender: "wait" (none yet), "sample", "fly"
  def,             \* <<x in pixels, partial_y>>
  i, pos_a, pos_b, \* of collect_positions
  last,            \* pos_b of the sample before
  atk_due, def_due \* ms to the next activation of the two threads

defender == <<phase, def, i, pos_a, pos_b, last>>
vars == <<vel, atk, outcome, defender, atk_due, def_due>>

Init ==
  /\ vel \in Velocity
  /\ atk \in {<<100 * x, 100 * (WALL_THICKNESS + MISSILE_RADIUS + 1)>> : x \in StartX}
  /\ outcome = "flying"
  /\ phase = "wait"
  /\ def = <<0, 0>>
  /\ i = 0
  /\ pos_a = <<0, 0>> /\ pos_b = <<0, 0>> /\ last = <<0, 0>>
  /\ atk_due = 0
  /\ def_due \in Delay

Abs(z) == IF z < 0 THEN -z ELSE z

\* The cell of a position: a conversion to int truncates.
Cell(p) ==
  LET int(z) == IF z < 0 THEN -((-z) \div 100) ELSE z \div 100
  IN  <<int(p[1]), int(p[2])>>
DefCell == <<def[1], def[2] \div 100>>

\* collision_around: the cells a missile at c looks at.
InBox(d, c) ==
  \A a \in 1 .. 2 : d[a] \in c[a] - MISSILE_RADIUS .. c[a] + MISSILE_RADIUS - 1

AtLeftWall(c) == c[1] - MISSILE_RADIUS < WALL_THICKNESS
AtRightWall(c) == XWIN - (c[1] + MISSILE_RADIUS - 1) < WALL_THICKNESS
AtTopWall(c) == c[2] - MISSILE_RADIUS < WALL_THICKNESS
AtGoal(c) == c[2] + MISSILE_RADIUS - 1 > GOAL_START_Y

\* What an attacker in the cell c hits: the first obstacle, by columns from the
\* left.  A defender has a cell once it has moved.
Hits(c) ==
  LET met == phase = "fly" /\ def[2] < 100 * DEF_MISSILE_START_Y /\ InBox(DefCell, c)
  IN  CASE AtLeftWall(c) -> "wall"
        [] ~ AtLeftWall(c) /\ met /\ (AtGoal(c) => def[1] = c[1] - MISSILE_RADIUS)
             -> "defender"
        [] ~ AtLeftWall(c) /\ AtGoal(c) /\ ~ (met /\ def[1] = c[1] - MISSILE_RADIUS)
             -> "goal"
        [] ~ AtLeftWall(c) /\ ~ AtGoal(c) /\ ~ met /\ AtRightWall(c) -> "wall"
        [] OTHER -> "flying"

\* A period of the attacker.
AtkStep ==
  /\ outcome = "flying"
  /\ atk_due <= def_due
  /\ def_due' = def_due - atk_due
  /\ atk_due' = ATK_MISSILE_PERIOD
  /\ atk' = <<atk[1] + vel[1], atk[2] + vel[2]>>
  /\ outcome' = Hits(Cell(atk'))
  /\ UNCHANGED <<vel, defender>>

\* The next activation of the defender's thread.
DefDue ==
  /\ outcome = "flying"
  /\ def_due <= atk_due
  /\ atk_due' = atk_due - def_due

-----------------------------------------------------------------------------
\* collect_positions

Distance2(p, q) == (q[1] - p[1]) * (q[1] - p[1]) + (q[2] - p[2]) * (q[2] - p[2])

\* The condition of the loop after n iterations, the last of which found b.
\* EPSILON is 1 / TRAJECTORY_PRECISION in int, so 0: the average speed since
\* pos_a must be exactly what it was one sample before.  The samples are
\* n - 1 and n - 2 periods after pos_a.
SampleAgain(n, b) ==
  /\ n < SAMPLE_LIMIT
  /\ \/ n < MIN_SAMPLES
     \/ b = pos_a
     \/ Distance2(pos_a, b) * (n - 2) * (n - 2)
          # Distance2(pos_a, pos_b) * (n - 1) * (n - 1)

-----------------------------------------------------------------------------
\* get_start_x_position

\* tmp_dsa - dsa has the sign of this difference, for the point of column
\* x / 100 of the line through a and b, which were sampled k periods apart.
\* The factor sqrt(1 + m^2), common to both, is left out.
Late(x, a, b, k) ==
  LET dx == b[1] - a[1]
      dy == b[2] - a[2]
      far == x - 100 * b[1]
  IN  100 * Abs(100 * dx * (DEF_MISSILE_START_Y - b[2]) - dy * far)
        - ((DEF_MISSILE_SPEED * DEF_MISSILE_PERIOD) \div 10) * k * Abs(far)

\* Faulty variant: the limit is the border of the window.
RightLimitAtBorder == XWIN - 1

LeftLimit == WALL_THICKNESS + MISSILE_RADIUS + 1
RightLimit == XWIN - WALL_THICKNESS - MISSILE_RADIUS - 1

\* The sign of the angular coefficient m.
MovesLeft(a, b) == (b[1] - a[1]) * (b[2] - a[2]) < 0

\* Faulty variant: the bisection is the same on both sides.
UpperHalfSame(late, left) == late > 0

\* Whether x_min (rather than x_max) becomes x.
UpperHalf(late, left) == (late > 0) # left

\* An iteration of get_expected_position_x on the interval r, whose ends are
\* x_min and x_max.  The search ends at a hundredth of a pixel.
Halve(r, a, b, k) ==
  LET x == (r[1] + r[2]) \div 2
      late == Late(x, a, b, k)
  IN  IF Abs(r[2] - r[1]) <= 1 THEN r
      ELSE IF late = 0 THEN <<x, x>>
      ELSE IF UpperHalf(late, MovesLeft(a, b)) THEN <<x, r[2]>> ELSE <<r[1], x>>

\* When there is no meeting before the limit, the floats of the code close on
\* the limit itself: hence the hundredth more on the right, where x is rounded
\* down.  A target that is already past the limit turns the interval round.
Window(a, b) ==
  IF MovesLeft(a, b) THEN <<100 * LeftLimit, 100 * b[1]>>
                     ELSE <<100 * b[1], 100 * RightLimit + 1>>

\* The code halves the interval up to SAMPLE_LIMIT times in float; 20 halvings
\* are enough for a hundredth of a pixel.
Bisect(a, b, k) ==
  LET bisect[n \in 0 .. 20] ==
        IF n = 0 THEN Window(a, b) ELSE Halve(bisect[n - 1], a, b, k)
  IN  (bisect[20][1] + bisect[20][2]) \div 200

\* Faulty variant: the defender climbs where it saw its target last.
StartBelow(a, b, k) == b[1]

StartPosition(a, b, k) == IF a[1] = b[1] THEN a[1] ELSE Bisect(a, b, k)

-----------------------------------------------------------------------------
\* The defender is launched and takes its first two scans at once.
FirstSample ==
  /\ phase = "wait"
  /\ DefDue
  /\ def_due' = DEF_MISSILE_PERIOD
  /\ phase' = "sample"
  /\ i' = 1
  /\ pos_a' = Cell(atk)
  /\ pos_b' = Cell(atk)
  /\ last' = Cell(atk)
  /\ UNCHANGED <<vel, atk, outcome, def>>

\* An iteration of collect_positions, and after the last one the start.
Sample ==
  /\ phase = "sample"
  /\ DefDue
  /\ def_due' = DEF_MISSILE_PERIOD
  /\ i' = i + 1
  /\ last' = pos_b
  /\ pos_b' = Cell(atk)
  /\ IF SampleAgain(i + 1, Cell(atk))
       THEN UNCHANGED <<phase, def>>
       ELSE /\ phase' = "fly"
            /\ def' = <<StartPosition(pos_a, Cell(atk), i), 100 * DEF_MISSILE_START_Y>>
  /\ UNCHANGED <<vel, atk, outcome, pos_a>>

\* A period of the defender's flight.  After a miss it ends in the wall, its
\* target counts as untracked, and the launcher finds it again.  Left out: the
\* first step empties the cell it starts from; an attacker right there is then
\* not found by this step, but finds the defender in its own next period.
DefStep ==
  /\ phase = "fly"
  /\ DefDue
  /\ def' = <<def[1], def[2] - (DEF_MISSILE_SPEED * DEF_MISSILE_PERIOD) \div 10>>
  /\ LET c == DefCell'
         wall == AtLeftWall(c) \/ AtRightWall(c) \/ AtTopWall(c)
     IN  \/ /\ wall
            /\ phase' = "wait" /\ outcome' = outcome
            /\ def_due' \in Delay
         \/ /\ ~ wall
            /\ phase' = phase
            /\ outcome' = IF InBox(Cell(atk), c) THEN "defender" ELSE outcome
            /\ def_due' = DEF_MISSILE_PERIOD
  /\ UNCHANGED <<vel, atk, i, pos_a, pos_b, last>>

Next == AtkStep \/ FirstSample \/ Sample \/ DefStep

Spec == Init /\ [][Next]_vars

-----------------------------------------------------------------------------
Columns == 0 .. XWIN - 1

\* The variables stay in their ranges; in particular every start is inside
\* the walls, whatever was sampled.
TypeOK ==
  /\ outcome \in {"flying", "goal", "wall", "defender"}
  /\ phase \in {"wait", "sample", "fly"}
  /\ i \in 0 .. SAMPLE_LIMIT
  /\ {Cell(atk)[1], pos_a[1], pos_b[1], last[1]} \subseteq Columns
  /\ phase = "fly" => ~ AtLeftWall(DefCell) /\ ~ AtRightWall(DefCell)
  /\ atk_due \in 0 .. ATK_MISSILE_PERIOD
  /\ def_due \in 0 .. DEF_MISSILE_PERIOD \/ phase = "wait"

\* An attacker that nothing disturbs never reaches the goal: a defender
\* intercepts it before, if need be after others have missed.
Intercepts == outcome # "goal"

\* A defender that took all its samples meets its target: the rounding of the
\* positions to cells, the truncated start and the different periods cost
\* less than the size of a missile.
FullSamplingHits ==
  [][phase = "fly" /\ phase' = "wait" => i < SAMPLE_LIMIT]_vars

\* And if its target was still above the defenders' first rows when the samples
\* ended, it keeps the target from the goal.  Unlike Intercepts, this leaves no
\* room for further tries, and it does not depend on the delay.
FullSamplingSaves ==
  phase = "fly" /\ i = SAMPLE_LIMIT
    /\ pos_b[2] < DEF_MISSILE_START_Y - MISSILE_RADIUS - 1
    => outcome # "goal"

\* The bisection converges to the one column where defender and target meet:
\* before it on the target's way the defender would come too late, beyond it
\* too early.
BisectionFindsIntercept ==
  phase = "fly" /\ pos_a[1] # pos_b[1] =>
    \A x \in IF MovesLeft(pos_a, pos_b) THEN LeftLimit .. pos_b[1]
                                        ELSE pos_b[1] .. RightLimit :
      LET late == Late(100 * x, pos_a, pos_b, i - 1)
          near == IF MovesLeft(pos_a, pos_b) THEN x > def[1] ELSE x < def[1]
          beyond == IF MovesLeft(pos_a, pos_b) THEN x < def[1] ELSE x > def[1]
      IN  (near => late >= 0) /\ (beyond => late <= 0)

\* The samples stop when they are precise: once two measured speeds differ by
\* at most 1 / TRAJECTORY_PRECISION, no further one is taken.  (Said for an
\* attacker that falls straight down, whose speed is a rational number.)
StopsWhenPrecise ==
  phase = "sample" /\ i >= MIN_SAMPLES /\ pos_a[1] = pos_b[1] =>
    LET fallen == pos_b[2] - pos_a[2]
        before == last[2] - pos_a[2]
    IN  Abs(fallen * (i - 2) - before * (i - 1)) * 1000 * TRAJECTORY_PRECISION
          > DEF_MISSILE_PERIOD * (i - 1) * (i - 2)
=============================================================================
