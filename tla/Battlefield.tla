----------------------------- MODULE Battlefield -----------------------------
(***************************************************************************)
(* The game played in the environment of gestor.c: a grid of cells shared  *)
(* by attacker and defender missiles, the collisions they find in it, the  *)
(* scores, and the defence launcher that looks for targets.  What the      *)
(* launcher sees on the screen is left open here: Display says it.         *)
(*                                                                         *)
(* What a task does between access_env and release_env is one action       *)
(* (EnvAccess implements a lock), and an index is any one that is not in   *)
(* use (FifoQueue implements a pool of indexes).  A missile moves before   *)
(* it takes the environment, but nobody else reads its position, so the    *)
(* move is part of the update.  The game is modelled up to the ESC key,    *)
(* after which main returns.                                               *)
(***************************************************************************)
EXTENDS Integers, FiniteSets

CONSTANTS
  N,                                          \* missiles of a kind
  XWIN, YWIN, WALL_THICKNESS, GOAL_START_Y,   \* geometry
  MISSILE_RADIUS,
  StartX,      \* where attackers may start
  Drift, Fall, \* the cells an attacker may advance in a period, x and y
  Climb,       \* the cells a defender may advance in a period, y
  LAUNCHES     \* bound: attackers launched in a behaviour

ASSUME BattlefieldAssumption ==
  /\ {XWIN, YWIN, N} \subseteq Nat \ {0}
  /\ {WALL_THICKNESS, GOAL_START_Y, LAUNCHES} \subseteq Nat
  /\ MISSILE_RADIUS \in Nat \ {0}
  /\ WALL_THICKNESS + MISSILE_RADIUS < GOAL_START_Y \* attackers start above it
  /\ GOAL_START_Y <= YWIN /\ WALL_THICKNESS + MISSILE_RADIUS < XWIN
  /\ StartX \subseteq 0 .. XWIN \* frand may round up to its upper end
  /\ Drift \subseteq Int /\ Fall \subseteq Nat
  /\ \A dy \in Climb : -dy \in Nat

NONE == -1
Index == 0 .. N - 1
Grid == (0 .. XWIN - 1) \X (0 .. YWIN - 1)
Kind == {"ATTACKER", "DEFENDER"}

ATK_START_Y == WALL_THICKNESS + MISSILE_RADIUS + 1
DEF_START_Y == GOAL_START_Y - MISSILE_RADIUS - 1

VARIABLES
  cell,        \* env.cell
  atk_points,  \* env.atk_points
  def_points,  \* env.def_points
  missile,     \* missile[k][i]: atk_gestor.queue[i], def_gestor.queue[i]
  seen,        \* pos_a of a defender that aims
  launcher,    \* where the defence launcher is
  index,       \* its local index
  launched     \* attackers launched so far

vars == <<cell, atk_points, def_points, missile, seen, launcher, index,
          launched>>

Phase == {"none",      \* no thread, index NONE
          "aiming",    \* defender, before its first scan
          "aimed",     \* defender, between its first and its last scan
          "start",     \* before the first step of the movement loop
          "flying",    \* after it
          "clearing"}  \* movement ended, clear_missile not done

empty == [type |-> "EMPTY", value |-> -1, target |-> -1]
Static(type) == [type |-> type, value |-> -2, target |-> -2]

noMissile == [phase |-> "none", pos |-> <<0, 0>>, deleted |-> FALSE, target |-> NONE]

IsWall(x, y) == \/ x < WALL_THICKNESS \/ XWIN - x < WALL_THICKNESS
                \/ y < WALL_THICKNESS \/ YWIN - y < WALL_THICKNESS

InitCell(x, y) == IF IsWall(x, y) THEN Static("WALL")
                  ELSE IF y > GOAL_START_Y THEN Static("GOAL")
                  ELSE empty

Field == [c \in Grid |-> InitCell(c[1], c[2])]

Init ==
  /\ cell = Field
  /\ atk_points = 0
  /\ def_points = 0
  /\ missile = [k \in Kind |-> [i \in Index |-> noMissile]]
  /\ seen = [i \in Index |-> <<NONE, NONE>>]
  /\ launcher = "request"
  /\ index = NONE
  /\ launched = 0

-----------------------------------------------------------------------------
\* Collisions

IsEmpty(c) == c.type = "EMPTY" \/ c.value = -1
IsMissile(c) == ~ IsEmpty(c) /\ c.type \in Kind

\* The order in which the loops over the grid visit its cells.
Before(c, d) == c[1] < d[1] \/ (c[1] = d[1] /\ c[2] < d[2])

First(S, Less(_, _)) == CHOOSE c \in S : \A d \in S \ {c} : Less(c, d)

\* The cells collision_around looks at.
Span(z, limit) == (z - MISSILE_RADIUS .. z + MISSILE_RADIUS - 1) \cap (0 .. limit - 1)
Around(pos) == Span(pos[1], XWIN) \X Span(pos[2], YWIN)

Obstacles(cells, pos, k, i) ==
  {c \in Around(pos) : /\ ~ IsEmpty(cells[c])
                       /\ cells[c].value # i \/ cells[c].type # k}

\* init_cell_empty; a write outside the array is taken to hit nothing that
\* is modelled here.
Erase(cells, c) ==
  IF c \in Grid THEN [cells EXCEPT ![c] = empty] ELSE cells

\* Faulty variant: the missile that was hit is not told.
DeleteNothing(missiles, c) == missiles

\* delete_atk_missile, delete_def_missile
Delete(missiles, c) ==
  IF c.type \in Kind THEN [missiles EXCEPT ![c.type][c.value].deleted = TRUE]
                     ELSE missiles

\* Faulty variant: the cell of the missile that was hit is kept.
CollideKeepsCell(cells, k, i, c) ==
  LET hit == cells[c]
  IN  /\ missile' = Delete([missile EXCEPT ![k][i].phase = "clearing"], hit)
      /\ cell' = cells
      /\ def_points' = IF hit.type \in Kind \ {k} THEN def_points + 1 ELSE def_points
      /\ atk_points' = IF k = "ATTACKER" /\ hit.type = "GOAL"
                         THEN atk_points + 1 ELSE atk_points

\* Faulty variant: whatever was hit is erased.
CollideErasesAny(cells, k, i, c) ==
  LET hit == cells[c]
  IN  /\ missile' = Delete([missile EXCEPT ![k][i].phase = "clearing"], hit)
      /\ cell' = Erase(cells, c)
      /\ def_points' = IF hit.type \in Kind \ {k} THEN def_points + 1 ELSE def_points
      /\ atk_points' = IF k = "ATTACKER" /\ hit.type = "GOAL"
                         THEN atk_points + 1 ELSE atk_points

\* The missile collides with the cell c and stops.
Collide(cells, k, i, c) ==
  LET hit == cells[c]
  IN  /\ missile' = Delete([missile EXCEPT ![k][i].phase = "clearing"], hit)
      /\ cell' = IF hit.type \in Kind THEN Erase(cells, c) ELSE cells
      /\ def_points' = IF hit.type \in Kind \ {k} THEN def_points + 1 ELSE def_points
      /\ atk_points' = IF k = "ATTACKER" /\ hit.type = "GOAL"
                         THEN atk_points + 1 ELSE atk_points

\* Faulty variant: the loops go on after a collision.
CollideWithAll(cells, k, i, obstacles) ==
  LET Hit(type) == {c \in obstacles : cells[c].type = type}
      hits == UNION {Hit(l) : l \in Kind}
  IN  /\ missile' = [l \in Kind |-> [j \in Index |->
           [missile[l][j] EXCEPT
              !.phase = IF l = k /\ j = i THEN "clearing" ELSE @,
              !.deleted = @ \/ \E c \in Hit(l) : cells[c].value = j]]]
      /\ cell' = [c \in Grid |-> IF c \in hits THEN empty ELSE cells[c]]
      /\ def_points' = def_points + Cardinality(hits \ Hit(k))
      /\ atk_points' = IF k = "ATTACKER" THEN atk_points + Cardinality(Hit("GOAL"))
                                         ELSE atk_points

\* collision_around: the loops stop at the first collision.
CollideAround(cells, k, i, obstacles) ==
  Collide(cells, k, i, First(obstacles, Before))

\* Faulty variant: the movement loop is not told that the missile stops.
StopKeepsFlying(cells, k, i) ==
  /\ cell' = cells
  /\ UNCHANGED <<missile, atk_points, def_points>>

\* The missile stops without a collision to deal with: it was deleted, or it
\* left the grid.
Stop(cells, k, i) ==
  /\ missile' = [missile EXCEPT ![k][i].phase = "clearing"]
  /\ cell' = cells
  /\ UNCHANGED <<atk_points, def_points>>

Advance(cells, k, i, pos) ==
  /\ missile' = [missile EXCEPT ![k][i].phase = "flying", ![k][i].pos = pos]
  /\ cell' = [cells EXCEPT ![pos] =
                [type |-> k, value |-> i, target |-> missile[k][i].target]]
  /\ UNCHANGED <<atk_points, def_points>>

\* One period of task_missile_movement that moves the missile to pos.
Step(k, i, pos) ==
  LET self == missile[k][i]
      lost == self.deleted \/ pos \notin Grid
      cells == Erase(cell, self.pos)
      obstacles == Obstacles(cells, pos, k, i)
  IN  /\ self.phase \in {"start", "flying"}
      /\ \/ /\ lost
            /\ Stop(IF self.deleted THEN cell ELSE cells, k, i)
         \/ /\ ~ lost /\ obstacles # {}
            /\ CollideAround(cells, k, i, obstacles)
         \/ /\ ~ lost /\ obstacles = {}
            /\ Advance(cells, k, i, pos)
      /\ UNCHANGED <<seen, launcher, index, launched>>

AtkStep(i) ==
  \E dx \in Drift, dy \in Fall :
    LET pos == missile["ATTACKER"][i].pos
    IN  Step("ATTACKER", i, <<pos[1] + dx, pos[2] + dy>>)

\* A start at x = -1 truncates to 0 once the missile has moved.
DefStep(i) ==
  \E dy \in Climb :
    LET pos == missile["DEFENDER"][i].pos
        x == IF pos[1] < 0 THEN 0 ELSE pos[1]
    IN  Step("DEFENDER", i, <<x, pos[2] + dy>>)

Clear(k, i) ==
  /\ missile[k][i].phase = "clearing"
  /\ missile' = [missile EXCEPT ![k][i] = noMissile]
  /\ UNCHANGED <<cell, atk_points, def_points, seen, launcher, index, launched>>

-----------------------------------------------------------------------------
\* Launches

LaunchAtk(i) ==
  /\ launched < LAUNCHES
  /\ launched' = launched + 1
  /\ missile["ATTACKER"][i].phase = "none"
  /\ \E x \in StartX :
       missile' = [missile EXCEPT !["ATTACKER"][i] =
                     [noMissile EXCEPT !.phase = "start", !.pos = <<x, ATK_START_Y>>]]
  /\ UNCHANGED <<cell, atk_points, def_points, seen, launcher, index>>

RequestDefIndex ==
  /\ launcher = "request"
  /\ launcher' = "search"
  /\ \E i \in Index : missile["DEFENDER"][i].phase = "none" /\ index' = i
  /\ UNCHANGED <<cell, atk_points, def_points, missile, seen, launched>>

\* Faulty variant: an index once assigned counts for ever.
IsTrackedForEver(t) == t >= 0

IsAlreadyTracked(t) == t >= 0 /\ missile["DEFENDER"][t].phase # "none"

\* check_pixel, but for the colour of the pixel.
Candidates == {c \in Grid : cell[c].value >= 0 /\ ~ IsAlreadyTracked(cell[c].target)}

\* search_screen_for_target finds the cell c; the value of c is taken for the
\* index of an attacker.
SearchFinds(c) ==
  /\ launcher = "search"
  /\ launcher' = "launch"
  /\ c \in Candidates
  /\ missile' = [missile EXCEPT !["ATTACKER"][cell[c].value].target = index]
  /\ cell' = [cell EXCEPT ![c].target = index]
  /\ UNCHANGED <<atk_points, def_points, seen, index, launched>>

LaunchDef ==
  /\ launcher = "launch"
  /\ launcher' = "request"
  /\ index' = NONE
  /\ missile' = [missile EXCEPT !["DEFENDER"][index] = [noMissile EXCEPT !.phase = "aiming"]]
  /\ UNCHANGED <<cell, atk_points, def_points, seen, launched>>

-----------------------------------------------------------------------------
\* Aiming

\* scan_env_for_target_pos(t)
Scan(t) ==
  LET found == {c \in Grid : cell[c].target = t}
  IN  IF found = {} THEN <<NONE, NONE>> ELSE First(found, Before)

FirstScan(i) ==
  /\ missile["DEFENDER"][i].phase = "aiming"
  /\ seen' = [seen EXCEPT ![i] = Scan(i)]
  /\ missile' = [missile EXCEPT !["DEFENDER"][i].phase = "aimed"]
  /\ UNCHANGED <<cell, atk_points, def_points, launcher, index, launched>>

Between(a, b) == (a .. b) \cup (b .. a)

\* Faulty variant: the right limit is on the wrong side of the window border.
RightLimitOutside == XWIN + WALL_THICKNESS + MISSILE_RADIUS + 1

LeftLimit == WALL_THICKNESS + MISSILE_RADIUS + 1
RightLimit == XWIN - WALL_THICKNESS - MISSILE_RADIUS - 1

\* What get_start_x_position may return.  The bisection ends strictly inside
\* the interval between the target and a limit, and is truncated towards
\* zero; without any horizontal move it is not made.
StartPositions(a, b) ==
  IF a[1] = b[1] THEN {a[1]}
  ELSE LET limit == IF (b[2] - a[2]) * (b[1] - a[1]) < 0 THEN LeftLimit ELSE RightLimit
       IN  {x \in Between(limit, b[1]) : x >= 0}

LastScan(i) ==
  /\ missile["DEFENDER"][i].phase = "aimed"
  /\ \E x \in StartPositions(seen[i], Scan(i)) :
       missile' = [missile EXCEPT !["DEFENDER"][i].phase = "start",
                                  !["DEFENDER"][i].pos = <<x, DEF_START_Y>>]
  /\ seen' = [seen EXCEPT ![i] = <<NONE, NONE>>]
  /\ UNCHANGED <<cell, atk_points, def_points, launcher, index, launched>>

-----------------------------------------------------------------------------
\* What the missiles, the attack launcher and the player do.
MissileNext ==
  \/ \E i \in Index : LaunchAtk(i) \/ AtkStep(i) \/ DefStep(i)
                       \/ FirstScan(i) \/ LastScan(i)
  \/ \E k \in Kind, i \in Index : Clear(k, i)

Next ==
  \/ MissileNext
  \/ RequestDefIndex \/ LaunchDef
  \/ \E c \in Grid : SearchFinds(c)

Spec == Init /\ [][Next]_vars

\* The missile threads are periodic tasks: each goes on moving, and a thread
\* whose movement ended clears its missile.
FairSpec ==
  /\ Spec
  /\ \A i \in Index : /\ WF_vars(AtkStep(i)) /\ WF_vars(DefStep(i))
                       /\ WF_vars(FirstScan(i)) /\ WF_vars(LastScan(i))
  /\ \A k \in Kind, i \in Index : WF_vars(Clear(k, i))

-----------------------------------------------------------------------------
MissileCells == {c \in Grid : IsMissile(cell[c])}

Cells(type) == {c \in Grid : Field[c].type = type}

Missile == [phase : Phase, pos : Int \X Int, deleted : BOOLEAN,
            target : Index \cup {NONE}]

Cell == [type : Kind, value : Index, target : Index \cup {NONE}]
          \cup {empty, Static("WALL"), Static("GOAL")}

\* The variables stay in their ranges.
TypeOK ==
  /\ cell \in [Grid -> Cell]
  /\ {atk_points, def_points, launched} \subseteq 0 .. LAUNCHES
  /\ \A k \in Kind, i \in Index :
       LET m == missile[k][i]
       IN  /\ m.phase \in Phase
           /\ m.pos \in (-1 .. XWIN) \X (0 .. YWIN)
           /\ m.deleted \in BOOLEAN
           /\ m.target \in Index \cup {NONE}
  /\ seen \in [Index -> Grid \cup {<<NONE, NONE>>}]
  /\ launcher \in {"request", "search", "launch"}
  /\ index \in Index \cup {NONE}

\* No ghosts: a missile cell is the position of a missile of that index that
\* flies and was not deleted.  So a collision deletes the missile it names,
\* never a later one that got the same index.
CellOwner ==
  \A c \in MissileCells :
    LET m == missile[cell[c].type][cell[c].value]
    IN  m.phase = "flying" /\ ~ m.deleted /\ m.pos = c

\* The field is never damaged: no collision and no start erases a cell of the
\* goal, and the wall loses cells only in the rows where missiles start, when
\* one starts over it.
FieldIntact ==
  /\ \A c \in Cells("GOAL") : cell[c] = Static("GOAL")
  /\ \A c \in Cells("WALL") : \/ cell[c] = Static("WALL")
                              \/ c[2] \in {ATK_START_Y, DEF_START_Y}

Alive(k) == {i \in Index : /\ missile[k][i].phase \in {"start", "flying"}
                           /\ ~ missile[k][i].deleted}

\* The score is right: an attacker ends once, and the point it is worth is
\* counted once, whichever missile finds the collision.
Score == INSTANCE Scoreboard WITH Attacker <- Index, alive <- Alive("ATTACKER")

ImplementsScore == Score!ScoreSpec

\* The missiles in flight, of both kinds.
InAir == {m \in Kind \X Index : m[2] \in Alive(m[1])}

IsDeleted(l, j) == ~ missile[l][j].deleted /\ missile'[l][j].deleted

\* One missile collides with the missile of kind l and index j, and both end.
CollisionOfTwo(l, j) ==
  \E k \in Kind, i \in Index :
    /\ <<k, i>> # <<l, j>>
    /\ InAir \ InAir' = {<<k, i>>, <<l, j>>}
    /\ missile'[k][i].phase = "clearing"
    /\ def_points' = IF k # l THEN def_points + 1 ELSE def_points
    /\ atk_points' = atk_points

\* A collision is between two: when a missile deletes another one, these two end
\* and no other, however many are around; they count one defender point if they
\* are of different kinds, and the goal beside them counts nothing.
OneCollision ==
  [][\A l \in Kind, j \in Index : IsDeleted(l, j) => CollisionOfTwo(l, j)]_vars

\* Every missile that is launched ends and gives its index back.
MissilesEnd ==
  \A k \in Kind, i \in Index :
    missile[k][i].phase # "none" ~> missile[k][i].phase = "none"

\* Two attackers in the grid are never assigned the same defender, so that
\* the defender finds its own target when it scans for it.
TargetUnique ==
  \A c, d \in MissileCells :
    /\ cell[c].type = "ATTACKER" /\ cell[d].type = "ATTACKER"
    /\ cell[c].target = cell[d].target /\ cell[c].target # NONE
    => c = d

\* A missile only ever writes inside the grid.
StepsInGrid ==
  \A k \in Kind, i \in Index :
    missile[k][i].phase \in {"start", "flying"} /\ ~ missile[k][i].deleted
      => missile[k][i].pos \in Grid
=============================================================================
