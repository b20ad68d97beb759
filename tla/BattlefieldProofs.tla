-------------------------- MODULE BattlefieldProofs --------------------------
(* Theorems about Battlefield, for every size of the field, any number of    *)
(* missiles, and whatever steps they take.                                   *)
EXTENDS Battlefield, NumberTheorems, TLAPS

\* The search around a missile returns one of the obstacles.
LEMMA FirstIsMember ==
  ASSUME NEW S, S \subseteq Nat \X Nat, S # {}
  PROVE  First(S, Before) \in S
<1> DEFINE X == {c[1] : c \in S}
<1>1. PICK x \in X : \A y \in X : x <= y
  <2>1. X \subseteq Nat /\ X # {}
    OBVIOUS
  <2> QED
    BY <2>1, LeastNumber
<1> DEFINE Y == {c[2] : c \in {d \in S : d[1] = x}}
<1>2. PICK y \in Y : \A z \in Y : y <= z
  <2>1. Y \subseteq Nat /\ Y # {}
    OBVIOUS
  <2> QED
    BY <2>1, LeastNumber
<1>3. PICK c \in S : c[1] = x /\ c[2] = y
  BY <1>2
<1>4. ASSUME NEW d \in S \ {c} PROVE Before(c, d)
  <2>1. x <= d[1]
    BY <1>1
  <2>2. CASE x < d[1]
    BY <2>2, <1>3 DEF Before
  <2>3. CASE x = d[1]
    <3>1. y <= d[2]
      BY <2>3, <1>2
    <3>2. y # d[2]
      BY <2>3, <1>3
    <3> QED
      BY <2>3, <3>1, <3>2, <1>3 DEF Before
  <2> QED
    BY <2>1, <2>2, <2>3, <1>3
<1> QED
  BY <1>3, <1>4 DEF First

-----------------------------------------------------------------------------
\* The inductive invariant

Types ==
  /\ cell \in [Grid -> Cell]
  /\ missile \in [Kind -> [Index -> Missile]]
  /\ seen \in [Index -> Int \X Int]
  /\ launcher \in {"request", "search", "launch"}
  /\ index \in Index \cup {NONE}

\* The launcher's index has no missile until it launches one.
IndexReserved ==
  launcher # "request" => index \in Index /\ missile["DEFENDER"][index].phase = "none"

\* CellOwner, of any cells and missiles.
Owned(cells, missiles) ==
  \A c \in Grid : IsMissile(cells[c]) =>
    LET m == missiles[cells[c].type][cells[c].value]
    IN  m.phase = "flying" /\ ~ m.deleted /\ m.pos = c

IInv == Types /\ IndexReserved /\ Owned(cell, missile)

\* A cell of a missile names one.
LEMMA CellNames ==
  ASSUME NEW c \in Cell, c.type \in Kind
  PROVE  c.value \in Index
BY DEF Cell, Kind, Static, empty

\* A missile in the grid flies, was not deleted, and is where its cell is.
LEMMA InFlight ==
  ASSUME IInv, NEW c \in Grid, IsMissile(cell[c])
  PROVE  /\ cell[c].type \in Kind /\ cell[c].value \in Index
         /\ missile[cell[c].type][cell[c].value].phase = "flying"
         /\ ~ missile[cell[c].type][cell[c].value].deleted
         /\ missile[cell[c].type][cell[c].value].pos = c
<1>1. cell[c] \in Cell /\ cell[c].type \in Kind
  BY DEF IsMissile, IInv, Types
<1> QED
  BY <1>1, CellNames DEF Owned, IInv

\* init_cell_empty changes one cell at most.
LEMMA EraseOne ==
  ASSUME NEW cells \in [Grid -> Cell], NEW p
  PROVE  /\ Erase(cells, p) \in [Grid -> Cell]
         /\ \A c \in Grid : Erase(cells, p)[c] = IF c = p THEN empty ELSE cells[c]
<1>1. empty \in Cell
  BY DEF Cell
<1> QED
  BY <1>1 DEF Erase

LEMMA EmptyIsNoMissile == ~ IsMissile(empty)
BY DEF IsMissile, IsEmpty, empty

LEMMA InitIInv == Init => IInv
<1> SUFFICES ASSUME Init PROVE IInv
  OBVIOUS
<1>1. noMissile \in Missile
  BY DEF noMissile, Missile, Phase, NONE
<1>2. \A c \in Grid : Field[c] \in Cell /\ ~ IsMissile(Field[c])
  BY DEF Field, InitCell, Static, empty, Cell, IsMissile, IsEmpty, Kind
<1>3. Types
  <2>1. cell \in [Grid -> Cell]
    BY <1>2 DEF Init, Field
  <2> QED
    BY <2>1, <1>1 DEF Init, Types, NONE
<1>4. Owned(cell, missile)
  BY <1>2 DEF Init, Owned
<1> QED
  BY <1>3, <1>4 DEF IInv, IndexReserved, Init

-----------------------------------------------------------------------------
\* The period of a missile

\* delete_atk_missile, delete_def_missile: only a flag changes.
LEMMA DeleteFlag ==
  ASSUME NEW missiles \in [Kind -> [Index -> Missile]], NEW c \in Cell
  PROVE  /\ Delete(missiles, c) \in [Kind -> [Index -> Missile]]
         /\ \A k \in Kind, i \in Index :
              LET m == Delete(missiles, c)[k][i]
              IN  /\ m.phase = missiles[k][i].phase
                  /\ m.pos = missiles[k][i].pos
                  /\ c.type # k \/ c.value # i => m.deleted = missiles[k][i].deleted
                  /\ c.type = k /\ c.value = i => m.deleted
<1>1. CASE c.type \in Kind
  <2>1. c.value \in Index
    BY <1>1, CellNames
  <2>2. Delete(missiles, c) = [missiles EXCEPT ![c.type][c.value].deleted = TRUE]
    BY <1>1 DEF Delete
  <2>3. \A m \in Missile :
          LET n == [m EXCEPT !.deleted = TRUE]
          IN  n \in Missile /\ n.phase = m.phase /\ n.pos = m.pos /\ n.deleted
    BY DEF Missile
  <2> DEFINE old == missiles[c.type][c.value]
             new == [old EXCEPT !.deleted = TRUE]
  <2>4. /\ new \in Missile /\ new.phase = old.phase /\ new.pos = old.pos /\ new.deleted
    BY <2>1, <2>3, <1>1
  <2>5. Delete(missiles, c) =
          [missiles EXCEPT ![c.type] = [missiles[c.type] EXCEPT ![c.value] = new]]
    BY <2>2
  <2> HIDE DEF new
  <2>6. Delete(missiles, c) \in [Kind -> [Index -> Missile]]
    BY <2>1, <2>4, <2>5, <1>1
  <2>7. \A k \in Kind, i \in Index :
          Delete(missiles, c)[k][i] =
            IF c.type = k /\ c.value = i THEN new ELSE missiles[k][i]
    BY <2>1, <2>5, <1>1
  <2> QED
    BY <2>4, <2>6, <2>7
<1>2. CASE c.type \notin Kind
  BY <1>2 DEF Delete
<1> QED
  BY <1>1, <1>2

\* A collision leaves no cell of the missile that stops, nor of the one hit.
LEMMA CollideInv ==
  ASSUME IInv, NEW k \in Kind, NEW i \in Index, NEW p, NEW c \in Grid,
         missile[k][i].phase \in {"start", "flying"},
         p = missile[k][i].pos,
         Collide(Erase(cell, p), k, i, c),
         UNCHANGED <<seen, launcher, index>>
  PROVE  IInv'
<1> DEFINE cells == Erase(cell, p)
           stopped == [missile EXCEPT ![k][i].phase = "clearing"]
<1>1. /\ cells \in [Grid -> Cell]
      /\ \A d \in Grid : cells[d] = IF d = p THEN empty ELSE cell[d]
  BY EraseOne DEF IInv, Types
<1>2. stopped \in [Kind -> [Index -> Missile]]
  BY DEF IInv, Types, Missile, Phase
<1>3. missile' = Delete(stopped, cells[c]) /\ cells[c] \in Cell
  BY <1>1 DEF Collide
<1>4. /\ missile' \in [Kind -> [Index -> Missile]]
      /\ \A l \in Kind, j \in Index :
           /\ missile'[l][j].phase = stopped[l][j].phase
           /\ missile'[l][j].pos = stopped[l][j].pos
           /\ cells[c].type # l \/ cells[c].value # j
                => missile'[l][j].deleted = stopped[l][j].deleted
  <2> HIDE DEF cells, stopped
  <2> QED
    BY <1>2, <1>3, DeleteFlag
<1>5. /\ cell' \in [Grid -> Cell]
      /\ \A d \in Grid : IsMissile(cell'[d]) =>
           d # p /\ cell'[d] = cell[d] /\ (cells[c].type \in Kind => d # c)
  <2>1. CASE cells[c].type \in Kind
    <3>1. cell' = Erase(cells, c)
      BY <2>1 DEF Collide
    <3> QED
      BY <3>1, <1>1, EraseOne, EmptyIsNoMissile
  <2>2. CASE cells[c].type \notin Kind
    <3>1. cell' = cells
      BY <2>2 DEF Collide
    <3> QED
      BY <3>1, <2>2, <1>1, EmptyIsNoMissile
  <2> QED
    BY <2>1, <2>2
<1>6. Types'
  BY <1>4, <1>5 DEF IInv, Types
<1>7. IndexReserved'
  <2>1. \A j \in Index : missile["DEFENDER"][j].phase = "none"
                           => missile'["DEFENDER"][j].phase = "none"
    <3> SUFFICES ASSUME NEW j \in Index, missile["DEFENDER"][j].phase = "none"
                 PROVE  missile'["DEFENDER"][j].phase = "none"
      OBVIOUS
    <3>1. "DEFENDER" \in Kind /\ ("DEFENDER" # k \/ j # i)
      BY DEF Kind
    <3>2. stopped["DEFENDER"][j] = missile["DEFENDER"][j]
      BY <3>1 DEF IInv, Types
    <3> QED
      BY <3>1, <3>2, <1>4
  <2> QED
    BY <2>1 DEF IInv, IndexReserved
<1>8. Owned(cell', missile')
  <2> SUFFICES ASSUME NEW d \in Grid, IsMissile(cell'[d])
               PROVE  LET m == missile'[cell'[d].type][cell'[d].value]
                      IN  m.phase = "flying" /\ ~ m.deleted /\ m.pos = d
    BY DEF Owned
  <2> DEFINE l == cell[d].type
             j == cell[d].value
  <2>1. cell'[d] = cell[d] /\ d # p
    BY <1>5
  <2>2. /\ l \in Kind /\ j \in Index
        /\ missile[l][j].phase = "flying" /\ ~ missile[l][j].deleted
        /\ missile[l][j].pos = d
    BY <2>1, InFlight
  <2>3. l # k \/ j # i
    BY <2>1, <2>2
  <2>4. stopped[l][j] = missile[l][j]
    BY <2>2, <2>3 DEF IInv, Types
  <2>5. cells[c].type # l \/ cells[c].value # j
    <3> SUFFICES ASSUME cells[c].type = l, cells[c].value = j PROVE FALSE
      OBVIOUS
    <3>1. d # c
      BY <2>2, <1>5
    <3>2. cells[c] = cell[c]
      BY <1>1, <2>2 DEF empty, Kind
    <3>3. IsMissile(cell[c])
      BY <3>2, <2>2 DEF IsMissile, IsEmpty, Kind, Index
    <3>4. missile[l][j].pos = c
      BY <3>2, <3>3, InFlight
    <3> QED
      BY <3>1, <3>4, <2>2
  <2> HIDE DEF l, j, cells, stopped
  <2>6. /\ missile'[l][j].phase = stopped[l][j].phase
        /\ missile'[l][j].pos = stopped[l][j].pos
        /\ missile'[l][j].deleted = stopped[l][j].deleted
    BY <2>2, <2>5, <1>4
  <2> QED
    BY <2>1, <2>2, <2>4, <2>6 DEF l, j
<1> QED
  BY <1>6, <1>7, <1>8 DEF IInv

\* Of the missiles only that of kind k and index i changes.
OthersSame(missiles, k, i) ==
  \A l \in Kind, j \in Index : l # k \/ j # i => missiles[l][j] = missile[l][j]

\* What is in the grid was there, but not as the cell of that missile, which
\* may have one at its new position.
OwnOrLeft(cells, missiles, k, i) ==
  \A d \in Grid : IsMissile(cells[d]) =>
    \/ /\ cells[d].type = k /\ cells[d].value = i
       /\ missiles[k][i].phase = "flying" /\ ~ missiles[k][i].deleted
       /\ missiles[k][i].pos = d
    \/ cells[d] = cell[d] /\ (missile[k][i].deleted \/ missile[k][i].pos # d)

\* The missiles other than the one that moves keep their cells.
LEMMA OthersOwn ==
  ASSUME NEW k \in Kind, NEW i \in Index, IInv,
         NEW cells \in [Grid -> Cell], NEW missiles,
         OwnOrLeft(cells, missiles, k, i), OthersSame(missiles, k, i)
  PROVE  Owned(cells, missiles)
<1> SUFFICES ASSUME NEW d \in Grid, IsMissile(cells[d])
             PROVE  LET m == missiles[cells[d].type][cells[d].value]
                    IN  m.phase = "flying" /\ ~ m.deleted /\ m.pos = d
  BY DEF Owned
<1>1. CASE /\ cells[d].type = k /\ cells[d].value = i
           /\ missiles[k][i].phase = "flying" /\ ~ missiles[k][i].deleted
           /\ missiles[k][i].pos = d
  BY <1>1
<1>2. CASE cells[d] = cell[d] /\ (missile[k][i].deleted \/ missile[k][i].pos # d)
  <2> DEFINE l == cell[d].type
             j == cell[d].value
  <2>1. /\ l \in Kind /\ j \in Index
        /\ missile[l][j].phase = "flying" /\ ~ missile[l][j].deleted
        /\ missile[l][j].pos = d
    BY <1>2, InFlight
  <2>2. l # k \/ j # i
    BY <2>1, <1>2
  <2> QED
    BY <2>1, <2>2, <1>2 DEF OthersSame
<1> QED
  BY <1>1, <1>2 DEF OwnOrLeft

\* A missile that stops leaves its cell, or has lost it.
LEMMA StopInv ==
  ASSUME IInv, NEW k \in Kind, NEW i \in Index, NEW cells \in [Grid -> Cell],
         missile[k][i].phase \in {"start", "flying"},
         \/ missile[k][i].deleted /\ cells = cell
         \/ cells = Erase(cell, missile[k][i].pos),
         Stop(cells, k, i), UNCHANGED <<seen, launcher, index>>
  PROVE  IInv'
<1>1. /\ missile' \in [Kind -> [Index -> Missile]]
      /\ \A l \in Kind, j \in Index :
           l # k \/ j # i => missile'[l][j] = missile[l][j]
  <2> DEFINE old == missile[k][i]
             new == [old EXCEPT !.phase = "clearing"]
  <2>1. old \in Missile
    BY DEF IInv, Types
  <2>2. new \in Missile
    BY <2>1 DEF Missile, Phase
  <2>3. missile' = [missile EXCEPT ![k] = [missile[k] EXCEPT ![i] = new]]
    BY DEF Stop
  <2> HIDE DEF new
  <2> QED
    BY <2>2, <2>3 DEF IInv, Types
<1>2. Types'
  BY <1>1 DEF Stop, IInv, Types
<1>3. IndexReserved'
  BY <1>1 DEF IInv, IndexReserved, Kind
<1>4. \A d \in Grid : IsMissile(cells[d]) =>
        cells[d] = cell[d] /\ (missile[k][i].deleted \/ missile[k][i].pos # d)
  BY EraseOne, EmptyIsNoMissile DEF IInv, Types
<1>5. OthersSame(missile', k, i) /\ OwnOrLeft(cells, missile', k, i)
  BY <1>1, <1>4 DEF OthersSame, OwnOrLeft
<1>6. Owned(cells, missile')
  BY <1>5, OthersOwn
<1> QED
  BY <1>2, <1>3, <1>6 DEF IInv, Stop

\* A missile that advances has one cell, at its position.
LEMMA AdvanceInv ==
  ASSUME IInv, NEW k \in Kind, NEW i \in Index, NEW pos \in Grid,
         missile[k][i].phase \in {"start", "flying"}, ~ missile[k][i].deleted,
         Advance(Erase(cell, missile[k][i].pos), k, i, pos),
         UNCHANGED <<seen, launcher, index>>
  PROVE  IInv'
<1> DEFINE cells == Erase(cell, missile[k][i].pos)
           mine == [type |-> k, value |-> i, target |-> missile[k][i].target]
           old == missile[k][i]
           new == [old EXCEPT !.phase = "flying", !.pos = pos]
<1>1. /\ cells \in [Grid -> Cell]
      /\ \A d \in Grid : IsMissile(cells[d]) => cells[d] = cell[d] /\ old.pos # d
  BY EraseOne, EmptyIsNoMissile DEF IInv, Types
<1>2. old \in Missile
  BY DEF IInv, Types
<1>3. /\ new \in Missile /\ new.phase = "flying" /\ new.pos = pos /\ ~ new.deleted
  <2>1. pos \in Int \X Int
    BY DEF Grid
  <2> QED
    BY <1>2, <2>1 DEF Missile, Phase
<1>4. mine \in Cell /\ mine.type = k /\ mine.value = i
  BY <1>2 DEF Cell, Missile
<1>5. missile' = [missile EXCEPT ![k] = [missile[k] EXCEPT ![i] = new]]
  BY DEF Advance
<1>6. cell' = [cells EXCEPT ![pos] = mine]
  BY DEF Advance
<1> HIDE DEF cells, mine, new
<1>7. /\ missile' \in [Kind -> [Index -> Missile]]
      /\ missile'[k][i] = new
      /\ \A l \in Kind, j \in Index :
           l # k \/ j # i => missile'[l][j] = missile[l][j]
  BY <1>3, <1>5 DEF IInv, Types
<1>8. cell' \in [Grid -> Cell]
  BY <1>1, <1>4, <1>6
<1>9. Types'
  BY <1>7, <1>8 DEF IInv, Types
<1>10. IndexReserved'
  BY <1>7 DEF IInv, IndexReserved, Kind
<1>11. \A d \in Grid : IsMissile(cell'[d]) =>
         \/ /\ cell'[d].type = k /\ cell'[d].value = i
            /\ missile'[k][i].phase = "flying" /\ ~ missile'[k][i].deleted
            /\ missile'[k][i].pos = d
         \/ cell'[d] = cell[d] /\ (missile[k][i].deleted \/ missile[k][i].pos # d)
  <2> SUFFICES ASSUME NEW d \in Grid, IsMissile(cell'[d])
               PROVE  \/ /\ cell'[d].type = k /\ cell'[d].value = i
                         /\ missile'[k][i].phase = "flying" /\ ~ missile'[k][i].deleted
                         /\ missile'[k][i].pos = d
                      \/ cell'[d] = cell[d] /\ old.pos # d
    OBVIOUS
  <2>1. CASE d = pos
    BY <2>1, <1>1, <1>3, <1>4, <1>6, <1>7
  <2>2. CASE d # pos
    BY <2>2, <1>1, <1>6
  <2> QED
    BY <2>1, <2>2
<1>12. OthersSame(missile', k, i) /\ OwnOrLeft(cell', missile', k, i)
  BY <1>7, <1>11 DEF OthersSame, OwnOrLeft
<1>13. Owned(cell', missile')
  BY <1>8, <1>12, OthersOwn
<1> QED
  BY <1>9, <1>10, <1>13 DEF IInv

LEMMA StepInv ==
  ASSUME IInv, NEW k \in Kind, NEW i \in Index, NEW pos, Step(k, i, pos)
  PROVE  IInv'
<1> DEFINE self == missile[k][i]
           cells == Erase(cell, self.pos)
           obstacles == Obstacles(cells, pos, k, i)
<1>1. cells \in [Grid -> Cell] /\ cell \in [Grid -> Cell]
  BY EraseOne DEF IInv, Types
<1>2. self.phase \in {"start", "flying"} /\ UNCHANGED <<seen, launcher, index>>
  BY DEF Step
<1>3. CASE self.deleted /\ Stop(cell, k, i)
  BY <1>1, <1>2, <1>3, StopInv
<1>4. CASE Stop(cells, k, i)
  BY <1>1, <1>2, <1>4, StopInv
<1>5. CASE /\ pos \in Grid /\ obstacles # {}
           /\ Collide(cells, k, i, First(obstacles, Before))
  <2>1. obstacles \subseteq Grid
    BY BattlefieldAssumption DEF Obstacles, Around, Span, Grid
  <2>2. obstacles \subseteq Nat \X Nat
    BY <2>1 DEF Grid
  <2> HIDE DEF obstacles
  <2>3. First(obstacles, Before) \in Grid
    BY <2>1, <2>2, <1>5, FirstIsMember
  <2> QED
    BY <2>3, <1>2, <1>5, CollideInv
<1>6. CASE ~ self.deleted /\ pos \in Grid /\ Advance(cells, k, i, pos)
  BY <1>2, <1>6, AdvanceInv
<1> QED
  BY <1>3, <1>4, <1>5, <1>6 DEF Step, CollideAround

-----------------------------------------------------------------------------
\* The other steps change a missile that is not in the grid

\* The missile of kind k and index i becomes new.
Replaced(k, i, new) ==
  missile' = [missile EXCEPT ![k] = [missile[k] EXCEPT ![i] = new]]

LEMMA Replace ==
  ASSUME IInv, NEW k \in Kind, NEW i \in Index, NEW new \in Missile,
         missile[k][i].phase # "flying", cell' = cell, Replaced(k, i, new)
  PROVE  /\ missile' \in [Kind -> [Index -> Missile]]
         /\ missile'[k][i] = new
         /\ \A l \in Kind, j \in Index :
              l # k \/ j # i => missile'[l][j] = missile[l][j]
         /\ Owned(cell', missile')
<1>1. /\ missile' \in [Kind -> [Index -> Missile]]
      /\ missile'[k][i] = new
      /\ \A l \in Kind, j \in Index :
           l # k \/ j # i => missile'[l][j] = missile[l][j]
  BY DEF IInv, Types, Replaced
<1>2. Owned(cell, missile')
  <2> SUFFICES ASSUME NEW d \in Grid, IsMissile(cell[d])
               PROVE  LET m == missile'[cell[d].type][cell[d].value]
                      IN  m.phase = "flying" /\ ~ m.deleted /\ m.pos = d
    BY DEF Owned
  <2> DEFINE l == cell[d].type
             j == cell[d].value
  <2>1. /\ l \in Kind /\ j \in Index
        /\ missile[l][j].phase = "flying" /\ ~ missile[l][j].deleted
        /\ missile[l][j].pos = d
    BY InFlight
  <2> QED
    BY <2>1, <1>1
<1> QED
  BY <1>1, <1>2

LEMMA NoMissileType == noMissile \in Missile
BY DEF noMissile, Missile, Phase, NONE

LEMMA ClearInv ==
  ASSUME IInv, NEW k \in Kind, NEW i \in Index, Clear(k, i)
  PROVE  IInv'
<1>1. /\ missile' \in [Kind -> [Index -> Missile]]
      /\ missile'[k][i] = noMissile
      /\ \A l \in Kind, j \in Index :
           l # k \/ j # i => missile'[l][j] = missile[l][j]
      /\ Owned(cell', missile')
  BY NoMissileType, Replace DEF Clear, Replaced
<1>2. Types'
  BY <1>1 DEF Clear, IInv, Types
<1>3. IndexReserved'
  BY <1>1 DEF Clear, IInv, IndexReserved, noMissile, Kind
<1> QED
  BY <1>1, <1>2, <1>3 DEF IInv

LEMMA LaunchAtkInv ==
  ASSUME IInv, NEW i \in Index, LaunchAtk(i)
  PROVE  IInv'
<1>1. PICK x \in StartX :
        missile' = [missile EXCEPT !["ATTACKER"][i] =
                      [noMissile EXCEPT !.phase = "start", !.pos = <<x, ATK_START_Y>>]]
  BY DEF LaunchAtk
<1> DEFINE new == [noMissile EXCEPT !.phase = "start", !.pos = <<x, ATK_START_Y>>]
<1>2. new \in Missile
  <2>1. <<x, ATK_START_Y>> \in Int \X Int
    BY BattlefieldAssumption DEF ATK_START_Y
  <2> QED
    BY <2>1, NoMissileType DEF Missile, Phase
<1>3. /\ "ATTACKER" \in Kind /\ "ATTACKER" # "DEFENDER"
      /\ missile["ATTACKER"][i].phase # "flying" /\ cell' = cell
  BY DEF Kind, LaunchAtk
<1>4. Replaced("ATTACKER", i, new)
  BY <1>1 DEF Replaced
<1> HIDE DEF new
<1>5. /\ missile' \in [Kind -> [Index -> Missile]]
      /\ \A l \in Kind, j \in Index :
           l # "ATTACKER" \/ j # i => missile'[l][j] = missile[l][j]
      /\ Owned(cell', missile')
  BY <1>2, <1>3, <1>4, Replace
<1>6. Types'
  BY <1>5 DEF LaunchAtk, IInv, Types
<1>7. IndexReserved'
  BY <1>3, <1>5 DEF LaunchAtk, IInv, IndexReserved, Kind
<1> QED
  BY <1>5, <1>6, <1>7 DEF IInv

LEMMA RequestDefIndexInv ==
  ASSUME IInv, RequestDefIndex
  PROVE  IInv'
<1>1. PICK i \in Index : missile["DEFENDER"][i].phase = "none" /\ index' = i
  BY DEF RequestDefIndex
<1>2. Types' /\ IndexReserved'
  BY <1>1 DEF RequestDefIndex, IInv, Types, IndexReserved
<1> QED
  BY <1>2 DEF RequestDefIndex, IInv

LEMMA LaunchDefInv ==
  ASSUME IInv, LaunchDef
  PROVE  IInv'
<1> DEFINE new == [noMissile EXCEPT !.phase = "aiming"]
<1>1. index \in Index /\ missile["DEFENDER"][index].phase = "none" /\ "DEFENDER" \in Kind
  BY DEF IInv, IndexReserved, LaunchDef, Kind
<1>2. new \in Missile
  BY NoMissileType DEF Missile, Phase
<1>3. Replaced("DEFENDER", index, new)
  BY DEF LaunchDef, Replaced
<1> HIDE DEF new
<1>4. missile' \in [Kind -> [Index -> Missile]] /\ Owned(cell', missile')
  <2>1. cell' = cell /\ missile["DEFENDER"][index].phase # "flying"
    BY <1>1 DEF LaunchDef
  <2> QED
    BY <1>1, <1>2, <1>3, <2>1, Replace
<1>5. Types' /\ IndexReserved'
  BY <1>4 DEF LaunchDef, IInv, Types, IndexReserved
<1> QED
  BY <1>4, <1>5 DEF IInv

LEMMA ScanType ==
  ASSUME Types, NEW t
  PROVE  Scan(t) \in Int \X Int
<1> DEFINE found == {c \in Grid : cell[c].target = t}
<1>1. CASE found = {}
  BY <1>1 DEF Scan, NONE
<1>2. CASE found # {}
  <2>1. found \subseteq Nat \X Nat
    BY DEF Grid
  <2>2. First(found, Before) \in Nat \X Nat
    <3> HIDE DEF found
    <3> QED
      BY <1>2, <2>1, FirstIsMember
  <2> QED
    BY <1>2, <2>2 DEF Scan
<1> QED
  BY <1>1, <1>2

LEMMA FirstScanInv ==
  ASSUME IInv, NEW i \in Index, FirstScan(i)
  PROVE  IInv'
<1> DEFINE old == missile["DEFENDER"][i]
           new == [old EXCEPT !.phase = "aimed"]
<1>1. "DEFENDER" \in Kind /\ old.phase = "aiming" /\ cell' = cell
  BY DEF FirstScan, Kind
<1>2. new \in Missile
  <2>1. old \in Missile
    BY <1>1 DEF IInv, Types
  <2> QED
    BY <2>1 DEF Missile, Phase
<1>3. Replaced("DEFENDER", i, new)
  BY DEF FirstScan, Replaced
<1>4. old.phase # "flying"
  BY <1>1
<1> HIDE DEF new
<1>5. /\ missile' \in [Kind -> [Index -> Missile]]
      /\ \A l \in Kind, j \in Index :
           l # "DEFENDER" \/ j # i => missile'[l][j] = missile[l][j]
      /\ Owned(cell', missile')
  BY <1>1, <1>2, <1>3, <1>4, Replace
<1>6. Types'
  <2>1. Scan(i) \in Int \X Int
    BY ScanType DEF IInv
  <2> QED
    BY <1>5, <2>1 DEF FirstScan, IInv, Types
<1>7. IndexReserved'
  BY <1>1, <1>5 DEF FirstScan, IInv, IndexReserved
<1> QED
  BY <1>5, <1>6, <1>7 DEF IInv

LEMMA StartPositionsType ==
  ASSUME NEW a \in Int \X Int, NEW b \in Int \X Int, NEW x \in StartPositions(a, b)
  PROVE  x \in Int
BY BattlefieldAssumption DEF StartPositions, Between, LeftLimit, RightLimit

LEMMA LastScanInv ==
  ASSUME IInv, NEW i \in Index, LastScan(i)
  PROVE  IInv'
<1>1. PICK x \in StartPositions(seen[i], Scan(i)) :
        missile' = [missile EXCEPT !["DEFENDER"][i].phase = "start",
                                   !["DEFENDER"][i].pos = <<x, DEF_START_Y>>]
  BY DEF LastScan
<1> DEFINE old == missile["DEFENDER"][i]
           new == [old EXCEPT !.phase = "start", !.pos = <<x, DEF_START_Y>>]
<1>2. "DEFENDER" \in Kind /\ old.phase = "aimed" /\ cell' = cell
  BY DEF LastScan, Kind
<1>3. new \in Missile
  <2>1. old \in Missile
    BY <1>2 DEF IInv, Types
  <2>2. x \in Int
    BY ScanType, StartPositionsType DEF IInv, Types
  <2>3. <<x, DEF_START_Y>> \in Int \X Int
    BY <2>2, BattlefieldAssumption DEF DEF_START_Y
  <2> QED
    BY <2>1, <2>3 DEF Missile, Phase
<1>4. Replaced("DEFENDER", i, new)
  BY <1>1 DEF Replaced
<1>5. old.phase # "flying"
  BY <1>2
<1> HIDE DEF new
<1>6. /\ missile' \in [Kind -> [Index -> Missile]]
      /\ \A l \in Kind, j \in Index :
           l # "DEFENDER" \/ j # i => missile'[l][j] = missile[l][j]
      /\ Owned(cell', missile')
  BY <1>2, <1>3, <1>4, <1>5, Replace
<1>7. Types'
  BY <1>6 DEF LastScan, IInv, Types, NONE
<1>8. IndexReserved'
  BY <1>2, <1>6 DEF LastScan, IInv, IndexReserved
<1> QED
  BY <1>6, <1>7, <1>8 DEF IInv

\* A target is assigned to a missile and to its cell.
LEMMA SearchFindsInv ==
  ASSUME IInv, NEW c \in Grid, SearchFinds(c)
  PROVE  IInv'
<1> DEFINE v == cell[c].value
           atk == missile["ATTACKER"][v]
           new == [atk EXCEPT !.target = index]
           mine == [cell[c] EXCEPT !.target = index]
<1>1. /\ "ATTACKER" \in Kind /\ "DEFENDER" \in Kind
      /\ index \in Index /\ missile["DEFENDER"][index].phase = "none"
  BY DEF SearchFinds, IInv, IndexReserved, Kind
<1>2. cell[c] \in Cell /\ v >= 0
  BY DEF SearchFinds, Candidates, IInv, Types
<1>3. cell[c].type \in Kind /\ v \in Index
  BY <1>2, CellNames DEF Cell, empty, Static
<1>4. mine \in Cell /\ mine.type = cell[c].type /\ mine.value = v
  <2>1. cell[c] \in [type : Kind, value : Index, target : Index \cup {NONE}]
    BY <1>2, <1>3 DEF Cell, empty, Static
  <2> QED
    BY <1>1, <2>1 DEF Cell
<1>5. /\ new \in Missile /\ new.phase = atk.phase /\ new.pos = atk.pos
      /\ new.deleted = atk.deleted
  <2>1. atk \in Missile
    BY <1>1, <1>3 DEF IInv, Types
  <2> QED
    BY <1>1, <2>1 DEF Missile
<1>6. missile' = [missile EXCEPT !["ATTACKER"] = [missile["ATTACKER"] EXCEPT ![v] = new]]
  BY DEF SearchFinds
<1>7. cell' = [cell EXCEPT ![c] = mine]
  BY DEF SearchFinds
<1> HIDE DEF new, mine
<1>8. /\ missile' \in [Kind -> [Index -> Missile]]
      /\ \A l \in Kind, j \in Index : /\ missile'[l][j].phase = missile[l][j].phase
                                      /\ missile'[l][j].pos = missile[l][j].pos
                                      /\ missile'[l][j].deleted = missile[l][j].deleted
  BY <1>1, <1>3, <1>5, <1>6 DEF IInv, Types
<1>9. /\ cell' \in [Grid -> Cell]
      /\ \A d \in Grid : /\ cell'[d].type = cell[d].type
                         /\ cell'[d].value = cell[d].value
  BY <1>4, <1>7 DEF IInv, Types
<1>10. Types'
  BY <1>8, <1>9 DEF SearchFinds, IInv, Types
<1>11. IndexReserved'
  BY <1>1, <1>8 DEF SearchFinds, IndexReserved
<1>12. Owned(cell', missile')
  <2> SUFFICES ASSUME NEW d \in Grid, IsMissile(cell'[d])
               PROVE  LET m == missile'[cell'[d].type][cell'[d].value]
                      IN  m.phase = "flying" /\ ~ m.deleted /\ m.pos = d
    BY DEF Owned
  <2>1. IsMissile(cell[d])
    BY <1>9 DEF IsMissile, IsEmpty
  <2>2. /\ cell[d].type \in Kind /\ cell[d].value \in Index
        /\ missile[cell[d].type][cell[d].value].phase = "flying"
        /\ ~ missile[cell[d].type][cell[d].value].deleted
        /\ missile[cell[d].type][cell[d].value].pos = d
    BY <2>1, InFlight
  <2>3. cell'[d].type = cell[d].type /\ cell'[d].value = cell[d].value
    BY <1>9
  <2> QED
    BY <1>8, <2>2, <2>3
<1> QED
  BY <1>10, <1>11, <1>12 DEF IInv

LEMMA NextInv == IInv /\ [Next]_vars => IInv'
<1> SUFFICES ASSUME IInv, [Next]_vars PROVE IInv'
  OBVIOUS
<1>1. ASSUME NEW i \in Index, LaunchAtk(i) PROVE IInv'
  BY <1>1, LaunchAtkInv
<1>2. ASSUME NEW i \in Index, AtkStep(i) PROVE IInv'
  BY <1>2, StepInv DEF AtkStep, Kind
<1>3. ASSUME NEW i \in Index, DefStep(i) PROVE IInv'
  BY <1>3, StepInv DEF DefStep, Kind
<1>4. ASSUME NEW i \in Index, FirstScan(i) PROVE IInv'
  BY <1>4, FirstScanInv
<1>5. ASSUME NEW i \in Index, LastScan(i) PROVE IInv'
  BY <1>5, LastScanInv
<1>6. ASSUME NEW k \in Kind, NEW i \in Index, Clear(k, i) PROVE IInv'
  BY <1>6, ClearInv
<1>7. CASE RequestDefIndex
  BY <1>7, RequestDefIndexInv
<1>8. CASE LaunchDef
  BY <1>8, LaunchDefInv
<1>9. ASSUME NEW c \in Grid, SearchFinds(c) PROVE IInv'
  BY <1>9, SearchFindsInv
<1>10. CASE UNCHANGED vars
  BY <1>10 DEF vars, IInv, Types, IndexReserved, Owned
<1> QED
  BY <1>1, <1>2, <1>3, <1>4, <1>5, <1>6, <1>7, <1>8, <1>9, <1>10
  DEF Next, MissileNext

LEMMA SpecIInv == Spec => []IInv
BY InitIInv, NextInv, PTL DEF Spec

\* No cell of the grid ever names a missile that ended, that was deleted, or
\* that is somewhere else.
THEOREM SpecCellOwner == Spec => []CellOwner
<1>1. IInv => CellOwner
  BY DEF IInv, Owned, CellOwner, MissileCells
<1> QED
  BY <1>1, SpecIInv, PTL

-----------------------------------------------------------------------------
\* The field

OnField(p) == /\ p \notin Cells("GOAL")
              /\ p \in Cells("WALL") => p[2] \in {ATK_START_Y, DEF_START_Y}

\* FieldIntact, of any cells.
Intact(cells) ==
  /\ \A c \in Cells("GOAL") : cells[c] = Static("GOAL")
  /\ \A c \in Cells("WALL") : cells[c] = Static("WALL") \/ OnField(c)

\* No missile is over the goal, nor over the wall but where it started.
Placed(missiles) ==
  \A k \in Kind, i \in Index :
    missiles[k][i].phase \in {"start", "flying"} => OnField(missiles[k][i].pos)

FieldInv == IInv /\ Intact(cell) /\ Placed(missile)

LEMMA FieldTypes ==
  /\ Cells("GOAL") \cap Cells("WALL") = {}
  /\ \A c \in Grid : /\ c \in Cells("GOAL") <=> Field[c] = Static("GOAL")
                     /\ c \in Cells("WALL") <=> Field[c] = Static("WALL")
  /\ \A c \in Cells("GOAL") : c \in Grid /\ c[2] > GOAL_START_Y
BY DEF Cells, Field, InitCell, Static, empty

LEMMA IntactIsFieldIntact == Intact(cell) => FieldIntact
BY DEF Intact, FieldIntact, OnField

\* A cell of the field that is not its own any more, or is empty or of a
\* missile, is one where missiles may be.
LEMMA NotStatic ==
  ASSUME NEW cells, Intact(cells), NEW c,
         cells[c] # Static("GOAL"), cells[c] # Static("WALL")
  PROVE  OnField(c)
BY DEF Intact, OnField

\* Writing such a cell leaves the field intact.
LEMMA WriteIntact ==
  ASSUME NEW cells, Intact(cells), NEW c, OnField(c), NEW new,
         \A d \in Grid : d # c => new[d] = cells[d]
  PROVE  Intact(new)
<1>1. \A d \in Cells("GOAL") \cup Cells("WALL") : d \in Grid
  BY DEF Cells
<1>2. \A d \in Cells("GOAL") : new[d] = Static("GOAL")
  BY <1>1 DEF Intact, OnField
<1>3. \A d \in Cells("WALL") : new[d] = Static("WALL") \/ OnField(d)
  BY <1>1 DEF Intact
<1> QED
  BY <1>2, <1>3 DEF Intact

LEMMA EraseIntact ==
  ASSUME NEW cells \in [Grid -> Cell], Intact(cells), NEW c, OnField(c)
  PROVE  Intact(Erase(cells, c))
BY EraseOne, WriteIntact

LEMMA InitFieldInv == Init => FieldInv
<1> SUFFICES ASSUME Init PROVE FieldInv
  OBVIOUS
<1>1. Intact(cell)
  BY FieldTypes DEF Init, Intact, Cells
<1>2. Placed(missile)
  BY DEF Init, Placed, noMissile
<1> QED
  BY <1>1, <1>2, InitIInv DEF FieldInv

LEMMA StepFieldInv ==
  ASSUME FieldInv, IInv', NEW k \in Kind, NEW i \in Index, NEW pos, Step(k, i, pos)
  PROVE  FieldInv'
<1> DEFINE self == missile[k][i]
           cells == Erase(cell, self.pos)
           obstacles == Obstacles(cells, pos, k, i)
<1>1. /\ cell \in [Grid -> Cell] /\ Intact(cell)
      /\ missile \in [Kind -> [Index -> Missile]]
      /\ self \in Missile /\ OnField(self.pos)
  BY DEF Step, FieldInv, IInv, Types, Placed
<1>2. cells \in [Grid -> Cell] /\ Intact(cells)
  BY <1>1, EraseOne, EraseIntact
<1> DEFINE stopped == [self EXCEPT !.phase = "clearing"]
           halted == [missile EXCEPT ![k][i].phase = "clearing"]
<1>3. stopped \in Missile /\ stopped.phase = "clearing"
  BY <1>1 DEF Missile, Phase
<1>4. halted = [missile EXCEPT ![k] = [missile[k] EXCEPT ![i] = stopped]]
  OBVIOUS
<1>5. /\ halted \in [Kind -> [Index -> Missile]]
      /\ halted[k][i].phase = "clearing"
      /\ \A l \in Kind, j \in Index :
           l # k \/ j # i => halted[l][j] = missile[l][j]
  <2> HIDE DEF stopped, halted
  <2> QED
    BY <1>1, <1>3, <1>4
<1>6. CASE Stop(cell, k, i) \/ Stop(cells, k, i)
  <2>1. Intact(cell')
    BY <1>1, <1>2, <1>6 DEF Stop
  <2>2. missile' = halted
    BY <1>6 DEF Stop
  <2> HIDE DEF halted
  <2>3. Placed(missile')
    BY <1>5, <2>2 DEF FieldInv, Placed
  <2> QED
    BY <2>1, <2>3 DEF FieldInv
<1>7. CASE /\ pos \in Grid /\ obstacles # {}
           /\ Collide(cells, k, i, First(obstacles, Before))
  <2> DEFINE c == First(obstacles, Before)
  <2>1. c \in Grid
    <3>1. obstacles \subseteq Grid
      BY BattlefieldAssumption DEF Obstacles, Around, Span, Grid
    <3>2. obstacles \subseteq Nat \X Nat
      BY <3>1 DEF Grid
    <3> HIDE DEF obstacles
    <3> QED
      BY <3>1, <3>2, <1>7, FirstIsMember
  <2> HIDE DEF c, cells
  <2>2. Intact(cell')
    <3>1. CASE cells[c].type \in Kind
      <4>1. cells[c] # Static("GOAL") /\ cells[c] # Static("WALL")
        BY <3>1 DEF Static, Kind
      <4> QED
        BY <4>1, <3>1, <1>2, <1>7, NotStatic, EraseIntact DEF Collide, c
    <3>2. CASE cells[c].type \notin Kind
      BY <3>2, <1>2, <1>7 DEF Collide, c
    <3> QED
      BY <3>1, <3>2
  <2>3. missile' = Delete(halted, cells[c])
    BY <1>7 DEF Collide, c
  <2>4. cells[c] \in Cell
    BY <1>2, <2>1
  <2> HIDE DEF halted
  <2>5. \A l \in Kind, j \in Index : /\ missile'[l][j].phase = halted[l][j].phase
                                     /\ missile'[l][j].pos = halted[l][j].pos
    BY <1>5, <2>3, <2>4, DeleteFlag
  <2>6. Placed(missile')
    BY <1>5, <2>5 DEF FieldInv, Placed
  <2> QED
    BY <2>2, <2>6 DEF FieldInv
<1>8. CASE pos \in Grid /\ obstacles = {} /\ Advance(cells, k, i, pos)
  <2>1. pos \in Around(pos)
    BY <1>8, BattlefieldAssumption DEF Around, Span, Grid
  <2>2. IsEmpty(cells[pos]) \/ cells[pos].type = k
    BY <1>8, <2>1 DEF Obstacles
  <2>3. cells[pos] # Static("GOAL") /\ cells[pos] # Static("WALL")
    BY <2>2 DEF IsEmpty, Static, Kind
  <2> HIDE DEF cells
  <2>4. OnField(pos)
    BY <1>2, <2>3, NotStatic
  <2>5. Intact(cell')
    <3>1. \A d \in Grid : d # pos => cell'[d] = cells[d]
      BY <1>2, <1>8 DEF Advance
    <3> QED
      BY <3>1, <1>2, <2>4, WriteIntact
  <2> DEFINE new == [self EXCEPT !.phase = "flying", !.pos = pos]
  <2>6. new.pos = pos
    BY <1>1 DEF Missile
  <2>7. missile' = [missile EXCEPT ![k] = [missile[k] EXCEPT ![i] = new]]
    BY <1>8 DEF Advance
  <2> HIDE DEF new
  <2>8. /\ missile'[k][i] = new
        /\ \A l \in Kind, j \in Index :
             l # k \/ j # i => missile'[l][j] = missile[l][j]
    BY <1>1, <2>7
  <2>9. Placed(missile')
    <3> SUFFICES ASSUME NEW l \in Kind, NEW j \in Index,
                        missile'[l][j].phase \in {"start", "flying"}
                 PROVE  OnField(missile'[l][j].pos)
      BY DEF Placed
    <3>1. CASE l = k /\ j = i
      BY <3>1, <2>4, <2>6, <2>8
    <3>2. CASE l # k \/ j # i
      BY <3>2, <2>8 DEF FieldInv, Placed
    <3> QED
      BY <3>1, <3>2
  <2> QED
    BY <2>5, <2>9 DEF FieldInv
<1> QED
  BY <1>6, <1>7, <1>8 DEF Step, CollideAround

\* A missile that is not moving starts where it may be, or does not start.
LEMMA ReplaceFieldInv ==
  ASSUME FieldInv, IInv', NEW k \in Kind, NEW i \in Index, NEW new \in Missile,
         new.phase \in {"start", "flying"} => OnField(new.pos), cell' = cell,
         Replaced(k, i, new)
  PROVE  FieldInv'
<1>1. /\ missile'[k][i] = new
      /\ \A l \in Kind, j \in Index :
           l # k \/ j # i => missile'[l][j] = missile[l][j]
  BY DEF FieldInv, IInv, Types, Replaced
<1>2. Placed(missile')
  <2> SUFFICES ASSUME NEW l \in Kind, NEW j \in Index,
                      missile'[l][j].phase \in {"start", "flying"}
               PROVE  OnField(missile'[l][j].pos)
    BY DEF Placed
  <2>1. CASE l = k /\ j = i
    BY <2>1, <1>1
  <2>2. CASE l # k \/ j # i
    BY <2>2, <1>1 DEF FieldInv, Placed
  <2> QED
    BY <2>1, <2>2
<1> QED
  BY <1>2 DEF FieldInv

\* Both start rows are above the goal.
LEMMA StartRows ==
  ASSUME NEW x, NEW y \in {ATK_START_Y, DEF_START_Y}
  PROVE  OnField(<<x, y>>)
<1>1. y <= GOAL_START_Y /\ y \in Int /\ GOAL_START_Y \in Int
  BY BattlefieldAssumption DEF ATK_START_Y, DEF_START_Y
<1>2. <<x, y>> \notin Cells("GOAL")
  BY <1>1, FieldTypes
<1> QED
  BY <1>2 DEF OnField

LEMMA LaunchAtkFieldInv ==
  ASSUME FieldInv, IInv', NEW i \in Index, LaunchAtk(i)
  PROVE  FieldInv'
<1>1. PICK x \in StartX :
        missile' = [missile EXCEPT !["ATTACKER"][i] =
                      [noMissile EXCEPT !.phase = "start", !.pos = <<x, ATK_START_Y>>]]
  BY DEF LaunchAtk
<1> DEFINE new == [noMissile EXCEPT !.phase = "start", !.pos = <<x, ATK_START_Y>>]
<1>2. new \in Missile /\ OnField(new.pos)
  <2>1. <<x, ATK_START_Y>> \in Int \X Int
    BY BattlefieldAssumption DEF ATK_START_Y
  <2>2. new \in Missile /\ new.pos = <<x, ATK_START_Y>>
    BY <2>1, NoMissileType DEF Missile, Phase
  <2> QED
    BY <2>2, StartRows
<1>3. Replaced("ATTACKER", i, new)
  BY <1>1 DEF Replaced
<1>4. "ATTACKER" \in Kind /\ cell' = cell
  BY DEF LaunchAtk, Kind
<1> HIDE DEF new
<1> QED
  BY <1>2, <1>3, <1>4, ReplaceFieldInv

LEMMA LastScanFieldInv ==
  ASSUME FieldInv, IInv', NEW i \in Index, LastScan(i)
  PROVE  FieldInv'
<1>1. PICK x \in StartPositions(seen[i], Scan(i)) :
        missile' = [missile EXCEPT !["DEFENDER"][i].phase = "start",
                                   !["DEFENDER"][i].pos = <<x, DEF_START_Y>>]
  BY DEF LastScan
<1> DEFINE old == missile["DEFENDER"][i]
           new == [old EXCEPT !.phase = "start", !.pos = <<x, DEF_START_Y>>]
<1>2. "DEFENDER" \in Kind /\ cell' = cell
  BY DEF LastScan, Kind
<1>3. new \in Missile /\ OnField(new.pos)
  <2>1. old \in Missile
    BY <1>2 DEF FieldInv, IInv, Types
  <2>2. x \in Int
    BY ScanType, StartPositionsType DEF FieldInv, IInv, Types
  <2>3. <<x, DEF_START_Y>> \in Int \X Int
    BY <2>2, BattlefieldAssumption DEF DEF_START_Y
  <2>4. new \in Missile /\ new.pos = <<x, DEF_START_Y>>
    BY <2>1, <2>3 DEF Missile, Phase
  <2> QED
    BY <2>4, StartRows
<1>4. Replaced("DEFENDER", i, new)
  BY <1>1 DEF Replaced
<1> HIDE DEF new
<1> QED
  BY <1>2, <1>3, <1>4, ReplaceFieldInv

LEMMA SearchFindsFieldInv ==
  ASSUME FieldInv, IInv', NEW c \in Grid, SearchFinds(c)
  PROVE  FieldInv'
<1> DEFINE v == cell[c].value
           atk == missile["ATTACKER"][v]
           new == [atk EXCEPT !.target = index]
<1>1. cell[c] \in Cell /\ v >= 0 /\ "ATTACKER" \in Kind
  BY DEF SearchFinds, Candidates, FieldInv, IInv, Types, Kind
<1>2. v \in Index
  BY <1>1, CellNames DEF Cell, empty, Static
<1>3. new.phase = atk.phase /\ new.pos = atk.pos
  <2>1. atk \in Missile
    BY <1>1, <1>2 DEF FieldInv, IInv, Types
  <2> QED
    BY <2>1 DEF Missile
<1>4. missile' = [missile EXCEPT !["ATTACKER"] = [missile["ATTACKER"] EXCEPT ![v] = new]]
  BY DEF SearchFinds
<1> HIDE DEF new
<1>5. \A l \in Kind, j \in Index : /\ missile'[l][j].phase = missile[l][j].phase
                                   /\ missile'[l][j].pos = missile[l][j].pos
  BY <1>1, <1>2, <1>3, <1>4 DEF FieldInv, IInv, Types
<1>6. Placed(missile')
  BY <1>5 DEF FieldInv, Placed
<1>7. OnField(c)
  <2>1. cell[c] # Static("GOAL") /\ cell[c] # Static("WALL")
    BY <1>1 DEF Static
  <2> QED
    BY <2>1, NotStatic DEF FieldInv
<1>8. Intact(cell')
  <2>1. \A d \in Grid : d # c => cell'[d] = cell[d]
    BY DEF SearchFinds, FieldInv, IInv, Types
  <2> QED
    BY <2>1, <1>7, WriteIntact DEF FieldInv
<1> QED
  BY <1>6, <1>8 DEF FieldInv

LEMMA NextFieldInv == FieldInv /\ [Next]_vars => FieldInv'
<1> SUFFICES ASSUME FieldInv, [Next]_vars PROVE FieldInv'
  OBVIOUS
<1>1. IInv'
  BY NextInv DEF FieldInv
<1>2. ASSUME NEW i \in Index, LaunchAtk(i) PROVE FieldInv'
  BY <1>1, <1>2, LaunchAtkFieldInv
<1>3. ASSUME NEW i \in Index, AtkStep(i) PROVE FieldInv'
  BY <1>1, <1>3, StepFieldInv DEF AtkStep, Kind
<1>4. ASSUME NEW i \in Index, DefStep(i) PROVE FieldInv'
  BY <1>1, <1>4, StepFieldInv DEF DefStep, Kind
<1>5. ASSUME NEW i \in Index, FirstScan(i) PROVE FieldInv'
  <2> DEFINE old == missile["DEFENDER"][i]
             new == [old EXCEPT !.phase = "aimed"]
  <2>1. "DEFENDER" \in Kind /\ cell' = cell
    BY <1>5 DEF FirstScan, Kind
  <2>2. new \in Missile /\ new.phase = "aimed"
    <3>1. old \in Missile
      BY <2>1 DEF FieldInv, IInv, Types
    <3> QED
      BY <3>1 DEF Missile, Phase
  <2>3. Replaced("DEFENDER", i, new)
    BY <1>5 DEF FirstScan, Replaced
  <2> HIDE DEF new
  <2> QED
    BY <1>1, <2>1, <2>2, <2>3, ReplaceFieldInv
<1>6. ASSUME NEW i \in Index, LastScan(i) PROVE FieldInv'
  BY <1>1, <1>6, LastScanFieldInv
<1>7. ASSUME NEW k \in Kind, NEW i \in Index, Clear(k, i) PROVE FieldInv'
  <2>1. noMissile.phase = "none"
    BY DEF noMissile
  <2> QED
    BY <1>1, <1>7, <2>1, NoMissileType, ReplaceFieldInv DEF Clear, Replaced
<1>8. CASE LaunchDef
  <2> DEFINE new == [noMissile EXCEPT !.phase = "aiming"]
  <2>1. index \in Index /\ "DEFENDER" \in Kind /\ cell' = cell
    BY <1>8 DEF FieldInv, IInv, IndexReserved, LaunchDef, Kind
  <2>2. new \in Missile /\ new.phase = "aiming"
    BY NoMissileType DEF Missile, Phase
  <2>3. Replaced("DEFENDER", index, new)
    BY <1>8 DEF LaunchDef, Replaced
  <2> HIDE DEF new
  <2> QED
    BY <1>1, <2>1, <2>2, <2>3, ReplaceFieldInv
<1>9. ASSUME NEW c \in Grid, SearchFinds(c) PROVE FieldInv'
  BY <1>1, <1>9, SearchFindsFieldInv
<1>10. CASE RequestDefIndex \/ UNCHANGED vars
  BY <1>1, <1>10 DEF RequestDefIndex, vars, FieldInv, Intact, Placed
<1> QED
  BY <1>2, <1>3, <1>4, <1>5, <1>6, <1>7, <1>8, <1>9, <1>10 DEF Next, MissileNext

\* Whatever the missiles hit, the goal keeps its cells, and the wall loses
\* none but where a missile started over it.
THEOREM SpecFieldIntact == Spec => []FieldIntact
<1>1. FieldInv => FieldIntact
  BY IntactIsFieldIntact DEF FieldInv
<1>2. Spec => []FieldInv
  BY InitFieldInv, NextFieldInv, PTL DEF Spec
<1> QED
  BY <1>1, <1>2, PTL

-----------------------------------------------------------------------------
\* The scores

\* What a step does to the points is right if it is a step of Scoreboard.
Scored == [Score!ScoreNext]_(Score!scoreVars)

\* All that a step other than a launch may do to them.
Ended ==
  \/ \E i, j \in Index : Score!Intercepted(i) \/ Score!InGoal(i) \/ Score!Lost(i, j)
  \/ Alive("ATTACKER")' = Alive("ATTACKER") /\ UNCHANGED <<atk_points, def_points>>

\* A step that leaves the points and the attackers in flight alone.
LEMMA SameAlive ==
  ASSUME Alive("ATTACKER")' = Alive("ATTACKER"), UNCHANGED <<atk_points, def_points>>
  PROVE  Ended
BY DEF Ended

LEMMA LaunchAtkAppears ==
  ASSUME IInv, NEW i \in Index, LaunchAtk(i)
  PROVE  Score!Appear(i)
<1>1. PICK x \in StartX :
        missile' = [missile EXCEPT !["ATTACKER"][i] =
                      [noMissile EXCEPT !.phase = "start", !.pos = <<x, ATK_START_Y>>]]
  BY DEF LaunchAtk
<1> DEFINE new == [noMissile EXCEPT !.phase = "start", !.pos = <<x, ATK_START_Y>>]
<1>2. new.phase = "start" /\ ~ new.deleted
  BY DEF noMissile
<1>3. missile' = [missile EXCEPT !["ATTACKER"] = [missile["ATTACKER"] EXCEPT ![i] = new]]
  BY <1>1
<1>4. missile["ATTACKER"][i].phase = "none" /\ UNCHANGED <<atk_points, def_points>>
  BY DEF LaunchAtk
<1> HIDE DEF new
<1>5. /\ missile'["ATTACKER"][i] = new
      /\ \A j \in Index : j # i => missile'["ATTACKER"][j] = missile["ATTACKER"][j]
  BY <1>3 DEF IInv, Types, Kind
<1>6. i \notin Alive("ATTACKER") /\ Alive("ATTACKER")' = Alive("ATTACKER") \cup {i}
  BY <1>2, <1>4, <1>5 DEF Alive
<1> QED
  BY <1>4, <1>6 DEF Score!Appear

\* The attackers in flight after the missile of kind k and index i stopped.
LEMMA StopAlive ==
  ASSUME IInv, NEW k \in Kind, NEW i \in Index,
         missile' = [missile EXCEPT ![k][i].phase = "clearing"]
  PROVE  Alive("ATTACKER")' = IF k = "ATTACKER" THEN Alive("ATTACKER") \ {i}
                                                ELSE Alive("ATTACKER")
<1> DEFINE old == missile[k][i]
           new == [old EXCEPT !.phase = "clearing"]
<1>1. new.phase = "clearing"
  BY DEF IInv, Types, Missile
<1>2. missile' = [missile EXCEPT ![k] = [missile[k] EXCEPT ![i] = new]]
  OBVIOUS
<1> HIDE DEF new
<1>3. /\ missile'[k][i] = new
      /\ \A l \in Kind, j \in Index :
           l # k \/ j # i => missile'[l][j] = missile[l][j]
  BY <1>2 DEF IInv, Types
<1>4. CASE k = "ATTACKER"
  BY <1>1, <1>3, <1>4 DEF Alive, Kind
<1>5. CASE k # "ATTACKER"
  BY <1>3, <1>5 DEF Alive, Kind
<1> QED
  BY <1>4, <1>5

LEMMA StopEnded ==
  ASSUME IInv, NEW k \in Kind, NEW i \in Index, NEW cells, Stop(cells, k, i)
  PROVE  Ended
<1>1. UNCHANGED <<atk_points, def_points>>
  BY DEF Stop
<1>2. Alive("ATTACKER")' = IF k = "ATTACKER" THEN Alive("ATTACKER") \ {i}
                                             ELSE Alive("ATTACKER")
  BY StopAlive DEF Stop
<1>3. CASE k = "ATTACKER" /\ i \in Alive("ATTACKER")
  <2>1. Score!Lost(i, i)
    BY <1>1, <1>2, <1>3 DEF Score!Lost
  <2> QED
    BY <2>1 DEF Ended
<1>4. CASE k # "ATTACKER" \/ i \notin Alive("ATTACKER")
  <2>1. Alive("ATTACKER")' = Alive("ATTACKER")
    BY <1>2, <1>4
  <2> QED
    BY <1>1, <2>1, SameAlive
<1> QED
  BY <1>3, <1>4

LEMMA AdvanceEnded ==
  ASSUME IInv, NEW k \in Kind, NEW i \in Index, NEW pos, NEW cells,
         missile[k][i].phase \in {"start", "flying"}, Advance(cells, k, i, pos)
  PROVE  Ended
<1> DEFINE old == missile[k][i]
           new == [old EXCEPT !.phase = "flying", !.pos = pos]
<1>1. new.phase = "flying" /\ new.deleted = old.deleted
  BY DEF IInv, Types, Missile
<1>2. missile' = [missile EXCEPT ![k] = [missile[k] EXCEPT ![i] = new]]
  BY DEF Advance
<1> HIDE DEF new
<1>3. /\ missile'[k][i] = new
      /\ \A l \in Kind, j \in Index :
           l # k \/ j # i => missile'[l][j] = missile[l][j]
  BY <1>2 DEF IInv, Types
<1>4. \A j \in Index : j \in Alive("ATTACKER")' <=> j \in Alive("ATTACKER")
  <2> TAKE j \in Index
  <2>1. CASE k = "ATTACKER" /\ j = i
    BY <1>1, <1>3, <2>1 DEF Alive, Kind
  <2>2. CASE k # "ATTACKER" \/ j # i
    BY <1>3, <2>2 DEF Alive, Kind
  <2> QED
    BY <2>1, <2>2
<1>5. Alive("ATTACKER")' = Alive("ATTACKER")
  BY <1>4 DEF Alive
<1> QED
  BY <1>5, SameAlive DEF Advance

\* A collision counts one point at most, for attackers that were in flight.
LEMMA CollideEnded ==
  ASSUME IInv, NEW k \in Kind, NEW i \in Index, NEW pos, NEW c \in Grid,
         missile[k][i].phase \in {"start", "flying"}, ~ missile[k][i].deleted,
         c \in Obstacles(Erase(cell, missile[k][i].pos), pos, k, i),
         Collide(Erase(cell, missile[k][i].pos), k, i, c)
  PROVE  Ended
<1> DEFINE cells == Erase(cell, missile[k][i].pos)
           hit == cells[c]
           halted == [missile EXCEPT ![k][i].phase = "clearing"]
           left == IF k = "ATTACKER" THEN Alive("ATTACKER") \ {i} ELSE Alive("ATTACKER")
<1>1. /\ cells \in [Grid -> Cell] /\ hit \in Cell
      /\ ~ IsEmpty(hit) /\ (hit.value # i \/ hit.type # k)
  BY EraseOne DEF Obstacles, IInv, Types
<1>2. hit.type \in Kind => /\ hit.value \in Index
                           /\ missile[hit.type][hit.value].phase = "flying"
                           /\ ~ missile[hit.type][hit.value].deleted
  <2> SUFFICES ASSUME hit.type \in Kind
               PROVE  /\ hit.value \in Index
                      /\ missile[hit.type][hit.value].phase = "flying"
                      /\ ~ missile[hit.type][hit.value].deleted
    OBVIOUS
  <2>1. IsMissile(hit)
    BY <1>1 DEF IsMissile
  <2>2. hit = cell[c]
    <3>1. hit = IF c = missile[k][i].pos THEN empty ELSE cell[c]
      BY EraseOne DEF IInv, Types
    <3> HIDE DEF hit
    <3> QED
      BY <3>1, <2>1, EmptyIsNoMissile
  <2> HIDE DEF hit
  <2> QED
    BY <2>1, <2>2, InFlight
<1>3. missile' = Delete(halted, hit)
  BY DEF Collide
<1>4. /\ halted \in [Kind -> [Index -> Missile]]
      /\ \A j \in Index :
           j \in left <=> /\ halted["ATTACKER"][j].phase \in {"start", "flying"}
                          /\ ~ halted["ATTACKER"][j].deleted
  <2> DEFINE old == missile[k][i]
             new == [old EXCEPT !.phase = "clearing"]
  <2>1. new \in Missile /\ new.phase = "clearing"
    <3>1. old \in Missile
      BY DEF IInv, Types
    <3> QED
      BY <3>1 DEF Missile, Phase
  <2>2. halted = [missile EXCEPT ![k] = [missile[k] EXCEPT ![i] = new]]
    OBVIOUS
  <2> HIDE DEF new, halted
  <2>3. /\ halted \in [Kind -> [Index -> Missile]]
        /\ halted[k][i] = new
        /\ \A l \in Kind, j \in Index :
             l # k \/ j # i => halted[l][j] = missile[l][j]
    BY <2>1, <2>2 DEF IInv, Types
  <2>4. ASSUME NEW j \in Index
        PROVE  j \in left <=> /\ halted["ATTACKER"][j].phase \in {"start", "flying"}
                              /\ ~ halted["ATTACKER"][j].deleted
    <3>1. CASE k = "ATTACKER" /\ j = i
      BY <2>1, <2>3, <3>1
    <3>2. CASE k # "ATTACKER" \/ j # i
      BY <2>3, <3>2 DEF Alive, Kind
    <3> QED
      BY <3>1, <3>2
  <2> QED
    BY <2>3, <2>4
<1>5. k = "ATTACKER" => i \in Alive("ATTACKER")
  BY DEF Alive
<1>6. /\ def_points' = IF hit.type \in Kind \ {k} THEN def_points + 1 ELSE def_points
      /\ atk_points' = IF k = "ATTACKER" /\ hit.type = "GOAL"
                         THEN atk_points + 1 ELSE atk_points
  BY DEF Collide
<1>7. Alive("ATTACKER")' = IF hit.type = "ATTACKER" THEN left \ {hit.value} ELSE left
  <2> HIDE DEF hit, halted, left
  <2>1. \A j \in Index :
          /\ missile'["ATTACKER"][j].phase = halted["ATTACKER"][j].phase
          /\ hit.type = "ATTACKER" /\ hit.value = j => missile'["ATTACKER"][j].deleted
          /\ hit.type # "ATTACKER" \/ hit.value # j =>
               missile'["ATTACKER"][j].deleted = halted["ATTACKER"][j].deleted
    <3>1. "ATTACKER" \in Kind
      BY DEF Kind
    <3> QED
      BY <1>1, <1>3, <1>4, <3>1, DeleteFlag
  <2>2. \A j \in Index :
          j \in Alive("ATTACKER")' <=> j \in left /\ ~ (hit.type = "ATTACKER" /\ hit.value = j)
    BY <1>4, <2>1 DEF Alive
  <2>3. \A j \in Alive("ATTACKER")' \cup left : j \in Index
    BY DEF Alive, left
  <2> QED
    BY <2>2, <2>3
<1> HIDE DEF hit, cells, left, halted
<1>8. CASE k = "ATTACKER" /\ hit.type = "DEFENDER"
  <2>1. Score!Intercepted(i)
    BY <1>5, <1>6, <1>7, <1>8 DEF Score!Intercepted, left, Kind
  <2> QED
    BY <2>1 DEF Ended
<1>9. CASE k = "ATTACKER" /\ hit.type = "ATTACKER"
  <2>1. hit.value \in Alive("ATTACKER")
    BY <1>2, <1>9 DEF Alive, Kind
  <2>2. Score!Lost(i, hit.value)
    BY <1>5, <1>6, <1>7, <1>9, <2>1 DEF Score!Lost, left, Kind
  <2> QED
    BY <2>2, <1>2, <1>9 DEF Ended, Kind
<1>10. CASE k = "ATTACKER" /\ hit.type = "GOAL"
  <2>1. Score!InGoal(i)
    BY <1>5, <1>6, <1>7, <1>10 DEF Score!InGoal, left, Kind
  <2> QED
    BY <2>1 DEF Ended
<1>11. CASE k = "ATTACKER" /\ hit.type \notin {"GOAL", "ATTACKER", "DEFENDER"}
  <2>1. Score!Lost(i, i)
    BY <1>5, <1>6, <1>7, <1>11 DEF Score!Lost, left, Kind
  <2> QED
    BY <2>1 DEF Ended
<1>12. CASE k = "DEFENDER" /\ hit.type = "ATTACKER"
  <2>1. hit.value \in Alive("ATTACKER")
    BY <1>2, <1>12 DEF Alive, Kind
  <2>2. Score!Intercepted(hit.value)
    BY <1>6, <1>7, <1>12, <2>1 DEF Score!Intercepted, left, Kind
  <2> QED
    BY <2>2, <1>2, <1>12 DEF Ended, Kind
<1>13. CASE k = "DEFENDER" /\ hit.type # "ATTACKER"
  <2>1. Alive("ATTACKER")' = Alive("ATTACKER") /\ UNCHANGED <<atk_points, def_points>>
    BY <1>6, <1>7, <1>13 DEF left, Kind
  <2> QED
    BY <2>1, SameAlive
<1> QED
  BY <1>8, <1>9, <1>10, <1>11, <1>12, <1>13 DEF Kind

LEMMA StepEnded ==
  ASSUME IInv, NEW k \in Kind, NEW i \in Index, NEW pos, Step(k, i, pos)
  PROVE  Ended
<1> DEFINE self == missile[k][i]
           cells == Erase(cell, self.pos)
           obstacles == Obstacles(cells, pos, k, i)
<1>1. CASE Stop(cell, k, i) \/ Stop(cells, k, i)
  BY <1>1, StopEnded
<1>2. CASE /\ ~ self.deleted /\ obstacles # {}
           /\ Collide(cells, k, i, First(obstacles, Before))
  <2>1. obstacles \subseteq Grid
    BY BattlefieldAssumption DEF Obstacles, Around, Span, Grid
  <2>2. obstacles \subseteq Nat \X Nat
    BY <2>1 DEF Grid
  <2>3. self.phase \in {"start", "flying"}
    BY DEF Step
  <2>4. First(obstacles, Before) \in obstacles
    <3> HIDE DEF obstacles
    <3> QED
      BY <2>2, <1>2, FirstIsMember
  <2> QED
    BY <2>1, <2>3, <2>4, <1>2, CollideEnded
<1>3. CASE Advance(cells, k, i, pos)
  <2>1. self.phase \in {"start", "flying"}
    BY DEF Step
  <2> QED
    BY <2>1, <1>3, AdvanceEnded
<1> QED
  BY <1>1, <1>2, <1>3 DEF Step, CollideAround

LEMMA ClearEnded ==
  ASSUME IInv, NEW k \in Kind, NEW i \in Index, Clear(k, i)
  PROVE  Ended
<1>1. /\ missile[k][i].phase = "clearing" /\ noMissile.phase = "none"
      /\ missile' = [missile EXCEPT ![k] = [missile[k] EXCEPT ![i] = noMissile]]
      /\ UNCHANGED <<atk_points, def_points>>
  BY DEF Clear, noMissile
<1>2. /\ missile'[k][i] = noMissile
      /\ \A l \in Kind, j \in Index :
           l # k \/ j # i => missile'[l][j] = missile[l][j]
  BY <1>1 DEF IInv, Types
<1>3. \A j \in Index : j \in Alive("ATTACKER")' <=> j \in Alive("ATTACKER")
  BY <1>1, <1>2 DEF Alive, Kind
<1>4. Alive("ATTACKER")' = Alive("ATTACKER")
  BY <1>3 DEF Alive
<1> QED
  BY <1>1, <1>4, SameAlive

LEMMA SearchFindsEnded ==
  ASSUME IInv, NEW c \in Grid, SearchFinds(c)
  PROVE  Ended
<1> DEFINE v == cell[c].value
           atk == missile["ATTACKER"][v]
           new == [atk EXCEPT !.target = index]
<1>1. cell[c] \in Cell /\ v >= 0 /\ "ATTACKER" \in Kind
  BY DEF SearchFinds, Candidates, IInv, Types, Kind
<1>2. v \in Index
  BY <1>1, CellNames DEF Cell, empty, Static
<1>3. new.phase = atk.phase /\ new.deleted = atk.deleted
  BY <1>1, <1>2 DEF IInv, Types, Missile
<1>4. missile' = [missile EXCEPT !["ATTACKER"] = [missile["ATTACKER"] EXCEPT ![v] = new]]
  BY DEF SearchFinds
<1> HIDE DEF new
<1>5. \A j \in Index :
        /\ missile'["ATTACKER"][j].phase = missile["ATTACKER"][j].phase
        /\ missile'["ATTACKER"][j].deleted = missile["ATTACKER"][j].deleted
  BY <1>1, <1>2, <1>3, <1>4 DEF IInv, Types
<1>6. Alive("ATTACKER")' = Alive("ATTACKER")
  BY <1>5 DEF Alive
<1> QED
  BY <1>6, SameAlive DEF SearchFinds

\* Attackers appear when they are launched, and end in all other steps.
LEMMA NextEnded ==
  IInv /\ [Next]_vars => \/ Ended /\ launched' = launched
                         \/ launched' = launched + 1 /\ launched < LAUNCHES
                            /\ \E i \in Index : Score!Appear(i)
<1> SUFFICES ASSUME IInv, [Next]_vars, \A i \in Index : ~ LaunchAtk(i)
             PROVE  Ended /\ launched' = launched
  BY LaunchAtkAppears DEF LaunchAtk
<1>1. missile \in [Kind -> [Index -> Missile]] /\ "ATTACKER" \in Kind
  BY DEF IInv, Types, Kind
<1>2. ASSUME UNCHANGED <<atk_points, def_points>>,
             missile'["ATTACKER"] = missile["ATTACKER"]
      PROVE  Ended
  BY <1>2, SameAlive DEF Alive
<1>3. launched' = launched
  <2>1. ASSUME NEW i \in Index, AtkStep(i) \/ DefStep(i) PROVE launched' = launched
    BY <2>1 DEF AtkStep, DefStep, Step
  <2>2. ASSUME NEW i \in Index, FirstScan(i) \/ LastScan(i) PROVE launched' = launched
    BY <2>2 DEF FirstScan, LastScan
  <2>3. ASSUME NEW k \in Kind, NEW i \in Index, Clear(k, i) PROVE launched' = launched
    BY <2>3 DEF Clear
  <2>4. ASSUME NEW c \in Grid, SearchFinds(c) PROVE launched' = launched
    BY <2>4 DEF SearchFinds
  <2>5. CASE RequestDefIndex \/ LaunchDef \/ UNCHANGED vars
    BY <2>5 DEF RequestDefIndex, LaunchDef, vars
  <2> QED
    BY <2>1, <2>2, <2>3, <2>4, <2>5 DEF Next, MissileNext
<1>4. ASSUME NEW i \in Index, AtkStep(i) PROVE Ended
  BY <1>4, StepEnded DEF AtkStep, Kind
<1>5. ASSUME NEW i \in Index, DefStep(i) PROVE Ended
  BY <1>5, StepEnded DEF DefStep, Kind
<1>6. ASSUME NEW i \in Index, FirstScan(i) PROVE Ended
  BY <1>1, <1>2, <1>6 DEF FirstScan
<1>7. ASSUME NEW i \in Index, LastScan(i) PROVE Ended
  <2>1. missile'["ATTACKER"] = missile["ATTACKER"]
    BY <1>1, <1>7 DEF LastScan
  <2> QED
    BY <1>2, <1>7, <2>1 DEF LastScan
<1>8. ASSUME NEW k \in Kind, NEW i \in Index, Clear(k, i) PROVE Ended
  BY <1>8, ClearEnded
<1>9. CASE RequestDefIndex \/ UNCHANGED vars
  BY <1>2, <1>9 DEF RequestDefIndex, vars
<1>10. CASE LaunchDef
  BY <1>1, <1>2, <1>10 DEF LaunchDef
<1>11. ASSUME NEW c \in Grid, SearchFinds(c) PROVE Ended
  BY <1>11, SearchFindsEnded
<1> QED
  BY <1>3, <1>4, <1>5, <1>6, <1>7, <1>8, <1>9, <1>10, <1>11 DEF Next, MissileNext

LEMMA NextScored == IInv /\ [Next]_vars => Scored
<1>1. Ended => Scored
  BY DEF Ended, Scored, Score!ScoreNext, Score!scoreVars
<1>2. (\E i \in Index : Score!Appear(i)) => Scored
  BY DEF Scored, Score!ScoreNext
<1> QED
  BY <1>1, <1>2, NextEnded

\* The missiles implement the score: every attacker ends once, and is worth
\* one point at most, whichever missile finds the collision.
THEOREM SpecImplementsScore == Spec => ImplementsScore
<1>1. Init => Score!ScoreInit
  BY DEF Init, Alive, noMissile, Kind, Score!ScoreInit
<1>2. IInv /\ [Next]_vars => [Score!ScoreNext]_(Score!scoreVars)
  BY NextScored DEF Scored
<1> QED
  BY <1>1, <1>2, SpecIInv, PTL DEF Spec, ImplementsScore, Score!ScoreSpec

-----------------------------------------------------------------------------
\* Who is deleted

\* A step that changes one missile, and deletes none.
LEMMA OneChanged ==
  ASSUME IInv, NEW k \in Kind, NEW i \in Index, NEW new,
         missile' = [missile EXCEPT ![k] = [missile[k] EXCEPT ![i] = new]],
         new.deleted => missile[k][i].deleted
  PROVE  \A l \in Kind, j \in Index : ~ IsDeleted(l, j)
<1>1. /\ missile'[k][i] = new
      /\ \A l \in Kind, j \in Index :
           l # k \/ j # i => missile'[l][j] = missile[l][j]
  BY DEF IInv, Types
<1> QED
  BY <1>1 DEF IsDeleted

\* The missile of kind k and index i stops at the cell with the content hit: a
\* missile in it was in flight, and is the only one that is deleted.
StopsAt(k, i, hit) ==
  /\ hit.type \in Kind => /\ hit.value \in Index
                          /\ <<hit.type, hit.value>> # <<k, i>>
                          /\ missile[hit.type][hit.value].phase = "flying"
                          /\ ~ missile[hit.type][hit.value].deleted
  /\ \A l \in Kind, j \in Index :
       /\ missile'[l][j].phase = IF l = k /\ j = i THEN "clearing"
                                 ELSE missile[l][j].phase
       /\ missile'[l][j].deleted <=> \/ missile[l][j].deleted
                                     \/ hit.type = l /\ hit.value = j

\* A collision is such a stop: what is hit was in flight by CellOwner.
LEMMA CollideFlags ==
  ASSUME IInv, NEW k \in Kind, NEW i \in Index, NEW pos, NEW c \in Grid,
         c \in Obstacles(Erase(cell, missile[k][i].pos), pos, k, i),
         Collide(Erase(cell, missile[k][i].pos), k, i, c),
         NEW hit, hit = Erase(cell, missile[k][i].pos)[c]
  PROVE  StopsAt(k, i, hit)
<1> DEFINE cells == Erase(cell, missile[k][i].pos)
           halted == [missile EXCEPT ![k][i].phase = "clearing"]
<1>1. /\ cells \in [Grid -> Cell] /\ hit \in Cell
      /\ ~ IsEmpty(hit) /\ (hit.value # i \/ hit.type # k)
  BY EraseOne DEF Obstacles, IInv, Types
<1>2. ASSUME hit.type \in Kind
      PROVE  /\ hit.value \in Index
             /\ missile[hit.type][hit.value].phase = "flying"
             /\ ~ missile[hit.type][hit.value].deleted
  <2>1. IsMissile(hit)
    BY <1>1, <1>2 DEF IsMissile
  <2>2. hit = cell[c]
    <3>1. hit = IF c = missile[k][i].pos THEN empty ELSE cell[c]
      BY EraseOne DEF IInv, Types
    <3> QED
      BY <3>1, <2>1, EmptyIsNoMissile
  <2> QED
    BY <2>1, <2>2, InFlight
<1>3. /\ halted \in [Kind -> [Index -> Missile]]
      /\ \A l \in Kind, j \in Index :
           /\ halted[l][j].phase = IF l = k /\ j = i THEN "clearing" ELSE missile[l][j].phase
           /\ halted[l][j].deleted = missile[l][j].deleted
  <2> DEFINE old == missile[k][i]
             new == [old EXCEPT !.phase = "clearing"]
  <2>1. new \in Missile /\ new.phase = "clearing" /\ new.deleted = old.deleted
    <3>1. old \in Missile
      BY DEF IInv, Types
    <3> QED
      BY <3>1 DEF Missile, Phase
  <2>2. halted = [missile EXCEPT ![k] = [missile[k] EXCEPT ![i] = new]]
    OBVIOUS
  <2> HIDE DEF new, halted
  <2> QED
    BY <2>1, <2>2 DEF IInv, Types
<1>4. missile' = Delete(halted, hit)
  BY DEF Collide
<1>5. \A l \in Kind, j \in Index :
        halted[l][j].deleted \in BOOLEAN /\ missile[l][j].deleted \in BOOLEAN
  BY <1>3 DEF IInv, Types, Missile
<1> HIDE DEF halted
<1>6. \A l \in Kind, j \in Index :
        /\ missile'[l][j].phase = halted[l][j].phase
        /\ missile'[l][j].deleted <=> \/ halted[l][j].deleted
                                      \/ hit.type = l /\ hit.value = j
  BY <1>1, <1>3, <1>4, <1>5, DeleteFlag
<1>7. \A l \in Kind, j \in Index :
        /\ missile'[l][j].phase = IF l = k /\ j = i THEN "clearing" ELSE missile[l][j].phase
        /\ missile'[l][j].deleted <=> \/ missile[l][j].deleted
                                      \/ hit.type = l /\ hit.value = j
  BY <1>3, <1>6
<1>8. hit.type \in Kind => <<hit.type, hit.value>> # <<k, i>>
  BY <1>1
<1> QED
  BY <1>2, <1>7, <1>8 DEF StopsAt

\* A collision deletes one missile at most, and ends no other but its own.
LEMMA CollideTwo ==
  ASSUME IInv, NEW k \in Kind, NEW i \in Index, NEW pos, NEW c \in Grid,
         missile[k][i].phase \in {"start", "flying"}, ~ missile[k][i].deleted,
         c \in Obstacles(Erase(cell, missile[k][i].pos), pos, k, i),
         Collide(Erase(cell, missile[k][i].pos), k, i, c),
         NEW l \in Kind, NEW j \in Index, IsDeleted(l, j)
  PROVE  CollisionOfTwo(l, j)
<1> DEFINE hit == Erase(cell, missile[k][i].pos)[c]
<1>1. StopsAt(k, i, hit)
  BY CollideFlags
<1>2. /\ def_points' = IF hit.type \in Kind \ {k} THEN def_points + 1 ELSE def_points
      /\ atk_points' = IF k = "ATTACKER" /\ hit.type = "GOAL"
                         THEN atk_points + 1 ELSE atk_points
  BY DEF Collide
<1> HIDE DEF hit
<1>3. hit.type = l /\ hit.value = j
  BY <1>1 DEF IsDeleted, StopsAt
<1>4. ASSUME NEW m \in Kind \X Index
      PROVE  m \in InAir \ InAir' <=> m = <<k, i>> \/ m = <<l, j>>
  <2>1. PICK q \in Kind, n \in Index : m = <<q, n>>
    OBVIOUS
  <2>2. m \in InAir <=> /\ missile[q][n].phase \in {"start", "flying"}
                        /\ ~ missile[q][n].deleted
    BY <2>1 DEF InAir, Alive
  <2>3. m \in InAir' <=> /\ missile'[q][n].phase \in {"start", "flying"}
                         /\ ~ missile'[q][n].deleted
    BY <2>1 DEF InAir, Alive
  <2>4. /\ missile'[q][n].phase = IF q = k /\ n = i THEN "clearing"
                                  ELSE missile[q][n].phase
        /\ missile'[q][n].deleted <=> \/ missile[q][n].deleted
                                      \/ q = l /\ n = j
    BY <1>1, <1>3 DEF StopsAt
  <2>5. CASE q = k /\ n = i
    BY <2>1, <2>2, <2>3, <2>4, <2>5
  <2>6. CASE q = l /\ n = j
    BY <1>1, <1>3, <2>1, <2>2, <2>3, <2>4, <2>6 DEF StopsAt
  <2>7. CASE ~ (q = k /\ n = i) /\ ~ (q = l /\ n = j)
    BY <2>1, <2>2, <2>3, <2>4, <2>7
  <2> QED
    BY <2>5, <2>6, <2>7
<1>5. InAir \ InAir' = {<<k, i>>, <<l, j>>}
  <2>1. InAir \ InAir' \subseteq Kind \X Index
    BY DEF InAir
  <2> QED
    BY <1>4, <2>1
<1>6. def_points' = IF k # l THEN def_points + 1 ELSE def_points
  BY <1>2, <1>3
<1>7. atk_points' = atk_points
  BY <1>2, <1>3 DEF Kind
<1>8. missile'[k][i].phase = "clearing" /\ <<k, i>> # <<l, j>>
  BY <1>1, <1>3 DEF StopsAt
<1> QED
  BY <1>5, <1>6, <1>7, <1>8 DEF CollisionOfTwo

LEMMA StepDeletes ==
  ASSUME IInv, NEW k \in Kind, NEW i \in Index, NEW pos, Step(k, i, pos),
         NEW l \in Kind, NEW j \in Index, IsDeleted(l, j)
  PROVE  CollisionOfTwo(l, j)
<1> DEFINE self == missile[k][i]
           cells == Erase(cell, self.pos)
           obstacles == Obstacles(cells, pos, k, i)
<1>1. self \in Missile
  BY DEF IInv, Types
<1>2. CASE Stop(cell, k, i) \/ Stop(cells, k, i)
  <2> DEFINE new == [self EXCEPT !.phase = "clearing"]
  <2>1. new.deleted = self.deleted
    BY <1>1 DEF Missile
  <2>2. missile' = [missile EXCEPT ![k] = [missile[k] EXCEPT ![i] = new]]
    BY <1>2 DEF Stop
  <2> HIDE DEF new
  <2> QED
    BY <2>1, <2>2, OneChanged
<1>3. CASE /\ ~ self.deleted /\ obstacles # {}
           /\ Collide(cells, k, i, First(obstacles, Before))
  <2>1. obstacles \subseteq Grid
    BY BattlefieldAssumption DEF Obstacles, Around, Span, Grid
  <2>2. obstacles \subseteq Nat \X Nat
    BY <2>1 DEF Grid
  <2>3. self.phase \in {"start", "flying"}
    BY DEF Step
  <2>4. First(obstacles, Before) \in obstacles
    <3> HIDE DEF obstacles
    <3> QED
      BY <2>2, <1>3, FirstIsMember
  <2> QED
    BY <2>1, <2>3, <2>4, <1>3, CollideTwo
<1>4. CASE Advance(cells, k, i, pos)
  <2> DEFINE new == [self EXCEPT !.phase = "flying", !.pos = pos]
  <2>1. new.deleted = self.deleted
    BY <1>1 DEF Missile
  <2>2. missile' = [missile EXCEPT ![k] = [missile[k] EXCEPT ![i] = new]]
    BY <1>4 DEF Advance
  <2> HIDE DEF new
  <2> QED
    BY <2>1, <2>2, OneChanged
<1> QED
  BY <1>2, <1>3, <1>4 DEF Step, CollideAround

\* Only a collision deletes.
LEMMA NextDeletes ==
  ASSUME IInv, [Next]_vars, NEW l \in Kind, NEW j \in Index, IsDeleted(l, j)
  PROVE  CollisionOfTwo(l, j)
<1>1. missile \in [Kind -> [Index -> Missile]] /\ {"ATTACKER", "DEFENDER"} \subseteq Kind
  BY DEF IInv, Types, Kind
<1>2. ~ noMissile.deleted
  BY DEF noMissile
<1>3. ASSUME NEW i \in Index, AtkStep(i) \/ DefStep(i) PROVE CollisionOfTwo(l, j)
  BY <1>3, StepDeletes DEF AtkStep, DefStep, Kind
<1>4. ASSUME NEW k \in Kind, NEW i \in Index, Clear(k, i) PROVE FALSE
  <2>1. missile' = [missile EXCEPT ![k] = [missile[k] EXCEPT ![i] = noMissile]]
    BY <1>4 DEF Clear
  <2> QED
    BY <2>1, <1>2, OneChanged
<1>5. ASSUME NEW i \in Index, LaunchAtk(i) PROVE FALSE
  <2>1. PICK x \in StartX :
          missile' = [missile EXCEPT !["ATTACKER"][i] =
                        [noMissile EXCEPT !.phase = "start", !.pos = <<x, ATK_START_Y>>]]
    BY <1>5 DEF LaunchAtk
  <2> DEFINE new == [noMissile EXCEPT !.phase = "start", !.pos = <<x, ATK_START_Y>>]
  <2>2. ~ new.deleted
    BY DEF noMissile
  <2>3. missile' = [missile EXCEPT !["ATTACKER"] = [missile["ATTACKER"] EXCEPT ![i] = new]]
    BY <2>1
  <2> HIDE DEF new
  <2> QED
    BY <1>1, <2>2, <2>3, OneChanged
<1>6. ASSUME LaunchDef PROVE FALSE
  <2> DEFINE new == [noMissile EXCEPT !.phase = "aiming"]
  <2>1. ~ new.deleted
    BY DEF noMissile
  <2>2. missile' = [missile EXCEPT !["DEFENDER"] = [missile["DEFENDER"] EXCEPT ![index] = new]]
    BY <1>6 DEF LaunchDef
  <2>3. index \in Index
    BY <1>6 DEF LaunchDef, IInv, IndexReserved
  <2> HIDE DEF new
  <2> QED
    BY <1>1, <2>1, <2>2, <2>3, OneChanged
<1>7. ASSUME NEW i \in Index, FirstScan(i) PROVE FALSE
  <2> DEFINE old == missile["DEFENDER"][i]
             new == [old EXCEPT !.phase = "aimed"]
  <2>1. new.deleted = old.deleted
    BY <1>1 DEF Missile
  <2>2. missile' = [missile EXCEPT !["DEFENDER"] = [missile["DEFENDER"] EXCEPT ![i] = new]]
    BY <1>7 DEF FirstScan
  <2> HIDE DEF new
  <2> QED
    BY <1>1, <2>1, <2>2, OneChanged
<1>8. ASSUME NEW i \in Index, LastScan(i) PROVE FALSE
  <2>1. PICK x \in StartPositions(seen[i], Scan(i)) :
          missile' = [missile EXCEPT !["DEFENDER"][i].phase = "start",
                                     !["DEFENDER"][i].pos = <<x, DEF_START_Y>>]
    BY <1>8 DEF LastScan
  <2> DEFINE old == missile["DEFENDER"][i]
             new == [old EXCEPT !.phase = "start", !.pos = <<x, DEF_START_Y>>]
  <2>2. new.deleted = old.deleted
    BY <1>1 DEF Missile
  <2>3. missile' = [missile EXCEPT !["DEFENDER"] = [missile["DEFENDER"] EXCEPT ![i] = new]]
    BY <1>1, <2>1
  <2> HIDE DEF new
  <2> QED
    BY <1>1, <2>2, <2>3, OneChanged
<1>9. ASSUME NEW c \in Grid, SearchFinds(c) PROVE FALSE
  <2> DEFINE v == cell[c].value
             old == missile["ATTACKER"][v]
             new == [old EXCEPT !.target = index]
  <2>1. cell[c] \in Cell /\ v >= 0
    BY <1>9 DEF SearchFinds, Candidates, IInv, Types
  <2>2. v \in Index
    BY <2>1 DEF Cell, empty, Static
  <2>3. new.deleted = old.deleted
    BY <1>1, <2>2 DEF Missile
  <2>4. missile' = [missile EXCEPT !["ATTACKER"] = [missile["ATTACKER"] EXCEPT ![v] = new]]
    BY <1>9 DEF SearchFinds
  <2> HIDE DEF new
  <2> QED
    BY <1>1, <2>2, <2>3, <2>4, OneChanged
<1>10. ASSUME RequestDefIndex \/ UNCHANGED vars PROVE FALSE
  BY <1>10 DEF RequestDefIndex, vars, IsDeleted
<1> QED
  BY <1>3, <1>4, <1>5, <1>6, <1>7, <1>8, <1>9, <1>10 DEF Next, MissileNext

\* A missile is only ever deleted by one other, with which it ends: the others
\* around them survive, and the two count one point at most.
THEOREM SpecOneCollision == Spec => OneCollision
<1>1. IInv /\ [Next]_vars =>
        [\A l \in Kind, j \in Index : IsDeleted(l, j) => CollisionOfTwo(l, j)]_vars
  BY NextDeletes
<1> QED
  BY <1>1, SpecIInv, PTL DEF Spec, OneCollision
=============================================================================
