------------------------ MODULE BattlefieldRangeProofs ------------------------
(***************************************************************************)
(* The ranges of Battlefield's variables.                                  *)
(*                                                                         *)
(* Two of them need an argument.  A point is never counted for an attacker *)
(* that is still in flight, so that points and attackers in flight         *)
(* together are no more than the launches.  And a missile is never farther *)
(* outside of the grid than where it started: it only moves to a cell.     *)
(***************************************************************************)
EXTENDS BattlefieldProofs, FiniteSetTheorems

\* Where a missile may be.
Place == (-1 .. XWIN) \X (0 .. YWIN)

Ranges ==
  /\ \A k \in Kind, i \in Index : missile[k][i].pos \in Place
  /\ seen \in [Index -> Grid \cup {<<NONE, NONE>>}]

Points ==
  /\ {atk_points, def_points} \subseteq Nat /\ launched \in 0 .. LAUNCHES
  /\ atk_points + def_points + Cardinality(Alive("ATTACKER")) <= launched

-----------------------------------------------------------------------------
\* The points

LEMMA FiniteAlive == IsFiniteSet(Alive("ATTACKER")) /\ Cardinality(Alive("ATTACKER")) \in Nat
<1>1. IsFiniteSet(Index)
  BY FS_Interval, BattlefieldAssumption DEF Index
<1> QED
  BY <1>1, FS_Subset, FS_CardinalityType DEF Alive

LEMMA InitPoints == Init => Points
<1> SUFFICES ASSUME Init PROVE Points
  OBVIOUS
<1>1. Alive("ATTACKER") = {}
  BY DEF Init, Alive, noMissile, Kind
<1>2. Cardinality(Alive("ATTACKER")) = 0
  BY <1>1, FS_EmptySet
<1>3. atk_points = 0 /\ def_points = 0 /\ launched = 0 /\ LAUNCHES \in Nat
  BY BattlefieldAssumption DEF Init
<1> QED
  BY <1>2, <1>3 DEF Points

\* An attacker that ends is worth no more than it was in flight.
LEMMA EndedPoints ==
  ASSUME Points, Ended, launched' = launched
  PROVE  Points'
<1> DEFINE A == Alive("ATTACKER")
           B == Alive("ATTACKER")'
<1>1. IsFiniteSet(A) /\ Cardinality(A) \in Nat
  BY FiniteAlive
<1> HIDE DEF A, B
<1>2. ASSUME NEW i \in Index, i \in A, B = A \ {i}
      PROVE  Cardinality(B) = Cardinality(A) - 1 /\ Cardinality(B) \in Nat
  <2>1. IsFiniteSet(B) /\ Cardinality(B) \in Nat
    BY <1>1, <1>2, FS_RemoveElement, FS_CardinalityType
  <2> QED
    BY <1>1, <1>2, <2>1, FS_RemoveElement
<1>3. ASSUME NEW i \in Index, NEW j \in Index, B = A \ {i, j}
      PROVE  Cardinality(B) <= Cardinality(A) /\ Cardinality(B) \in Nat
  <2>1. B \subseteq A
    BY <1>3
  <2> QED
    BY <1>1, <2>1, FS_Subset, FS_CardinalityType
<1>4. CASE \E i \in Index : Score!Intercepted(i) \/ Score!InGoal(i)
  <2>1. PICK i \in Index : Score!Intercepted(i) \/ Score!InGoal(i)
    BY <1>4
  <2>2. /\ i \in A /\ B = A \ {i}
        /\ \/ def_points' = def_points + 1 /\ atk_points' = atk_points
           \/ atk_points' = atk_points + 1 /\ def_points' = def_points
    BY <2>1 DEF Score!Intercepted, Score!InGoal, A, B
  <2> QED
    BY <1>1, <1>2, <2>2 DEF Points, A, B
<1>5. CASE \E i, j \in Index : Score!Lost(i, j)
  <2>1. PICK i \in Index, j \in Index : Score!Lost(i, j)
    BY <1>5
  <2>2. B = A \ {i, j} /\ UNCHANGED <<atk_points, def_points>>
    BY <2>1 DEF Score!Lost, A, B
  <2> QED
    BY <1>1, <1>3, <2>2 DEF Points, A, B
<1>6. CASE B = A /\ UNCHANGED <<atk_points, def_points>>
  BY <1>6 DEF Points, A, B
<1> QED
  BY <1>4, <1>5, <1>6 DEF Ended, A, B

LEMMA NextPoints == IInv /\ Points /\ [Next]_vars => Points'
<1> SUFFICES ASSUME IInv, Points, [Next]_vars PROVE Points'
  OBVIOUS
<1>1. CASE Ended /\ launched' = launched
  BY <1>1, EndedPoints
<1>2. CASE launched' = launched + 1 /\ launched < LAUNCHES /\ \E i \in Index : Score!Appear(i)
  <2> DEFINE A == Alive("ATTACKER")
             B == Alive("ATTACKER")'
  <2>1. PICK i \in Index : Score!Appear(i)
    BY <1>2
  <2>2. i \notin A /\ B = A \cup {i} /\ UNCHANGED <<atk_points, def_points>>
    BY <2>1 DEF Score!Appear
  <2>3. IsFiniteSet(A) /\ Cardinality(A) \in Nat
    BY FiniteAlive
  <2> HIDE DEF A, B
  <2>4. Cardinality(B) = Cardinality(A) + 1
    BY <2>2, <2>3, FS_AddElement
  <2> QED
    BY <1>2, <2>2, <2>3, <2>4, BattlefieldAssumption DEF Points, A, B
<1> QED
  BY <1>1, <1>2, NextEnded

-----------------------------------------------------------------------------
\* The positions

LEMMA InitRanges == Init => Ranges
<1> SUFFICES ASSUME Init PROVE Ranges
  OBVIOUS
<1>1. <<0, 0>> \in Place
  BY BattlefieldAssumption DEF Place
<1>2. \A k \in Kind, i \in Index : missile[k][i].pos = <<0, 0>>
  BY DEF Init, noMissile
<1> QED
  BY <1>1, <1>2 DEF Init, Ranges

LEMMA GridPlace == Grid \subseteq Place
BY BattlefieldAssumption DEF Grid, Place

\* A scan finds a cell, or nothing.
LEMMA ScanGrid ==
  ASSUME NEW t
  PROVE  Scan(t) \in Grid \cup {<<NONE, NONE>>}
<1> DEFINE found == {c \in Grid : cell[c].target = t}
<1>1. CASE found = {}
  BY <1>1 DEF Scan
<1>2. CASE found # {}
  <2>1. found \subseteq Nat \X Nat /\ found \subseteq Grid
    BY DEF Grid
  <2>2. First(found, Before) \in found
    <3> HIDE DEF found
    <3> QED
      BY <1>2, <2>1, FirstIsMember
  <2> QED
    BY <1>2, <2>1, <2>2 DEF Scan
<1> QED
  BY <1>1, <1>2

\* A defender starts in the window, or one cell to the left of it.
LEMMA StartPlace ==
  ASSUME NEW a \in Grid \cup {<<NONE, NONE>>}, NEW b \in Grid \cup {<<NONE, NONE>>},
         NEW x \in StartPositions(a, b)
  PROVE  <<x, DEF_START_Y>> \in Place
<1>1. /\ XWIN \in Nat /\ YWIN \in Nat /\ WALL_THICKNESS \in Nat /\ MISSILE_RADIUS \in Nat
      /\ GOAL_START_Y \in Nat /\ GOAL_START_Y <= YWIN
      /\ WALL_THICKNESS + MISSILE_RADIUS < XWIN
      /\ WALL_THICKNESS + MISSILE_RADIUS < GOAL_START_Y
  BY BattlefieldAssumption
<1>2. a[1] \in -1 .. XWIN /\ b[1] \in -1 .. XWIN
  BY <1>1 DEF Grid, NONE
<1>3. DEF_START_Y \in 0 .. YWIN
  BY <1>1 DEF DEF_START_Y
<1>4. LeftLimit \in 0 .. XWIN /\ RightLimit \in Int /\ RightLimit <= XWIN
  BY <1>1 DEF LeftLimit, RightLimit
<1>5. x \in -1 .. XWIN
  <2>1. CASE a[1] = b[1]
    BY <2>1, <1>2 DEF StartPositions
  <2>2. CASE a[1] # b[1]
    <3>1. PICK limit \in {LeftLimit, RightLimit} : x \in Between(limit, b[1]) /\ x >= 0
      BY <2>2 DEF StartPositions
    <3>2. limit \in Int /\ limit <= XWIN
      BY <1>1, <1>4
    <3> QED
      BY <1>1, <1>2, <3>1, <3>2 DEF Between
  <2> QED
    BY <2>1, <2>2
<1> QED
  BY <1>3, <1>5 DEF Place

\* Of the missiles at most that of kind k and index i moves, into the grid.
LEMMA StepPlace ==
  ASSUME IInv, Ranges, NEW k \in Kind, NEW i \in Index, NEW pos, Step(k, i, pos)
  PROVE  \A l \in Kind, j \in Index : missile'[l][j].pos \in Place
<1> DEFINE self == missile[k][i]
           cells == Erase(cell, self.pos)
           obstacles == Obstacles(cells, pos, k, i)
           stopped == [self EXCEPT !.phase = "clearing"]
           halted == [missile EXCEPT ![k][i].phase = "clearing"]
<1>1. missile \in [Kind -> [Index -> Missile]] /\ self \in Missile
  BY DEF IInv, Types
<1>2. stopped \in Missile /\ stopped.pos = self.pos
  BY <1>1 DEF Missile, Phase
<1>3. halted = [missile EXCEPT ![k] = [missile[k] EXCEPT ![i] = stopped]]
  OBVIOUS
<1>4. /\ halted \in [Kind -> [Index -> Missile]]
      /\ \A l \in Kind, j \in Index : halted[l][j].pos = missile[l][j].pos
  <2> HIDE DEF stopped, halted
  <2> QED
    BY <1>1, <1>2, <1>3
<1>5. CASE Stop(cell, k, i) \/ Stop(cells, k, i)
  <2>1. missile' = halted
    BY <1>5 DEF Stop
  <2> HIDE DEF halted
  <2> QED
    BY <2>1, <1>4 DEF Ranges
<1>6. CASE obstacles # {} /\ Collide(cells, k, i, First(obstacles, Before))
  <2> DEFINE c == First(obstacles, Before)
  <2>1. c \in Grid
    <3>1. obstacles \subseteq Grid
      BY BattlefieldAssumption DEF Obstacles, Around, Span, Grid
    <3>2. obstacles \subseteq Nat \X Nat
      BY <3>1 DEF Grid
    <3> HIDE DEF obstacles
    <3> QED
      BY <3>1, <3>2, <1>6, FirstIsMember
  <2>2. cells[c] \in Cell
    BY <2>1, EraseOne DEF IInv, Types
  <2>3. missile' = Delete(halted, cells[c])
    BY <1>6 DEF Collide
  <2> HIDE DEF halted, cells, c
  <2>4. \A l \in Kind, j \in Index : missile'[l][j].pos = halted[l][j].pos
    BY <1>4, <2>2, <2>3, DeleteFlag
  <2> QED
    BY <2>4, <1>4 DEF Ranges
<1>7. CASE pos \in Grid /\ Advance(cells, k, i, pos)
  <2> DEFINE new == [self EXCEPT !.phase = "flying", !.pos = pos]
  <2>1. new.pos = pos
    BY <1>1 DEF Missile
  <2>2. missile' = [missile EXCEPT ![k] = [missile[k] EXCEPT ![i] = new]]
    BY <1>7 DEF Advance
  <2> HIDE DEF new
  <2>3. \A l \in Kind, j \in Index :
          missile'[l][j] = IF l = k /\ j = i THEN new ELSE missile[l][j]
    BY <1>1, <2>2
  <2> QED
    BY <2>1, <2>3, <1>7, GridPlace DEF Ranges
<1> QED
  BY <1>5, <1>6, <1>7 DEF Step, CollideAround

LEMMA ReplacePlace ==
  ASSUME IInv, Ranges, NEW k \in Kind, NEW i \in Index, NEW new, Replaced(k, i, new),
         new.pos \in Place
  PROVE  \A l \in Kind, j \in Index : missile'[l][j].pos \in Place
BY DEF IInv, Types, Ranges, Replaced

LEMMA NextRanges == IInv /\ Ranges /\ [Next]_vars => Ranges'
<1> SUFFICES ASSUME IInv, Ranges, [Next]_vars PROVE Ranges'
  OBVIOUS
<1> DEFINE InPlace == \A l \in Kind, j \in Index : missile'[l][j].pos \in Place
<1>1. /\ InPlace /\ seen' = seen => Ranges'
      /\ missile \in [Kind -> [Index -> Missile]]
      /\ "ATTACKER" \in Kind /\ "DEFENDER" \in Kind
  BY DEF Ranges, IInv, Types, Kind
<1> HIDE DEF InPlace
<1>2. noMissile.pos \in Place
  BY BattlefieldAssumption DEF noMissile, Place
<1>3. ASSUME NEW i \in Index, LaunchAtk(i) PROVE Ranges'
  <2>1. PICK x \in StartX :
          missile' = [missile EXCEPT !["ATTACKER"][i] =
                        [noMissile EXCEPT !.phase = "start", !.pos = <<x, ATK_START_Y>>]]
    BY <1>3 DEF LaunchAtk
  <2> DEFINE new == [noMissile EXCEPT !.phase = "start", !.pos = <<x, ATK_START_Y>>]
  <2>2. new.pos = <<x, ATK_START_Y>>
    BY DEF noMissile
  <2>3. <<x, ATK_START_Y>> \in Place
    BY BattlefieldAssumption DEF Place, ATK_START_Y
  <2>4. Replaced("ATTACKER", i, new)
    BY <2>1 DEF Replaced
  <2> HIDE DEF new
  <2> QED
    BY <1>1, <1>3, <2>2, <2>3, <2>4, ReplacePlace DEF LaunchAtk, InPlace
<1>4. ASSUME NEW i \in Index, AtkStep(i) \/ DefStep(i) PROVE Ranges'
  <2>1. PICK k \in Kind : \E pos : Step(k, i, pos)
    BY <1>1, <1>4 DEF AtkStep, DefStep
  <2>2. PICK pos : Step(k, i, pos)
    BY <2>1
  <2> QED
    BY <1>1, <2>2, StepPlace DEF InPlace, Step
<1>5. ASSUME NEW i \in Index, FirstScan(i) PROVE Ranges'
  <2> DEFINE old == missile["DEFENDER"][i]
             new == [old EXCEPT !.phase = "aimed"]
  <2>1. new.pos \in Place
    BY <1>1 DEF Ranges, Missile
  <2>2. Replaced("DEFENDER", i, new)
    BY <1>5 DEF FirstScan, Replaced
  <2> HIDE DEF new
  <2>3. InPlace
    BY <1>1, <2>1, <2>2, ReplacePlace DEF InPlace
  <2>4. seen' \in [Index -> Grid \cup {<<NONE, NONE>>}]
    BY <1>5, ScanGrid DEF FirstScan, Ranges
  <2> QED
    BY <2>3, <2>4 DEF Ranges, InPlace
<1>6. ASSUME NEW i \in Index, LastScan(i) PROVE Ranges'
  <2>1. PICK x \in StartPositions(seen[i], Scan(i)) :
          missile' = [missile EXCEPT !["DEFENDER"][i].phase = "start",
                                     !["DEFENDER"][i].pos = <<x, DEF_START_Y>>]
    BY <1>6 DEF LastScan
  <2> DEFINE old == missile["DEFENDER"][i]
             new == [old EXCEPT !.phase = "start", !.pos = <<x, DEF_START_Y>>]
  <2>2. new.pos \in Place
    <3>1. seen[i] \in Grid \cup {<<NONE, NONE>>}
      BY DEF Ranges
    <3>2. <<x, DEF_START_Y>> \in Place
      BY <2>1, <3>1, ScanGrid, StartPlace
    <3>3. new.pos = <<x, DEF_START_Y>>
      BY <1>1 DEF Missile
    <3> QED
      BY <3>2, <3>3
  <2>3. Replaced("DEFENDER", i, new)
    BY <2>1 DEF Replaced
  <2> HIDE DEF new
  <2>4. InPlace
    BY <1>1, <2>2, <2>3, ReplacePlace DEF InPlace
  <2>5. seen' \in [Index -> Grid \cup {<<NONE, NONE>>}]
    BY <1>6 DEF LastScan, Ranges
  <2> QED
    BY <2>4, <2>5 DEF Ranges, InPlace
<1>7. ASSUME NEW k \in Kind, NEW i \in Index, Clear(k, i) PROVE Ranges'
  BY <1>1, <1>2, <1>7, ReplacePlace DEF Clear, Replaced, InPlace
<1>8. CASE LaunchDef
  <2> DEFINE new == [noMissile EXCEPT !.phase = "aiming"]
  <2>1. index \in Index
    BY <1>8 DEF LaunchDef, IInv, IndexReserved
  <2>2. new.pos \in Place
    BY <1>2 DEF noMissile
  <2>3. Replaced("DEFENDER", index, new)
    BY <1>8 DEF LaunchDef, Replaced
  <2> HIDE DEF new
  <2> QED
    BY <1>1, <1>8, <2>1, <2>2, <2>3, ReplacePlace DEF LaunchDef, InPlace
<1>9. ASSUME NEW c \in Grid, SearchFinds(c) PROVE Ranges'
  <2> DEFINE v == cell[c].value
             new == [missile["ATTACKER"][v] EXCEPT !.target = index]
  <2>1. v \in Index
    BY <1>9, CellNames DEF SearchFinds, Candidates, IInv, Types, Cell, empty, Static
  <2>2. new.pos \in Place
    BY <1>1, <2>1 DEF Ranges, Missile
  <2>3. Replaced("ATTACKER", v, new)
    BY <1>9 DEF SearchFinds, Replaced
  <2> HIDE DEF new, v
  <2> QED
    BY <1>1, <1>9, <2>1, <2>2, <2>3, ReplacePlace DEF SearchFinds, InPlace
<1>10. CASE RequestDefIndex \/ UNCHANGED vars
  BY <1>1, <1>10 DEF RequestDefIndex, vars, Ranges, InPlace
<1> QED
  BY <1>3, <1>4, <1>5, <1>6, <1>7, <1>8, <1>9, <1>10 DEF Next, MissileNext

\* The variables stay in their ranges: both scores together never exceed the
\* attackers launched, and no position is farther outside of the grid than
\* where a missile starts.
THEOREM SpecTypeOK == Spec => []TypeOK
<1>1. IInv /\ Ranges /\ Points => TypeOK
  <2> SUFFICES ASSUME IInv, Ranges, Points PROVE TypeOK
    OBVIOUS
  <2>1. {atk_points, def_points, launched} \subseteq 0 .. LAUNCHES
    BY FiniteAlive, BattlefieldAssumption DEF Points
  <2>2. ASSUME NEW k \in Kind, NEW i \in Index
        PROVE  /\ missile[k][i].phase \in Phase
               /\ missile[k][i].pos \in (-1 .. XWIN) \X (0 .. YWIN)
               /\ missile[k][i].deleted \in BOOLEAN
               /\ missile[k][i].target \in Index \cup {NONE}
    BY DEF IInv, Types, Missile, Ranges, Place
  <2> QED
    BY <2>1, <2>2 DEF IInv, Types, Ranges, TypeOK
<1>2. Spec => []Ranges
  <2>1. IInv /\ Ranges /\ [Next]_vars => Ranges'
    BY NextRanges
  <2> QED
    BY <2>1, InitRanges, SpecIInv, PTL DEF Spec
<1>3. Spec => []Points
  BY InitPoints, NextPoints, SpecIInv, PTL DEF Spec
<1> QED
  BY <1>1, <1>2, <1>3, SpecIInv, PTL
=============================================================================
