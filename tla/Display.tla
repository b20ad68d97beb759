------------------------------- MODULE Display -------------------------------
(***************************************************************************)
(* The display manager of gestor.c, and the defence launcher that reads    *)
(* the screen back: the game of Battlefield in which the launcher only     *)
(* finds what the display has drawn.                                       *)
(*                                                                         *)
(* Of a bitmap only the pixels in the attackers' colour are kept: nothing  *)
(* else is read back.  A frame is drawn into the buffer inside access_env, *)
(* and copied to the screen outside: a search that runs meanwhile sees     *)
(* pixels of two frames, and a frame is older than the cells in any case.  *)
(***************************************************************************)
EXTENDS Battlefield

CONSTANTS
  Legend,  \* pixels the legend paints in the attackers' colour
  Label    \* pixels under text

ASSUME DisplayAssumption == Legend \subseteq Grid /\ Label \subseteq Grid

VARIABLES
  buffer,  \* the bitmap of the display manager
  screen,  \* the screen of Allegro
  drawing  \* where the display manager is

displayVars == <<buffer, screen, drawing>>
allVars == <<vars, displayVars>>

DisplayInit ==
  /\ Init
  /\ buffer = {}
  /\ screen = {}
  /\ drawing = "draw"

-----------------------------------------------------------------------------
\* The frame

\* draw_missile: circlefill around the centre of the missile, which is a cell
\* of the grid.  Allegro clips the disc to the bitmap; a pixel outside is never
\* looked at, so the model keeps it.
Disc(c) ==
  LET r == -MISSILE_RADIUS .. MISSILE_RADIUS
  IN  {<<c[1] + d[1], c[2] + d[2]>> : d \in
         {e \in r \X r : e[1] * e[1] + e[2] * e[2] <= MISSILE_RADIUS * MISSILE_RADIUS}}

\* The part of the disc of c that nothing drawn later covers; the cells of
\* the field are drawn too, each as a pixel.
Visible(c) ==
  LET later == {e \in Grid : ~ IsEmpty(cell[e]) /\ Before(c, e)}
  IN  Disc(c) \ UNION {IF IsMissile(cell[e]) THEN Disc(e) ELSE {e} : e \in later}

\* draw_env: text and legend come last.
Frame ==
  LET attackers == {c \in MissileCells : cell[c].type = "ATTACKER"}
  IN  ((UNION {Visible(c) : c \in attackers}) \cup Legend) \ Label

\* reset_buffer, draw_env
Draw ==
  /\ drawing = "draw"
  /\ drawing' = "blit"
  /\ buffer' = Frame
  /\ UNCHANGED <<vars, screen>>

\* draw_buffer_to_screen
Blit ==
  /\ drawing = "blit"
  /\ drawing' = "draw"
  /\ screen' = buffer
  /\ UNCHANGED <<vars, buffer>>

-----------------------------------------------------------------------------
\* The search

\* The pixels that a search reads after they were copied.  It runs beside the
\* blit, either may overtake the other and be preempted: any of the pixels it
\* asks for may be new.
Copied == IF drawing = "draw" THEN {{}} ELSE SUBSET Candidates

Seen(copied) == (buffer \cap copied) \cup (screen \ copied)

\* Rows first, then columns.
Above(c, d) == c[2] < d[2] \/ (c[2] = d[2] /\ c[1] < d[1])

\* search_screen_for_target, when it finds a target.
SearchScreen ==
  /\ launcher = "search"
  /\ \E copied \in Copied :
       LET found == Seen(copied) \cap Candidates
       IN  found # {} /\ SearchFinds(First(found, Above))
  /\ UNCHANGED displayVars

-----------------------------------------------------------------------------
GameStep == (MissileNext \/ RequestDefIndex \/ LaunchDef) /\ UNCHANGED displayVars

DisplayNext == GameStep \/ Draw \/ Blit \/ SearchScreen

DisplaySpec == DisplayInit /\ [][DisplayNext]_allVars

\* The display manager and the defence launcher are periodic tasks, and so are
\* the missiles; only the defenders have to get on, for an attacker is as slow
\* as it likes.
FairDisplaySpec ==
  /\ DisplaySpec
  /\ WF_allVars(Draw) /\ WF_allVars(Blit) /\ WF_allVars(SearchScreen)
  /\ WF_allVars(RequestDefIndex /\ UNCHANGED displayVars)
  /\ WF_allVars(LaunchDef /\ UNCHANGED displayVars)
  /\ \A i \in Index :
       /\ WF_allVars(FirstScan(i) /\ UNCHANGED displayVars)
       /\ WF_allVars(LastScan(i) /\ UNCHANGED displayVars)
       /\ WF_allVars(DefStep(i) /\ UNCHANGED displayVars)
       /\ WF_allVars(Clear("DEFENDER", i) /\ UNCHANGED displayVars)

-----------------------------------------------------------------------------
\* The attacker i is shown in its cell, not hidden by text.
Shown(i) ==
  LET c == missile["ATTACKER"][i].pos
  IN  c \in Grid \ Label /\ cell[c].type = "ATTACKER" /\ cell[c].value = i

Followed(i) ==
  \E d \in Index : /\ cell[missile["ATTACKER"][i].pos].target = d
                   /\ missile["DEFENDER"][d].phase # "none"

Moves(i) == missile'["ATTACKER"][i].pos # missile["ATTACKER"][i].pos

\* Every attacker is noticed: one that stays where no text hides it has a
\* defender again and again, also after a defender has missed it, however old
\* the frames and wherever the blit is.
AttackerIsTracked ==
  \A i \in Index : []<>(Shown(i) => Followed(i)) \/ []<><<Moves(i)>>_allVars

\* A defender is only ever set on an attacker: when the screen is up to date,
\* what the search takes for an untracked attacker is one.
TargetIsAttacker ==
  launcher = "search" /\ drawing = "draw" /\ screen = Frame
    => \A c \in screen \cap Candidates : cell[c].type = "ATTACKER"
=============================================================================
