---------------------------- MODULE DisplayProofs ----------------------------
(* The game with its screen implements Battlefield, which leaves open what   *)
(* is seen.                                                                  *)
EXTENDS Display, TLAPS

\* What is drawn, copied or left on the screen changes nothing of the game,
\* and a search that finds a target finds one of Battlefield's candidates,
\* however old or torn the frame is.
LEMMA DisplayStep == [DisplayNext]_allVars => [Next]_vars
<1> SUFFICES ASSUME [DisplayNext]_allVars PROVE [Next]_vars
  OBVIOUS
<1>1. CASE GameStep
  BY <1>1 DEF GameStep, Next
<1>2. CASE Draw
  BY <1>2 DEF Draw
<1>3. CASE Blit
  BY <1>3 DEF Blit
<1>4. CASE SearchScreen
  <2>1. PICK copied \in Copied :
          SearchFinds(First(Seen(copied) \cap Candidates, Above))
    BY <1>4 DEF SearchScreen
  <2>2. First(Seen(copied) \cap Candidates, Above) \in Grid
    BY <2>1 DEF SearchFinds, Candidates
  <2> QED
    BY <2>1, <2>2 DEF Next
<1>5. CASE UNCHANGED allVars
  BY <1>5 DEF allVars
<1> QED
  BY <1>1, <1>2, <1>3, <1>4, <1>5 DEF DisplayNext

\* The display manager and a launcher that reads the screen implement
\* Battlefield: a safety property of the battlefield holds whatever the
\* display shows.
THEOREM DisplayImplementsBattlefield == DisplaySpec => Spec
<1>1. DisplayInit => Init
  BY DEF DisplayInit
<1> QED
  BY <1>1, DisplayStep, PTL DEF DisplaySpec, Spec

=============================================================================
