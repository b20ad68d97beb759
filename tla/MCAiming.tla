------------------------------ MODULE MCAiming -------------------------------
(* Aiming for TLC: attackers from slow to fast, from upright to the largest  *)
(* angle, to both sides.                                                     *)
EXTENDS Aiming

Velocities ==
  {<<0, 30>>, <<0, 66>>, <<0, 100>>, <<26, 16>>, <<-26, 16>>, <<86, 50>>,
   <<-86, 50>>, <<6, 30>>, <<-10, 46>>, <<18, 29>>, <<-28, 22>>, <<49, 52>>,
   <<-49, 69>>, <<53, 40>>, <<-3, 67>>, <<3, 99>>}

Straight == {<<0, 68>>}
=============================================================================
