---------------------------- MODULE MCBattlefield ----------------------------
(* Battlefield for TLC: small fields.                                        *)
EXTENDS Battlefield

Both == {-1, 0, 1}
Straight == {0}
ByOne == {1}
ByTwo == {2}
Up == {-1}
=============================================================================
