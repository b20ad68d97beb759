------------------------------ MODULE MCDisplay ------------------------------
(* Display for TLC: small fields.                                            *)
EXTENDS Display

LegendPixel == {<<3, 3>>}
LabelPixel == {<<3, 5>>}
Both == {-1, 0, 1}
Straight == {0}
ByOne == {1}
ByOneOrNone == {0, 1}
Up == {-1}
=============================================================================
