----------------------------- MODULE MCFifoQueue -----------------------------
(* FifoQueue for TLC: the tasks of the attack queue and of the defence queue. *)
EXTENDS FifoQueue

CONSTANTS main, atk_launcher, def_launcher
=============================================================================
