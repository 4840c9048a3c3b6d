------------------------------- MODULE MCLadder -------------------------------
(***************************************************************************)
(* Ladder for TLC: the retry constants of the code, a quarter of a second  *)
(* as the unit of time, one short span and one that binds after it.        *)
(***************************************************************************)
EXTENDS Ladder

MCLen == [second |-> 4, day |-> 6]
MCCeiling == [second |-> 2, day |-> 2]
=============================================================================
