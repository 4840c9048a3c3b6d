------------------------------ MODULE MCGovernor ------------------------------
(***************************************************************************)
(* Governor for TLC: a short span and a long one, as Dhan has (five a      *)
(* second, 100,000 a day), shrunk so that each of them binds in turn and   *)
(* so that one step of the allowance is a permit in one and two in the     *)
(* other.                                                                  *)
(***************************************************************************)
EXTENDS Governor

MCLen == [second |-> 2, day |-> 5]
MCCeiling == [second |-> 2, day |-> 4]
=============================================================================
