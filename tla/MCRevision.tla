----------------------------- MODULE MCRevision -----------------------------
(* A source of one row, then two.  Two merges of the first keep its row    *)
(* and add a different one, a third loses it, a fourth is of both.         *)
EXTENDS Revision, TLC

CONSTANTS p1, p2

MCTimes == <<2, 3>>
MCOffers ==
  {[source |-> 1, rows |-> 1 :> 1 @@ 2 :> 1], [source |-> 1, rows |-> 1 :> 2 @@ 2 :> 1],
   [source |-> 1, rows |-> 1 :> 1], [source |-> 2, rows |-> 2 :> 1 @@ 3 :> 1]}

Symmetry == Permutations(Processes)
=============================================================================
