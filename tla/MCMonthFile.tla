----------------------------- MODULE MCMonthFile -----------------------------
(***************************************************************************)
(* MonthFile for TLC.                                                      *)
(***************************************************************************)
EXTENDS MonthFile, TLC

Row(t, x) == [ts |-> t, v |-> x]

(* A feed that always tells the month from its start and always the same:  *)
(* what a rung derived from a whole finer month offers.                    *)
SteadyFeed == {[i \in 1 .. k |-> Row(i, 1)] : k \in 1 .. MaxRecs}

(* A feed that tells parts of the month, leaves bars out and restates them.*)
RestatedFeed == {<< Row(1, 1) >>, << Row(1, 1), Row(2, 1) >>, << Row(2, 2) >>,
                 << Row(2, 1), Row(3, 1) >>, << Row(1, 2), Row(3, 1) >>}

Symmetry == Permutations(Procs)

WholeMonth == [i \in 1 .. MaxRecs |-> Row(i, 1)]
RetrySpec == Spec /\ Fairness(WholeMonth)
=============================================================================
