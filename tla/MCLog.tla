------------------------------- MODULE MCLog -------------------------------
(* A page of two, a page of everything, and everything since an instant.   *)
EXTENDS Log

MCQueries == {[limit |-> 2, since |-> 0], [limit |-> 9, since |-> 0], [limit |-> 9, since |-> 2]}
=============================================================================
