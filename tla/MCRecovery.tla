----------------------------- MODULE MCRecovery -----------------------------
(* One day, a plan for it and the successor of that plan once it is lost.  *)
EXTENDS Recovery, TLC

CONSTANTS d1, first, successor

MCWindows == (first :> <<{d1}>>) @@ (successor :> <<{d1}>>)
MCPred == (first :> NoPlan) @@ (successor :> first)
=============================================================================
