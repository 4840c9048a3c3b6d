----------------------------- MODULE MCPullRun -----------------------------
(* A feed with three spot legs on two rungs and a derivative, ticked out   *)
(* of order, beside a feed with one leg.                                   *)
EXTENDS PullRun

CONSTANTS p1, dhan, groww

LegOf(feed, rank, route) == [feed |-> feed, rank |-> rank, route |-> route]

MCLegs == <<LegOf(dhan, 3, "fno"), LegOf(groww, 0, "spot"), LegOf(dhan, 0, "spot"),
            LegOf(dhan, 1, "spot"), LegOf(dhan, 0, "spot")>>
=============================================================================
