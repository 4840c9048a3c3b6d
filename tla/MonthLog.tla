------------------------------- MODULE MonthLog -------------------------------
(***************************************************************************)
(* What a month file promises: a log of bars in time order that grows at   *)
(* its end, and that a crash cuts back at most to what has been reported   *)
(* committed.                                                              *)
(***************************************************************************)
EXTENDS Naturals, Sequences

CONSTANT Bar            \* the bars, records with a timestamp ts

VARIABLES month,        \* the bars a reader of the month sees
          acked         \* the bars reported committed

Ordered(rows) == \A i \in 1 .. Len(rows) - 1 : rows[i].ts < rows[i + 1].ts

Init == month = << >> /\ acked = << >>

(* Bars are published at the end of the month, all of a batch or none.     *)
Publish ==
    /\ Len(month') > Len(month)
    /\ month' \in Seq(Bar)
    /\ SubSeq(month', 1, Len(month)) = month
    /\ Ordered(month')
    /\ UNCHANGED acked

(* What has been published is reported committed.                          *)
Acknowledge == acked' = month /\ UNCHANGED month

(* A crash takes back what was published and not reported committed.       *)
Lose ==
    /\ \E n \in Len(acked) .. Len(month) : month' = SubSeq(month, 1, n)
    /\ UNCHANGED acked

Next == Publish \/ Acknowledge \/ Lose

Spec == Init /\ [][Next]_<< month, acked >>
=============================================================================
