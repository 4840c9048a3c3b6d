------------------------------ MODULE DayBudget ------------------------------
(***************************************************************************)
(* What gap recovery promises a vendor: a request for a day is sent only   *)
(* out of a reservation already on disk, a reservation is never given      *)
(* back, and no day is ever reserved more than Limit times.                *)
(***************************************************************************)
EXTENDS Naturals

CONSTANTS Days, Limit

VARIABLES reserved,     \* reservations on disk, for each day
          asked         \* requests sent, for each day

Init == reserved = [d \in Days |-> 0] /\ asked = [d \in Days |-> 0]

Reserve ==
    /\ reserved' \in [Days -> 0..Limit]
    /\ \A d \in Days : reserved[d] <= reserved'[d]
    /\ UNCHANGED asked

Ask(d) ==
    /\ asked[d] < reserved[d]
    /\ asked' = [asked EXCEPT ![d] = @ + 1]
    /\ UNCHANGED reserved

Next == Reserve \/ \E d \in Days : Ask(d)

Spec == Init /\ [][Next]_<<reserved, asked>>
=============================================================================
