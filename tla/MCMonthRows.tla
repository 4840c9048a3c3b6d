----------------------------- MODULE MCMonthRows -----------------------------
(***************************************************************************)
(* The decision `append` takes, for every ordered month and every batch of *)
(* small size, against what the decision should be.                        *)
(***************************************************************************)
EXTENDS MonthRows, TLC

CONSTANT MaxBatch     \* bound: longest batch offered

ASSUME MaxBatchAssumption == MaxBatch \in Nat

VARIABLES month,      \* the committed records of a file whose blocks verify
          batch,      \* the batch offered
          answered    \* whether `append` has decided

Rows == [ts : Times, v : Vals]
Ordered(rows) == \A i \in 1 .. Len(rows) - 1 : rows[i].ts < rows[i + 1].ts
Months == UNION {{m \in [1 .. k -> Rows] : Ordered(m)} : k \in 0 .. MaxRecs}
Batches == UNION {[1 .. k -> Rows] : k \in 0 .. MaxBatch}

Init == month \in Months /\ batch \in Batches /\ answered = FALSE
Next == ~answered /\ answered' = TRUE /\ UNCHANGED << month, batch >>
Spec == Init /\ [][Next]_<< month, batch, answered >>

FileOf(m) == [i \in Pos |-> IF i <= Len(m) THEN m[i] ELSE Nothing]
Decision == Plan(FileOf(month), Len(month), IF month = << >> THEN 0 ELSE month[Len(month)].ts,
                 {}, batch)

-----------------------------------------------------------------------------
(* The batch is one contiguous run of the committed records.               *)
IsRunOf(b, m) == \E at \in 0 .. Len(m) - Len(b) : SubSeq(m, at + 1, at + Len(b)) = b

(* The batch extends the month: a first part, maybe empty, repeats the last *)
(* records and the rest, not empty, is later than all of them.             *)
Extension(b, m, k) ==
    /\ k < Len(b) /\ k <= Len(m)
    /\ SubSeq(m, Len(m) - k + 1, Len(m)) = SubSeq(b, 1, k)
    /\ m # << >> => b[k + 1].ts > m[Len(m)].ts

(* `append` takes exactly the bars that extend the month, answers          *)
(* AlreadyPresent exactly for a run of committed bars, and refuses the rest:*)
(* a re-pull is a no-op wherever it lies, a resumed pull adds what is new, *)
(* and a restated or out-of-order bar is never dropped or stored.          *)
DecisionIsRight ==
    LET ordered == batch # << >> /\ Ordered(batch)
    IN  CASE ordered /\ IsRunOf(batch, month) -> Decision.kind = "present"
          [] ordered /\ \E k \in 0 .. Len(batch) - 1 : Extension(batch, month, k) ->
                \E k \in 0 .. Len(batch) - 1 :
                    /\ Extension(batch, month, k)
                    /\ Decision = [kind |-> "follows", rows |-> SubSeq(batch, k + 1, Len(batch))]
          [] OTHER -> Decision = Refused
=============================================================================
