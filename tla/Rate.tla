-------------------------------- MODULE Rate --------------------------------
(***************************************************************************)
(* The arithmetic of pull/src/rate.rs: one token bucket per span that the  *)
(* vendor bounds, each with an allowance that steps down on a refusal and  *)
(* back up on a run of clean answers.  A governor is a function from the   *)
(* live spans to windows; an absent span (the None of the code) is simply  *)
(* not a member of Spans.                                                  *)
(*                                                                         *)
(* Credit is counted in micro-permits, as in the code: a permit of span s  *)
(* costs Len[s] and a window earns its allowance per unit of time.  The    *)
(* code's u64 sums saturate; the product MaxCeiling * Len stays below      *)
(* u64::MAX / 100 by a compile-time assertion and every sum is cut at the  *)
(* capacity, so natural numbers say the same.                              *)
(***************************************************************************)
EXTENDS Integers

CONSTANTS
  Spans,             \* the spans this vendor bounds, of Second, Minute, Day
  Longest,           \* MICROS_PER_DAY, the longest span there is
  Len,               \* WindowSpan::len_micros
  Ceiling,           \* the published figure of each span
  MaxCeiling,        \* MAX_CEILING
  SuccessesPerStep,  \* SUCCESSES_PER_STEP
  BackoffSteps       \* BACKOFF_STEPS

\* Window::new refuses a ceiling of zero and one past MAX_CEILING; the two
\* step constants are asserted at compile time.
ASSUME RateAssumption ==
  /\ MaxCeiling \in Nat \ {0}
  /\ Longest \in Nat \ {0}
  /\ Len \in [Spans -> 1..Longest]
  /\ Ceiling \in [Spans -> 1..MaxCeiling]
  /\ SuccessesPerStep \in Nat \ {0, 1}
  /\ BackoffSteps \in Nat \ {0}

Least(a, b) == IF a <= b THEN a ELSE b
Most(a, b) == IF a >= b THEN a ELSE b
CeilDiv(a, b) == (a + b - 1) \div b

\* A governor that has spent nothing: every bucket is full.
Fresh == [s \in Spans |->
  [permitted |-> Ceiling[s], credit |-> Ceiling[s] * Len[s], earned |-> 0]]

Capacity(g, s) == g[s].permitted * Len[s]

Earn(g, elapsed) == [s \in Spans |-> [g[s] EXCEPT
  !.credit = Least(g[s].credit + elapsed * g[s].permitted, Capacity(g, s))]]

\* Slip: the wait rounds down, toward issuing more.
MutWaitOf(g, s) == (Len[s] - g[s].credit) \div g[s].permitted

\* The windows that cannot afford a permit, and how long each needs.
Short(g) == {s \in Spans : g[s].credit < Len[s]}
WaitOf(g, s) == CeilDiv(Len[s] - g[s].credit, g[s].permitted)

\* Slip: a denial names the span with the shortest wait.
MutBinding(g) == CHOOSE s \in Short(g) :
  \A t \in Short(g) : WaitOf(g, s) <= WaitOf(g, t)

\* The span a denial names: the longest wait, ties to the shorter span.
Binding(g) == CHOOSE s \in Short(g) : \A t \in Short(g) :
  \/ WaitOf(g, t) < WaitOf(g, s)
  \/ WaitOf(g, t) = WaitOf(g, s) /\ Len[s] <= Len[t]

Charge(g) == [s \in Spans |-> [g[s] EXCEPT !.credit = @ - Len[s]]]

StepOf(s) == Most(1, Ceiling[s] \div BackoffSteps)

Tightened(s, w) ==
  IF w.earned + 1 < SuccessesPerStep
  THEN [w EXCEPT !.earned = @ + 1]
  ELSE [w EXCEPT !.earned = 0,
                 !.permitted = Least(@ + StepOf(s), Ceiling[s])]

\* Slips: a refusal that keeps the credit, that keeps the bank, and one that
\* can reach an allowance of zero.
MutKeepsCredit(s, w) ==
  [w EXCEPT !.permitted = Most(1, @ - StepOf(s)), !.earned = 0]
MutKeepsBank(s, w) ==
  [w EXCEPT !.permitted = Most(1, @ - StepOf(s)), !.credit = 0]
Relaxed(s, w) ==
  [permitted |-> Most(1, w.permitted - StepOf(s)), credit |-> 0, earned |-> 0]

\* A vendor's answer names no span, so it moves every window.
RecordSuccess(g) == [s \in Spans |-> Tightened(s, g[s])]
RecordThrottled(g) == [s \in Spans |-> Relaxed(s, g[s])]
=============================================================================
