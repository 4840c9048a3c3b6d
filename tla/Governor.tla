------------------------------ MODULE Governor ------------------------------
(***************************************************************************)
(* One vendor's rate governor, as the callers that share it see it: each   *)
(* call holds the governor's mutex, so a call is one step.  Time passes    *)
(* between calls; the clock a caller reads may lag behind it by up to      *)
(* MaxSkew and come back (a step of the wall clock, a resumed machine),    *)
(* which advance_to answers with a cursor that only moves forward.         *)
(*                                                                         *)
(* open, drained, clean, told and refused are history: they are read   *)
(* by properties and by no guard.                                          *)
(***************************************************************************)
EXTENDS Rate

CONSTANTS
  MaxTime,   \* bound on the time a behaviour lasts
  MaxSkew    \* how far the clock may fall behind time; 0 is a monotonic one

ASSUME GovernorAssumption == MaxTime \in Nat /\ MaxSkew \in Nat

VARIABLES
  gov,          \* Governor::windows
  cursor,       \* Governor::cursor_micros
  time,         \* time itself
  skew,         \* how far the clock reads behind time
  open,         \* permits given since an arbitrary instant
  drained,      \* permits given since the last refusal for rate
  clean,        \* clean answers since that refusal
  told,         \* when the last denial's wait is over, until something changes it
  refused       \* a refusal for rate has been recorded

vars == <<gov, cursor, time, skew, open, drained, clean, told, refused>>

Never == -1
Interval == [from : Int, spent : Nat]

TypeOK ==
  /\ gov \in [Spans -> [permitted : Nat, credit : Nat, earned : Nat]]
  /\ \A s \in Spans : /\ gov[s].permitted \in 1..Ceiling[s]
                      /\ gov[s].credit <= Capacity(gov, s)
                      /\ gov[s].earned < SuccessesPerStep
  /\ cursor \in 0..time
  /\ time \in Nat
  /\ skew \in 0..MaxSkew
  /\ open \in Interval
  /\ drained \in Interval
  /\ clean \in 0..SuccessesPerStep
  /\ told \in Nat \cup {Never}
  /\ refused \in BOOLEAN

Init ==
  /\ gov = Fresh
  /\ cursor = 0
  /\ time = 0
  /\ skew = 0
  /\ open = [from |-> 0, spent |-> 0]
  /\ drained = [from |-> 0, spent |-> 0]
  /\ clean = 0
  /\ told = Never
  /\ refused = FALSE

\* What a caller's clock reads.
Now == Most(0, time - skew)
Elapsed == Most(0, Now - cursor)

\* Slip: the cursor follows the clock down.
MutForward == Now
Forward == Most(cursor, Now)

\* Governor::advance_to, the first half of every admit.
Advanced == Earn(gov, Elapsed)

Counted(interval) == [interval EXCEPT !.spent = @ + 1]

\* Every live window must afford a permit before any window is charged.
Admit ==
  /\ Short(Advanced) = {}
  /\ gov' = Charge(Advanced)
  /\ cursor' = Forward
  /\ open' = Counted(open)
  /\ drained' = Counted(drained)
  /\ told' = Never
  /\ UNCHANGED <<time, skew, clean, refused>>

\* A denial earns what has elapsed, charges nothing and names the wait, which
\* a caller whose clock has reached the cursor counts from now.
Deny ==
  /\ Short(Advanced) # {}
  /\ gov' = Advanced
  /\ cursor' = Forward
  /\ told' = IF Forward = time THEN time + WaitOf(Advanced, Binding(Advanced))
             ELSE Never
  /\ UNCHANGED <<time, skew, open, drained, clean, refused>>

Succeed ==
  /\ gov' = RecordSuccess(gov)
  /\ clean' = Least(clean + 1, SuccessesPerStep)
  /\ UNCHANGED <<cursor, time, skew, open, drained, told, refused>>

Throttle ==
  /\ gov' = RecordThrottled(gov)
  /\ drained' = [from |-> cursor, spent |-> 0]
  /\ clean' = 0
  /\ told' = Never
  /\ refused' = TRUE
  /\ UNCHANGED <<cursor, time, skew, open>>

Tick ==
  /\ time < MaxTime
  /\ time' = time + 1
  /\ UNCHANGED <<gov, cursor, skew, open, drained, clean, told, refused>>

StepClock ==
  /\ skew' \in 0..MaxSkew \ {skew}
  /\ UNCHANGED <<gov, cursor, time, open, drained, clean, told, refused>>

\* History only: an interval may be opened at any instant.
OpenInterval ==
  /\ open' = [from |-> time, spent |-> 0]
  /\ UNCHANGED <<gov, cursor, time, skew, drained, clean, told, refused>>

Next == Admit \/ Deny \/ Succeed \/ Throttle \/ Tick \/ StepClock \/ OpenInterval

Spec == Init /\ [][Next]_vars

-----------------------------------------------------------------------------
(* What the governor promises. *)

\* rate.rs:150: over an interval of length T no more than capacity + rate * T
\* permits are given, the published ceiling being the rate, for an interval
\* opened at any instant, whatever mix of refusals and clean answers it saw;
\* a clock that lags can shift at most its own lag into the interval.
NeverOverCeiling == \A s \in Spans :
  open.spent * Len[s] <= Ceiling[s] * (Len[s] + (time - open.from) + MaxSkew)

\* rate.rs:738: after a refusal the banked budget is gone, so what is given
\* since is earned since the last call before it: no burst survives a refusal.
RefusalIsObeyed == refused => \A s \in Spans :
  drained.spent * Len[s] <= Ceiling[s] * (cursor - drained.from)

\* rate.rs:484: the wait a denial names clears it, and one unit less does
\* not, whatever the other windows lack.
WaitIsExact == Short(gov) # {} =>
  LET wait == WaitOf(gov, Binding(gov))
  IN  Short(Earn(gov, wait)) = {} /\ Short(Earn(gov, wait - 1)) # {}

\* The same from the caller's side: asked again once the named time has
\* passed, on a clock that does not lag at either call, with nothing charged or
\* refused in between, the governor admits, however the clock dipped meanwhile.
WaitSuffices == [][told # Never /\ told <= time /\ skew = 0 => ~Deny]_vars

\* rate.rs:745: an allowance rises only after SUCCESSES_PER_STEP clean answers
\* since the last refusal; answers banked before it lend nothing.
RiseIsEarned == [][\A s \in Spans :
  gov'[s].permitted > gov[s].permitted => clean' = SuccessesPerStep]_vars

=============================================================================
