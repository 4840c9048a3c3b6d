----------------------------- MODULE Rate_proofs -----------------------------
(***************************************************************************)
(* The promises of a vendor's rate governor, to the callers that share it  *)
(* and to the chain of requests that waits for it, and the arithmetic both *)
(* rest on: for every set of spans, every ceiling and every step constant. *)
(***************************************************************************)
EXTENDS Governor, Ladder, TLAPS, WellFoundedInduction

-----------------------------------------------------------------------------
(***************************************************************************)
(* Facts about the arithmetic of Rate, for every set of spans, every       *)
(* ceiling and every pair of step constants: each operation keeps a        *)
(* governor good, and the wait a denial names is the shortest that pays.   *)
(***************************************************************************)

-----------------------------------------------------------------------------
(* Arithmetic. *)

LEMMA ProductIsNat == ASSUME NEW a \in Nat, NEW b \in Nat PROVE a * b \in Nat
  OBVIOUS

LEMMA ProductIsMonotone ==
  ASSUME NEW a \in Nat, NEW b \in Nat, NEW c \in Nat, a <= b
  PROVE  a * c <= b * c /\ c * a <= c * b
  OBVIOUS

LEMMA Distributes ==
  ASSUME NEW a \in Int, NEW b \in Int, NEW c \in Int
  PROVE  /\ (a + b) * c = a * c + b * c
         /\ c * (a + b) = c * a + c * b
         /\ (a - b) * c = a * c - b * c
         /\ c * (a - b) = c * a - c * b
         /\ a * c = c * a
  OBVIOUS

\* What div_ceil computes: the smallest number of shares that covers.
LEMMA CeilDivIsExact ==
  ASSUME NEW a \in Nat \ {0}, NEW b \in Nat \ {0}
  PROVE  /\ CeilDiv(a, b) \in Nat \ {0}
         /\ a <= CeilDiv(a, b) * b
         /\ (CeilDiv(a, b) - 1) * b < a
<1> DEFINE n == a + b - 1
           q == n \div b
<1>1. n \in Nat /\ n >= b
  OBVIOUS
<1>2. q \in Int /\ n = b * q + (n % b) /\ n % b \in 0..(b - 1)
  BY <1>1
<1>3. b * q = q * b
  BY <1>2
<1>4. a <= q * b
  BY <1>2, <1>3
<1>5. (q - 1) * b = q * b - b
  BY <1>2, Distributes
<1>6. (q - 1) * b < a
  BY <1>2, <1>3, <1>5
<1>7. q > 0
  <2>1. CASE q <= 0
    <3>1. q * b <= 0
      BY <1>2, <2>1
    <3> QED
      BY <1>4, <3>1, <1>2
  <2> QED
    BY <2>1, <1>2
<1> QED
  BY <1>2, <1>4, <1>6, <1>7 DEF CeilDiv

-----------------------------------------------------------------------------
(* Windows and governors. *)

WindowRecord == [permitted : Nat, credit : Nat, earned : Nat]

\* The part of the type invariant that is about the windows.
GoodGovernor(g) ==
  /\ g \in [Spans -> WindowRecord]
  /\ \A s \in Spans : /\ g[s].permitted \in 1..Ceiling[s]
                      /\ g[s].credit <= Capacity(g, s)
                      /\ g[s].earned < SuccessesPerStep

LEMMA SpanFacts ==
  ASSUME NEW s \in Spans
  PROVE  /\ Len[s] \in Nat \ {0}
         /\ Ceiling[s] \in Nat \ {0}
         /\ Ceiling[s] * Len[s] \in Nat
         /\ StepOf(s) \in Nat \ {0}
<1>1. Len[s] \in Nat \ {0} /\ Ceiling[s] \in Nat \ {0}
  BY RateAssumption
<1>2. Ceiling[s] \div BackoffSteps \in Int
  BY <1>1, RateAssumption
<1>3. StepOf(s) \in Nat \ {0}
  BY <1>2 DEF StepOf, Most
<1> QED
  BY <1>1, <1>3, ProductIsNat

LEMMA FreshIsGood == GoodGovernor(Fresh)
<1> SUFFICES ASSUME NEW s \in Spans
             PROVE  /\ Fresh[s] \in WindowRecord
                    /\ Fresh[s].permitted \in 1..Ceiling[s]
                    /\ Fresh[s].credit <= Capacity(Fresh, s)
                    /\ Fresh[s].earned < SuccessesPerStep
  BY DEF GoodGovernor, Fresh
<1> QED
  BY SpanFacts, RateAssumption DEF Fresh, WindowRecord, Capacity

\* Earning never fills a window past its capacity, and adds no more than the
\* published rate allows.
LEMMA Earning ==
  ASSUME NEW g, GoodGovernor(g), NEW elapsed \in Nat
  PROVE  /\ GoodGovernor(Earn(g, elapsed))
         /\ \A s \in Spans :
              /\ Earn(g, elapsed)[s].permitted = g[s].permitted
              /\ Earn(g, elapsed)[s].credit <= g[s].credit + Ceiling[s] * elapsed
<1> DEFINE e == Earn(g, elapsed)
<1>1. ASSUME NEW s \in Spans
      PROVE  /\ e[s] \in WindowRecord
             /\ e[s].permitted = g[s].permitted
             /\ e[s].earned = g[s].earned
             /\ e[s].credit <= Capacity(e, s)
             /\ e[s].credit <= g[s].credit + Ceiling[s] * elapsed
  <2>1. /\ g[s] \in WindowRecord
        /\ g[s].permitted \in 1..Ceiling[s]
    BY <1>1 DEF GoodGovernor
  <2>2. e[s] = [g[s] EXCEPT !.credit =
                  Least(g[s].credit + elapsed * g[s].permitted, Capacity(g, s))]
    BY <1>1 DEF Earn
  <2>3. /\ e[s].permitted = g[s].permitted
        /\ e[s].earned = g[s].earned
        /\ e[s].credit = Least(g[s].credit + elapsed * g[s].permitted, Capacity(g, s))
        /\ DOMAIN e[s] = {"permitted", "credit", "earned"}
    BY <2>1, <2>2 DEF WindowRecord
  <2>4. /\ g[s].permitted \in Nat /\ g[s].credit \in Nat
        /\ Capacity(g, s) \in Nat
        /\ elapsed * g[s].permitted \in Nat
        /\ elapsed * g[s].permitted <= elapsed * Ceiling[s]
        /\ elapsed * Ceiling[s] = Ceiling[s] * elapsed
    <3>1. g[s].permitted \in Nat /\ g[s].credit \in Nat
      BY <2>1 DEF WindowRecord
    <3>2. Ceiling[s] \in Nat /\ Len[s] \in Nat
      BY SpanFacts
    <3> QED
      BY <2>1, <3>1, <3>2, ProductIsNat, ProductIsMonotone, Distributes DEF Capacity
  <2>5. Ceiling[s] * elapsed \in Nat
    BY SpanFacts, ProductIsNat
  <2>6. /\ e[s].credit \in Nat
        /\ e[s].credit <= Capacity(g, s)
        /\ e[s].credit <= g[s].credit + Ceiling[s] * elapsed
    BY <2>3, <2>4, <2>5 DEF Least
  <2>7. e[s] \in WindowRecord
    BY <2>1, <2>2, <2>3, <2>6 DEF WindowRecord
  <2> QED
    BY <2>3, <2>6, <2>7 DEF Capacity
<1>2. e \in [Spans -> WindowRecord]
  BY <1>1 DEF Earn
<1> QED
  BY <1>1, <1>2 DEF GoodGovernor

\* A permit is charged only where it is covered.
LEMMA Charging ==
  ASSUME NEW g, GoodGovernor(g), Short(g) = {}
  PROVE  /\ GoodGovernor(Charge(g))
         /\ \A s \in Spans : Charge(g)[s].credit = g[s].credit - Len[s]
<1>1. ASSUME NEW s \in Spans
      PROVE  /\ Charge(g)[s] \in WindowRecord
             /\ Charge(g)[s].permitted = g[s].permitted
             /\ Charge(g)[s].earned = g[s].earned
             /\ Charge(g)[s].credit = g[s].credit - Len[s]
             /\ Charge(g)[s].credit <= Capacity(Charge(g), s)
  <2>1. g[s] \in WindowRecord /\ g[s].credit <= Capacity(g, s) /\ Len[s] \in Nat
    BY SpanFacts DEF GoodGovernor
  <2>2. g[s].credit >= Len[s]
    BY <2>1 DEF Short, WindowRecord
  <2>3. Charge(g)[s] = [g[s] EXCEPT !.credit = g[s].credit - Len[s]]
    BY DEF Charge
  <2>4. g[s].credit - Len[s] \in Nat
    BY <2>1, <2>2 DEF WindowRecord
  <2>5. Capacity(g, s) \in Nat
    BY <2>1, ProductIsNat DEF Capacity, WindowRecord
  <2> QED
    BY <2>1, <2>3, <2>4, <2>5 DEF WindowRecord, Capacity
<1>2. Charge(g) \in [Spans -> WindowRecord]
  BY <1>1 DEF Charge
<1> QED
  BY <1>1, <1>2 DEF GoodGovernor

\* A clean answer banks toward a step, or takes it; the credit stays.
LEMMA Tightening ==
  ASSUME NEW g, GoodGovernor(g)
  PROVE  /\ GoodGovernor(RecordSuccess(g))
         /\ \A s \in Spans :
              /\ RecordSuccess(g)[s].credit = g[s].credit
              /\ RecordSuccess(g)[s].earned <= g[s].earned + 1
              /\ RecordSuccess(g)[s].permitted >= g[s].permitted
              /\ RecordSuccess(g)[s].permitted > g[s].permitted
                   => g[s].earned + 1 = SuccessesPerStep
<1> DEFINE r == RecordSuccess(g)
<1>1. ASSUME NEW s \in Spans
      PROVE  /\ r[s] \in WindowRecord
             /\ r[s].permitted \in 1..Ceiling[s]
             /\ r[s].permitted >= g[s].permitted
             /\ r[s].credit = g[s].credit
             /\ r[s].earned < SuccessesPerStep
             /\ r[s].earned <= g[s].earned + 1
             /\ r[s].permitted > g[s].permitted
                   => g[s].earned + 1 = SuccessesPerStep
  <2>1. /\ g[s] \in WindowRecord
        /\ g[s].permitted \in 1..Ceiling[s]
        /\ g[s].earned < SuccessesPerStep
        /\ Ceiling[s] \in Nat \ {0} /\ StepOf(s) \in Nat \ {0}
        /\ SuccessesPerStep \in Nat \ {0, 1}
    BY SpanFacts, RateAssumption DEF GoodGovernor
  <2>2. r[s] = Tightened(s, g[s])
    BY DEF RecordSuccess
  <2>3. CASE g[s].earned + 1 < SuccessesPerStep
    <3>1. r[s] = [g[s] EXCEPT !.earned = g[s].earned + 1]
      BY <2>2, <2>3 DEF Tightened
    <3> QED
      BY <2>1, <2>3, <3>1 DEF WindowRecord
  <2>4. CASE ~(g[s].earned + 1 < SuccessesPerStep)
    <3> DEFINE up == Least(g[s].permitted + StepOf(s), Ceiling[s])
    <3>1. r[s] = [g[s] EXCEPT !.earned = 0, !.permitted = up]
      BY <2>2, <2>4 DEF Tightened
    <3>2. up \in 1..Ceiling[s] /\ up \in Nat /\ up >= g[s].permitted
      BY <2>1 DEF Least, WindowRecord
    <3> HIDE DEF up
    <3>3. r[s] = [permitted |-> up, credit |-> g[s].credit, earned |-> 0]
      BY <2>1, <3>1 DEF WindowRecord
    <3>4. r[s].permitted = up /\ r[s].credit = g[s].credit /\ r[s].earned = 0
      BY <3>3
    <3>5. r[s] \in WindowRecord
      BY <2>1, <3>2, <3>3 DEF WindowRecord
    <3>6. g[s].earned \in Nat
      BY <2>1 DEF WindowRecord
    <3>7. g[s].earned + 1 = SuccessesPerStep
      BY <2>1, <2>4, <3>6
    <3> HIDE DEF r
    <3> QED
      BY <2>1, <3>2, <3>4, <3>5, <3>6, <3>7
  <2> QED
    BY <2>3, <2>4
<1>2. ASSUME NEW s \in Spans
      PROVE  r[s].credit <= Capacity(r, s)
  <2>1. /\ g[s].permitted \in Nat /\ r[s].permitted \in Nat /\ Len[s] \in Nat
        /\ g[s].credit \in Nat /\ g[s].credit <= g[s].permitted * Len[s]
    BY <1>1, SpanFacts DEF GoodGovernor, WindowRecord, Capacity
  <2>2. g[s].permitted * Len[s] <= r[s].permitted * Len[s]
    BY <1>1, <2>1, ProductIsMonotone
  <2>3. g[s].permitted * Len[s] \in Nat /\ r[s].permitted * Len[s] \in Nat
    BY <2>1, ProductIsNat
  <2> QED
    BY <1>1, <2>1, <2>2, <2>3 DEF Capacity
<1>3. r \in [Spans -> WindowRecord]
  BY <1>1 DEF RecordSuccess
<1> QED
  BY <1>1, <1>2, <1>3 DEF GoodGovernor

\* A refusal empties the bank and the bucket and never raises an allowance.
LEMMA Relaxing ==
  ASSUME NEW g, GoodGovernor(g)
  PROVE  /\ GoodGovernor(RecordThrottled(g))
         /\ \A s \in Spans :
              /\ RecordThrottled(g)[s].credit = 0
              /\ RecordThrottled(g)[s].earned = 0
              /\ RecordThrottled(g)[s].permitted <= g[s].permitted
<1> DEFINE r == RecordThrottled(g)
<1>1. ASSUME NEW s \in Spans
      PROVE  /\ r[s] \in WindowRecord
             /\ r[s].permitted \in 1..Ceiling[s]
             /\ r[s].permitted <= g[s].permitted
             /\ r[s].credit = 0
             /\ r[s].earned = 0
  <2>1. /\ g[s] \in WindowRecord
        /\ g[s].permitted \in 1..Ceiling[s]
        /\ Ceiling[s] \in Nat \ {0} /\ StepOf(s) \in Nat \ {0}
    BY SpanFacts DEF GoodGovernor
  <2>2. r[s] = [permitted |-> Most(1, g[s].permitted - StepOf(s)),
                credit |-> 0, earned |-> 0]
    BY DEF RecordThrottled, Relaxed
  <2>3. /\ Most(1, g[s].permitted - StepOf(s)) \in 1..Ceiling[s]
        /\ Most(1, g[s].permitted - StepOf(s)) <= g[s].permitted
    BY <2>1 DEF Most, WindowRecord
  <2> QED
    BY <2>2, <2>3, <2>1 DEF WindowRecord
<1>2. ASSUME NEW s \in Spans
      PROVE  r[s].credit <= Capacity(r, s) /\ r[s].earned < SuccessesPerStep
  <2>1. r[s].permitted \in Nat /\ Len[s] \in Nat
    BY <1>1, SpanFacts DEF WindowRecord
  <2> QED
    BY <1>1, <2>1, ProductIsNat, RateAssumption DEF Capacity
<1>3. r \in [Spans -> WindowRecord]
  BY <1>1 DEF RecordThrottled
<1> QED
  BY <1>1, <1>2, <1>3 DEF GoodGovernor

-----------------------------------------------------------------------------
(* The wait a denial names. *)

\* A non-empty set of numbers has a least one.
LEMMA LeastNumber ==
  ASSUME NEW T, T \subseteq Nat, T # {}
  PROVE  \E x \in T : \A y \in T : x <= y
<1>1. IsWellFoundedOn(OpToRel(<, Nat), Nat)
  BY NatLessThanWellFounded
<1>2. PICK x \in T : \A y \in T : << y, x >> \notin OpToRel(<, Nat)
  BY <1>1, WFMin
<1>3. ASSUME NEW y \in T PROVE x <= y
  <2>1. ~(y < x)
    BY <1>2 DEF OpToRel
  <2> QED
    BY <2>1
<1> QED
  BY <1>3

\* How long one window needs: at least a unit, at most its own span.
LEMMA WaitBounds ==
  ASSUME NEW g, GoodGovernor(g), NEW s \in Short(g)
  PROVE  /\ WaitOf(g, s) \in 1..Len[s]
         /\ Len[s] <= g[s].credit + WaitOf(g, s) * g[s].permitted
         /\ g[s].credit + (WaitOf(g, s) - 1) * g[s].permitted < Len[s]
<1> DEFINE a == Len[s] - g[s].credit
           b == g[s].permitted
           q == WaitOf(g, s)
<1>1. s \in Spans /\ g[s] \in WindowRecord /\ g[s].credit < Len[s]
  BY DEF Short, GoodGovernor
<1>2. /\ a \in Nat \ {0} /\ b \in Nat \ {0} /\ a <= Len[s]
      /\ g[s].credit \in Nat /\ Len[s] \in Nat
  BY <1>1, SpanFacts DEF GoodGovernor, WindowRecord
<1>3. q = CeilDiv(a, b)
  BY DEF WaitOf
<1> HIDE DEF a, b, q
<1>4. q \in Nat \ {0} /\ a <= q * b /\ (q - 1) * b < a
  BY <1>2, <1>3, CeilDivIsExact
<1>5. (q - 1) * 1 <= (q - 1) * b
  <2>1. q - 1 \in Nat /\ 1 \in Nat /\ b \in Nat /\ 1 <= b
    BY <1>2, <1>4
  <2> QED
    BY <2>1, ProductIsMonotone
<1>6. q * b \in Nat /\ (q - 1) * b \in Nat
  BY <1>2, <1>4, ProductIsNat
<1>7. q \in 1..Len[s]
  BY <1>2, <1>4, <1>5, <1>6
<1>8. Len[s] <= g[s].credit + q * b /\ g[s].credit + (q - 1) * b < Len[s]
  BY <1>2, <1>4, <1>6 DEF a
<1> QED
  BY <1>7, <1>8 DEF b, q

\* A denial names a span that cannot pay, and no other needs longer.
LEMMA BindingWaitsLongest ==
  ASSUME NEW g, GoodGovernor(g), Short(g) # {}
  PROVE  /\ Binding(g) \in Short(g)
         /\ \A t \in Short(g) : WaitOf(g, t) <= WaitOf(g, Binding(g))
<1> DEFINE T == {Longest - WaitOf(g, s) : s \in Short(g)}
<1>1. \A s \in Short(g) : /\ WaitOf(g, s) \in 1..Len[s]
                          /\ Len[s] \in 1..Longest
                          /\ s \in Spans
  BY WaitBounds, RateAssumption DEF Short
<1>2. T \subseteq Nat /\ T # {}
  <2>1. \A s \in Short(g) : Longest - WaitOf(g, s) \in Nat
    BY <1>1, RateAssumption
  <2> QED
    BY <2>1
<1>3. PICK x \in T : \A y \in T : x <= y
  BY <1>2, LeastNumber
<1>4. PICK s \in Short(g) : x = Longest - WaitOf(g, s)
  BY <1>3
<1>5. ASSUME NEW t \in Short(g) PROVE WaitOf(g, t) <= WaitOf(g, s)
  <2>1. x <= Longest - WaitOf(g, t)
    BY <1>3
  <2> QED
    BY <1>1, <1>4, <2>1, RateAssumption
<1> DEFINE U == {Len[t] : t \in {u \in Short(g) : WaitOf(g, u) = WaitOf(g, s)}}
<1>6. U \subseteq Nat /\ U # {}
  BY <1>1
<1>7. PICK m \in U : \A y \in U : m <= y
  BY <1>6, LeastNumber
<1>8. PICK v \in Short(g) : WaitOf(g, v) = WaitOf(g, s) /\ Len[v] = m
  BY <1>7
<1>9. ASSUME NEW t \in Short(g)
      PROVE  \/ WaitOf(g, t) < WaitOf(g, v)
             \/ WaitOf(g, t) = WaitOf(g, v) /\ Len[v] <= Len[t]
  <2>1. CASE WaitOf(g, t) = WaitOf(g, s)
    <3>1. Len[t] \in U
      BY <2>1
    <3> QED
      BY <1>7, <1>8, <2>1, <3>1
  <2>2. CASE WaitOf(g, t) # WaitOf(g, s)
    <3>1. WaitOf(g, t) \in Nat /\ WaitOf(g, s) \in Nat
      BY <1>1
    <3> QED
      BY <1>5, <1>8, <2>2, <3>1
  <2> QED
    BY <2>1, <2>2
<1>10. /\ Binding(g) \in Short(g)
       /\ \A t \in Short(g) :
            \/ WaitOf(g, t) < WaitOf(g, Binding(g))
            \/ WaitOf(g, t) = WaitOf(g, Binding(g)) /\ Len[Binding(g)] <= Len[t]
  <2> DEFINE P(w) == \A t \in Short(g) :
               \/ WaitOf(g, t) < WaitOf(g, w)
               \/ WaitOf(g, t) = WaitOf(g, w) /\ Len[w] <= Len[t]
  <2>1. \E w \in Short(g) : P(w)
    BY <1>9
  <2>2. Binding(g) = CHOOSE w \in Short(g) : P(w)
    BY DEF Binding
  <2> HIDE DEF P
  <2>3. Binding(g) \in Short(g) /\ P(Binding(g))
    BY <2>1, <2>2
  <2> QED
    BY <2>3 DEF P
<1>11. \A t \in Short(g) : WaitOf(g, t) \in Nat
  BY <1>1
<1> QED
  BY <1>10, <1>11

\* Waiting as long as a denial says pays for a permit in every window.
LEMMA WaitPays ==
  ASSUME NEW g, GoodGovernor(g), Short(g) # {},
         NEW w \in Nat, w >= WaitOf(g, Binding(g))
  PROVE  Short(Earn(g, w)) = {}
<1> SUFFICES ASSUME NEW s \in Spans
             PROVE  ~(Earn(g, w)[s].credit < Len[s])
  BY DEF Short
<1>1. /\ g[s] \in WindowRecord
      /\ Earn(g, w)[s] = [g[s] EXCEPT !.credit =
           Least(g[s].credit + w * g[s].permitted, Capacity(g, s))]
  BY DEF GoodGovernor, Earn
<1>2. /\ Earn(g, w)[s].credit =
           Least(g[s].credit + w * g[s].permitted, Capacity(g, s))
      /\ g[s].credit \in Nat /\ g[s].permitted \in Nat \ {0} /\ Len[s] \in Nat
  BY <1>1, SpanFacts DEF WindowRecord, GoodGovernor
<1>3. Len[s] <= Capacity(g, s) /\ Capacity(g, s) \in Nat
  <2> DEFINE b == g[s].permitted
  <2>1. b \in Nat /\ 1 \in Nat /\ 1 <= b /\ Len[s] \in Nat
    BY <1>2
  <2> HIDE DEF b
  <2>2. 1 * Len[s] <= b * Len[s]
    BY <2>1, ProductIsMonotone
  <2>3. b * Len[s] \in Nat
    BY <2>1, ProductIsNat
  <2> QED
    BY <2>1, <2>2, <2>3 DEF Capacity, b
<1>4. w * g[s].permitted \in Nat
  BY <1>2, ProductIsNat
<1>5. Len[s] <= g[s].credit + w * g[s].permitted
  <2>1. CASE s \notin Short(g)
    BY <1>2, <1>4, <2>1 DEF Short
  <2>2. CASE s \in Short(g)
    <3>1. /\ WaitOf(g, s) \in Nat
          /\ WaitOf(g, Binding(g)) \in Nat
          /\ WaitOf(g, s) <= WaitOf(g, Binding(g))
          /\ Len[s] <= g[s].credit + WaitOf(g, s) * g[s].permitted
      <4>1. Binding(g) \in Spans /\ Binding(g) \in Short(g)
        BY BindingWaitsLongest DEF Short
      <4>2. Len[Binding(g)] \in Nat
        BY <4>1, SpanFacts
      <4> QED
        BY <1>2, <2>2, <4>1, <4>2, WaitBounds, BindingWaitsLongest
    <3>2. WaitOf(g, s) * g[s].permitted <= w * g[s].permitted
      BY <1>2, <3>1, ProductIsMonotone
    <3>3. WaitOf(g, s) * g[s].permitted \in Nat
      BY <1>2, <3>1, ProductIsNat
    <3> QED
      BY <1>2, <1>4, <3>1, <3>2, <3>3
  <2> QED
    BY <2>1, <2>2
<1> QED
  BY <1>2, <1>3, <1>4, <1>5 DEF Least

\* One unit less leaves the binding window short.
LEMMA LessDoesNotPay ==
  ASSUME NEW g, GoodGovernor(g), Short(g) # {}
  PROVE  Short(Earn(g, WaitOf(g, Binding(g)) - 1)) # {}
<1> DEFINE s == Binding(g)
           w == WaitOf(g, s) - 1
<1>1. s \in Short(g) /\ s \in Spans
  BY BindingWaitsLongest DEF Short
<1>2. /\ w \in Nat
      /\ g[s].credit + w * g[s].permitted < Len[s]
  <2>1. Len[s] \in Nat
    BY <1>1, SpanFacts
  <2> QED
    BY <1>1, <2>1, WaitBounds
<1> HIDE DEF s, w
<1>3. /\ g[s] \in WindowRecord
      /\ Earn(g, w)[s] = [g[s] EXCEPT !.credit =
           Least(g[s].credit + w * g[s].permitted, Capacity(g, s))]
  BY <1>1 DEF GoodGovernor, Earn
<1>4. /\ Earn(g, w)[s].credit =
           Least(g[s].credit + w * g[s].permitted, Capacity(g, s))
      /\ g[s].credit \in Nat /\ g[s].permitted \in Nat /\ Len[s] \in Nat
  BY <1>1, <1>3, SpanFacts DEF WindowRecord
<1>5. w * g[s].permitted \in Nat /\ Capacity(g, s) \in Nat
  BY <1>2, <1>4, ProductIsNat DEF Capacity
<1>6. Earn(g, w)[s].credit < Len[s]
  BY <1>2, <1>4, <1>5 DEF Least
<1>7. s \in Short(Earn(g, w))
  BY <1>1, <1>6 DEF Short
<1> QED
  BY <1>7 DEF s, w

-----------------------------------------------------------------------------
(***************************************************************************)
(* The promises of the rate governor for every set of spans, every         *)
(* ceiling, every pair of step constants and every lag of the clock.       *)
(*                                                                         *)
(* The argument for the ceiling is a conservation law: what has been given *)
(* since an instant and what is still banked together never exceed what a  *)
(* full bucket holds and what time has earned since (Conserved).  Earning  *)
(* moves both sides by at most the same amount, charging moves a permit    *)
(* from the bank to what was given, and every step of the allowance only   *)
(* lowers the bank.                                                        *)
(***************************************************************************)

-----------------------------------------------------------------------------
(* The clock and the type invariant. *)

\* The clock reads at most MaxSkew behind time, and the cursor moves forward
\* by exactly what is earned for.
LEMMA ClockFacts ==
  ASSUME TypeOK
  PROVE  /\ Elapsed \in Nat
         /\ Forward = cursor + Elapsed
         /\ Forward \in cursor..time
         /\ Forward >= time - MaxSkew
BY GovernorAssumption DEF TypeOK, Elapsed, Forward, Now, Most

LEMMA AdvancedIsGood ==
  ASSUME TypeOK
  PROVE  /\ GoodGovernor(gov)
         /\ GoodGovernor(Advanced)
         /\ \A s \in Spans :
              Advanced[s].credit <= gov[s].credit + Ceiling[s] * Elapsed
<1>1. GoodGovernor(gov)
  BY DEF TypeOK, GoodGovernor, WindowRecord
<1> QED
  BY <1>1, ClockFacts, Earning DEF Advanced

LEMMA TypeStep == TypeOK /\ [Next]_vars => TypeOK'
<1> SUFFICES ASSUME TypeOK, [Next]_vars PROVE TypeOK'
  OBVIOUS
<1> USE GovernorAssumption, RateAssumption
<1> DEFINE Rest ==
  /\ cursor' \in 0..time' /\ time' \in Nat /\ skew' \in 0..MaxSkew
  /\ open' \in Interval /\ drained' \in Interval
  /\ clean' \in 0..SuccessesPerStep
  /\ told' \in Nat \cup {Never} /\ refused' \in BOOLEAN
<1>1. SUFFICES GoodGovernor(gov') /\ Rest
  BY DEF TypeOK, GoodGovernor, WindowRecord, Capacity
<1>2. GoodGovernor(gov) /\ GoodGovernor(Advanced)
  BY AdvancedIsGood
<1>3. CASE Admit
  <2>1. GoodGovernor(gov')
    BY <1>2, <1>3, Charging DEF Admit
  <2>2. Counted(open) \in Interval /\ Counted(drained) \in Interval
    BY DEF TypeOK, Interval, Counted
  <2> QED
    BY <1>3, <2>1, <2>2, ClockFacts DEF Admit, TypeOK
<1>4. CASE Deny
  <2>1. Binding(Advanced) \in Short(Advanced) /\ Binding(Advanced) \in Spans
    BY <1>2, <1>4, BindingWaitsLongest DEF Deny, Short
  <2>2. WaitOf(Advanced, Binding(Advanced)) \in Nat
    BY <1>2, <2>1, WaitBounds, SpanFacts
  <2> QED
    BY <1>2, <1>4, <2>2, ClockFacts DEF Deny, TypeOK
<1>5. CASE Succeed
  <2>1. GoodGovernor(gov')
    BY <1>2, <1>5, Tightening DEF Succeed
  <2> QED
    BY <1>5, <2>1 DEF Succeed, TypeOK, Least
<1>6. CASE Throttle
  <2>1. GoodGovernor(gov')
    BY <1>2, <1>6, Relaxing DEF Throttle
  <2> QED
    BY <1>6, <2>1 DEF Throttle, TypeOK, Interval
<1>7. CASE Tick
  BY <1>2, <1>7 DEF Tick, TypeOK
<1>8. CASE StepClock
  BY <1>2, <1>8 DEF StepClock, TypeOK
<1>9. CASE OpenInterval
  BY <1>2, <1>9 DEF OpenInterval, TypeOK, Interval
<1>10. CASE UNCHANGED vars
  BY <1>2, <1>10 DEF vars, TypeOK
<1> QED
  BY <1>3, <1>4, <1>5, <1>6, <1>7, <1>8, <1>9, <1>10 DEF Next

LEMMA TypeInit == Init => TypeOK
<1> SUFFICES ASSUME Init PROVE TypeOK
  OBVIOUS
<1>1. GoodGovernor(gov)
  BY FreshIsGood DEF Init
<1>2. refused \in BOOLEAN
  BY DEF Init
<1> QED
  BY <1>1, <1>2, GovernorAssumption, RateAssumption
  DEF Init, TypeOK, GoodGovernor, WindowRecord, Interval, Never

\* Every allowance stays between one permit and the published figure, every
\* bucket within its capacity, every bank below a step, and the cursor behind
\* the clock, whatever calls arrive and however the clock is stepped.
THEOREM GovernorTypes == Spec => []TypeOK
<1>1. Init => TypeOK
  BY TypeInit
<1>2. TypeOK /\ [Next]_vars => TypeOK'
  BY TypeStep
<1> QED
  BY <1>1, <1>2, PTL DEF Spec

\* The wait a denial names is enough in every window and one unit less is not
\* (the comment on ceil_micros), in every reachable state.
THEOREM WaitsAreExact == Spec => []WaitIsExact
<1>1. ASSUME TypeOK PROVE WaitIsExact
  <2> SUFFICES ASSUME Short(gov) # {}
               PROVE  /\ Short(Earn(gov, WaitOf(gov, Binding(gov)))) = {}
                      /\ Short(Earn(gov, WaitOf(gov, Binding(gov)) - 1)) # {}
    BY DEF WaitIsExact
  <2>1. GoodGovernor(gov)
    BY <1>1, AdvancedIsGood
  <2>2. Binding(gov) \in Short(gov) /\ Binding(gov) \in Spans
    BY <2>1, BindingWaitsLongest DEF Short
  <2>3. WaitOf(gov, Binding(gov)) \in Nat
    BY <2>1, <2>2, WaitBounds, SpanFacts
  <2> QED
    BY <2>1, <2>3, WaitPays, LessDoesNotPay
<1> QED
  BY <1>1, GovernorTypes, PTL
-----------------------------------------------------------------------------
(* The ceiling. *)

\* What was given since the interval opened and what is still banked, counted
\* in credit, never exceed a full bucket and what the published rate earns up
\* to the cursor.  Until the first permit the bank alone is bounded, by its
\* capacity: the cursor may then still be far behind the opening.
Given(s) == open.spent * Len[s] + gov[s].credit
Yield(s, from, to) == Ceiling[s] * (to - from)

Conserved == open.spent # 0 =>
  /\ cursor >= open.from - MaxSkew
  /\ \A s \in Spans :
       Given(s) <= Ceiling[s] * Len[s] + Yield(s, open.from - MaxSkew, cursor)

CeilingInv == TypeOK /\ open.from <= time /\ Conserved

\* A bucket never holds more than the published figure.
LEMMA BucketBound ==
  ASSUME NEW g, GoodGovernor(g), NEW s \in Spans
  PROVE  /\ g[s].credit \in Nat
         /\ g[s].credit <= Ceiling[s] * Len[s]
<1>1. /\ g[s].credit \in Nat /\ g[s].permitted \in Nat
      /\ g[s].credit <= g[s].permitted * Len[s]
      /\ g[s].permitted <= Ceiling[s]
      /\ Len[s] \in Nat /\ Ceiling[s] \in Nat
  BY SpanFacts DEF GoodGovernor, WindowRecord, Capacity
<1>2. g[s].permitted * Len[s] <= Ceiling[s] * Len[s]
  BY <1>1, ProductIsMonotone
<1>3. g[s].permitted * Len[s] \in Nat /\ Ceiling[s] * Len[s] \in Nat
  BY <1>1, ProductIsNat
<1> QED
  BY <1>1, <1>2, <1>3

\* An admission earns, then moves one permit from the bank to what was given.
LEMMA AdmitConserves ==
  ASSUME TypeOK, Admit, NEW s \in Spans, NEW n \in Nat
  PROVE  /\ gov'[s].credit \in Nat
         /\ (n + 1) * Len[s] + gov'[s].credit
              <= n * Len[s] + gov[s].credit + Ceiling[s] * Elapsed
         /\ Len[s] + gov'[s].credit <= Ceiling[s] * Len[s]
<1>1. GoodGovernor(gov) /\ GoodGovernor(Advanced)
  BY AdvancedIsGood
<1>2. /\ gov'[s].credit = Advanced[s].credit - Len[s]
      /\ GoodGovernor(gov')
  BY <1>1, Charging DEF Admit
<1>3. /\ gov'[s].credit \in Nat /\ gov[s].credit \in Nat
      /\ Advanced[s].credit \in Nat
      /\ Advanced[s].credit <= Ceiling[s] * Len[s]
  BY <1>1, <1>2, BucketBound
<1>4. Advanced[s].credit <= gov[s].credit + Ceiling[s] * Elapsed
  BY AdvancedIsGood
<1>5. (n + 1) * Len[s] = n * Len[s] + Len[s]
  <2>1. n \in Int /\ 1 \in Int /\ Len[s] \in Int /\ 1 * Len[s] = Len[s]
    BY SpanFacts
  <2>2. (n + 1) * Len[s] = n * Len[s] + 1 * Len[s]
    BY <2>1, Distributes
  <2> QED
    BY <2>1, <2>2
<1>6. /\ n * Len[s] \in Nat /\ Len[s] \in Nat
      /\ Ceiling[s] * Elapsed \in Nat /\ Ceiling[s] * Len[s] \in Nat
  BY ClockFacts, SpanFacts, ProductIsNat
<1> QED
  BY <1>2, <1>3, <1>4, <1>5, <1>6

\* What the rate earns to the cursor grows by what is earned for.
LEMMA YieldGrows ==
  ASSUME TypeOK, NEW s \in Spans, NEW from \in Int
  PROVE  /\ Yield(s, from, cursor) \in Int
         /\ Yield(s, from, Forward) = Yield(s, from, cursor) + Ceiling[s] * Elapsed
         /\ Ceiling[s] * Elapsed \in Nat
<1>1. /\ cursor \in Int /\ Elapsed \in Nat /\ Forward = cursor + Elapsed
      /\ Ceiling[s] \in Nat
  BY ClockFacts, SpanFacts DEF TypeOK
<1>2. Forward - from = (cursor - from) + Elapsed
  BY <1>1
<1>3. Ceiling[s] * ((cursor - from) + Elapsed)
        = Ceiling[s] * (cursor - from) + Ceiling[s] * Elapsed
  BY <1>1, Distributes
<1>4. Ceiling[s] * (cursor - from) \in Int /\ Ceiling[s] * Elapsed \in Nat
  BY <1>1, ProductIsNat
<1> QED
  BY <1>2, <1>3, <1>4 DEF Yield

LEMMA CeilingStep == CeilingInv /\ [Next]_vars => CeilingInv'
<1> SUFFICES ASSUME CeilingInv, [Next]_vars
             PROVE  (open.from <= time /\ Conserved)'
  BY TypeStep DEF CeilingInv
<1> USE GovernorAssumption
<1>1. TypeOK /\ TypeOK' /\ open.from <= time /\ Conserved
  BY TypeStep DEF CeilingInv
<1>2. /\ open.from \in Int /\ open.spent \in Nat
      /\ cursor \in Nat /\ time \in Nat /\ cursor <= time
  BY <1>1 DEF TypeOK, Interval
<1>3. GoodGovernor(gov) /\ GoodGovernor(Advanced)
  BY <1>1, AdvancedIsGood
<1>4. \A s \in Spans : /\ Len[s] \in Nat /\ Ceiling[s] \in Nat
                       /\ Ceiling[s] * Len[s] \in Nat
                       /\ open.spent * Len[s] \in Nat
                       /\ gov[s].credit \in Nat
  BY <1>2, <1>3, SpanFacts, ProductIsNat, BucketBound
<1> DEFINE since == open.from - MaxSkew
<1>5. CASE Admit
  <2>1. /\ open'.from = open.from /\ open'.spent = open.spent + 1
        /\ cursor' = Forward /\ time' = time
    BY <1>1, <1>5 DEF Admit, Counted, TypeOK, Interval
  <2>2. cursor' >= open.from - MaxSkew
    BY <1>1, <1>2, <2>1, ClockFacts
  <2>3. ASSUME NEW s \in Spans
        PROVE  Given(s)' <= Ceiling[s] * Len[s] + Yield(s, since, cursor')
    <3>1. /\ Yield(s, since, cursor) \in Int
          /\ Yield(s, since, cursor') = Yield(s, since, cursor) + Ceiling[s] * Elapsed
          /\ Ceiling[s] * Elapsed \in Nat
      BY <1>1, <1>2, <2>1, YieldGrows
    <3>2. /\ gov'[s].credit \in Nat
          /\ (open.spent + 1) * Len[s] + gov'[s].credit
               <= open.spent * Len[s] + gov[s].credit + Ceiling[s] * Elapsed
          /\ Len[s] + gov'[s].credit <= Ceiling[s] * Len[s]
      BY <1>1, <1>2, <1>5, AdmitConserves
    <3>3. Given(s)' = (open.spent + 1) * Len[s] + gov'[s].credit
      BY <2>1 DEF Given
    <3>4. (open.spent + 1) * Len[s] \in Nat
      <4>1. open.spent + 1 \in Nat /\ Len[s] \in Nat
        BY <1>2, <1>4
      <4> QED
        BY <4>1, ProductIsNat
    <3>5. CASE open.spent = 0
      <4>1. Yield(s, since, cursor') \in Nat
        <5>1. cursor' - since \in Nat
          BY <1>1, <1>2, <2>1, <2>2, ClockFacts
        <5>2. Ceiling[s] * (cursor' - since) \in Nat
          BY <1>4, <5>1, ProductIsNat
        <5> QED
          BY <5>2 DEF Yield
      <4>2. (open.spent + 1) * Len[s] = Len[s]
        BY <1>4, <3>5
      <4> QED
        BY <1>4, <3>2, <3>3, <4>1, <4>2
    <3>6. CASE open.spent # 0
      <4>1. Given(s) <= Ceiling[s] * Len[s] + Yield(s, since, cursor)
        BY <1>1, <3>6 DEF Conserved
      <4>2. Given(s) = open.spent * Len[s] + gov[s].credit
        BY DEF Given
      <4> QED
        BY <1>4, <3>1, <3>2, <3>3, <3>4, <4>1, <4>2
    <3> QED
      BY <3>5, <3>6
  <2> QED
    BY <1>1, <2>1, <2>2, <2>3 DEF Conserved
<1>6. CASE Deny
  <2>1. /\ open' = open /\ cursor' = Forward /\ time' = time
        /\ gov' = Advanced
    BY <1>6 DEF Deny
  <2>2. SUFFICES ASSUME open.spent # 0, NEW s \in Spans
                 PROVE  /\ cursor' >= open.from - MaxSkew
                        /\ Given(s)' <= Ceiling[s] * Len[s] + Yield(s, since, cursor')
    <3>1. open.spent # 0 => cursor' >= open.from - MaxSkew
      BY <1>1, <1>2, <2>1, ClockFacts
    <3> QED
      BY <1>1, <2>1, <2>2, <3>1 DEF Conserved
  <2>3. cursor' >= open.from - MaxSkew
    BY <1>1, <1>2, <2>1, ClockFacts
  <2>4. /\ Yield(s, since, cursor) \in Int
        /\ Yield(s, since, cursor') = Yield(s, since, cursor) + Ceiling[s] * Elapsed
        /\ Ceiling[s] * Elapsed \in Nat
    BY <1>1, <1>2, <2>1, YieldGrows
  <2>5. /\ gov'[s].credit <= gov[s].credit + Ceiling[s] * Elapsed
        /\ gov'[s].credit \in Nat
    BY <1>1, <1>3, <2>1, AdvancedIsGood, BucketBound
  <2>6. Given(s) <= Ceiling[s] * Len[s] + Yield(s, since, cursor)
    BY <1>1, <2>2 DEF Conserved
  <2> QED
    BY <1>4, <2>1, <2>3, <2>4, <2>5, <2>6 DEF Given
<1>7. CASE Succeed
  <2>1. /\ UNCHANGED <<open, cursor, time>>
        /\ \A s \in Spans : gov'[s].credit = gov[s].credit
    BY <1>3, <1>7, Tightening DEF Succeed
  <2> QED
    BY <1>1, <2>1 DEF Conserved, Given, Yield
<1>8. CASE Throttle
  <2>1. /\ UNCHANGED <<open, cursor, time>>
        /\ \A s \in Spans : gov'[s].credit = 0
    BY <1>3, <1>8, Relaxing DEF Throttle
  <2>2. SUFFICES ASSUME open.spent # 0, NEW s \in Spans
                 PROVE  Given(s)' <= Ceiling[s] * Len[s] + Yield(s, since, cursor)
    BY <1>1, <2>1 DEF Conserved
  <2>3. Given(s) <= Ceiling[s] * Len[s] + Yield(s, since, cursor)
    BY <1>1, <2>2 DEF Conserved
  <2>4. Yield(s, since, cursor) \in Int
    <3>1. cursor - since \in Int
      BY <1>2
    <3> QED
      BY <1>4, <3>1 DEF Yield
  <2> QED
    BY <1>4, <2>1, <2>3, <2>4 DEF Given, Yield
<1>9. CASE Tick
  BY <1>1, <1>2, <1>9 DEF Tick, Conserved, Given, Yield
<1>10. CASE StepClock
  BY <1>1, <1>10 DEF StepClock, Conserved, Given, Yield
<1>11. CASE OpenInterval
  BY <1>1, <1>2, <1>11 DEF OpenInterval, Conserved
<1>12. CASE UNCHANGED vars
  BY <1>1, <1>12 DEF vars, Conserved, Given, Yield
<1> QED
  BY <1>5, <1>6, <1>7, <1>8, <1>9, <1>10, <1>11, <1>12 DEF Next

\* Over an interval opened at any instant no span is given more permits than
\* a full bucket and what the published rate earns in that time and in the
\* lag of the clock: the promise in the heading of rate.rs.
THEOREM CeilingHolds == Spec => []NeverOverCeiling
<1>1. Init => CeilingInv
  BY TypeInit DEF Init, CeilingInv, Conserved
<1>2. CeilingInv /\ [Next]_vars => CeilingInv'
  BY CeilingStep
<1>3. ASSUME CeilingInv PROVE NeverOverCeiling
  <2> SUFFICES ASSUME NEW s \in Spans
      PROVE open.spent * Len[s]
              <= Ceiling[s] * (Len[s] + (time - open.from) + MaxSkew)
    BY DEF NeverOverCeiling
  <2>1. /\ open.spent \in Nat /\ open.from \in Int /\ open.from <= time
        /\ cursor \in Nat /\ time \in Nat /\ cursor <= time
        /\ Len[s] \in Nat /\ Ceiling[s] \in Nat /\ MaxSkew \in Nat
        /\ GoodGovernor(gov)
    BY <1>3, SpanFacts, GovernorAssumption, AdvancedIsGood
    DEF CeilingInv, TypeOK, Interval
  <2> DEFINE span == (time - open.from) + MaxSkew
             up == cursor - (open.from - MaxSkew)
  <2>2. span \in Nat /\ Len[s] + (time - open.from) + MaxSkew = Len[s] + span
    BY <2>1
  <2>3. /\ Ceiling[s] * (Len[s] + span) = Ceiling[s] * Len[s] + Ceiling[s] * span
        /\ Ceiling[s] * Len[s] \in Nat /\ Ceiling[s] * span \in Nat
        /\ open.spent * Len[s] \in Nat
    BY <2>1, <2>2, Distributes, ProductIsNat
  <2>4. CASE open.spent = 0
    <3>1. open.spent * Len[s] = 0
      BY <2>1, <2>4
    <3> QED
      BY <2>2, <2>3, <3>1
  <2>5. CASE open.spent # 0
    <3>1. /\ up \in Nat /\ up <= span
          /\ open.spent * Len[s] + gov[s].credit
               <= Ceiling[s] * Len[s] + Ceiling[s] * up
      BY <1>3, <2>1, <2>5 DEF CeilingInv, Conserved, Given, Yield
    <3>2. Ceiling[s] * up <= Ceiling[s] * span /\ Ceiling[s] * up \in Nat
      BY <2>1, <2>2, <3>1, ProductIsMonotone, ProductIsNat
    <3>3. gov[s].credit \in Nat
      BY <2>1, BucketBound
    <3> QED
      BY <2>2, <2>3, <3>1, <3>2, <3>3
  <2> QED
    BY <2>4, <2>5
<1> QED
  BY <1>1, <1>2, <1>3, PTL DEF Spec
-----------------------------------------------------------------------------
(* After a refusal. *)

\* A refusal empties every bucket, so what is given since and what is banked
\* are earned between the cursor of the refusal and the cursor of now.
SinceRefusal(s) == drained.spent * Len[s] + gov[s].credit

DrainedInv ==
  /\ TypeOK
  /\ refused =>
       /\ drained.from <= cursor
       /\ \A s \in Spans : SinceRefusal(s) <= Yield(s, drained.from, cursor)

LEMMA DrainedFromStep ==
  ASSUME DrainedInv, [Next]_vars, refused'
  PROVE  drained'.from <= cursor'
<1>1. /\ TypeOK /\ drained.from \in Int /\ cursor \in Nat
      /\ drained = [from |-> drained.from, spent |-> drained.spent]
      /\ refused => drained.from <= cursor
  BY DEF DrainedInv, TypeOK, Interval
<1>2. Forward \in Nat /\ cursor <= Forward
  BY <1>1, ClockFacts DEF TypeOK
<1>3. CASE Admit
  <2>1. drained'.from = drained.from /\ cursor' = Forward /\ refused
    BY <1>1, <1>3 DEF Admit, Counted
  <2> QED
    BY <1>1, <1>2, <2>1
<1>4. CASE Deny
  BY <1>1, <1>2, <1>4 DEF Deny
<1>5. CASE Throttle
  BY <1>1, <1>5 DEF Throttle
<1>6. CASE Succeed \/ Tick \/ StepClock \/ OpenInterval \/ UNCHANGED vars
  BY <1>1, <1>6 DEF Succeed, Tick, StepClock, OpenInterval, vars
<1> QED
  BY <1>3, <1>4, <1>5, <1>6 DEF Next

LEMMA DrainedStep == DrainedInv /\ [Next]_vars => DrainedInv'
<1> SUFFICES ASSUME DrainedInv, [Next]_vars, refused',
                    NEW s \in Spans
             PROVE  SinceRefusal(s)' <= Yield(s, drained'.from, cursor')
  <2>1. DrainedInv /\ [Next]_vars /\ refused'
          => drained'.from <= cursor'
    BY DrainedFromStep
  <2> QED
    BY <2>1, TypeStep DEF DrainedInv, Yield
<1>1. TypeOK /\ TypeOK'
  BY TypeStep DEF DrainedInv
<1>2. /\ drained.from \in Int /\ drained.spent \in Nat
      /\ drained = [from |-> drained.from, spent |-> drained.spent]
      /\ cursor \in Nat
  BY <1>1 DEF TypeOK, Interval
<1>3. GoodGovernor(gov) /\ GoodGovernor(Advanced)
  BY <1>1, AdvancedIsGood
<1>4. /\ Len[s] \in Nat /\ Ceiling[s] \in Nat
      /\ drained.spent * Len[s] \in Nat
      /\ gov[s].credit \in Nat
  BY <1>2, <1>3, SpanFacts, ProductIsNat, BucketBound
<1>5. /\ Yield(s, drained.from, cursor) \in Int
      /\ Yield(s, drained.from, Forward)
           = Yield(s, drained.from, cursor) + Ceiling[s] * Elapsed
      /\ Ceiling[s] * Elapsed \in Nat
  BY <1>1, <1>2, YieldGrows
<1>6. refused =>
        drained.spent * Len[s] + gov[s].credit <= Yield(s, drained.from, cursor)
  BY DEF DrainedInv, SinceRefusal
<1>7. CASE Admit
  <2>1. /\ drained'.from = drained.from /\ drained'.spent = drained.spent + 1
        /\ cursor' = Forward /\ refused
    BY <1>2, <1>7 DEF Admit, Counted
  <2>2. /\ gov'[s].credit \in Nat
        /\ (drained.spent + 1) * Len[s] + gov'[s].credit
             <= drained.spent * Len[s] + gov[s].credit + Ceiling[s] * Elapsed
    BY <1>1, <1>2, <1>7, AdmitConserves
  <2>3. (drained.spent + 1) * Len[s] \in Nat
    <3>1. drained.spent + 1 \in Nat
      BY <1>2
    <3> QED
      BY <1>4, <3>1, ProductIsNat
  <2>4. SinceRefusal(s)' = (drained.spent + 1) * Len[s] + gov'[s].credit
    BY <2>1 DEF SinceRefusal
  <2> QED
    BY <1>4, <1>5, <1>6, <2>1, <2>2, <2>3, <2>4
<1>8. CASE Deny
  <2>1. /\ drained' = drained /\ gov' = Advanced
        /\ cursor' = Forward /\ refused
    BY <1>8 DEF Deny
  <2>2. /\ gov'[s].credit <= gov[s].credit + Ceiling[s] * Elapsed
        /\ gov'[s].credit \in Nat
    BY <1>1, <1>3, <2>1, AdvancedIsGood, BucketBound
  <2> QED
    BY <1>4, <1>5, <1>6, <2>1, <2>2 DEF SinceRefusal
<1>9. CASE Succeed
  <2>1. /\ UNCHANGED <<drained, cursor, refused>>
        /\ gov'[s].credit = gov[s].credit
    BY <1>3, <1>9, Tightening DEF Succeed
  <2> QED
    BY <1>6, <2>1 DEF SinceRefusal
<1>10. CASE Throttle
  <2>1. /\ drained'.from = cursor /\ drained'.spent = 0 /\ cursor' = cursor
        /\ gov'[s].credit = 0
    BY <1>3, <1>10, Relaxing DEF Throttle
  <2>2. Yield(s, cursor, cursor) = 0
    BY <1>2, <1>4 DEF Yield
  <2> QED
    BY <1>2, <1>4, <2>1, <2>2 DEF SinceRefusal
<1>11. CASE Tick
  BY <1>6, <1>11 DEF Tick, SinceRefusal
<1>12. CASE StepClock
  BY <1>6, <1>12 DEF StepClock, SinceRefusal
<1>13. CASE OpenInterval
  BY <1>6, <1>13 DEF OpenInterval, SinceRefusal
<1>14. CASE UNCHANGED vars
  BY <1>6, <1>14 DEF vars, SinceRefusal
<1> QED
  BY <1>7, <1>8, <1>9, <1>10, <1>11, <1>12, <1>13, <1>14 DEF Next

\* No burst survives a refusal: the permits given since the last one are paid
\* for by time that passed on the governor's clock (record_throttled).
THEOREM RefusalsAreObeyed == Spec => []RefusalIsObeyed
<1>1. Init => DrainedInv
  BY TypeInit DEF Init, DrainedInv
<1>2. DrainedInv /\ [Next]_vars => DrainedInv'
  BY DrainedStep
<1>3. ASSUME DrainedInv PROVE RefusalIsObeyed
  <2> SUFFICES ASSUME refused, NEW s \in Spans
      PROVE drained.spent * Len[s] <= Ceiling[s] * (cursor - drained.from)
    BY DEF RefusalIsObeyed
  <2>1. TypeOK /\ drained.spent \in Nat /\ drained.from \in Int
    BY <1>3 DEF DrainedInv, TypeOK, Interval
  <2>2. gov[s].credit \in Nat
    BY <2>1, AdvancedIsGood, BucketBound
  <2>3. drained.spent * Len[s] \in Nat /\ Yield(s, drained.from, cursor) \in Int
    BY <2>1, SpanFacts, ProductIsNat, YieldGrows
  <2>4. drained.spent * Len[s] + gov[s].credit <= Yield(s, drained.from, cursor)
    BY <1>3 DEF DrainedInv, SinceRefusal
  <2> QED
    BY <2>2, <2>3, <2>4 DEF Yield
<1> QED
  BY <1>1, <1>2, <1>3, PTL DEF Spec

\* No window has banked more than the clean answers since the last refusal.
BankInv == TypeOK /\ \A s \in Spans : gov[s].earned <= clean

LEMMA BankStep == BankInv /\ [Next]_vars => BankInv'
<1> SUFFICES ASSUME BankInv, [Next]_vars, NEW s \in Spans
             PROVE  gov'[s].earned <= clean'
  BY TypeStep DEF BankInv
<1>1. TypeOK /\ TypeOK'
  BY TypeStep DEF BankInv
<1>2. /\ gov[s].earned \in Nat /\ gov[s].earned <= clean /\ clean \in Nat
      /\ gov'[s].earned \in Nat /\ gov'[s].earned < SuccessesPerStep
      /\ SuccessesPerStep \in Nat
  BY <1>1, RateAssumption DEF BankInv, TypeOK
<1>3. GoodGovernor(gov) /\ GoodGovernor(Advanced)
  BY <1>1, AdvancedIsGood
<1>4. Advanced[s].earned = gov[s].earned
  BY <1>3 DEF Advanced, Earn, GoodGovernor, WindowRecord
<1>5. CASE Admit
  <2>1. gov'[s].earned = Advanced[s].earned
    BY <1>3, <1>5 DEF Admit, Charge, GoodGovernor, WindowRecord
  <2> QED
    BY <1>2, <1>4, <1>5, <2>1 DEF Admit
<1>6. CASE Deny
  BY <1>2, <1>4, <1>6 DEF Deny
<1>7. CASE Succeed
  <2>1. gov'[s].earned <= gov[s].earned + 1
    BY <1>3, <1>7, Tightening DEF Succeed
  <2> QED
    BY <1>2, <1>7, <2>1 DEF Succeed, Least
<1>8. CASE Throttle
  <2>1. gov'[s].earned = 0
    BY <1>3, <1>8, Relaxing DEF Throttle
  <2> QED
    BY <1>8, <2>1 DEF Throttle
<1>9. CASE Tick
  BY <1>2, <1>9 DEF Tick
<1>10. CASE StepClock
  BY <1>2, <1>10 DEF StepClock
<1>11. CASE OpenInterval
  BY <1>2, <1>11 DEF OpenInterval
<1>12. CASE UNCHANGED vars
  BY <1>2, <1>12 DEF vars
<1> QED
  BY <1>5, <1>6, <1>7, <1>8, <1>9, <1>10, <1>11, <1>12 DEF Next

\* An allowance rises only at the end of a full run of clean answers since the
\* last refusal (record_success and the bank that record_throttled empties).
THEOREM RisesAreEarned == Spec => RiseIsEarned
<1>1. Init => BankInv
  <2>1. ASSUME Init, NEW s \in Spans PROVE gov[s].earned <= clean
    <3>1. gov[s].earned = 0 /\ clean = 0
      BY <2>1 DEF Init, Fresh
    <3> QED
      BY <3>1
  <2> QED
    BY <2>1, TypeInit DEF BankInv
<1>2. BankInv /\ [Next]_vars => BankInv'
  BY BankStep
<1>3. BankInv /\ [Next]_vars =>
        [\A s \in Spans :
          gov'[s].permitted > gov[s].permitted => clean' = SuccessesPerStep]_vars
  <2> SUFFICES ASSUME BankInv, Next, NEW s \in Spans,
                      gov'[s].permitted > gov[s].permitted
               PROVE  clean' = SuccessesPerStep
    OBVIOUS
  <2>1. /\ TypeOK /\ gov[s].permitted \in Nat /\ gov[s].earned \in Nat
        /\ gov[s].earned <= clean /\ clean \in 0..SuccessesPerStep
        /\ SuccessesPerStep \in Nat
    BY RateAssumption DEF BankInv, TypeOK
  <2>2. GoodGovernor(gov) /\ GoodGovernor(Advanced)
    BY <2>1, AdvancedIsGood
  <2>3. Advanced[s].permitted = gov[s].permitted
    BY <2>2 DEF Advanced, Earn, GoodGovernor, WindowRecord
  <2>4. CASE Admit
    <3>1. gov'[s].permitted = Advanced[s].permitted
      BY <2>2, <2>4 DEF Admit, Charge, GoodGovernor, WindowRecord
    <3> QED
      BY <2>1, <2>3, <3>1
  <2>5. CASE Succeed
    <3>1. gov[s].earned + 1 = SuccessesPerStep
      BY <2>2, <2>5, Tightening DEF Succeed
    <3> QED
      BY <2>1, <2>5, <3>1 DEF Succeed, Least
  <2>6. CASE Throttle
    <3>1. gov'[s].permitted <= gov[s].permitted /\ gov'[s].permitted \in Nat
      BY <2>2, <2>6, Relaxing DEF Throttle, GoodGovernor, WindowRecord
    <3> QED
      BY <2>1, <3>1
  <2>7. CASE Deny
    BY <2>1, <2>3, <2>7 DEF Deny
  <2>8. CASE Tick \/ StepClock \/ OpenInterval
    BY <2>1, <2>8 DEF Tick, StepClock, OpenInterval
  <2> QED
    BY <2>4, <2>5, <2>6, <2>7, <2>8 DEF Next
<1> QED
  BY <1>1, <1>2, <1>3, PTL DEF Spec, RiseIsEarned
-----------------------------------------------------------------------------
(* The wait from the caller's side. *)

\* By the time a denial named, every window has earned a permit.
Paid(g, wait) == \A s \in Spans : Len[s] <= g[s].credit + wait * g[s].permitted

PaidInv == TypeOK /\ (told # Never => cursor <= told /\ Paid(gov, told - cursor))

LEMMA PaidIsEnough ==
  ASSUME NEW g, GoodGovernor(g), NEW wait \in Nat
  PROVE  /\ Paid(g, wait) => \A w \in Nat : wait <= w => Short(Earn(g, w)) = {}
         /\ Short(Earn(g, wait)) = {} => Paid(g, wait)
<1>1. ASSUME NEW s \in Spans, NEW w \in Nat
      PROVE  /\ Earn(g, w)[s].credit =
                   Least(g[s].credit + w * g[s].permitted, Capacity(g, s))
             /\ g[s].credit \in Nat /\ g[s].permitted \in Nat \ {0}
             /\ Len[s] \in Nat /\ w * g[s].permitted \in Nat
             /\ Capacity(g, s) \in Nat /\ Len[s] <= Capacity(g, s)
  <2>1. /\ g[s] \in WindowRecord /\ g[s].permitted \in Nat \ {0}
        /\ Len[s] \in Nat
    BY SpanFacts DEF GoodGovernor, WindowRecord
  <2>2. Earn(g, w)[s].credit =
          Least(g[s].credit + w * g[s].permitted, Capacity(g, s))
    BY <2>1 DEF Earn, WindowRecord
  <2>3. 1 * Len[s] <= g[s].permitted * Len[s]
    BY <2>1, ProductIsMonotone
  <2>4. w * g[s].permitted \in Nat /\ g[s].permitted * Len[s] \in Nat
    BY <2>1, ProductIsNat
  <2> QED
    BY <2>1, <2>2, <2>3, <2>4 DEF Capacity, WindowRecord
<1>2. ASSUME Paid(g, wait), NEW w \in Nat, wait <= w, NEW s \in Spans
      PROVE  ~(Earn(g, w)[s].credit < Len[s])
  <2>1. Len[s] <= g[s].credit + wait * g[s].permitted
    BY <1>2 DEF Paid
  <2>2. wait * g[s].permitted <= w * g[s].permitted
    BY <1>1, <1>2, ProductIsMonotone
  <2>3. wait * g[s].permitted \in Nat
    BY <1>1
  <2> QED
    BY <1>1, <1>2, <2>1, <2>2, <2>3 DEF Least
<1>3. ASSUME Short(Earn(g, wait)) = {}, NEW s \in Spans
      PROVE  Len[s] <= g[s].credit + wait * g[s].permitted
  <2>1. ~(Earn(g, wait)[s].credit < Len[s])
    BY <1>3 DEF Short
  <2> QED
    BY <1>1, <2>1 DEF Least
<1> QED
  BY <1>2, <1>3 DEF Paid, Short

LEMMA PaidStep == PaidInv /\ [Next]_vars => PaidInv'
<1> SUFFICES ASSUME PaidInv, [Next]_vars, told' # Never
             PROVE  cursor' <= told' /\ Paid(gov', told' - cursor')
  BY TypeStep DEF PaidInv, Paid
<1>1. /\ TypeOK /\ cursor \in Nat /\ time \in Nat /\ cursor <= time
      /\ GoodGovernor(gov) /\ GoodGovernor(Advanced)
      /\ told # Never => told \in Nat /\ cursor <= told /\ Paid(gov, told - cursor)
  BY AdvancedIsGood DEF PaidInv, TypeOK
<1>2. CASE Deny
  <2> DEFINE w == WaitOf(Advanced, Binding(Advanced))
  <2>1. /\ gov' = Advanced /\ cursor' = time /\ told' = time + w
        /\ Short(Advanced) # {}
    BY <1>2 DEF Deny
  <2>2. w \in Nat
    <3>1. Binding(Advanced) \in Short(Advanced) /\ Binding(Advanced) \in Spans
      BY <1>1, <2>1, BindingWaitsLongest DEF Short
    <3> QED
      BY <1>1, <3>1, WaitBounds, SpanFacts
  <2>3. Short(Earn(Advanced, w)) = {}
    BY <1>1, <2>1, <2>2, WaitPays
  <2> HIDE DEF w
  <2>4. Paid(Advanced, w)
    BY <1>1, <2>2, <2>3, PaidIsEnough
  <2>5. told' - cursor' = w
    BY <1>1, <2>1, <2>2
  <2> QED
    BY <1>1, <2>1, <2>2, <2>4, <2>5
<1>3. CASE Succeed
  <2>1. /\ told' = told /\ cursor' = cursor /\ GoodGovernor(gov')
        /\ \A s \in Spans : /\ gov'[s].credit = gov[s].credit
                            /\ gov'[s].permitted >= gov[s].permitted
    BY <1>1, <1>3, Tightening DEF Succeed
  <2>2. told - cursor \in Nat
    BY <1>1, <2>1
  <2>3. ASSUME NEW s \in Spans
        PROVE  Len[s] <= gov'[s].credit + (told - cursor) * gov'[s].permitted
    <3>1. /\ gov[s].permitted \in Nat /\ gov'[s].permitted \in Nat
          /\ gov[s].credit \in Nat /\ Len[s] \in Nat
      BY <1>1, <2>1, SpanFacts DEF GoodGovernor, WindowRecord
    <3>2. (told - cursor) * gov[s].permitted <= (told - cursor) * gov'[s].permitted
      BY <2>1, <2>2, <3>1, ProductIsMonotone
    <3>3. /\ (told - cursor) * gov[s].permitted \in Nat
          /\ (told - cursor) * gov'[s].permitted \in Nat
      BY <2>2, <3>1, ProductIsNat
    <3>4. Len[s] <= gov[s].credit + (told - cursor) * gov[s].permitted
      BY <1>1, <2>1 DEF Paid
    <3> QED
      BY <2>1, <3>1, <3>2, <3>3, <3>4
  <2> QED
    BY <1>1, <2>1, <2>3 DEF Paid
<1>4. CASE Tick \/ StepClock \/ OpenInterval \/ UNCHANGED vars
  BY <1>1, <1>4 DEF Tick, StepClock, OpenInterval, vars
<1> QED
  BY <1>2, <1>3, <1>4 DEF Next, Admit, Throttle

\* A caller that waits as long as a denial told it is admitted when it asks
\* again, if no permit was given and no refusal felt in between and its clock
\* lags at neither call: the wait of a Deny is a promise, not a guess.
THEOREM WaitsSuffice == Spec => WaitSuffices
<1>1. Init => PaidInv
  BY TypeInit DEF Init, PaidInv
<1>2. PaidInv /\ [Next]_vars => PaidInv'
  BY PaidStep
<1>3. PaidInv /\ [Next]_vars => [told # Never /\ told <= time /\ skew = 0 => ~Deny]_vars
  <2> SUFFICES ASSUME PaidInv, told # Never, told <= time, skew = 0, Deny
               PROVE  FALSE
    OBVIOUS
  <2>1. /\ TypeOK /\ cursor \in Nat /\ time \in Nat /\ told \in Nat
        /\ cursor <= told /\ Paid(gov, told - cursor) /\ GoodGovernor(gov)
    BY AdvancedIsGood DEF PaidInv, TypeOK
  <2>2. Elapsed \in Nat /\ told - cursor \in Nat /\ told - cursor <= Elapsed
    BY <2>1 DEF Elapsed, Now, Most
  <2>3. Short(Earn(gov, Elapsed)) = {}
    BY <2>1, <2>2, PaidIsEnough
  <2> QED
    BY <2>3 DEF Deny, Advanced
<1> QED
  BY <1>1, <1>2, <1>3, PTL DEF Spec, WaitSuffices

-----------------------------------------------------------------------------
(***************************************************************************)
(* The promises of a feed's request chain, for every governor, every pair  *)
(* of retry caps and every duration of a sleep or of a request.            *)
(*                                                                         *)
(* The invariant ties the two counters of the retry loop to what was sent  *)
(* and answered (Ordinals), the governor's cue to the answer being judged  *)
(* (Feeling), and a chain that has waited to a governor that will pay      *)
(* (Waiting).  The retry policy itself enters through StepFacts alone.     *)
(***************************************************************************)

Active == {"budget", "dozing", "ready", "flight", "judging"}

\* What a chain's variables may hold.
LadderTypes ==
  /\ GoodGovernor(windows)
  /\ lag \in 0..Longest
  /\ pc \in Active \cup {"idle"}
  /\ path \in Paths /\ spells \in BOOLEAN
  /\ attempt \in 1..ThrottleAttempts
  /\ answer \in Answers
  /\ errors \in Nat /\ waits \in Nat
  /\ permits \in Nat /\ requests \in Nat /\ felt \in Nat /\ fives \in Nat

\* Whether the answer in hand has been told to the policy yet.
Unjudged == IF pc = "judging" /\ IsServerError(answer) THEN 1 ELSE 0

\* The ordinal counts the permits of the chunk, and its requests if they can
\* be spelled; the other counter its 5xx.
Ordinals ==
  /\ EveryRequestIsPaid
  /\ pc \in {"budget", "dozing"} => permits = attempt - 1
  /\ pc \in {"ready", "flight", "judging"} => permits = attempt
  /\ pc \in Active => requests = IF spells THEN permits - (IF pc = "ready" THEN 1 ELSE 0) ELSE 0
  /\ pc = "flight" => spells
  /\ pc = "judging" /\ ~spells => answer = None
  /\ pc \in Active => errors + Unjudged = fives
  /\ pc \in Active => verdict = "none"
  /\ DownIsMeasured

\* What the transport taught the governor, and what the policy added.
Feeling ==
  /\ felt > 0 => RateRefusal(path, answer)
  /\ pc = "judging" => felt = IF Narrows(path, answer) THEN 1 ELSE 0
  /\ (pc \in {"budget", "dozing"} /\ attempt > 1 /\ RateRefusal(path, answer)) =>
       felt >= 1 /\ (IsSuccess(answer) \/ felt = 1)

\* A chain that has waited once finds the permit earned.
Waiting ==
  /\ OneWaitIsEnough
  /\ pc = "budget" => waits = 0 \/ Short(Earn(windows, lag)) = {}
  /\ pc = "dozing" => waits = 1 /\ lag = 0 /\ Short(windows) # {}

LadderInv == LadderTypes /\ Ordinals /\ Feeling /\ Waiting

-----------------------------------------------------------------------------
(* The policy, the clock and the transport. *)

\* What the chain relies on from a verdict of the policy.
Policy(p, a, n, e, step) ==
  /\ step.end = "none" => n < ThrottleAttempts /\ step.wait \in Nat
  /\ step.end # "none" => step.wait = 0 /\ ~step.throttled
  /\ step.end = "server_down" => e >= ServerErrorAttempts \/ n >= ThrottleAttempts
  /\ step.end # "halted"
  /\ step.throttled \in BOOLEAN
  /\ step.throttled => RateRefusal(p, a)
  /\ (step.end = "none" /\ NameRead(p, a) = "Throttled") => step.throttled

\* The pauses of the three ladders are numbers.
LEMMA Pauses ==
  ASSUME NEW n \in 1..ThrottleAttempts, NEW e \in Nat
  PROVE  /\ Pause * 2^(n - 1) \in Nat
         /\ Pause * e * e \in Nat
         /\ Blip * n * n \in Nat
<1>1. 2^(n - 1) \in Nat /\ Pause \in Nat /\ Blip \in Nat /\ n \in Nat
  BY LadderAssumption
<1>2. Pause * e \in Nat /\ Blip * n \in Nat
  BY <1>1, ProductIsNat
<1> QED
  BY <1>1, <1>2, ProductIsNat

LEMMA StepFacts ==
  ASSUME NEW p \in Paths, NEW a \in Answers,
         NEW n \in 1..ThrottleAttempts, NEW e \in Nat
  PROVE  Policy(p, a, n, e, Step(p, a, n, e))
<1> DEFINE T == ThrottleLadder(n)
           S == ServerLadder(n, e)
           B == BlipLadder(n)
<1>1. a.named \in Dispositions \cup {Unnamed} /\ a.status \in Statuses
  BY DEF Answers, Answer
<1>2. ThrottleAttempts \in Nat /\ ServerErrorAttempts \in Nat /\ n \in Nat
  BY LadderAssumption
<1>3. /\ T.end = "none" => n < ThrottleAttempts /\ T.wait \in Nat /\ T.throttled
      /\ T.end # "none" => T.end = "exhausted" /\ T.wait = 0 /\ ~T.throttled
      /\ T.throttled \in BOOLEAN
  <2> DEFINE w == Pause * 2^(n - 1)
  <2>1. w \in Nat
    BY Pauses
  <2>2. T = IF n >= ThrottleAttempts
            THEN [end |-> "exhausted", wait |-> 0, throttled |-> FALSE]
            ELSE [end |-> "none", wait |-> w, throttled |-> TRUE]
    BY DEF ThrottleLadder, End, Again
  <2> HIDE DEF w, T
  <2> QED
    BY <1>2, <2>1, <2>2
<1>4. /\ S.end = "none" => n < ThrottleAttempts /\ S.wait \in Nat
      /\ S.end # "none" => /\ S.end = "server_down" /\ S.wait = 0
                           /\ e >= ServerErrorAttempts \/ n >= ThrottleAttempts
      /\ S.throttled = FALSE
  BY <1>2, Pauses DEF ServerLadder, End, Again
<1>5. /\ B.end = "none" => n < ThrottleAttempts /\ B.wait \in Nat
      /\ B.end # "none" => B.end = "exhausted" /\ B.wait = 0
      /\ B.throttled = FALSE
  BY <1>2, Pauses DEF BlipLadder, End, Again
<1> DEFINE Ends == {"not_entitled", "session_dead", "answered"}
<1>6. ASSUME NEW how \in Ends
      PROVE  Policy(p, a, n, e, End(how))
  BY <1>6 DEF Policy, End
<1>7. (a.status = 429 \/ NameRead(p, a) = "Throttled") => Policy(p, a, n, e, T)
  <2> HIDE DEF T
  <2> QED
    BY <1>3 DEF Policy, RateRefusal
<1>8. NameRead(p, a) # "Throttled" => Policy(p, a, n, e, S) /\ Policy(p, a, n, e, B)
  <2> HIDE DEF S, B
  <2> QED
    BY <1>4, <1>5 DEF Policy
<1> HIDE DEF T, S, B
<1>9. CASE NameRead(p, a) # Unnamed
  <2>1. NameRead(p, a) = a.named /\ a.named \in Dispositions
    BY <1>1, <1>9 DEF NameRead
  <2>2. Step(p, a, n, e) = OnName(a.named, n, e)
    BY <1>9 DEF Step
  <2>3. CASE a.named = "Throttled"
    <3>1. OnName(a.named, n, e) = T
      BY <2>3 DEF OnName, T
    <3> QED
      BY <1>7, <2>1, <2>2, <2>3, <3>1
  <2>4. CASE a.named = "RetryBounded"
    <3>1. OnName(a.named, n, e) = S
      BY <2>4 DEF OnName, S
    <3> QED
      BY <1>8, <2>1, <2>2, <2>4, <3>1
  <2>5. CASE a.named \notin {"Throttled", "RetryBounded"}
    <3>1. \E how \in Ends : OnName(a.named, n, e) = End(how)
      <4>1. CASE a.named = "NotEntitled"
        <5>1. OnName(a.named, n, e) = End("not_entitled")
          BY <4>1 DEF OnName
        <5> QED
          BY <5>1
      <4>2. CASE a.named = "SessionDead"
        <5>1. OnName(a.named, n, e) = End("session_dead")
          BY <4>2 DEF OnName
        <5> QED
          BY <5>1
      <4>3. CASE a.named \in {"RequestWrong", "ReasonGiven"}
        <5>1. OnName(a.named, n, e) = End("answered")
          BY <4>3 DEF OnName
        <5> QED
          BY <5>1
      <4> QED
        BY <2>1, <2>5, <4>1, <4>2, <4>3 DEF Dispositions
    <3> QED
      BY <1>6, <2>2, <3>1
  <2> QED
    BY <2>3, <2>4, <2>5
<1>10. CASE NameRead(p, a) = Unnamed /\ a.marker
  <2>1. Step(p, a, n, e) = End("session_dead")
    BY <1>10 DEF Step
  <2> QED
    BY <1>6, <2>1
<1>11. CASE NameRead(p, a) = Unnamed /\ ~a.marker
  <2>1. Step(p, a, n, e) = OnStatus(StatusRead(a), n, e)
    BY <1>11 DEF Step
  <2>2. StatusRead(a) \in {0, a.status} /\ StatusRead(a) \in Statuses
    BY <1>1 DEF StatusRead, Statuses
  <2>3. NameRead(p, a) # "Throttled"
    BY <1>11 DEF Unnamed
  <2>4. CASE StatusRead(a) = 429
    <3>1. OnStatus(StatusRead(a), n, e) = T /\ a.status = 429
      BY <2>2, <2>4 DEF OnStatus, T
    <3> QED
      BY <1>7, <2>1, <3>1
  <2>5. CASE StatusRead(a) = 500
    <3>1. OnStatus(StatusRead(a), n, e) = S
      BY <2>5 DEF OnStatus, S
    <3> QED
      BY <1>8, <2>1, <2>3, <3>1
  <2>6. CASE StatusRead(a) = 0
    <3>1. OnStatus(StatusRead(a), n, e) = B
      BY <2>6 DEF OnStatus, B
    <3> QED
      BY <1>8, <2>1, <2>3, <3>1
  <2>7. CASE StatusRead(a) = 401
    <3>1. OnStatus(StatusRead(a), n, e) = End("session_dead")
      BY <2>7 DEF OnStatus
    <3> QED
      BY <1>6, <2>1, <3>1
  <2>8. CASE StatusRead(a) \in {200, 400}
    <3>1. OnStatus(StatusRead(a), n, e) = End("answered")
      BY <2>8 DEF OnStatus
    <3> QED
      BY <1>6, <2>1, <3>1
  <2> QED
    BY <2>2, <2>4, <2>5, <2>6, <2>7, <2>8 DEF Statuses
<1> QED
  BY <1>9, <1>10, <1>11

\* A request that was refused before the socket is asked again as a blip is.
LEMMA RefusedIsABlip ==
  ASSUME NEW p, NEW n, NEW e
  PROVE  Step(p, None, n, e).end # "server_down"
<1>1. Step(p, None, n, e) = OnStatus(0, n, e)
  BY DEF Step, NameRead, None, Unnamed, StatusRead
<1>2. OnStatus(0, n, e) = BlipLadder(n)
  BY DEF OnStatus
<1>3. BlipLadder(n).end # "server_down"
  BY DEF BlipLadder, End, Again
<1> QED
  BY <1>1, <1>2, <1>3

LEMMA LaterFacts ==
  ASSUME lag \in 0..Longest, NEW delay \in Nat
  PROVE  /\ Later(delay) \in 0..Longest
         /\ \A w \in 0..Longest : w <= delay => w <= Later(delay)
  BY RateAssumption DEF Later, Least

LEMMA FeedbackIsGood ==
  ASSUME GoodGovernor(windows), NEW p, NEW a
  PROVE  GoodGovernor(Feedback(p, a))
  BY Tightening, Relaxing DEF Feedback

LEMMA NoneIsAnAnswer == None \in Answers
  BY DEF None, Answers, Answer, Unnamed, Statuses

-----------------------------------------------------------------------------
(* The invariant. *)

LEMMA LadderBegins == LadderInit => LadderInv
<1> SUFFICES ASSUME LadderInit PROVE LadderInv
  OBVIOUS
<1>1. LadderTypes
  BY FreshIsGood, NoneIsAnAnswer, LadderAssumption, RateAssumption
  DEF LadderInit, LadderTypes
<1>2. Ordinals
  BY DEF LadderInit, Ordinals, EveryRequestIsPaid, DownIsMeasured, Active
<1>3. Feeling
  BY DEF LadderInit, Feeling
<1>4. Waiting
  BY DEF LadderInit, Waiting, OneWaitIsEnough
<1> QED
  BY <1>1, <1>2, <1>3, <1>4 DEF LadderInv

LEMMA StartStep == LadderInv /\ StartChunk => LadderInv'
<1> SUFFICES ASSUME LadderInv, StartChunk PROVE LadderInv'
  OBVIOUS
<1>1. LadderTypes'
  <2>1. lag' \in 0..Longest
    <3>1. PICK delay \in 0..Longest : lag' = Later(delay)
      BY DEF StartChunk
    <3> QED
      BY <3>1, LaterFacts, RateAssumption DEF LadderInv, LadderTypes
  <2> QED
    BY <2>1, NoneIsAnAnswer, LadderAssumption
    DEF StartChunk, LadderInv, LadderTypes, Active, GoodGovernor, Capacity
<1>2. Ordinals'
  BY DEF StartChunk, Ordinals, EveryRequestIsPaid, DownIsMeasured, Unjudged, Active
<1>3. Feeling'
  BY DEF StartChunk, Feeling
<1>4. Waiting'
  BY DEF StartChunk, Waiting, OneWaitIsEnough
<1> QED
  BY <1>1, <1>2, <1>3, <1>4 DEF LadderInv

LEMMA GrantedStep == LadderInv /\ Granted => LadderInv'
<1> SUFFICES ASSUME LadderInv, Granted PROVE LadderInv'
  OBVIOUS
<1> USE DEF Granted, chunk
<1>1. LadderTypes'
  <2>1. GoodGovernor(Charge(Earn(windows, lag)))
    <3>1. GoodGovernor(windows) /\ lag \in Nat
      BY RateAssumption DEF LadderInv, LadderTypes
    <3> QED
      BY <3>1, Earning, Charging
  <2> QED
    BY <2>1, RateAssumption DEF LadderInv, LadderTypes, Active
<1>2. Ordinals'
  BY DEF LadderInv, LadderTypes, Ordinals, EveryRequestIsPaid, DownIsMeasured,
         Unjudged, Active
<1>3. Feeling'
  BY DEF LadderInv, Feeling
<1>4. Waiting'
  BY DEF LadderInv, Waiting, OneWaitIsEnough
<1> QED
  BY <1>1, <1>2, <1>3, <1>4 DEF LadderInv

\* A denial is the first of its attempt: after a wait the permit is earned.
LEMMA DeniedStep == LadderInv /\ Denied => LadderInv'
<1> SUFFICES ASSUME LadderInv, Denied PROVE LadderInv'
  OBVIOUS
<1> USE DEF Denied, chunk, history
<1>1. LadderTypes'
  <2>1. GoodGovernor(Earn(windows, lag))
    <3>1. GoodGovernor(windows) /\ lag \in Nat
      BY RateAssumption DEF LadderInv, LadderTypes
    <3> QED
      BY <3>1, Earning
  <2> QED
    BY <2>1, RateAssumption DEF LadderInv, LadderTypes, Active
<1>2. Ordinals'
  BY DEF LadderInv, LadderTypes, Ordinals, EveryRequestIsPaid, DownIsMeasured,
         Unjudged, Active
<1>3. Feeling'
  BY DEF LadderInv, Feeling
<1>4. Waiting'
  <2>1. waits = 0
    BY DEF LadderInv, Waiting
  <2> QED
    BY <2>1 DEF LadderInv, Waiting, OneWaitIsEnough
<1> QED
  BY <1>1, <1>2, <1>3, <1>4 DEF LadderInv

\* The sleep is as long as the longest wait of a window, so it pays.
LEMMA DozeStep == LadderInv /\ Doze => LadderInv'
<1> SUFFICES ASSUME LadderInv, Doze PROVE LadderInv'
  OBVIOUS
<1> USE DEF Doze, chunk, history
<1> DEFINE w == WaitOf(windows, Binding(windows))
<1>1. /\ GoodGovernor(windows) /\ lag = 0 /\ waits = 1 /\ Short(windows) # {}
      /\ pc = "dozing"
  BY DEF LadderInv, LadderTypes, Waiting
<1>2. w \in 0..Longest
  <2>1. Binding(windows) \in Short(windows) /\ Binding(windows) \in Spans
    BY <1>1, BindingWaitsLongest DEF Short
  <2>2. w \in 1..Len[Binding(windows)] /\ Len[Binding(windows)] \in 1..Longest
    BY <1>1, <2>1, WaitBounds, RateAssumption
  <2> HIDE DEF w
  <2> QED
    BY <2>2, RateAssumption
<1>3. PICK over \in 0..Longest : lag' = Later(w + Slack + over)
  OBVIOUS
<1> HIDE DEF w
<1>4. w + Slack + over \in Nat /\ w <= w + Slack + over
  BY <1>2, LadderAssumption, RateAssumption
<1>5. lag' \in 0..Longest /\ w <= lag'
  BY <1>2, <1>3, <1>4, LaterFacts DEF LadderInv, LadderTypes
<1>6. Short(Earn(windows, lag')) = {}
  BY <1>1, <1>5, WaitPays, RateAssumption DEF w
<1>7. pc' = "budget" /\ UNCHANGED verdict
  BY <1>1, LadderAssumption
<1>8. LadderTypes'
  BY <1>5, <1>7 DEF LadderInv, LadderTypes, Active, GoodGovernor, Capacity
<1>9. Ordinals'
  BY <1>1, <1>7 DEF LadderInv, Ordinals, EveryRequestIsPaid, DownIsMeasured,
                    Unjudged, Active
<1>10. Feeling'
  BY <1>1, <1>7 DEF LadderInv, Feeling
<1>11. Waiting'
  BY <1>1, <1>6, <1>7 DEF LadderInv, Waiting, OneWaitIsEnough
<1> QED
  BY <1>8, <1>9, <1>10, <1>11 DEF LadderInv

LEMMA AbandonStep == LadderInv /\ Abandon => LadderInv'
<1> SUFFICES ASSUME LadderInv, Abandon PROVE LadderInv'
  OBVIOUS
<1> USE DEF Abandon, chunk, history
<1>1. LadderTypes'
  <2>1. lag' \in 0..Longest
    <3>1. PICK delay \in 0..Longest : lag' = Later(delay)
      OBVIOUS
    <3> QED
      BY <3>1, LaterFacts, RateAssumption DEF LadderInv, LadderTypes
  <2> QED
    BY <2>1 DEF LadderInv, LadderTypes, Active, GoodGovernor, Capacity
<1>2. Ordinals'
  BY DEF LadderInv, LadderTypes, Ordinals, EveryRequestIsPaid, DownIsMeasured,
         Unjudged, Active
<1>3. Feeling'
  BY DEF LadderInv, Feeling
<1>4. Waiting'
  BY DEF LadderInv, Waiting, OneWaitIsEnough
<1> QED
  BY <1>1, <1>2, <1>3, <1>4 DEF LadderInv

LEMMA RefuseStep == LadderInv /\ Refuse => LadderInv'
<1> SUFFICES ASSUME LadderInv, Refuse PROVE LadderInv'
  OBVIOUS
<1> USE DEF Refuse, chunk, governor
<1>1. LadderTypes'
  BY NoneIsAnAnswer DEF LadderInv, LadderTypes, Active, GoodGovernor, Capacity
<1>2. Ordinals'
  <2>1. Unjudged = 0 /\ Unjudged' = 0
    BY DEF Unjudged, IsServerError, None
  <2> QED
    BY <2>1 DEF LadderInv, LadderTypes, Ordinals, EveryRequestIsPaid, DownIsMeasured,
                Active
<1>3. Feeling'
  <2>1. ~Narrows(path, None)
    BY DEF Narrows, BodyRefuses, IsSuccess, None
  <2> QED
    BY <2>1 DEF LadderInv, Feeling
<1>4. Waiting'
  BY DEF LadderInv, Waiting, OneWaitIsEnough
<1> QED
  BY <1>1, <1>2, <1>3, <1>4 DEF LadderInv

LEMMA SendStep == LadderInv /\ Send => LadderInv'
<1> SUFFICES ASSUME LadderInv, Send PROVE LadderInv'
  OBVIOUS
<1> USE DEF Send, chunk, governor
<1>1. LadderTypes'
  BY DEF LadderInv, LadderTypes, Active, GoodGovernor, Capacity
<1>2. Ordinals'
  BY DEF LadderInv, LadderTypes, Ordinals, EveryRequestIsPaid, DownIsMeasured,
         Unjudged, Active
<1>3. Feeling'
  BY DEF LadderInv, Feeling
<1>4. Waiting'
  BY DEF LadderInv, Waiting, OneWaitIsEnough
<1> QED
  BY <1>1, <1>2, <1>3, <1>4 DEF LadderInv

LEMMA ReceiveStep == LadderInv /\ Receive => LadderInv'
<1> SUFFICES ASSUME LadderInv, Receive PROVE LadderInv'
  OBVIOUS
<1> USE DEF Receive, chunk
<1>1. /\ answer' \in Answers
      /\ windows' = Feedback(path, answer')
      /\ felt' = IF Narrows(path, answer') THEN 1 ELSE 0
      /\ fives' = fives + (IF IsServerError(answer') THEN 1 ELSE 0)
  OBVIOUS
<1>2. LadderTypes'
  <2>1. lag' \in 0..Longest
    <3>1. PICK flight \in 0..Longest : lag' = Later(flight)
      OBVIOUS
    <3> QED
      BY <3>1, LaterFacts, RateAssumption DEF LadderInv, LadderTypes
  <2>2. GoodGovernor(windows')
    BY <1>1, FeedbackIsGood DEF LadderInv, LadderTypes
  <2>3. felt' \in Nat /\ fives' \in Nat
    BY <1>1 DEF LadderInv, LadderTypes
  <2> QED
    BY <1>1, <2>1, <2>2, <2>3
    DEF LadderInv, LadderTypes, Active, GoodGovernor, Capacity
<1>3. Ordinals'
  <2>1. Unjudged = 0 /\ Unjudged' = IF IsServerError(answer') THEN 1 ELSE 0
    BY DEF Unjudged, IsServerError
  <2> QED
    BY <1>1, <2>1 DEF LadderInv, LadderTypes, Ordinals, EveryRequestIsPaid,
                      DownIsMeasured, Active
<1>4. Feeling'
  <2>1. Narrows(path, answer') => RateRefusal(path, answer')
    BY DEF Narrows, BodyRefuses, RateRefusal, NameRead
  <2>2. UNCHANGED path /\ pc' = "judging"
    OBVIOUS
  <2> QED
    BY <1>1, <2>1, <2>2
    DEF Feeling, RateRefusal, NameRead, Narrows, BodyRefuses, IsSuccess
<1>5. Waiting'
  BY DEF LadderInv, Waiting, OneWaitIsEnough
<1> QED
  BY <1>2, <1>3, <1>4, <1>5 DEF LadderInv

LEMMA FinishStep == LadderInv /\ Finish => LadderInv'
<1> SUFFICES ASSUME LadderInv, Finish PROVE LadderInv'
  OBVIOUS
<1> USE DEF Finish, chunk, governor, history
<1>1. LadderTypes'
  BY DEF LadderInv, LadderTypes, Active, GoodGovernor, Capacity
<1>2. Ordinals'
  BY DEF LadderInv, LadderTypes, Ordinals, EveryRequestIsPaid, DownIsMeasured,
         Unjudged, Active
<1>3. Feeling'
  BY DEF LadderInv, Feeling
<1>4. Waiting'
  BY DEF LadderInv, Waiting, OneWaitIsEnough
<1> QED
  BY <1>1, <1>2, <1>3, <1>4 DEF LadderInv

\* The policy's verdict: everything it does is in StepFacts.
LEMMA JudgeStep == LadderInv /\ Judge => LadderInv'
<1> SUFFICES ASSUME LadderInv, Judge PROVE LadderInv'
  OBVIOUS
<1> DEFINE e == Tallied(answer, errors)
           step == Step(path, answer, attempt, e)
           again == NarrowsAgain(path, answer, step)
<1>1. /\ pc = "judging" /\ waits' = 0
      /\ UNCHANGED <<path, spells, answer, permits, requests, fives>>
      /\ errors' = e
      /\ windows' = IF again THEN RecordThrottled(windows) ELSE windows
      /\ felt' = felt + (IF again THEN 1 ELSE 0)
      /\ verdict' = step.end
      /\ pc' = IF step.end = "none" THEN "budget" ELSE "idle"
      /\ attempt' = attempt + (IF step.end = "none" THEN 1 ELSE 0)
      /\ lag' = Later(step.wait)
  BY DEF Judge, NextAttempt
<1>2. /\ path \in Paths /\ answer \in Answers /\ attempt \in 1..ThrottleAttempts
      /\ errors \in Nat /\ felt \in Nat /\ GoodGovernor(windows)
      /\ lag \in 0..Longest
  BY DEF LadderInv, LadderTypes
<1>3. e \in Nat /\ e = fives
  BY <1>1, <1>2 DEF Tallied, LadderInv, Ordinals, Unjudged, Active
<1>4. Policy(path, answer, attempt, e, step)
  BY <1>2, <1>3, StepFacts
<1>5. again <=> path = "bars" /\ step.throttled /\ answer.status # 429
  BY DEF NarrowsAgain
<1>6. again => step.throttled
  BY <1>5
<1> HIDE DEF e, step, again
<1>7. step.wait \in Nat
  BY <1>4 DEF Policy
<1>8. LadderTypes'
  <2>1. lag' \in 0..Longest
    BY <1>1, <1>2, <1>7, LaterFacts
  <2>2. GoodGovernor(windows')
    BY <1>1, <1>2, Relaxing
  <2>3. attempt' \in 1..ThrottleAttempts
    BY <1>1, <1>2, <1>4, LadderAssumption DEF Policy
  <2>4. felt' \in Nat
    BY <1>1, <1>2
  <2> QED
    BY <1>1, <1>3, <2>1, <2>2, <2>3, <2>4
    DEF LadderInv, LadderTypes, Active, GoodGovernor, Capacity
<1>9. Ordinals'
  <2>1. /\ permits = attempt /\ requests = IF spells THEN attempt ELSE 0
        /\ spells \in BOOLEAN /\ (~spells => answer = None)
    BY <1>1 DEF LadderInv, LadderTypes, Ordinals, Active
  <2>2. Unjudged' = 0 /\ errors' = fives' /\ errors' \in Nat
    BY <1>1, <1>3 DEF Unjudged
  <2>3. DownIsMeasured'
    <3>1. CASE spells
      BY <1>1, <1>2, <1>3, <1>4, <2>1, <3>1, LadderAssumption DEF DownIsMeasured, Policy
    <3>2. CASE ~spells
      <4>1. step.end # "server_down"
        BY <2>1, <3>2, RefusedIsABlip DEF step
      <4> QED
        BY <1>1, <4>1 DEF DownIsMeasured
    <3> QED
      BY <2>1, <3>1, <3>2
  <2>4. EveryRequestIsPaid'
    BY <1>1, <1>2, <2>1 DEF EveryRequestIsPaid
  <2>5. pc' \in {"budget", "idle"}
    BY <1>1
  <2>6. pc' = "budget" => permits' = attempt' - 1 /\ verdict' = "none"
    BY <1>1, <1>2, <2>1
  <2>9. requests' = (IF spells' THEN permits' ELSE 0)
    BY <1>1, <2>1
  <2>7. errors' + Unjudged' = fives'
    <3>1. e + 0 = e
      BY <1>3
    <3>2. Unjudged' = 0 /\ errors' = e /\ fives' = e
      BY <1>1, <1>3, <2>2
    <3> QED
      BY <3>1, <3>2
  <2>8. /\ pc' \in Active => pc' = "budget"
        /\ pc' \in {"budget", "dozing", "ready"} => pc' = "budget"
        /\ pc' \notin {"flight", "judging"}
    BY <2>5 DEF Active
  <2> QED
    BY <1>1, <2>3, <2>4, <2>6, <2>7, <2>8, <2>9 DEF Ordinals
<1>10. Feeling'
  <2>1. felt = IF Narrows(path, answer) THEN 1 ELSE 0
    BY <1>1 DEF LadderInv, Feeling
  <2>2. again => RateRefusal(path, answer)
    BY <1>4, <1>6 DEF Policy
  <2>3. felt > 0 => RateRefusal(path, answer)
    BY DEF LadderInv, Feeling
  <2>4. felt' > 0 => RateRefusal(path, answer)
    BY <1>1, <1>2, <2>2, <2>3
  <2>5. ASSUME step.end = "none", RateRefusal(path, answer)
        PROVE  felt' >= 1 /\ (IsSuccess(answer) \/ felt' = 1)
    <3>1. CASE answer.status = 429
      BY <1>1, <1>5, <2>1, <3>1 DEF Narrows
    <3>2. CASE answer.status # 429
      <4>1. path = "bars" /\ NameRead(path, answer) = "Throttled"
        BY <2>5, <3>2 DEF RateRefusal, NameRead, Unnamed
      <4>2. again
        BY <1>4, <1>5, <2>5, <3>2, <4>1 DEF Policy
      <4>3. felt' = felt + 1
        BY <1>1, <4>2
      <4>4. Narrows(path, answer) => IsSuccess(answer)
        BY <3>2 DEF Narrows, BodyRefuses
      <4> QED
        BY <2>1, <4>3, <4>4
    <3> QED
      BY <3>1, <3>2
  <2>6. pc' = "budget" => step.end = "none"
    BY <1>1
  <2> QED
    BY <1>1, <2>4, <2>5, <2>6 DEF Feeling, RateRefusal, NameRead, IsSuccess
<1>11. Waiting'
  <2>1. verdict' # "halted"
    BY <1>1, <1>4 DEF Policy
  <2> QED
    BY <1>1, <2>1 DEF Waiting, OneWaitIsEnough
<1> QED
  BY <1>8, <1>9, <1>10, <1>11 DEF LadderInv

LEMMA LadderStep == LadderInv /\ [LadderNext]_ladder => LadderInv'
<1> SUFFICES ASSUME LadderInv, [LadderNext]_ladder PROVE LadderInv'
  OBVIOUS
<1>1. CASE UNCHANGED ladder
  <2> USE <1>1 DEF ladder, governor, chunk, history
  <2>1. LadderTypes'
    BY DEF LadderInv, LadderTypes, GoodGovernor, Capacity
  <2>2. Ordinals'
    BY DEF LadderInv, Ordinals, Unjudged, EveryRequestIsPaid, DownIsMeasured
  <2>3. Feeling'
    BY DEF LadderInv, Feeling
  <2>4. Waiting'
    <3>1. Earn(windows, lag)' = Earn(windows, lag)
      BY DEF Earn, Capacity
    <3> QED
      BY DEF LadderInv, Waiting, OneWaitIsEnough, Short, Earn
  <2> QED
    BY <2>1, <2>2, <2>3, <2>4 DEF LadderInv
<1> QED
  BY <1>1, StartStep, GrantedStep, DeniedStep, DozeStep, AbandonStep, RefuseStep,
     SendStep, ReceiveStep,
     FinishStep, JudgeStep DEF LadderNext

LEMMA LadderAlways == LadderSpec => []LadderInv
  BY LadderBegins, LadderStep, PTL DEF LadderSpec

-----------------------------------------------------------------------------
(* What follows from it. *)

\* A request costs one permit, whatever the outcome of the attempts before it,
\* an attempt withdraws at most one, and a chunk loses permits only if nothing
\* of it goes out.
THEOREM RequestsArePaid == LadderSpec => []EveryRequestIsPaid
<1>1. LadderInv => EveryRequestIsPaid
  BY DEF LadderInv, Ordinals
<1> QED
  BY <1>1, LadderAlways, PTL

\* A refusal for rate narrows the governor before the chunk is asked again,
\* once only unless it came under a 2xx, and no other answer narrows it.
THEOREM RefusalsAreFelt == LadderSpec => []RateRefusalIsFelt
<1>1. LadderInv => RateRefusalIsFelt
  BY DEF LadderInv, Feeling, RateRefusalIsFelt, Reasking, NextAttempt
<1> QED
  BY <1>1, LadderAlways, PTL

\* A vendor is reported down for its own 5xx answers or a spent ladder.
THEOREM DownsAreMeasured == LadderSpec => []DownIsMeasured
<1>1. LadderInv => DownIsMeasured
  BY DEF LadderInv, Ordinals
<1> QED
  BY <1>1, LadderAlways, PTL

\* One wait clears every denial: the chain is never told to give up.
THEOREM WaitsAreEnough == LadderSpec => []OneWaitIsEnough
<1>1. LadderInv => OneWaitIsEnough
  BY DEF LadderInv, Waiting
<1> QED
  BY <1>1, LadderAlways, PTL
=============================================================================
