--------------------------- MODULE MonthRows_proofs ---------------------------
(***************************************************************************)
(* The decision `append` takes is the right one for every month and every  *)
(* batch, however long and whatever times and values their bars carry.     *)
(*                                                                         *)
(* The bisection is a recursive function.  That it exists, and that it     *)
(* finds the place of the batch, is shown by a least counterexample: the   *)
(* shortest gap between two positions for which it does not.               *)
(***************************************************************************)
EXTENDS MCMonthRows, TLAPS, WellFoundedInduction, FiniteSetTheorems, SequenceTheorems

(* A non-empty set of numbers has a least one.                             *)
LEMMA LeastNumber ==
    ASSUME NEW T, T \subseteq Nat, T # {}
    PROVE  \E x \in T : \A y \in T : x <= y
<1>1. IsWellFoundedOn(OpToRel(<, Nat), Nat)
  BY NatLessThanWellFounded
<1>2. PICK x \in T : \A y \in T : << y, x >> \notin OpToRel(<, Nat)
  BY <1>1, WFMin
<1>3. ASSUME NEW y \in T PROVE x <= y
  <2>1. ~(y < x)
    BY <1>2 DEF OpToRel
  <2> QED
    BY <2>1
<1> QED
  BY <1>3

-----------------------------------------------------------------------------
(* The bisection.                                                          *)

Gaps(n) == (0 .. n) \X (0 .. n)

(* What the bisection answers for a gap, given its answers for shorter ones. *)
Halved(f, ts, bad, w, gap) ==
    LET lo == gap[1]
        hi == gap[2]
        mid == lo + ((hi - lo) \div 2)
        rest == IF (mid + 1) \in bad THEN [at |-> lo, reads |-> {}]
                ELSE IF f[mid + 1].ts < ts THEN w[<< mid + 1, hi >>]
                ELSE w[<< lo, mid >>]
    IN  IF lo >= hi THEN [at |-> lo, reads |-> {}]
        ELSE [at |-> rest.at, reads |-> {mid + 1} \cup rest.reads]

(* It lies inside the gap, and both halves are shorter.                    *)
LEMMA Middle ==
    ASSUME NEW n \in Nat, NEW lo \in 0 .. n, NEW hi \in 0 .. n, lo < hi
    PROVE  LET mid == lo + ((hi - lo) \div 2)
           IN  /\ mid \in lo .. hi - 1 /\ mid \in 0 .. n /\ mid + 1 \in 1 .. n
               /\ mid + 1 \in 0 .. n /\ mid + 1 <= hi
               /\ hi - (mid + 1) < hi - lo /\ mid - lo < hi - lo
  OBVIOUS

(* Two functions answer the gaps shorter than a length alike.              *)
Alike(u, w, n, d) == \A a, b \in 0 .. n : b - a < d => u[<< a, b >>] = w[<< a, b >>]

(* Two functions that answer shorter gaps alike bisect a gap alike.        *)
LEMMA HalvedAlike ==
    ASSUME NEW f, NEW n \in Nat, NEW ts, NEW bad, NEW u, NEW w,
           NEW lo \in 0 .. n, NEW hi \in 0 .. n,
           Alike(u, w, n, hi - lo)
    PROVE  Halved(f, ts, bad, u, << lo, hi >>) = Halved(f, ts, bad, w, << lo, hi >>)
<1>1. CASE lo >= hi
  BY <1>1 DEF Halved
<1>2. CASE lo < hi
  <2> DEFINE mid == lo + ((hi - lo) \div 2)
  <2>1. u[<< mid + 1, hi >>] = w[<< mid + 1, hi >>] /\ u[<< lo, mid >>] = w[<< lo, mid >>]
    BY <1>2, Middle DEF Alike
  <2> QED
    BY <2>1 DEF Halved
<1> QED
  BY <1>1, <1>2

(* A function that answers every gap up to a length as the bisection does. *)
Solves(f, n, ts, bad, w, d) ==
    /\ w = [gap \in Gaps(n) |-> w[gap]]
    /\ \A lo, hi \in 0 .. n : hi - lo <= d =>
           w[<< lo, hi >>] = Halved(f, ts, bad, w, << lo, hi >>)

LEMMA SolvesNone ==
    ASSUME NEW f, NEW n \in Nat, NEW ts, NEW bad
    PROVE  \E w : Solves(f, n, ts, bad, w, 0)
<1> DEFINE w == [gap \in Gaps(n) |-> [at |-> gap[1], reads |-> {}]]
<1>1. ASSUME NEW lo \in 0 .. n, NEW hi \in 0 .. n, hi - lo <= 0
      PROVE  w[<< lo, hi >>] = Halved(f, ts, bad, w, << lo, hi >>)
  <2>1. w[<< lo, hi >>] = [at |-> lo, reads |-> {}]
    BY DEF Gaps
  <2> HIDE DEF w
  <2>2. lo >= hi
    BY <1>1
  <2>3. Halved(f, ts, bad, w, << lo, hi >>) = [at |-> lo, reads |-> {}]
    BY <2>2 DEF Halved
  <2> QED
    BY <2>1, <2>3
<1>2. w = [gap \in Gaps(n) |-> w[gap]]
  OBVIOUS
<1> HIDE DEF w
<1> QED
  BY <1>1, <1>2 DEF Solves

LEMMA SolvesMore ==
    ASSUME NEW f, NEW n \in Nat, NEW ts, NEW bad, NEW d \in Nat, NEW w,
           Solves(f, n, ts, bad, w, d)
    PROVE  \E u : Solves(f, n, ts, bad, u, d + 1)
<1> DEFINE u == [gap \in Gaps(n) |-> Halved(f, ts, bad, w, gap)]
<1>1. \A lo, hi \in 0 .. n : u[<< lo, hi >>] = Halved(f, ts, bad, w, << lo, hi >>)
  BY DEF Gaps
<1>2. u = [gap \in Gaps(n) |-> u[gap]]
  OBVIOUS
<1> HIDE DEF u
<1>3. ASSUME NEW lo \in 0 .. n, NEW hi \in 0 .. n, hi - lo <= d + 1
      PROVE  u[<< lo, hi >>] = Halved(f, ts, bad, u, << lo, hi >>)
  <2>1. Alike(w, u, n, hi - lo)
    BY <1>1, <1>3 DEF Solves, Alike
  <2>2. Halved(f, ts, bad, w, << lo, hi >>) = Halved(f, ts, bad, u, << lo, hi >>)
    BY <1>3, <2>1, HalvedAlike
  <2> QED
    BY <1>1, <2>2
<1> QED
  BY <1>2, <1>3 DEF Solves

LEMMA SolvesAll ==
    ASSUME NEW f, NEW n \in Nat, NEW ts, NEW bad
    PROVE  \E w : Solves(f, n, ts, bad, w, n)
<1> DEFINE T == {d \in Nat : ~\E w : Solves(f, n, ts, bad, w, d)}
<1>1. SUFFICES ASSUME T # {} PROVE FALSE
  OBVIOUS
<1>2. PICK d \in T : \A e \in T : d <= e
  BY <1>1, LeastNumber
<1>3. CASE d = 0
  BY <1>2, <1>3, SolvesNone
<1>4. CASE d # 0
  <2>1. d - 1 \in Nat /\ d - 1 \notin T /\ d = (d - 1) + 1
    BY <1>2, <1>4
  <2>2. PICK w : Solves(f, n, ts, bad, w, d - 1)
    BY <2>1
  <2>3. \E u : Solves(f, n, ts, bad, u, (d - 1) + 1)
    BY <2>1, <2>2, SolvesMore
  <2> QED
    BY <1>2, <2>1, <2>3
<1> QED
  BY <1>3, <1>4

Bisects(f, n, ts, bad, w) == w = [gap \in Gaps(n) |-> Halved(f, ts, bad, w, gap)]

(* The recursive function of the bisection exists.                         *)
LEMMA BisectionExists ==
    ASSUME NEW f, NEW n \in Nat, NEW ts, NEW bad
    PROVE  \E w : Bisects(f, n, ts, bad, w)
<1>1. PICK w : Solves(f, n, ts, bad, w, n)
  BY SolvesAll
<1>2. ASSUME NEW gap \in Gaps(n) PROVE w[gap] = Halved(f, ts, bad, w, gap)
  <2>1. PICK lo \in 0 .. n, hi \in 0 .. n : gap = << lo, hi >>
    BY DEF Gaps
  <2>2. hi - lo <= n
    OBVIOUS
  <2> QED
    BY <1>1, <2>1, <2>2 DEF Solves
<1>3. w = [gap \in Gaps(n) |-> w[gap]]
  BY <1>1 DEF Solves
<1>4. Bisects(f, n, ts, bad, w)
  BY <1>2, <1>3 DEF Bisects
<1> QED
  BY <1>4

LEMMA BisectHalves ==
    ASSUME NEW f, NEW n \in Nat, NEW ts, NEW bad
    PROVE  \E w : /\ \A lo, hi \in 0 .. n :
                         w[<< lo, hi >>] = Halved(f, ts, bad, w, << lo, hi >>)
                  /\ Bisect(f, n, ts, bad) = w[<< 0, n >>]
<1> DEFINE walk[gap \in (0 .. n) \X (0 .. n)] ==
        LET lo == gap[1]
            hi == gap[2]
            mid == lo + ((hi - lo) \div 2)
            rest == IF (mid + 1) \in bad THEN [at |-> lo, reads |-> {}]
                    ELSE IF f[mid + 1].ts < ts THEN walk[<< mid + 1, hi >>]
                    ELSE walk[<< lo, mid >>]
        IN  IF lo >= hi THEN [at |-> lo, reads |-> {}]
            ELSE [at |-> rest.at, reads |-> {mid + 1} \cup rest.reads]
<1>1. Bisect(f, n, ts, bad) = walk[<< 0, n >>]
  BY DEF Bisect
<1>2. \E w : w = [gap \in (0 .. n) \X (0 .. n) |-> Halved(f, ts, bad, w, gap)]
  <2>1. PICK w : Bisects(f, n, ts, bad, w)
    BY BisectionExists
  <2> QED
    BY <2>1, Zenon DEF Bisects, Gaps
<1>3. walk = [gap \in (0 .. n) \X (0 .. n) |-> Halved(f, ts, bad, walk, gap)]
  BY <1>2, Zenon DEF Halved
<1> HIDE DEF walk
<1>4. ASSUME NEW lo \in 0 .. n, NEW hi \in 0 .. n
      PROVE  walk[<< lo, hi >>] = Halved(f, ts, bad, walk, << lo, hi >>)
  <2> DEFINE gap == << lo, hi >>
  <2>1. gap \in (0 .. n) \X (0 .. n)
    OBVIOUS
  <2> HIDE DEF gap
  <2>2. walk[gap] = Halved(f, ts, bad, walk, gap)
    BY <1>3, <2>1, Zenon
  <2> QED
    BY <2>2 DEF gap
<1> QED
  BY <1>1, <1>4

(* The place of a timestamp in a part of a month: what is before it is     *)
(* earlier and what is after it is not.                                    *)
IsPlace(f, ts, lo, hi, at) ==
    /\ at \in lo .. hi
    /\ \A i \in lo + 1 .. at : f[i].ts < ts
    /\ \A i \in at + 1 .. hi : f[i].ts >= ts

RisesTo(f, n) ==
    /\ \A i \in 1 .. n : f[i].ts \in Nat
    /\ \A i, j \in 1 .. n : i < j => f[i].ts < f[j].ts

(* Finds the place for every gap of a length, unless a read is refused.    *)
Finds(f, n, ts, bad, w, d) ==
    \A lo, hi \in 0 .. n : lo <= hi /\ hi - lo = d /\ w[<< lo, hi >>].reads \cap bad = {} =>
        IsPlace(f, ts, lo, hi, w[<< lo, hi >>].at)

(* A bisection that finds the place in every shorter gap finds it.         *)
LEMMA FindsMore ==
    ASSUME NEW f, NEW n \in Nat, NEW ts \in Nat, NEW bad, NEW w, RisesTo(f, n),
           NEW lo \in 0 .. n, NEW hi \in 0 .. n, lo <= hi,
           w[<< lo, hi >>] = Halved(f, ts, bad, w, << lo, hi >>),
           \A e \in Nat : e < hi - lo => Finds(f, n, ts, bad, w, e),
           w[<< lo, hi >>].reads \cap bad = {}
    PROVE  IsPlace(f, ts, lo, hi, w[<< lo, hi >>].at)
<1>1. CASE lo >= hi
  <2>1. w[<< lo, hi >>].at = lo
    BY <1>1 DEF Halved
  <2> QED
    BY <1>1, <2>1 DEF IsPlace
<1>2. CASE lo < hi
  <2> DEFINE mid == lo + ((hi - lo) \div 2)
             rest == IF (mid + 1) \in bad THEN [at |-> lo, reads |-> {}]
                     ELSE IF f[mid + 1].ts < ts THEN w[<< mid + 1, hi >>]
                     ELSE w[<< lo, mid >>]
  <2>1. /\ mid \in lo .. hi - 1 /\ mid \in 0 .. n /\ mid + 1 \in 1 .. n /\ mid + 1 \in 0 .. n
        /\ mid + 1 <= hi /\ hi - (mid + 1) < hi - lo /\ mid - lo < hi - lo
    BY <1>2, Middle
  <2>2. w[<< lo, hi >>] = [at |-> rest.at, reads |-> {mid + 1} \cup rest.reads]
    BY <1>2 DEF Halved
  <2> HIDE DEF mid
  <2>3. mid + 1 \notin bad /\ rest.reads \cap bad = {} /\ w[<< lo, hi >>].at = rest.at
    BY <2>2
  <2>4. CASE f[mid + 1].ts < ts
    <3>1. rest = w[<< mid + 1, hi >>] /\ hi - (mid + 1) \in Nat
      BY <2>1, <2>3, <2>4
    <3> HIDE DEF rest
    <3>2. IsPlace(f, ts, mid + 1, hi, rest.at)
      BY <2>1, <2>3, <3>1 DEF Finds
    <3>3. ASSUME NEW i \in lo + 1 .. rest.at PROVE f[i].ts < ts
      <4>1. CASE i > mid + 1
        BY <2>1, <3>2, <4>1 DEF IsPlace
      <4>2. CASE i <= mid + 1
        <5>1. i \in 1 .. n /\ rest.at \in Int
          BY <2>1, <3>2, <4>2 DEF IsPlace
        <5>2. f[i].ts <= f[mid + 1].ts
          BY <2>1, <4>2, <5>1 DEF RisesTo
        <5>3. f[i].ts \in Nat /\ f[mid + 1].ts \in Nat
          BY <2>1, <5>1 DEF RisesTo
        <5> QED
          BY <2>4, <5>2, <5>3
      <4> QED
        BY <2>1, <3>2, <4>1, <4>2 DEF IsPlace
    <3> QED
      BY <2>1, <2>3, <3>2, <3>3 DEF IsPlace
  <2>5. CASE ~(f[mid + 1].ts < ts)
    <3>1. rest = w[<< lo, mid >>] /\ mid - lo \in Nat
      BY <2>1, <2>3, <2>5
    <3> HIDE DEF rest
    <3>2. IsPlace(f, ts, lo, mid, rest.at)
      BY <2>1, <2>3, <3>1 DEF Finds
    <3>3. ASSUME NEW i \in rest.at + 1 .. hi PROVE f[i].ts >= ts
      <4>0. rest.at \in lo .. mid /\ i \in 1 .. n
        BY <2>1, <3>2 DEF IsPlace
      <4>1. CASE i <= mid
        BY <2>1, <3>2, <4>0, <4>1 DEF IsPlace
      <4>2. CASE i > mid
        <5>2. f[i].ts >= f[mid + 1].ts /\ f[i].ts \in Nat /\ f[mid + 1].ts \in Nat
          BY <2>1, <4>0, <4>2 DEF RisesTo
        <5> QED
          BY <2>5, <5>2
      <4> QED
        BY <2>1, <4>0, <4>1, <4>2
    <3> QED
      BY <2>1, <2>3, <3>2, <3>3 DEF IsPlace
  <2> QED
    BY <2>4, <2>5
<1> QED
  BY <1>1, <1>2

(* first_at_or_after finds the place of a timestamp in a month that rises, *)
(* unless a block on its way does not verify.                              *)
LEMMA BisectFinds ==
    ASSUME NEW f, NEW n \in Nat, NEW ts \in Nat, NEW bad, RisesTo(f, n),
           Bisect(f, n, ts, bad).reads \cap bad = {}
    PROVE  IsPlace(f, ts, 0, n, Bisect(f, n, ts, bad).at)
<1>1. PICK w : /\ \A lo, hi \in 0 .. n :
                         w[<< lo, hi >>] = Halved(f, ts, bad, w, << lo, hi >>)
               /\ Bisect(f, n, ts, bad) = w[<< 0, n >>]
  BY BisectHalves
<1> DEFINE T == {d \in Nat : ~Finds(f, n, ts, bad, w, d)}
<1>2. T = {}
  <2>1. SUFFICES ASSUME T # {} PROVE FALSE
    OBVIOUS
  <2>2. PICK d \in T : \A e \in T : d <= e
    BY <2>1, LeastNumber
  <2>3. \A e \in Nat : e < d => Finds(f, n, ts, bad, w, e)
    BY <2>2
  <2>4. Finds(f, n, ts, bad, w, d)
    <3> SUFFICES ASSUME NEW lo \in 0 .. n, NEW hi \in 0 .. n, lo <= hi, hi - lo = d,
                        w[<< lo, hi >>].reads \cap bad = {}
                 PROVE  IsPlace(f, ts, lo, hi, w[<< lo, hi >>].at)
      BY DEF Finds
    <3> QED
      BY <1>1, <2>3, FindsMore
  <2> QED
    BY <2>2, <2>4
<1>3. Finds(f, n, ts, bad, w, n)
  BY <1>2
<1> QED
  BY <1>1, <1>3 DEF Finds

-----------------------------------------------------------------------------
(* Rows in time order.                                                     *)

LEMMA RowFacts ==
    ASSUME NEW rows \in Seq(Record), NEW i \in 1 .. Len(rows)
    PROVE  rows[i] \in Record /\ rows[i].ts \in Nat
<1>1. rows[i] \in Record
  OBVIOUS
<1> QED
  BY <1>1, TimesAssumption DEF Record

(* What is ordered bar by bar is ordered.                                  *)
LEMMA OrderedRises ==
    ASSUME NEW rows \in Seq(Record), Ordered(rows), NEW i \in 1 .. Len(rows)
    PROVE  \A j \in i + 1 .. Len(rows) : rows[i].ts < rows[j].ts
<1> DEFINE T == {j \in i + 1 .. Len(rows) : ~(rows[i].ts < rows[j].ts)}
<1>1. SUFFICES ASSUME T # {} PROVE FALSE
  OBVIOUS
<1>2. T \subseteq Nat /\ Len(rows) \in Nat
  OBVIOUS
<1>3. PICK j \in T : \A g \in T : j <= g
  BY <1>1, <1>2, LeastNumber
<1>4. j \in i + 1 .. Len(rows) /\ ~(rows[i].ts < rows[j].ts)
  BY <1>3
<1>5. j - 1 \in 1 .. Len(rows) - 1 /\ j - 1 \notin T /\ (j - 1) + 1 = j /\ j - 1 \in 1 .. Len(rows)
  BY <1>2, <1>3, <1>4
<1>6. rows[j - 1].ts < rows[j].ts
  BY <1>5 DEF Ordered
<1>7. rows[i].ts \in Nat /\ rows[j].ts \in Nat /\ rows[j - 1].ts \in Nat
  BY <1>4, <1>5, RowFacts
<1>8. rows[i].ts <= rows[j - 1].ts
  BY <1>2, <1>4, <1>5, <1>7
<1> QED
  BY <1>4, <1>6, <1>7, <1>8

(* The overlap of a rising batch is its bars up to the last held timestamp. *)
LEMMA OverlapIs ==
    ASSUME NEW rows \in Seq(Record), Ordered(rows), NEW last \in Nat
    PROVE  /\ OverlapLen(last, rows) \in 0 .. Len(rows)
           /\ \A i \in 1 .. Len(rows) : i <= OverlapLen(last, rows) <=> rows[i].ts <= last
<1> DEFINE late == {i \in 1 .. Len(rows) : ~(rows[i].ts <= last)} \cup {Len(rows) + 1}
           early == {i \in 1 .. Len(rows) : rows[i].ts <= last}
<1>1. late \subseteq Nat /\ late # {} /\ Len(rows) \in Nat
  OBVIOUS
<1>2. PICK c \in late : \A g \in late : c <= g
  BY <1>1, LeastNumber
<1>3. c \in 1 .. Len(rows) + 1
  BY <1>1, <1>2
<1>4. \A i \in 1 .. Len(rows) : i < c => rows[i].ts <= last
  BY <1>2, <1>3
<1>5. ASSUME NEW i \in 1 .. Len(rows), i >= c PROVE ~(rows[i].ts <= last)
  <2>1. c \in 1 .. Len(rows) /\ ~(rows[c].ts <= last)
    BY <1>1, <1>2, <1>3, <1>5
  <2>2. i = c \/ rows[c].ts < rows[i].ts
    BY <1>1, <1>5, <2>1, OrderedRises
  <2>3. rows[i].ts \in Nat /\ rows[c].ts \in Nat
    BY <2>1, RowFacts
  <2> QED
    BY <2>1, <2>2, <2>3
<1>6. early = 1 .. c - 1
  BY <1>1, <1>3, <1>4, <1>5
<1>7. OverlapLen(last, rows) = c - 1
  <2>1. Cardinality(1 .. c - 1) = c - 1
    BY <1>3, FS_Interval
  <2> QED
    BY <1>6, <2>1 DEF OverlapLen
<1> QED
  BY <1>1, <1>3, <1>4, <1>5, <1>7

(* A part of a sequence.                                                   *)
LEMMA PartFacts ==
    ASSUME NEW s \in Seq(Record), NEW a \in Nat, NEW l \in Nat, a + l <= Len(s)
    PROVE  /\ SubSeq(s, a + 1, a + l) \in Seq(Record)
           /\ Len(SubSeq(s, a + 1, a + l)) = l
           /\ \A i \in 1 .. l : SubSeq(s, a + 1, a + l)[i] = s[a + i]
<1>1. \A i \in a + 1 .. a + l : s[i] \in Record
  OBVIOUS
<1>2. /\ SubSeq(s, a + 1, a + l) \in Seq(Record)
      /\ Len(SubSeq(s, a + 1, a + l)) = IF a + 1 <= a + l THEN (a + l) - (a + 1) + 1 ELSE 0
      /\ \A i \in 1 .. (a + l) - (a + 1) + 1 : SubSeq(s, a + 1, a + l)[i] = s[(a + 1) + i - 1]
  BY <1>1, SubSeqProperties
<1>3. \A i \in 1 .. l : i \in 1 .. (a + l) - (a + 1) + 1 /\ (a + 1) + i - 1 = a + i
  OBVIOUS
<1> QED
  BY <1>2, <1>3

LEMMA PartsAgree ==
    ASSUME NEW s \in Seq(Record), NEW t \in Seq(Record), NEW a \in Nat, NEW c \in Nat, NEW l \in Nat,
           a + l <= Len(s), c + l <= Len(t)
    PROVE  SubSeq(s, a + 1, a + l) = SubSeq(t, c + 1, c + l) <=>
               \A i \in 1 .. l : s[a + i] = t[c + i]
<1> DEFINE u == SubSeq(s, a + 1, a + l)
           w == SubSeq(t, c + 1, c + l)
<1>1. /\ u \in Seq(Record) /\ Len(u) = l /\ \A i \in 1 .. l : u[i] = s[a + i]
      /\ w \in Seq(Record) /\ Len(w) = l /\ \A i \in 1 .. l : w[i] = t[c + i]
  BY PartFacts
<1> HIDE DEF u, w
<1>2. u = w <=> \A i \in 1 .. l : u[i] = w[i]
  BY <1>1, SeqEqual
<1> QED
  BY <1>1, <1>2 DEF u, w

-----------------------------------------------------------------------------
(* The decision.                                                           *)

Offer == month \in Months /\ batch \in Batches
Last == IF month = << >> THEN 0 ELSE month[Len(month)].ts
Found == Bisect(FileOf(month), Len(month), batch[1].ts, {})
Overlapping == SubSeq(batch, 1, OverlapLen(Last, batch))
Suffix == SubSeq(batch, Len(Overlapping) + 1, Len(batch))

LEMMA TableIsSeq ==
    ASSUME NEW k \in Nat, NEW S, NEW rows \in [1 .. k -> S]
    PROVE  rows \in Seq(S) /\ Len(rows) = k
<1>1. rows \in Seq(S)
  OBVIOUS
<1>2. DOMAIN rows = 1 .. k /\ DOMAIN rows = 1 .. Len(rows) /\ Len(rows) \in Nat
  BY <1>1, LenProperties
<1> QED
  BY <1>1, <1>2

LEMMA OfferFacts ==
    ASSUME Offer
    PROVE  /\ month \in Seq(Record) /\ Len(month) \in 0 .. MaxRecs /\ Ordered(month)
           /\ batch \in Seq(Record) /\ Len(batch) \in Nat
           /\ Last \in Nat
<1>1. PICK k \in 0 .. MaxRecs : month \in [1 .. k -> Rows] /\ Ordered(month)
  BY DEF Offer, Months
<1>0. Rows = Record
  BY DEF Rows, Record
<1>2. k \in Nat /\ month \in Seq(Record) /\ Len(month) = k
  BY <1>0, <1>1, MaxRecsAssumption, TableIsSeq
<1>3. PICK l \in 0 .. MaxBatch : batch \in [1 .. l -> Rows]
  BY DEF Offer, Batches
<1>4. l \in Nat /\ batch \in Seq(Record) /\ Len(batch) = l
  BY <1>0, <1>3, MaxBatchAssumption, TableIsSeq
<1>5. Last \in Nat
  <2>1. CASE month = << >>
    BY <2>1 DEF Last
  <2>2. CASE month # << >>
    <3>1. Len(month) \in 1 .. Len(month)
      BY <1>2, <2>2
    <3> QED
      BY <1>2, <2>2, <3>1, RowFacts DEF Last
  <2> QED
    BY <2>1, <2>2
<1> QED
  BY <1>1, <1>2, <1>4, <1>5

(* The file of a month holds its rows, in time order.                      *)
LEMMA FileFacts ==
    ASSUME Offer
    PROVE  /\ \A i \in 1 .. Len(month) : FileOf(month)[i] = month[i]
           /\ RisesTo(FileOf(month), Len(month))
<1>1. /\ month \in Seq(Record) /\ Len(month) \in 0 .. MaxRecs /\ Ordered(month)
      /\ Len(month) \in Nat
  BY OfferFacts, MaxRecsAssumption
<1>2. \A i \in 1 .. Len(month) : FileOf(month)[i] = month[i]
  BY <1>1, MaxRecsAssumption DEF FileOf, Pos
<1>3. \A i \in 1 .. Len(month) : month[i].ts \in Nat
  BY <1>1, RowFacts
<1>4. ASSUME NEW i \in 1 .. Len(month), NEW j \in 1 .. Len(month), i < j
      PROVE  month[i].ts < month[j].ts
  BY <1>1, <1>4, OrderedRises
<1> QED
  BY <1>2, <1>3, <1>4 DEF RisesTo

(* A month of bars ends at its latest.                                     *)
LEMMA LastIsLatest ==
    ASSUME Offer, NEW i \in 1 .. Len(month)
    PROVE  month[i].ts <= Last /\ (month[i].ts = Last => i = Len(month))
<1>1. month \in Seq(Record) /\ Len(month) \in Nat /\ Ordered(month) /\ month # << >>
  BY OfferFacts
<1>2. Len(month) \in 1 .. Len(month) /\ Last = month[Len(month)].ts
  BY <1>1 DEF Last
<1>3. i = Len(month) \/ month[i].ts < month[Len(month)].ts
  BY <1>1, <1>2, OrderedRises
<1>4. month[i].ts \in Nat /\ Last \in Nat
  BY <1>1, RowFacts, OfferFacts
<1> QED
  BY <1>2, <1>3, <1>4

(* survey lets through what is not empty and is in time order.             *)
LEMMA SurveyIs == ASSUME Offer PROVE Survey(batch) <=> batch # << >> /\ Ordered(batch)
<1>1. \A i \in 1 .. Len(batch) : batch[i] \in Record
  BY OfferFacts
<1> QED
  BY <1>1 DEF Survey, Ordered

LEMMA DecisionIs ==
    Decision = IF ~Survey(batch) THEN Refused
               ELSE IF Follows(Len(month), Last, batch) THEN [kind |-> "follows", rows |-> batch]
               ELSE IF AlreadyStored(FileOf(month), Len(month), batch, Found.at)
                    THEN [kind |-> "present", rows |-> << >>]
               ELSE IF Suffix # << >> /\ TailMatches(FileOf(month), Len(month), Overlapping)
                    THEN [kind |-> "follows", rows |-> Suffix]
               ELSE Refused
  BY DEF Decision, Plan, Last, Found, Suffix, Overlapping

LEMMA RunIs ==
    ASSUME Offer, batch # << >>
    PROVE  IsRunOf(batch, month) <=>
               \E at \in 0 .. Len(month) - Len(batch) :
                   \A i \in 1 .. Len(batch) : month[at + i] = batch[i]
<1>1. /\ month \in Seq(Record) /\ Len(month) \in Nat
      /\ batch \in Seq(Record) /\ Len(batch) \in Nat
  BY OfferFacts
<1>2. ASSUME NEW at \in 0 .. Len(month) - Len(batch)
      PROVE  SubSeq(month, at + 1, at + Len(batch)) = batch <=>
                 \A i \in 1 .. Len(batch) : month[at + i] = batch[i]
  <2> DEFINE u == SubSeq(month, at + 1, at + Len(batch))
  <2>1. /\ u \in Seq(Record) /\ Len(u) = Len(batch)
        /\ \A i \in 1 .. Len(batch) : u[i] = month[at + i]
    BY <1>1, PartFacts
  <2> HIDE DEF u
  <2>2. u = batch <=> \A i \in 1 .. Len(batch) : u[i] = batch[i]
    BY <1>1, <2>1, SeqEqual
  <2> QED
    BY <2>1, <2>2 DEF u
<1> QED
  BY <1>2 DEF IsRunOf

LEMMA ExtensionIs ==
    ASSUME Offer, NEW k \in 0 .. Len(batch) - 1
    PROVE  Extension(batch, month, k) <=>
               /\ k <= Len(month)
               /\ \A i \in 1 .. k : month[(Len(month) - k) + i] = batch[i]
               /\ month # << >> => batch[k + 1].ts > Last
<1>1. /\ month \in Seq(Record) /\ Len(month) \in Nat
      /\ batch \in Seq(Record) /\ Len(batch) \in Nat /\ k \in Nat /\ k < Len(batch)
  BY OfferFacts
<1>2. ASSUME k <= Len(month)
      PROVE  SubSeq(month, Len(month) - k + 1, Len(month)) = SubSeq(batch, 1, k) <=>
                 \A i \in 1 .. k : month[(Len(month) - k) + i] = batch[i]
  <2> DEFINE a == Len(month) - k
  <2>1. a \in Nat /\ a + k = Len(month) /\ 0 + k = k /\ 0 + 1 = 1
    BY <1>1, <1>2
  <2>2. \A i \in 1 .. k : 0 + i = i
    OBVIOUS
  <2> HIDE DEF a
  <2>3. SubSeq(month, a + 1, a + k) = SubSeq(batch, 0 + 1, 0 + k) <=>
            \A i \in 1 .. k : month[a + i] = batch[0 + i]
    BY <1>1, <2>1, PartsAgree
  <2>4. SubSeq(month, a + 1, Len(month)) = SubSeq(batch, 1, k) <=>
            \A i \in 1 .. k : month[a + i] = batch[i]
    BY <2>1, <2>2, <2>3
  <2> QED
    BY <2>4 DEF a
<1> QED
  BY <1>1, <1>2 DEF Extension, Last

(* A batch of the month is where the bisection looks for it.               *)
LEMMA StoredIsRun ==
    ASSUME Offer, batch # << >>
    PROVE  AlreadyStored(FileOf(month), Len(month), batch, Found.at) <=> IsRunOf(batch, month)
<1> DEFINE n == Len(month)
           l == Len(batch)
           at == Found.at
<1>1. /\ month \in Seq(Record) /\ n \in Nat /\ Ordered(month)
      /\ batch \in Seq(Record) /\ l \in Nat \ {0}
  BY OfferFacts
<1>2. batch[1] \in Record /\ batch[1].ts \in Nat
  BY <1>1, RowFacts
<1>3. IsPlace(FileOf(month), batch[1].ts, 0, n, at)
  BY <1>1, <1>2, FileFacts, BisectFinds DEF Found
<1> HIDE DEF n, l, at
<1>4. /\ at \in 0 .. n
      /\ \A i \in 1 .. at : month[i].ts < batch[1].ts
      /\ \A i \in at + 1 .. n : month[i].ts >= batch[1].ts
  <2>1. \A i \in 1 .. n : FileOf(month)[i] = month[i]
    BY FileFacts DEF n
  <2>2. at \in 0 .. n
    BY <1>3 DEF IsPlace
  <2>3. ASSUME NEW i \in 1 .. at PROVE month[i].ts < batch[1].ts
    BY <1>1, <1>3, <2>1, <2>2, <2>3 DEF IsPlace
  <2>4. ASSUME NEW i \in at + 1 .. n PROVE month[i].ts >= batch[1].ts
    BY <1>1, <1>3, <2>1, <2>2, <2>4 DEF IsPlace
  <2> QED
    BY <2>2, <2>3, <2>4
<1>5. AlreadyStored(FileOf(month), n, batch, at) <=>
          at + l <= n /\ \A i \in 1 .. l : month[at + i] = batch[i]
  <2>1. ASSUME at + l <= n
        PROVE  \A i \in 1 .. l : FileOf(month)[at + i] = month[at + i]
    <3> SUFFICES ASSUME NEW i \in 1 .. l PROVE FileOf(month)[at + i] = month[at + i]
      OBVIOUS
    <3>1. at + i \in 1 .. n
      BY <1>1, <1>4, <2>1
    <3> QED
      BY <3>1, FileFacts DEF n
  <2> QED
    BY <2>1 DEF AlreadyStored, Equal, l
<1>6. ASSUME NEW where \in 0 .. n - l, \A i \in 1 .. l : month[where + i] = batch[i]
      PROVE  where = at
  <2>1. where + 1 \in 1 .. n /\ month[where + 1] = batch[1]
    BY <1>1, <1>6
  <2>2. where >= at
    BY <1>1, <1>2, <1>4, <1>6, <2>1
  <2>3. ASSUME where > at PROVE FALSE
    <3>1. /\ at + 1 \in 1 .. n /\ at + 1 \in at + 1 .. n
          /\ where + 1 \in (at + 1) + 1 .. n
      BY <1>1, <1>4, <2>1, <2>3
    <3>2. month[at + 1].ts < month[where + 1].ts
      BY <1>1, <3>1, OrderedRises DEF n
    <3>3. month[at + 1].ts >= batch[1].ts /\ month[at + 1].ts \in Nat
      BY <1>1, <1>4, <3>1, RowFacts DEF n
    <3> QED
      BY <1>2, <2>1, <3>2, <3>3
  <2> QED
    BY <1>1, <1>4, <2>2, <2>3
<1>7. IsRunOf(batch, month) <=>
          \E where \in 0 .. n - l : \A i \in 1 .. l : month[where + i] = batch[i]
  BY RunIs DEF n, l
<1>8. at + l <= n <=> at \in 0 .. n - l
  BY <1>1, <1>4
<1> QED
  BY <1>5, <1>6, <1>7, <1>8 DEF n, at

(* A batch follows the month as it is when no bar of it repeats one.       *)
LEMMA FollowsIs ==
    ASSUME Offer, batch # << >>
    PROVE  /\ 0 \in 0 .. Len(batch) - 1
           /\ Follows(Len(month), Last, batch) <=> Extension(batch, month, 0)
<1>1. /\ month \in Seq(Record) /\ Len(month) \in Nat
      /\ batch \in Seq(Record) /\ Len(batch) \in Nat \ {0}
  BY OfferFacts
<1>2. month # << >> <=> Len(month) # 0
  BY <1>1
<1>3. 0 \in 0 .. Len(batch) - 1 /\ 0 <= Len(month) /\ 0 + 1 = 1
  BY <1>1
<1>4. Extension(batch, month, 0) <=> (month # << >> => batch[1].ts > Last)
  BY <1>3, ExtensionIs
<1> QED
  BY <1>2, <1>3, <1>4 DEF Follows

(* What suffix_that_follows cuts off a batch.                              *)
LEMMA CutFacts ==
    ASSUME Offer, Ordered(batch)
    PROVE  LET k == OverlapLen(Last, batch)
           IN  /\ k \in 0 .. Len(batch)
               /\ Overlapping \in Seq(Record) /\ Len(Overlapping) = k
               /\ \A i \in 1 .. k : Overlapping[i] = batch[i]
               /\ Suffix = SubSeq(batch, k + 1, Len(batch))
               /\ Suffix # << >> <=> k < Len(batch)
<1> DEFINE k == OverlapLen(Last, batch)
<1>1. /\ batch \in Seq(Record) /\ Len(batch) \in Nat /\ k \in 0 .. Len(batch)
  BY OfferFacts, OverlapIs
<1> HIDE DEF k
<1>2. /\ SubSeq(batch, 0 + 1, 0 + k) \in Seq(Record)
      /\ Len(SubSeq(batch, 0 + 1, 0 + k)) = k
      /\ \A i \in 1 .. k : SubSeq(batch, 0 + 1, 0 + k)[i] = batch[0 + i]
  BY <1>1, PartFacts
<1>3. 0 + 1 = 1 /\ 0 + k = k /\ \A i \in 1 .. k : 0 + i = i
  BY <1>1
<1>4. /\ Overlapping \in Seq(Record) /\ Len(Overlapping) = k
      /\ \A i \in 1 .. k : Overlapping[i] = batch[i]
  BY <1>2, <1>3 DEF Overlapping, k
<1>5. Suffix = SubSeq(batch, k + 1, Len(batch))
  BY <1>4 DEF Suffix
<1>6. Suffix # << >> <=> k < Len(batch)
  <2>1. /\ SubSeq(batch, k + 1, k + (Len(batch) - k)) \in Seq(Record)
        /\ Len(SubSeq(batch, k + 1, k + (Len(batch) - k))) = Len(batch) - k
    BY <1>1, PartFacts
  <2>2. k + (Len(batch) - k) = Len(batch)
    BY <1>1
  <2>3. Suffix \in Seq(Record) /\ Len(Suffix) = Len(batch) - k
    BY <1>5, <2>1, <2>2
  <2>4. Suffix # << >> <=> Len(Suffix) # 0
    BY <2>3
  <2> QED
    BY <1>1, <2>3, <2>4
<1> QED
  BY <1>1, <1>4, <1>5, <1>6 DEF k

(* suffix_that_follows takes the rest of a batch exactly when the batch    *)
(* extends the month, and no other cut of the batch does.                  *)
LEMMA TailIs ==
    ASSUME Offer, batch # << >>, Ordered(batch), ~Follows(Len(month), Last, batch)
    PROVE  LET k == OverlapLen(Last, batch)
           IN  /\ Suffix # << >> /\ TailMatches(FileOf(month), Len(month), Overlapping) <=>
                      k \in 0 .. Len(batch) - 1 /\ Extension(batch, month, k)
               /\ \A j \in 0 .. Len(batch) - 1 : Extension(batch, month, j) => j = k
<1> DEFINE k == OverlapLen(Last, batch)
           n == Len(month)
           l == Len(batch)
<1>1. /\ month \in Seq(Record) /\ n \in Nat /\ batch \in Seq(Record) /\ l \in Nat
      /\ Last \in Nat /\ month # << >>
  BY OfferFacts DEF Follows
<1>2. k \in 0 .. l /\ \A i \in 1 .. l : i <= k <=> batch[i].ts <= Last
  BY <1>1, OverlapIs
<1>3. /\ Overlapping \in Seq(Record) /\ Len(Overlapping) = k
      /\ \A i \in 1 .. k : Overlapping[i] = batch[i]
      /\ Suffix # << >> <=> k < l
  BY CutFacts
<1> HIDE DEF k, n, l
<1>4. k < l <=> k \in 0 .. l - 1
  BY <1>1, <1>2
<1>5. TailMatches(FileOf(month), n, Overlapping) <=>
          k <= n /\ \A i \in 1 .. k : month[(n - k) + i] = batch[i]
  <2>1. ASSUME k <= n
        PROVE  \A i \in 1 .. k : FileOf(month)[(n - k) + i] = month[(n - k) + i]
    <3> SUFFICES ASSUME NEW i \in 1 .. k
                 PROVE  FileOf(month)[(n - k) + i] = month[(n - k) + i]
      OBVIOUS
    <3>1. (n - k) + i \in 1 .. n
      BY <1>1, <1>2, <2>1
    <3> QED
      BY <3>1, FileFacts DEF n
  <2> QED
    BY <1>3, <2>1 DEF TailMatches, Equal
<1>6. ASSUME NEW j \in 0 .. l - 1
      PROVE  Extension(batch, month, j) <=>
                 /\ j <= n
                 /\ \A i \in 1 .. j : month[(n - j) + i] = batch[i]
                 /\ batch[j + 1].ts > Last
  BY <1>1, ExtensionIs DEF n, l
<1>7. ASSUME k \in 0 .. l - 1 PROVE batch[k + 1].ts > Last
  <2>1. k + 1 \in 1 .. l /\ ~(k + 1 <= k)
    BY <1>1, <1>7
  <2>2. batch[k + 1].ts \in Nat
    BY <1>1, <2>1, RowFacts DEF l
  <2> QED
    BY <1>1, <1>2, <2>1, <2>2
<1>8. ASSUME NEW j \in 0 .. l - 1, Extension(batch, month, j) PROVE j = k
  <2>1. /\ j <= n /\ batch[j + 1].ts > Last
        /\ \A i \in 1 .. j : month[(n - j) + i] = batch[i]
    BY <1>6, <1>8
  <2>2. j + 1 \in 1 .. l /\ batch[j + 1].ts \in Nat
    BY <1>1, <1>8, RowFacts DEF l
  <2>3. ~(j + 1 <= k)
    BY <1>1, <1>2, <2>1, <2>2
  <2>4. j <= k
    <3>1. CASE j = 0
      BY <1>2, <3>1
    <3>2. CASE j # 0
      <4>1. j \in 1 .. j /\ j \in 1 .. l /\ (n - j) + j = n
        BY <1>1, <1>8, <3>2
      <4>2. month[n] = batch[j] /\ month[n].ts = Last
        BY <1>1, <2>1, <4>1 DEF Last, n
      <4> QED
        BY <1>1, <1>2, <4>1, <4>2
    <3> QED
      BY <3>1, <3>2
  <2> QED
    BY <1>2, <1>8, <2>3, <2>4
<1>9. Suffix # << >> /\ TailMatches(FileOf(month), n, Overlapping) <=>
          k \in 0 .. l - 1 /\ Extension(batch, month, k)
  BY <1>3, <1>4, <1>5, <1>6, <1>7
<1> QED
  BY <1>8, <1>9 DEF k, n, l

(* A run of the month does not extend it.                                  *)
LEMMA RunsEnd ==
    ASSUME Offer, batch # << >>, IsRunOf(batch, month), NEW j \in 0 .. Len(batch) - 1
    PROVE  ~Extension(batch, month, j)
<1>1. PICK at \in 0 .. Len(month) - Len(batch) :
          \A i \in 1 .. Len(batch) : month[at + i] = batch[i]
  BY RunIs
<1>2. Len(batch) \in Nat \ {0} /\ Len(month) \in Nat /\ j + 1 \in 1 .. Len(batch)
  BY OfferFacts
<1>3. at + (j + 1) \in 1 .. Len(month) /\ month[at + (j + 1)] = batch[j + 1]
  BY <1>1, <1>2
<1>4. batch[j + 1].ts <= Last /\ batch[j + 1].ts \in Nat /\ Last \in Nat
  BY <1>2, <1>3, LastIsLatest, OfferFacts, RowFacts
<1>5. month # << >>
  BY <1>3, OfferFacts
<1> QED
  BY <1>4, <1>5, ExtensionIs

LEMMA Right ==
    ASSUME Offer PROVE DecisionIsRight
<1> DEFINE ordered == batch # << >> /\ Ordered(batch)
           extends == \E k \in 0 .. Len(batch) - 1 : Extension(batch, month, k)
           k == OverlapLen(Last, batch)
<1>1. Survey(batch) <=> ordered
  BY SurveyIs
<1>2. ASSUME ordered, IsRunOf(batch, month) PROVE Decision.kind = "present"
  <2>1. PICK at \in 0 .. Len(month) - Len(batch) :
            \A i \in 1 .. Len(batch) : month[at + i] = batch[i]
    BY <1>2, RunIs
  <2>2. Len(batch) \in Nat \ {0} /\ Len(month) \in Nat
    BY <1>2, OfferFacts
  <2>3. at + 1 \in 1 .. Len(month) /\ month[at + 1] = batch[1]
    BY <2>1, <2>2
  <2>4. batch[1].ts <= Last /\ batch[1].ts \in Nat /\ Last \in Nat
    BY <2>3, LastIsLatest, OfferFacts, RowFacts
  <2>5. ~Follows(Len(month), Last, batch)
    BY <2>2, <2>3, <2>4 DEF Follows
  <2>6. AlreadyStored(FileOf(month), Len(month), batch, Found.at)
    BY <1>2, StoredIsRun
  <2> QED
    BY <1>1, <1>2, <2>5, <2>6, DecisionIs
<1>3. ASSUME ordered, Follows(Len(month), Last, batch)
      PROVE  /\ extends /\ ~IsRunOf(batch, month)
             /\ \E j \in 0 .. Len(batch) - 1 :
                    /\ Extension(batch, month, j)
                    /\ Decision = [kind |-> "follows", rows |-> SubSeq(batch, j + 1, Len(batch))]
  <2>1. 0 \in 0 .. Len(batch) - 1 /\ Extension(batch, month, 0)
    BY <1>3, FollowsIs
  <2>2. SubSeq(batch, 0 + 1, Len(batch)) = batch
    <3>1. SubSeq(batch, 1, Len(batch)) = batch
      BY OfferFacts, SubSeqFull
    <3> QED
      BY <3>1
  <2>3. Decision = [kind |-> "follows", rows |-> batch]
    BY <1>1, <1>3, DecisionIs
  <2>4. ~IsRunOf(batch, month)
    BY <1>1, <1>2, <1>3, <2>3
  <2> QED
    BY <2>1, <2>2, <2>3, <2>4
<1>4. ASSUME ordered, ~Follows(Len(month), Last, batch), ~IsRunOf(batch, month)
      PROVE  IF extends
             THEN \E j \in 0 .. Len(batch) - 1 :
                      /\ Extension(batch, month, j)
                      /\ Decision = [kind |-> "follows", rows |-> SubSeq(batch, j + 1, Len(batch))]
             ELSE Decision = Refused
  <2>1. ~AlreadyStored(FileOf(month), Len(month), batch, Found.at)
    BY <1>4, StoredIsRun
  <2>2. /\ Suffix # << >> /\ TailMatches(FileOf(month), Len(month), Overlapping) <=>
               k \in 0 .. Len(batch) - 1 /\ Extension(batch, month, k)
        /\ \A j \in 0 .. Len(batch) - 1 : Extension(batch, month, j) => j = k
    BY <1>4, TailIs
  <2>3. Suffix = SubSeq(batch, k + 1, Len(batch))
    BY <1>4, CutFacts
  <2>4. extends <=> Suffix # << >> /\ TailMatches(FileOf(month), Len(month), Overlapping)
    BY <2>2
  <2>5. Decision = IF extends THEN [kind |-> "follows", rows |-> Suffix] ELSE Refused
    BY <1>1, <1>4, <2>1, <2>4, DecisionIs
  <2> QED
    BY <2>2, <2>3, <2>4, <2>5
<1>5. ~ordered => Decision = Refused
  BY <1>1, DecisionIs
<1>6. CASE ordered /\ IsRunOf(batch, month)
  <2>1. ~extends
    BY <1>6, RunsEnd
  <2> QED
    BY <1>2, <1>6, <2>1 DEF DecisionIsRight
<1>7. CASE ordered /\ ~IsRunOf(batch, month)
  <2> DEFINE extended == \E j \in 0 .. Len(batch) - 1 :
                 /\ Extension(batch, month, j)
                 /\ Decision = [kind |-> "follows", rows |-> SubSeq(batch, j + 1, Len(batch))]
  <2>1. IF extends THEN extended ELSE Decision = Refused
    BY <1>3, <1>4, <1>7
  <2>2. DecisionIsRight <=>
            CASE ordered /\ IsRunOf(batch, month) -> Decision.kind = "present"
              [] ordered /\ extends -> extended
              [] OTHER -> Decision = Refused
    BY DEF DecisionIsRight
  <2> HIDE DEF ordered, extends, extended
  <2> QED
    BY <1>7, <2>1, <2>2
<1>8. CASE ~ordered
  BY <1>5, <1>8 DEF DecisionIsRight
<1> QED
  BY <1>6, <1>7, <1>8

(* For every month in time order and every batch, `append` takes exactly   *)
(* the bars that extend the month, answers AlreadyPresent exactly for a    *)
(* run of its bars, and refuses the rest.                                  *)
THEOREM AppendDecidesRight == Spec => []DecisionIsRight
<1>1. Init => Offer
  BY DEF Init, Offer
<1>2. Offer /\ [Next]_<< month, batch, answered >> => Offer'
  BY DEF Offer, Next, Months, Batches, Ordered
<1>3. Offer => DecisionIsRight
  BY Right
<1> QED
  BY <1>1, <1>2, <1>3, PTL DEF Spec
===============================================================================
