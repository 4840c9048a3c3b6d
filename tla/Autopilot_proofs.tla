--------------------------- MODULE Autopilot_proofs ---------------------------
(***************************************************************************)
(* The safety of the automatic backfill, for any number of feeds, months   *)
(* and instruments, any limits and any number of events.                   *)
(*                                                                         *)
(* Four facts carry it.  The seats are exactly those of who pulls          *)
(* (Seating); a round that has looked for a press meets none that is older *)
(* (Boarding); a round asks a feed that still flies for a month the store  *)
(* does not hold (Choosing); and what a feed has been refused and what it  *)
(* may still be asked again add up (Pleading).                             *)
(***************************************************************************)
EXTENDS Autopilot, TLAPS, WellFoundedInduction, SequenceTheorems, FiniteSetTheorems

Places == {"top", "seats", "ask", "sweep"}
Halts == {"none", "Credential", "Store", "Census"}
Stalls == [month : Nat \ {0}, retried : Nat, age : {"new", "waiting", "due"}]
FeedState == [frontier : Nat \ {0}, attempts : Nat, dry : Nat, rereads : 0..Rereads,
              halt : Halts, probes : Nat, stalls : Seq(Stalls)]

Types ==
  /\ pc \in Places
  /\ rung \in Rungs
  /\ feeds \in [Feeds -> FeedState]
  /\ seats \subseteq Feeds
  /\ held \in [Feeds -> [Rungs -> [Months -> 0..2]]]
  /\ census \in [Feeds -> {"held", "unreadable", "absent"}]
  /\ today \in Months
  /\ pressing \in BOOLEAN
  /\ leg \in [Feeds -> {"none", "wants", "pulls"}]
  /\ single \in [Feeds -> BOOLEAN]
  /\ blind \in Nat
  /\ pleas \in [Feeds -> Nat]

Seating ==
  /\ InRound => seats = Feeds /\ \A f \in Feeds : leg[f] # "pulls" /\ ~single[f]
  /\ ~InRound => \A f \in Feeds : /\ f \in seats <=> leg[f] = "pulls" \/ single[f]
                                  /\ ~(leg[f] = "pulls" /\ single[f])
  /\ \A f \in Feeds : leg[f] # "none" => pressing

Boarding == OneRoundPerPress /\ (pc = "seats" /\ pressing => blind = 0)

Choosing == InRound =>
  /\ unit.feed \in Feeds /\ unit.month \in Months
  /\ feeds[unit.feed].halt = "none"
  /\ held[unit.feed][rung][unit.month] # Held

Pleading == \A f \in Feeds :
  IF feeds[f].halt = "none" THEN pleas[f] + feeds[f].rereads <= Rereads
  ELSE pleas[f] <= Rereads + 1

AutopilotInv == Types /\ Seating /\ Boarding /\ Choosing /\ Pleading

-----------------------------------------------------------------------------
(* Least and greatest numbers, and the calendar. *)

LEMMA Constants ==
  /\ Feeds \subseteq Nat /\ Months \subseteq Nat \ {0} /\ 1 \in Months /\ 1 \in Feeds
  /\ Rereads \in Nat /\ LastMonth \in Nat
  BY AutopilotAssumption DEF Feeds, Months

\* A non-empty set of numbers has a least one, and Min names it.
LEMMA MinFacts ==
  ASSUME NEW T, T \subseteq Nat, T # {}
  PROVE  Min(T) \in T /\ \A y \in T : Min(T) <= y
<1>0. IsWellFoundedOn(OpToRel(<, Nat), Nat)
  BY NatLessThanWellFounded
<1>1. PICK x \in T : \A y \in T : << y, x >> \notin OpToRel(<, Nat)
  BY <1>0, WFMin
<1>2. ASSUME NEW y \in T PROVE x <= y
  <2>1. ~(y < x)
    BY <1>1 DEF OpToRel
  <2> QED
    BY <2>1
<1> QED
  BY <1>2 DEF Min

LEMMA MaxFacts ==
  ASSUME NEW a \in Nat, NEW b \in Nat
  PROVE  Max({a, b}) \in {a, b} /\ Max({a, b}) >= a /\ Max({a, b}) >= b
<1>1. \E x \in {a, b} : \A y \in {a, b} : x >= y
  BY a >= b \/ b >= a
<1> QED
  BY <1>1 DEF Max

\* The scan of the calendar only goes forward, and past every month it is
\* not owed.
LEMMA Scanning ==
  ASSUME today \in Months, NEW f \in Feeds, NEW r \in Rungs, NEW hint \in Nat \ {0}
  PROVE  /\ Scanned(f, r, hint) \in Nat \ {0}
         /\ Scanned(f, r, hint) >= hint
         /\ ~Owes(f, r, Scanned(f, r, hint)) =>
              \A m \in hint..today : ~Owes(f, r, m)
<1> DEFINE owing == {m \in hint..today : Owes(f, r, m)}
           beyond == Max({hint, today + 1})
<1>1. today \in Nat
  BY Constants
<1>2. beyond \in Nat \ {0} /\ beyond >= hint /\ beyond > today
  <2>1. today + 1 \in Nat
    BY <1>1
  <2> QED
    BY <1>1, <2>1, MaxFacts
<1> HIDE DEF beyond
<1> DEFINE T == owing \cup {beyond}
<1>3. T \subseteq Nat \ {0} /\ T # {} /\ \A m \in T : m >= hint
  BY <1>1, <1>2
<1>4. Min(T) \in T /\ \A m \in T : Min(T) <= m
  BY <1>3, MinFacts
<1>5. Scanned(f, r, hint) = Min(T)
  BY DEF Scanned, beyond
<1>6. ASSUME Min(T) \notin owing, NEW m \in owing PROVE FALSE
  <2>1. Min(T) = beyond /\ beyond <= m /\ m <= today /\ m \in Nat
    BY <1>1, <1>4, <1>6
  <2> QED
    BY <1>1, <1>2, <2>1
<1> HIDE DEF T
<1>7. Owes(f, r, Min(T)) \/ Min(T) \notin owing
  OBVIOUS
<1> QED
  BY <1>3, <1>4, <1>5, <1>6, <1>7

-----------------------------------------------------------------------------
(* One feed's place. *)

LEMMA Clearing ==
  ASSUME NEW s \in FeedState
  PROVE  /\ ClearMonth(s) \in FeedState
         /\ ClearMonth(s).frontier = s.frontier /\ ClearMonth(s).halt = s.halt
         /\ ClearMonth(s).rereads = s.rereads /\ ClearMonth(s).stalls = s.stalls
  BY DEF ClearMonth, FeedState

LEMMA Halting ==
  ASSUME NEW s \in FeedState, NEW kind \in Halts
  PROVE  /\ Halt(s, kind) \in FeedState
         /\ Halt(s, kind).frontier = s.frontier /\ Halt(s, kind).halt = kind
         /\ Halt(s, kind).rereads = s.rereads /\ Halt(s, kind).stalls = s.stalls
  BY DEF Halt, FeedState

LEMMA Reviving ==
  ASSUME NEW s \in FeedState
  PROVE  /\ Revive(s) \in FeedState
         /\ Revive(s).frontier = s.frontier /\ Revive(s).halt = "none"
         /\ Revive(s).rereads = Rereads /\ Revive(s).stalls = s.stalls
<1>1. Rereads \in 0..Rereads
  BY Constants
<1> QED
  BY <1>1, Clearing DEF Revive, FeedState, Halts

\* A feed before and after a look at it: its frontier goes forward, and a
\* halt is left with every reread given back, or not at all.
Looked(s, t) ==
  /\ t \in FeedState
  /\ t.stalls = s.stalls
  /\ s.halt = "none" => t.halt \in {"none", "Census"} /\ t.rereads = s.rereads
  /\ s.halt = "Credential" => t = s
  /\ s.halt # "none" /\ t.halt = "none" => t.rereads = Rereads

LEMMA Probing ==
  ASSUME NEW s \in FeedState, NEW probe
  PROVE  /\ Looked(s, Probed(s, probe)) /\ Probed(s, probe).frontier = s.frontier
         /\ s.halt = "none" => Probed(s, probe) = s
<1> DEFINE bad == [s EXCEPT !.probes = @ + 1]
<1>1. /\ bad \in FeedState /\ bad.stalls = s.stalls /\ bad.frontier = s.frontier
      /\ bad.halt = s.halt
  BY DEF FeedState
<1>2. Probed(s, probe) = s \/ (s.halt = "Store" /\ Probed(s, probe) \in {Revive(s), bad})
  BY DEF Probed
<1> HIDE DEF bad
<1> QED
  BY <1>1, <1>2, Reviving DEF Looked

LEMMA Surveying ==
  ASSUME Types, NEW f \in Feeds, NEW s \in FeedState
  PROVE  LET t == Surveyed(f, s)
         IN  /\ Looked(s, t)
             /\ t.frontier >= s.frontier
             /\ (t.halt = "none" /\ ~Owes(f, rung, t.frontier)) =>
                  \A m \in s.frontier..today : ~Owes(f, rung, m)
<1> DEFINE live == IF Recovers(f, s) THEN Revive(s) ELSE s
           scan == Scanned(f, rung, live.frontier)
           on == [live EXCEPT !.frontier = scan]
           t == Surveyed(f, s)
<1>1. /\ live \in FeedState /\ live.stalls = s.stalls /\ live.frontier = s.frontier
      /\ s.halt = "none" => live = s
      /\ s.halt = "Credential" => live = s
      /\ s.halt # "none" /\ live.halt = "none" => live.rereads = Rereads
  BY Reviving DEF Recovers
<1>2. s.frontier \in Nat \ {0}
  BY DEF FeedState
<1> HIDE DEF live
<1>3. /\ scan \in Nat \ {0} /\ scan >= s.frontier
      /\ ~Owes(f, rung, scan) => \A m \in s.frontier..today : ~Owes(f, rung, m)
  BY <1>1, <1>2, Scanning DEF Types
<1> HIDE DEF scan
<1>4. /\ on \in FeedState /\ on.frontier = scan /\ on.stalls = live.stalls
      /\ on.halt = live.halt /\ on.rereads = live.rereads
  BY <1>1, <1>3 DEF FeedState
<1>5. t = IF live.halt # "none" THEN live
          ELSE IF census[f] = "unreadable" THEN Halt(live, "Census")
          ELSE on
  BY DEF Surveyed, live, scan
<1>6. /\ Halt(live, "Census") \in FeedState
      /\ Halt(live, "Census").frontier = live.frontier
      /\ Halt(live, "Census").halt = "Census"
      /\ Halt(live, "Census").rereads = live.rereads
      /\ Halt(live, "Census").stalls = live.stalls
  BY <1>1, Halting DEF Halts
<1> HIDE DEF on, t
<1>7. Looked(s, t)
  BY <1>1, <1>4, <1>5, <1>6 DEF Looked
<1>8. t.frontier >= s.frontier
  BY <1>1, <1>2, <1>3, <1>4, <1>5, <1>6
<1>9. (t.halt = "none" /\ ~Owes(f, rung, t.frontier)) =>
         \A m \in s.frontier..today : ~Owes(f, rung, m)
  BY <1>3, <1>4, <1>5, <1>6
<1> QED
  BY <1>7, <1>8, <1>9 DEF t

Refuses(out) == out.reason = "Credential" /\ ~out.reached

\* What a run leaves of a feed: a refusal of the credential costs a reread or
\* the feed, and only an answer gives the rereads back.
LEMMA Observing ==
  ASSUME NEW s \in FeedState, s.halt = "none", NEW out
  PROVE  LET t == Observe(s, out).state
         IN  /\ t \in FeedState
             /\ t.frontier = s.frontier
             /\ Refuses(out) => \/ t.halt = "none" /\ t.rereads = s.rereads - 1
                               \/ t.halt = "Credential"
             /\ ~Refuses(out) => /\ t.halt \in {"none", "Store"}
                                /\ \/ t.rereads = s.rereads
                                   \/ ~out.stopped /\ (out.complete \/ out.stored)
<1> DEFINE t == Observe(s, out).state
           better == [ClearMonth(s) EXCEPT !.rereads = Rereads]
           failed == [s EXCEPT !.attempts = @ + 1]
           barren == Barren(s)
           stall == [month |-> s.frontier, retried |-> 0, age |-> "new"]
           stalled == [ClearMonth(s) EXCEPT !.stalls = Append(@, stall)]
           fewer == [s EXCEPT !.rereads = @ - 1]
<1>1. /\ better \in FeedState /\ better.frontier = s.frontier /\ better.halt = "none"
      /\ failed \in FeedState /\ failed.frontier = s.frontier
      /\ failed.halt = "none" /\ failed.rereads = s.rereads
      /\ barren \in FeedState /\ barren.frontier = s.frontier
      /\ barren.halt = "none" /\ barren.rereads = s.rereads
  <2>1. Rereads \in 0..Rereads
    BY Constants
  <2>2. better \in FeedState /\ better.frontier = s.frontier /\ better.halt = "none"
    BY <2>1, Clearing DEF FeedState
  <2>3. /\ failed \in FeedState /\ failed.frontier = s.frontier
        /\ failed.halt = "none" /\ failed.rereads = s.rereads
    BY DEF FeedState
  <2>4. /\ barren \in FeedState /\ barren.frontier = s.frontier
        /\ barren.halt = "none" /\ barren.rereads = s.rereads
    BY DEF FeedState, Barren
  <2> HIDE DEF better, failed, barren
  <2> QED
    BY <2>2, <2>3, <2>4
<1>2. /\ stalled \in FeedState /\ stalled.frontier = s.frontier
      /\ stalled.halt = "none" /\ stalled.rereads = s.rereads
  <2>1. stall \in Stalls /\ s.stalls \in Seq(Stalls)
    BY DEF FeedState, Stalls
  <2>2. Append(s.stalls, stall) \in Seq(Stalls)
    BY <2>1, AppendProperties
  <2> HIDE DEF stall
  <2> QED
    BY <2>2, Clearing DEF FeedState
<1>3. s.rereads > 0 => /\ fewer \in FeedState /\ fewer.frontier = s.frontier
                       /\ fewer.halt = "none" /\ fewer.rereads = s.rereads - 1
  BY Constants DEF FeedState
<1>4. s.rereads \in Nat
  BY Constants DEF FeedState
<1>5. IF Refuses(out) THEN t = IF s.rereads > 0 THEN fewer ELSE Halt(s, "Credential")
      ELSE \/ t \in {s, failed, barren, stalled, ClearMonth(s), Halt(s, "Store")}
           \/ t = better /\ ~out.stopped /\ (out.complete \/ out.stored)
  BY DEF Observe, Refuses
<1> HIDE DEF t, better, failed, barren, stall, stalled, fewer
<1>6. CASE Refuses(out)
  BY <1>3, <1>4, <1>5, <1>6, Halting DEF Halts, t
<1>7. CASE ~Refuses(out)
  BY <1>1, <1>2, <1>5, <1>7, Halting, Clearing DEF Halts, t
<1> QED
  BY <1>6, <1>7

\* Two sequences of stalls that differ in what one of them is.
LEMMA StallFacts ==
  ASSUME NEW q \in Seq(Stalls)
  PROVE  /\ DOMAIN q \subseteq Nat
         /\ \A n \in DOMAIN q : q[n] \in Stalls
         /\ \A p : (DOMAIN p = DOMAIN q /\ p \in [DOMAIN q -> Stalls]) => p \in Seq(Stalls)
<1>1. Len(q) \in Nat /\ DOMAIN q = 1..Len(q) /\ q \in [1..Len(q) -> Stalls]
  BY LenProperties
<1>2. \A p : p \in [1..Len(q) -> Stalls] => p \in Seq(Stalls)
  BY <1>1
<1> QED
  BY <1>1, <1>2

LEMMA Stamping ==
  ASSUME NEW s \in FeedState
  PROVE  /\ Stamped(s) \in FeedState
         /\ Stamped(s).frontier = s.frontier /\ Stamped(s).halt = s.halt
         /\ Stamped(s).rereads = s.rereads
         /\ DOMAIN Stamped(s).stalls = DOMAIN s.stalls
         /\ \A n \in DOMAIN s.stalls : Stamped(s).stalls[n].month = s.stalls[n].month
         /\ [Stamped(s) EXCEPT !.stalls = <<>>] = [s EXCEPT !.stalls = <<>>]
<1> DEFINE q == s.stalls
           p == [n \in DOMAIN q |-> IF q[n].age = "new" THEN [q[n] EXCEPT !.age = "waiting"]
                                    ELSE q[n]]
<1>1. q \in Seq(Stalls)
  BY DEF FeedState
<1>2. ASSUME NEW n \in DOMAIN q
      PROVE  p[n] \in Stalls /\ p[n].month = q[n].month
  <2>1. q[n] \in Stalls
    BY <1>1, StallFacts
  <2> QED
    BY <2>1 DEF Stalls
<1>3. p \in Seq(Stalls)
  BY <1>1, <1>2, StallFacts
<1>4. Stamped(s) = [s EXCEPT !.stalls = p]
  BY DEF Stamped
<1>5. DOMAIN p = DOMAIN q
  OBVIOUS
<1> HIDE DEF p
<1> QED
  BY <1>2, <1>3, <1>4, <1>5 DEF FeedState

LEMMA Retrying ==
  ASSUME NEW x \in Stalls
  PROVE  [x EXCEPT !.retried = @ + 1, !.age = "waiting"] \in Stalls
<1>1. x.retried + 1 \in Nat
  BY DEF Stalls
<1> QED
  BY <1>1 DEF Stalls

LEMMA PuttingBack ==
  ASSUME NEW s \in FeedState, NEW n \in DOMAIN s.stalls
  PROVE  /\ PutBack(s, n) \in FeedState
         /\ PutBack(s, n).frontier = s.stalls[n].month
         /\ PutBack(s, n).halt = s.halt /\ PutBack(s, n).rereads = s.rereads
<1> DEFINE q == s.stalls
           x == [q[n] EXCEPT !.retried = @ + 1, !.age = "waiting"]
           p == Restalled(q, n, x)
           c == ClearMonth(s)
<1>1. q \in Seq(Stalls) /\ q[n] \in Stalls
  <2>1. q \in Seq(Stalls)
    BY DEF FeedState
  <2> QED
    BY <2>1, StallFacts
<1>2. x \in Stalls
  BY <1>1, Retrying
<1>3. PutBack(s, n) = [c EXCEPT !.frontier = q[n].month, !.stalls = p]
  BY DEF PutBack, Restalled
<1> HIDE DEF x
<1>4. p \in Seq(Stalls) /\ q[n].month \in Nat \ {0}
  <2>1. DOMAIN p = DOMAIN q /\ \A k \in DOMAIN q : p[k] = IF k = n THEN x ELSE q[k]
    BY DEF Restalled
  <2>2. \A k \in DOMAIN q : p[k] \in Stalls
    BY <1>1, <1>2, <2>1, StallFacts
  <2>3. p \in [DOMAIN q -> Stalls]
    BY <2>1, <2>2 DEF Restalled
  <2> QED
    BY <1>1, <2>3, StallFacts DEF Stalls
<1>5. c \in FeedState /\ c.halt = s.halt /\ c.rereads = s.rereads
  BY Clearing
<1> HIDE DEF p, c, q
<1> QED
  BY <1>3, <1>4, <1>5 DEF FeedState, q

\* The stall that is put back exists: the oldest month, of the first feed,
\* as it was stalled on first.
LEMMA Reconsidering ==
  ASSUME NEW table \in [Feeds -> FeedState], DueStalls(table) # {}
  PROVE  \E f \in Feeds, n \in Nat :
           /\ n \in DOMAIN table[f].stalls /\ table[f].halt = "none"
           /\ Reconsidered(table) = [table EXCEPT ![f] = PutBack(@, n)]
<1> DEFINE due == DueStalls(table)
           month(x) == table[x[1]].stalls[x[2]].month
           oldest == {x \in due : \A y \in due : month(x) <= month(y)}
           First(x) == \A y \in oldest : x[1] < y[1] \/ (x[1] = y[1] /\ x[2] <= y[2])
<1>1. ASSUME NEW x \in due
      PROVE  /\ x[1] \in Feeds /\ x[2] \in DOMAIN table[x[1]].stalls
             /\ x[1] \in Nat /\ x[2] \in Nat /\ x = <<x[1], x[2]>>
             /\ table[x[1]].halt = "none" /\ month(x) \in Nat
  <2>1. PICK f \in Feeds : x \in {<<f, n>> : n \in {n \in DOMAIN table[f].stalls :
                              /\ table[f].halt = "none"
                              /\ table[f].stalls[n].age = "due"
                              /\ table[f].stalls[n].retried < StallRetries}}
    BY DEF DueStalls
  <2>2. PICK n \in DOMAIN table[f].stalls : x = <<f, n>> /\ table[f].halt = "none"
    BY <2>1
  <2>3. table[f].stalls \in Seq(Stalls)
    BY DEF FeedState
  <2>4. n \in Nat /\ table[f].stalls[n] \in Stalls
    BY <2>3, StallFacts
  <2> QED
    BY <2>2, <2>4, Constants DEF Stalls
<1> HIDE DEF due, month
<1>2. oldest # {}
  <2> DEFINE T == {month(x) : x \in due}
  <2>1. T \subseteq Nat /\ T # {}
    BY <1>1 DEF due
  <2>2. Min(T) \in T /\ \A m \in T : Min(T) <= m
    BY <2>1, MinFacts
  <2>3. PICK x \in due : month(x) = Min(T)
    BY <2>2
  <2>4. \A y \in due : month(x) <= month(y)
    BY <2>2, <2>3
  <2> QED
    BY <2>3, <2>4
<1>3. \E x \in oldest : First(x)
  <2> DEFINE T == {x[1] : x \in oldest}
  <2>1. T \subseteq Nat /\ T # {}
    BY <1>1, <1>2
  <2>2. PICK f \in T : \A g \in T : f <= g
    BY <2>1, MinFacts
  <2> DEFINE U == {x[2] : x \in {y \in oldest : y[1] = f}}
  <2>3. U \subseteq Nat /\ U # {}
    BY <1>1, <2>2
  <2>4. PICK n \in U : \A k \in U : n <= k
    BY <2>3, MinFacts
  <2>5. PICK x \in oldest : x[1] = f /\ x[2] = n
    BY <2>4
  <2>6. ASSUME NEW y \in oldest
        PROVE  x[1] < y[1] \/ (x[1] = y[1] /\ x[2] <= y[2])
    <3>1. y[1] \in T /\ y[1] \in Nat /\ f \in Nat /\ f <= y[1]
      BY <1>1, <2>1, <2>2
    <3>2. y[1] = f => y[2] \in U
      OBVIOUS
    <3> QED
      BY <2>4, <2>5, <3>1, <3>2
  <2> QED
    BY <2>5, <2>6
<1> DEFINE first == CHOOSE x \in oldest : First(x)
<1>4. first \in oldest
  <2> HIDE DEF First, oldest
  <2> QED
    BY <1>3
<1>5. first \in due
  BY <1>4
<1>6. Reconsidered(table) = [table EXCEPT ![first[1]] = PutBack(@, first[2])]
  BY DEF Reconsidered, due, month
<1> HIDE DEF first
<1> QED
  BY <1>1, <1>5, <1>6

\* Which feed a round turns to.
LEMMA Choice ==
  ASSUME NEW table \in [Feeds -> FeedState], Candidates(table) # {}
  PROVE  Oldest(table, Candidates(table)) \in Candidates(table)
<1> DEFINE some == Candidates(table)
           T == {table[f].frontier : f \in some}
           U == {f \in some : \A g \in some : table[f].frontier <= table[g].frontier}
<1>1. some \subseteq Feeds
  BY DEF Candidates
<1>2. T \subseteq Nat /\ T # {}
  BY <1>1 DEF FeedState
<1>3. U # {}
  <2>1. Min(T) \in T /\ \A x \in T : Min(T) <= x
    BY <1>2, MinFacts
  <2>2. PICK f \in some : table[f].frontier = Min(T)
    BY <2>1
  <2>3. \A g \in some : table[f].frontier <= table[g].frontier
    BY <2>1, <2>2
  <2> QED
    BY <2>2, <2>3
<1>4. U \subseteq Nat
  BY <1>1, Constants
<1>5. Min(U) \in U
  BY <1>3, <1>4, MinFacts
<1> QED
  BY <1>5 DEF Oldest

-----------------------------------------------------------------------------
(* The survey of a round. *)

\* What a survey saw, from the feeds before it.
Seen(table) ==
  /\ table \in [Feeds -> FeedState]
  /\ \A f \in Feeds :
       /\ Looked(feeds[f], table[f])
       /\ table[f].frontier >= feeds[f].frontier
       /\ (table[f].halt = "none" /\ ~Owes(f, rung, table[f].frontier)) =>
            \A m \in feeds[f].frontier..today : ~Owes(f, rung, m)

\* What it leaves: what it saw, but for the stamps of the stalls and for the
\* one month that a round with nothing to choose puts back.
Kept(s, t) ==
  /\ t \in FeedState
  /\ t.halt = s.halt /\ t.rereads = s.rereads
  /\ s.halt # "none" => [t EXCEPT !.stalls = <<>>] = [s EXCEPT !.stalls = <<>>]

Back(table) == \E f \in Feeds, n \in Nat :
  /\ n \in DOMAIN feeds[f].stalls
  /\ feeds'[f].frontier = feeds[f].stalls[n].month
  /\ \A g \in Feeds \ {f} : feeds'[g].frontier = table[g].frontier

LEMMA Seeing ==
  ASSUME Types, NEW probes
  PROVE  Seen([f \in Feeds |-> Surveyed(f, IF f \in DOMAIN probes
                                           THEN Probed(feeds[f], probes[f]) ELSE feeds[f])])
<1> DEFINE before(f) == IF f \in DOMAIN probes THEN Probed(feeds[f], probes[f]) ELSE feeds[f]
           table == [f \in Feeds |-> Surveyed(f, before(f))]
<1>1. ASSUME NEW f \in Feeds
      PROVE  /\ Looked(feeds[f], table[f])
             /\ table[f].frontier >= feeds[f].frontier
             /\ (table[f].halt = "none" /\ ~Owes(f, rung, table[f].frontier)) =>
                  \A m \in feeds[f].frontier..today : ~Owes(f, rung, m)
  <2> DEFINE s == feeds[f]
             u == before(f)
             t == Surveyed(f, u)
  <2>1. s \in FeedState
    BY DEF Types
  <2>2. /\ u \in FeedState /\ u.frontier = s.frontier /\ u.stalls = s.stalls
        /\ s.halt = "none" => u = s
        /\ s.halt = "Credential" => u = s
        /\ s.halt # "none" /\ u.halt = "none" => u.rereads = Rereads
    BY <2>1, Probing DEF Looked
  <2> HIDE DEF u
  <2>3. /\ Looked(u, t) /\ t.frontier >= u.frontier
        /\ (t.halt = "none" /\ ~Owes(f, rung, t.frontier)) =>
             \A m \in u.frontier..today : ~Owes(f, rung, m)
    BY <2>2, Surveying
  <2>4. table[f] = t
    BY DEF u
  <2> HIDE DEF t, table
  <2>5. Looked(s, t)
    BY <2>2, <2>3 DEF Looked
  <2> QED
    BY <2>2, <2>3, <2>4, <2>5
<1>2. table \in [Feeds -> FeedState]
  BY <1>1 DEF Looked
<1> QED
  BY <1>1, <1>2 DEF Seen

LEMMA SurveyEffects ==
  ASSUME Types, Survey
  PROVE  \E table :
           /\ Seen(table)
           /\ feeds' \in [Feeds -> FeedState]
           /\ \A f \in Feeds : Kept(table[f], feeds'[f])
           /\ \/ feeds' = table
              \/ \A f \in Feeds : feeds'[f].frontier = table[f].frontier
              \/ Candidates(table) = {} /\ Back(table)
           /\ \/ pc' = "top" /\ UNCHANGED <<seats, unit>>
              \/ /\ pc' = "ask" /\ seats' = Feeds /\ feeds' = table
                 /\ unit'.feed \in Candidates(table)
                 /\ unit'.month = table[unit'.feed].frontier
           /\ pleas' = [f \in Feeds |-> IF feeds[f].halt # "none" /\ table[f].halt = "none"
                                        THEN 0 ELSE pleas[f]]
<1>1. PICK probes \in [{f \in Feeds : feeds[f].halt = "Store"} -> {"later", "ok", "bad"}] :
        LET table == [f \in Feeds |-> Surveyed(f, IF f \in DOMAIN probes
                                              THEN Probed(feeds[f], probes[f]) ELSE feeds[f])]
            some == Candidates(table)
            halted == {f \in Feeds : table[f].halt # "none"}
        IN  /\ pleas' = [f \in Feeds |-> IF feeds[f].halt # "none" /\ f \notin halted
                                         THEN 0 ELSE pleas[f]]
            /\ IF some = {} THEN Nothing(table, halted = Feeds)
               ELSE LET f == Oldest(table, some)
                    IN  /\ unit' = [feed |-> f, month |-> table[f].frontier]
                        /\ feeds' = table /\ pc' = "ask" /\ seats' = Feeds
  BY DEF Survey
<1> DEFINE table == [f \in Feeds |-> Surveyed(f, IF f \in DOMAIN probes
                                              THEN Probed(feeds[f], probes[f]) ELSE feeds[f])]
           halted == {f \in Feeds : table[f].halt # "none"}
<1>2. Seen(table)
  BY Seeing
<1>3. /\ pleas' = [f \in Feeds |-> IF feeds[f].halt # "none" /\ f \notin halted
                                   THEN 0 ELSE pleas[f]]
      /\ Candidates(table) = {} => Nothing(table, halted = Feeds)
      /\ Candidates(table) # {} =>
           /\ unit' = [feed |-> Oldest(table, Candidates(table)),
                       month |-> table[Oldest(table, Candidates(table))].frontier]
           /\ feeds' = table /\ pc' = "ask" /\ seats' = Feeds
  BY <1>1
<1> HIDE DEF table
<1>4. table \in [Feeds -> FeedState]
  BY <1>2 DEF Seen
<1>5. pleas' = [f \in Feeds |-> IF feeds[f].halt # "none" /\ table[f].halt = "none"
                               THEN 0 ELSE pleas[f]]
  BY <1>3
<1>6. \A f \in Feeds : Kept(table[f], table[f])
  BY <1>4 DEF Kept
<1>7. CASE Candidates(table) # {}
  <2>1. Oldest(table, Candidates(table)) \in Candidates(table)
    BY <1>4, <1>7, Choice
  <2> QED
    BY <1>2, <1>3, <1>4, <1>5, <1>6, <1>7, <2>1
<1>8. CASE Candidates(table) = {}
  <2> DEFINE stamped == [f \in Feeds |-> Stamped(table[f])]
  <2>1. /\ pc' = "top" /\ UNCHANGED <<seats, unit>>
        /\ feeds' \in {table, Reconsidered(stamped)}
    BY <1>3, <1>8 DEF Nothing, Rests
  <2>2. /\ stamped \in [Feeds -> FeedState]
        /\ \A f \in Feeds : /\ Kept(table[f], stamped[f])
                            /\ stamped[f].frontier = table[f].frontier
                            /\ DOMAIN stamped[f].stalls = DOMAIN table[f].stalls
                            /\ \A n \in DOMAIN table[f].stalls :
                                 stamped[f].stalls[n].month = table[f].stalls[n].month
    <3>1. ASSUME NEW f \in Feeds
          PROVE  /\ stamped[f] \in FeedState
                 /\ Kept(table[f], stamped[f])
                 /\ stamped[f].frontier = table[f].frontier
                 /\ DOMAIN stamped[f].stalls = DOMAIN table[f].stalls
                 /\ \A n \in DOMAIN table[f].stalls :
                      stamped[f].stalls[n].month = table[f].stalls[n].month
      <4>1. table[f] \in FeedState /\ stamped[f] = Stamped(table[f])
        BY <1>4
      <4> HIDE DEF stamped
      <4> QED
        BY <4>1, Stamping DEF Kept
    <3> QED
      BY <3>1
  <2> HIDE DEF stamped
  <2>3. CASE feeds' = table
    BY <1>2, <1>4, <1>5, <1>6, <2>1, <2>3
  <2>4. CASE feeds' = stamped
    BY <1>2, <1>5, <2>1, <2>2, <2>4
  <2>5. CASE feeds' = Reconsidered(stamped) /\ DueStalls(stamped) # {}
    <3>1. PICK f \in Feeds, n \in Nat :
            /\ n \in DOMAIN stamped[f].stalls /\ stamped[f].halt = "none"
            /\ feeds' = [stamped EXCEPT ![f] = PutBack(@, n)]
      BY <2>2, <2>5, Reconsidering
    <3>2. /\ PutBack(stamped[f], n) \in FeedState
          /\ PutBack(stamped[f], n).frontier = stamped[f].stalls[n].month
          /\ PutBack(stamped[f], n).halt = stamped[f].halt
          /\ PutBack(stamped[f], n).rereads = stamped[f].rereads
      BY <2>2, <3>1, PuttingBack
    <3>3. /\ feeds'[f] = PutBack(stamped[f], n)
          /\ \A g \in Feeds \ {f} : feeds'[g] = stamped[g]
          /\ feeds' \in [Feeds -> FeedState]
      BY <2>2, <3>1, <3>2
    <3>4. \A g \in Feeds : Kept(table[g], feeds'[g])
      BY <2>2, <3>1, <3>2, <3>3 DEF Kept
    <3>5. feeds[f].stalls = table[f].stalls
      BY <1>2 DEF Seen, Looked
    <3>6. Back(table)
      BY <2>2, <3>1, <3>2, <3>3, <3>5 DEF Back
    <3> QED
      BY <1>2, <1>5, <1>8, <2>1, <3>3, <3>4, <3>6
  <2>6. DueStalls(stamped) = {} => Reconsidered(stamped) = stamped
    BY DEF Reconsidered
  <2> QED
    BY <2>1, <2>3, <2>4, <2>5, <2>6
<1> QED
  BY <1>7, <1>8

-----------------------------------------------------------------------------
(* The invariant. *)

LEMMA AutopilotInit == Init => AutopilotInv
<1> SUFFICES ASSUME Init PROVE AutopilotInv
  OBVIOUS
<1>1. Fresh \in FeedState
  <2>1. << >> \in Seq(Stalls) /\ Rereads \in 0..Rereads
    BY EmptySeq, Constants
  <2> QED
    BY <2>1 DEF Fresh, FeedState, Halts
<1>2. Fresh.halt = "none" /\ Fresh.rereads = Rereads
  BY DEF Fresh
<1>3. Types
  <2>1. feeds \in [Feeds -> FeedState] /\ pleas \in [Feeds -> Nat]
    BY <1>1 DEF Init
  <2>2. held \in [Feeds -> [Rungs -> [Months -> 0..2]]]
    <3>1. [m \in Months |-> Missing] \in [Months -> 0..2]
      BY DEF Missing
    <3>2. [r \in Rungs |-> [m \in Months |-> Missing]] \in [Rungs -> [Months -> 0..2]]
      BY <3>1
    <3> QED
      BY <3>2 DEF Init
  <2>3. census \in [Feeds -> {"held", "unreadable", "absent"}] /\ today \in Months
    BY Constants DEF Init
  <2>4. leg \in [Feeds -> {"none", "wants", "pulls"}] /\ single \in [Feeds -> BOOLEAN]
    BY DEF Init
  <2>5. /\ pc \in Places /\ rung \in Rungs /\ seats \subseteq Feeds
        /\ pressing \in BOOLEAN /\ blind \in Nat
    BY DEF Init, Places, Rungs
  <2> QED
    BY <2>1, <2>2, <2>3, <2>4, <2>5 DEF Types
<1>4. Seating /\ Choosing
  BY DEF Init, Seating, Choosing, InRound
<1>5. Boarding
  BY DEF Init, Boarding, OneRoundPerPress
<1>6. Pleading
  <2>1. ASSUME NEW f \in Feeds
        PROVE  feeds[f] = Fresh /\ pleas[f] = 0
    BY DEF Init
  <2> QED
    BY <1>2, <2>1, Constants DEF Pleading
<1> QED
  BY <1>3, <1>4, <1>5, <1>6 DEF AutopilotInv

LEMMA BeginStep == AutopilotInv /\ Begin => AutopilotInv'
  BY DEF Begin, control, world, hands, history, AutopilotInv, Types, Places, Rungs, Seating,
    InRound, Boarding, OneRoundPerPress, Choosing, Pleading

LEMMA StandOffStep == AutopilotInv /\ StandOff => AutopilotInv'
  BY DEF StandOff, control, world, hands, history, AutopilotInv, Types, Places, Seating,
    InRound, Boarding, OneRoundPerPress, Choosing, Pleading

LEMMA SurveyStep == AutopilotInv /\ Survey => AutopilotInv'
<1> SUFFICES ASSUME AutopilotInv, Survey PROVE AutopilotInv'
  OBVIOUS
<1>1. PICK table :
        /\ Seen(table)
        /\ feeds' \in [Feeds -> FeedState]
        /\ \A f \in Feeds : Kept(table[f], feeds'[f])
        /\ \/ pc' = "top" /\ UNCHANGED <<seats, unit>>
           \/ /\ pc' = "ask" /\ seats' = Feeds /\ feeds' = table
              /\ unit'.feed \in Candidates(table)
              /\ unit'.month = table[unit'.feed].frontier
        /\ pleas' = [f \in Feeds |-> IF feeds[f].halt # "none" /\ table[f].halt = "none"
                                     THEN 0 ELSE pleas[f]]
  BY SurveyEffects DEF AutopilotInv
<1>2. /\ pc = "seats" /\ seats = {} /\ UNCHANGED <<rung, world, hands>>
      /\ blind' = IF pressing THEN blind + 1 ELSE blind
  BY DEF Survey
<1>3. Types'
  BY <1>1, <1>2 DEF AutopilotInv, Types, Places, world, hands
<1>4. Seating'
  BY <1>1, <1>2 DEF AutopilotInv, Types, Seating, InRound, hands
<1>5. Boarding'
  BY <1>1, <1>2 DEF AutopilotInv, Types, Boarding, OneRoundPerPress, hands
<1>6. Choosing'
  <2>1. ASSUME pc' = "ask"
        PROVE  /\ unit'.feed \in Feeds /\ feeds'[unit'.feed].halt = "none"
               /\ unit'.month \in Nat \ {0}
               /\ Owes(unit'.feed, rung, unit'.month)
    BY <1>1, <2>1 DEF Candidates, FeedState
  <2>2. today \in 1..LastMonth /\ LastMonth \in Nat
    BY Constants DEF AutopilotInv, Types, Months
  <2>3. pc' = "ask" => unit'.month \in Months
    BY <2>1, <2>2 DEF Owes, Months
  <2>4. pc' \in {"top", "ask"}
    BY <1>1
  <2> QED
    BY <1>2, <2>1, <2>3, <2>4 DEF Choosing, InRound, Owes, world
<1>7. Pleading'
  <2>1. ASSUME NEW f \in Feeds
        PROVE  IF feeds'[f].halt = "none" THEN pleas'[f] + feeds'[f].rereads <= Rereads
               ELSE pleas'[f] <= Rereads + 1
    <3>1. /\ Looked(feeds[f], table[f]) /\ Kept(table[f], feeds'[f])
          /\ feeds[f] \in FeedState /\ pleas[f] \in Nat
          /\ pleas'[f] = IF feeds[f].halt # "none" /\ table[f].halt = "none"
                         THEN 0 ELSE pleas[f]
      BY <1>1 DEF Seen, AutopilotInv, Types
    <3>2. IF feeds[f].halt = "none" THEN pleas[f] + feeds[f].rereads <= Rereads
          ELSE pleas[f] <= Rereads + 1
      BY DEF AutopilotInv, Pleading
    <3>3. feeds[f].rereads \in Nat /\ Rereads \in Nat
      BY <3>1, Constants DEF FeedState
    <3> QED
      BY <3>1, <3>2, <3>3 DEF Looked, Kept
  <2> QED
    BY <2>1 DEF Pleading
<1> QED
  BY <1>3, <1>4, <1>5, <1>6, <1>7 DEF AutopilotInv

\* The end of a round.  A month is complete only if this run stored it: it
\* was not when the round chose it, and nobody else has been at it since.
LEMMA Settling ==
  ASSUME AutopilotInv, InRound, NEW reached, NEW stored, NEW reason, NEW stopped,
         NEW level \in 0..2, level = Held => stored,
         Settle([reached |-> reached, stored |-> stored, reason |-> reason,
                 stopped |-> stopped, complete |-> FALSE], level)
  PROVE  /\ AutopilotInv'
         /\ \A f \in Feeds : feeds[f].halt = "Credential" => feeds'[f] = feeds[f]
         /\ \A f \in Feeds : feeds'[f].frontier >= feeds[f].frontier
<1> DEFINE f == unit.feed
           out == [reached |-> reached, stored |-> stored, reason |-> reason,
                   stopped |-> stopped, complete |-> FALSE]
           graded == [reached |-> reached, stored |-> stored, reason |-> reason,
                      stopped |-> stopped,
                      complete |-> level = Held /\ census[f] # "unreadable"]
           seen == Observe(feeds[f], graded)
           passes == seen.next \in {"Advance", "Stall"}
           s == feeds[f]
           t == seen.state
           r == [t EXCEPT !.frontier = IF passes THEN @ + 1 ELSE @]
<1>1. /\ feeds' = [feeds EXCEPT ![f] = r]
      /\ held' = [held EXCEPT ![f][rung][unit.month] = level]
      /\ census' = IF stored THEN [census EXCEPT ![f] = "held"] ELSE census
      /\ pc' = "top" /\ seats' = {}
      /\ pleas' = [pleas EXCEPT ![f] = IF Refuses(graded) THEN @ + 1
                                       ELSE IF stopped \/ ~stored THEN @ ELSE 0]
      /\ UNCHANGED <<rung, today, hands, blind>>
  <2>1. /\ Settle(out, level) /\ out.stored = stored /\ out.stopped = stopped
        /\ [out EXCEPT !.complete = (level = Held /\ census[f] # "unreadable")] = graded
    OBVIOUS
  <2>2. graded.stored = stored
    OBVIOUS
  <2> HIDE DEF out, graded
  <2> QED
    BY <2>1, <2>2 DEF Settle, Refuses
<1>2. /\ f \in Feeds /\ unit.month \in Months /\ s \in FeedState /\ s.halt = "none"
      /\ feeds \in [Feeds -> FeedState] /\ pleas \in [Feeds -> Nat]
      /\ rung \in Rungs /\ held \in [Feeds -> [Rungs -> [Months -> 0..2]]]
      /\ census \in [Feeds -> {"held", "unreadable", "absent"}]
  BY DEF AutopilotInv, Choosing, Types
<1>3. /\ t \in FeedState
      /\ t.frontier = s.frontier
      /\ Refuses(graded) => \/ t.halt = "none" /\ t.rereads = s.rereads - 1
                            \/ t.halt = "Credential"
      /\ ~Refuses(graded) => /\ t.halt \in {"none", "Store"}
                             /\ t.rereads = s.rereads \/ (~stopped /\ stored)
  <2>1. graded.stopped = stopped /\ graded.stored = stored /\ (graded.complete => stored)
    OBVIOUS
  <2> HIDE DEF graded
  <2> QED
    BY <1>2, <2>1, Observing
<1> HIDE DEF seen, passes, t, graded
<1>4. /\ r \in FeedState /\ r.halt = t.halt /\ r.rereads = t.rereads
      /\ r.frontier >= s.frontier
  BY <1>3 DEF FeedState
<1> HIDE DEF r
<1>5. /\ feeds'[f] = r /\ \A g \in Feeds \ {f} : feeds'[g] = feeds[g]
      /\ feeds' \in [Feeds -> FeedState]
  BY <1>1, <1>2, <1>4
<1>6. Types'
  <2>1. held' \in [Feeds -> [Rungs -> [Months -> 0..2]]]
    BY <1>1, <1>2
  <2>2. census' \in [Feeds -> {"held", "unreadable", "absent"}]
    BY <1>1, <1>2
  <2>3. pleas' \in [Feeds -> Nat]
    BY <1>1, <1>2
  <2> QED
    BY <1>1, <1>5, <2>1, <2>2, <2>3 DEF AutopilotInv, Types, Places, hands
<1>7. Seating'
  BY <1>1 DEF AutopilotInv, Seating, InRound, hands
<1>8. Boarding'
  BY <1>1 DEF AutopilotInv, Boarding, OneRoundPerPress, InRound, hands
<1>9. Choosing'
  BY <1>1 DEF Choosing, InRound
<1>10. Pleading'
  <2>1. /\ pleas[f] + s.rereads <= Rereads /\ pleas[f] \in Nat
        /\ s.rereads \in Nat /\ Rereads \in Nat
    <3>1. IF feeds[f].halt = "none" THEN pleas[f] + feeds[f].rereads <= Rereads
          ELSE pleas[f] <= Rereads + 1
      BY <1>2 DEF AutopilotInv, Pleading
    <3>2. s.rereads \in Nat /\ Rereads \in Nat
      BY <1>2, Constants DEF FeedState
    <3> QED
      BY <1>2, <3>1, <3>2
  <2>2. t.rereads \in 0..Rereads
    BY <1>3 DEF FeedState
  <2>3. IF r.halt = "none" THEN pleas'[f] + r.rereads <= Rereads
        ELSE pleas'[f] <= Rereads + 1
    <3>1. pleas'[f] = IF Refuses(graded) THEN pleas[f] + 1
                      ELSE IF stopped \/ ~stored THEN pleas[f] ELSE 0
      BY <1>1, <1>2
    <3>2. CASE Refuses(graded)
      BY <1>3, <1>4, <2>1, <2>2, <3>1, <3>2
    <3>3. CASE ~Refuses(graded)
      BY <1>3, <1>4, <2>1, <2>2, <3>1, <3>3
    <3> QED
      BY <3>2, <3>3
  <2>4. \A g \in Feeds \ {f} : pleas'[g] = pleas[g] /\ feeds'[g] = feeds[g]
    BY <1>1, <1>2, <1>5
  <2>5. ASSUME NEW g \in Feeds
        PROVE  IF feeds'[g].halt = "none" THEN pleas'[g] + feeds'[g].rereads <= Rereads
               ELSE pleas'[g] <= Rereads + 1
    <3>1. CASE g = f
      BY <1>5, <2>3, <3>1
    <3>2. CASE g # f
      BY <2>4, <3>2 DEF AutopilotInv, Pleading
    <3> QED
      BY <3>1, <3>2
  <2> QED
    BY <2>5 DEF Pleading
<1>11. \A g \in Feeds : feeds[g].halt = "Credential" => feeds'[g] = feeds[g]
  BY <1>2, <1>5
<1>12. \A g \in Feeds : feeds'[g].frontier >= feeds[g].frontier
  <2>1. ASSUME NEW g \in Feeds PROVE feeds'[g].frontier >= feeds[g].frontier
    <3>1. feeds[g].frontier \in Nat
      BY <1>2 DEF FeedState
    <3>2. CASE g = f
      BY <1>4, <1>5, <3>2
    <3>3. CASE g # f
      BY <1>5, <3>1, <3>3
    <3> QED
      BY <3>2, <3>3
  <2> QED
    BY <2>1
<1> QED
  BY <1>6, <1>7, <1>8, <1>9, <1>10, <1>11, <1>12 DEF AutopilotInv

\* The three ends and steps of a round that asks.
LEMMA AskStep ==
  ASSUME AutopilotInv, Ask
  PROVE  /\ AutopilotInv'
         /\ \A f \in Feeds : feeds[f].halt = "Credential" => feeds'[f] = feeds[f]
         /\ \A f \in Feeds : feeds'[f].frontier >= feeds[f].frontier
<1>1. pc = "ask"
  BY DEF Ask
<1>2. CASE OutOfOrder
  <2> DEFINE level == held[unit.feed][rung][unit.month]
  <2>1. level \in 0..2 /\ level # Held
    BY <1>1 DEF AutopilotInv, Choosing, InRound, Types
  <2>2. Settle(Refused, level)
    BY <1>2 DEF Ask
  <2>3. Refused = [reached |-> FALSE, stored |-> FALSE, reason |-> "Transport",
                   stopped |-> FALSE, complete |-> FALSE]
    <3> DEFINE o == [Ready EXCEPT !.reason = "Transport"]
    <3>1. o.reached = FALSE /\ o.stored = FALSE /\ o.stopped = FALSE /\ o.reason = "Transport"
      BY DEF Ready
    <3>2. Refused = Outcome(o)
      BY DEF Refused
    <3> HIDE DEF o
    <3> QED
      BY <3>1, <3>2 DEF Outcome
  <2>4. InRound
    BY <1>1 DEF InRound
  <2> HIDE DEF level
  <2>5. Settle([reached |-> FALSE, stored |-> FALSE, reason |-> "Transport",
                stopped |-> FALSE, complete |-> FALSE], level)
    BY <2>2, <2>3
  <2> QED
    BY <2>1, <2>4, <2>5, Settling
<1>3. CASE ~OutOfOrder
  <2>1. /\ pc' = "sweep"
        /\ UNCHANGED <<rung, unit, feeds, seats, control, reported, claim, world, hands,
                       events, history>>
    BY <1>3 DEF Ask
  <2>2. feeds \in [Feeds -> FeedState]
    BY DEF AutopilotInv, Types
  <2>3. \A f \in Feeds : feeds'[f].frontier >= feeds[f].frontier
    BY <2>1, <2>2 DEF FeedState
  <2>4. AutopilotInv'
    BY <1>1, <2>1 DEF AutopilotInv, Types, Places, Rungs, Seating, InRound, Boarding,
      OneRoundPerPress, Choosing, Pleading, control, world, hands, history
  <2> QED
    BY <2>1, <2>3, <2>4
<1> QED
  BY <1>2, <1>3

LEMMA AskInstrumentStep == AutopilotInv /\ AskInstrument => AutopilotInv'
  BY DEF AskInstrument, control, world, hands, history, AutopilotInv, Types, Places, Rungs,
    Seating, InRound, Boarding, OneRoundPerPress, Choosing, Pleading

LEMMA EndSweepStep ==
  ASSUME AutopilotInv, EndSweep
  PROVE  /\ AutopilotInv'
         /\ \A f \in Feeds : feeds[f].halt = "Credential" => feeds'[f] = feeds[f]
         /\ \A f \in Feeds : feeds'[f].frontier >= feeds[f].frontier
<1> DEFINE now == held[unit.feed][rung][unit.month]
<1>1. InRound
  BY DEF EndSweep, InRound
<1>2. now \in 0..2 /\ now # Held
  BY <1>1 DEF AutopilotInv, Choosing, Types
<1>3. PICK level \in Levels(now) : Settle(Outcome(sweep), level)
  BY DEF EndSweep
<1> HIDE DEF now
<1>4. Max({now, Short}) \in 0..2
  BY <1>2, MaxFacts DEF Short
<1>5. level \in 0..2 /\ (level = Held => sweep.stored)
  <2>1. CASE ~sweep.stored
    BY <1>2, <1>3, <2>1 DEF Levels
  <2>2. CASE sweep.stored
    <3> DEFINE best == IF sweep.late THEN Max({now, Short}) ELSE Held
    <3>1. best \in 0..2
      BY <1>4 DEF Held
    <3> HIDE DEF best
    <3>2. level \in {best} \/ level \in now..best
      BY <1>3, <2>2 DEF Levels, best
    <3> QED
      BY <1>2, <2>2, <3>1, <3>2
  <2> QED
    BY <2>1, <2>2
<1>6. Settle([reached |-> sweep.reached, stored |-> sweep.stored, reason |-> sweep.reason,
              stopped |-> sweep.stopped, complete |-> FALSE], level)
  BY <1>3 DEF Outcome
<1> QED
  BY <1>1, <1>5, <1>6, Settling

-----------------------------------------------------------------------------
(* The others. *)

LEMMA PressStep == AutopilotInv /\ Press => AutopilotInv'
<1> SUFFICES ASSUME AutopilotInv, Press PROVE AutopilotInv'
  OBVIOUS
<1>1. /\ pressing' = TRUE /\ leg' = [f \in Feeds |-> "wants"] /\ blind' = 0
      /\ \A f \in Feeds : leg[f] = "none" /\ leg'[f] = "wants"
      /\ UNCHANGED <<task, feeds, seats, world, single, pleas>>
  BY DEF Press, AutopilotInv, Seating
<1>2. Types'
  BY <1>1 DEF AutopilotInv, Types, task, world
<1>3. Seating'
  BY <1>1 DEF AutopilotInv, Seating, InRound, task
<1>4. Boarding' /\ Choosing' /\ Pleading'
  BY <1>1 DEF AutopilotInv, Boarding, OneRoundPerPress, Choosing, Pleading, InRound, task, world
<1> QED
  BY <1>2, <1>3, <1>4 DEF AutopilotInv

LEMMA EndPressStep == AutopilotInv /\ EndPress => AutopilotInv'
<1> SUFFICES ASSUME AutopilotInv, EndPress PROVE AutopilotInv'
  OBVIOUS
<1>1. /\ pressing' = FALSE /\ \A f \in Feeds : leg[f] = "none"
      /\ UNCHANGED <<task, feeds, seats, world, leg, single, history>>
  BY DEF EndPress
<1>2. Types' /\ Seating'
  BY <1>1 DEF AutopilotInv, Types, Seating, InRound, task, world, history
<1>3. Boarding' /\ Choosing' /\ Pleading'
  BY <1>1 DEF AutopilotInv, Boarding, OneRoundPerPress, Choosing, Pleading, InRound, task,
    world, history
<1> QED
  BY <1>2, <1>3 DEF AutopilotInv

\* A seat taken or left by a leg or a single pull: the round holds none.
LEMMA SeatSteps ==
  ASSUME AutopilotInv, NEW f \in Feeds, TakeLegSeat(f) \/ EndLeg(f) \/ BeginSingle(f)
  PROVE  AutopilotInv'
<1>1. /\ UNCHANGED <<task, feeds, world, pressing, history>>
      /\ \/ /\ leg[f] = "wants" /\ f \notin seats /\ seats' = seats \cup {f}
            /\ leg' = [leg EXCEPT ![f] = "pulls"] /\ UNCHANGED single
         \/ /\ leg[f] = "pulls" /\ seats' = seats \ {f}
            /\ leg' = [leg EXCEPT ![f] = "none"] /\ UNCHANGED single
         \/ /\ ~single[f] /\ f \notin seats /\ seats' = seats \cup {f}
            /\ single' = [single EXCEPT ![f] = TRUE] /\ UNCHANGED leg
  BY DEF TakeLegSeat, EndLeg, BeginSingle, Take
<1>2. /\ ~InRound /\ ~InRound'
      /\ seats \subseteq Feeds /\ leg \in [Feeds -> {"none", "wants", "pulls"}]
      /\ single \in [Feeds -> BOOLEAN]
      /\ \A g \in Feeds : /\ g \in seats <=> leg[g] = "pulls" \/ single[g]
                          /\ ~(leg[g] = "pulls" /\ single[g])
                          /\ leg[g] # "none" => pressing
  BY <1>1 DEF AutopilotInv, Seating, Types, InRound, task
<1>3. /\ \A g \in Feeds \ {f} : leg'[g] = leg[g] /\ single'[g] = single[g]
      /\ \A g \in Feeds \ {f} : g \in seats' <=> g \in seats
      /\ seats' \subseteq Feeds /\ leg' \in [Feeds -> {"none", "wants", "pulls"}]
      /\ single' \in [Feeds -> BOOLEAN]
  BY <1>1, <1>2
<1>4. /\ f \in seats' <=> leg'[f] = "pulls" \/ single'[f]
      /\ ~(leg'[f] = "pulls" /\ single'[f])
      /\ leg'[f] # "none" => pressing'
  BY <1>1, <1>2
<1>5. Types'
  BY <1>1, <1>3 DEF AutopilotInv, Types, task, world, history
<1>6. Seating'
  <2>1. ASSUME NEW g \in Feeds
        PROVE  /\ g \in seats' <=> leg'[g] = "pulls" \/ single'[g]
               /\ ~(leg'[g] = "pulls" /\ single'[g])
               /\ leg'[g] # "none" => pressing'
    BY <1>1, <1>2, <1>3, <1>4
  <2> QED
    BY <1>2, <2>1 DEF Seating
<1>7. Boarding' /\ Choosing' /\ Pleading'
  BY <1>1 DEF AutopilotInv, Boarding, OneRoundPerPress, Choosing, Pleading, InRound, task,
    world, history
<1> QED
  BY <1>5, <1>6, <1>7 DEF AutopilotInv

LEMMA EndSingleStep ==
  ASSUME AutopilotInv, NEW f \in Feeds, EndSingle(f)
  PROVE  AutopilotInv'
<1>1. /\ single[f] /\ seats' = seats \ {f}
      /\ single' = [single EXCEPT ![f] = FALSE]
      /\ \/ UNCHANGED held
         \/ \E r \in Rungs, m \in 1..today : held' = [held EXCEPT ![f][r][m] = Held]
      /\ UNCHANGED <<task, feeds, census, today, pressing, leg, history>>
  BY DEF EndSingle
<1>2. /\ ~InRound /\ ~InRound' /\ seats \subseteq Feeds
      /\ single \in [Feeds -> BOOLEAN] /\ f \in seats /\ leg[f] # "pulls"
      /\ \A g \in Feeds : /\ g \in seats <=> leg[g] = "pulls" \/ single[g]
                          /\ ~(leg[g] = "pulls" /\ single[g])
                          /\ leg[g] # "none" => pressing
  BY <1>1 DEF AutopilotInv, Seating, Types, InRound, task
<1>3. held' \in [Feeds -> [Rungs -> [Months -> 0..2]]]
  <2>1. held \in [Feeds -> [Rungs -> [Months -> 0..2]]] /\ Held \in 0..2
    BY DEF AutopilotInv, Types, Held
  <2>2. ASSUME NEW r \in Rungs, NEW m, held' = [held EXCEPT ![f][r][m] = Held]
        PROVE  held' \in [Feeds -> [Rungs -> [Months -> 0..2]]]
    <3>1. [held[f][r] EXCEPT ![m] = Held] \in [Months -> 0..2]
      BY <2>1
    <3>2. [held[f] EXCEPT ![r] = [held[f][r] EXCEPT ![m] = Held]]
            \in [Rungs -> [Months -> 0..2]]
      BY <2>1, <3>1
    <3> QED
      BY <2>1, <2>2, <3>2
  <2> QED
    BY <1>1, <2>1, <2>2
<1>4. Types'
  <2>1. seats' \subseteq Feeds /\ single' \in [Feeds -> BOOLEAN]
    BY <1>1, <1>2
  <2> QED
    BY <1>1, <1>3, <2>1 DEF AutopilotInv, Types, task, history
<1>5. Seating'
  <2>1. ASSUME NEW g \in Feeds
        PROVE  /\ g \in seats' <=> leg'[g] = "pulls" \/ single'[g]
               /\ ~(leg'[g] = "pulls" /\ single'[g])
               /\ leg'[g] # "none" => pressing'
    <3>1. single'[g] = IF g = f THEN FALSE ELSE single[g]
      BY <1>1, <1>2
    <3> QED
      BY <1>1, <1>2, <3>1
  <2> QED
    BY <1>2, <2>1 DEF Seating
<1>6. Boarding' /\ Choosing' /\ Pleading'
  BY <1>1, <1>2 DEF AutopilotInv, Boarding, OneRoundPerPress, Choosing, Pleading, InRound, task,
    history
<1> QED
  BY <1>4, <1>5, <1>6 DEF AutopilotInv

LEMMA ControlStep == AutopilotInv /\ (Pause \/ Resume) => AutopilotInv'
<1> SUFFICES ASSUME AutopilotInv, Pause \/ Resume PROVE AutopilotInv'
  OBVIOUS
<1>1. UNCHANGED <<task, feeds, seats, world, hands, history>>
  BY DEF Pause, Resume
<1> QED
  BY <1>1 DEF AutopilotInv, Types, Seating, Boarding, OneRoundPerPress, Choosing, Pleading,
    InRound, task, world, hands, history

\* The world takes a month from the store, or the end of one; it gives none.
LEMMA WorldStep ==
  ASSUME AutopilotInv,
         DayEnds \/ MonthEnds \/ \E f \in Feeds : CensusTurns(f)
  PROVE  AutopilotInv'
<1>1. /\ UNCHANGED <<pc, rung, unit, feeds, seats, hands, history>>
      /\ today' \in Months
  <2>1. CASE DayEnds
    BY <2>1 DEF DayEnds, AutopilotInv, Types
  <2>2. CASE MonthEnds
    <3>1. today \in 1..LastMonth /\ LastMonth \in Nat /\ today < LastMonth
      BY <2>2, Constants DEF MonthEnds, AutopilotInv, Types, Months
    <3> QED
      BY <2>2, <3>1 DEF MonthEnds, Months, task
  <2>3. CASE \E f \in Feeds : CensusTurns(f)
    BY <2>3 DEF CensusTurns, AutopilotInv, Types, task
  <2> QED
    BY <2>1, <2>2, <2>3
<1>2. /\ held' \in [Feeds -> [Rungs -> [Months -> 0..2]]]
      /\ census' \in [Feeds -> {"held", "unreadable", "absent"}]
      /\ \A f \in Feeds, r \in Rungs, m \in Months : held[f][r][m] # Held => held'[f][r][m] # Held
  <2>0. /\ held \in [Feeds -> [Rungs -> [Months -> 0..2]]]
        /\ census \in [Feeds -> {"held", "unreadable", "absent"}] /\ today \in Months
    BY DEF AutopilotInv, Types
  <2>1. CASE DayEnds
    <3>1. /\ UNCHANGED census
          /\ held' = [f \in Feeds |-> [r \in Rungs |->
                        [held[f][r] EXCEPT ![today] = IF @ = Held THEN Short ELSE @]]]
      BY <2>1 DEF DayEnds
    <3>2. ASSUME NEW f \in Feeds, NEW r \in Rungs
          PROVE  /\ held'[f][r] \in [Months -> 0..2]
                 /\ \A m \in Months : held[f][r][m] # Held => held'[f][r][m] # Held
      <4>1. held[f][r] \in [Months -> 0..2]
        BY <2>0
      <4>2. held'[f][r] = [held[f][r] EXCEPT ![today] = IF @ = Held THEN Short ELSE @]
        BY <3>1
      <4> QED
        BY <2>0, <4>1, <4>2 DEF Held, Short
    <3> QED
      BY <2>0, <3>1, <3>2
  <2>2. CASE MonthEnds
    BY <2>0, <2>2 DEF MonthEnds
  <2>3. CASE \E f \in Feeds : CensusTurns(f)
    <3>1. PICK f \in Feeds : CensusTurns(f)
      BY <2>3
    <3>2. /\ census' \in [Feeds -> {"held", "unreadable", "absent"}]
          /\ \/ UNCHANGED held
             \/ held' = [held EXCEPT ![f] = [r \in Rungs |-> [m \in Months |-> Missing]]]
      BY <2>0, <3>1 DEF CensusTurns
    <3> DEFINE none == [r \in Rungs |-> [m \in Months |-> Missing]]
    <3>3. none \in [Rungs -> [Months -> 0..2]]
          /\ \A r \in Rungs, m \in Months : none[r][m] # Held
      BY DEF Missing, Held
    <3> HIDE DEF none
    <3>4. UNCHANGED held \/ held' = [held EXCEPT ![f] = none]
      BY <3>2 DEF none
    <3> QED
      BY <2>0, <3>2, <3>3, <3>4
  <2> QED
    BY <2>1, <2>2, <2>3
<1>3. Types'
  BY <1>1, <1>2 DEF AutopilotInv, Types, hands, history
<1>4. Seating' /\ Boarding' /\ Pleading'
  BY <1>1 DEF AutopilotInv, Seating, Boarding, OneRoundPerPress, Pleading, InRound, hands, history
<1>5. Choosing'
  BY <1>1, <1>2 DEF AutopilotInv, Types, Choosing, InRound
<1> QED
  BY <1>3, <1>4, <1>5 DEF AutopilotInv

\* A stall that comes due changes nothing else of its feed.
LEMMA StallStep ==
  ASSUME AutopilotInv, StallComesDue
  PROVE  /\ AutopilotInv'
         /\ \A f \in Feeds : [feeds'[f] EXCEPT !.stalls = <<>>] = [feeds[f] EXCEPT !.stalls = <<>>]
         /\ \A f \in Feeds : feeds'[f].frontier >= feeds[f].frontier
<1>0. PICK f \in Feeds : \E n \in DOMAIN feeds[f].stalls :
        feeds' = [feeds EXCEPT ![f].stalls = Restalled(@, n, [@[n] EXCEPT !.age = "due"])]
  BY DEF StallComesDue
<1>1. PICK n \in DOMAIN feeds[f].stalls :
        feeds' = [feeds EXCEPT ![f].stalls = Restalled(@, n, [@[n] EXCEPT !.age = "due"])]
  BY <1>0
<1>2. UNCHANGED <<task, seats, world, hands, history>>
  BY DEF StallComesDue
<1> DEFINE s == feeds[f]
           q == s.stalls
           x == [q[n] EXCEPT !.age = "due"]
           p == Restalled(q, n, x)
           t == [s EXCEPT !.stalls = p]
<1>3. feeds \in [Feeds -> FeedState] /\ s \in FeedState /\ q \in Seq(Stalls)
  BY DEF AutopilotInv, Types, FeedState
<1>4. feeds' = [feeds EXCEPT ![f] = t]
  BY <1>1, <1>3
<1>5. p \in Seq(Stalls)
  <2>1. q[n] \in Stalls
    BY <1>3, StallFacts
  <2>2. x \in Stalls
    BY <2>1 DEF Stalls
  <2> HIDE DEF x
  <2>3. DOMAIN p = DOMAIN q /\ \A k \in DOMAIN q : p[k] = IF k = n THEN x ELSE q[k]
    BY DEF Restalled
  <2>4. \A k \in DOMAIN q : p[k] \in Stalls
    BY <1>3, <2>2, <2>3, StallFacts
  <2>5. p \in [DOMAIN q -> Stalls]
    BY <2>3, <2>4 DEF Restalled
  <2> QED
    BY <1>3, <2>5, StallFacts
<1> HIDE DEF p, q
<1>6. /\ t \in FeedState /\ t.frontier = s.frontier /\ t.halt = s.halt /\ t.rereads = s.rereads
      /\ [t EXCEPT !.stalls = <<>>] = [s EXCEPT !.stalls = <<>>]
  BY <1>3, <1>5 DEF FeedState
<1> HIDE DEF t
<1>7. \A g \in Feeds : /\ feeds'[g].frontier = feeds[g].frontier
                       /\ feeds'[g].halt = feeds[g].halt
                       /\ feeds'[g].rereads = feeds[g].rereads
                       /\ [feeds'[g] EXCEPT !.stalls = <<>>] = [feeds[g] EXCEPT !.stalls = <<>>]
  BY <1>3, <1>4, <1>6
<1>8. feeds' \in [Feeds -> FeedState]
  BY <1>3, <1>4, <1>6
<1>9. Types'
  BY <1>2, <1>8 DEF AutopilotInv, Types, task, world, hands, history
<1>10. Seating' /\ Boarding'
  BY <1>2 DEF AutopilotInv, Seating, Boarding, OneRoundPerPress, InRound, task, hands, history
<1>11. Choosing' /\ Pleading'
  BY <1>2, <1>7 DEF AutopilotInv, Choosing, Pleading, InRound, task, world, history
<1>12. \A g \in Feeds : feeds'[g].frontier >= feeds[g].frontier
  <2>1. ASSUME NEW g \in Feeds PROVE feeds'[g].frontier >= feeds[g].frontier
    <3>1. feeds[g].frontier \in Nat
      BY <1>3 DEF FeedState
    <3>2. feeds'[g].frontier = feeds[g].frontier
      BY <1>7
    <3> QED
      BY <3>1, <3>2
  <2> QED
    BY <2>1
<1> QED
  BY <1>7, <1>9, <1>10, <1>11, <1>12 DEF AutopilotInv

-----------------------------------------------------------------------------
(* The theorems. *)

LEMMA AutopilotStep == AutopilotInv /\ [Next]_vars => AutopilotInv'
<1> SUFFICES ASSUME AutopilotInv, [Next]_vars PROVE AutopilotInv'
  OBVIOUS
<1>1. CASE Begin \/ StandOff \/ Survey
  BY <1>1, BeginStep, StandOffStep, SurveyStep
<1>2. CASE Ask \/ AskInstrument \/ EndSweep
  BY <1>2, AskStep, AskInstrumentStep, EndSweepStep
<1>3. CASE Pause \/ Resume \/ StallComesDue
  BY <1>3, ControlStep, StallStep
<1>4. CASE DayEnds \/ MonthEnds \/ \E f \in Feeds : CensusTurns(f)
  BY <1>4, WorldStep
<1>5. CASE Press \/ EndPress
  BY <1>5, PressStep, EndPressStep
<1>6. CASE \E f \in Feeds : TakeLegSeat(f) \/ EndLeg(f) \/ BeginSingle(f) \/ EndSingle(f)
  BY <1>6, SeatSteps, EndSingleStep
<1>7. CASE UNCHANGED vars
  BY <1>7 DEF vars, task, control, world, hands, history, AutopilotInv, Types, Seating, Boarding,
    OneRoundPerPress, Choosing, Pleading, InRound
<1> QED
  BY <1>1, <1>2, <1>3, <1>4, <1>5, <1>6, <1>7 DEF Next, Fly, World, Hands

\* The invariant holds of every run of the backfill.
THEOREM AutopilotInvariant == Spec => []AutopilotInv
  BY AutopilotInit, AutopilotStep, PTL DEF Spec

\* A feed is pulled by one at a time, and a seat that nobody pulls under is
\* free: the round, the legs of a press and the single pulls share one mask.
THEOREM SeatsAreExclusive == Spec => []OnePullPerFeed
<1>1. ASSUME AutopilotInv, NEW f \in Feeds
      PROVE  LET pulls == {w \in {"round", "leg", "single"} :
                             CASE w = "round" -> InRound [] w = "leg" -> leg[f] = "pulls"
                               [] OTHER -> single[f]}
             IN  Cardinality(pulls) <= 1 /\ (f \in seats <=> pulls # {})
  <2> DEFINE pulls == {w \in {"round", "leg", "single"} :
                         CASE w = "round" -> InRound [] w = "leg" -> leg[f] = "pulls"
                           [] OTHER -> single[f]}
  <2>1. pulls \subseteq {"round", "leg", "single"}
    OBVIOUS
  <2>2. /\ "round" \in pulls <=> InRound
        /\ "leg" \in pulls <=> leg[f] = "pulls"
        /\ "single" \in pulls <=> single[f]
    OBVIOUS
  <2> HIDE DEF pulls
  <2>3. /\ InRound => f \in seats /\ leg[f] # "pulls" /\ ~single[f]
        /\ ~InRound => /\ f \in seats <=> leg[f] = "pulls" \/ single[f]
                       /\ ~(leg[f] = "pulls" /\ single[f])
    BY <1>1 DEF AutopilotInv, Seating
  <2>4. pulls \in {{}, {"round"}, {"leg"}, {"single"}}
    BY <2>1, <2>2, <2>3
  <2>5. Cardinality(pulls) <= 1
    <3>1. Cardinality({}) = 0
      BY FS_EmptySet
    <3>2. \A w : Cardinality({w}) = 1
      BY FS_Singleton
    <3>3. pulls = {} \/ \E w : pulls = {w}
      BY <2>4
    <3>4. Cardinality(pulls) = 0 \/ Cardinality(pulls) = 1
      BY <3>1, <3>2, <3>3
    <3> QED
      BY <3>4
  <2>6. f \in seats <=> pulls # {}
    BY <2>1, <2>2, <2>3
  <2> QED
    BY <2>5, <2>6 DEF pulls
<1>2. AutopilotInv => OnePullPerFeed
  BY <1>1 DEF OnePullPerFeed
<1> QED
  BY <1>2, AutopilotInvariant, PTL

\* A press that has begun meets at most one round.
THEOREM PressesMeetOneRound == Spec => []OneRoundPerPress
<1>1. AutopilotInv => OneRoundPerPress
  BY DEF AutopilotInv, Boarding
<1> QED
  BY <1>1, AutopilotInvariant, PTL

\* A dead credential is read Rereads times more and then no more.
THEOREM DeadTokensAreReread == Spec => []DeadTokenIsReread
<1>1. ASSUME AutopilotInv, NEW f \in Feeds PROVE pleas[f] <= Rereads + 1
  <2>1. /\ feeds[f].rereads \in Nat /\ pleas[f] \in Nat /\ Rereads \in Nat
    BY <1>1, Constants DEF AutopilotInv, Types, FeedState
  <2>2. IF feeds[f].halt = "none" THEN pleas[f] + feeds[f].rereads <= Rereads
        ELSE pleas[f] <= Rereads + 1
    BY <1>1 DEF AutopilotInv, Pleading
  <2> QED
    BY <2>1, <2>2
<1>2. AutopilotInv => DeadTokenIsReread
  BY <1>1 DEF DeadTokenIsReread
<1> QED
  BY <1>2, AutopilotInvariant, PTL

\* Which steps touch the feeds at all.
LEMMA OtherSteps ==
  ASSUME [Next]_vars
  PROVE  Survey \/ Ask \/ EndSweep \/ StallComesDue \/ UNCHANGED feeds
<1>1. Begin \/ StandOff \/ AskInstrument => UNCHANGED feeds
  BY DEF Begin, StandOff, AskInstrument
<1>2. Pause \/ Resume \/ DayEnds \/ MonthEnds \/ (\E f \in Feeds : CensusTurns(f)) => UNCHANGED feeds
  BY DEF Pause, Resume, DayEnds, MonthEnds, CensusTurns
<1>3. Press \/ EndPress \/
        (\E f \in Feeds : TakeLegSeat(f) \/ EndLeg(f) \/ BeginSingle(f) \/ EndSingle(f))
          => UNCHANGED feeds
  BY DEF Press, EndPress, TakeLegSeat, EndLeg, BeginSingle, EndSingle
<1>4. UNCHANGED vars => UNCHANGED feeds
  BY DEF vars
<1> QED
  BY <1>1, <1>2, <1>3, <1>4 DEF Next, Fly, World, Hands

\* What a credential halted stays as it is, and is asked for nothing.
THEOREM DeadFeedsRest == Spec => DeadFeedRests
<1> DEFINE A == \A f \in Feeds : feeds[f].halt = "Credential" =>
                  /\ [feeds'[f] EXCEPT !.stalls = <<>>] = [feeds[f] EXCEPT !.stalls = <<>>]
                  /\ pc' = "sweep" => unit'.feed # f
<1>1. ASSUME AutopilotInv, AutopilotInv', [Next]_vars PROVE A
  <2> SUFFICES ASSUME NEW f \in Feeds, feeds[f].halt = "Credential"
               PROVE  /\ [feeds'[f] EXCEPT !.stalls = <<>>] = [feeds[f] EXCEPT !.stalls = <<>>]
                      /\ pc' = "sweep" => unit'.feed # f
    OBVIOUS
  <2>1. feeds[f] \in FeedState /\ feeds'[f] \in FeedState
    BY <1>1 DEF AutopilotInv, Types
  <2>2. [feeds'[f] EXCEPT !.stalls = <<>>] = [feeds[f] EXCEPT !.stalls = <<>>]
    <3>1. CASE Survey
      <4>1. PICK table : Seen(table) /\ \A g \in Feeds : Kept(table[g], feeds'[g])
        BY <1>1, <3>1, SurveyEffects DEF AutopilotInv
      <4>2. table[f] = feeds[f]
        BY <4>1 DEF Seen, Looked
      <4> QED
        BY <4>1, <4>2 DEF Kept
    <3>2. CASE Ask \/ EndSweep
      BY <1>1, <3>2, AskStep, EndSweepStep
    <3>3. CASE StallComesDue
      BY <1>1, <3>3, StallStep
    <3>4. CASE UNCHANGED feeds
      BY <3>4
    <3> QED
      BY <1>1, <3>1, <3>2, <3>3, <3>4, OtherSteps
  <2>3. feeds'[f].halt = "Credential"
    BY <2>1, <2>2 DEF FeedState
  <2>4. pc' = "sweep" => feeds'[unit'.feed].halt = "none"
    BY <1>1 DEF AutopilotInv, Choosing, InRound
  <2> QED
    BY <2>2, <2>3, <2>4
<1>2. AutopilotInv /\ AutopilotInv' /\ [Next]_vars => [A]_vars
  BY <1>1
<1> QED
  BY <1>2, AutopilotInvariant, PTL DEF DeadFeedRests, Spec

\* A frontier goes back only to a month that was stalled on, of one feed at a
\* time, and only when no feed that can be asked owes anything.
THEOREM FrontiersGoBackWhenIdle == Spec => BackOnlyWhenIdle
<1> DEFINE B == \A f \in Feeds : feeds'[f].frontier < feeds[f].frontier =>
       /\ \E n \in DOMAIN feeds[f].stalls : feeds[f].stalls[n].month = feeds'[f].frontier
       /\ \A g \in Feeds \ {f} :
            /\ feeds'[g].frontier >= feeds[g].frontier
            /\ feeds'[g].halt = "none" => \A m \in feeds[g].frontier..today : ~Owes(g, rung, m)
<1>1. ASSUME AutopilotInv, AutopilotInv', [Next]_vars PROVE B
  <2>1. \A f \in Feeds : feeds[f].frontier \in Nat /\ feeds'[f].frontier \in Nat
    BY <1>1 DEF AutopilotInv, Types, FeedState
  <2>2. CASE \A f \in Feeds : feeds'[f].frontier >= feeds[f].frontier
    BY <2>1, <2>2
  <2>3. CASE Survey
    <3>1. PICK table :
            /\ Seen(table)
            /\ \A f \in Feeds : Kept(table[f], feeds'[f])
            /\ \/ \A f \in Feeds : feeds'[f].frontier = table[f].frontier
               \/ Candidates(table) = {} /\ Back(table)
      BY <1>1, <2>3, SurveyEffects DEF AutopilotInv
    <3>2. \A f \in Feeds : table[f].frontier >= feeds[f].frontier
      BY <3>1 DEF Seen
    <3>3. CASE \A f \in Feeds : feeds'[f].frontier = table[f].frontier
      BY <2>2, <3>2, <3>3
    <3>4. CASE Candidates(table) = {} /\ Back(table)
      <4>1. PICK f \in Feeds, n \in Nat :
              /\ n \in DOMAIN feeds[f].stalls
              /\ feeds'[f].frontier = feeds[f].stalls[n].month
              /\ \A g \in Feeds \ {f} : feeds'[g].frontier = table[g].frontier
        BY <3>4 DEF Back
      <4>2. \A g \in Feeds \ {f} : feeds'[g].frontier >= feeds[g].frontier
        BY <3>2, <4>1
      <4>3. ASSUME NEW g \in Feeds, feeds'[g].halt = "none"
            PROVE  \A m \in feeds[g].frontier..today : ~Owes(g, rung, m)
        <5>1. table[g].halt = "none"
          BY <3>1, <4>3 DEF Kept
        <5>2. ~Owes(g, rung, table[g].frontier)
          BY <3>4, <5>1 DEF Candidates
        <5> QED
          BY <3>1, <5>1, <5>2 DEF Seen
      <4>4. ASSUME NEW g \in Feeds, feeds'[g].frontier < feeds[g].frontier
            PROVE  g = f
        BY <2>1, <4>2, <4>4
      <4> QED
        BY <4>1, <4>2, <4>3, <4>4
    <3> QED
      BY <3>1, <3>3, <3>4
  <2>4. CASE Ask \/ EndSweep
    BY <1>1, <2>2, <2>4, AskStep, EndSweepStep
  <2>5. CASE StallComesDue
    BY <1>1, <2>2, <2>5, StallStep
  <2>6. CASE UNCHANGED feeds
    BY <2>1, <2>2, <2>6
  <2> QED
    BY <1>1, <2>3, <2>4, <2>5, <2>6, OtherSteps
<1>2. AutopilotInv /\ AutopilotInv' /\ [Next]_vars => [B]_vars
  BY <1>1
<1> QED
  BY <1>2, AutopilotInvariant, PTL DEF BackOnlyWhenIdle, Spec
===============================================================================
