---------------------------- MODULE PullRun_proofs ----------------------------
(***************************************************************************)
(* What a pull run promises, for every set of legs and feeds, every number *)
(* of passes and panics: which legs a chain asks for, whatever other runs  *)
(* do; and, as long as one conductor has the slot, that its report adds up *)
(* and that a run ends of itself only after passes that saw everything.    *)
(***************************************************************************)
EXTENDS PullRun, Integers, TLAPS, FiniteSetTheorems

-----------------------------------------------------------------------------
(* by_feed: the legs of a feed, in the order of their rungs.               *)

LegType == [feed : Feeds, rank : Ranks, route : Routes]

LEMMA LegsFacts ==
  /\ Len(Legs) \in Nat /\ DOMAIN Legs = 1..Len(Legs)
  /\ \A i \in DOMAIN Legs : Legs[i] \in LegType
<1>1. Legs \in Seq(LegType)
  BY PullRunAssumption DEF LegType
<1> QED
  BY <1>1

LEMMA TickedFacts ==
  ASSUME NEW f \in Feeds
  PROVE  /\ IsFiniteSet(Ticked(f)) /\ Cardinality(Ticked(f)) \in Nat
         /\ \A i \in Ticked(f) : i \in 1..Len(Legs) /\ Legs[i] \in LegType
<1>1. IsFiniteSet(1..Len(Legs)) /\ Ticked(f) \in SUBSET (1..Len(Legs))
  BY LegsFacts, FS_Interval DEF Ticked
<1>2. IsFiniteSet(Ticked(f))
  BY <1>1, FS_Subset
<1> QED
  BY <1>1, <1>2, FS_CardinalityType, LegsFacts DEF Ticked

\* A leg has fewer legs before it than there are.
LEMMA PrecedingBound ==
  ASSUME NEW f \in Feeds, NEW i \in Ticked(f)
  PROVE  /\ IsFiniteSet(Preceding(f, i))
         /\ Cardinality(Preceding(f, i)) \in 0..Cardinality(Ticked(f)) - 1
<1>1. IsFiniteSet(Ticked(f)) /\ Cardinality(Ticked(f)) \in Nat
  BY TickedFacts
<1>2. i \in 1..Len(Legs) /\ Legs[i].rank \in Nat
  BY TickedFacts DEF LegType, Ranks
<1>3. Preceding(f, i) \in SUBSET (Ticked(f) \ {i})
  BY <1>2 DEF Preceding, Before
<1>4. IsFiniteSet(Ticked(f) \ {i}) /\ Cardinality(Ticked(f) \ {i}) = Cardinality(Ticked(f)) - 1
  BY <1>1, FS_RemoveElement
<1>5. /\ IsFiniteSet(Preceding(f, i))
      /\ Cardinality(Preceding(f, i)) <= Cardinality(Ticked(f)) - 1
  BY <1>3, <1>4, FS_Subset
<1>6. Cardinality(Preceding(f, i)) \in Nat
  BY <1>5, FS_CardinalityType
<1> QED
  BY <1>1, <1>5, <1>6

\* A leg before another has fewer legs before it than the other.
LEMMA PrecedingGrows ==
  ASSUME NEW f \in Feeds, NEW i \in Ticked(f), NEW j \in Ticked(f), Before(i, j)
  PROVE  Cardinality(Preceding(f, i)) < Cardinality(Preceding(f, j))
<1>1. \A k \in Ticked(f) : k \in 1..Len(Legs) /\ Legs[k].rank \in Nat
  BY TickedFacts DEF LegType, Ranks
<1>2. Len(Legs) \in Nat
  BY LegsFacts
<1>3. Preceding(f, i) \in SUBSET Preceding(f, j)
  BY <1>1, <1>2 DEF Preceding, Before
<1>4. i \in Preceding(f, j) /\ i \notin Preceding(f, i)
  BY <1>1, <1>2 DEF Preceding, Before
<1>5. /\ IsFiniteSet(Preceding(f, j))
      /\ Cardinality(Preceding(f, i)) \in 0..Cardinality(Ticked(f)) - 1
      /\ Cardinality(Preceding(f, j)) \in 0..Cardinality(Ticked(f)) - 1
  BY PrecedingBound
<1>6. /\ Cardinality(Preceding(f, i)) <= Cardinality(Preceding(f, j))
      /\ Cardinality(Preceding(f, j)) = Cardinality(Preceding(f, i))
           => Preceding(f, j) = Preceding(f, i)
  BY <1>3, <1>5, FS_Subset
<1>7. Cardinality(Ticked(f)) \in Nat
  BY TickedFacts
<1> QED
  BY <1>4, <1>5, <1>6, <1>7

\* Every place of a feed's order is taken.
LEMMA SomeNth ==
  ASSUME NEW f \in Feeds, NEW n \in 1..Cardinality(Ticked(f))
  PROVE  \E i \in Ticked(f) : Cardinality(Preceding(f, i)) = n - 1
<1> DEFINE k == Cardinality(Ticked(f))
           places == (0..k - 1) \ {n - 1}
           count == [i \in Ticked(f) |-> Cardinality(Preceding(f, i))]
<1>1. k \in Nat /\ IsFiniteSet(Ticked(f))
  BY TickedFacts
<1> SUFFICES ASSUME \A i \in Ticked(f) : Cardinality(Preceding(f, i)) # n - 1 PROVE FALSE
  OBVIOUS
<1>2. count \in [Ticked(f) -> places]
  BY PrecedingBound
<1>3. IsFiniteSet(places) /\ Cardinality(places) < k
  <2>1. n \in 1..k
    OBVIOUS
  <2> HIDE DEF k
  <2>2. IsFiniteSet(0..k - 1) /\ Cardinality(0..k - 1) = k
    <3>1. k - 1 \in Int /\ k > 0
      BY <1>1, <2>1
    <3> QED
      BY <1>1, <3>1, FS_Interval
  <2>3. n - 1 \in 0..k - 1
    BY <1>1, <2>1
  <2>4. IsFiniteSet((0..k - 1) \ {n - 1}) /\ Cardinality((0..k - 1) \ {n - 1}) = k - 1
    BY <2>2, <2>3, FS_RemoveElement
  <2> QED
    BY <1>1, <2>4
<1> HIDE DEF places, count
<1>4. PICK i \in Ticked(f), j \in Ticked(f) : i # j /\ count[i] = count[j]
  BY <1>1, <1>2, <1>3, FS_PigeonHole DEF places
<1>5. Before(i, j) \/ Before(j, i)
  <2>1. i \in 1..Len(Legs) /\ j \in 1..Len(Legs) /\ Len(Legs) \in Nat
    BY TickedFacts, LegsFacts
  <2>2. Legs[i].rank \in Nat /\ Legs[j].rank \in Nat
    BY TickedFacts DEF LegType, Ranks
  <2> QED
    BY <1>4, <2>1, <2>2 DEF Before
<1>6. /\ Cardinality(Preceding(f, i)) \in Nat
      /\ Cardinality(Preceding(f, i)) = Cardinality(Preceding(f, j))
  BY <1>1, <1>4, PrecedingBound DEF count
<1> QED
  BY <1>5, <1>6, PrecedingGrows

\* A feed's legs, the lower rungs first.
LEMMA GroupFacts ==
  ASSUME NEW f \in Feeds
  PROVE  /\ Len(Group[f]) \in Nat /\ DOMAIN Group[f] = 1..Len(Group[f])
         /\ \A n \in DOMAIN Group[f] : Group[f][n] \in LegType
         /\ \A m, n \in DOMAIN Group[f] : m < n => Group[f][m].rank <= Group[f][n].rank
<1> DEFINE k == Cardinality(Ticked(f))
           nth(n) == CHOOSE i \in Ticked(f) : Cardinality(Preceding(f, i)) = n - 1
<1>1. Group[f] = [n \in 1..k |-> Legs[nth(n)]]
  BY DEF Group
<1>2. \A n \in 1..k : nth(n) \in Ticked(f) /\ Cardinality(Preceding(f, nth(n))) = n - 1
  BY SomeNth
<1>3. k \in Nat
  BY TickedFacts
<1> HIDE DEF k, nth
<1>4. \A n \in 1..k : Group[f][n] = Legs[nth(n)] /\ Legs[nth(n)] \in LegType
  BY <1>1, <1>2, TickedFacts
<1>5. Group[f] \in Seq(LegType) /\ Len(Group[f]) = k /\ DOMAIN Group[f] = 1..k
  BY <1>1, <1>3, <1>4
<1>6. ASSUME NEW m \in 1..k, NEW n \in 1..k, m < n
      PROVE  Group[f][m].rank <= Group[f][n].rank
  <2>1. ~Before(nth(n), nth(m))
    BY <1>2, <1>3, <1>6, PrecedingGrows
  <2>2. Legs[nth(m)].rank \in Nat /\ Legs[nth(n)].rank \in Nat
    BY <1>4 DEF LegType, Ranks
  <2> QED
    BY <1>4, <2>1, <2>2 DEF Before
<1> QED
  BY <1>3, <1>4, <1>5, <1>6

-----------------------------------------------------------------------------
(* Types.                                                                  *)

ConPlaces == {"new", "claimed", "head", "pass", "flying", "judge", "close", "drop", "done"}
ChainPlaces == {"none", "next", "send", "asked", "break", "ended", "dead"}

ReportType == [dead : BOOLEAN, done : Nat, skipped : Int, finished : BOOLEAN]
Reported == [{} -> ReportType] \cup [Feeds -> ReportType]
SlotType == [running : BOOLEAN, stopping : BOOLEAN, feeds : Reported]
ConType == [place : ConPlaces, outcomes : [Feeds -> Passing], passes : Nat, clean_empty : Nat,
            repairing : BOOLEAN]
ChainType == [place : ChainPlaces, at : Nat \ {0}, rank : SUBSET Ranks, result : Passing,
              attempted : Nat]
LegSets == [Runs -> [Feeds -> SUBSET Nat]]

Types ==
  /\ slot \in SlotType
  /\ con \in [Runs -> ConType]
  /\ chain \in [Runs -> [Feeds -> ChainType]]
  /\ marks \in LegSets /\ failed \in LegSets /\ since \in LegSets /\ seen \in LegSets
  /\ lost \in [Runs -> SUBSET Feeds]
  /\ observed \in [Runs -> Nat] /\ panics \in Nat

LEMMA Beginnings ==
  /\ Report \in ReportType /\ Quiet \in ChainType /\ Waiting \in ConType
  /\ Claimed \in SlotType /\ NeverRan \in SlotType
  /\ Claimed.feeds = [f \in {} |-> Report] /\ ~Claimed.stopping /\ Claimed.running
  /\ Quiet.place = "none" /\ Quiet.at = 1 /\ Quiet.rank = {} /\ Quiet.result = "Clean"
  /\ Quiet.attempted = 0
  /\ Waiting.place = "new"
  /\ Unmarked \in [Feeds -> SUBSET Nat]
<1>1. Report \in ReportType
  BY DEF Report, ReportType
<1>2. [f \in {} |-> Report] \in Reported
  BY <1>1 DEF Reported
<1>3. Claimed = [running |-> TRUE, stopping |-> FALSE, feeds |-> [f \in {} |-> Report]]
  BY DEF Claimed
<1>4. Claimed \in SlotType /\ NeverRan \in SlotType
  BY <1>2, <1>3 DEF NeverRan, SlotType
<1>5. Waiting \in ConType
  BY DEF Waiting, ConType, ConPlaces, Passing
<1> QED
  BY <1>1, <1>3, <1>4, <1>5 DEF Quiet, ChainType, ChainPlaces, Passing, Waiting, Unmarked

\* An edit of one feed's report leaves the rest of the slot.
LEMMA EditMoves ==
  ASSUME slot \in SlotType, NEW f \in Feeds, NEW report \in ReportType, f \in DOMAIN slot.feeds,
         Edit(f, report)
  PROVE  /\ slot' \in SlotType /\ slot'.running = slot.running /\ slot'.stopping = slot.stopping
         /\ DOMAIN slot'.feeds = DOMAIN slot.feeds
         /\ slot'.feeds[f] = report
         /\ \A g \in DOMAIN slot.feeds : g # f => slot'.feeds[g] = slot.feeds[g]
<1>1. slot' = [slot EXCEPT !.feeds[f] = report]
  BY DEF Edit
<1>2. slot.feeds \in [Feeds -> ReportType]
  BY DEF SlotType, Reported
<1>3. slot'.feeds = [slot.feeds EXCEPT ![f] = report] /\ slot'.running = slot.running
      /\ slot'.stopping = slot.stopping
  BY <1>1 DEF SlotType
<1>4. slot'.feeds \in [Feeds -> ReportType]
  BY <1>2, <1>3
<1>5. slot' \in SlotType
  BY <1>1, <1>4 DEF SlotType, Reported
<1> QED
  BY <1>2, <1>3, <1>4, <1>5

\* A step of one chain leaves the others.
LEMMA StepMoves ==
  ASSUME chain \in [Runs -> [Feeds -> ChainType]], NEW r \in Runs, NEW f \in Feeds,
         NEW edit \in ChainType, Step(r, f, edit)
  PROVE  /\ chain' \in [Runs -> [Feeds -> ChainType]] /\ chain'[r][f] = edit
         /\ \A s \in Runs, g \in Feeds : s # r \/ g # f => chain'[s][g] = chain[s][g]
  BY DEF Step

\* What a chain becomes after an outcome.
LEMMA AfterMoves ==
  ASSUME NEW c \in ChainType, NEW leg \in LegType, NEW outcome \in Outcomes
  PROVE  LET next == After(c, leg, outcome) IN
         /\ next \in ChainType /\ next.attempted = c.attempted
         /\ outcome \in {"Stored", "Empty"} =>
              next.place = "next" /\ next.at = c.at + 1 /\ next.rank = c.rank /\ next.result = c.result
         /\ outcome \in Terminal => next.place = "break" /\ next.result = "Halted"
         /\ outcome = "Retry" => next.place = "next" /\ next.at = c.at + 1 /\ next.result = "Retry"
         /\ outcome \notin {"Stored", "Empty"} =>
              next.rank = IF leg.route = "spot" THEN {leg.rank} ELSE c.rank
<1> DEFINE rank == IF leg.route = "spot" THEN {leg.rank} ELSE c.rank
           next == After(c, leg, outcome)
<1>1. rank \in SUBSET Ranks /\ c.at + 1 \in Nat \ {0}
  BY DEF ChainType, LegType
<1>2. [c EXCEPT !.rank = rank] \in ChainType
  BY <1>1 DEF ChainType
<1>3. CASE outcome \in {"Stored", "Empty"}
  <2>1. next = [c EXCEPT !.place = "next", !.at = @ + 1]
    BY <1>3 DEF After, Terminal
  <2> QED
    BY <1>1, <1>3, <2>1 DEF ChainType, ChainPlaces, Terminal
<1>4. CASE outcome \in Terminal
  <2> DEFINE noted == [c EXCEPT !.rank = rank]
  <2>1. next = [noted EXCEPT !.place = "break", !.result = "Halted"]
    <3>1. outcome \notin {"Stored", "Empty"}
      BY <1>4 DEF Terminal
    <3> QED
      BY <1>4, <3>1 DEF After
  <2>2. noted \in ChainType /\ noted.rank = rank /\ noted.attempted = c.attempted
    BY <1>2 DEF ChainType
  <2> HIDE DEF noted, next
  <2>3. /\ next \in ChainType /\ next.place = "break" /\ next.result = "Halted"
        /\ next.rank = noted.rank /\ next.attempted = noted.attempted
    BY <2>1, <2>2 DEF ChainType, ChainPlaces, Passing
  <2> QED
    BY <1>4, <2>2, <2>3 DEF next, Terminal
<1>5. CASE outcome = "Retry"
  <2> DEFINE noted == [c EXCEPT !.rank = rank]
  <2>1. next = [noted EXCEPT !.place = "next", !.at = @ + 1, !.result = "Retry"]
    BY <1>5 DEF After, Terminal
  <2>2. /\ noted \in ChainType /\ noted.rank = rank /\ noted.attempted = c.attempted
        /\ noted.at = c.at
    BY <1>2 DEF ChainType
  <2> HIDE DEF noted, next
  <2>3. /\ next \in ChainType /\ next.place = "next" /\ next.result = "Retry"
        /\ next.rank = noted.rank /\ next.attempted = noted.attempted /\ next.at = noted.at + 1
    BY <1>1, <2>1, <2>2 DEF ChainType, ChainPlaces, Passing
  <2> QED
    BY <1>5, <2>2, <2>3 DEF next, Terminal
<1> QED
  BY <1>3, <1>4, <1>5 DEF Outcomes, Terminal

LEMMA OutcomeFacts == \A answer : LegOutcome(answer) \in Outcomes
  BY DEF LegOutcome, Outcomes

\* Places of one conductor, the others as they were.
LEMMA ConMoves ==
  ASSUME con \in [Runs -> ConType], NEW r \in Runs, NEW c \in ConType, con' = [con EXCEPT ![r] = c]
  PROVE  /\ con' \in [Runs -> ConType] /\ con'[r] = c
         /\ \A s \in Runs : s # r => con'[s] = con[s]
  OBVIOUS

LEMMA TypesInit == Init => Types
  BY Beginnings DEF Init, Types, SlotType, LegSets

\* What an open pass starts its chains with.
Fresh(flies) == [f \in Feeds |-> IF f \in flies THEN [Quiet EXCEPT !.place = "next"] ELSE Quiet]

LEMMA FreshFacts ==
  ASSUME NEW flies
  PROVE  /\ Fresh(flies) \in [Feeds -> ChainType]
         /\ \A f \in Feeds :
              /\ Fresh(flies)[f].at = 1 /\ Fresh(flies)[f].rank = {}
              /\ Fresh(flies)[f].result = "Clean" /\ Fresh(flies)[f].attempted = 0
              /\ Fresh(flies)[f].place = IF f \in flies THEN "next" ELSE "none"
<1>1. /\ [Quiet EXCEPT !.place = "next"] \in ChainType
      /\ [Quiet EXCEPT !.place = "next"].place = "next" /\ [Quiet EXCEPT !.place = "next"].at = 1
      /\ [Quiet EXCEPT !.place = "next"].rank = {}
      /\ [Quiet EXCEPT !.place = "next"].result = "Clean"
      /\ [Quiet EXCEPT !.place = "next"].attempted = 0
  BY Beginnings DEF ChainType, ChainPlaces
<1> HIDE DEF Quiet
<1> QED
  BY <1>1, Beginnings DEF Fresh

\* A report of a feed that the slot has, edited, or a slot without it left alone.
LEMMA FeedMoves ==
  ASSUME slot \in SlotType, NEW f \in Feeds, NEW report,
         f \in DOMAIN slot.feeds => report \in ReportType,
         IF f \in DOMAIN slot.feeds THEN Edit(f, report) ELSE UNCHANGED slot
  PROVE  /\ slot' \in SlotType /\ slot'.running = slot.running /\ slot'.stopping = slot.stopping
         /\ DOMAIN slot'.feeds = DOMAIN slot.feeds
         /\ f \in DOMAIN slot.feeds => slot'.feeds[f] = report
         /\ \A g \in DOMAIN slot.feeds : g # f => slot'.feeds[g] = slot.feeds[g]
<1>1. CASE f \in DOMAIN slot.feeds
  BY <1>1, EditMoves
<1>2. CASE f \notin DOMAIN slot.feeds
  BY <1>2
<1> QED
  BY <1>1, <1>2

LEMMA ReportOf ==
  ASSUME slot \in SlotType, NEW f \in DOMAIN slot.feeds
  PROVE  f \in Feeds /\ slot.feeds[f] \in ReportType
  BY DEF SlotType, Reported

\* The report of a feed that is over: its legs not done are skipped.
LEMMA OverReport ==
  ASSUME NEW report \in ReportType, NEW k \in Int
  PROVE  LET over == [report EXCEPT !.skipped = k, !.finished = TRUE]
         IN  over \in ReportType /\ over.done = report.done /\ over.skipped = k /\ over.finished
  BY DEF ReportType

LEMMA CountedReport ==
  ASSUME NEW report \in ReportType, NEW no \in BOOLEAN
  PROVE  LET counted == [report EXCEPT !.done = @ + 1, !.dead = @ \/ no]
         IN  counted \in ReportType /\ counted.done = report.done + 1
             /\ counted.finished = report.finished
<1>1. report.done + 1 \in Nat
  BY DEF ReportType
<1> DEFINE dead == report.dead \/ no
<1>2. dead \in BOOLEAN
  BY DEF ReportType
<1> HIDE DEF dead
<1>3. [report EXCEPT !.done = report.done + 1, !.dead = dead] \in ReportType
  BY <1>1, <1>2 DEF ReportType
<1>4. [report EXCEPT !.done = report.done + 1, !.dead = dead].done = report.done + 1
      /\ [report EXCEPT !.done = report.done + 1, !.dead = dead].finished = report.finished
  BY DEF ReportType
<1> QED
  BY <1>3, <1>4 DEF dead

LEMMA ChainEdits ==
  ASSUME NEW c \in ChainType
  PROVE  /\ \A place \in ChainPlaces :
              LET next == [c EXCEPT !.place = place]
              IN  /\ next \in ChainType /\ next.place = place /\ next.at = c.at
                  /\ next.rank = c.rank /\ next.result = c.result /\ next.attempted = c.attempted
         /\ LET next == [c EXCEPT !.at = @ + 1]
            IN  /\ next \in ChainType /\ next.place = c.place /\ next.at = c.at + 1
                /\ next.rank = c.rank /\ next.result = c.result /\ next.attempted = c.attempted
         /\ LET next == [c EXCEPT !.place = "send", !.attempted = @ + 1]
            IN  /\ next \in ChainType /\ next.place = "send" /\ next.at = c.at
                /\ next.rank = c.rank /\ next.result = c.result
                /\ next.attempted = c.attempted + 1
<1>1. c.at + 1 \in Nat \ {0} /\ c.attempted + 1 \in Nat
  BY DEF ChainType
<1> QED
  BY <1>1 DEF ChainType, ChainPlaces

\* What each step of a chain moves.
LEMMA EndChainMoves ==
  ASSUME Types, NEW r \in Runs, NEW f \in Feeds, EndChain(r, f)
  PROVE  /\ slot' \in SlotType /\ slot'.running = slot.running /\ slot'.stopping = slot.stopping
         /\ DOMAIN slot'.feeds = DOMAIN slot.feeds
         /\ f \in DOMAIN slot.feeds =>
              /\ slot'.feeds[f].done = slot.feeds[f].done /\ slot'.feeds[f].finished
              /\ slot'.feeds[f].skipped = Len(Group[f]) - slot.feeds[f].done
         /\ \A g \in DOMAIN slot.feeds : g # f => slot'.feeds[g] = slot.feeds[g]
         /\ chain' \in [Runs -> [Feeds -> ChainType]]
         /\ chain'[r][f].place = "ended" /\ chain'[r][f].result = chain[r][f].result
         /\ chain'[r][f].rank = chain[r][f].rank
         /\ \A s \in Runs, g \in Feeds : s # r \/ g # f => chain'[s][g] = chain[s][g]
<1> DEFINE report == [slot.feeds[f] EXCEPT !.skipped = Len(Group[f]) - slot.feeds[f].done,
                                           !.finished = TRUE]
           c == [chain[r][f] EXCEPT !.place = "ended"]
<1>1. slot \in SlotType /\ chain \in [Runs -> [Feeds -> ChainType]] /\ chain[r][f] \in ChainType
  BY DEF Types
<1>2. f \in DOMAIN slot.feeds =>
        /\ report \in ReportType /\ report.done = slot.feeds[f].done /\ report.finished
        /\ report.skipped = Len(Group[f]) - slot.feeds[f].done
  <2>1. SUFFICES ASSUME f \in DOMAIN slot.feeds
                 PROVE  slot.feeds[f] \in ReportType
                        /\ Len(Group[f]) - slot.feeds[f].done \in Int
    BY OverReport
  <2>2. slot.feeds[f] \in ReportType
    BY <1>1, <2>1, ReportOf
  <2>3. slot.feeds[f].done \in Nat
    BY <2>2 DEF ReportType
  <2> QED
    BY <2>2, <2>3, GroupFacts
<1>3. c \in ChainType /\ c.place = "ended" /\ c.result = chain[r][f].result
      /\ c.rank = chain[r][f].rank
  BY <1>1, ChainEdits DEF ChainPlaces
<1>4. /\ IF f \in DOMAIN slot.feeds THEN Edit(f, report) ELSE UNCHANGED slot
      /\ Step(r, f, c)
  BY DEF EndChain
<1> HIDE DEF report, c
<1>5. /\ slot' \in SlotType /\ slot'.running = slot.running /\ slot'.stopping = slot.stopping
      /\ DOMAIN slot'.feeds = DOMAIN slot.feeds
      /\ f \in DOMAIN slot.feeds => slot'.feeds[f] = report
      /\ \A g \in DOMAIN slot.feeds : g # f => slot'.feeds[g] = slot.feeds[g]
  BY <1>1, <1>2, <1>4, FeedMoves
<1>6. /\ chain' \in [Runs -> [Feeds -> ChainType]] /\ chain'[r][f] = c
      /\ \A s \in Runs, g \in Feeds : s # r \/ g # f => chain'[s][g] = chain[s][g]
  BY <1>1, <1>3, <1>4, StepMoves
<1> QED
  BY <1>2, <1>3, <1>5, <1>6

LEMMA PassOverMoves ==
  ASSUME Types, NEW r \in Runs, NEW f \in Feeds, PassOver(r, f)
  PROVE  /\ chain' \in [Runs -> [Feeds -> ChainType]]
         /\ chain'[r][f].place = "next" /\ chain'[r][f].at = chain[r][f].at + 1
         /\ chain'[r][f].rank = chain[r][f].rank /\ chain'[r][f].result = chain[r][f].result
         /\ chain'[r][f].attempted = chain[r][f].attempted
         /\ \A s \in Runs, g \in Feeds : s # r \/ g # f => chain'[s][g] = chain[s][g]
<1> DEFINE c == [chain[r][f] EXCEPT !.at = @ + 1]
<1>1. chain \in [Runs -> [Feeds -> ChainType]] /\ chain[r][f] \in ChainType
  BY DEF Types
<1>2. Step(r, f, c) /\ chain[r][f].place = "next"
  BY DEF PassOver, Stepping
<1>3. /\ c \in ChainType /\ c.place = chain[r][f].place /\ c.at = chain[r][f].at + 1
      /\ c.rank = chain[r][f].rank /\ c.result = chain[r][f].result
      /\ c.attempted = chain[r][f].attempted
  BY <1>1, ChainEdits
<1> HIDE DEF c
<1> QED
  BY <1>1, <1>2, <1>3, StepMoves

LEMMA TakeMoves ==
  ASSUME Types, NEW r \in Runs, NEW f \in Feeds, Take(r, f)
  PROVE  /\ chain' \in [Runs -> [Feeds -> ChainType]]
         /\ chain'[r][f].place = "send" /\ chain'[r][f].at = chain[r][f].at
         /\ chain'[r][f].rank = chain[r][f].rank /\ chain'[r][f].result = chain[r][f].result
         /\ chain'[r][f].attempted = chain[r][f].attempted + 1
         /\ \A s \in Runs, g \in Feeds : s # r \/ g # f => chain'[s][g] = chain[s][g]
<1> DEFINE c == [chain[r][f] EXCEPT !.place = "send", !.attempted = @ + 1]
<1>1. chain \in [Runs -> [Feeds -> ChainType]] /\ chain[r][f] \in ChainType
  BY DEF Types
<1>2. Step(r, f, c)
  BY DEF Take
<1>3. /\ c \in ChainType /\ c.place = "send" /\ c.at = chain[r][f].at
      /\ c.rank = chain[r][f].rank /\ c.result = chain[r][f].result
      /\ c.attempted = chain[r][f].attempted + 1
  BY <1>1, ChainEdits
<1> HIDE DEF c
<1> QED
  BY <1>1, <1>2, <1>3, StepMoves

\* A chain that only changes its place.
LEMMA PlaceMoves ==
  ASSUME Types, NEW r \in Runs, NEW f \in Feeds, NEW place \in ChainPlaces,
         Step(r, f, [chain[r][f] EXCEPT !.place = place])
  PROVE  /\ chain' \in [Runs -> [Feeds -> ChainType]]
         /\ chain'[r][f].place = place /\ chain'[r][f].at = chain[r][f].at
         /\ chain'[r][f].rank = chain[r][f].rank /\ chain'[r][f].result = chain[r][f].result
         /\ chain'[r][f].attempted = chain[r][f].attempted
         /\ \A s \in Runs, g \in Feeds : s # r \/ g # f => chain'[s][g] = chain[s][g]
<1> DEFINE c == [chain[r][f] EXCEPT !.place = place]
<1>1. chain \in [Runs -> [Feeds -> ChainType]] /\ chain[r][f] \in ChainType
  BY DEF Types
<1>2. /\ c \in ChainType /\ c.place = place /\ c.at = chain[r][f].at
      /\ c.rank = chain[r][f].rank /\ c.result = chain[r][f].result
      /\ c.attempted = chain[r][f].attempted
  BY <1>1, ChainEdits
<1>3. Step(r, f, c)
  OBVIOUS
<1> HIDE DEF c
<1> QED
  BY <1>1, <1>2, <1>3, StepMoves

Put(legs, at, yes) == IF yes THEN legs \cup {at} ELSE legs \ {at}
Clean(outcome) == outcome \in {"Stored", "Empty"}

\* What an answer with one outcome does.
AnswerWith(r, f, outcome) ==
  LET at == chain[r][f].at
  IN  /\ Step(r, f, After(chain[r][f], Here(r, f), outcome))
      /\ IF f \in DOMAIN slot.feeds
         THEN Edit(f, [slot.feeds[f] EXCEPT
                         !.done = @ + 1, !.dead = @ \/ outcome = "Credential"])
         ELSE UNCHANGED slot
      /\ marks' = IF Clean(outcome) THEN [marks EXCEPT ![r][f] = @ \cup {at}] ELSE marks
      /\ failed' = [failed EXCEPT ![r][f] = Put(@, at, ~Clean(outcome))]
      /\ since' = [since EXCEPT ![r][f] = Put(@, at, Clean(outcome))]
      /\ seen' = [seen EXCEPT ![r][f] = Put(@, at, Clean(outcome))]

\* A clean answer marks the leg and leaves the rungs; another notes the rung, if it is a spot one.
Turned(r, f) ==
  LET c == chain[r][f]
      next == chain'[r][f]
  IN  \/ /\ next.place = "next" /\ next.rank = c.rank /\ next.result = c.result
         /\ marks'[r][f] = marks[r][f] \cup {c.at} /\ failed'[r][f] = failed[r][f] \ {c.at}
         /\ since'[r][f] = since[r][f] \cup {c.at} /\ seen'[r][f] = seen[r][f] \cup {c.at}
      \/ /\ next.rank = IF Here(r, f).route = "spot" THEN {Here(r, f).rank} ELSE c.rank
         /\ next.result \in {"Halted", "Retry"}
         /\ marks'[r][f] = marks[r][f] /\ failed'[r][f] = failed[r][f] \cup {c.at}
         /\ since'[r][f] = since[r][f] \ {c.at} /\ seen'[r][f] = seen[r][f] \ {c.at}

LEMMA AnswerMoves ==
  ASSUME Types, NEW r \in Runs, NEW f \in Feeds, Answer(r, f),
         chain[r][f].at \in DOMAIN Group[f]
  PROVE  LET c == chain[r][f]
             next == chain'[r][f]
         IN
         /\ slot' \in SlotType /\ slot'.running = slot.running /\ slot'.stopping = slot.stopping
         /\ DOMAIN slot'.feeds = DOMAIN slot.feeds
         /\ f \in DOMAIN slot.feeds => /\ slot'.feeds[f].done = slot.feeds[f].done + 1
                                       /\ slot'.feeds[f].finished = slot.feeds[f].finished
         /\ \A g \in DOMAIN slot.feeds : g # f => slot'.feeds[g] = slot.feeds[g]
         /\ chain' \in [Runs -> [Feeds -> ChainType]]
         /\ \A s \in Runs, g \in Feeds : s # r \/ g # f =>
              /\ chain'[s][g] = chain[s][g] /\ marks'[s][g] = marks[s][g]
              /\ failed'[s][g] = failed[s][g] /\ since'[s][g] = since[s][g]
              /\ seen'[s][g] = seen[s][g]
         /\ marks' \in LegSets /\ failed' \in LegSets /\ since' \in LegSets /\ seen' \in LegSets
         /\ next.attempted = c.attempted
         /\ next.place \in {"next", "break"}
         /\ next.place = "next" => next.at = c.at + 1
         /\ next.place = "break" => next.result = "Halted"
         /\ Turned(r, f)
<1> DEFINE c == chain[r][f]
           leg == Here(r, f)
           next == chain'[r][f]
<1>1. /\ slot \in SlotType /\ chain \in [Runs -> [Feeds -> ChainType]] /\ c \in ChainType
      /\ marks \in LegSets /\ failed \in LegSets /\ since \in LegSets /\ seen \in LegSets
  BY DEF Types
<1>2. leg \in LegType /\ c.at \in Nat
  BY <1>1, GroupFacts DEF Here, ChainType
<1>3. PICK outcome \in Outcomes :
        /\ Step(r, f, After(c, leg, outcome))
        /\ IF f \in DOMAIN slot.feeds
           THEN Edit(f, [slot.feeds[f] EXCEPT
                           !.done = @ + 1, !.dead = @ \/ outcome = "Credential"])
           ELSE UNCHANGED slot
        /\ marks' = IF Clean(outcome) THEN [marks EXCEPT ![r][f] = @ \cup {c.at}] ELSE marks
        /\ failed' = [failed EXCEPT ![r][f] = Put(@, c.at, ~Clean(outcome))]
        /\ since' = [since EXCEPT ![r][f] = Put(@, c.at, Clean(outcome))]
        /\ seen' = [seen EXCEPT ![r][f] = Put(@, c.at, Clean(outcome))]
  <2>1. PICK outcome \in {LegOutcome(answer) : answer \in Answers} : AnswerWith(r, f, outcome)
    BY DEF Answer, AnswerWith, Put, Clean
  <2>2. outcome \in Outcomes
    BY <2>1, OutcomeFacts
  <2> QED
    BY <2>1, <2>2 DEF AnswerWith
<1> DEFINE report == [slot.feeds[f] EXCEPT
                        !.done = @ + 1, !.dead = @ \/ outcome = "Credential"]
           a == After(c, leg, outcome)
<1>4. /\ slot' \in SlotType /\ slot'.running = slot.running /\ slot'.stopping = slot.stopping
      /\ DOMAIN slot'.feeds = DOMAIN slot.feeds
      /\ f \in DOMAIN slot.feeds => /\ slot'.feeds[f].done = slot.feeds[f].done + 1
                                    /\ slot'.feeds[f].finished = slot.feeds[f].finished
      /\ \A g \in DOMAIN slot.feeds : g # f => slot'.feeds[g] = slot.feeds[g]
  <2>1. f \in DOMAIN slot.feeds =>
          /\ report \in ReportType /\ report.done = slot.feeds[f].done + 1
          /\ report.finished = slot.feeds[f].finished
    BY <1>1, ReportOf, CountedReport
  <2>2. IF f \in DOMAIN slot.feeds THEN Edit(f, report) ELSE UNCHANGED slot
    BY <1>3
  <2> HIDE DEF report
  <2> QED
    BY <1>1, <2>1, <2>2, FeedMoves
<1>5. /\ a \in ChainType /\ a.attempted = c.attempted
      /\ Clean(outcome) => a.place = "next" /\ a.at = c.at + 1 /\ a.rank = c.rank
                           /\ a.result = c.result
      /\ ~Clean(outcome) =>
           /\ \/ a.place = "next" /\ a.at = c.at + 1 /\ a.result = "Retry"
              \/ a.place = "break" /\ a.result = "Halted"
           /\ a.rank = IF leg.route = "spot" THEN {leg.rank} ELSE c.rank
  <2>1. outcome \in Terminal \/ outcome = "Retry" \/ Clean(outcome)
    BY <1>3 DEF Outcomes, Terminal, Clean
  <2> HIDE DEF c, leg, a
  <2>2. /\ a \in ChainType /\ a.attempted = c.attempted
        /\ outcome \in {"Stored", "Empty"} =>
             a.place = "next" /\ a.at = c.at + 1 /\ a.rank = c.rank /\ a.result = c.result
        /\ outcome \in Terminal => a.place = "break" /\ a.result = "Halted"
        /\ outcome = "Retry" => a.place = "next" /\ a.at = c.at + 1 /\ a.result = "Retry"
        /\ outcome \notin {"Stored", "Empty"} =>
             a.rank = IF leg.route = "spot" THEN {leg.rank} ELSE c.rank
    BY <1>1, <1>2, <1>3, AfterMoves DEF a
  <2> QED
    BY <2>1, <2>2 DEF Clean
<1>6. /\ chain' \in [Runs -> [Feeds -> ChainType]] /\ next = a
      /\ \A s \in Runs, g \in Feeds : s # r \/ g # f => chain'[s][g] = chain[s][g]
  <2>1. Step(r, f, a)
    BY <1>3
  <2> HIDE DEF a
  <2> QED
    BY <1>1, <1>5, <2>1, StepMoves
<1> DEFINE yes == Clean(outcome)
<1>8. /\ Put(failed[r][f], c.at, ~yes) \in SUBSET Nat /\ Put(since[r][f], c.at, yes) \in SUBSET Nat
      /\ Put(seen[r][f], c.at, yes) \in SUBSET Nat
  BY <1>1, <1>2 DEF LegSets, Put
<1>9. /\ failed' \in LegSets /\ failed'[r][f] = Put(failed[r][f], c.at, ~yes)
      /\ \A s \in Runs, g \in Feeds : s # r \/ g # f => failed'[s][g] = failed[s][g]
  <2> DEFINE of == Put(failed[r][f], c.at, ~yes)
  <2>1. failed' = [failed EXCEPT ![r][f] = of] /\ of \in SUBSET Nat
    BY <1>3, <1>8
  <2> HIDE DEF of
  <2>2. /\ failed' \in LegSets /\ failed'[r][f] = of
        /\ \A s \in Runs, g \in Feeds : s # r \/ g # f => failed'[s][g] = failed[s][g]
    BY <1>1, <2>1 DEF LegSets
  <2> QED
    BY <2>2 DEF of
<1>10. /\ since' \in LegSets /\ since'[r][f] = Put(since[r][f], c.at, yes)
      /\ \A s \in Runs, g \in Feeds : s # r \/ g # f => since'[s][g] = since[s][g]
  <2> DEFINE of == Put(since[r][f], c.at, yes)
  <2>1. since' = [since EXCEPT ![r][f] = of] /\ of \in SUBSET Nat
    BY <1>3, <1>8
  <2> HIDE DEF of
  <2>2. /\ since' \in LegSets /\ since'[r][f] = of
        /\ \A s \in Runs, g \in Feeds : s # r \/ g # f => since'[s][g] = since[s][g]
    BY <1>1, <2>1 DEF LegSets
  <2> QED
    BY <2>2 DEF of
<1>11. /\ seen' \in LegSets /\ seen'[r][f] = Put(seen[r][f], c.at, yes)
      /\ \A s \in Runs, g \in Feeds : s # r \/ g # f => seen'[s][g] = seen[s][g]
  <2> DEFINE of == Put(seen[r][f], c.at, yes)
  <2>1. seen' = [seen EXCEPT ![r][f] = of] /\ of \in SUBSET Nat
    BY <1>3, <1>8
  <2> HIDE DEF of
  <2>2. /\ seen' \in LegSets /\ seen'[r][f] = of
        /\ \A s \in Runs, g \in Feeds : s # r \/ g # f => seen'[s][g] = seen[s][g]
    BY <1>1, <2>1 DEF LegSets
  <2> QED
    BY <2>2 DEF of
<1>12. /\ marks' \in LegSets
       /\ marks'[r][f] = IF yes THEN marks[r][f] \cup {c.at} ELSE marks[r][f]
       /\ \A s \in Runs, g \in Feeds : s # r \/ g # f => marks'[s][g] = marks[s][g]
  <2>1. CASE yes
    <3> DEFINE of == marks[r][f] \cup {c.at}
    <3>1. marks' = [marks EXCEPT ![r][f] = of]
      BY <1>3, <2>1
    <3>2. of \in SUBSET Nat
      BY <1>1, <1>2 DEF LegSets
    <3> HIDE DEF of
    <3>3. /\ marks' \in LegSets /\ marks'[r][f] = of
          /\ \A s \in Runs, g \in Feeds : s # r \/ g # f => marks'[s][g] = marks[s][g]
      BY <1>1, <3>1, <3>2 DEF LegSets
    <3> QED
      BY <2>1, <3>3 DEF of
  <2>2. CASE ~yes
    BY <1>1, <1>3, <2>2
  <2> QED
    BY <2>1, <2>2
<1> HIDE DEF c, leg, next, a, yes
<1>13. /\ next.attempted = c.attempted
       /\ next.place \in {"next", "break"}
       /\ next.place = "next" => next.at = c.at + 1
       /\ next.place = "break" => next.result = "Halted"
  BY <1>5, <1>6
<1>14. CASE yes
  <2>1. /\ next.place = "next" /\ next.rank = c.rank /\ next.result = c.result
        /\ marks'[r][f] = marks[r][f] \cup {c.at} /\ failed'[r][f] = failed[r][f] \ {c.at}
        /\ since'[r][f] = since[r][f] \cup {c.at} /\ seen'[r][f] = seen[r][f] \cup {c.at}
    BY <1>5, <1>6, <1>9, <1>10, <1>11, <1>12, <1>14 DEF Put, yes
  <2>2. Turned(r, f)
    BY <2>1 DEF Turned, c, next
  <2> QED
    BY <1>4, <1>6, <1>9, <1>10, <1>11, <1>12, <1>13, <2>2 DEF c, next
<1>15. CASE ~yes
  <2>1. /\ next.rank = IF leg.route = "spot" THEN {leg.rank} ELSE c.rank
        /\ next.result \in {"Halted", "Retry"}
        /\ marks'[r][f] = marks[r][f] /\ failed'[r][f] = failed[r][f] \cup {c.at}
        /\ since'[r][f] = since[r][f] \ {c.at} /\ seen'[r][f] = seen[r][f] \ {c.at}
    BY <1>5, <1>6, <1>9, <1>10, <1>11, <1>12, <1>15 DEF Put, yes
  <2>2. Turned(r, f)
    BY <2>1 DEF Turned, c, next, leg
  <2> QED
    BY <1>4, <1>6, <1>9, <1>10, <1>11, <1>12, <1>13, <2>2 DEF c, next
<1> QED
  BY <1>14, <1>15

Flies(r) == {f \in Feeds : con[r].outcomes[f] # "Halted" /\ ~Dead(f)}

\* A pass that opens, not stopped.
LEMMA FlyMoves ==
  ASSUME Types, NEW r \in Runs, OpenPass(r), ~slot.stopping
  PROVE  /\ con[r].place = "pass" /\ con' \in [Runs -> ConType] /\ con'[r].place = "flying"
         /\ con'[r].repairing = con[r].repairing /\ con'[r].passes = con[r].passes
         /\ con'[r].clean_empty = con[r].clean_empty
         /\ \A f \in Feeds : con'[r].outcomes[f] =
              IF f \in Flies(r) THEN con[r].outcomes[f] ELSE "Halted"
         /\ \A s \in Runs : s # r => con'[s] = con[s]
         /\ slot' \in SlotType /\ slot'.running = slot.running /\ slot'.stopping = slot.stopping
         /\ DOMAIN slot'.feeds = DOMAIN slot.feeds
         /\ \A f \in DOMAIN slot.feeds :
              slot'.feeds[f] = IF f \in Flies(r) THEN Report ELSE slot.feeds[f]
         /\ chain' \in [Runs -> [Feeds -> ChainType]]
         /\ \A f \in Feeds :
              /\ chain'[r][f].at = 1 /\ chain'[r][f].rank = {} /\ chain'[r][f].result = "Clean"
              /\ chain'[r][f].attempted = 0
              /\ chain'[r][f].place = IF f \in Flies(r) THEN "next" ELSE "none"
         /\ \A s \in Runs, f \in Feeds : s # r => /\ chain'[s][f] = chain[s][f]
                                                 /\ marks'[s][f] = marks[s][f]
                                                 /\ since'[s][f] = since[s][f]
                                                 /\ seen'[s][f] = seen[s][f]
         /\ \A s \in Runs : s # r => lost'[s] = lost[s]
         /\ marks' \in LegSets /\ since' \in LegSets /\ seen' \in LegSets
         /\ lost' \in [Runs -> SUBSET Feeds] /\ lost'[r] = lost[r] \ Flies(r)
         /\ \A f \in Feeds :
              /\ seen'[r][f] = {}
              /\ \/ marks'[r][f] = {}
                 \/ marks'[r][f] = marks[r][f] /\ \E g \in Feeds : con[r].outcomes[g] = "Retry"
                 \/ marks'[r][f] = marks[r][f] /\ f \notin Flies(r)
              /\ IF \A g \in Feeds : con[r].outcomes[g] # "Retry"
                 THEN since'[r][f] = {} ELSE since'[r][f] = since[r][f]
         /\ UNCHANGED <<failed, observed, panics>>
<1> DEFINE flies == Flies(r)
           reopened == {f \in flies : Reopened(r, f)}
           all == \A f \in Feeds : con[r].outcomes[f] # "Retry"
           outcomes == [f \in Feeds |-> IF f \in flies THEN con[r].outcomes[f] ELSE "Halted"]
           c == [con[r] EXCEPT !.place = "flying", !.outcomes = outcomes]
           feeds == [f \in DOMAIN slot.feeds |-> IF f \in flies THEN Report ELSE slot.feeds[f]]
           unmarked == [f \in Feeds |-> IF f \in reopened THEN {} ELSE marks[r][f]]
<1>1. /\ con[r].place = "pass"
      /\ con' = [con EXCEPT ![r] = c]
      /\ marks' = [marks EXCEPT ![r] = unmarked]
      /\ slot' = [slot EXCEPT !.feeds = feeds]
      /\ chain' = [chain EXCEPT ![r] = Fresh(flies)]
      /\ seen' = [seen EXCEPT ![r] = Unmarked]
      /\ lost' = [lost EXCEPT ![r] = lost[r] \ flies]
      /\ since' = [since EXCEPT ![r] = IF all THEN Unmarked ELSE since[r]]
      /\ UNCHANGED <<failed, observed, panics>>
  <2>1. con[r].place = "pass" /\ UNCHANGED <<failed, observed, panics>>
    BY DEF OpenPass
  <2>2. con' = [con EXCEPT ![r] = c]
    BY DEF OpenPass, Flies
  <2>3. marks' = [marks EXCEPT ![r] = unmarked]
    BY DEF OpenPass, Flies
  <2>4. slot' = [slot EXCEPT !.feeds = feeds]
    BY DEF OpenPass, Flies
  <2>5. chain' = [chain EXCEPT ![r] = Fresh(flies)]
    BY DEF OpenPass, Flies, Fresh
  <2>6. seen' = [seen EXCEPT ![r] = Unmarked] /\ lost' = [lost EXCEPT ![r] = lost[r] \ flies]
    BY DEF OpenPass, Flies
  <2>7. since' = [since EXCEPT ![r] = IF all THEN Unmarked ELSE since[r]]
    BY DEF OpenPass
  <2> HIDE DEF c, unmarked, feeds, flies, all
  <2> QED
    BY <2>1, <2>2, <2>3, <2>4, <2>5, <2>6, <2>7
<1>2. Types
  OBVIOUS
<1>3. /\ con' \in [Runs -> ConType] /\ con'[r].place = "flying"
      /\ con'[r].repairing = con[r].repairing /\ con'[r].passes = con[r].passes
      /\ con'[r].clean_empty = con[r].clean_empty
      /\ con'[r].outcomes = outcomes
      /\ \A s \in Runs : s # r => con'[s] = con[s]
  <2>1. con \in [Runs -> ConType] /\ con[r] \in ConType
    BY <1>2 DEF Types
  <2>2. outcomes \in [Feeds -> Passing]
    BY <2>1 DEF ConType, Passing
  <2> HIDE DEF outcomes
  <2>3. /\ c \in ConType /\ c.place = "flying" /\ c.outcomes = outcomes
        /\ c.repairing = con[r].repairing /\ c.passes = con[r].passes
        /\ c.clean_empty = con[r].clean_empty
    BY <2>1, <2>2 DEF ConType, ConPlaces
  <2> HIDE DEF c
  <2> QED
    BY <1>1, <2>1, <2>3, ConMoves
<1>4. /\ slot' \in SlotType /\ slot'.running = slot.running /\ slot'.stopping = slot.stopping
      /\ slot'.feeds = feeds
  <2>1. slot \in SlotType /\ slot.feeds \in Reported
    BY <1>2 DEF Types, SlotType
  <2>2. feeds \in Reported
    <3>1. Report \in ReportType
      BY Beginnings
    <3> HIDE DEF Report, flies
    <3> QED
      BY <2>1, <3>1 DEF Reported
  <2> HIDE DEF feeds
  <2> QED
    BY <1>1, <2>1, <2>2 DEF SlotType
<1>5. /\ chain' \in [Runs -> [Feeds -> ChainType]]
      /\ \A f \in Feeds : chain'[r][f] = Fresh(flies)[f]
      /\ \A s \in Runs, f \in Feeds : s # r => chain'[s][f] = chain[s][f]
  <2>1. chain \in [Runs -> [Feeds -> ChainType]] /\ Fresh(flies) \in [Feeds -> ChainType]
    BY <1>2, FreshFacts DEF Types
  <2> HIDE DEF Fresh, flies
  <2> QED
    BY <1>1, <2>1
<1>6. /\ marks' \in LegSets /\ marks'[r] = unmarked
      /\ \A s \in Runs : s # r => marks'[s] = marks[s]
  <2>1. marks \in LegSets
    BY <1>2 DEF Types
  <2>2. unmarked \in [Feeds -> SUBSET Nat]
    <3> HIDE DEF reopened
    <3> QED
      BY <2>1 DEF LegSets
  <2> HIDE DEF unmarked
  <2> QED
    BY <1>1, <2>1, <2>2 DEF LegSets
<1>7. /\ since' \in LegSets /\ since'[r] = IF all THEN Unmarked ELSE since[r]
      /\ \A s \in Runs : s # r => since'[s] = since[s]
  <2>1. since \in LegSets /\ Unmarked \in [Feeds -> SUBSET Nat]
    BY <1>2, Beginnings DEF Types
  <2> HIDE DEF all, Unmarked
  <2> QED
    BY <1>1, <2>1 DEF LegSets
<1>8. /\ seen' \in LegSets /\ seen'[r] = Unmarked
      /\ \A s \in Runs : s # r => seen'[s] = seen[s]
  <2>1. seen \in LegSets /\ Unmarked \in [Feeds -> SUBSET Nat]
    BY <1>2, Beginnings DEF Types
  <2> HIDE DEF Unmarked
  <2> QED
    BY <1>1, <2>1 DEF LegSets
<1>9. /\ lost' \in [Runs -> SUBSET Feeds] /\ lost'[r] = lost[r] \ flies
      /\ \A s \in Runs : s # r => lost'[s] = lost[s]
  BY <1>1, <1>2 DEF Types
<1>10. ASSUME NEW f \in Feeds
       PROVE  /\ seen'[r][f] = {}
              /\ \/ marks'[r][f] = {}
                 \/ marks'[r][f] = marks[r][f] /\ \E g \in Feeds : con[r].outcomes[g] = "Retry"
                 \/ marks'[r][f] = marks[r][f] /\ f \notin flies
              /\ IF all THEN since'[r][f] = {} ELSE since'[r][f] = since[r][f]
  <2>1. seen'[r][f] = {}
    BY <1>8 DEF Unmarked
  <2>2. IF all THEN since'[r][f] = {} ELSE since'[r][f] = since[r][f]
    BY <1>7 DEF Unmarked
  <2>3. \/ marks'[r][f] = {}
        \/ marks'[r][f] = marks[r][f] /\ \E g \in Feeds : con[r].outcomes[g] = "Retry"
        \/ marks'[r][f] = marks[r][f] /\ f \notin flies
    <3> HIDE DEF flies
    <3> QED
      BY <1>6 DEF Reopened
  <2> QED
    BY <2>1, <2>2, <2>3
<1>11. \A f \in Feeds :
         /\ chain'[r][f].at = 1 /\ chain'[r][f].rank = {} /\ chain'[r][f].result = "Clean"
         /\ chain'[r][f].attempted = 0
         /\ chain'[r][f].place = IF f \in flies THEN "next" ELSE "none"
  <2> HIDE DEF flies
  <2> QED
    BY <1>5, FreshFacts
<1>12. \A f \in Feeds : outcomes[f] = IF f \in flies THEN con[r].outcomes[f] ELSE "Halted"
  OBVIOUS
<1>13. /\ DOMAIN feeds = DOMAIN slot.feeds
       /\ \A f \in DOMAIN slot.feeds : feeds[f] = IF f \in flies THEN Report ELSE slot.feeds[f]
  OBVIOUS
<1> HIDE DEF outcomes, feeds, unmarked, reopened, c
<1> QED
  BY <1>1, <1>3, <1>4, <1>5, <1>6, <1>7, <1>8, <1>9, <1>10, <1>11, <1>12, <1>13

LEMMA JoinMoves ==
  ASSUME Types, NEW r \in Runs, JoinPass(r)
  PROVE  /\ con' \in [Runs -> ConType] /\ con'[r].place = "judge"
         /\ con'[r].repairing = con[r].repairing /\ con'[r].passes = con[r].passes
         /\ con'[r].clean_empty = con[r].clean_empty
         /\ \A f \in Feeds : con'[r].outcomes[f] = Joined(r, f)
         /\ \A s \in Runs : s # r => con'[s] = con[s]
         /\ slot' \in SlotType /\ slot'.running = slot.running /\ slot'.stopping = slot.stopping
         /\ DOMAIN slot'.feeds = DOMAIN slot.feeds
         /\ \A f \in DOMAIN slot.feeds :
              slot'.feeds[f] = IF chain[r][f].place = "dead" THEN Autopsy(r, f) ELSE slot.feeds[f]
         /\ \A f \in DOMAIN slot.feeds :
              LET report == Autopsy(r, f)
              IN  /\ report.done = slot.feeds[f].done /\ report.finished
                  /\ report.skipped = Len(Group[f]) - (slot.feeds[f].done +
                       IF chain[r][f].attempted > slot.feeds[f].done THEN 1 ELSE 0)
         /\ chain' \in [Runs -> [Feeds -> ChainType]]
         /\ \A f \in Feeds : chain'[r][f] = Quiet
         /\ \A s \in Runs, f \in Feeds : s # r => chain'[s][f] = chain[s][f]
<1> DEFINE outcomes == [f \in Feeds |-> Joined(r, f)]
           c == [con[r] EXCEPT !.place = "judge", !.outcomes = outcomes]
           feeds == [f \in DOMAIN slot.feeds |->
                       IF chain[r][f].place = "dead" THEN Autopsy(r, f) ELSE slot.feeds[f]]
           quiet == [f \in Feeds |-> Quiet]
<1>1. /\ con' = [con EXCEPT ![r] = c]
      /\ slot' = [slot EXCEPT !.feeds = feeds]
      /\ chain' = [chain EXCEPT ![r] = quiet]
  BY DEF JoinPass
<1>2. /\ con \in [Runs -> ConType] /\ con[r] \in ConType /\ slot \in SlotType
      /\ chain \in [Runs -> [Feeds -> ChainType]] /\ slot.feeds \in Reported
  BY DEF Types, SlotType
<1>3. /\ con' \in [Runs -> ConType] /\ con'[r].place = "judge"
      /\ con'[r].repairing = con[r].repairing /\ con'[r].passes = con[r].passes
      /\ con'[r].clean_empty = con[r].clean_empty
      /\ con'[r].outcomes = outcomes
      /\ \A s \in Runs : s # r => con'[s] = con[s]
  <2>1. outcomes \in [Feeds -> Passing]
    BY <1>2 DEF Joined, ConType, ChainType, Passing
  <2> HIDE DEF outcomes
  <2>2. /\ c \in ConType /\ c.place = "judge" /\ c.outcomes = outcomes
        /\ c.repairing = con[r].repairing /\ c.passes = con[r].passes
        /\ c.clean_empty = con[r].clean_empty
    BY <1>2, <2>1 DEF ConType, ConPlaces
  <2> HIDE DEF c
  <2> QED
    BY <1>1, <1>2, <2>2, ConMoves
<1>4. ASSUME NEW f \in DOMAIN slot.feeds
      PROVE  LET report == Autopsy(r, f)
                 asked == IF chain[r][f].attempted > slot.feeds[f].done THEN 1 ELSE 0
             IN  /\ report \in ReportType
                 /\ report.done = slot.feeds[f].done /\ report.finished
                 /\ report.skipped = Len(Group[f]) - (slot.feeds[f].done + asked)
  <2> DEFINE asked == IF chain[r][f].attempted > slot.feeds[f].done THEN 1 ELSE 0
             k == Len(Group[f]) - (slot.feeds[f].done + asked)
  <2>1. f \in Feeds /\ slot.feeds[f] \in ReportType
    BY <1>2, ReportOf
  <2>2. k \in Int
    BY <2>1, GroupFacts DEF ReportType
  <2>3. Autopsy(r, f) = [slot.feeds[f] EXCEPT !.skipped = k, !.finished = TRUE]
    BY DEF Autopsy
  <2> HIDE DEF k
  <2> DEFINE report == slot.feeds[f]
             over == [report EXCEPT !.skipped = k, !.finished = TRUE]
  <2>4. over \in ReportType /\ over.done = report.done /\ over.skipped = k /\ over.finished
    <3>1. report \in ReportType
      BY <2>1
    <3> HIDE DEF report
    <3> QED
      BY <3>1, <2>2, OverReport
  <2>5. Autopsy(r, f) = over
    BY <2>3
  <2> HIDE DEF over
  <2> QED
    BY <2>4, <2>5 DEF k
<1>5. /\ slot' \in SlotType /\ slot'.running = slot.running /\ slot'.stopping = slot.stopping
      /\ slot'.feeds = feeds
  <2>1. \A f \in DOMAIN slot.feeds : Autopsy(r, f) \in ReportType /\ slot.feeds[f] \in ReportType
    BY <1>2, <1>4, ReportOf
  <2>2. feeds \in Reported
    BY <1>2, <2>1 DEF Reported
  <2> HIDE DEF feeds
  <2> QED
    BY <1>1, <1>2, <2>2 DEF SlotType
<1>6. /\ chain' \in [Runs -> [Feeds -> ChainType]]
      /\ \A f \in Feeds : chain'[r][f] = Quiet
      /\ \A s \in Runs, f \in Feeds : s # r => chain'[s][f] = chain[s][f]
  <2>1. Quiet \in ChainType
    BY Beginnings
  <2> HIDE DEF Quiet
  <2>2. quiet \in [Feeds -> ChainType] /\ \A f \in Feeds : quiet[f] = Quiet
    BY <2>1
  <2> HIDE DEF quiet
  <2> QED
    BY <1>1, <1>2, <2>2
<1> QED
  BY <1>3, <1>4, <1>5, <1>6

\* A conductor that moves on, its chains as they were.
LEMMA Onward ==
  ASSUME Types, NEW r \in Runs,
         \/ Press(r) \/ Begin(r) \/ Decide(r) \/ (OpenPass(r) /\ slot.stopping)
         \/ Judge(r) \/ Close(r) \/ DropFinisher(r) \/ ConductorPanics(r)
  PROVE  /\ con' \in [Runs -> ConType] /\ slot' \in SlotType
         /\ observed' \in [Runs -> Nat] /\ panics' \in Nat
         /\ con[r].place # "flying" /\ con'[r].place # "flying"
         /\ \A s \in Runs : s # r => con'[s] = con[s]
         /\ UNCHANGED <<chain, marks, failed, since, seen, lost>>
<1>1. /\ con \in [Runs -> ConType] /\ con[r] \in ConType /\ slot \in SlotType
      /\ observed \in [Runs -> Nat] /\ panics \in Nat
  BY DEF Types
<1>2. ASSUME NEW place \in ConPlaces
      PROVE  [con[r] EXCEPT !.place = place] \in ConType
             /\ [con[r] EXCEPT !.place = place].place = place
  BY <1>1 DEF ConType
<1>3. ASSUME NEW place \in ConPlaces, con' = [con EXCEPT ![r].place = place]
      PROVE  /\ con' \in [Runs -> ConType] /\ con'[r].place = place
             /\ \A s \in Runs : s # r => con'[s] = con[s]
  <2> DEFINE c == [con[r] EXCEPT !.place = place]
  <2>1. c \in ConType /\ c.place = place /\ con' = [con EXCEPT ![r] = c]
    BY <1>2, <1>3
  <2> HIDE DEF c
  <2> QED
    BY <1>1, <2>1, ConMoves
<1>4. ASSUME NEW running \in BOOLEAN, slot' = [slot EXCEPT !.running = running]
      PROVE  slot' \in SlotType
  BY <1>1, <1>4 DEF SlotType
<1>5. CASE Press(r)
  <2>1. con' \in [Runs -> ConType] /\ con'[r].place = "claimed"
        /\ \A s \in Runs : s # r => con'[s] = con[s]
    BY <1>3, <1>5 DEF Press, ConPlaces
  <2>2. slot' \in SlotType
    BY <1>5, Beginnings DEF Press
  <2> QED
    BY <1>1, <1>5, <2>1, <2>2 DEF Press, history
<1>6. CASE Begin(r)
  <2>1. con' \in [Runs -> ConType] /\ con'[r].place = "head"
        /\ \A s \in Runs : s # r => con'[s] = con[s]
    BY <1>3, <1>6 DEF Begin, ConPlaces
  <2>2. slot' \in SlotType
    <3>1. [f \in Feeds |-> Report] \in Reported
      BY Beginnings DEF Reported
    <3> DEFINE feeds == [f \in Feeds |-> Report]
    <3>2. slot' = [slot EXCEPT !.feeds = feeds]
      BY <1>6 DEF Begin
    <3> HIDE DEF feeds
    <3> QED
      BY <1>1, <3>1, <3>2 DEF SlotType, feeds
  <2> QED
    BY <1>1, <1>6, <2>1, <2>2 DEF Begin, history
<1>7. CASE Decide(r)
  <2> DEFINE place == IF con[r].passes < MaxPasses /\ ~slot.stopping THEN "pass" ELSE "close"
             repairing == \E f \in Feeds : con[r].outcomes[f] = "Retry"
             c == [con[r] EXCEPT !.place = place, !.repairing = repairing]
  <2>1. con' = [con EXCEPT ![r] = c]
    BY <1>1, <1>7 DEF Decide
  <2>2. place \in {"pass", "close"} /\ repairing \in BOOLEAN
    OBVIOUS
  <2> HIDE DEF place, repairing
  <2>3. c \in ConType /\ c.place = place
    BY <1>1, <2>2 DEF ConType, ConPlaces
  <2> HIDE DEF c
  <2>4. con' \in [Runs -> ConType] /\ con'[r].place = place
        /\ \A s \in Runs : s # r => con'[s] = con[s]
    BY <1>1, <2>1, <2>3, ConMoves
  <2> QED
    BY <1>1, <1>7, <2>2, <2>4 DEF Decide, history
<1>8. CASE OpenPass(r) /\ slot.stopping
  <2>1. con' \in [Runs -> ConType] /\ con'[r].place = "judge"
        /\ \A s \in Runs : s # r => con'[s] = con[s]
    BY <1>3, <1>8 DEF OpenPass, ConPlaces
  <2> QED
    BY <1>1, <1>8, <2>1 DEF OpenPass
<1>9. CASE Judge(r)
  <2>1. PICK place \in {"head", "close"}, n \in {0, con[r].clean_empty, con[r].clean_empty + 1} :
          con' = [con EXCEPT ![r].place = place, ![r].passes = @ + 1, ![r].clean_empty = n]
    BY <1>9 DEF Judge
  <2>2. PICK k \in {observed[r] + 1, 0} : observed' = [observed EXCEPT ![r] = k]
    BY <1>9 DEF Judge
  <2>3. n \in Nat /\ con[r].passes + 1 \in Nat /\ k \in Nat
    BY <1>1 DEF ConType
  <2> DEFINE c == [con[r] EXCEPT !.place = place, !.passes = @ + 1, !.clean_empty = n]
  <2>4. con' = [con EXCEPT ![r] = c]
    BY <1>1, <2>1
  <2>5. c \in ConType /\ c.place = place
    BY <1>1, <2>3 DEF ConType, ConPlaces
  <2> HIDE DEF c
  <2>6. con' \in [Runs -> ConType] /\ con'[r].place = place
        /\ \A s \in Runs : s # r => con'[s] = con[s]
    BY <1>1, <2>4, <2>5, ConMoves
  <2> QED
    BY <1>1, <1>9, <2>2, <2>3, <2>6 DEF Judge
<1>10. CASE Close(r)
  <2>1. con' \in [Runs -> ConType] /\ con'[r].place = "drop"
        /\ \A s \in Runs : s # r => con'[s] = con[s]
    BY <1>3, <1>10 DEF Close, ConPlaces
  <2>2. slot' \in SlotType
    BY <1>4, <1>10 DEF Close
  <2> QED
    BY <1>1, <1>10, <2>1, <2>2 DEF Close, history
<1>11. CASE DropFinisher(r)
  <2>1. con' \in [Runs -> ConType] /\ con'[r].place = "done"
        /\ \A s \in Runs : s # r => con'[s] = con[s]
    BY <1>3, <1>11 DEF DropFinisher, ConPlaces
  <2>2. slot' \in SlotType
    BY <1>4, <1>11 DEF DropFinisher
  <2> QED
    BY <1>1, <1>11, <2>1, <2>2 DEF DropFinisher, history
<1>12. CASE ConductorPanics(r)
  <2>1. con' \in [Runs -> ConType] /\ con'[r].place = "drop"
        /\ \A s \in Runs : s # r => con'[s] = con[s]
    BY <1>3, <1>12 DEF ConductorPanics, ConPlaces
  <2> QED
    BY <1>1, <1>12, <2>1 DEF ConductorPanics, history
<1> QED
  BY <1>5, <1>6, <1>7, <1>8, <1>9, <1>10, <1>11, <1>12

\* The steps of a conductor that leave its chains alone, and the one that spawns them.
Conducts(r) ==
  \/ Press(r) \/ Begin(r) \/ Decide(r) \/ (OpenPass(r) /\ slot.stopping)
  \/ Judge(r) \/ Close(r) \/ DropFinisher(r) \/ ConductorPanics(r)

Flown(r) == OpenPass(r) /\ ~slot.stopping

\* The steps, a pass that opens under a stop apart from one that flies.
LEMMA Steps ==
  ASSUME Next
  PROVE  \/ \E r \in Runs : Conducts(r) \/ Flown(r) \/ JoinPass(r)
         \/ Stop
         \/ \E r \in Runs, f \in Feeds : \/ EndChain(r, f) \/ PassOver(r, f) \/ Take(r, f)
                                         \/ Send(r, f) \/ Answer(r, f) \/ ChainPanics(r, f)
  BY DEF Next, Work, Panic, Conduct, Run, Conducts, Flown

LEMMA StopMoves ==
  ASSUME Types, Stop
  PROVE  /\ slot' \in SlotType /\ slot'.feeds = slot.feeds /\ slot'.stopping
         /\ UNCHANGED <<con, chain, marks, failed, since, seen, lost, observed, panics>>
<1>1. slot' = [slot EXCEPT !.stopping = TRUE] /\ slot \in SlotType
  BY DEF Types, Stop
<1>2. slot' \in SlotType /\ slot'.feeds = slot.feeds /\ slot'.stopping
  BY <1>1 DEF SlotType
<1> QED
  BY <1>2 DEF Stop, history

-----------------------------------------------------------------------------
(* The ladder.                                                             *)

Asking == {"send", "asked"}
Spot(f, i) == Group[f][i].route = "spot"

LegInv(r, f) ==
  LET c == chain[r][f]
  IN  /\ c.place # "none" => con[r].place = "flying"
      /\ c.place \in Asking =>
           /\ c.at \in DOMAIN Group[f] \ marks[r][f]
           /\ \A rank \in c.rank : Group[f][c.at].rank <= rank
      /\ c.place \in Asking \cup {"next"} =>
           \A i \in failed[r][f] : i < c.at /\ Spot(f, i) => \E rank \in c.rank : Group[f][i].rank >= rank
      /\ marks[r][f] \cap failed[r][f] = {}
      /\ since[r][f] \subseteq marks[r][f]
      /\ failed[r][f] \cup marks[r][f] \cup seen[r][f] \subseteq DOMAIN Group[f]

LadderInv == Types /\ \A r \in Runs, f \in Feeds : LegInv(r, f)

LEMMA LegFrame ==
  ASSUME NEW r \in Runs, NEW f \in Feeds, LegInv(r, f),
         con'[r].place = con[r].place \/ chain'[r][f].place = "none",
         chain'[r][f] = chain[r][f], marks'[r][f] = marks[r][f],
         failed'[r][f] = failed[r][f], since'[r][f] = since[r][f], seen'[r][f] = seen[r][f]
  PROVE  LegInv(r, f)'
<1>1. con'[r].place = "flying" \/ chain'[r][f].place = "none"
  BY DEF LegInv
<1> QED
  BY <1>1 DEF LegInv, Asking, Spot

LEMMA LadderInit == Init => LadderInv
<1> SUFFICES ASSUME Init PROVE LadderInv
  OBVIOUS
<1>1. ASSUME NEW r \in Runs, NEW f \in Feeds PROVE LegInv(r, f)
  BY DEF Init, LegInv, Quiet, Unmarked, Asking
<1> QED
  BY <1>1, TypesInit DEF LadderInv

LEMMA ConductLadder ==
  ASSUME LadderInv, NEW r \in Runs, Conducts(r)
  PROVE  LadderInv'
<1>1. Types
  BY DEF LadderInv
<1>2. /\ con' \in [Runs -> ConType] /\ slot' \in SlotType
      /\ observed' \in [Runs -> Nat] /\ panics' \in Nat
      /\ con[r].place # "flying" /\ con'[r].place # "flying"
      /\ \A s \in Runs : s # r => con'[s] = con[s]
      /\ UNCHANGED <<chain, marks, failed, since, seen, lost>>
  BY <1>1, Onward DEF Conducts
<1>3. Types'
  BY <1>1, <1>2 DEF Types
<1>4. ASSUME NEW s \in Runs, NEW f \in Feeds PROVE LegInv(s, f)'
  <2>1. LegInv(s, f)
    BY DEF LadderInv
  <2>2. s = r => chain[s][f].place = "none"
    BY <1>2, <2>1 DEF LegInv
  <2> QED
    BY <1>2, <2>1, <2>2, LegFrame
<1> QED
  BY <1>3, <1>4 DEF LadderInv

LEMMA FlyLadder ==
  ASSUME LadderInv, NEW r \in Runs, Flown(r)
  PROVE  LadderInv'
<1>1. Types /\ OpenPass(r) /\ ~slot.stopping
  BY DEF LadderInv, Flown
<1>2. /\ con' \in [Runs -> ConType] /\ con'[r].place = "flying"
      /\ \A s \in Runs : s # r => con'[s] = con[s]
      /\ slot' \in SlotType
      /\ chain' \in [Runs -> [Feeds -> ChainType]]
      /\ \A f \in Feeds : /\ chain'[r][f].at = 1 /\ chain'[r][f].rank = {}
                          /\ chain'[r][f].place \in {"next", "none"}
      /\ \A s \in Runs, f \in Feeds : s # r => /\ chain'[s][f] = chain[s][f]
                                              /\ marks'[s][f] = marks[s][f]
                                              /\ since'[s][f] = since[s][f]
                                              /\ seen'[s][f] = seen[s][f]
      /\ marks' \in LegSets /\ since' \in LegSets /\ seen' \in LegSets
      /\ lost' \in [Runs -> SUBSET Feeds]
      /\ \A f \in Feeds :
           /\ seen'[r][f] = {}
           /\ \/ marks'[r][f] = {}
              \/ marks'[r][f] = marks[r][f]
           /\ since'[r][f] = {} \/ since'[r][f] = since[r][f]
           /\ since'[r][f] # {} => marks'[r][f] = marks[r][f]
      /\ UNCHANGED <<failed, observed, panics>>
  <2>1. \A f \in Feeds : since'[r][f] # {} => marks'[r][f] = marks[r][f]
    <3> SUFFICES ASSUME NEW f \in Feeds, since'[r][f] # {}
                 PROVE  marks'[r][f] = marks[r][f]
      OBVIOUS
    <3>1. ~Reopened(r, f)
      BY <1>1, FlyMoves DEF Reopened
    <3>2. marks' = [marks EXCEPT ![r] =
            [g \in Feeds |-> IF g \in {h \in Flies(r) : Reopened(r, h)} THEN {} ELSE marks[r][g]]]
      BY <1>1 DEF OpenPass, Flies
    <3>3. marks \in LegSets
      BY <1>1 DEF Types
    <3> QED
      BY <3>1, <3>2, <3>3 DEF LegSets
  <2> QED
    BY <1>1, <2>1, FlyMoves
<1>3. Types'
  BY <1>1, <1>2 DEF Types
<1>4. ASSUME NEW s \in Runs, NEW f \in Feeds PROVE LegInv(s, f)'
  <2>1. LegInv(s, f)
    BY DEF LadderInv
  <2>2. CASE s # r
    BY <1>2, <2>1, <2>2, LegFrame
  <2>3. CASE s = r
    <3>1. /\ marks'[r][f] \subseteq marks[r][f] /\ since'[r][f] \subseteq marks'[r][f]
          /\ failed'[r][f] = failed[r][f] /\ seen'[r][f] = {}
      BY <1>2, <2>1, <2>3 DEF LegInv
    <3>2. \A i \in failed'[r][f] : i \in Nat /\ ~(i < 1)
      <4>1. failed'[r][f] \subseteq DOMAIN Group[f]
        BY <2>1, <2>3, <3>1 DEF LegInv
      <4> QED
        BY <4>1, GroupFacts
    <3>3. /\ con'[r].place = "flying" /\ chain'[r][f].at = 1
          /\ chain'[r][f].place \in {"next", "none"}
      BY <1>2
    <3> QED
      BY <2>1, <2>3, <3>1, <3>2, <3>3 DEF LegInv, Asking
  <2> QED
    BY <2>2, <2>3
<1> QED
  BY <1>3, <1>4 DEF LadderInv

LEMMA JoinLadder ==
  ASSUME LadderInv, NEW r \in Runs, JoinPass(r)
  PROVE  LadderInv'
<1>1. Types
  BY DEF LadderInv
<1>2. /\ con' \in [Runs -> ConType] /\ slot' \in SlotType
      /\ \A s \in Runs : s # r => con'[s] = con[s]
      /\ chain' \in [Runs -> [Feeds -> ChainType]]
      /\ \A f \in Feeds : chain'[r][f] = Quiet
      /\ \A s \in Runs, f \in Feeds : s # r => chain'[s][f] = chain[s][f]
  BY <1>1, JoinMoves
<1>3. UNCHANGED <<marks, failed, since, seen, lost, observed, panics>>
  BY DEF JoinPass, history
<1>4. Types'
  BY <1>1, <1>2, <1>3 DEF Types
<1>5. ASSUME NEW s \in Runs, NEW f \in Feeds PROVE LegInv(s, f)'
  <2>1. LegInv(s, f)
    BY DEF LadderInv
  <2>2. CASE s # r
    BY <1>2, <1>3, <2>1, <2>2, LegFrame
  <2>3. CASE s = r
    <3>1. chain'[r][f].place = "none"
      BY <1>2, Beginnings
    <3> QED
      BY <1>3, <2>1, <2>3, <3>1 DEF LegInv, Asking
  <2> QED
    BY <2>2, <2>3
<1> QED
  BY <1>4, <1>5 DEF LadderInv

\* A step of one chain keeps the ladder when it keeps it for that chain.
LEMMA OneChain ==
  ASSUME LadderInv, Types', NEW r \in Runs, NEW f \in Feeds, LegInv(r, f)', con' = con,
         \A s \in Runs, g \in Feeds : s # r \/ g # f =>
           /\ chain'[s][g] = chain[s][g] /\ marks'[s][g] = marks[s][g]
           /\ failed'[s][g] = failed[s][g] /\ since'[s][g] = since[s][g]
           /\ seen'[s][g] = seen[s][g]
  PROVE  LadderInv'
<1>1. ASSUME NEW s \in Runs, NEW g \in Feeds, s # r \/ g # f PROVE LegInv(s, g)'
  BY <1>1, LegFrame DEF LadderInv
<1> QED
  BY <1>1 DEF LadderInv

LEMMA EndLadder ==
  ASSUME LadderInv, NEW r \in Runs, NEW f \in Feeds, EndChain(r, f)
  PROVE  LadderInv'
<1>1. Types /\ LegInv(r, f)
  BY DEF LadderInv
<1>2. UNCHANGED <<con, marks, failed, since, seen, lost, observed, panics>>
  BY DEF EndChain, history
<1>3. /\ slot' \in SlotType /\ chain' \in [Runs -> [Feeds -> ChainType]]
      /\ chain'[r][f].place = "ended"
      /\ \A s \in Runs, g \in Feeds : s # r \/ g # f => chain'[s][g] = chain[s][g]
  BY <1>1, EndChainMoves
<1>4. con[r].place = "flying"
  BY <1>1 DEF EndChain, LegInv
<1>5. LegInv(r, f)'
  BY <1>1, <1>2, <1>3, <1>4 DEF LegInv, Asking
<1>6. Types'
  BY <1>1, <1>2, <1>3 DEF Types
<1> QED
  BY <1>2, <1>3, <1>5, <1>6, OneChain

LEMMA PassOverLadder ==
  ASSUME LadderInv, NEW r \in Runs, NEW f \in Feeds, PassOver(r, f)
  PROVE  LadderInv'
<1>1. Types /\ LegInv(r, f)
  BY DEF LadderInv
<1>2. UNCHANGED <<slot, con, marks, failed, since, seen, lost, observed, panics>>
  BY DEF PassOver, history
<1>3. /\ chain' \in [Runs -> [Feeds -> ChainType]]
      /\ chain'[r][f].place = "next" /\ chain'[r][f].at = chain[r][f].at + 1
      /\ chain'[r][f].rank = chain[r][f].rank
      /\ \A s \in Runs, g \in Feeds : s # r \/ g # f => chain'[s][g] = chain[s][g]
  BY <1>1, PassOverMoves
<1> DEFINE at == chain[r][f].at
           ranks == chain[r][f].rank
<1>4. /\ con[r].place = "flying" /\ chain[r][f].place = "next" /\ at \in 1..Len(Group[f])
      /\ at \in marks[r][f] \/ HeldBack(r, f)
  BY <1>1 DEF PassOver, Stepping, LegInv, Types, ChainType
<1>5. ASSUME NEW i \in failed[r][f], i < at + 1, Spot(f, i)
      PROVE  \E rank \in ranks : Group[f][i].rank >= rank
  <2>1. i \in Nat /\ at \in Nat
    BY <1>1, <1>4, GroupFacts DEF LegInv
  <2>2. CASE i < at
    BY <1>1, <1>4, <1>5, <2>2 DEF LegInv
  <2>3. CASE i = at
    <3>1. HeldBack(r, f)
      BY <1>1, <1>4, <2>3 DEF LegInv
    <3>2. PICK rank \in ranks : Group[f][at].route = "fno" \/ Group[f][at].rank > rank
      BY <3>1 DEF HeldBack, Here
    <3>3. Group[f][at].rank > rank
      BY <1>5, <2>3, <3>2 DEF Spot
    <3>4. rank \in 0..5
      BY <1>1, <3>2 DEF Types, ChainType, Ranks
    <3>5. Group[f][at].rank \in 0..5
      BY <1>4, GroupFacts DEF LegType, Ranks
    <3>6. Group[f][i].rank >= rank
      BY <2>3, <3>3, <3>4, <3>5
    <3> QED
      BY <3>2, <3>6
  <2> QED
    BY <1>5, <2>1, <2>2, <2>3
<1>6. LegInv(r, f)'
  BY <1>1, <1>2, <1>3, <1>4, <1>5 DEF LegInv, Asking, Spot
<1>7. Types'
  BY <1>1, <1>2, <1>3 DEF Types
<1> QED
  BY <1>2, <1>3, <1>6, <1>7, OneChain

LEMMA TakeLadder ==
  ASSUME LadderInv, NEW r \in Runs, NEW f \in Feeds, Take(r, f)
  PROVE  LadderInv'
<1>1. Types /\ LegInv(r, f)
  BY DEF LadderInv
<1>2. UNCHANGED <<slot, con, marks, failed, since, seen, lost, observed, panics>>
  BY DEF Take, history
<1>3. /\ chain' \in [Runs -> [Feeds -> ChainType]]
      /\ chain'[r][f].place = "send" /\ chain'[r][f].at = chain[r][f].at
      /\ chain'[r][f].rank = chain[r][f].rank
      /\ \A s \in Runs, g \in Feeds : s # r \/ g # f => chain'[s][g] = chain[s][g]
  BY <1>1, TakeMoves
<1> DEFINE at == chain[r][f].at
           ranks == chain[r][f].rank
<1>4. /\ con[r].place = "flying" /\ chain[r][f].place = "next" /\ at \in 1..Len(Group[f])
      /\ at \notin marks[r][f] /\ ~HeldBack(r, f)
  BY <1>1 DEF Take, Stepping, LegInv, Types, ChainType
<1>5. at \in DOMAIN Group[f]
  BY <1>4, GroupFacts
<1>6. \A rank \in ranks : Group[f][at].rank <= rank
  <2>1. \A rank \in ranks : ~(Group[f][at].rank > rank) /\ rank \in 0..5
    BY <1>1, <1>4 DEF HeldBack, Here, Types, ChainType, Ranks
  <2>2. Group[f][at].rank \in 0..5
    BY <1>5, GroupFacts DEF LegType, Ranks
  <2> QED
    BY <2>1, <2>2
<1>7. LegInv(r, f)'
  BY <1>1, <1>2, <1>3, <1>4, <1>5, <1>6 DEF LegInv, Asking, Spot
<1>8. Types'
  BY <1>1, <1>2, <1>3 DEF Types
<1> QED
  BY <1>2, <1>3, <1>7, <1>8, OneChain

LEMMA SendLadder ==
  ASSUME LadderInv, NEW r \in Runs, NEW f \in Feeds, Send(r, f)
  PROVE  LadderInv'
<1>1. Types /\ LegInv(r, f)
  BY DEF LadderInv
<1>2. UNCHANGED <<slot, con, marks, failed, since, seen, lost, observed, panics>>
  BY DEF Send, history
<1>3. /\ chain' \in [Runs -> [Feeds -> ChainType]]
      /\ chain'[r][f].place = "asked" /\ chain'[r][f].at = chain[r][f].at
      /\ chain'[r][f].rank = chain[r][f].rank
      /\ \A s \in Runs, g \in Feeds : s # r \/ g # f => chain'[s][g] = chain[s][g]
  BY <1>1, PlaceMoves DEF Send, ChainPlaces
<1>4. chain[r][f].place = "send"
  BY DEF Send
<1>5. LegInv(r, f)'
  BY <1>1, <1>2, <1>3, <1>4 DEF LegInv, Asking, Spot
<1>6. Types'
  BY <1>1, <1>2, <1>3 DEF Types
<1> QED
  BY <1>2, <1>3, <1>5, <1>6, OneChain

LEMMA PanicLadder ==
  ASSUME LadderInv, NEW r \in Runs, NEW f \in Feeds, ChainPanics(r, f)
  PROVE  LadderInv'
<1>1. Types /\ LegInv(r, f)
  BY DEF LadderInv
<1>2. /\ UNCHANGED <<slot, con, marks, failed, since, seen, observed>>
      /\ lost' \in [Runs -> SUBSET Feeds] /\ panics' \in Nat
  BY <1>1 DEF ChainPanics, Types
<1>3. /\ chain' \in [Runs -> [Feeds -> ChainType]]
      /\ chain'[r][f].place = "dead"
      /\ \A s \in Runs, g \in Feeds : s # r \/ g # f => chain'[s][g] = chain[s][g]
  BY <1>1, PlaceMoves DEF ChainPanics, ChainPlaces
<1>4. con[r].place = "flying"
  BY <1>1 DEF ChainPanics, LegInv
<1>5. LegInv(r, f)'
  BY <1>1, <1>2, <1>3, <1>4 DEF LegInv, Asking
<1>6. Types'
  BY <1>1, <1>2, <1>3 DEF Types
<1> QED
  BY <1>2, <1>3, <1>5, <1>6, OneChain

LEMMA AnswerLadder ==
  ASSUME LadderInv, NEW r \in Runs, NEW f \in Feeds, Answer(r, f)
  PROVE  LadderInv'
<1> DEFINE c == chain[r][f]
           next == chain'[r][f]
           leg == Group[f][c.at]
<1>1. Types /\ LegInv(r, f)
  BY DEF LadderInv
<1>2. UNCHANGED <<con, lost, observed, panics>> /\ c.place = "asked"
  BY DEF Answer
<1>3. c.at \in DOMAIN Group[f]
  BY <1>1, <1>2 DEF LegInv, Asking
<1>4. /\ slot' \in SlotType
      /\ chain' \in [Runs -> [Feeds -> ChainType]]
      /\ \A s \in Runs, g \in Feeds : s # r \/ g # f =>
           /\ chain'[s][g] = chain[s][g] /\ marks'[s][g] = marks[s][g]
           /\ failed'[s][g] = failed[s][g] /\ since'[s][g] = since[s][g]
           /\ seen'[s][g] = seen[s][g]
      /\ marks' \in LegSets /\ failed' \in LegSets /\ since' \in LegSets /\ seen' \in LegSets
      /\ next.place \in {"next", "break"}
      /\ next.place = "next" => next.at = c.at + 1
  BY <1>1, <1>3, AnswerMoves
<1>5. \/ /\ next.rank = c.rank
         /\ marks'[r][f] = marks[r][f] \cup {c.at} /\ failed'[r][f] = failed[r][f] \ {c.at}
         /\ since'[r][f] = since[r][f] \cup {c.at} /\ seen'[r][f] = seen[r][f] \cup {c.at}
      \/ /\ next.rank = IF leg.route = "spot" THEN {leg.rank} ELSE c.rank
         /\ marks'[r][f] = marks[r][f] /\ failed'[r][f] = failed[r][f] \cup {c.at}
         /\ since'[r][f] = since[r][f] \ {c.at} /\ seen'[r][f] = seen[r][f] \ {c.at}
  <2>1. Turned(r, f)
    BY <1>1, <1>3, AnswerMoves
  <2> QED
    BY <2>1 DEF Turned, Here
<1>6. /\ con[r].place = "flying" /\ c.at \notin marks[r][f]
      /\ \A rank \in c.rank : leg.rank <= rank /\ rank \in 0..5
      /\ \A i \in failed[r][f] : i < c.at /\ Spot(f, i) => \E rank \in c.rank : Group[f][i].rank >= rank
      /\ marks[r][f] \cap failed[r][f] = {} /\ since[r][f] \subseteq marks[r][f]
      /\ failed[r][f] \cup marks[r][f] \cup seen[r][f] \subseteq DOMAIN Group[f]
  <2>1. c.rank \subseteq 0..5
    BY <1>1 DEF Types, ChainType, Ranks
  <2>2. \A rank \in c.rank : leg.rank <= rank
    BY <1>1, <1>2 DEF LegInv, Asking
  <2> QED
    BY <1>1, <1>2, <2>1, <2>2 DEF LegInv, Asking
<1>7. /\ DOMAIN Group[f] \subseteq Nat /\ c.at \in Nat
      /\ \A i \in DOMAIN Group[f] : Group[f][i].rank \in 0..5
  BY <1>3, GroupFacts DEF LegType, Ranks
<1> HIDE DEF c, next, leg
<1>8. ASSUME NEW i \in failed'[r][f], i < c.at + 1, Spot(f, i)
      PROVE  \E rank \in next.rank : Group[f][i].rank >= rank
  <2>1. i \in DOMAIN Group[f] /\ i \in Nat /\ Group[f][i].rank \in 0..5 /\ leg.rank \in 0..5
    BY <1>3, <1>5, <1>6, <1>7 DEF leg
  <2>2. CASE i = c.at
    <3>1. next.rank = {leg.rank} /\ Group[f][i].rank = leg.rank
      BY <1>5, <1>8, <2>2 DEF leg, Spot
    <3> QED
      BY <2>1, <3>1
  <2>3. CASE i # c.at
    <3>1. i \in failed[r][f] /\ i < c.at
      BY <1>5, <1>7, <1>8, <2>1, <2>3
    <3>2. PICK rank \in c.rank : Group[f][i].rank >= rank
      BY <1>6, <1>8, <3>1
    <3>3. next.rank = c.rank \/ next.rank = {leg.rank}
      BY <1>5
    <3>4. Group[f][i].rank >= leg.rank
      BY <1>6, <2>1, <3>2
    <3> QED
      BY <3>2, <3>3, <3>4
  <2> QED
    BY <2>2, <2>3
<1>9. /\ marks'[r][f] \cap failed'[r][f] = {} /\ since'[r][f] \subseteq marks'[r][f]
      /\ failed'[r][f] \cup marks'[r][f] \cup seen'[r][f] \subseteq DOMAIN Group[f]
  BY <1>3, <1>5, <1>6
<1>10. LegInv(r, f)'
  BY <1>2, <1>4, <1>6, <1>8, <1>9 DEF LegInv, Asking, Spot, next, c
<1>11. Types'
  BY <1>1, <1>2, <1>4 DEF Types
<1> QED
  BY <1>2, <1>4, <1>10, <1>11, OneChain

LEMMA LadderStep == LadderInv /\ [Next]_vars => LadderInv'
<1> SUFFICES ASSUME LadderInv, [Next]_vars PROVE LadderInv'
  OBVIOUS
<1>1. CASE Stop
  <2>1. Types /\ Types'
    BY <1>1, StopMoves DEF LadderInv, Types
  <2>2. ASSUME NEW r \in Runs, NEW f \in Feeds PROVE LegInv(r, f)'
    BY <1>1, <2>1, StopMoves, LegFrame DEF LadderInv
  <2> QED
    BY <2>1, <2>2 DEF LadderInv
<1>2. CASE UNCHANGED vars
  BY <1>2 DEF vars, history, LadderInv, Types, LegInv, Spot
<1>3. ASSUME NEW r \in Runs, Conducts(r) \/ Flown(r) \/ JoinPass(r) PROVE LadderInv'
  BY <1>3, ConductLadder, FlyLadder, JoinLadder
<1>4. ASSUME NEW r \in Runs, NEW f \in Feeds,
             \/ EndChain(r, f) \/ PassOver(r, f) \/ Take(r, f)
             \/ Send(r, f) \/ Answer(r, f) \/ ChainPanics(r, f)
      PROVE  LadderInv'
  BY <1>4, EndLadder, PassOverLadder, TakeLadder, SendLadder, AnswerLadder, PanicLadder
<1> QED
  BY <1>1, <1>2, <1>3, <1>4, Steps

LEMMA LadderAlways == Spec => []LadderInv
  BY LadderInit, LadderStep, PTL DEF Spec

\* A leg is asked only out of the place it is taken to, and with it.
LEMMA Asked ==
  ASSUME LadderInv, [Next]_vars, NEW r \in Runs, NEW f \in Feeds, Asks(r, f)
  PROVE  LegInv(r, f) /\ chain[r][f].place = "send"
  BY DEF Asks, LadderInv

(* run_pass reopens marks only when no feed retries: as long as one does,  *)
(* no chain of any run asks again for a leg answered clean since the last  *)
(* pass of everything, however the runs overlap and whichever chain dies.  *)
THEOREM CleanLegsAreLeft == Spec => CleanLegsRest
<1>1. LadderInv /\ [Next]_vars =>
        [\A r \in Runs, f \in Feeds : Asks(r, f) => chain[r][f].at \notin since[r][f]]_vars
  <2> SUFFICES ASSUME LadderInv, [Next]_vars, NEW r \in Runs, NEW f \in Feeds, Asks(r, f)
               PROVE  chain[r][f].at \notin since[r][f]
    OBVIOUS
  <2> QED
    BY Asked DEF LegInv, Asking
<1> QED
  BY <1>1, LadderAlways, PTL DEF Spec, CleanLegsRest

(* run_chain asks for no rung over a lower spot rung of its feed whose last *)
(* answer was not clean, nor for a derivative over any spot rung below it  *)
(* that failed: by_feed sorts the legs, and the rung noted last is the lowest. *)
THEOREM TheLadderHolds == Spec => LadderHolds
<1>1. LadderInv /\ [Next]_vars =>
        [\A r \in Runs, f \in Feeds : Asks(r, f) =>
           \A i \in failed[r][f] :
             Group[f][i].route = "spot" => Group[f][i].rank >= Here(r, f).rank]_vars
  <2> SUFFICES ASSUME LadderInv, [Next]_vars, NEW r \in Runs, NEW f \in Feeds, Asks(r, f),
                      NEW i \in failed[r][f], Group[f][i].route = "spot"
               PROVE  Group[f][i].rank >= Here(r, f).rank
    OBVIOUS
  <2> DEFINE at == chain[r][f].at
  <2>1. /\ LegInv(r, f) /\ chain[r][f].place = "send" /\ at \in DOMAIN Group[f]
        /\ i \in DOMAIN Group[f] /\ chain[r][f].rank \subseteq Ranks
    BY Asked DEF LegInv, Asking, LadderInv, Types, ChainType
  <2>2. /\ Group[f][at].rank \in 0..5 /\ Group[f][i].rank \in 0..5 /\ at \in Nat /\ i \in Nat
    BY <2>1, GroupFacts DEF LegType, Ranks
  <2>3. CASE i < at
    <3>1. PICK rank \in chain[r][f].rank : Group[f][i].rank >= rank
      BY <2>1, <2>3 DEF LegInv, Asking, Spot
    <3>2. Group[f][at].rank <= rank /\ rank \in 0..5
      BY <2>1, <3>1 DEF LegInv, Asking, Ranks
    <3> QED
      BY <2>2, <3>1, <3>2 DEF Here
  <2>4. CASE at <= i
    BY <2>1, <2>2, <2>4, GroupFacts DEF Here
  <2> QED
    BY <2>2, <2>3, <2>4
<1> QED
  BY <1>1, LadderAlways, PTL DEF Spec, LadderHolds

-----------------------------------------------------------------------------
(* One conductor at a time has the slot: its report and its judgements.    *)

(* A press is let in by the slot alone, and a finisher frees the slot of   *)
(* whatever run has it by then: two runs at once would share the reports.  *)
Conducting(r) == con[r].place \notin {"new", "drop", "done"}
OneConductor == \A r, s \in Runs : Conducting(r) /\ Conducting(s) => r = s

Begun == {"head", "pass", "flying", "judge", "close"}

Adds(r, f) ==
  slot.feeds[f].finished =>
    slot.feeds[f].done + slot.feeds[f].skipped + (IF f \in lost[r] THEN 1 ELSE 0) = Len(Group[f])

Counted(r, f) ==
  LET c == chain[r][f]
  IN  /\ c.place \in {"none", "ended"} => Adds(r, f)
      /\ c.place \in Asking \cup {"next", "break", "dead"} =>
           /\ ~slot.feeds[f].finished
           /\ c.attempted = slot.feeds[f].done + IF c.place \in Asking \cup {"dead"} THEN 1 ELSE 0
           /\ f \in lost[r] <=> c.place = "dead"

CountOf(r) ==
  con[r].place \in Begun => DOMAIN slot.feeds = Feeds /\ \A f \in Feeds : Counted(r, f)

SawAll(r, f) ==
  LET c == chain[r][f]
  IN  /\ c.place = "none" => con[r].outcomes[f] = "Halted"
      /\ c.place \in Asking \cup {"next"} /\ c.result = "Clean" =>
           marks[r][f] \subseteq seen[r][f] /\ 1..c.at - 1 \subseteq seen[r][f]
      /\ c.place = "break" => c.result = "Halted"
      /\ c.place = "ended" /\ c.result = "Clean" => slot.stopping \/ seen[r][f] = DOMAIN Group[f]

EndsWell(r) ==
  \/ observed[r] >= CleanEmptyPasses
  \/ slot.stopping \/ con[r].passes = MaxPasses
  \/ \A f \in Feeds : con[r].outcomes[f] = "Halted"

IdleOf(r) ==
  LET c == con[r]
  IN  /\ c.passes <= MaxPasses
      /\ c.place \in {"pass", "flying", "judge"} => c.passes < MaxPasses
      /\ \A f \in Feeds : chain[r][f].result = "Clean" => chain[r][f].rank = {}
      /\ c.place \in {"new", "claimed", "head", "pass", "flying", "judge"} => c.clean_empty <= observed[r]
      /\ c.place = "pass" /\ ~c.repairing => \A f \in Feeds : c.outcomes[f] # "Retry"
      /\ c.place = "flying" /\ ~c.repairing => \A f \in Feeds : SawAll(r, f)
      /\ c.place = "judge" /\ ~c.repairing /\ ~slot.stopping =>
           \A f \in Feeds : c.outcomes[f] = "Retry" \/ Complete(r, f)
      /\ c.place = "close" => EndsWell(r)

RunInv == LadderInv /\ \A r \in Runs : CountOf(r) /\ IdleOf(r)

LEMMA ConEdits ==
  ASSUME Types, NEW r \in Runs, NEW place \in ConPlaces, con' = [con EXCEPT ![r].place = place]
  PROVE  /\ con'[r].place = place /\ con'[r].outcomes = con[r].outcomes
         /\ con'[r].passes = con[r].passes /\ con'[r].clean_empty = con[r].clean_empty
         /\ con'[r].repairing = con[r].repairing
         /\ \A s \in Runs : s # r => con'[s] = con[s]
<1> DEFINE c == [con[r] EXCEPT !.place = place]
<1>1. con \in [Runs -> ConType] /\ con[r] \in ConType
  BY DEF Types
<1>2. /\ c \in ConType /\ c.place = place /\ c.outcomes = con[r].outcomes
      /\ c.passes = con[r].passes /\ c.clean_empty = con[r].clean_empty
      /\ c.repairing = con[r].repairing
  BY <1>1 DEF ConType
<1>3. con' = [con EXCEPT ![r] = c]
  OBVIOUS
<1> HIDE DEF c
<1> QED
  BY <1>1, <1>2, <1>3, ConMoves

LEMMA RunInit == Init => RunInv
<1> SUFFICES ASSUME Init, NEW r \in Runs PROVE CountOf(r) /\ IdleOf(r)
  BY LadderInit DEF RunInv
<1>1. con[r] = Waiting /\ observed[r] = 0 /\ \A f \in Feeds : chain[r][f] = Quiet
  BY DEF Init
<1>2. Waiting.place = "new" /\ Waiting.passes = 0 /\ Waiting.clean_empty = 0
  BY DEF Waiting
<1>3. CountOf(r)
  BY <1>1, <1>2 DEF CountOf, Begun
<1> QED
  BY <1>1, <1>2, <1>3, Beginnings, PullRunAssumption DEF IdleOf

\* A run that nothing is done to keeps its counts and its judgements.
LEMMA CountFrame ==
  ASSUME NEW r \in Runs, CountOf(r), con'[r].place \in Begun => con[r].place \in Begun,
         DOMAIN slot'.feeds = DOMAIN slot.feeds,
         \A f \in DOMAIN slot.feeds : slot'.feeds[f] = slot.feeds[f],
         \A f \in Feeds : chain'[r][f] = chain[r][f], lost'[r] = lost[r]
  PROVE  CountOf(r)'
  BY DEF CountOf, Counted, Adds

LEMMA IdleFrame ==
  ASSUME NEW r \in Runs, IdleOf(r), con'[r] = con[r], observed'[r] = observed[r],
         \A f \in Feeds : /\ chain'[r][f] = chain[r][f] /\ marks'[r][f] = marks[r][f]
                          /\ seen'[r][f] = seen[r][f],
         slot'.stopping = slot.stopping \/ slot'.stopping = TRUE \/ ~Conducting(r)
  PROVE  IdleOf(r)'
<1>1. slot.stopping => slot'.stopping \/ ~Conducting(r)
  OBVIOUS
<1> HIDE DEF Conducting
<1>2. ASSUME NEW f \in Feeds, Conducting(r), SawAll(r, f) PROVE SawAll(r, f)'
  BY <1>1, <1>2 DEF SawAll
<1>3. ASSUME NEW f \in Feeds, Complete(r, f) PROVE Complete(r, f)'
  BY <1>3 DEF Complete
<1>4. ASSUME Conducting(r), EndsWell(r) PROVE EndsWell(r)'
  BY <1>1, <1>4 DEF EndsWell
<1> QED
  BY <1>1, <1>2, <1>3, <1>4 DEF IdleOf, Conducting

\* A run that has not the slot is indifferent to what is done to it.
LEMMA Bystander ==
  ASSUME RunInv, NEW s \in Runs, ~Conducting(s), con'[s] = con[s], observed'[s] = observed[s],
         \A f \in Feeds : /\ chain'[s][f] = chain[s][f] /\ marks'[s][f] = marks[s][f]
                          /\ seen'[s][f] = seen[s][f]
  PROVE  CountOf(s)' /\ IdleOf(s)'
<1>1. CountOf(s)'
  BY DEF CountOf, Begun, Conducting
<1>2. IdleOf(s)'
  BY IdleFrame DEF RunInv
<1> QED
  BY <1>1, <1>2

\* A conductor that moves on, its chains idle, its counts as they were.
LEMMA CountsOn ==
  ASSUME RunInv, NEW r \in Runs, con[r].place \in Begun,
         slot'.feeds = slot.feeds, \A f \in Feeds : chain'[r][f] = chain[r][f], lost'[r] = lost[r]
  PROVE  CountOf(r)'
  BY CountFrame DEF RunInv

LEMMA ConductRun ==
  ASSUME RunInv, OneConductor, OneConductor', NEW r \in Runs, Conducts(r)
  PROVE  RunInv'
<1>1. Types /\ LadderInv /\ LadderInv' /\ CountOf(r) /\ IdleOf(r)
  BY ConductLadder DEF RunInv, LadderInv
<1>2. /\ con[r].place # "flying" /\ con'[r].place # "flying"
      /\ \A s \in Runs : s # r => con'[s] = con[s]
      /\ UNCHANGED <<chain, marks, failed, since, seen, lost>>
  BY <1>1, Onward DEF Conducts
<1>3. \A f \in Feeds : chain[r][f].place = "none"
  BY <1>1, <1>2 DEF LadderInv, LegInv
<1>4. \A s \in Runs : s # r => observed'[s] = observed[s]
  BY <1>1 DEF Conducts, Press, Begin, Decide, OpenPass, Judge, Close, DropFinisher,
              ConductorPanics, history, Types
<1>5. ASSUME Conducting(r) \/ Conducting(r)', NEW s \in Runs, s # r
      PROVE  CountOf(s)' /\ IdleOf(s)'
  <2>1. ~Conducting(s)
    BY <1>2, <1>5 DEF OneConductor, Conducting
  <2> QED
    BY <1>2, <1>4, <1>5, <2>1, Bystander
<1>6. SUFFICES ASSUME ~DropFinisher(r) PROVE CountOf(r)' /\ IdleOf(r)' /\ (Conducting(r) \/ Conducting(r)')
  <2>1. ASSUME DropFinisher(r), NEW s \in Runs PROVE CountOf(s)' /\ IdleOf(s)'
    <3>1. /\ con' = [con EXCEPT ![r].place = "done"] /\ observed' = observed
          /\ slot' = [slot EXCEPT !.running = FALSE]
      BY <2>1 DEF DropFinisher, history
    <3>2. slot'.feeds = slot.feeds /\ slot'.stopping = slot.stopping
      BY <1>1, <3>1 DEF Types, SlotType
    <3>3. /\ con'[r].place = "done" /\ con'[r].passes = con[r].passes
      BY <1>1, <3>1, ConEdits DEF ConPlaces
    <3>4. CASE s = r
      BY <1>1, <1>2, <3>3, <3>4 DEF CountOf, IdleOf, Begun
    <3>5. CASE s # r
      <4>1. CountOf(s) /\ IdleOf(s)
        BY DEF RunInv
      <4>2. CountOf(s)'
        BY <1>2, <3>2, <3>5, <4>1, CountFrame
      <4> QED
        BY <1>2, <3>1, <3>2, <3>5, <4>1, <4>2, IdleFrame
    <3> QED
      BY <3>4, <3>5
  <2> QED
    BY <1>1, <1>5, <2>1 DEF RunInv
<1>7. /\ con[r].passes \in Nat /\ con[r].clean_empty \in Nat /\ observed[r] \in Nat
      /\ MaxPasses \in Nat /\ CleanEmptyPasses \in Nat
  BY <1>1, PullRunAssumption DEF Types, ConType
<1>8. CASE Press(r)
  <2>1. con' = [con EXCEPT ![r].place = "claimed"] /\ con[r].place = "new" /\ observed' = observed
    BY <1>8 DEF Press, history
  <2>2. /\ con'[r].place = "claimed" /\ con'[r].passes = con[r].passes
        /\ con'[r].clean_empty = con[r].clean_empty
    BY <1>1, <2>1, ConEdits DEF ConPlaces
  <2>3. CountOf(r)' /\ Conducting(r)'
    BY <2>2 DEF CountOf, Begun, Conducting
  <2> QED
    BY <1>1, <1>2, <2>1, <2>2, <2>3 DEF IdleOf
<1>9. CASE Begin(r)
  <2>1. /\ con' = [con EXCEPT ![r].place = "head"] /\ con[r].place = "claimed" /\ observed' = observed
        /\ slot' = [slot EXCEPT !.feeds = [f \in Feeds |-> Report]]
    BY <1>9 DEF Begin, history
  <2>2. /\ con'[r].place = "head" /\ con'[r].passes = con[r].passes
        /\ con'[r].clean_empty = con[r].clean_empty
    BY <1>1, <2>1, ConEdits DEF ConPlaces
  <2>3. DOMAIN slot'.feeds = Feeds /\ \A f \in Feeds : ~slot'.feeds[f].finished
    BY <1>1, <2>1 DEF Types, SlotType, Report
  <2>4. CountOf(r)'
    BY <1>2, <1>3, <2>3 DEF CountOf, Counted, Adds, Asking
  <2> QED
    BY <1>1, <1>2, <2>1, <2>2, <2>4 DEF IdleOf, Conducting
<1>10. CASE Decide(r)
  <2> DEFINE goes == con[r].passes < MaxPasses /\ ~slot.stopping
             repairing == \E f \in Feeds : con[r].outcomes[f] = "Retry"
             place == IF goes THEN "pass" ELSE "close"
             c == [con[r] EXCEPT !.place = place, !.repairing = repairing]
  <2>1. con' = [con EXCEPT ![r] = c] /\ con[r].place = "head" /\ UNCHANGED <<slot, observed>>
    BY <1>1, <1>10 DEF Decide, history, Types
  <2>2. /\ c.place = place /\ c.repairing = repairing /\ c.passes = con[r].passes
        /\ c.clean_empty = con[r].clean_empty /\ c.outcomes = con[r].outcomes
    BY <1>1 DEF Types, ConType
  <2>3. con'[r] = c
    BY <1>1, <2>1 DEF Types
  <2> HIDE DEF c
  <2>4. CountOf(r)'
    BY <1>2, <2>1, CountsOn DEF Begun
  <2>5. goes \/ slot.stopping \/ con[r].passes = MaxPasses
    BY <1>1, <1>7 DEF IdleOf
  <2> QED
    BY <1>1, <1>2, <2>1, <2>2, <2>3, <2>4, <2>5 DEF IdleOf, Conducting, EndsWell
<1>11. CASE OpenPass(r) /\ slot.stopping
  <2>1. con' = [con EXCEPT ![r].place = "judge"] /\ con[r].place = "pass" /\ UNCHANGED <<slot, observed>>
    BY <1>11 DEF OpenPass
  <2>2. /\ con'[r].place = "judge" /\ con'[r].passes = con[r].passes
        /\ con'[r].clean_empty = con[r].clean_empty
    BY <1>1, <2>1, ConEdits DEF ConPlaces
  <2>3. CountOf(r)'
    BY <1>2, <2>1, CountsOn DEF Begun
  <2> QED
    BY <1>1, <1>2, <1>11, <2>1, <2>2, <2>3 DEF IdleOf, Conducting
<1>12. CASE Judge(r)
  <2> DEFINE old == con[r]
             over == slot.stopping \/ \A f \in Feeds : old.outcomes[f] = "Halted"
             retrying == \E f \in Feeds : old.outcomes[f] = "Retry"
             complete == \A f \in Feeds : Complete(r, f)
  <2>1. old.place = "judge" /\ UNCHANGED slot
    BY <1>12 DEF Judge
  <2>2. PICK grew \in BOOLEAN, place \in {"head", "close"}, n \in {0, old.clean_empty, old.clean_empty + 1} :
          /\ con' = [con EXCEPT ![r].place = place, ![r].passes = @ + 1, ![r].clean_empty = n]
          /\ \/ over /\ place = "close"
             \/ ~over /\ place = "head" /\ n = 0
             \/ /\ ~over /\ ~grew /\ ~retrying /\ ~old.repairing
                /\ n = old.clean_empty + 1
                /\ place = IF old.clean_empty + 1 >= CleanEmptyPasses THEN "close" ELSE "head"
          /\ observed' = [observed EXCEPT ![r] = IF ~grew /\ complete THEN @ + 1 ELSE 0]
    BY <1>12 DEF Judge
  <2> DEFINE c == [old EXCEPT !.place = place, !.passes = @ + 1, !.clean_empty = n]
  <2>3. con'[r] = c /\ c.place = place /\ c.passes = old.passes + 1 /\ c.clean_empty = n
        /\ c.outcomes = old.outcomes
    BY <1>1, <2>2 DEF Types, ConType
  <2>4. observed'[r] = IF ~grew /\ complete THEN observed[r] + 1 ELSE 0
    BY <1>1, <2>2 DEF Types
  <2> HIDE DEF c
  <2>5. old.passes + 1 <= MaxPasses /\ old.clean_empty <= observed[r]
    BY <1>1, <1>7, <2>1 DEF IdleOf
  <2>6. CountOf(r)'
    BY <1>2, <2>1, CountsOn DEF Begun
  <2>7. ~over /\ ~retrying /\ ~old.repairing => complete
    BY <1>1, <2>1 DEF IdleOf
  <2>8. place = "head" => n <= observed'[r]
    BY <1>7, <2>2, <2>4, <2>5, <2>7
  <2>9. place = "close" => over \/ observed'[r] >= CleanEmptyPasses
    BY <1>7, <2>2, <2>4, <2>5, <2>7
  <2>10. place = "close" => EndsWell(r)'
    BY <2>1, <2>3, <2>9 DEF EndsWell
  <2> QED
    BY <1>1, <1>2, <2>1, <2>2, <2>3, <2>5, <2>6, <2>8, <2>10 DEF IdleOf, Conducting
<1>13. CASE Close(r)
  <2>1. con' = [con EXCEPT ![r].place = "drop"] /\ con[r].place = "close"
    BY <1>13 DEF Close
  <2>2. con'[r].place = "drop" /\ con'[r].passes = con[r].passes
    BY <1>1, <2>1, ConEdits DEF ConPlaces
  <2> QED
    BY <1>1, <1>2, <2>1, <2>2 DEF CountOf, IdleOf, Begun, Conducting
<1>14. CASE ConductorPanics(r)
  <2>1. con' = [con EXCEPT ![r].place = "drop"] /\ con[r].place \in {"claimed", "pass", "judge", "close"}
    BY <1>14 DEF ConductorPanics
  <2>2. con'[r].place = "drop" /\ con'[r].passes = con[r].passes
    BY <1>1, <2>1, ConEdits DEF ConPlaces
  <2> QED
    BY <1>1, <1>2, <2>1, <2>2 DEF CountOf, IdleOf, Begun, Conducting
<1> QED
  BY <1>6, <1>8, <1>9, <1>10, <1>11, <1>12, <1>13, <1>14 DEF Conducts

LEMMA FlyRun ==
  ASSUME RunInv, OneConductor, NEW r \in Runs, Flown(r)
  PROVE  RunInv'
<1>1. Types /\ LadderInv /\ LadderInv' /\ CountOf(r) /\ IdleOf(r)
  BY FlyLadder DEF RunInv, LadderInv
<1>2. OpenPass(r) /\ ~slot.stopping
  BY DEF Flown
<1>3. /\ con[r].place = "pass" /\ con'[r].place = "flying"
      /\ con'[r].repairing = con[r].repairing /\ con'[r].passes = con[r].passes
      /\ con'[r].clean_empty = con[r].clean_empty
      /\ \A f \in Feeds : con'[r].outcomes[f] =
           IF f \in Flies(r) THEN con[r].outcomes[f] ELSE "Halted"
      /\ \A s \in Runs : s # r => con'[s] = con[s]
      /\ UNCHANGED <<failed, observed, panics>>
  BY <1>1, <1>2, FlyMoves
<1>4. /\ DOMAIN slot'.feeds = DOMAIN slot.feeds
      /\ \A f \in DOMAIN slot.feeds :
           slot'.feeds[f] = IF f \in Flies(r) THEN Report ELSE slot.feeds[f]
      /\ lost'[r] = lost[r] \ Flies(r)
  BY <1>1, <1>2, FlyMoves
<1>5. /\ \A f \in Feeds :
           /\ chain'[r][f].at = 1 /\ chain'[r][f].rank = {} /\ chain'[r][f].result = "Clean"
           /\ chain'[r][f].attempted = 0
           /\ chain'[r][f].place = IF f \in Flies(r) THEN "next" ELSE "none"
           /\ \/ marks'[r][f] = {}
              \/ \E g \in Feeds : con[r].outcomes[g] = "Retry"
              \/ f \notin Flies(r)
      /\ \A s \in Runs, f \in Feeds : s # r => /\ chain'[s][f] = chain[s][f]
                                              /\ marks'[s][f] = marks[s][f]
                                              /\ seen'[s][f] = seen[s][f]
  BY <1>1, <1>2, FlyMoves
<1>6. ASSUME NEW s \in Runs, s # r PROVE CountOf(s)' /\ IdleOf(s)'
  <2>1. ~Conducting(s)
    BY <1>3, <1>6 DEF OneConductor, Conducting
  <2> QED
    BY <1>3, <1>5, <1>6, <2>1, Bystander
<1>7. CountOf(r)'
  <2>1. DOMAIN slot.feeds = Feeds /\ \A f \in Feeds : Counted(r, f)
    BY <1>1, <1>3 DEF CountOf, Begun
  <2>2. ASSUME NEW f \in Feeds PROVE Counted(r, f)'
    <3>1. CASE f \in Flies(r)
      <4>1. Report.done = 0 /\ ~Report.finished
        BY DEF Report
      <4> QED
        BY <1>4, <1>5, <2>1, <3>1, <4>1 DEF Counted, Asking
    <3>2. CASE f \notin Flies(r)
      <4>1. chain[r][f].place = "none"
        BY <1>1, <1>3 DEF LadderInv, LegInv
      <4>2. Adds(r, f) /\ chain'[r][f].place = "none"
        BY <1>5, <2>1, <3>2, <4>1 DEF Counted
      <4>3. slot'.feeds[f] = slot.feeds[f] /\ (f \in lost'[r] <=> f \in lost[r])
        BY <1>4, <2>1, <3>2
      <4> QED
        BY <4>2, <4>3 DEF Counted, Adds, Asking
    <3> QED
      BY <3>1, <3>2
  <2> QED
    BY <1>4, <2>1, <2>2 DEF CountOf
<1>8. IdleOf(r)'
  <2>1. ASSUME ~con[r].repairing, NEW f \in Feeds PROVE SawAll(r, f)'
    <3>1. marks'[r][f] = {} \/ f \notin Flies(r)
      BY <1>1, <1>3, <1>5, <2>1 DEF IdleOf
    <3>2. 1..chain'[r][f].at - 1 = {}
      BY <1>5
    <3>3. CASE f \in Flies(r)
      BY <1>5, <3>1, <3>2, <3>3 DEF SawAll, Asking
    <3>4. CASE f \notin Flies(r)
      BY <1>3, <1>5, <3>4 DEF SawAll, Asking
    <3> QED
      BY <3>3, <3>4
  <2> QED
    BY <1>1, <1>3, <1>5, <2>1 DEF IdleOf
<1> QED
  BY <1>1, <1>6, <1>7, <1>8 DEF RunInv

LEMMA JoinRun ==
  ASSUME RunInv, OneConductor, NEW r \in Runs, JoinPass(r)
  PROVE  RunInv'
<1>1. Types /\ LadderInv /\ LadderInv' /\ CountOf(r) /\ IdleOf(r)
  BY JoinLadder DEF RunInv, LadderInv
<1>2. /\ con[r].place = "flying"
      /\ \A f \in Feeds : chain[r][f].place \in {"none", "ended", "dead"}
      /\ UNCHANGED <<marks, failed, since, seen, lost, observed, panics>>
  BY DEF JoinPass, history
<1>3. /\ con'[r].place = "judge"
      /\ con'[r].repairing = con[r].repairing /\ con'[r].passes = con[r].passes
      /\ con'[r].clean_empty = con[r].clean_empty
      /\ \A f \in Feeds : con'[r].outcomes[f] = Joined(r, f)
      /\ \A s \in Runs : s # r => con'[s] = con[s]
      /\ slot'.stopping = slot.stopping
      /\ \A f \in Feeds : chain'[r][f] = Quiet
      /\ \A s \in Runs, f \in Feeds : s # r => chain'[s][f] = chain[s][f]
  BY <1>1, JoinMoves
<1>4. /\ DOMAIN slot'.feeds = DOMAIN slot.feeds
      /\ \A f \in DOMAIN slot.feeds :
           slot'.feeds[f] = IF chain[r][f].place = "dead" THEN Autopsy(r, f) ELSE slot.feeds[f]
      /\ \A f \in DOMAIN slot.feeds :
           LET report == Autopsy(r, f)
           IN  /\ report.done = slot.feeds[f].done /\ report.finished
               /\ report.skipped = Len(Group[f]) - (slot.feeds[f].done +
                    IF chain[r][f].attempted > slot.feeds[f].done THEN 1 ELSE 0)
  BY <1>1, JoinMoves
<1>5. ASSUME NEW s \in Runs, s # r PROVE CountOf(s)' /\ IdleOf(s)'
  <2>1. ~Conducting(s)
    BY <1>2, <1>5 DEF OneConductor, Conducting
  <2> QED
    BY <1>2, <1>3, <1>5, <2>1, Bystander
<1>6. Quiet.place = "none" /\ Quiet.result = "Clean" /\ Quiet.rank = {}
  BY DEF Quiet
<1>7. CountOf(r)'
  <2>1. DOMAIN slot.feeds = Feeds /\ \A f \in Feeds : Counted(r, f)
    BY <1>1, <1>2 DEF CountOf, Begun
  <2>2. ASSUME NEW f \in Feeds PROVE Adds(r, f)'
    <3>1. CASE chain[r][f].place = "dead"
      <4> DEFINE done == slot.feeds[f].done
                 k == Len(Group[f])
      <4>1. done \in Nat /\ k \in Nat
        <5>1. slot.feeds[f] \in ReportType
          BY <1>1, <2>1, ReportOf DEF Types
        <5> QED
          BY <5>1, GroupFacts DEF ReportType
      <4>2. chain[r][f].attempted = done + 1 /\ f \in lost[r]
        BY <2>1, <3>1 DEF Counted, Asking
      <4>3. Autopsy(r, f).done = done /\ Autopsy(r, f).skipped = k - (done + 1)
        BY <1>4, <2>1, <4>1, <4>2
      <4>4. slot'.feeds[f] = Autopsy(r, f) /\ f \in lost'[r]
        BY <1>2, <1>4, <2>1, <3>1, <4>2
      <4> HIDE DEF done, k
      <4>5. slot'.feeds[f].done + slot'.feeds[f].skipped + 1 = k
        BY <4>1, <4>3, <4>4
      <4> QED
        BY <4>4, <4>5 DEF Adds, k
    <3>2. CASE chain[r][f].place # "dead"
      <4>1. Adds(r, f)
        BY <1>2, <2>1, <3>2 DEF Counted
      <4>2. slot'.feeds[f] = slot.feeds[f] /\ lost'[r] = lost[r]
        BY <1>2, <1>4, <2>1, <3>2
      <4> QED
        BY <4>1, <4>2 DEF Adds
    <3> QED
      BY <3>1, <3>2
  <2>3. ASSUME NEW f \in Feeds PROVE Counted(r, f)'
    BY <1>3, <1>6, <2>2 DEF Counted, Asking
  <2> QED
    BY <1>4, <2>1, <2>3 DEF CountOf
<1>8. IdleOf(r)'
  <2>1. ASSUME ~con[r].repairing, ~slot.stopping, NEW f \in Feeds
        PROVE  con'[r].outcomes[f] = "Retry" \/ Complete(r, f)'
    <3>1. SawAll(r, f)
      BY <1>1, <1>2, <2>1 DEF IdleOf
    <3>2. chain[r][f].result \in Passing
      BY <1>1 DEF Types, ChainType
    <3>3. CASE chain[r][f].place = "ended"
      BY <1>2, <1>3, <2>1, <3>1, <3>2, <3>3 DEF SawAll, Joined, Complete, Passing
    <3>4. CASE chain[r][f].place = "dead"
      BY <1>3, <3>4 DEF Joined
    <3>5. CASE chain[r][f].place = "none"
      BY <1>3, <3>1, <3>5 DEF SawAll, Joined, Complete
    <3> QED
      BY <1>2, <3>3, <3>4, <3>5
  <2> QED
    BY <1>1, <1>2, <1>3, <1>6, <2>1 DEF IdleOf
<1> QED
  BY <1>1, <1>5, <1>7, <1>8 DEF RunInv

\* A step of one chain keeps the counts and the judgements of its run, when it keeps
\* them for that chain, and those of every other run.
LEMMA OneCount ==
  ASSUME RunInv, LadderInv', OneConductor, NEW r \in Runs, NEW f \in Feeds,
         con[r].place = "flying", con' = con, observed' = observed,
         slot'.stopping = slot.stopping, DOMAIN slot'.feeds = DOMAIN slot.feeds,
         \A g \in DOMAIN slot.feeds : g # f => slot'.feeds[g] = slot.feeds[g],
         \A g \in Feeds : g # f => (g \in lost'[r] <=> g \in lost[r]),
         \A s \in Runs, g \in Feeds : s # r \/ g # f =>
           /\ chain'[s][g] = chain[s][g] /\ marks'[s][g] = marks[s][g]
           /\ seen'[s][g] = seen[s][g],
         chain'[r][f].result = "Clean" => chain'[r][f].rank = {},
         Counted(r, f)', SawAll(r, f) => SawAll(r, f)'
  PROVE  RunInv'
<1>1. CountOf(r) /\ IdleOf(r)
  BY DEF RunInv
<1>2. ASSUME NEW s \in Runs, s # r PROVE CountOf(s)' /\ IdleOf(s)'
  <2>1. ~Conducting(s)
    BY <1>2 DEF OneConductor, Conducting
  <2> QED
    BY <1>2, <2>1, Bystander
<1>3. CountOf(r)'
  <2>1. DOMAIN slot.feeds = Feeds /\ \A g \in Feeds : Counted(r, g)
    BY <1>1 DEF CountOf, Begun
  <2>2. ASSUME NEW g \in Feeds, g # f PROVE Counted(r, g)'
    <3>1. /\ chain'[r][g] = chain[r][g] /\ slot'.feeds[g] = slot.feeds[g]
          /\ g \in lost'[r] <=> g \in lost[r]
      BY <2>1, <2>2
    <3> QED
      BY <2>1, <3>1 DEF Counted, Adds
  <2> QED
    BY <2>1, <2>2 DEF CountOf
<1>4. IdleOf(r)'
  <2>1. ASSUME NEW g \in Feeds, SawAll(r, g) PROVE SawAll(r, g)'
    <3>1. CASE g # f
      BY <2>1, <3>1 DEF SawAll
    <3> QED
      BY <2>1, <3>1
  <2>2. \A g \in Feeds : chain'[r][g].result = "Clean" => chain'[r][g].rank = {}
    BY <1>1 DEF IdleOf
  <2> QED
    BY <1>1, <2>1, <2>2 DEF IdleOf
<1> QED
  BY <1>2, <1>3, <1>4 DEF RunInv

\* What a chain in flight rests on.
LEMMA InFlight ==
  ASSUME RunInv, NEW r \in Runs, NEW f \in Feeds, chain[r][f].place # "none"
  PROVE  /\ Types /\ LadderInv /\ LegInv(r, f) /\ con[r].place = "flying"
         /\ DOMAIN slot.feeds = Feeds /\ Counted(r, f)
         /\ slot.feeds[f].done \in Nat /\ Len(Group[f]) \in Nat /\ DOMAIN Group[f] = 1..Len(Group[f])
         /\ chain[r][f].at \in Nat /\ chain[r][f].attempted \in Nat
         /\ chain[r][f].result = "Clean" => chain[r][f].rank = {}
<1>1. LegInv(r, f) /\ CountOf(r) /\ IdleOf(r) /\ Types /\ LadderInv
  BY DEF RunInv, LadderInv
<1>2. con[r].place = "flying"
  BY <1>1 DEF LegInv
<1>3. DOMAIN slot.feeds = Feeds /\ Counted(r, f)
  BY <1>1, <1>2 DEF CountOf, Begun
<1>4. slot.feeds[f].done \in Nat
  <2>1. slot.feeds[f] \in ReportType
    BY <1>1, <1>3, ReportOf DEF Types
  <2> QED
    BY <2>1 DEF ReportType
<1> QED
  BY <1>1, <1>2, <1>3, <1>4, GroupFacts DEF IdleOf, Types, ChainType

LEMMA EndRun ==
  ASSUME RunInv, OneConductor, NEW r \in Runs, NEW f \in Feeds, EndChain(r, f)
  PROVE  RunInv'
<1> DEFINE c == chain[r][f]
           k == Len(Group[f])
<1>1. c.place \in {"next", "break"} /\ (c.place = "next" => c.at > k \/ slot.stopping)
  BY DEF EndChain
<1>2. /\ Types /\ LadderInv /\ LegInv(r, f) /\ con[r].place = "flying"
      /\ DOMAIN slot.feeds = Feeds /\ Counted(r, f)
      /\ slot.feeds[f].done \in Nat /\ k \in Nat /\ DOMAIN Group[f] = 1..k /\ c.at \in Nat
      /\ c.result = "Clean" => c.rank = {}
  BY <1>1, InFlight
<1>3. UNCHANGED <<con, marks, failed, since, seen, lost, observed, panics>>
  BY DEF EndChain, history
<1>4. /\ slot'.stopping = slot.stopping /\ DOMAIN slot'.feeds = DOMAIN slot.feeds
      /\ slot'.feeds[f].done = slot.feeds[f].done /\ slot'.feeds[f].finished
      /\ slot'.feeds[f].skipped = k - slot.feeds[f].done
      /\ \A g \in DOMAIN slot.feeds : g # f => slot'.feeds[g] = slot.feeds[g]
      /\ chain'[r][f].place = "ended" /\ chain'[r][f].result = c.result
      /\ chain'[r][f].rank = c.rank
      /\ \A s \in Runs, g \in Feeds : s # r \/ g # f => chain'[s][g] = chain[s][g]
  BY <1>2, EndChainMoves
<1>5. Counted(r, f)'
  <2>1. f \notin lost[r]
    BY <1>1, <1>2 DEF Counted, Asking
  <2>2. slot'.feeds[f].done + slot'.feeds[f].skipped + 0 = k
    BY <1>2, <1>4
  <2>3. Adds(r, f)'
    BY <1>3, <2>1, <2>2 DEF Adds
  <2> QED
    BY <1>4, <2>3 DEF Counted, Asking
<1>6. SawAll(r, f) => SawAll(r, f)'
  <2> SUFFICES ASSUME SawAll(r, f), c.result = "Clean", ~slot.stopping
               PROVE  seen[r][f] = DOMAIN Group[f]
    BY <1>3, <1>4 DEF SawAll, Asking
  <2>1. c.place = "next" /\ c.at > k
    BY <1>1 DEF SawAll
  <2>2. 1..c.at - 1 \subseteq seen[r][f] /\ seen[r][f] \subseteq 1..k
    BY <1>2, <2>1 DEF SawAll, LegInv
  <2>3. 1..k \subseteq 1..c.at - 1
    BY <1>2, <2>1
  <2> QED
    BY <1>2, <2>2, <2>3
<1> QED
  BY <1>2, <1>3, <1>4, <1>5, <1>6, EndLadder, OneCount

LEMMA PassOverRun ==
  ASSUME RunInv, OneConductor, NEW r \in Runs, NEW f \in Feeds, PassOver(r, f)
  PROVE  RunInv'
<1> DEFINE c == chain[r][f]
<1>1. c.place = "next" /\ (c.at \in marks[r][f] \/ HeldBack(r, f))
  BY DEF PassOver, Stepping
<1>2. /\ Types /\ LadderInv /\ con[r].place = "flying" /\ Counted(r, f) /\ c.at \in Nat
      /\ c.result = "Clean" => c.rank = {}
  BY <1>1, InFlight
<1>3. UNCHANGED <<slot, con, marks, failed, since, seen, lost, observed, panics>>
  BY DEF PassOver, history
<1>4. /\ chain'[r][f].place = "next" /\ chain'[r][f].at = c.at + 1
      /\ chain'[r][f].rank = c.rank /\ chain'[r][f].result = c.result
      /\ chain'[r][f].attempted = c.attempted
      /\ \A s \in Runs, g \in Feeds : s # r \/ g # f => chain'[s][g] = chain[s][g]
  BY <1>2, PassOverMoves
<1>5. Counted(r, f)'
  BY <1>1, <1>2, <1>3, <1>4 DEF Counted, Asking
<1>6. SawAll(r, f) => SawAll(r, f)'
  <2> SUFFICES ASSUME SawAll(r, f), c.result = "Clean"
               PROVE  marks[r][f] \subseteq seen[r][f] /\ 1..(c.at + 1) - 1 \subseteq seen[r][f]
    BY <1>3, <1>4 DEF SawAll, Asking
  <2>1. marks[r][f] \subseteq seen[r][f] /\ 1..c.at - 1 \subseteq seen[r][f]
    BY <1>1 DEF SawAll
  <2>2. c.at \in marks[r][f]
    BY <1>1, <1>2 DEF HeldBack
  <2>3. 1..(c.at + 1) - 1 \subseteq (1..c.at - 1) \cup {c.at}
    BY <1>2
  <2> QED
    BY <2>1, <2>2, <2>3
<1> QED
  BY <1>2, <1>3, <1>4, <1>5, <1>6, PassOverLadder, OneCount

LEMMA TakeRun ==
  ASSUME RunInv, OneConductor, NEW r \in Runs, NEW f \in Feeds, Take(r, f)
  PROVE  RunInv'
<1> DEFINE c == chain[r][f]
<1>1. c.place = "next"
  BY DEF Take, Stepping
<1>2. /\ Types /\ LadderInv /\ con[r].place = "flying" /\ Counted(r, f)
      /\ slot.feeds[f].done \in Nat
      /\ c.result = "Clean" => c.rank = {}
  BY <1>1, InFlight
<1>3. UNCHANGED <<slot, con, marks, failed, since, seen, lost, observed, panics>>
  BY DEF Take, history
<1>4. /\ chain'[r][f].place = "send" /\ chain'[r][f].at = c.at
      /\ chain'[r][f].rank = c.rank /\ chain'[r][f].result = c.result
      /\ chain'[r][f].attempted = c.attempted + 1
      /\ \A s \in Runs, g \in Feeds : s # r \/ g # f => chain'[s][g] = chain[s][g]
  BY <1>2, TakeMoves
<1>5. Counted(r, f)'
  BY <1>1, <1>2, <1>3, <1>4 DEF Counted, Asking
<1>6. SawAll(r, f) => SawAll(r, f)'
  BY <1>1, <1>3, <1>4 DEF SawAll, Asking
<1> QED
  BY <1>2, <1>3, <1>4, <1>5, <1>6, TakeLadder, OneCount

LEMMA SendRun ==
  ASSUME RunInv, OneConductor, NEW r \in Runs, NEW f \in Feeds, Send(r, f)
  PROVE  RunInv'
<1> DEFINE c == chain[r][f]
<1>1. c.place = "send"
  BY DEF Send
<1>2. /\ Types /\ LadderInv /\ con[r].place = "flying" /\ Counted(r, f)
      /\ c.result = "Clean" => c.rank = {}
  BY <1>1, InFlight
<1>3. UNCHANGED <<slot, con, marks, failed, since, seen, lost, observed, panics>>
  BY DEF Send, history
<1>4. /\ chain'[r][f].place = "asked" /\ chain'[r][f].at = c.at
      /\ chain'[r][f].rank = c.rank /\ chain'[r][f].result = c.result
      /\ chain'[r][f].attempted = c.attempted
      /\ \A s \in Runs, g \in Feeds : s # r \/ g # f => chain'[s][g] = chain[s][g]
  BY <1>2, PlaceMoves DEF Send, ChainPlaces
<1>5. Counted(r, f)'
  BY <1>1, <1>2, <1>3, <1>4 DEF Counted, Asking
<1>6. SawAll(r, f) => SawAll(r, f)'
  BY <1>1, <1>3, <1>4 DEF SawAll, Asking
<1> QED
  BY <1>2, <1>3, <1>4, <1>5, <1>6, SendLadder, OneCount

LEMMA PanicRun ==
  ASSUME RunInv, OneConductor, NEW r \in Runs, NEW f \in Feeds, ChainPanics(r, f)
  PROVE  RunInv'
<1> DEFINE c == chain[r][f]
<1>1. c.place = "asked"
  BY DEF ChainPanics
<1>2. /\ Types /\ LadderInv /\ con[r].place = "flying" /\ Counted(r, f)
      /\ c.result = "Clean" => c.rank = {}
  BY <1>1, InFlight
<1>3. /\ UNCHANGED <<slot, con, marks, failed, since, seen, observed>>
      /\ lost' = [lost EXCEPT ![r] = @ \cup {f}] /\ lost \in [Runs -> SUBSET Feeds]
  BY <1>2 DEF ChainPanics, Types
<1>4. /\ chain'[r][f].place = "dead" /\ chain'[r][f].rank = c.rank
      /\ chain'[r][f].result = c.result /\ chain'[r][f].attempted = c.attempted
      /\ \A s \in Runs, g \in Feeds : s # r \/ g # f => chain'[s][g] = chain[s][g]
  BY <1>2, PlaceMoves DEF ChainPanics, ChainPlaces
<1>5. f \in lost'[r] /\ \A g \in Feeds : g # f => (g \in lost'[r] <=> g \in lost[r])
  BY <1>3
<1>6. Counted(r, f)'
  BY <1>1, <1>2, <1>3, <1>4, <1>5 DEF Counted, Asking
<1>7. SawAll(r, f) => SawAll(r, f)'
  BY <1>4 DEF SawAll, Asking
<1> QED
  BY <1>2, <1>3, <1>4, <1>5, <1>6, <1>7, PanicLadder, OneCount

LEMMA AnswerRun ==
  ASSUME RunInv, OneConductor, NEW r \in Runs, NEW f \in Feeds, Answer(r, f)
  PROVE  RunInv'
<1> DEFINE c == chain[r][f]
           next == chain'[r][f]
<1>1. c.place = "asked" /\ UNCHANGED <<con, lost, observed, panics>>
  BY DEF Answer
<1>2. /\ Types /\ LadderInv /\ LegInv(r, f) /\ con[r].place = "flying" /\ Counted(r, f)
      /\ DOMAIN slot.feeds = Feeds /\ slot.feeds[f].done \in Nat /\ c.at \in Nat
      /\ c.result = "Clean" => c.rank = {}
  BY <1>1, InFlight
<1>3. c.at \in DOMAIN Group[f]
  BY <1>1, <1>2 DEF LegInv, Asking
<1>4. /\ slot'.stopping = slot.stopping /\ DOMAIN slot'.feeds = DOMAIN slot.feeds
      /\ slot'.feeds[f].done = slot.feeds[f].done + 1
      /\ slot'.feeds[f].finished = slot.feeds[f].finished
      /\ \A g \in DOMAIN slot.feeds : g # f => slot'.feeds[g] = slot.feeds[g]
      /\ \A s \in Runs, g \in Feeds : s # r \/ g # f =>
           /\ chain'[s][g] = chain[s][g] /\ marks'[s][g] = marks[s][g]
           /\ seen'[s][g] = seen[s][g]
      /\ next.attempted = c.attempted
      /\ next.place \in {"next", "break"}
      /\ next.place = "next" => next.at = c.at + 1
      /\ next.place = "break" => next.result = "Halted"
      /\ Turned(r, f)
  BY <1>2, <1>3, AnswerMoves
<1>5. Counted(r, f)'
  BY <1>1, <1>2, <1>4 DEF Counted, Asking
<1>6. SawAll(r, f) => SawAll(r, f)'
  <2> SUFFICES ASSUME SawAll(r, f), next.place = "next", next.result = "Clean"
               PROVE  marks'[r][f] \subseteq seen'[r][f] /\ 1..next.at - 1 \subseteq seen'[r][f]
    BY <1>4 DEF SawAll, Asking
  <2>1. /\ next.result = c.result /\ marks'[r][f] = marks[r][f] \cup {c.at}
        /\ seen'[r][f] = seen[r][f] \cup {c.at}
    BY <1>4 DEF Turned
  <2>2. marks[r][f] \subseteq seen[r][f] /\ 1..c.at - 1 \subseteq seen[r][f]
    BY <1>1, <2>1 DEF SawAll, Asking
  <2>3. 1..next.at - 1 \subseteq (1..c.at - 1) \cup {c.at}
    BY <1>2, <1>4
  <2> QED
    BY <2>1, <2>2, <2>3
<1>7. next.result = "Clean" => next.rank = {}
  BY <1>2, <1>4 DEF Turned
<1> QED
  BY <1>1, <1>2, <1>4, <1>5, <1>6, <1>7, AnswerLadder, OneCount

LEMMA StopRun ==
  ASSUME RunInv, Stop PROVE RunInv'
<1>1. Types /\ LadderInv
  BY DEF RunInv, LadderInv
<1>2. /\ slot'.feeds = slot.feeds /\ slot'.stopping
      /\ UNCHANGED <<con, chain, marks, failed, since, seen, lost, observed, panics>>
  BY <1>1, StopMoves
<1>3. LadderInv'
  <2>1. Next
    BY DEF Next
  <2> QED
    BY <1>1, <2>1, LadderStep
<1>4. ASSUME NEW r \in Runs PROVE CountOf(r)' /\ IdleOf(r)'
  <2>1. CountOf(r) /\ IdleOf(r)
    BY DEF RunInv
  <2>2. slot'.stopping = TRUE
    BY DEF Stop, RunInv
  <2>3. CountOf(r)'
    BY <1>2, <2>1, CountFrame
  <2> QED
    BY <1>2, <2>1, <2>2, <2>3, IdleFrame
<1> QED
  BY <1>3, <1>4 DEF RunInv

LEMMA RunStep == RunInv /\ OneConductor /\ OneConductor' /\ [Next]_vars => RunInv'
<1> SUFFICES ASSUME RunInv, OneConductor, OneConductor', [Next]_vars PROVE RunInv'
  OBVIOUS
<1>1. CASE UNCHANGED vars
  <2>1. LadderInv'
    BY LadderStep DEF RunInv
  <2> QED
    BY <1>1, <2>1 DEF vars, history, RunInv, CountOf, IdleOf, Counted, Adds, SawAll, Complete, EndsWell
<1>2. CASE Stop
  BY <1>2, StopRun
<1>3. ASSUME NEW r \in Runs, Conducts(r) \/ Flown(r) \/ JoinPass(r) PROVE RunInv'
  BY <1>3, ConductRun, FlyRun, JoinRun
<1>4. ASSUME NEW r \in Runs, NEW f \in Feeds,
             \/ EndChain(r, f) \/ PassOver(r, f) \/ Take(r, f)
             \/ Send(r, f) \/ Answer(r, f) \/ ChainPanics(r, f)
      PROVE  RunInv'
  BY <1>4, EndRun, PassOverRun, TakeRun, SendRun, AnswerRun, PanicRun
<1> QED
  BY <1>1, <1>2, <1>3, <1>4, Steps

LEMMA RunAlways == Spec /\ []OneConductor => []RunInv
<1>1. RunInv /\ OneConductor /\ OneConductor' /\ [Next]_vars => RunInv'
  BY RunStep
<1> QED
  BY <1>1, RunInit, PTL DEF Spec

(* While one conductor at a time has the slot, a finished report accounts  *)
(* for every leg of its feed: note_dead_chain misses exactly the leg whose *)
(* request panicked.                                                       *)
THEOREM ReportsAddUp == Spec /\ []OneConductor => []LegsAddUp
<1>1. RunInv => LegsAddUp
  <2> SUFFICES ASSUME RunInv, NEW r \in Runs, con[r].place = "judge", NEW f \in DOMAIN slot.feeds
               PROVE  Adds(r, f)
    BY DEF LegsAddUp, Adds
  <2>1. CountOf(r) /\ LadderInv
    BY DEF RunInv
  <2>2. f \in Feeds /\ Counted(r, f)
    BY <2>1 DEF CountOf, Begun
  <2>3. chain[r][f].place = "none"
    BY <2>1, <2>2 DEF LadderInv, LegInv
  <2> QED
    BY <2>2, <2>3 DEF Counted
<1> QED
  BY <1>1, RunAlways, PTL

(* While one conductor at a time has the slot, conduct_with ends of itself *)
(* only after so many passes in a row that saw every leg of every feed still *)
(* in the run answered clean and the store no larger.                      *)
THEOREM RunsEndIdle == Spec /\ []OneConductor => []IdleIsObserved
<1>1. RunInv => IdleIsObserved
  BY DEF RunInv, IdleOf, EndsWell, IdleIsObserved
<1> QED
  BY <1>1, RunAlways, PTL

\* A conductor without the slot was robbed of it by a run that is over.
Robbed == \A r \in Runs :
  Conducting(r) => slot.running \/ \E s \in Runs : s # r /\ con[s].place = "done"

LEMMA Alone ==
  ASSUME Types, Robbed, OneConductor, [Next]_vars,
         \A p, q, s \in Runs : p = q \/ q = s \/ p = s
  PROVE  Robbed' /\ OneConductor'
<1>1. CASE \E r \in Runs : Conducts(r)
  <2> PICK r \in Runs : Conducts(r)
    BY <1>1
  <2>1. /\ \A s \in Runs : s # r => con'[s] = con[s]
        /\ con[r].place # "done"
    BY Onward DEF Conducts, Press, Begin, Decide, OpenPass, Judge, Close, DropFinisher, ConductorPanics
  <2>2. CASE Press(r)
    <3>1. ASSUME NEW s \in Runs, s # r PROVE ~Conducting(s)
      BY <2>2, <3>1 DEF Press, Robbed
    <3>2. slot'.running
      BY <2>2, Beginnings DEF Press
    <3> QED
      BY <2>1, <3>1, <3>2 DEF Robbed, OneConductor, Conducting
  <2>3. CASE Begin(r) \/ Decide(r) \/ (OpenPass(r) /\ slot.stopping) \/ Judge(r)
    <3>1. slot'.running = slot.running /\ Conducting(r)
      BY <2>3 DEF Begin, Decide, OpenPass, Judge, Conducting, Types, SlotType
    <3> QED
      BY <2>1, <3>1 DEF Robbed, OneConductor, Conducting
  <2>4. CASE Close(r) \/ ConductorPanics(r)
    <3>1. con' = [con EXCEPT ![r].place = "drop"] /\ Conducting(r)
      BY <2>4 DEF Close, ConductorPanics, Conducting
    <3>2. con'[r].place = "drop"
      BY <3>1, ConEdits DEF ConPlaces
    <3>3. \A s \in Runs : ~Conducting(s)'
      BY <2>1, <3>1, <3>2 DEF OneConductor, Conducting
    <3> QED
      BY <3>3 DEF Robbed, OneConductor
  <2>5. CASE DropFinisher(r)
    <3>1. con' = [con EXCEPT ![r].place = "done"]
      BY <2>5 DEF DropFinisher
    <3>2. con'[r].place = "done"
      BY <3>1, ConEdits DEF ConPlaces
    <3> QED
      BY <2>1, <3>2 DEF Robbed, OneConductor, Conducting
  <2> QED
    BY <2>2, <2>3, <2>4, <2>5 DEF Conducts
<1>2. CASE \E r \in Runs : Flown(r) \/ JoinPass(r)
  <2> PICK r \in Runs : Flown(r) \/ JoinPass(r)
    BY <1>2
  <2>1. /\ \A s \in Runs : s # r => con'[s] = con[s]
        /\ slot'.running = slot.running /\ con'[r].place # "done" /\ Conducting(r)
    BY FlyMoves, JoinMoves DEF Flown, JoinPass, Conducting
  <2> QED
    BY <2>1 DEF Robbed, OneConductor, Conducting
<1>3. CASE Stop
  <2>1. slot'.running = slot.running /\ con' = con
    BY <1>3 DEF Stop, Types, SlotType
  <2> QED
    BY <2>1 DEF Robbed, OneConductor, Conducting
<1>4. ASSUME NEW r \in Runs, NEW f \in Feeds,
             \/ EndChain(r, f) \/ PassOver(r, f) \/ Take(r, f)
             \/ Send(r, f) \/ Answer(r, f) \/ ChainPanics(r, f)
      PROVE  Robbed' /\ OneConductor'
  <2>1. con' = con
    BY <1>4 DEF EndChain, PassOver, Take, Send, Answer, ChainPanics
  <2>2. slot'.running = slot.running
    BY <1>4 DEF EndChain, PassOver, Take, Send, Answer, ChainPanics, Edit, Types, SlotType
  <2> QED
    BY <2>1, <2>2 DEF Robbed, OneConductor, Conducting
<1>5. CASE UNCHANGED vars
  BY <1>5 DEF vars, history, Robbed, OneConductor, Conducting
<1> QED
  BY <1>1, <1>2, <1>3, <1>4, <1>5, Steps

(* With at most two presses one conductor at a time has the slot: it takes *)
(* a third to press while the finisher of the first frees the slot under   *)
(* the second.                                                             *)
THEOREM TwoPressesOneConductor ==
  ASSUME \A p, q, s \in Runs : p = q \/ q = s \/ p = s
  PROVE  Spec => []OneConductor
<1>1. Init => Robbed /\ OneConductor
  BY Beginnings DEF Init, Robbed, OneConductor, Conducting
<1>2. LadderInv /\ Robbed /\ OneConductor /\ [Next]_vars => Robbed' /\ OneConductor'
  BY Alone DEF LadderInv
<1> QED
  BY <1>1, <1>2, LadderAlways, PTL DEF Spec
=============================================================================
