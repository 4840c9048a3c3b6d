------------------------------ MODULE Log_proofs ------------------------------
(***************************************************************************)
(* What the event log and its reader promise, for any number of files,     *)
(* lines, events, deaths and failures, and any queries and clocks.         *)
(***************************************************************************)
EXTENDS Log, TLAPS, WellFoundedInduction, FiniteSetTheorems, SequenceTheorems

-----------------------------------------------------------------------------
(* Highest and least members, and counting a set of positions from above.  *)

LEMMA LeastNumber ==
    ASSUME NEW T, T \subseteq Nat, T # {}
    PROVE  \E x \in T : \A y \in T : x <= y
<1>1. IsWellFoundedOn(OpToRel(<, Nat), Nat)
  BY NatLessThanWellFounded
<1>2. PICK x \in T : \A y \in T : << y, x >> \notin OpToRel(<, Nat)
  BY <1>1, WFMin
<1>3. ASSUME NEW y \in T PROVE x <= y
  <2>1. ~(y < x)
    BY <1>2 DEF OpToRel
  <2> QED
    BY <2>1
<1> QED
  BY <1>3

LEMMA MaxIs ==
    ASSUME NEW k \in Nat, NEW S \in SUBSET (0 .. k), S # {}
    PROVE  Max(S) \in S /\ \A j \in S : j <= Max(S)
<1> DEFINE T == {k - i : i \in S}
<1>1. T \subseteq Nat /\ T # {}
  <2>1. \A i \in S : k - i \in Nat
    OBVIOUS
  <2> QED
    BY <2>1
<1> HIDE DEF T
<1>2. PICK x \in T : \A y \in T : x <= y
  BY <1>1, LeastNumber
<1>3. PICK i \in S : x = k - i
  BY DEF T
<1>4. ASSUME NEW j \in S PROVE i >= j
  <2>1. k - j \in T
    BY DEF T
  <2> QED
    BY <1>2, <1>3, <2>1
<1> QED
  BY <1>4 DEF Max

LEMMA MinIs ==
    ASSUME NEW S, S \subseteq Nat, S # {}
    PROVE  Min(S) \in S /\ \A j \in S : Min(S) <= j
  BY LeastNumber DEF Min

\* The place of a position, counted from the highest.
Rank(S, i) == Cardinality({j \in S : j >= i})

LEMMA SomePositions ==
    ASSUME NEW k \in Nat, NEW S \in SUBSET (1 .. k)
    PROVE  IsFiniteSet(S) /\ Cardinality(S) \in Nat /\ \A i \in S : i \in Nat /\ i <= k
<1>1. IsFiniteSet(1 .. k)
  BY FS_Interval
<1>2. IsFiniteSet(S)
  BY <1>1, FS_Subset
<1> QED
  BY <1>2, FS_CardinalityType

LEMMA RankBound ==
    ASSUME NEW k \in Nat, NEW S \in SUBSET (1 .. k), NEW i \in S
    PROVE  /\ IsFiniteSet(S) /\ Cardinality(S) \in Nat
           /\ Rank(S, i) \in 1 .. Cardinality(S)
<1>1. IsFiniteSet(S) /\ Cardinality(S) \in Nat
  BY SomePositions
<1> DEFINE R == {j \in S : j >= i}
<1>2. /\ R \in SUBSET S /\ IsFiniteSet(R) /\ Cardinality(R) <= Cardinality(S)
      /\ Cardinality(R) \in Nat /\ R # {}
  <2>1. R \in SUBSET S /\ i \in R
    BY SomePositions
  <2> QED
    BY <1>1, <2>1, FS_Subset, FS_CardinalityType
<1>3. Cardinality(R) # 0
  BY <1>2, FS_EmptySet
<1> QED
  BY <1>1, <1>2, <1>3 DEF Rank

LEMMA RankFalls ==
    ASSUME NEW k \in Nat, NEW S \in SUBSET (1 .. k), NEW i \in S, NEW j \in S, i < j
    PROVE  Rank(S, j) < Rank(S, i)
<1> DEFINE A == {m \in S : m >= i}
           B == {m \in S : m >= j}
<1>0. i \in Nat /\ j \in Nat /\ \A m \in S : m \in Nat
  BY SomePositions
<1>1. B \in SUBSET A /\ i \in A /\ i \notin B
  <2>1. \A m \in S : m >= j => m >= i
    BY <1>0
  <2>2. i >= i /\ ~(i >= j)
    BY <1>0
  <2> QED
    BY <2>1, <2>2
<1>2. IsFiniteSet(A)
  <2>1. A \in SUBSET S /\ IsFiniteSet(S)
    BY SomePositions
  <2> QED
    BY <2>1, FS_Subset
<1>3. /\ Rank(S, i) \in 1 .. Cardinality(S) /\ Rank(S, j) \in 1 .. Cardinality(S)
      /\ Cardinality(S) \in Nat
  BY RankBound
<1> HIDE DEF A, B
<1>4. Cardinality(B) <= Cardinality(A) /\ (Cardinality(B) = Cardinality(A) => B = A)
  BY <1>1, <1>2, FS_Subset
<1> QED
  BY <1>1, <1>3, <1>4 DEF A, B, Rank

LEMMA SomeRanked ==
    ASSUME NEW k \in Nat, NEW S \in SUBSET (1 .. k), NEW n \in 1 .. Cardinality(S)
    PROVE  \E i \in S : Rank(S, i) = n
<1> DEFINE c == Cardinality(S)
           places == (1 .. c) \ {n}
           count == [i \in S |-> Rank(S, i)]
<1>1. c \in Nat /\ IsFiniteSet(S)
  BY SomePositions
<1> SUFFICES ASSUME \A i \in S : Rank(S, i) # n PROVE FALSE
  OBVIOUS
<1>2. count \in [S -> places]
  BY RankBound
<1>3. IsFiniteSet(places) /\ Cardinality(places) < c
  <2>1. n \in 1 .. c
    OBVIOUS
  <2> HIDE DEF c
  <2>2. IsFiniteSet(1 .. c) /\ Cardinality(1 .. c) = c
    BY <1>1, FS_Interval
  <2>3. IsFiniteSet((1 .. c) \ {n}) /\ Cardinality((1 .. c) \ {n}) = c - 1
    BY <2>1, <2>2, FS_RemoveElement
  <2> QED
    BY <1>1, <2>3
<1> HIDE DEF places, count
<1>4. PICK i \in S, j \in S : i # j /\ count[i] = count[j]
  BY <1>1, <1>2, <1>3, FS_PigeonHole DEF places
<1>5. Rank(S, i) = Rank(S, j) /\ Rank(S, i) \in Nat /\ Rank(S, j) \in Nat
  <2>1. Rank(S, i) = Rank(S, j)
    BY <1>4 DEF count
  <2>2. Rank(S, i) \in 1 .. Cardinality(S)
    BY <1>4, RankBound
  <2> QED
    BY <1>1, <2>1, <2>2
<1>6. i < j \/ j < i
  BY <1>4, SomePositions
<1> QED
  BY <1>4, <1>5, <1>6, RankFalls

-----------------------------------------------------------------------------
(* Types.                                                                  *)

EventType == [id : Nat, seq : Nat, at : Nat]
LineType == [event : EventType, good : BOOLEAN, ended : BOOLEAN]
FilesType == Seq(Seq(LineType))
SinkType == [pc : {"off", "idle", "remove", "shift", "move", "reopen", "append", "end"},
             ino : Nat, size : Nat, seq : Nat, last : Nat, broken : BOOLEAN, n : Nat,
             event : EventType]
ReaderType == [pc : {"idle", "walk", "done"}, query : Queries \cup {Idle.query}, k : Nat,
               read : SUBSET Nat, out : Seq(EventType), first : BOOLEAN, finished : BOOLEAN,
               reached : BOOLEAN, errors : BOOLEAN, capped : BOOLEAN,
               from : Nat, life : Nat, rolls : Nat]

Types ==
  /\ names \in [Paths -> Nat]
  /\ files \in FilesType
  /\ sink \in SinkType
  /\ reader \in ReaderType
  /\ reader.pc # "idle" => reader.query \in Queries
  /\ reader.pc = "walk" => reader.k \in Paths
  /\ emitted \in Nat /\ kills \in Nat /\ faults \in Nat
  /\ fused \in Nat /\ unended \in Nat /\ born \in Nat

LEMMA PathFacts ==
  /\ Paths \in SUBSET Nat /\ 0 \in Paths /\ 1 \in Paths /\ Keep - 1 \in Paths
  /\ Keep \in Nat /\ Keep > 1 /\ \A k \in Paths : k \in Nat /\ k < Keep
  BY LogAssumption DEF Paths

LEMMA FilesFacts ==
    ASSUME NEW f \in FilesType
    PROVE  /\ Len(f) \in Nat /\ DOMAIN f = 1 .. Len(f)
           /\ \A n \in 1 .. Len(f) :
                 /\ f[n] \in Seq(LineType) /\ Len(f[n]) \in Nat /\ DOMAIN f[n] = 1 .. Len(f[n])
                 /\ (f[n] = << >>) = (Len(f[n]) = 0)
                 /\ \A i \in 1 .. Len(f[n]) : f[n][i] \in LineType
<1>1. Len(f) \in Nat /\ DOMAIN f = 1 .. Len(f) /\ \A n \in 1 .. Len(f) : f[n] \in Seq(LineType)
  BY DEF FilesType
<1>2. \A l \in Seq(LineType) : /\ Len(l) \in Nat /\ DOMAIN l = 1 .. Len(l)
                                /\ (l = << >>) = (Len(l) = 0)
                                /\ \A i \in 1 .. Len(l) : l[i] \in LineType
  <2> TAKE l \in Seq(LineType)
  <2>1. Len(l) \in Nat /\ DOMAIN l = 1 .. Len(l) /\ \A i \in 1 .. Len(l) : l[i] \in LineType
    OBVIOUS
  <2>2. (l = << >>) = (Len(l) = 0)
    BY EmptySeq
  <2> QED
    BY <2>1, <2>2
<1> QED
  BY <1>1, <1>2

\* g is f but for the file n.
Elsewhere(f, g, n) == Len(g) = Len(f) /\ \A m \in 1 .. Len(f) : m # n => g[m] = f[m]

LEMMA OneFile ==
    ASSUME NEW f \in FilesType, NEW n \in 1 .. Len(f), NEW l \in Seq(LineType)
    PROVE  /\ [f EXCEPT ![n] = l] \in FilesType
           /\ Elsewhere(f, [f EXCEPT ![n] = l], n)
           /\ [f EXCEPT ![n] = l][n] = l
  BY ExceptSeq DEF FilesType, Elsewhere

\* What an append makes of a file.
Extends(f, g, n, line) ==
  /\ Elsewhere(f, g, n)
  /\ IF f[n] # << >> /\ ~f[n][Len(f[n])].ended
     THEN /\ Len(g[n]) = Len(f[n])
          /\ \A i \in 1 .. Len(f[n]) - 1 : g[n][i] = f[n][i]
          /\ g[n][Len(f[n])] = Line(Junk, FALSE, line.ended)
     ELSE /\ Len(g[n]) = Len(f[n]) + 1
          /\ \A i \in 1 .. Len(f[n]) : g[n][i] = f[n][i]
          /\ g[n][Len(f[n]) + 1] = line

LEMMA JunkType ==
    /\ Junk \in EventType
    /\ \A e \in EventType, good, ended \in BOOLEAN :
         /\ Line(e, good, ended) \in LineType
         /\ Line(e, good, ended).event = e /\ Line(e, good, ended).good = good
         /\ Line(e, good, ended).ended = ended
  BY DEF Junk, EventType, Line, LineType

LEMMA AppendedIs ==
    ASSUME files \in FilesType, NEW n \in 1 .. Len(files), NEW line \in LineType
    PROVE  /\ Appended(n, line) \in FilesType
           /\ Extends(files, Appended(n, line), n, line)
<1> DEFINE l == files[n]
<1>1. l \in Seq(LineType) /\ Len(l) \in Nat /\ (l = << >>) = (Len(l) = 0)
  BY FilesFacts
<1>2. CASE Joins(n)
  <2> DEFINE junk == Line(Junk, FALSE, line.ended)
             new == Append(Front(l), junk)
  <2>1. junk \in LineType
    BY JunkType DEF LineType
  <2>2. l # << >> /\ ~l[Len(l)].ended /\ Len(l) > 0
    BY <1>1, <1>2 DEF Joins, Last
  <2>3. Front(l) \in Seq(LineType) /\ Len(Front(l)) = Len(l) - 1
        /\ \A i \in 1 .. Len(l) - 1 : Front(l)[i] = l[i]
    BY <1>1, <2>2 DEF Front
  <2>4. /\ new \in Seq(LineType) /\ Len(new) = Len(l)
        /\ \A i \in 1 .. Len(l) - 1 : new[i] = l[i]
        /\ new[Len(l)] = junk
    <3> HIDE DEF junk
    <3>1. /\ new \in Seq(LineType) /\ Len(new) = Len(Front(l)) + 1
          /\ \A i \in 1 .. Len(Front(l)) : new[i] = Front(l)[i]
          /\ new[Len(Front(l)) + 1] = junk
      BY <2>1, <2>3, AppendProperties
    <3> QED
      BY <1>1, <2>3, <3>1
  <2>5. Appended(n, line) = [files EXCEPT ![n] = new]
    BY <1>2 DEF Appended
  <2> HIDE DEF new, junk
  <2>6. /\ [files EXCEPT ![n] = new] \in FilesType
        /\ Elsewhere(files, [files EXCEPT ![n] = new], n)
        /\ [files EXCEPT ![n] = new][n] = new
    BY <2>4, OneFile
  <2> QED
    BY <2>2, <2>4, <2>5, <2>6 DEF Extends, junk
<1>3. CASE ~Joins(n)
  <2> DEFINE new == Append(l, line)
  <2>1. ~(l # << >> /\ ~l[Len(l)].ended)
    BY <1>3 DEF Joins, Last
  <2>2. /\ new \in Seq(LineType) /\ Len(new) = Len(l) + 1
        /\ \A i \in 1 .. Len(l) : new[i] = l[i]
        /\ new[Len(l) + 1] = line
    BY <1>1, AppendProperties
  <2>3. Appended(n, line) = [files EXCEPT ![n] = new]
    BY <1>3 DEF Appended
  <2> HIDE DEF new
  <2>4. /\ [files EXCEPT ![n] = new] \in FilesType
        /\ Elsewhere(files, [files EXCEPT ![n] = new], n)
        /\ [files EXCEPT ![n] = new][n] = new
    BY <2>2, OneFile
  <2> QED
    BY <2>1, <2>2, <2>3, <2>4 DEF Extends
<1> QED
  BY <1>2, <1>3

\* What a newline makes of a file.
Closes(f, g, n) ==
  /\ Elsewhere(f, g, n)
  /\ Len(g[n]) = Len(f[n])
  /\ \A i \in 1 .. Len(f[n]) :
       /\ g[n][i].event = f[n][i].event /\ g[n][i].good = f[n][i].good
       /\ i < Len(f[n]) => g[n][i] = f[n][i]
  /\ Len(g[n]) > 0 => g[n][Len(g[n])].ended

LEMMA EndedIs ==
    ASSUME files \in FilesType, NEW n \in 1 .. Len(files)
    PROVE  Ended(n) \in FilesType /\ Closes(files, Ended(n), n)
<1> DEFINE l == files[n]
<1>1. l \in Seq(LineType) /\ Len(l) \in Nat /\ (l = << >>) = (Len(l) = 0)
      /\ \A i \in 1 .. Len(l) : l[i] \in LineType
  BY FilesFacts
<1>2. CASE Joins(n)
  <2> DEFINE line == [l[Len(l)] EXCEPT !.ended = TRUE]
             new == [l EXCEPT ![Len(l)] = line]
  <2>1. Len(l) \in 1 .. Len(l)
    BY <1>1, <1>2 DEF Joins
  <2>2. /\ line \in LineType /\ line.ended
        /\ line.event = l[Len(l)].event /\ line.good = l[Len(l)].good
    BY <1>1, <2>1 DEF LineType
  <2>3. Ended(n) = [files EXCEPT ![n] = new]
    BY <1>2 DEF Ended
  <2> HIDE DEF line
  <2>4. /\ new \in Seq(LineType) /\ Len(new) = Len(l)
        /\ \A i \in 1 .. Len(l) : new[i] = IF i = Len(l) THEN line ELSE l[i]
    BY <1>1, <2>1, <2>2, ExceptSeq
  <2> HIDE DEF new
  <2>5. /\ [files EXCEPT ![n] = new] \in FilesType
        /\ Elsewhere(files, [files EXCEPT ![n] = new], n)
        /\ [files EXCEPT ![n] = new][n] = new
    BY <2>4, OneFile
  <2> QED
    BY <1>1, <2>1, <2>2, <2>3, <2>4, <2>5 DEF Closes
<1>3. CASE ~Joins(n)
  BY <1>1, <1>3 DEF Ended, Closes, Elsewhere, Joins, Last
<1> QED
  BY <1>2, <1>3

\* What a removal makes of one.
LEMMA FreedIs ==
    ASSUME files \in FilesType, names \in [Paths -> Nat], NEW k \in Paths,
           names[k] \in 0 .. Len(files)
    PROVE  /\ Freed(k) \in FilesType
           /\ Elsewhere(files, Freed(k), names[k])
           /\ names[k] # NoFile => Freed(k)[names[k]] = << >>
           /\ names[k] = NoFile => Freed(k) = files
<1>1. CASE names[k] = NoFile
  BY <1>1 DEF Freed, Elsewhere
<1>2. CASE names[k] # NoFile
  <2>1. names[k] \in 1 .. Len(files) /\ Freed(k) = [files EXCEPT ![names[k]] = << >>]
    BY <1>2, FilesFacts DEF Freed, NoFile
  <2>2. << >> \in Seq(LineType)
    OBVIOUS
  <2>3. \A n \in 1 .. Len(files) : /\ [files EXCEPT ![n] = << >>] \in FilesType
                                    /\ Elsewhere(files, [files EXCEPT ![n] = << >>], n)
                                    /\ [files EXCEPT ![n] = << >>][n] = << >>
    BY <2>2, OneFile
  <2> QED
    BY <1>2, <2>1, <2>3
<1> QED
  BY <1>1, <1>2

\* The files once the file at the current path is opened.
LEMMA OpenedIs ==
    ASSUME files \in FilesType, names \in [Paths -> Nat], names[0] \in {NoFile, Len(files)}
    PROVE  /\ Opened(0) \in FilesType /\ AtPath(0) = Len(Opened(0)) /\ Len(Opened(0)) \in Nat
           /\ Len(Opened(0)) > 0 /\ \A m \in 1 .. Len(files) : Opened(0)[m] = files[m]
           /\ names[0] # NoFile => Opened(0) = files
           /\ names[0] = NoFile =>
                Len(Opened(0)) = Len(files) + 1 /\ Opened(0)[Len(files) + 1] = << >>
<1>1. Len(files) \in Nat
  BY FilesFacts
<1>2. << >> \in Seq(LineType)
  OBVIOUS
<1>3. /\ Append(files, << >>) \in FilesType
      /\ Len(Append(files, << >>)) = Len(files) + 1
      /\ \A m \in 1 .. Len(files) : Append(files, << >>)[m] = files[m]
      /\ Append(files, << >>)[Len(files) + 1] = << >>
  BY <1>2, AppendProperties DEF FilesType
<1> QED
  BY <1>1, <1>3 DEF Opened, AtPath, NoFile

-----------------------------------------------------------------------------
(* take_line: what a walk through one file takes.                          *)

Shown(lines, newest, cut) ==
  {i \in 1 .. Len(lines) : i > cut /\ ~(newest /\ i = Len(lines) /\ ~lines[i].ended)}
OldOnes(lines, newest, cut) ==
  {i \in Shown(lines, newest, cut) : lines[i].good /\ lines[i].event.at < reader.query.since}
Wanted(lines, newest, cut) ==
  {i \in Shown(lines, newest, cut) : lines[i].good /\ ~(lines[i].event.at < reader.query.since)}
Taken(lines, newest, cut) ==
  {i \in Wanted(lines, newest, cut) : i >= Walked(lines, newest, cut).stop}

\* A sequence gives the events of lines of a set, the last of them first.
Backwards(events, lines, S) ==
  /\ events \in Seq(EventType) /\ Len(events) = Cardinality(S)
  /\ \A n \in 1 .. Len(events) : \E i \in S : events[n] = lines[i].event
  /\ \A i \in S : \E n \in 1 .. Len(events) : events[n] = lines[i].event
  /\ \A m, n \in 1 .. Len(events) : m < n =>
       \E i, j \in S : i > j /\ events[m] = lines[i].event /\ events[n] = lines[j].event

LEMMA TakenBackwards ==
    ASSUME NEW lines \in Seq(LineType), NEW S \in SUBSET (1 .. Len(lines))
    PROVE  Backwards([n \in 1..Cardinality(S) |->
                        lines[CHOOSE i \in S : Cardinality({j \in S : j >= i}) = n].event], lines, S)
<1> DEFINE c == Cardinality(S)
           nth(n) == CHOOSE i \in S : Rank(S, i) = n
           events == [n \in 1..c |-> lines[nth(n)].event]
<1>1. Len(lines) \in Nat /\ \A i \in 1 .. Len(lines) : lines[i] \in LineType
  OBVIOUS
<1>2. c \in Nat /\ \A i \in S : i \in 1 .. Len(lines) /\ i \in Nat
  BY <1>1, SomePositions
<1>3. \A n \in 1 .. c : nth(n) \in S /\ Rank(S, nth(n)) = n
  <2>1. \A n \in 1 .. c : \E i \in S : Rank(S, i) = n
    BY <1>1, SomeRanked
  <2> QED
    BY <2>1
<1>4. \A i \in S : Rank(S, i) \in 1 .. c
  BY <1>1, RankBound
<1>5. \A i, j \in S : i < j => Rank(S, j) < Rank(S, i)
  BY <1>1, RankFalls
<1> HIDE DEF c, nth
<1>6. \A n \in 1 .. c : events[n] = lines[nth(n)].event /\ events[n] \in EventType
  BY <1>1, <1>2, <1>3 DEF LineType
<1>7. events \in Seq(EventType) /\ Len(events) = c
  BY <1>2, <1>6
<1>8. ASSUME NEW i \in S
      PROVE  \E n \in 1 .. c : events[n] = lines[i].event
  <2>0. PICK n \in 1 .. c : n = Rank(S, i)
    BY <1>4
  <2>1. n \in 1 .. c /\ nth(n) \in S /\ Rank(S, nth(n)) = n
    BY <1>3
  <2>2. nth(n) = i
    <3>1. Rank(S, nth(n)) = Rank(S, i) /\ Rank(S, i) \in Nat
      BY <1>2, <2>0, <2>1
    <3>2. i \in Nat /\ nth(n) \in Nat
      BY <1>2, <2>1
    <3>3. ~(nth(n) < i) /\ ~(i < nth(n))
      <4>1. nth(n) < i => Rank(S, i) < Rank(S, nth(n))
        BY <1>5, <2>1
      <4>2. i < nth(n) => Rank(S, nth(n)) < Rank(S, i)
        BY <1>5, <2>1
      <4> QED
        BY <3>1, <4>1, <4>2
    <3> QED
      BY <3>2, <3>3
  <2> QED
    BY <1>6, <2>1, <2>2
<1>9. ASSUME NEW m \in 1 .. c, NEW n \in 1 .. c, m < n
      PROVE  nth(m) > nth(n)
  <2>1. nth(m) \in S /\ nth(n) \in S /\ Rank(S, nth(m)) = m /\ Rank(S, nth(n)) = n
    BY <1>3
  <2>2. m \in Nat /\ n \in Nat /\ nth(m) \in Nat /\ nth(n) \in Nat
    <3>1. m \in Nat
      BY <1>2
    <3>2. n \in Nat
      BY <1>2
    <3>3. nth(m) \in Nat
      BY <1>2, <2>1
    <3>4. nth(n) \in Nat
      BY <1>2, <2>1
    <3> QED
      BY <3>1, <3>2, <3>3, <3>4
  <2>3. ~(nth(m) < nth(n)) /\ nth(m) # nth(n)
    BY <1>5, <1>9, <2>1, <2>2
  <2> QED
    BY <2>2, <2>3
<1> HIDE DEF events
<1>10. Backwards(events, lines, S)
  <2>1. Len(events) = Cardinality(S)
    BY <1>7 DEF c
  <2> QED
    BY <1>3, <1>6, <1>7, <1>8, <1>9, <2>1 DEF Backwards
<1> QED
  BY <1>10 DEF events, c, nth, Rank

LEMMA WalkedIs ==
    ASSUME reader \in ReaderType, NEW lines \in Seq(LineType), NEW newest \in BOOLEAN,
           NEW cut \in Nat
    PROVE  LET found == Walked(lines, newest, cut)
               old == OldOnes(lines, newest, cut)
               room == reader.query.limit - Len(reader.out)
           IN  /\ found.stop \in 0 .. Len(lines)
               /\ \A i \in old : i <= found.stop
               /\ found.stop # 0 =>
                    found.stop \in old \/ Len(found.events) = room
               /\ Backwards(found.events, lines, Taken(lines, newest, cut))
<1> DEFINE shown == {i \in DOMAIN lines : i > cut /\ ~(newest /\ i = Len(lines) /\ ~lines[i].ended)}
           old == {i \in shown : lines[i].good /\ lines[i].event.at < reader.query.since}
           wanted == {i \in shown : lines[i].good} \ old
           room == reader.query.limit - Len(reader.out)
           full == {i \in wanted : Cardinality({j \in wanted : j >= i}) = room}
           ends == old \cup full
           stop == IF ends = {} THEN 0 ELSE Max(ends)
           taken == {i \in wanted : i >= stop}
<1>1. DOMAIN lines = 1 .. Len(lines) /\ Len(lines) \in Nat
  OBVIOUS
<1>2. Walked(lines, newest, cut) =
        [stop |-> stop,
         events |-> [n \in 1..Cardinality(taken) |->
                     lines[CHOOSE i \in taken : Cardinality({j \in taken : j >= i}) = n].event]]
  BY DEF Walked
<1>3. old = OldOnes(lines, newest, cut) /\ wanted = Wanted(lines, newest, cut)
  BY <1>1 DEF OldOnes, Wanted, Shown
<1>4. /\ wanted \in SUBSET (1 .. Len(lines)) /\ old \in SUBSET (1 .. Len(lines))
      /\ full \in SUBSET wanted
  <2>1. wanted \in SUBSET (1 .. Len(lines)) /\ old \in SUBSET (1 .. Len(lines))
    BY <1>1
  <2> HIDE DEF wanted
  <2>2. full \in SUBSET wanted
    OBVIOUS
  <2> QED
    BY <2>1, <2>2
<1> HIDE DEF shown, old, wanted, room
<1>5. stop \in 0 .. Len(lines) /\ \A i \in ends : i <= stop
  <2>1. ends \in SUBSET (0 .. Len(lines))
    <3> HIDE DEF full
    <3> QED
      BY <1>1, <1>4
  <2> HIDE DEF ends
  <2>2. CASE ends = {}
    BY <1>1, <2>2
  <2>3. CASE ends # {}
    <3>1. Max(ends) \in ends /\ \A i \in ends : i <= Max(ends)
      BY <1>1, <2>1, <2>3, MaxIs
    <3> QED
      BY <2>1, <2>3, <3>1
  <2> QED
    BY <2>2, <2>3
<1>6. stop # 0 => stop \in ends
  <2>1. ends \in SUBSET (0 .. Len(lines))
    <3> HIDE DEF full
    <3> QED
      BY <1>1, <1>4
  <2> HIDE DEF ends
  <2> QED
    BY <1>1, <2>1, MaxIs
<1>7. Walked(lines, newest, cut).stop = stop
  BY <1>2
<1>8. taken = Taken(lines, newest, cut)
  BY <1>3, <1>7 DEF Taken
<1>9. Backwards(Walked(lines, newest, cut).events, lines, taken)
  <2>1. taken \in SUBSET (1 .. Len(lines))
    BY <1>4
  <2> HIDE DEF taken, stop
  <2>2. Walked(lines, newest, cut).events =
          [n \in 1..Cardinality(taken) |->
             lines[CHOOSE i \in taken : Cardinality({j \in taken : j >= i}) = n].event]
    BY <1>2
  <2>3. Backwards([n \in 1..Cardinality(taken) |->
             lines[CHOOSE i \in taken : Cardinality({j \in taken : j >= i}) = n].event], lines, taken)
    BY <2>1, TakenBackwards
  <2> QED
    BY <2>2, <2>3
<1>10. stop # 0 => stop \in old \/ Len(Walked(lines, newest, cut).events) = room
  <2>1. Len(Walked(lines, newest, cut).events) = Cardinality(taken)
    BY <1>9 DEF Backwards
  <2>2. stop \in ends /\ stop \notin old => Cardinality(taken) = room
    OBVIOUS
  <2> QED
    BY <1>6, <2>1, <2>2
<1> QED
  BY <1>3, <1>5, <1>7, <1>8, <1>9, <1>10 DEF room

-----------------------------------------------------------------------------
(* The set.  Inodes fall from each path to the next, the current path has  *)
(* the newest file or none, the sink writes to the newest, and a roll has  *)
(* made the room it moves files into.                                      *)

Descends ==
  \A j, k \in Paths : j < k /\ names[j] # NoFile /\ names[k] # NoFile => names[j] > names[k]

SetInv ==
  /\ \A k \in Paths : names[k] \in 0 .. Len(files)
  /\ Descends
  /\ names[0] \in {NoFile, Len(files)}
  /\ sink.pc # "off" => sink.ino = Len(files) /\ Len(files) > 0
  /\ sink.pc = "shift" => sink.n \in 1 .. Keep - 2 /\ names[sink.n + 1] = NoFile
  /\ sink.pc = "move" => names[1] = NoFile
  /\ sink.pc = "reopen" => names[0] = NoFile

LEMMA SetBegins == Init => Types /\ SetInv
<1> SUFFICES ASSUME Init PROVE Types /\ SetInv
  OBVIOUS
<1>1. << >> \in Seq(Seq(LineType)) /\ << >> \in Seq(EventType) /\ Len(<< >>) = 0
  OBVIOUS
<1>2. Off \in SinkType
  BY JunkType DEF Off, SinkType, NoFile
<1>3. Idle \in ReaderType
  BY <1>1 DEF Idle, ReaderType
<1> QED
  BY <1>1, <1>2, <1>3, PathFacts DEF Init, Types, SetInv, Descends, FilesType, NoFile, Off, Idle

LEMMA StampIs ==
    ASSUME NEW now \in Nat, sink.last \in Nat
    PROVE  Stamp(now) \in Nat /\ Stamp(now) >= sink.last
<1> DEFINE S == {now, sink.last}
<1>1. S \in SUBSET (0 .. now + sink.last) /\ now + sink.last \in Nat /\ S # {}
  OBVIOUS
<1>2. sink.last \in S
  OBVIOUS
<1> HIDE DEF S
<1>3. Max(S) \in S /\ \A j \in S : j <= Max(S)
  BY <1>1, MaxIs
<1>4. Max(S) \in Nat /\ sink.last <= Max(S)
  <2>1. Max(S) \in 0 .. now + sink.last
    BY <1>1, <1>3
  <2>2. sink.last <= Max(S)
    BY <1>2, <1>3
  <2> QED
    BY <1>1, <2>1, <2>2
<1> QED
  BY <1>4 DEF S, Stamp

LEMMA ResumedIs ==
    ASSUME NEW lines \in Seq(LineType)
    PROVE  Resumed(lines) \in Nat
<1> DEFINE good == {i \in DOMAIN lines : lines[i].good}
<1>1. Len(lines) \in Nat /\ good \in SUBSET (0 .. Len(lines))
  OBVIOUS
<1>2. \A i \in good : lines[i].event.seq \in Nat
  <2> TAKE i \in good
  <2>1. lines[i] \in LineType
    OBVIOUS
  <2> QED
    BY <2>1 DEF LineType, EventType
<1>3. Resumed(lines) = IF good = {} THEN 0 ELSE lines[Max(good)].event.seq
  BY DEF Resumed
<1> HIDE DEF good
<1>4. good # {} => Max(good) \in good
  BY <1>1, MaxIs
<1> QED
  BY <1>2, <1>3, <1>4

\* A file moves one path up, into room.
MovesUp(from) ==
  /\ files' = files /\ names' \in [Paths -> Nat]
  /\ \A k \in Paths : names'[k] = IF k = from + 1 THEN names[from]
                                 ELSE IF k = from THEN NoFile ELSE names[k]

LEMMA RenamedIs ==
    ASSUME Types, NEW from \in Paths, from + 1 \in Paths, names[from + 1] = NoFile,
           Renamed(from, from + 1)
    PROVE  MovesUp(from)
<1>1. from \in Nat /\ from # from + 1
  BY PathFacts
<1>2. CASE names[from] = NoFile
  BY <1>1, <1>2 DEF Renamed, MovesUp, Types, log
<1>3. CASE names[from] # NoFile
  <2>1. names' = [names EXCEPT ![from + 1] = names[from], ![from] = NoFile] /\ files' = files
    BY <1>3 DEF Renamed, Freed
  <2> QED
    BY <1>1, <2>1 DEF MovesUp, Types, NoFile
<1> QED
  BY <1>2, <1>3

LEMMA UpKeepsSet ==
    ASSUME Types, SetInv, NEW from \in Paths, from + 1 \in Paths, names[from + 1] = NoFile,
           MovesUp(from)
    PROVE  /\ \A k \in Paths : names'[k] \in 0 .. Len(files')
           /\ Descends'
           /\ names'[0] \in {NoFile, Len(files')}
<1>1. from \in Nat /\ \A k \in Paths : k \in Nat
  BY PathFacts
<1>2. \A k \in Paths : names[k] \in Nat
  BY DEF Types
<1>3. ASSUME NEW j \in Paths, NEW k \in Paths, j < k, names'[j] # NoFile, names'[k] # NoFile
      PROVE  names'[j] > names'[k]
  <2>1. j # from /\ k # from
    BY <1>3 DEF MovesUp
  <2>2. CASE j = from + 1
    <3>1. names'[j] = names[from] /\ names'[k] = names[k] /\ from < k
      BY <1>1, <1>3, <2>1, <2>2 DEF MovesUp
    <3> QED
      BY <1>3, <3>1 DEF SetInv, Descends
  <2>3. CASE k = from + 1
    <3>1. names'[k] = names[from] /\ names'[j] = names[j] /\ j < from
      BY <1>1, <1>3, <2>1, <2>3 DEF MovesUp
    <3> QED
      BY <1>3, <3>1 DEF SetInv, Descends
  <2>4. CASE j # from + 1 /\ k # from + 1
    <3>1. names'[k] = names[k] /\ names'[j] = names[j]
      BY <2>1, <2>4 DEF MovesUp
    <3> QED
      BY <1>3, <3>1 DEF SetInv, Descends
  <2> QED
    BY <2>2, <2>3, <2>4
<1>4. Descends'
  BY <1>3 DEF Descends
<1>5. 0 \in Paths /\ 0 # from + 1
  BY <1>1, PathFacts
<1> QED
  BY <1>4, <1>5 DEF MovesUp, SetInv, NoFile

LEMMA OpeningKeepsSet ==
    ASSUME Types, SetInv, names' = [names EXCEPT ![0] = AtPath(0)],
           Len(files') = Len(Opened(0))
    PROVE  /\ names' \in [Paths -> Nat]
           /\ \A k \in Paths : k # 0 => names'[k] = names[k]
           /\ names'[0] = Len(files') /\ Len(files') > 0
           /\ \A k \in Paths : names'[k] \in 0 .. Len(files')
           /\ Descends'
<1>1. /\ AtPath(0) = Len(Opened(0)) /\ Len(Opened(0)) \in Nat /\ Len(Opened(0)) > 0
      /\ names[0] # NoFile => Opened(0) = files
      /\ names[0] = NoFile => Len(Opened(0)) = Len(files) + 1
  BY OpenedIs DEF Types, SetInv
<1>2. 0 \in Paths /\ \A k \in Paths : k \in Nat
  BY PathFacts
<1>3. names' \in [Paths -> Nat] /\ names'[0] = Len(files')
      /\ \A k \in Paths : k # 0 => names'[k] = names[k]
  BY <1>1, <1>2 DEF Types
<1>4. Len(files) \in Nat /\ Len(files') >= Len(files) /\ Len(files') \in Nat
  BY <1>1, FilesFacts DEF Types
<1>5. \A k \in Paths : names'[k] \in 0 .. Len(files')
  <2> TAKE k \in Paths
  <2>1. CASE k = 0
    BY <1>3, <1>4, <2>1
  <2>2. CASE k # 0
    BY <1>3, <1>4, <2>2 DEF SetInv
  <2> QED
    BY <2>1, <2>2
<1>6. ASSUME NEW j \in Paths, NEW k \in Paths, j < k, names'[j] # NoFile, names'[k] # NoFile
      PROVE  names'[j] > names'[k]
  <2>1. k # 0 /\ names'[k] = names[k]
    BY <1>2, <1>3, <1>6
  <2>2. CASE j # 0
    BY <1>3, <1>6, <2>1, <2>2 DEF SetInv, Descends
  <2>3. CASE j = 0 /\ names[0] # NoFile
    <3>1. names'[0] = names[0]
      BY <1>1, <1>3, <2>3 DEF SetInv
    <3> QED
      BY <1>6, <2>1, <2>3, <3>1 DEF SetInv, Descends
  <2>4. CASE j = 0 /\ names[0] = NoFile
    <3>1. names'[0] = Len(files) + 1 /\ names[k] \in 0 .. Len(files)
      BY <1>1, <1>3, <2>4 DEF SetInv
    <3> QED
      BY <1>4, <2>1, <2>4, <3>1
  <2> QED
    BY <2>2, <2>3, <2>4
<1> QED
  BY <1>1, <1>3, <1>5, <1>6 DEF Descends

LEMMA OpenSinkSet == Types /\ SetInv /\ OpenSink => Types' /\ SetInv'
<1> SUFFICES ASSUME Types, SetInv, OpenSink PROVE Types' /\ SetInv'
  OBVIOUS
<1> DEFINE ino == AtPath(0)
           lines == Opened(0)[ino]
<1>1. /\ Opened(0) \in FilesType /\ ino = Len(Opened(0)) /\ ino \in Nat /\ ino > 0
      /\ names[0] # NoFile => Opened(0) = files
      /\ names[0] = NoFile => Opened(0)[Len(files) + 1] = << >> /\ ino = Len(files) + 1
  BY OpenedIs DEF Types, SetInv
<1>2. lines \in Seq(LineType) /\ Len(lines) \in Nat
  BY <1>1, FilesFacts
<1>3. names' = [names EXCEPT ![0] = ino]
  BY DEF OpenSink
<1>4. files' \in FilesType /\ Len(files') = ino
  <2>1. CASE files' = Opened(0)
    BY <1>1, <2>1
  <2>2. CASE lines # << >> /\ files' # Opened(0)
    <3>1. names[0] # NoFile /\ Opened(0) = files /\ ino = Len(files)
      BY <1>1, <2>2
    <3>2. files' = Ended(ino) \/ files' = files
      BY <2>2 DEF OpenSink
    <3>3. Ended(ino) \in FilesType /\ Len(Ended(ino)) = Len(files)
      BY <1>1, <3>1, EndedIs DEF Types, Closes, Elsewhere
    <3> QED
      BY <3>1, <3>2, <3>3 DEF Types
  <2> QED
    BY <2>1, <2>2 DEF OpenSink
<1>5. sink' = [Off EXCEPT !.pc = "idle", !.ino = ino, !.size = Len(lines), !.seq = Resumed(lines)]
      /\ Resumed(lines) \in Nat
  BY <1>2, ResumedIs DEF OpenSink
<1>6. sink' \in SinkType /\ sink'.pc = "idle" /\ sink'.ino = ino
  <2> HIDE DEF lines, ino
  <2> QED
    BY <1>1, <1>2, <1>5, JunkType DEF SinkType, Off, NoFile
<1>7. /\ names' \in [Paths -> Nat]
      /\ names'[0] = Len(files') /\ Len(files') > 0
      /\ \A k \in Paths : names'[k] \in 0 .. Len(files')
      /\ Descends'
  BY <1>1, <1>3, <1>4, OpeningKeepsSet
<1>8. /\ reader' = reader /\ emitted' = emitted /\ kills' = kills /\ fused' = fused
      /\ born' = emitted + 1 /\ faults' \in Nat /\ unended' \in Nat
  BY DEF OpenSink, Types, Fails
<1>9. Types'
  BY <1>4, <1>6, <1>7, <1>8 DEF Types
<1> QED
  BY <1>4, <1>6, <1>7, <1>9 DEF SetInv

LEMMA EmitSet == Types /\ SetInv /\ Emit => Types' /\ SetInv'
<1> SUFFICES ASSUME Types, SetInv, Emit PROVE Types' /\ SetInv'
  OBVIOUS
<1>1. PICK now \in Times :
        sink' = [sink EXCEPT
          !.pc = IF ~sink.broken /\ sink.size > 0 /\ sink.size + 1 > MaxLines THEN "remove" ELSE "append",
          !.last = Stamp(now), !.seq = @ + 1,
          !.event = [id |-> emitted + 1, seq |-> sink.seq + 1, at |-> Stamp(now)]]
  BY DEF Emit
<1>2. Stamp(now) \in Nat
  BY StampIs, LogAssumption DEF Types, SinkType
<1>3. sink' \in SinkType /\ sink'.pc \in {"remove", "append"} /\ sink'.ino = sink.ino
  <2> DEFINE e == [id |-> emitted + 1, seq |-> sink.seq + 1, at |-> Stamp(now)]
             st == Stamp(now)
             to == IF ~sink.broken /\ sink.size > 0 /\ sink.size + 1 > MaxLines
                   THEN "remove" ELSE "append"
             sq == sink.seq + 1
  <2>1. /\ e \in EventType /\ st \in Nat /\ to \in {"remove", "append"} /\ sink \in SinkType
        /\ sq \in Nat
    BY <1>2 DEF Types, SinkType, EventType
  <2>2. sink' = [sink EXCEPT !.pc = to, !.last = st, !.seq = sq, !.event = e]
    BY <1>1
  <2> HIDE DEF e, st, to, sq
  <2> QED
    BY <2>1, <2>2 DEF SinkType
<1>4. /\ reader' \in ReaderType /\ reader'.pc = reader.pc /\ reader'.query = reader.query
      /\ reader'.k = reader.k /\ emitted' = emitted + 1 /\ sink.pc = "idle"
  <2>1. reader \in ReaderType
    BY DEF Types
  <2>2. reader' = reader \/ reader' = [reader EXCEPT !.rolls = @ + 1]
    BY DEF Emit
  <2>3. [reader EXCEPT !.rolls = @ + 1] \in ReaderType
    BY <2>1 DEF ReaderType
  <2>4. /\ [reader EXCEPT !.rolls = @ + 1].pc = reader.pc
        /\ [reader EXCEPT !.rolls = @ + 1].query = reader.query
        /\ [reader EXCEPT !.rolls = @ + 1].k = reader.k
    BY <2>1 DEF ReaderType
  <2>5. emitted' = emitted + 1 /\ sink.pc = "idle"
    BY DEF Emit
  <2> QED
    BY <2>1, <2>2, <2>3, <2>4, <2>5
<1>5. UNCHANGED <<names, files, kills, faults, fused, unended, born>>
  BY DEF Emit, log, history
<1> QED
  BY <1>3, <1>4, <1>5 DEF Types, SetInv, Descends

LEMMA RollFailsSet ==
    ASSUME Types, SetInv, Fails, RollFails, UNCHANGED log, sink.pc # "off",
           UNCHANGED <<reader, emitted, kills, fused, unended, born>>
    PROVE  Types' /\ SetInv'
<1>1. sink' \in SinkType /\ sink'.pc = "append" /\ sink'.ino = sink.ino
  BY DEF RollFails, Types, SinkType
<1>2. names' = names /\ files' = files /\ faults' \in Nat
  BY DEF log, Fails, Types
<1>3. Types'
  BY <1>1, <1>2 DEF Types
<1> QED
  BY <1>1, <1>2, <1>3 DEF SetInv, Descends

LEMMA RemoveSet == Types /\ SetInv /\ RemoveOldest => Types' /\ SetInv'
<1> SUFFICES ASSUME Types, SetInv, RemoveOldest PROVE Types' /\ SetInv'
  OBVIOUS
<1>1. /\ sink.pc = "remove"
      /\ UNCHANGED <<reader, emitted, kills, fused, unended, born>>
  BY DEF RemoveOldest, RollStep, history
<1>2. CASE /\ names' = [names EXCEPT ![Keep - 1] = NoFile] /\ files' = Freed(Keep - 1)
           /\ Shifting /\ faults' = faults
  <2>1. files' \in FilesType /\ Len(files') = Len(files)
    BY <1>2, FreedIs, PathFacts DEF Types, SetInv, Elsewhere
  <2>2. /\ sink' \in SinkType /\ sink'.ino = sink.ino
        /\ \/ Keep > 2 /\ sink'.pc = "shift" /\ sink'.n = Keep - 2
           \/ Keep = 2 /\ sink'.pc = "move"
    <3> DEFINE to == IF Keep > 2 THEN "shift" ELSE "move"
               m == Keep - 2
    <3>1. /\ to \in {"shift", "move"} /\ m \in Nat /\ sink \in SinkType
          /\ \/ Keep > 2 /\ to = "shift"
             \/ Keep = 2 /\ to = "move"
      BY PathFacts DEF Types
    <3>2. sink' = [sink EXCEPT !.pc = to, !.n = m]
      BY <1>2 DEF Shifting
    <3> HIDE DEF to, m
    <3>3. sink' \in SinkType /\ sink'.ino = sink.ino /\ sink'.pc = to /\ sink'.n = m
      BY <3>1, <3>2 DEF SinkType
    <3> QED
      BY <3>1, <3>3 DEF m
  <2>3. /\ names' \in [Paths -> Nat] /\ names'[Keep - 1] = NoFile
        /\ \A k \in Paths : names'[k] = names[k] \/ names'[k] = NoFile
    BY <1>2, PathFacts DEF Types, NoFile
  <2>4. Types'
    BY <1>1, <1>2, <2>1, <2>2, <2>3 DEF Types
  <2>5. Descends'
    BY <2>3 DEF SetInv, Descends
  <2>6. \A k \in Paths : names'[k] \in 0 .. Len(files')
    BY <2>1, <2>3, FilesFacts DEF SetInv, Types, NoFile
  <2>7. names'[0] \in {NoFile, Len(files')}
    BY <2>1, <2>3, PathFacts DEF SetInv
  <2>8. sink'.pc = "shift" => sink'.n \in 1 .. Keep - 2 /\ names'[sink'.n + 1] = NoFile
    <3>1. Keep > 2 => Keep - 2 \in 1 .. Keep - 2 /\ Keep - 2 + 1 = Keep - 1
      BY PathFacts
    <3> QED
      BY <2>2, <2>3, <3>1
  <2>9. sink'.pc = "move" => names'[1] = NoFile
    BY <2>2, <2>3, PathFacts
  <2> QED
    BY <1>1, <2>1, <2>2, <2>4, <2>5, <2>6, <2>7, <2>8, <2>9 DEF SetInv
<1>3. CASE Fails /\ RollFails /\ UNCHANGED log
  BY <1>1, <1>3, RollFailsSet
<1> QED
  BY <1>2, <1>3 DEF RemoveOldest, RollStep

LEMMA ShiftSet == Types /\ SetInv /\ Shift => Types' /\ SetInv' /\ (UNCHANGED log \/ MovesUp(sink.n))
<1> SUFFICES ASSUME Types, SetInv, Shift
             PROVE  Types' /\ SetInv' /\ (UNCHANGED log \/ MovesUp(sink.n))
  OBVIOUS
<1>1. /\ sink.pc = "shift"
      /\ UNCHANGED <<reader, emitted, kills, fused, unended, born>>
  BY DEF Shift, RollStep, history
<1>2. CASE /\ Renamed(sink.n, sink.n + 1) /\ faults' = faults
           /\ sink' = [sink EXCEPT !.pc = IF sink.n = 1 THEN "move" ELSE "shift", !.n = @ - 1]
  <2>1. /\ sink.n \in Paths /\ sink.n + 1 \in Paths /\ names[sink.n + 1] = NoFile
        /\ sink.n \in Nat /\ sink.n \in 1 .. Keep - 2
    BY <1>1, LogAssumption DEF SetInv, Paths
  <2>2. MovesUp(sink.n)
    BY <1>2, <2>1, RenamedIs
  <2>3. /\ sink' \in SinkType /\ sink'.ino = sink.ino /\ sink'.n = sink.n - 1
        /\ \/ sink.n = 1 /\ sink'.pc = "move"
           \/ sink.n > 1 /\ sink'.pc = "shift"
    <3> DEFINE to == IF sink.n = 1 THEN "move" ELSE "shift"
               m == sink.n - 1
    <3>1. /\ to \in {"shift", "move"} /\ m \in Nat /\ sink \in SinkType
          /\ \/ sink.n = 1 /\ to = "move"
             \/ sink.n > 1 /\ to = "shift"
      BY <2>1 DEF Types
    <3>2. sink' = [sink EXCEPT !.pc = to, !.n = m]
      BY <1>2
    <3> HIDE DEF to, m
    <3>3. sink' \in SinkType /\ sink'.ino = sink.ino /\ sink'.pc = to /\ sink'.n = m
      BY <3>1, <3>2 DEF SinkType
    <3> QED
      BY <3>1, <3>3 DEF m
  <2>4. Types'
    BY <1>1, <1>2, <2>2, <2>3 DEF Types, MovesUp
  <2>5. /\ \A k \in Paths : names'[k] \in 0 .. Len(files')
        /\ Descends'
        /\ names'[0] \in {NoFile, Len(files')}
    BY <2>1, <2>2, UpKeepsSet
  <2>6. names'[sink.n] = NoFile
    BY <2>1, <2>2 DEF MovesUp
  <2>7. sink'.pc = "shift" => sink'.n \in 1 .. Keep - 2 /\ sink'.n + 1 = sink.n
    BY <2>1, <2>3, PathFacts
  <2>8. files' = files
    BY <2>2 DEF MovesUp
  <2> QED
    BY <1>1, <2>2, <2>3, <2>4, <2>5, <2>6, <2>7, <2>8 DEF SetInv
<1>3. CASE Fails /\ RollFails /\ UNCHANGED log
  BY <1>1, <1>3, RollFailsSet
<1> QED
  BY <1>2, <1>3 DEF Shift, RollStep

LEMMA MoveSet == Types /\ SetInv /\ MoveCurrent => Types' /\ SetInv' /\ (UNCHANGED log \/ MovesUp(0))
<1> SUFFICES ASSUME Types, SetInv, MoveCurrent
             PROVE  Types' /\ SetInv' /\ (UNCHANGED log \/ MovesUp(0))
  OBVIOUS
<1>1. /\ sink.pc = "move"
      /\ UNCHANGED <<reader, emitted, kills, fused, unended, born>>
  BY DEF MoveCurrent, RollStep, history
<1>2. CASE /\ Renamed(0, 1) /\ faults' = faults /\ sink' = [sink EXCEPT !.pc = "reopen"]
  <2>1. MovesUp(0)
    BY <1>1, <1>2, RenamedIs, PathFacts DEF SetInv
  <2>2. sink' \in SinkType /\ sink'.ino = sink.ino /\ sink'.pc = "reopen"
    BY <1>2 DEF Types, SinkType
  <2>3. Types'
    BY <1>1, <1>2, <2>1, <2>2 DEF Types, MovesUp
  <2>4. /\ \A k \in Paths : names'[k] \in 0 .. Len(files')
        /\ Descends'
        /\ names'[0] \in {NoFile, Len(files')}
    BY <1>1, <2>1, UpKeepsSet, PathFacts DEF SetInv
  <2>5. names'[0] = NoFile /\ files' = files
    BY <2>1, PathFacts DEF MovesUp
  <2> QED
    BY <1>1, <2>1, <2>2, <2>3, <2>4, <2>5 DEF SetInv
<1>3. CASE Fails /\ RollFails /\ UNCHANGED log
  BY <1>1, <1>3, RollFailsSet
<1> QED
  BY <1>2, <1>3 DEF MoveCurrent, RollStep

LEMMA ReopenSet == Types /\ SetInv /\ Reopen => Types' /\ SetInv'
<1> SUFFICES ASSUME Types, SetInv, Reopen PROVE Types' /\ SetInv'
  OBVIOUS
<1>1. /\ sink.pc = "reopen"
      /\ UNCHANGED <<reader, emitted, kills, fused, unended, born>>
  BY DEF Reopen, RollStep, history
<1>2. CASE /\ names' = [names EXCEPT ![0] = AtPath(0)] /\ files' = Opened(0)
           /\ sink' = [sink EXCEPT !.pc = "append", !.ino = AtPath(0), !.size = 0]
           /\ faults' = faults
  <2>1. /\ Opened(0) \in FilesType /\ AtPath(0) = Len(Opened(0)) /\ Len(Opened(0)) \in Nat
        /\ Len(Opened(0)) > 0
    BY OpenedIs DEF Types, SetInv
  <2>2. sink' \in SinkType /\ sink'.ino = Len(files') /\ sink'.pc = "append"
    BY <1>2, <2>1 DEF Types, SinkType
  <2>3. /\ names' \in [Paths -> Nat]
        /\ names'[0] = Len(files') /\ Len(files') > 0
        /\ \A k \in Paths : names'[k] \in 0 .. Len(files')
        /\ Descends'
    BY <1>2, OpeningKeepsSet
  <2>4. Types'
    BY <1>1, <1>2, <2>1, <2>2, <2>3 DEF Types
  <2> QED
    BY <2>2, <2>3, <2>4 DEF SetInv
<1>3. CASE Fails /\ RollFails /\ UNCHANGED log
  BY <1>1, <1>3, RollFailsSet
<1> QED
  BY <1>2, <1>3 DEF Reopen, RollStep

\* A line that an append leaves, whole or cut short.
Written(files2) ==
  \E whole, ended \in BOOLEAN :
     files2 = Appended(sink.ino, Line(IF whole THEN sink.event ELSE Junk, whole, ended))

LEMMA WrittenIs ==
    ASSUME Types, SetInv, sink.pc # "off", NEW g, Written(g)
    PROVE  /\ g \in FilesType
           /\ \E whole, ended \in BOOLEAN :
                Extends(files, g, Len(files), Line(IF whole THEN sink.event ELSE Junk, whole, ended))
<1>1. sink.ino = Len(files) /\ Len(files) \in Nat /\ Len(files) > 0 /\ sink.ino \in 1 .. Len(files)
  BY FilesFacts DEF Types, SetInv
<1>2. PICK whole \in BOOLEAN, ended \in BOOLEAN :
        g = Appended(sink.ino, Line(IF whole THEN sink.event ELSE Junk, whole, ended))
  BY DEF Written
<1>3. Line(IF whole THEN sink.event ELSE Junk, whole, ended) \in LineType
  BY JunkType DEF Types, SinkType
<1> DEFINE line == Line(IF whole THEN sink.event ELSE Junk, whole, ended)
<1>4. line \in LineType /\ g = Appended(sink.ino, line)
  BY <1>2, <1>3
<1> HIDE DEF line
<1>5. g \in FilesType /\ Extends(files, g, Len(files), line)
  BY <1>1, <1>4, AppendedIs DEF Types
<1> QED
  BY <1>5 DEF line

LEMMA SinkRests ==
    ASSUME Types, SetInv, names' = names, files' \in FilesType, Len(files') = Len(files),
           sink' \in SinkType, sink'.pc \in {"off", "idle", "end"},
           sink'.pc # "off" => sink.pc # "off" /\ sink'.ino = sink.ino,
           reader' = reader, emitted' = emitted, kills' \in Nat, faults' \in Nat,
           fused' \in Nat, unended' \in Nat, born' = born
    PROVE  Types' /\ SetInv'
  BY DEF Types, SetInv, Descends

LEMMA AppendSet ==
    Types /\ SetInv /\ AppendEvent =>
      /\ Types' /\ SetInv' /\ sink'.pc \in {"idle", "end"}
      /\ sink'.last = sink.last /\ sink'.ino = sink.ino
      /\ files' = files \/ Written(files')
<1> SUFFICES ASSUME Types, SetInv, AppendEvent
             PROVE  /\ Types' /\ SetInv' /\ sink'.pc \in {"idle", "end"}
                    /\ sink'.last = sink.last /\ sink'.ino = sink.ino
                    /\ files' = files \/ Written(files')
  OBVIOUS
<1>1. /\ sink.pc = "append" /\ names' = names /\ reader' = reader /\ emitted' = emitted
      /\ kills' = kills /\ unended' = unended /\ born' = born
  BY DEF AppendEvent
<1>2. files' = files \/ Written(files')
  BY DEF AppendEvent, Written
<1>3. faults' \in Nat /\ fused' \in Nat
  <2>1. fused \in Nat /\ faults \in Nat
    BY DEF Types
  <2>2. faults' = faults \/ faults' = faults + 1
    BY DEF AppendEvent, Fails
  <2>3. fused' = fused \/ fused' = fused + 1
    BY DEF AppendEvent
  <2> QED
    BY <2>1, <2>2, <2>3
<1>4. /\ sink' \in SinkType /\ sink'.ino = sink.ino /\ sink'.last = sink.last
      /\ sink'.pc \in {"idle", "end"}
  <2>1. sink \in SinkType /\ Junk \in EventType
    BY JunkType DEF Types
  <2>2. CASE sink' = [sink EXCEPT !.pc = "idle", !.size = @ + 1, !.event = Junk]
    <3> DEFINE size == sink.size + 1
    <3>1. size \in Nat /\ sink' = [sink EXCEPT !.pc = "idle", !.size = size, !.event = Junk]
      BY <2>1, <2>2 DEF SinkType
    <3> HIDE DEF size
    <3> QED
      BY <2>1, <3>1 DEF SinkType
  <2>3. CASE sink' = [sink EXCEPT !.pc = "end", !.event = Junk]
    BY <2>1, <2>3 DEF SinkType
  <2> QED
    BY <2>2, <2>3 DEF AppendEvent
<1>5. files' \in FilesType /\ Len(files') = Len(files)
  BY <1>1, <1>2, WrittenIs DEF Types, Extends, Elsewhere
<1>6. kills' \in Nat /\ unended' \in Nat
  BY <1>1 DEF Types
<1>7. Types' /\ SetInv'
  BY <1>1, <1>3, <1>4, <1>5, <1>6, SinkRests
<1> QED
  BY <1>2, <1>4, <1>7

LEMMA EndSet ==
    Types /\ SetInv /\ EndFragment =>
      /\ Types' /\ SetInv' /\ sink'.pc = "idle" /\ sink'.last = sink.last /\ sink'.ino = sink.ino
<1> SUFFICES ASSUME Types, SetInv, EndFragment
             PROVE  /\ Types' /\ SetInv' /\ sink'.pc = "idle" /\ sink'.last = sink.last
                    /\ sink'.ino = sink.ino
  OBVIOUS
<1>1. /\ sink.pc = "end" /\ names' = names /\ reader' = reader /\ emitted' = emitted
      /\ kills' = kills /\ fused' = fused /\ born' = born
  BY DEF EndFragment
<1>2. /\ sink' \in SinkType /\ sink'.pc = "idle" /\ sink'.last = sink.last
      /\ sink'.ino = sink.ino
  BY DEF EndFragment, Types, SinkType
<1>3. faults' \in Nat /\ unended' \in Nat
  BY DEF EndFragment, Fails, Types
<1>4. Len(files) \in 1 .. Len(files) /\ sink.ino = Len(files)
  BY <1>1, FilesFacts DEF Types, SetInv
<1>5. files' \in FilesType /\ Len(files') = Len(files)
  BY <1>4, EndedIs DEF EndFragment, Types, Closes, Elsewhere
<1>6. kills' \in Nat /\ fused' \in Nat
  BY <1>1 DEF Types
<1>7. Types' /\ SetInv'
  BY <1>1, <1>2, <1>3, <1>5, <1>6, SinkRests
<1> QED
  BY <1>2, <1>7

LEMMA DieSet ==
    Types /\ SetInv /\ Die =>
      Types' /\ SetInv' /\ sink' = Off /\ (files' = files \/ (sink.pc = "append" /\ Written(files')))
<1> SUFFICES ASSUME Types, SetInv, Die
             PROVE  /\ Types' /\ SetInv' /\ sink' = Off
                    /\ files' = files \/ (sink.pc = "append" /\ Written(files'))
  OBVIOUS
<1>1. /\ names' = names /\ reader' = reader /\ emitted' = emitted /\ kills' = kills + 1
      /\ faults' = faults /\ fused' = fused /\ unended' = unended /\ born' = born
      /\ sink' = Off /\ sink.pc # "off"
  BY DEF Die, history
<1>2. files' = files \/ (sink.pc = "append" /\ Written(files'))
  BY DEF Die, Written
<1>3. files' \in FilesType /\ Len(files') = Len(files)
  BY <1>1, <1>2, WrittenIs DEF Types, Extends, Elsewhere
<1>4. sink' \in SinkType /\ sink'.pc = "off"
  BY <1>1, JunkType DEF Off, SinkType, NoFile
<1>5. kills' \in Nat /\ fused' \in Nat /\ unended' \in Nat /\ faults' \in Nat
  BY <1>1 DEF Types
<1>6. Types' /\ SetInv'
  BY <1>1, <1>3, <1>4, <1>5, SinkRests
<1> QED
  BY <1>1, <1>2, <1>6

LEMMA AskSet == Types /\ SetInv /\ Ask => Types' /\ SetInv'
<1> SUFFICES ASSUME Types, SetInv, Ask PROVE Types' /\ SetInv'
  OBVIOUS
<1>1. UNCHANGED <<names, files, sink, emitted, kills, faults, fused, unended, born>>
  BY DEF Ask, log, history
<1>2. PICK query \in Queries :
        reader' = [Idle EXCEPT !.pc = "walk", !.query = query, !.rolls = IF Rolling THEN 1 ELSE 0]
  BY DEF Ask
<1>3. Idle \in ReaderType
  <2>1. << >> \in Seq(EventType)
    OBVIOUS
  <2> QED
    BY <2>1 DEF Idle, ReaderType
<1>4. reader' \in ReaderType /\ reader'.query \in Queries /\ reader'.k = 0
  <2> DEFINE r == IF Rolling THEN 1 ELSE 0
  <2>1. r \in Nat
    OBVIOUS
  <2> HIDE DEF r
  <2>2. reader' = [Idle EXCEPT !.pc = "walk", !.query = query, !.rolls = r]
    BY <1>2 DEF r
  <2> QED
    BY <1>3, <2>1, <2>2 DEF ReaderType, Idle
<1> QED
  BY <1>1, <1>4, PathFacts DEF Types, SetInv, Descends

LEMMA AnswerSet == Types /\ SetInv /\ Answer => Types' /\ SetInv'
<1> SUFFICES ASSUME Types, SetInv, Answer PROVE Types' /\ SetInv'
  OBVIOUS
<1>1. UNCHANGED <<names, files, sink, emitted, kills, faults, fused, unended, born>>
  BY DEF Answer, log, history
<1>2. << >> \in Seq(EventType)
  OBVIOUS
<1>3. reader' \in ReaderType /\ reader'.pc = "idle"
  BY <1>2 DEF Answer, Idle, ReaderType
<1> QED
  BY <1>1, <1>3 DEF Types, SetInv, Descends

-----------------------------------------------------------------------------
(* What a step does to the lines that decode.                              *)

Good(n) == {i \in 1 .. Len(files[n]) : files[n][i].good}
IdAt(n, i) == files[n][i].event.id
AtAt(n, i) == files[n][i].event.at
On == sink.pc # "off"
Pending == Rolling \/ sink.pc = "append"

\* A line after the step was there before; only the last line of the newest
\* file may have been ended meanwhile.
Stays(n, i) ==
  /\ n \in 1 .. Len(files) /\ i \in Good(n)
  /\ files'[n][i].event = files[n][i].event
  /\ files[n][i].ended => files'[n][i].ended
  /\ files'[n][i].ended /\ ~files[n][i].ended => n = Len(files) /\ i = Len(files[n])
  /\ i = Len(files'[n]) => i = Len(files[n])

KeepsLines ==
  /\ Len(files') \in Nat /\ Len(files') >= Len(files)
  /\ \A n \in 1 .. Len(files') : \A i \in Good(n)' : Stays(n, i)

WritesLine ==
  /\ sink.pc = "append" /\ Len(files') = Len(files)
  /\ \A n \in 1 .. Len(files') : \A i \in Good(n)' :
       \/ Stays(n, i)
       \/ n = Len(files) /\ i = Len(files[n]) + 1 /\ files'[n][i].event = sink.event

LEMMA SameLines ==
    ASSUME Types, files' = files
    PROVE  KeepsLines
<1>1. Len(files) \in Nat
  BY FilesFacts DEF Types
<1> QED
  BY <1>1 DEF KeepsLines, Stays, Good

\* A file is emptied, the others stay as they are.
LEMMA LessLines ==
    ASSUME Types, NEW m, Elsewhere(files, files', m), m \in 1 .. Len(files) => files'[m] = << >>
    PROVE  KeepsLines
<1>1. Len(files) \in Nat /\ Len(files') = Len(files)
  BY FilesFacts DEF Types, Elsewhere
<1>2. ASSUME NEW n \in 1 .. Len(files'), NEW i \in Good(n)'
      PROVE  Stays(n, i)
  <2>1. i \in 1 .. Len(files'[n])
    BY DEF Good
  <2>2. n # m
    <3>1. Len(<< >>) = 0
      OBVIOUS
    <3>2. ~(i \in 1 .. 0)
      OBVIOUS
    <3> QED
      BY <1>1, <1>2, <2>1, <3>1, <3>2
  <2>3. files'[n] = files[n]
    BY <1>1, <1>2, <2>2 DEF Elsewhere
  <2> QED
    BY <1>1, <1>2, <2>3 DEF Stays, Good
<1> QED
  BY <1>1, <1>2 DEF KeepsLines

\* A new file, which is empty.
LEMMA MoreFiles ==
    ASSUME Types, SetInv, files' = Opened(0)
    PROVE  KeepsLines
<1>1. /\ Len(Opened(0)) \in Nat /\ Len(files) \in Nat
      /\ \A m \in 1 .. Len(files) : Opened(0)[m] = files[m]
      /\ names[0] # NoFile => Opened(0) = files
      /\ names[0] = NoFile =>
           Len(Opened(0)) = Len(files) + 1 /\ Opened(0)[Len(files) + 1] = << >>
  BY OpenedIs, FilesFacts DEF Types, SetInv
<1>2. Len(files') >= Len(files)
  BY <1>1
<1>3. ASSUME NEW n \in 1 .. Len(files'), NEW i \in Good(n)'
      PROVE  Stays(n, i)
  <2>1. i \in 1 .. Len(files'[n])
    BY DEF Good
  <2>2. n \in 1 .. Len(files)
    <3>1. Len(<< >>) = 0
      OBVIOUS
    <3>2. ~(i \in 1 .. 0)
      OBVIOUS
    <3>3. n # Len(files) + 1 \/ names[0] # NoFile
      BY <1>1, <2>1, <3>1, <3>2
    <3>4. CASE names[0] # NoFile
      BY <1>1, <1>3, <3>4
    <3>5. CASE names[0] = NoFile
      BY <1>1, <1>3, <3>3, <3>5
    <3> QED
      BY <3>4, <3>5
  <2>3. files'[n] = files[n]
    BY <1>1, <2>2
  <2> QED
    BY <1>1, <1>3, <2>2, <2>3 DEF Stays, Good
<1> QED
  BY <1>1, <1>2, <1>3 DEF KeepsLines

\* The last line of the newest file is ended.
LEMMA EndedLines ==
    ASSUME Types, Len(files) > 0, Closes(files, files', Len(files))
    PROVE  KeepsLines
<1>1. Len(files) \in Nat /\ Len(files') = Len(files)
  BY FilesFacts DEF Types, Closes, Elsewhere
<1>2. ASSUME NEW n \in 1 .. Len(files'), NEW i \in Good(n)'
      PROVE  Stays(n, i)
  <2>1. i \in 1 .. Len(files'[n]) /\ files'[n][i].good
    BY <1>2 DEF Good
  <2>2. CASE n # Len(files)
    <3>1. files'[n] = files[n]
      BY <1>1, <1>2, <2>2 DEF Closes, Elsewhere
    <3> QED
      BY <1>1, <1>2, <3>1 DEF Stays, Good
  <2>3. CASE n = Len(files)
    <3>1. Len(files[n]) \in Nat /\ Len(files'[n]) = Len(files[n])
      BY <1>1, <1>2, <2>3, FilesFacts DEF Types, Closes
    <3>2. /\ files'[n][i].event = files[n][i].event /\ files'[n][i].good = files[n][i].good
          /\ i < Len(files[n]) => files'[n][i] = files[n][i]
          /\ Len(files'[n]) > 0 => files'[n][Len(files'[n])].ended
      BY <2>1, <2>3, <3>1 DEF Closes
    <3>3. i \in Good(n)
      BY <2>1, <3>1, <3>2 DEF Good
    <3>4. i < Len(files[n]) \/ i = Len(files[n])
      BY <2>1, <3>1
    <3>5. files[n][i].ended => files'[n][i].ended
      BY <2>1, <3>1, <3>2, <3>4
    <3> QED
      BY <1>1, <1>2, <2>3, <3>1, <3>2, <3>3, <3>4, <3>5 DEF Stays
  <2> QED
    BY <2>2, <2>3
<1> QED
  BY <1>1, <1>2 DEF KeepsLines

\* A line is written, or what there is of one joins a line that is lost.
LEMMA MoreLines ==
    ASSUME Types, SetInv, sink.pc = "append", Written(files')
    PROVE  WritesLine
<1>1. Len(files) \in Nat /\ Len(files) > 0
  BY FilesFacts DEF Types, SetInv
<1>2. PICK whole \in BOOLEAN, ended \in BOOLEAN :
        Extends(files, files', Len(files), Line(IF whole THEN sink.event ELSE Junk, whole, ended))
  BY WrittenIs
<1> DEFINE line == Line(IF whole THEN sink.event ELSE Junk, whole, ended)
<1>3. line.good => line.event = sink.event
  BY JunkType DEF Types, SinkType
<1>3a. ~Line(Junk, FALSE, line.ended).good
  BY DEF Line
<1>4. Extends(files, files', Len(files), line)
  BY <1>2
<1> HIDE DEF line
<1>5. Len(files') = Len(files) /\ \A m \in 1 .. Len(files) : m # Len(files) => files'[m] = files[m]
  BY <1>4 DEF Extends, Elsewhere
<1>6. ASSUME NEW n \in 1 .. Len(files'), NEW i \in Good(n)'
      PROVE  Stays(n, i) \/ (n = Len(files) /\ i = Len(files[n]) + 1 /\ files'[n][i].event = sink.event)
  <2>1. i \in 1 .. Len(files'[n]) /\ files'[n][i].good
    BY <1>6 DEF Good
  <2>2. CASE n # Len(files)
    <3>1. files'[n] = files[n]
      BY <1>5, <1>6, <2>2
    <3> QED
      BY <1>5, <1>6, <3>1 DEF Stays, Good
  <2>3. CASE n = Len(files)
    <3>1. Len(files[n]) \in Nat
      BY <1>1, <2>3, FilesFacts DEF Types
    <3>2. CASE files[n] # << >> /\ ~files[n][Len(files[n])].ended
      <4>1. /\ Len(files'[n]) = Len(files[n])
            /\ \A m \in 1 .. Len(files[n]) - 1 : files'[n][m] = files[n][m]
            /\ files'[n][Len(files[n])] = Line(Junk, FALSE, line.ended)
        BY <1>4, <2>3, <3>2 DEF Extends
      <4>2. i # Len(files[n])
        BY <1>3a, <2>1, <4>1
      <4>3. i \in 1 .. Len(files[n]) - 1 /\ i \in 1 .. Len(files[n])
        BY <2>1, <3>1, <4>1, <4>2
      <4>4. files'[n][i] = files[n][i]
        BY <4>1, <4>3
      <4>5. i \in Good(n)
        BY <2>1, <4>3, <4>4 DEF Good
      <4> QED
        BY <1>1, <2>3, <4>1, <4>2, <4>4, <4>5 DEF Stays
    <3>3. CASE ~(files[n] # << >> /\ ~files[n][Len(files[n])].ended)
      <4>1. /\ Len(files'[n]) = Len(files[n]) + 1
            /\ \A m \in 1 .. Len(files[n]) : files'[n][m] = files[n][m]
            /\ files'[n][Len(files[n]) + 1] = line
        BY <1>4, <2>3, <3>3 DEF Extends
      <4>2. CASE i = Len(files[n]) + 1
        BY <1>3, <2>1, <2>3, <4>1, <4>2
      <4>3. CASE i # Len(files[n]) + 1
        <5>1. i \in 1 .. Len(files[n])
          BY <2>1, <3>1, <4>1, <4>3
        <5>2. files'[n][i] = files[n][i]
          BY <4>1, <5>1
        <5>3. i \in Good(n)
          BY <2>1, <5>1, <5>2 DEF Good
        <5> QED
          BY <1>1, <2>3, <4>1, <4>3, <5>1, <5>2, <5>3 DEF Stays
      <4> QED
        BY <4>2, <4>3
    <3> QED
      BY <3>2, <3>3
  <2> QED
    BY <2>2, <2>3
<1> QED
  BY <1>5, <1>6 DEF WritesLine

-----------------------------------------------------------------------------
(* Events lie in the files in the order they were emitted.                 *)

EventInv ==
  /\ \A n \in 1 .. Len(files) : \A i \in Good(n) :
       IdAt(n, i) \in 1 .. emitted /\ (Pending => IdAt(n, i) < emitted)
  /\ \A m, n \in 1 .. Len(files) : \A i \in Good(m), j \in Good(n) :
       m < n \/ (m = n /\ i < j) => IdAt(m, i) < IdAt(n, j)
  /\ Pending => sink.event.id = emitted /\ emitted > 0

Base == Types /\ SetInv /\ EventInv

\* What a step of the sink is to the events.
Settles ==
  /\ KeepsLines /\ UNCHANGED <<emitted, born, reader>>
  /\ Pending' => Pending /\ sink'.event = sink.event
  /\ On' => On /\ sink'.last = sink.last
Writes ==
  /\ WritesLine /\ UNCHANGED <<emitted, born, reader, names>>
  /\ ~Pending' /\ (On' => sink'.last = sink.last)
Opens ==
  /\ KeepsLines /\ UNCHANGED <<emitted, reader>> /\ born' = emitted + 1
  /\ ~Pending' /\ ~On
Emits ==
  /\ UNCHANGED <<names, files, born>> /\ emitted' = emitted + 1
  /\ sink.pc = "idle" /\ sink'.event.id = emitted' /\ sink'.event.at = sink'.last
  /\ sink'.last \in Nat /\ sink'.last >= sink.last
  /\ sink'.pc \in {"remove", "append"}
  /\ reader' = IF sink'.pc = "remove" /\ reader.pc = "walk" THEN [reader EXCEPT !.rolls = @ + 1]
               ELSE reader
Looks == UNCHANGED <<names, files, sink, emitted, born>>

LEMMA KeepsEvents ==
    ASSUME Base, KeepsLines, emitted' = emitted,
           Pending' => Pending /\ sink'.event = sink.event
    PROVE  EventInv'
<1>1. \A n \in 1 .. Len(files') : \A i \in Good(n)' :
        /\ n \in 1 .. Len(files) /\ i \in Good(n)
        /\ files'[n][i].event.id = files[n][i].event.id
  BY DEF KeepsLines, Stays
<1>2. \A n \in 1 .. Len(files') : \A i \in Good(n)' :
        IdAt(n, i)' \in 1 .. emitted' /\ (Pending' => IdAt(n, i)' < emitted')
  BY <1>1 DEF Base, EventInv, IdAt
<1>3. \A m, n \in 1 .. Len(files') : \A i \in Good(m)', j \in Good(n)' :
        m < n \/ (m = n /\ i < j) => IdAt(m, i)' < IdAt(n, j)'
  BY <1>1 DEF Base, EventInv, IdAt
<1>4. Pending' => sink'.event.id = emitted' /\ emitted' > 0
  BY DEF Base, EventInv
<1> QED
  BY <1>2, <1>3, <1>4 DEF EventInv

LEMMA WritesEvents ==
    ASSUME Base, Writes
    PROVE  EventInv'
<1>1. \A n \in 1 .. Len(files') : \A i \in Good(n)' :
        /\ n \in 1 .. Len(files)
        /\ \/ i \in Good(n) /\ files'[n][i].event.id = files[n][i].event.id
           \/ n = Len(files) /\ i = Len(files[n]) + 1 /\ files'[n][i].event.id = emitted
  BY DEF Writes, WritesLine, Stays, Base, EventInv, Pending
<1>2. /\ Pending /\ emitted' = emitted /\ emitted \in Nat /\ emitted > 0 /\ ~Pending'
      /\ Len(files) \in Nat /\ Len(files') = Len(files)
  BY FilesFacts DEF Writes, WritesLine, Pending, Base, EventInv, Types
<1>3. \A n \in 1 .. Len(files') : \A i \in Good(n)' :
        IdAt(n, i)' \in 1 .. emitted' /\ (Pending' => IdAt(n, i)' < emitted')
  <2> TAKE n \in 1 .. Len(files')
  <2> TAKE i \in Good(n)'
  <2>1. files'[n][i].event.id \in 1 .. emitted
    BY <1>1, <1>2 DEF Base, EventInv, IdAt
  <2> QED
    BY <1>2, <2>1 DEF IdAt
<1>4. ASSUME NEW m \in 1 .. Len(files'), NEW n \in 1 .. Len(files'),
             NEW i \in Good(m)', NEW j \in Good(n)', m < n \/ (m = n /\ i < j)
      PROVE  IdAt(m, i)' < IdAt(n, j)'
  <2>1. m \in 1 .. Len(files) /\ n \in 1 .. Len(files)
    BY <1>1
  <2>2. CASE i \in Good(m) /\ files'[m][i].event.id = files[m][i].event.id
    <3>1. CASE j \in Good(n) /\ files'[n][j].event.id = files[n][j].event.id
      BY <1>4, <2>1, <2>2, <3>1 DEF Base, EventInv, IdAt
    <3>2. CASE files'[n][j].event.id = emitted
      <4>1. IdAt(m, i) < emitted
        BY <1>2, <2>1, <2>2 DEF Base, EventInv
      <4> QED
        BY <2>2, <3>2, <4>1 DEF IdAt
    <3> QED
      BY <1>1, <3>1, <3>2
  <2>3. CASE m = Len(files) /\ i = Len(files[m]) + 1
    <3>1. n = m /\ i < j
      BY <1>2, <1>4, <2>1, <2>3
    <3>2. j \in Good(n) \/ j = Len(files[n]) + 1
      BY <1>1
    <3>3. Len(files[n]) \in Nat
      BY <2>1, FilesFacts DEF Base, Types
    <3>4. FALSE
      BY <2>3, <3>1, <3>2, <3>3 DEF Good
    <3> QED
      BY <3>4
  <2> QED
    BY <1>1, <2>2, <2>3
<1> QED
  BY <1>2, <1>3, <1>4 DEF EventInv

LEMMA EmitsEvents ==
    ASSUME Base, Emits
    PROVE  EventInv'
<1>1. emitted \in Nat /\ emitted' = emitted + 1 /\ files' = files
  BY DEF Emits, Base, Types
<1>2. \A n : Good(n)' = Good(n) /\ \A i : IdAt(n, i)' = IdAt(n, i)
  BY <1>1 DEF Good, IdAt
<1>3. \A n \in 1 .. Len(files') : \A i \in Good(n)' :
        IdAt(n, i)' \in 1 .. emitted' /\ IdAt(n, i)' < emitted'
  <2> TAKE n \in 1 .. Len(files')
  <2> TAKE i \in Good(n)'
  <2>1. IdAt(n, i) \in 1 .. emitted
    BY <1>1, <1>2 DEF Base, EventInv
  <2> QED
    BY <1>1, <1>2, <2>1
<1>4. sink'.event.id = emitted' /\ emitted' > 0
  BY <1>1 DEF Emits
<1>5. \A m, n \in 1 .. Len(files') : \A i \in Good(m)', j \in Good(n)' :
        m < n \/ (m = n /\ i < j) => IdAt(m, i)' < IdAt(n, j)'
  BY <1>1, <1>2 DEF Base, EventInv
<1> QED
  BY <1>3, <1>4, <1>5 DEF EventInv

LEMMA KindEvents ==
    ASSUME Base, Settles \/ Writes \/ Opens \/ Emits \/ Looks
    PROVE  EventInv'
<1>1. CASE Settles
  BY <1>1, KeepsEvents DEF Settles
<1>2. CASE Writes
  BY <1>2, WritesEvents
<1>3. CASE Opens
  BY <1>3, KeepsEvents DEF Opens
<1>4. CASE Emits
  BY <1>4, EmitsEvents
<1>5. CASE Looks
  <2>1. KeepsLines
    BY <1>5, SameLines DEF Looks, Base
  <2> QED
    BY <1>5, <2>1, KeepsEvents DEF Looks, Pending, Rolling
<1> QED
  BY <1>1, <1>2, <1>3, <1>4, <1>5

LEMMA RollStepKind ==
    ASSUME Types, SetInv, Types', Rolling, KeepsLines,
           UNCHANGED <<emitted, born, reader>>,
           sink'.event = sink.event, sink'.last = sink.last
    PROVE  Settles
  BY DEF Settles, Pending, Rolling, On

LEMMA RollFailsKind ==
    ASSUME Types, SetInv, Rolling, RollFails, UNCHANGED log, UNCHANGED <<emitted, born, reader>>
    PROVE  Settles
<1>1. KeepsLines
  BY SameLines DEF log
<1>2. sink'.event = sink.event /\ sink'.last = sink.last
  BY DEF RollFails, Types, SinkType
<1> QED
  BY <1>1, <1>2 DEF Settles, Pending, Rolling, On

LEMMA WriteKinds ==
    ASSUME Types, SetInv, Write \/ Die, Types'
    PROVE  Settles \/ Writes \/ Opens \/ Emits
<1>1. CASE OpenSink
  <2>1. sink.pc = "off" /\ UNCHANGED <<emitted, reader>> /\ born' = emitted + 1
    BY <1>1 DEF OpenSink
  <2>2. sink'.pc = "idle"
    BY <1>1 DEF OpenSink, Off
  <2>3. KeepsLines
    <3>1. CASE files' = Opened(0)
      BY <3>1, MoreFiles
    <3>2. CASE files' = files
      BY <3>2, SameLines
    <3>3. CASE files' # Opened(0) /\ files' # files
      <4> DEFINE ino == AtPath(0)
                 lines == Opened(0)[ino]
      <4>1. lines # << >> /\ files' = Ended(ino)
        BY <1>1, <3>3 DEF OpenSink
      <4>2. /\ ino = Len(Opened(0)) /\ ino > 0
            /\ names[0] # NoFile => Opened(0) = files
            /\ names[0] = NoFile => Opened(0)[Len(files) + 1] = << >> /\ ino = Len(files) + 1
        BY OpenedIs DEF Types, SetInv
      <4>3. ino = Len(files) /\ Len(files) > 0 /\ Len(files) \in 1 .. Len(files)
        BY <4>1, <4>2, FilesFacts DEF Types
      <4>4. Closes(files, files', Len(files))
        BY <4>1, <4>3, EndedIs DEF Types
      <4> QED
        BY <4>3, <4>4, EndedLines
    <3> QED
      BY <3>1, <3>2, <3>3
  <2> QED
    BY <2>1, <2>2, <2>3 DEF Opens, Pending, Rolling, On
<1>2. CASE Emit
  <2>1. PICK now \in Times :
        sink' = [sink EXCEPT
          !.pc = IF ~sink.broken /\ sink.size > 0 /\ sink.size + 1 > MaxLines THEN "remove" ELSE "append",
          !.last = Stamp(now), !.seq = @ + 1,
          !.event = [id |-> emitted + 1, seq |-> sink.seq + 1, at |-> Stamp(now)]]
    BY <1>2 DEF Emit
  <2>2. Stamp(now) \in Nat /\ Stamp(now) >= sink.last
    BY StampIs, LogAssumption DEF Types, SinkType
  <2> DEFINE rolls == ~sink.broken /\ sink.size > 0 /\ sink.size + 1 > MaxLines
  <2>3. /\ sink'.pc = (IF rolls THEN "remove" ELSE "append") /\ sink'.last = Stamp(now)
        /\ sink'.event.id = emitted + 1 /\ sink'.event.at = Stamp(now)
    BY <2>1 DEF Types, SinkType
  <2>4. reader' = IF rolls /\ reader.pc = "walk" THEN [reader EXCEPT !.rolls = @ + 1] ELSE reader
    BY <1>2 DEF Emit
  <2>5. UNCHANGED <<names, files, born>> /\ emitted' = emitted + 1 /\ sink.pc = "idle"
    BY <1>2 DEF Emit, log, history
  <2> HIDE DEF rolls
  <2> QED
    BY <2>2, <2>3, <2>4, <2>5 DEF Emits
<1>3. CASE RemoveOldest
  <2>1. Rolling /\ UNCHANGED <<emitted, born, reader>>
    BY <1>3 DEF RemoveOldest, RollStep, Rolling, history
  <2>2. CASE files' = Freed(Keep - 1) /\ Shifting
    <3>1. /\ Elsewhere(files, files', names[Keep - 1])
          /\ names[Keep - 1] # NoFile => files'[names[Keep - 1]] = << >>
      BY <2>2, FreedIs, PathFacts DEF Types, SetInv
    <3>2. KeepsLines
      BY <3>1, LessLines DEF NoFile
    <3>3. sink'.event = sink.event /\ sink'.last = sink.last
      BY <2>2 DEF Shifting, Types, SinkType
    <3> QED
      BY <2>1, <3>2, <3>3, RollStepKind
  <2>3. CASE RollFails /\ UNCHANGED log
    BY <2>1, <2>3, RollFailsKind
  <2> QED
    BY <1>3, <2>2, <2>3 DEF RemoveOldest, RollStep
<1>4. CASE Shift \/ MoveCurrent
  <2>1. Rolling /\ UNCHANGED <<emitted, born, reader>>
    BY <1>4 DEF Shift, MoveCurrent, RollStep, Rolling, history
  <2>2. files' = files
    BY <1>4, ShiftSet, MoveSet DEF log, MovesUp
  <2>3. sink'.event = sink.event /\ sink'.last = sink.last
    BY <1>4 DEF Shift, MoveCurrent, RollStep, RollFails, Types, SinkType
  <2> QED
    BY <2>1, <2>2, <2>3, SameLines, RollStepKind
<1>5. CASE Reopen
  <2>1. Rolling /\ UNCHANGED <<emitted, born, reader>>
    BY <1>5 DEF Reopen, RollStep, Rolling, history
  <2>2. CASE files' = Opened(0) /\ sink' = [sink EXCEPT !.pc = "append", !.ino = AtPath(0), !.size = 0]
    <3>1. sink'.event = sink.event /\ sink'.last = sink.last
      BY <2>2 DEF Types, SinkType
    <3> QED
      BY <2>1, <2>2, <3>1, MoreFiles, RollStepKind
  <2>3. CASE RollFails /\ UNCHANGED log
    BY <2>1, <2>3, RollFailsKind
  <2> QED
    BY <1>5, <2>2, <2>3 DEF Reopen, RollStep
<1>6. CASE AppendEvent
  <2>1. /\ sink.pc = "append" /\ UNCHANGED <<emitted, born, reader, names>>
        /\ sink'.pc \in {"idle", "end"} /\ sink'.last = sink.last
        /\ files' = files \/ Written(files')
    BY <1>6, AppendSet DEF AppendEvent
  <2>2. ~Pending' /\ On
    BY <2>1 DEF Pending, Rolling, On
  <2>3. CASE files' = files
    BY <2>1, <2>2, <2>3, SameLines DEF Settles
  <2>4. CASE Written(files')
    BY <2>1, <2>2, <2>4, MoreLines DEF Writes
  <2> QED
    BY <2>1, <2>3, <2>4
<1>7. CASE EndFragment
  <2>1. /\ sink.pc = "end" /\ UNCHANGED <<emitted, born, reader>>
        /\ sink'.pc = "idle" /\ sink'.last = sink.last
        /\ files' = files \/ files' = Ended(sink.ino)
    BY <1>7, EndSet DEF EndFragment
  <2>2. ~Pending' /\ On
    BY <2>1 DEF Pending, Rolling, On
  <2>3. KeepsLines
    <3>1. CASE files' = files
      BY <3>1, SameLines
    <3>2. CASE files' = Ended(sink.ino)
      <4>1. sink.ino = Len(files) /\ Len(files) > 0 /\ Len(files) \in 1 .. Len(files)
        BY <2>1, FilesFacts DEF Types, SetInv
      <4> QED
        BY <3>2, <4>1, EndedIs, EndedLines DEF Types
    <3> QED
      BY <2>1, <3>1, <3>2
  <2> QED
    BY <2>1, <2>2, <2>3 DEF Settles
<1>8. CASE Die
  <2>1. /\ UNCHANGED <<emitted, born, reader, names>> /\ sink'.pc = "off"
        /\ files' = files \/ (sink.pc = "append" /\ Written(files'))
    BY <1>8, DieSet DEF Die, Off, history
  <2>2. ~Pending' /\ ~On'
    BY <2>1 DEF Pending, Rolling, On
  <2>3. CASE files' = files
    BY <2>1, <2>2, <2>3, SameLines DEF Settles
  <2>4. CASE sink.pc = "append" /\ Written(files')
    BY <2>1, <2>2, <2>4, MoreLines DEF Writes
  <2> QED
    BY <2>1, <2>3, <2>4
<1> QED
  BY <1>1, <1>2, <1>3, <1>4, <1>5, <1>6, <1>7, <1>8 DEF Write

-----------------------------------------------------------------------------
(* The events held, and what one step of a walk does.                      *)

\* A line at a path that decodes and has ended.
HeldLine(k, i) == names[k] # NoFile /\ i \in Good(names[k]) /\ files[names[k]][i].ended

LEMMA HeldAtIs ==
    ASSUME Types, SetInv, NEW k \in Paths
    PROVE  \A id : id \in HeldAt(k) <=> \E i \in Good(names[k]) : HeldLine(k, i) /\ id = IdAt(names[k], i)
<1>1. CASE names[k] = NoFile
  BY <1>1 DEF HeldAt, HeldLine
<1>2. CASE names[k] # NoFile
  <2>1. names[k] \in 1 .. Len(files)
    BY <1>2, FilesFacts DEF Types, SetInv, NoFile
  <2>2. DOMAIN files[names[k]] = 1 .. Len(files[names[k]])
    BY <2>1, FilesFacts DEF Types
  <2>3. HeldAt(k) = {files[names[k]][i].event.id :
                       i \in {j \in 1 .. Len(files[names[k]]) :
                                files[names[k]][j].good /\ files[names[k]][j].ended}}
    BY <1>2, <2>2 DEF HeldAt
  <2> QED
    BY <1>2, <2>3 DEF HeldLine, Good, IdAt
<1> QED
  BY <1>1, <1>2

LEMMA HeldIs ==
    ASSUME Types, SetInv
    PROVE  \A id : id \in Held <=>
             \E k \in Paths : \E i \in Good(names[k]) : HeldLine(k, i) /\ id = IdAt(names[k], i)
  BY HeldAtIs DEF Held

LEMMA NamedIs ==
    ASSUME Types, SetInv, NEW k \in Paths, names[k] # NoFile
    PROVE  /\ names[k] \in 1 .. Len(files) /\ names[k] \in Nat /\ Len(files) \in Nat
           /\ files[names[k]] \in Seq(LineType)
           /\ Len(files[names[k]]) \in Nat /\ DOMAIN files[names[k]] = 1 .. Len(files[names[k]])
           /\ \A i \in 1 .. Len(files[names[k]]) : files[names[k]][i] \in LineType
  BY FilesFacts DEF Types, SetInv, NoFile

LEMMA LatestIs ==
    ASSUME Base
    PROVE  /\ Latest \in Nat /\ Latest <= emitted /\ (Pending => Latest < emitted)
           /\ \A id \in Held : id \in 1 .. emitted /\ id <= Latest
           /\ Latest # 0 => Latest \in Held
<1>1. ASSUME NEW id \in Held
      PROVE  id \in 1 .. emitted /\ (Pending => id < emitted)
  <2>1. PICK k \in Paths : \E i \in Good(names[k]) : HeldLine(k, i) /\ id = IdAt(names[k], i)
    BY <1>1, HeldIs DEF Base
  <2>2. PICK i \in Good(names[k]) : HeldLine(k, i) /\ id = IdAt(names[k], i)
    BY <2>1
  <2>3. names[k] \in 1 .. Len(files)
    BY <2>2, NamedIs DEF HeldLine, Base
  <2> QED
    BY <2>2, <2>3 DEF Base, EventInv
<1>2. emitted \in Nat /\ (Pending => emitted > 0)
  BY DEF Base, Types, EventInv
<1>3. Held \in SUBSET (0 .. emitted)
  BY <1>1, <1>2
<1>4. CASE Held = {}
  BY <1>2, <1>4 DEF Latest
<1>5. CASE Held # {}
  <2>1. Max(Held) \in Held /\ \A id \in Held : id <= Max(Held)
    BY <1>2, <1>3, <1>5, MaxIs
  <2>2. Latest = Max(Held)
    BY <1>5 DEF Latest
  <2> QED
    BY <1>1, <1>2, <2>1, <2>2
<1> QED
  BY <1>4, <1>5

\* What every step of a walk notes first.
Notes ==
  /\ reader'.query = reader.query /\ reader'.rolls = reader.rolls
  /\ reader'.from = IF reader.k = 0 THEN Latest ELSE reader.from
  /\ reader'.life = IF reader.k = 0 THEN born ELSE reader.life
Onward ==
  /\ reader'.k = reader.k + 1 /\ reader'.reached = reader.reached
  /\ reader'.pc = IF reader.k = Keep - 1 THEN "done" ELSE "walk"
Back == reader'.k = reader.k /\ reader'.reached = FALSE /\ reader'.pc = "done"

\* A file is passed over.
Passes ==
  /\ Notes /\ reader'.read = reader.read /\ reader'.out = reader.out
  /\ reader'.first = reader.first /\ reader'.finished = reader.finished
  /\ reader'.capped = reader.capped
  /\ \/ /\ Onward /\ reader'.errors = reader.errors
        /\ \/ names[reader.k] = NoFile
           \/ names[reader.k] # NoFile /\ files[names[reader.k]] = << >>
           \/ names[reader.k] # NoFile /\ names[reader.k] \in reader.read
     \/ names[reader.k] # NoFile /\ Onward /\ reader'.errors = TRUE
     \/ /\ names[reader.k] # NoFile /\ names[reader.k] \notin reader.read /\ reader.finished
        /\ Back /\ reader'.errors = reader.errors

Here == files[names[reader.k]]

\* A file is read down to the line after cut.
ReadsFile(cut) ==
  LET found == Walked(Here, reader.first, cut)
  IN  /\ Notes /\ names[reader.k] # NoFile /\ names[reader.k] \notin reader.read
      /\ ~reader.finished
      /\ reader'.read = reader.read \cup {names[reader.k]} /\ reader'.first = FALSE
      /\ reader'.out = reader.out \o found.events
      /\ \/ /\ cut = 0 /\ found.stop > 1 /\ Back
            /\ UNCHANGED <<reader.finished, reader.errors, reader.capped>>
         \/ /\ cut = 0 /\ found.stop = 1 /\ Onward /\ reader'.finished = TRUE
            /\ UNCHANGED <<reader.errors, reader.capped>>
         \/ /\ cut = 0 /\ found.stop = 0 /\ Onward
            /\ UNCHANGED <<reader.finished, reader.errors, reader.capped>>
         \/ /\ cut > 0 /\ found.stop = 0 /\ Back /\ reader'.capped = TRUE
            /\ UNCHANGED <<reader.finished, reader.errors>>
         \/ /\ cut > 0 /\ found.stop = 0 /\ Onward /\ reader'.errors = TRUE
            /\ UNCHANGED <<reader.finished, reader.capped>>

GoTo(next) == [next EXCEPT !.k = @ + 1, !.pc = IF reader.k = Keep - 1 THEN "done" ELSE "walk"]
EndAt(next) == [next EXCEPT !.pc = "done", !.reached = FALSE]

Carries(next) ==
  /\ reader'.query = next.query /\ reader'.read = next.read
  /\ reader'.out = next.out /\ reader'.first = next.first
  /\ reader'.finished = next.finished /\ reader'.errors = next.errors
  /\ reader'.capped = next.capped /\ reader'.from = next.from
  /\ reader'.life = next.life /\ reader'.rolls = next.rolls

LEMMA GoIs ==
    ASSUME NEW next \in ReaderType, next.k = reader.k, next.reached = reader.reached,
           reader' = GoTo(next)
    PROVE  reader' \in ReaderType /\ Onward /\ Carries(next)
<1> DEFINE to == IF reader.k = Keep - 1 THEN "done" ELSE "walk"
           k == next.k + 1
<1>1. to \in {"done", "walk"} /\ k \in Nat
  BY DEF ReaderType
<1>2. reader' = [next EXCEPT !.k = k, !.pc = to]
  BY DEF GoTo, ReaderType
<1> HIDE DEF to, k
<1>3. /\ reader' \in ReaderType /\ reader'.k = k /\ reader'.pc = to
      /\ Carries(next) /\ reader'.reached = next.reached
  BY <1>1, <1>2 DEF ReaderType, Carries
<1> QED
  BY <1>3 DEF to, k, Onward

LEMMA EndIs ==
    ASSUME NEW next \in ReaderType, next.k = reader.k, reader' = EndAt(next)
    PROVE  reader' \in ReaderType /\ Back /\ Carries(next)
  BY DEF EndAt, ReaderType, Back, Carries

LEMMA WalkMoves ==
    ASSUME Base, Walk
    PROVE  /\ reader' \in ReaderType /\ reader.k \in Nat
           /\ Passes \/ \E cut \in Nat : ReadsFile(cut)
<1> DEFINE ino == names[reader.k]
           lines == IF ino = NoFile THEN << >> ELSE files[ino]
           seen == IF reader.k = 0 THEN [reader EXCEPT !.from = Latest, !.life = born] ELSE reader
           known == ino # NoFile /\ ReadAlready(ino)
           reads == [seen EXCEPT !.read = @ \cup {ino}, !.first = FALSE]
           Took(found) == [reads EXCEPT !.out = @ \o found.events]
<1>1. reader \in ReaderType /\ Latest \in Nat /\ born \in Nat
  BY LatestIs DEF Base, Types
<1>2. /\ seen \in ReaderType /\ seen.k = reader.k /\ seen.pc = reader.pc
      /\ seen.query = reader.query /\ seen.read = reader.read
      /\ seen.out = reader.out /\ seen.first = reader.first
      /\ seen.finished = reader.finished /\ seen.reached = reader.reached
      /\ seen.errors = reader.errors /\ seen.capped = reader.capped
      /\ seen.rolls = reader.rolls
      /\ seen.from = (IF reader.k = 0 THEN Latest ELSE reader.from)
      /\ seen.life = (IF reader.k = 0 THEN born ELSE reader.life)
  <2>1. CASE reader.k = 0
    <3>1. seen = [reader EXCEPT !.from = Latest, !.life = born]
      BY <2>1
    <3> HIDE DEF seen
    <3> QED
      BY <1>1, <2>1, <3>1 DEF ReaderType
  <2>2. CASE reader.k # 0
    BY <1>1, <2>2
  <2> QED
    BY <2>1, <2>2
<1>3. reader.k \in Nat
  BY <1>1 DEF ReaderType
<1> HIDE DEF seen
<1>4. CASE (lines = << >> \/ known) /\ reader' = GoTo(seen)
  <2>1. \/ names[reader.k] = NoFile
        \/ names[reader.k] # NoFile /\ files[names[reader.k]] = << >>
        \/ names[reader.k] # NoFile /\ names[reader.k] \in reader.read
    BY <1>4 DEF ReadAlready
  <2>2. reader' \in ReaderType /\ Onward /\ Carries(seen)
    BY <1>2, <1>4, GoIs
  <2> QED
    BY <1>2, <1>3, <2>1, <2>2 DEF Passes, Notes, Carries
<1>5. CASE ino # NoFile /\ reader' = GoTo([seen EXCEPT !.errors = TRUE])
  <2> DEFINE next == [seen EXCEPT !.errors = TRUE]
  <2>1. /\ next \in ReaderType /\ next.k = seen.k
        /\ next.query = seen.query /\ next.read = seen.read
        /\ next.out = seen.out /\ next.first = seen.first
        /\ next.finished = seen.finished /\ next.reached = seen.reached
        /\ next.errors = TRUE /\ next.capped = seen.capped
        /\ next.rolls = seen.rolls /\ next.from = seen.from /\ next.life = seen.life
    BY <1>2 DEF ReaderType
  <2>2. reader' = GoTo(next)
    BY <1>5
  <2>3. ino # NoFile
    BY <1>5
  <2> HIDE DEF next
  <2>4. reader' \in ReaderType /\ Onward /\ Carries(next)
    BY <1>2, <2>1, <2>2, GoIs
  <2> QED
    BY <1>2, <1>3, <2>1, <2>3, <2>4 DEF Passes, Notes, Carries
<1>6. CASE lines # << >> /\ ~known /\ reader.finished /\ reader' = EndAt(seen)
  <2>1. names[reader.k] # NoFile /\ names[reader.k] \notin reader.read
    BY <1>6 DEF ReadAlready
  <2>2. reader' \in ReaderType /\ Back /\ Carries(seen)
    BY <1>2, <1>6, EndIs
  <2> QED
    BY <1>2, <1>3, <1>6, <2>1, <2>2 DEF Passes, Notes, Carries
<1>7. ASSUME lines # << >>, ~known, NEW cut \in Nat
      PROVE  LET t == Took(Walked(lines, reader.first, cut))
             IN  /\ lines = Here /\ names[reader.k] # NoFile /\ names[reader.k] \notin reader.read
                 /\ t \in ReaderType /\ t.k = reader.k
                 /\ t.query = reader.query /\ t.read = reader.read \cup {names[reader.k]}
                 /\ t.out = reader.out \o Walked(Here, reader.first, cut).events /\ t.first = FALSE
                 /\ t.finished = reader.finished /\ t.reached = reader.reached
                 /\ t.errors = reader.errors /\ t.capped = reader.capped
                 /\ t.rolls = reader.rolls /\ t.from = seen.from /\ t.life = seen.life
  <2>1. lines = Here /\ ino # NoFile /\ ino \notin reader.read
    BY <1>7 DEF Here, ReadAlready
  <2>2. reader.k \in Paths
    BY DEF Walk, Base, Types
  <2>3. names[reader.k] \in Nat /\ Here \in Seq(LineType)
    BY <2>1, <2>2, NamedIs DEF Base, Here
  <2>4. Walked(Here, reader.first, cut).events \in Seq(EventType)
    BY <1>1, <1>7, <2>3, WalkedIs DEF Backwards, ReaderType
  <2> DEFINE more == Walked(Here, reader.first, cut).events
             read == reader.read \cup {names[reader.k]}
             out == reader.out \o more
             t == Took(Walked(lines, reader.first, cut))
  <2>5. read \in SUBSET Nat /\ out \in Seq(EventType)
    BY <1>1, <2>3, <2>4 DEF ReaderType
  <2>6. t = [reads EXCEPT !.out = @ \o more]
    BY <2>1
  <2>7. t = [[seen EXCEPT !.read = read, !.first = FALSE] EXCEPT !.out = out]
    BY <1>2, <2>6 DEF ReaderType
  <2> HIDE DEF t, read, out
  <2>8. /\ t \in ReaderType /\ t.k = seen.k
        /\ t.query = seen.query /\ t.read = read
        /\ t.out = out /\ t.first = FALSE
        /\ t.finished = seen.finished /\ t.reached = seen.reached
        /\ t.errors = seen.errors /\ t.capped = seen.capped
        /\ t.rolls = seen.rolls /\ t.from = seen.from /\ t.life = seen.life
    BY <1>2, <2>5, <2>7 DEF ReaderType
  <2> QED
    BY <1>2, <2>1, <2>8 DEF t, read, out
<1>8. ASSUME lines # << >>, ~known, ~reader.finished, NEW cut \in Nat,
             NEW next \in ReaderType,
             LET t == Took(Walked(lines, reader.first, cut))
                 stop == Walked(lines, reader.first, cut).stop
             IN  \/ cut = 0 /\ stop > 1 /\ reader' = EndAt(t)
                 \/ /\ cut = 0 /\ stop = 1 /\ reader' = GoTo(next)
                    /\ next = [t EXCEPT !.finished = TRUE]
                 \/ cut = 0 /\ stop = 0 /\ reader' = GoTo(t)
                 \/ /\ cut > 0 /\ stop = 0 /\ reader' = EndAt(next)
                    /\ next = [t EXCEPT !.capped = TRUE]
                 \/ /\ cut > 0 /\ stop = 0 /\ reader' = GoTo(next)
                    /\ next = [t EXCEPT !.errors = TRUE]
      PROVE  ReadsFile(cut) /\ reader' \in ReaderType
  <2> DEFINE t == Took(Walked(lines, reader.first, cut))
             stop == Walked(lines, reader.first, cut).stop
  <2>1. /\ lines = Here /\ names[reader.k] # NoFile /\ names[reader.k] \notin reader.read
        /\ t \in ReaderType /\ t.k = reader.k
        /\ t.query = reader.query /\ t.read = reader.read \cup {names[reader.k]}
        /\ t.out = reader.out \o Walked(Here, reader.first, cut).events /\ t.first = FALSE
        /\ t.finished = reader.finished /\ t.reached = reader.reached
        /\ t.errors = reader.errors /\ t.capped = reader.capped
        /\ t.rolls = reader.rolls /\ t.from = seen.from /\ t.life = seen.life
    BY <1>7, <1>8
  <2>2. stop = Walked(Here, reader.first, cut).stop
    BY <2>1
  <2>3. \/ cut = 0 /\ stop > 1 /\ reader' = EndAt(t)
        \/ /\ cut = 0 /\ stop = 1 /\ reader' = GoTo(next)
           /\ next = [t EXCEPT !.finished = TRUE]
        \/ cut = 0 /\ stop = 0 /\ reader' = GoTo(t)
        \/ /\ cut > 0 /\ stop = 0 /\ reader' = EndAt(next)
           /\ next = [t EXCEPT !.capped = TRUE]
        \/ /\ cut > 0 /\ stop = 0 /\ reader' = GoTo(next)
           /\ next = [t EXCEPT !.errors = TRUE]
    BY <1>8
  <2>4. ~reader.finished
    BY <1>8
  <2> HIDE DEF t, stop
  <2>5. CASE cut = 0 /\ stop > 1 /\ reader' = EndAt(t)
    <3>1. reader' \in ReaderType /\ Back /\ Carries(t)
      BY <2>1, <2>5, EndIs
    <3> QED
      BY <1>2, <2>1, <2>2, <2>4, <2>5, <3>1 DEF ReadsFile, Notes, Carries
  <2>6. CASE cut = 0 /\ stop = 1 /\ reader' = GoTo(next) /\ next = [t EXCEPT !.finished = TRUE]
    <3>1. /\ next \in ReaderType /\ next.k = t.k
          /\ next.query = t.query /\ next.read = t.read
          /\ next.out = t.out /\ next.first = t.first
          /\ next.finished = TRUE /\ next.reached = t.reached
          /\ next.errors = t.errors /\ next.capped = t.capped
          /\ next.rolls = t.rolls /\ next.from = t.from /\ next.life = t.life
      BY <2>1, <2>6 DEF ReaderType
    <3>2. cut \in Nat /\ cut = 0 /\ stop = 1
      BY <2>6
    <3>3. reader' \in ReaderType /\ Onward /\ Carries(next)
      BY <2>1, <2>6, <3>1, GoIs
    <3> QED
      BY <1>2, <2>1, <2>2, <2>4, <3>1, <3>2, <3>3 DEF ReadsFile, Notes, Carries
  <2>7. CASE cut = 0 /\ stop = 0 /\ reader' = GoTo(t)
    <3>1. reader' \in ReaderType /\ Onward /\ Carries(t)
      BY <2>1, <2>7, GoIs
    <3> QED
      BY <1>2, <2>1, <2>2, <2>4, <2>7, <3>1 DEF ReadsFile, Notes, Carries
  <2>8. CASE cut > 0 /\ stop = 0 /\ reader' = EndAt(next) /\ next = [t EXCEPT !.capped = TRUE]
    <3>1. /\ next \in ReaderType /\ next.k = t.k
          /\ next.query = t.query /\ next.read = t.read
          /\ next.out = t.out /\ next.first = t.first
          /\ next.finished = t.finished /\ next.reached = t.reached
          /\ next.errors = t.errors /\ next.capped = TRUE
          /\ next.rolls = t.rolls /\ next.from = t.from /\ next.life = t.life
      BY <2>1, <2>8 DEF ReaderType
    <3>2. cut \in Nat /\ cut > 0 /\ stop = 0
      BY <2>8
    <3>3. reader' \in ReaderType /\ Back /\ Carries(next)
      BY <2>1, <2>8, <3>1, EndIs
    <3> QED
      BY <1>2, <2>1, <2>2, <2>4, <3>1, <3>2, <3>3 DEF ReadsFile, Notes, Carries
  <2>9. CASE cut > 0 /\ stop = 0 /\ reader' = GoTo(next) /\ next = [t EXCEPT !.errors = TRUE]
    <3>1. /\ next \in ReaderType /\ next.k = t.k
          /\ next.query = t.query /\ next.read = t.read
          /\ next.out = t.out /\ next.first = t.first
          /\ next.finished = t.finished /\ next.reached = t.reached
          /\ next.errors = TRUE /\ next.capped = t.capped
          /\ next.rolls = t.rolls /\ next.from = t.from /\ next.life = t.life
      BY <2>1, <2>9 DEF ReaderType
    <3>2. cut \in Nat /\ cut > 0 /\ stop = 0
      BY <2>9
    <3>3. reader' \in ReaderType /\ Onward /\ Carries(next)
      BY <2>1, <2>9, <3>1, GoIs
    <3> QED
      BY <1>2, <2>1, <2>2, <2>4, <3>1, <3>2, <3>3 DEF ReadsFile, Notes, Carries
  <2> QED
    BY <2>3, <2>5, <2>6, <2>7, <2>8, <2>9
<1>9. CASE lines # << >> /\ ~known /\ ~reader.finished
           /\ LET found == Walked(lines, reader.first, 0)
              IN  CASE found.stop > 1 -> reader' = EndAt(Took(found))
                    [] found.stop = 1 -> reader' = GoTo([Took(found) EXCEPT !.finished = TRUE])
                    [] OTHER -> reader' = GoTo(Took(found))
  <2> DEFINE t == Took(Walked(lines, reader.first, 0))
             stop == Walked(lines, reader.first, 0).stop
             next == [t EXCEPT !.finished = TRUE]
  <2>1. t \in ReaderType /\ lines = Here
    BY <1>7, <1>9
  <2>2. stop \in Nat
    <3>1. reader.k \in Paths /\ names[reader.k] # NoFile
      BY <1>9 DEF Walk, Base, Types
    <3>2. Here \in Seq(LineType) /\ reader.first \in BOOLEAN /\ Len(Here) \in Nat
      BY <1>1, <3>1, NamedIs DEF Base, Here, ReaderType
    <3> QED
      BY <1>1, <2>1, <3>2, WalkedIs
  <2>3. \/ stop > 1 /\ reader' = EndAt(t)
        \/ stop = 1 /\ reader' = GoTo(next)
        \/ stop = 0 /\ reader' = GoTo(t)
    <3>1. (CASE stop > 1 -> reader' = EndAt(t)
             [] stop = 1 -> reader' = GoTo(next)
             [] OTHER -> reader' = GoTo(t))
      BY <1>9
    <3> HIDE DEF t, stop, next
    <3> QED
      BY <2>2, <3>1
  <2>4. next \in ReaderType
    <3> HIDE DEF t
    <3> QED
      BY <2>1 DEF ReaderType
  <2>5. ReadsFile(0) /\ reader' \in ReaderType
    BY <1>8, <1>9, <2>3, <2>4
  <2> QED
    BY <1>3, <2>5
<1>10. ASSUME lines # << >>, ~known, ~reader.finished, NEW cut \in DOMAIN lines,
              Walked(lines, reader.first, cut).stop = 0,
              LET t == Took(Walked(lines, reader.first, cut))
              IN  \/ reader' = EndAt([t EXCEPT !.capped = TRUE])
                  \/ reader' = GoTo([t EXCEPT !.errors = TRUE])
       PROVE  reader' \in ReaderType /\ \E c \in Nat : ReadsFile(c)
  <2> DEFINE t == Took(Walked(lines, reader.first, cut))
             capped == [t EXCEPT !.capped = TRUE]
             errors == [t EXCEPT !.errors = TRUE]
  <2>1. cut \in Nat /\ cut > 0
    <3>1. reader.k \in Paths /\ names[reader.k] # NoFile /\ lines = Here
      BY <1>10 DEF Walk, Base, Types, Here
    <3>2. DOMAIN lines = 1 .. Len(lines) /\ Len(lines) \in Nat
      BY <3>1, NamedIs DEF Base, Here
    <3> QED
      BY <1>10, <3>2
  <2>2. t \in ReaderType
    BY <1>7, <1>10, <2>1
  <2>3. capped \in ReaderType /\ errors \in ReaderType
    <3> HIDE DEF t
    <3> QED
      BY <2>2 DEF ReaderType
  <2>4. reader' = EndAt(capped) \/ reader' = GoTo(errors)
    BY <1>10
  <2>5. ReadsFile(cut) /\ reader' \in ReaderType
    BY <1>8, <1>10, <2>1, <2>3, <2>4
  <2> QED
    BY <2>1, <2>5
<1> QED
  BY <1>1, <1>3, <1>4, <1>5, <1>6, <1>9, <1>10 DEF Walk, Go, Return, GoTo, EndAt, seen

LEMMA WalkSet ==
    ASSUME Base, Walk
    PROVE  Types' /\ SetInv' /\ Looks
<1>1. UNCHANGED <<names, files, sink, emitted, kills, fused, unended, born>>
  BY DEF Walk, log, history
<1>2. faults' \in Nat
  <2>1. faults' = faults \/ faults' = faults + 1
    BY DEF Walk, Fails
  <2> QED
    BY <2>1 DEF Base, Types
<1>3. /\ reader' \in ReaderType /\ reader'.query = reader.query
      /\ reader'.pc = "done" \/ (reader'.pc = "walk" /\ reader'.k = reader.k + 1 /\ reader.k # Keep - 1)
  BY WalkMoves DEF Passes, ReadsFile, Notes, Onward, Back
<1>4. reader.query \in Queries /\ reader.k \in Paths
  BY DEF Base, Types, Walk
<1>5. reader'.pc = "walk" => reader'.k \in Paths
  BY <1>3, <1>4, LogAssumption DEF Paths
<1>6. Types'
  BY <1>1, <1>2, <1>3, <1>4, <1>5 DEF Base, Types
<1> QED
  BY <1>1, <1>6 DEF Base, SetInv, Descends, Looks

LEMMA BaseBegins == Init => Base
<1> SUFFICES ASSUME Init PROVE Base
  OBVIOUS
<1>1. Types /\ SetInv
  BY SetBegins
<1>2. 1 .. Len(files) = {}
  <2>1. Len(<< >>) = 0
    OBVIOUS
  <2> QED
    BY <2>1 DEF Init
<1>3. ~Pending
  BY DEF Init, Pending, Rolling, Off
<1> QED
  BY <1>1, <1>2, <1>3 DEF Base, EventInv

LEMMA BaseStep ==
    ASSUME Base, [Next]_vars
    PROVE  Base' /\ (Settles \/ Writes \/ Opens \/ Emits \/ Looks)
<1>1. CASE Write \/ Die
  <2>1. Types' /\ SetInv'
    BY <1>1, OpenSinkSet, EmitSet, RemoveSet, ShiftSet, MoveSet, ReopenSet, AppendSet, EndSet, DieSet
       DEF Write, Base
  <2>2. Settles \/ Writes \/ Opens \/ Emits
    BY <1>1, <2>1, WriteKinds DEF Base
  <2>3. EventInv'
    BY <2>2, KindEvents
  <2> QED
    BY <2>1, <2>2, <2>3 DEF Base
<1>2. CASE Ask \/ Answer
  <2>1. Types' /\ SetInv'
    BY <1>2, AskSet, AnswerSet DEF Base
  <2>2. Looks
    BY <1>2 DEF Ask, Answer, Looks, log, history
  <2>3. EventInv'
    BY <2>2, KindEvents
  <2> QED
    BY <2>1, <2>2, <2>3 DEF Base
<1>3. CASE Walk
  <2>1. Types' /\ SetInv' /\ Looks
    BY <1>3, WalkSet
  <2>2. EventInv'
    BY <2>1, KindEvents
  <2> QED
    BY <2>1, <2>2 DEF Base
<1>4. CASE UNCHANGED vars
  <2>1. Types' /\ SetInv' /\ Looks
    BY <1>4 DEF Base, Types, SetInv, Descends, Looks, vars, log, history
  <2>2. EventInv'
    BY <2>1, KindEvents
  <2> QED
    BY <2>1, <2>2 DEF Base
<1> QED
  BY <1>1, <1>2, <1>3, <1>4 DEF Next

\* Types, the set and the order of events, for any number of files, lines,
\* events, deaths and failed calls.
THEOREM LogIsOrdered == Spec => []Base
<1>1. Base /\ [Next]_vars => Base'
  BY BaseStep
<1> QED
  BY BaseBegins, <1>1, PTL DEF Spec

-----------------------------------------------------------------------------
(* An event answered Written stays readable.                               *)

FuseInv ==
  fused + (IF (Pending \/ sink.pc = "idle") /\ Joins(sink.ino) THEN 1 ELSE 0) <= unended

Torn(f, n) == f[n] # << >> /\ ~f[n][Len(f[n])].ended

LEMMA TornIs ==
    ASSUME NEW n
    PROVE  (Joins(n) <=> Torn(files, n)) /\ (Joins(n)' <=> Torn(files', n))
  BY DEF Joins, Torn, Last

LEMMA FuseStep ==
    ASSUME Base, Base', FuseInv, [Next]_vars
    PROVE  FuseInv'
<1> USE DEF NoFile
<1>1. /\ fused \in Nat /\ unended \in Nat /\ fused' \in Nat /\ unended' \in Nat
      /\ Len(files) \in Nat /\ Len(files') \in Nat
  BY FilesFacts DEF Base, Types
<1>2. fused <= unended
  BY <1>1 DEF FuseInv
<1>3. ASSUME fused' = fused, unended' = unended,
             Pending' \/ sink'.pc = "idle" =>
               (Pending \/ sink.pc = "idle") /\ (Torn(files', sink'.ino) => Torn(files, sink.ino))
      PROVE  FuseInv'
  BY <1>1, <1>2, <1>3, TornIs DEF FuseInv
<1>4. ASSUME fused' = fused, unended' = unended, ~Torn(files', sink'.ino)
      PROVE  FuseInv'
  BY <1>1, <1>2, <1>4, TornIs DEF FuseInv
<1>4a. ASSUME fused' = fused + 1, unended' = unended, fused + 1 <= unended,
              ~Torn(files', sink'.ino)
       PROVE  FuseInv'
  BY <1>1, <1>4a, TornIs DEF FuseInv
<1>5. ASSUME fused' = fused, unended' = unended + 1
      PROVE  FuseInv'
  BY <1>1, <1>2, <1>5 DEF FuseInv
<1>6. CASE OpenSink
  <2> DEFINE ino == AtPath(0)
             lines == Opened(0)[ino]
             torn == lines # << >> /\ ~Last(lines).ended
  <2>1. fused' = fused /\ sink'.ino = ino
    BY <1>6 DEF OpenSink, Off
  <2>2. CASE ~torn /\ files' = Opened(0) /\ unended' = unended
    BY <1>4, <2>1, <2>2 DEF Torn, Last
  <2>3. CASE torn /\ files' = Ended(ino) /\ unended' = unended
    <3>1. /\ ino = Len(Opened(0)) /\ ino > 0
          /\ names[0] # NoFile => Opened(0) = files
          /\ names[0] = NoFile => Opened(0)[Len(files) + 1] = << >> /\ ino = Len(files) + 1
      BY OpenedIs DEF Base, Types, SetInv
    <3>2. ino = Len(files) /\ Len(files) \in 1 .. Len(files)
      BY <1>1, <2>3, <3>1
    <3>3. Closes(files, files', Len(files))
      BY <2>3, <3>2, EndedIs DEF Base, Types
    <3>4. Len(files'[ino]) > 0 => files'[ino][Len(files'[ino])].ended
      BY <3>2, <3>3 DEF Closes
    <3>5. files'[ino] # << >> => Len(files'[ino]) > 0
      <4>1. ino \in 1 .. Len(files')
        BY <3>2, <3>3 DEF Closes, Elsewhere
      <4> QED
        BY <4>1, FilesFacts DEF Base, Types
    <3> QED
      BY <1>4, <2>1, <2>3, <3>4, <3>5 DEF Torn
  <2>4. CASE unended' = unended + 1
    BY <1>5, <2>1, <2>4
  <2> QED
    BY <1>6, <2>2, <2>3, <2>4 DEF OpenSink
<1>7. CASE Emit
  <2>1. files' = files /\ fused' = fused /\ unended' = unended /\ sink.pc = "idle" /\ sink'.ino = sink.ino
    BY <1>7 DEF Emit, log, history, Base, Types, SinkType
  <2> QED
    BY <1>3, <2>1
<1>8. CASE RemoveOldest
  <2>1. fused' = fused /\ unended' = unended /\ Pending
    BY <1>8 DEF RemoveOldest, RollStep, history, Pending, Rolling
  <2>2. sink'.ino = sink.ino /\ sink.ino \in 1 .. Len(files)
    <3>1. sink'.ino = sink.ino
      BY <1>8 DEF RemoveOldest, RollStep, RollFails, Shifting, Base, Types, SinkType
    <3>2. sink.pc = "remove"
      BY <1>8 DEF RemoveOldest, RollStep
    <3>3. sink.ino = Len(files) /\ Len(files) > 0
      BY <3>2 DEF Base, SetInv
    <3> QED
      BY <1>1, <3>1, <3>3
  <2>3. files' = files \/ files' = Freed(Keep - 1)
    BY <1>8 DEF RemoveOldest, RollStep, log
  <2>4. CASE files' = files
    BY <1>3, <2>1, <2>2, <2>4
  <2>5. CASE files' = Freed(Keep - 1)
    <3>1. /\ Elsewhere(files, files', names[Keep - 1])
          /\ names[Keep - 1] # NoFile => files'[names[Keep - 1]] = << >>
      BY <2>5, FreedIs, PathFacts DEF Base, Types, SetInv
    <3>2. CASE sink.ino = names[Keep - 1]
      BY <1>4, <2>1, <2>2, <3>1, <3>2 DEF Torn
    <3>3. CASE sink.ino # names[Keep - 1]
      <4>1. files'[sink.ino] = files[sink.ino]
        BY <2>2, <3>1, <3>3 DEF Elsewhere
      <4> QED
        BY <1>3, <2>1, <2>2, <4>1 DEF Torn
    <3> QED
      BY <3>2, <3>3
  <2> QED
    BY <2>3, <2>4, <2>5
<1>9. CASE Shift \/ MoveCurrent
  <2>1. fused' = fused /\ unended' = unended /\ Pending
    BY <1>9 DEF Shift, MoveCurrent, RollStep, history, Pending, Rolling
  <2>2. files' = files
    BY <1>9, ShiftSet, MoveSet DEF Base, log, MovesUp
  <2>3. sink'.ino = sink.ino
    BY <1>9 DEF Shift, MoveCurrent, RollStep, RollFails, Base, Types, SinkType
  <2> QED
    BY <1>3, <2>1, <2>2, <2>3
<1>10. CASE Reopen
  <2>1. fused' = fused /\ unended' = unended /\ Pending /\ sink.pc = "reopen"
    BY <1>10 DEF Reopen, RollStep, history, Pending, Rolling
  <2>2. CASE files' = Opened(0) /\ sink' = [sink EXCEPT !.pc = "append", !.ino = AtPath(0), !.size = 0]
    <3>1. names[0] = NoFile
      BY <2>1 DEF Base, SetInv
    <3>2. /\ AtPath(0) = Len(files) + 1 /\ Opened(0)[Len(files) + 1] = << >>
      BY <3>1, OpenedIs DEF Base, Types, SetInv
    <3>3. sink'.ino = AtPath(0)
      BY <2>2 DEF Base, Types, SinkType
    <3> QED
      BY <1>4, <2>1, <2>2, <3>2, <3>3 DEF Torn
  <2>3. CASE RollFails /\ UNCHANGED log
    <3>1. files' = files /\ sink'.ino = sink.ino
      BY <2>3 DEF RollFails, log, Base, Types, SinkType
    <3> QED
      BY <1>3, <2>1, <3>1
  <2> QED
    BY <1>10, <2>2, <2>3 DEF Reopen, RollStep
<1>11. CASE AppendEvent
  <2>1. /\ sink.pc = "append" /\ unended' = unended /\ sink'.ino = sink.ino
        /\ sink.ino = Len(files) /\ sink.ino \in 1 .. Len(files)
    <3>1. sink.pc = "append" /\ unended' = unended
      BY <1>11 DEF AppendEvent
    <3>2. sink'.ino = sink.ino
      BY <1>11, AppendSet DEF Base
    <3>3. sink.ino = Len(files) /\ Len(files) > 0
      BY <3>1 DEF Base, SetInv
    <3> QED
      BY <1>1, <3>1, <3>2, <3>3
  <2>2. CASE /\ files' = Appended(sink.ino, Line(sink.event, TRUE, TRUE))
             /\ fused' = IF Joins(sink.ino) THEN fused + 1 ELSE fused
    <3> DEFINE line == Line(sink.event, TRUE, TRUE)
    <3>1. line \in LineType /\ line.ended
      BY JunkType DEF Base, Types, SinkType
    <3>2. files' = Appended(sink.ino, line)
      BY <2>2
    <3> HIDE DEF line
    <3>3. Extends(files, files', sink.ino, line)
      BY <2>1, <3>1, <3>2, AppendedIs DEF Base, Types
    <3>4. Len(files[sink.ino]) \in Nat
      BY <2>1, FilesFacts DEF Base, Types
    <3>5. ~Torn(files', sink.ino)
      <4>1. CASE Torn(files, sink.ino)
        <5>1. Len(files'[sink.ino]) = Len(files[sink.ino])
              /\ files'[sink.ino][Len(files[sink.ino])] = Line(Junk, FALSE, line.ended)
          BY <3>3, <4>1 DEF Extends, Torn
        <5>2. Line(Junk, FALSE, line.ended).ended
          BY <3>1 DEF Line
        <5> QED
          BY <5>1, <5>2 DEF Torn
      <4>2. CASE ~Torn(files, sink.ino)
        <5>1. Len(files'[sink.ino]) = Len(files[sink.ino]) + 1
              /\ files'[sink.ino][Len(files[sink.ino]) + 1] = line
          BY <3>3, <4>2 DEF Extends, Torn
        <5> QED
          BY <3>1, <5>1 DEF Torn
      <4> QED
        BY <4>1, <4>2
    <3>6. fused' = fused \/ (fused' = fused + 1 /\ fused + 1 <= unended)
      <4>1. CASE Joins(sink.ino)
        BY <1>1, <2>1, <2>2, <4>1 DEF FuseInv, Pending
      <4>2. CASE ~Joins(sink.ino)
        BY <1>1, <1>2, <2>2, <4>2
      <4> QED
        BY <4>1, <4>2
    <3> QED
      BY <1>4, <1>4a, <2>1, <3>5, <3>6
  <2>3. CASE fused' = fused /\ sink' = [sink EXCEPT !.pc = "end", !.event = Junk]
    <3>1. sink'.pc = "end"
      BY <2>3 DEF Base, Types, SinkType
    <3>2. ~(Pending' \/ sink'.pc = "idle")
      BY <3>1 DEF Pending, Rolling
    <3> QED
      BY <1>3, <2>1, <2>3, <3>2
  <2> QED
    BY <1>11, <2>2, <2>3 DEF AppendEvent
<1>12. CASE EndFragment
  <2>1. /\ sink.pc = "end" /\ fused' = fused /\ sink'.ino = sink.ino
        /\ sink.ino = Len(files) /\ sink.ino \in 1 .. Len(files)
    BY <1>1, <1>12, EndSet DEF EndFragment, Base, SetInv
  <2>2. CASE files' = Ended(sink.ino) /\ unended' = unended
    <3>1. Closes(files, files', sink.ino)
      BY <2>1, <2>2, EndedIs DEF Base, Types
    <3>2. Len(files'[sink.ino]) > 0 => files'[sink.ino][Len(files'[sink.ino])].ended
      BY <3>1 DEF Closes
    <3>3. sink.ino \in 1 .. Len(files')
      BY <2>1, <3>1 DEF Closes, Elsewhere
    <3>4. files'[sink.ino] # << >> => Len(files'[sink.ino]) > 0
      BY <3>3, FilesFacts DEF Base, Types
    <3> QED
      BY <1>4, <2>1, <2>2, <3>2, <3>4 DEF Torn
  <2>3. CASE unended' = unended + 1
    BY <1>5, <2>1, <2>3
  <2> QED
    BY <1>12, <2>2, <2>3 DEF EndFragment
<1>13. CASE Die
  <2>1. fused' = fused /\ unended' = unended /\ sink'.pc = "off"
    BY <1>13 DEF Die, history, Off
  <2> QED
    BY <1>3, <2>1 DEF Pending, Rolling
<1>14. CASE Ask \/ Walk \/ Answer \/ UNCHANGED vars
  <2>1. fused' = fused /\ unended' = unended /\ sink' = sink /\ files' = files
    BY <1>14 DEF Ask, Walk, Answer, vars, log, history
  <2> QED
    BY <1>3, <2>1 DEF Pending, Rolling
<1> QED
  BY <1>6, <1>7, <1>8, <1>9, <1>10, <1>11, <1>12, <1>13, <1>14 DEF Next, Write

\* No event answered Written is lost to a reader but behind a fragment that
\* could not be ended, whatever fails and however often the process dies.
THEOREM WrittenStaysReadable == Spec => []WrittenIsReadable
<1>1. Init => FuseInv
  BY DEF Init, FuseInv, Off, Pending, Rolling
<1>2. Base /\ Base' /\ FuseInv /\ [Next]_vars => FuseInv'
  BY FuseStep
<1>3. Base /\ FuseInv => WrittenIsReadable
  <2>1. Base => fused \in Nat /\ unended \in Nat
    BY DEF Base, Types
  <2> QED
    BY <2>1 DEF FuseInv, WrittenIsReadable
<1> QED
  BY LogIsOrdered, <1>1, <1>2, <1>3, PTL DEF Spec

-----------------------------------------------------------------------------
(* Events leave the set with the oldest file.                              *)

\* The lines of a file that decode and have ended stay.
Remains(n) ==
  /\ n \in 1 .. Len(files')
  /\ \A i \in Good(n) : files[n][i].ended => i \in Good(n)' /\ files'[n][i] = files[n][i]

LEMMA HeldRemains ==
    ASSUME Types, SetInv, Types', SetInv', NEW k \in Paths, NEW k2 \in Paths,
           NEW n \in 1 .. Len(files), names[k] = n, names'[k2] = n, Remains(n)
    PROVE  HeldAt(k) \subseteq Held'
<1> SUFFICES ASSUME NEW id \in HeldAt(k) PROVE id \in Held'
  OBVIOUS
<1>1. PICK i \in Good(names[k]) : HeldLine(k, i) /\ id = IdAt(names[k], i)
  BY HeldAtIs
<1>2. i \in Good(n) /\ files[n][i].ended /\ id = files[n][i].event.id /\ n # NoFile
  BY <1>1 DEF HeldLine, IdAt
<1>3. i \in Good(n)' /\ files'[n][i] = files[n][i] /\ n \in 1 .. Len(files')
  BY <1>2 DEF Remains
<1>4. i \in 1 .. Len(files'[n]) /\ files'[n][i].good
  BY <1>3 DEF Good
<1>5. DOMAIN files'[n] = 1 .. Len(files'[n])
  BY <1>3, FilesFacts DEF Types
<1>6. id \in HeldAt(k2)'
  BY <1>2, <1>3, <1>4, <1>5 DEF HeldAt
<1> QED
  BY <1>6 DEF Held

LEMMA AllRemains ==
    ASSUME Types, SetInv, Types', SetInv',
           \A k \in Paths : names[k] # NoFile => \E k2 \in Paths : names'[k2] = names[k],
           \A n \in 1 .. Len(files) : Remains(n)
    PROVE  Held \subseteq Held'
<1> SUFFICES ASSUME NEW k \in Paths PROVE HeldAt(k) \subseteq Held'
  BY DEF Held
<1>1. CASE names[k] = NoFile
  BY <1>1 DEF HeldAt
<1>2. CASE names[k] # NoFile
  <2>1. PICK k2 \in Paths : names'[k2] = names[k]
    BY <1>2
  <2>2. PICK n \in 1 .. Len(files) : names[k] = n
    BY <1>2, NamedIs
  <2> QED
    BY <2>1, <2>2, HeldRemains
<1> QED
  BY <1>1, <1>2

LEMMA SameRemains ==
    ASSUME Types, NEW n \in 1 .. Len(files), n \in 1 .. Len(files'), files'[n] = files[n]
    PROVE  Remains(n)
  BY DEF Remains, Good

LEMMA AppendRemains ==
    ASSUME Types, SetInv, On, Written(files'), NEW n \in 1 .. Len(files)
    PROVE  Remains(n)
<1>1. PICK whole, ended \in BOOLEAN :
        Extends(files, files', Len(files), Line(IF whole THEN sink.event ELSE Junk, whole, ended))
  BY WrittenIs DEF On
<1>2. Elsewhere(files, files', Len(files)) /\ Len(files') = Len(files) /\ Len(files) \in Nat
  BY <1>1, FilesFacts DEF Extends, Elsewhere, Types
<1>3. CASE n # Len(files)
  BY <1>2, <1>3, SameRemains DEF Elsewhere
<1>4. CASE n = Len(files)
  <2>1. Len(files[n]) \in Nat
    BY FilesFacts DEF Types
  <2>2. ASSUME NEW i \in 1 .. Len(files[n]), files[n][i].ended
        PROVE  Len(files'[n]) >= Len(files[n]) /\ files'[n][i] = files[n][i] /\ Len(files'[n]) \in Nat
    <3>1. CASE Torn(files, n)
      <4>1. i # Len(files[n])
        BY <2>2, <3>1 DEF Torn
      <4> QED
        BY <1>1, <1>4, <2>1, <2>2, <3>1, <4>1 DEF Extends, Torn
    <3>2. CASE ~Torn(files, n)
      <4>1. /\ Len(files'[n]) = Len(files[n]) + 1
            /\ \A j \in 1 .. Len(files[n]) : files'[n][j] = files[n][j]
        BY <1>1, <1>4, <3>2 DEF Extends, Torn
      <4> QED
        BY <2>1, <2>2, <4>1
    <3> QED
      BY <3>1, <3>2
  <2> QED
    BY <1>2, <2>1, <2>2 DEF Remains, Good
<1> QED
  BY <1>3, <1>4

LEMMA CloseRemains ==
    ASSUME Types, Types', Len(files) > 0, Closes(files, files', Len(files)), NEW n \in 1 .. Len(files)
    PROVE  Remains(n)
<1>1. Elsewhere(files, files', Len(files)) /\ Len(files') = Len(files) /\ Len(files) \in Nat
  BY FilesFacts DEF Closes, Elsewhere, Types
<1>2. CASE n # Len(files)
  BY <1>1, <1>2, SameRemains DEF Elsewhere
<1>3. CASE n = Len(files)
  <2>1. /\ Len(files[n]) \in Nat /\ Len(files'[n]) = Len(files[n])
        /\ \A i \in 1 .. Len(files[n]) : files[n][i] \in LineType /\ files'[n][i] \in LineType
    BY <1>1, <1>3, FilesFacts DEF Types, Closes
  <2>2. ASSUME NEW i \in 1 .. Len(files[n]), files[n][i].good, files[n][i].ended
        PROVE  files'[n][i] = files[n][i]
    <3>1. CASE i < Len(files[n])
      BY <1>3, <3>1 DEF Closes
    <3>2. CASE i = Len(files[n])
      <4>1. /\ files'[n][i].event = files[n][i].event /\ files'[n][i].good = files[n][i].good
            /\ files'[n][i].ended
        BY <1>3, <2>1, <3>2 DEF Closes
      <4>2. files'[n][i].ended = files[n][i].ended
        BY <2>1, <2>2, <4>1 DEF LineType
      <4> QED
        BY <2>1, <4>1, <4>2 DEF LineType
    <3> QED
      BY <2>1, <3>1, <3>2
  <2> QED
    BY <1>1, <1>3, <2>1, <2>2 DEF Remains, Good
<1> QED
  BY <1>2, <1>3

LEMMA OldestStep ==
    ASSUME Base, Base', [Next]_vars
    PROVE  \A id \in Held \ Held' : id \in HeldAt(Keep - 1) /\ \A kept \in Held' : kept > id
<1>1. /\ Types /\ SetInv /\ EventInv /\ Types' /\ SetInv' /\ Len(files) \in Nat /\ Len(files') \in Nat
      /\ files \in FilesType /\ names \in [Paths -> Nat]
  BY FilesFacts DEF Base, Types
<1> SUFFICES Held \subseteq Held' \/
             \A id \in Held \ Held' : id \in HeldAt(Keep - 1) /\ \A kept \in Held' : kept > id
  OBVIOUS
<1>2. ASSUME files' = files
      PROVE  \A n \in 1 .. Len(files) : Remains(n)
  BY <1>1, <1>2, SameRemains
<1>3. ASSUME files' = Opened(0)
      PROVE  \A n \in 1 .. Len(files) : Remains(n)
  <2>1. Len(files') >= Len(files) /\ \A m \in 1 .. Len(files) : files'[m] = files[m]
    BY <1>1, <1>3, OpenedIs DEF SetInv
  <2> QED
    BY <1>1, <2>1, SameRemains
<1>4. ASSUME Len(files) > 0, files' = Ended(Len(files))
      PROVE  \A n \in 1 .. Len(files) : Remains(n)
  <2>1. Closes(files, files', Len(files))
    BY <1>1, <1>4, EndedIs
  <2> QED
    BY <1>1, <1>4, <2>1, CloseRemains
<1>5. CASE OpenSink
  <2>1. \A k \in Paths : names[k] # NoFile => names'[k] = names[k]
    BY <1>1, <1>5 DEF OpenSink, AtPath
  <2>2. CASE names[0] = NoFile
    <3>1. files' = Opened(0)
      <4>1. Opened(0)[AtPath(0)] = << >>
        BY <1>1, <2>2, OpenedIs DEF SetInv, AtPath
      <4> QED
        BY <1>5, <4>1 DEF OpenSink
    <3> QED
      BY <1>1, <1>3, <2>1, <3>1, AllRemains
  <2>3. CASE names[0] # NoFile
    <3>1. Opened(0) = files /\ AtPath(0) = Len(files) /\ Len(files) > 0
      BY <1>1, <2>3, NamedIs, PathFacts DEF SetInv, Opened, AtPath
    <3>2. files' = files \/ files' = Ended(Len(files))
      BY <1>5, <3>1 DEF OpenSink
    <3> QED
      BY <1>1, <1>2, <1>4, <2>1, <3>1, <3>2, AllRemains
  <2> QED
    BY <2>2, <2>3
<1>6. CASE Emit \/ Ask \/ Walk \/ Answer \/ UNCHANGED vars
  <2>1. names' = names /\ files' = files
    BY <1>6 DEF Emit, Ask, Walk, Answer, vars, log
  <2> QED
    BY <1>1, <1>2, <2>1, AllRemains
<1>7. CASE RemoveOldest
  <2>1. CASE names' = [names EXCEPT ![Keep - 1] = NoFile] /\ files' = Freed(Keep - 1)
    <3>1. Elsewhere(files, files', names[Keep - 1])
      BY <1>1, <2>1, FreedIs, PathFacts DEF SetInv
    <3>2. \A k \in Paths : k # Keep - 1 => names'[k] = names[k]
      BY <1>1, <2>1
    <3>3. names'[Keep - 1] = NoFile
      BY <1>1, <2>1, PathFacts
    <3>4. ASSUME NEW k \in Paths, k # Keep - 1
          PROVE  HeldAt(k) \subseteq Held'
      <4>1. CASE names[k] = NoFile
        BY <4>1 DEF HeldAt
      <4>2. CASE names[k] # NoFile
        <5>1. PICK n \in 1 .. Len(files) : names[k] = n
          BY <1>1, <4>2, NamedIs
        <5>2. n # names[Keep - 1]
          <6>1. k < Keep - 1 /\ k \in Nat
            BY <3>4, PathFacts
          <6>2. names[Keep - 1] # NoFile => names[k] > names[Keep - 1]
            BY <1>1, <4>2, <6>1, PathFacts DEF SetInv, Descends
          <6> QED
            BY <1>1, <4>2, <5>1, <6>2
        <5>3. n \in 1 .. Len(files') /\ files'[n] = files[n]
          BY <1>1, <3>1, <5>2 DEF Elsewhere
        <5>4. Remains(n) /\ names'[k] = n
          BY <1>1, <3>2, <3>4, <5>1, <5>3, SameRemains
        <5> QED
          BY <1>1, <5>1, <5>4, HeldRemains
      <4> QED
        BY <4>1, <4>2
    <3>5. ASSUME NEW id \in Held \ Held'
          PROVE  id \in HeldAt(Keep - 1)
      BY <3>4, <3>5, PathFacts DEF Held
    <3>6. ASSUME NEW id \in HeldAt(Keep - 1), NEW kept \in Held'
          PROVE  kept > id
      <4>1. PICK i \in Good(names[Keep - 1]) :
              HeldLine(Keep - 1, i) /\ id = IdAt(names[Keep - 1], i)
        BY <1>1, <3>6, HeldAtIs, PathFacts
      <4>2. PICK k \in Paths : kept \in HeldAt(k)'
        BY DEF Held
      <4>3. k # Keep - 1
        BY <3>3, <4>2 DEF HeldAt
      <4>4. names[k] # NoFile /\ names'[k] = names[k]
        BY <3>2, <4>2, <4>3 DEF HeldAt
      <4>5. k < Keep - 1
        BY <4>3, PathFacts
      <4>6. names[k] > names[Keep - 1] /\ names[Keep - 1] # NoFile
        BY <1>1, <4>1, <4>4, <4>5, PathFacts DEF SetInv, Descends, HeldLine
      <4>7. /\ names[k] \in 1 .. Len(files) /\ names[Keep - 1] \in 1 .. Len(files)
            /\ names[k] # names[Keep - 1]
        BY <1>1, <4>4, <4>6, NamedIs, PathFacts
      <4>8. files'[names[k]] = files[names[k]]
        BY <3>1, <4>7 DEF Elsewhere
      <4>9. PICK j \in DOMAIN files[names[k]] :
              files[names[k]][j].good /\ kept = files[names[k]][j].event.id
        BY <4>2, <4>4, <4>8 DEF HeldAt
      <4>10. j \in Good(names[k]) /\ kept = IdAt(names[k], j)
        BY <1>1, <4>7, <4>9, FilesFacts DEF Good, IdAt
      <4>11. IdAt(names[Keep - 1], i) < IdAt(names[k], j)
        BY <1>1, <4>1, <4>6, <4>7, <4>10 DEF EventInv
      <4>12. id \in Nat /\ kept \in Nat
        BY <1>1, <4>1, <4>7, <4>10 DEF EventInv
      <4> QED
        BY <4>1, <4>10, <4>11, <4>12
    <3> QED
      BY <3>5, <3>6
  <2>2. CASE UNCHANGED log
    BY <1>1, <1>2, <2>2, AllRemains DEF log
  <2> QED
    BY <1>7, <2>1, <2>2 DEF RemoveOldest, RollStep
<1>8. CASE Shift \/ MoveCurrent
  <2>1. CASE UNCHANGED log
    BY <1>1, <1>2, <2>1, AllRemains DEF log
  <2>2. ASSUME NEW from \in Paths, from + 1 \in Paths, names[from + 1] = NoFile, MovesUp(from)
        PROVE  Held \subseteq Held'
    <3>1. ASSUME NEW k \in Paths, names[k] # NoFile
          PROVE  \E k2 \in Paths : names'[k2] = names[k]
      <4>1. CASE k = from
        BY <2>2, <4>1 DEF MovesUp
      <4>2. CASE k # from
        BY <2>2, <3>1, <4>2 DEF MovesUp
      <4> QED
        BY <4>1, <4>2
    <3> QED
      BY <1>1, <1>2, <2>2, <3>1, AllRemains DEF MovesUp
  <2>3. CASE Shift /\ ~UNCHANGED log
    <3>1. sink.n \in 1 .. Keep - 2 /\ names[sink.n + 1] = NoFile /\ MovesUp(sink.n)
      BY <1>1, <2>3, ShiftSet DEF SetInv, Shift, RollStep
    <3>2. sink.n \in Paths /\ sink.n + 1 \in Paths
      BY <3>1, LogAssumption DEF Paths
    <3> QED
      BY <2>2, <3>1, <3>2
  <2>4. CASE MoveCurrent /\ ~UNCHANGED log
    <3>1. names[0 + 1] = NoFile /\ MovesUp(0)
      BY <1>1, <2>4, MoveSet DEF SetInv, MoveCurrent, RollStep
    <3>2. 0 \in Paths /\ 0 + 1 \in Paths
      BY PathFacts
    <3> QED
      BY <2>2, <3>1, <3>2
  <2> QED
    BY <1>8, <2>1, <2>3, <2>4
<1>9. CASE Reopen
  <2>1. \A k \in Paths : names[k] # NoFile => names'[k] = names[k]
    BY <1>1, <1>9 DEF Reopen, RollStep, AtPath, log
  <2>2. files' = files \/ files' = Opened(0)
    BY <1>9 DEF Reopen, RollStep, log
  <2> QED
    BY <1>1, <1>2, <1>3, <2>1, <2>2, AllRemains
<1>10. CASE AppendEvent \/ Die
  <2>1. /\ names' = names
        /\ files' = files \/ (On /\ Written(files'))
    BY <1>1, <1>10, AppendSet, DieSet DEF AppendEvent, Die, On
  <2> QED
    BY <1>1, <1>2, <2>1, AppendRemains, AllRemains
<1>11. CASE EndFragment
  <2>1. names' = names /\ sink.ino = Len(files) /\ Len(files) > 0
    BY <1>1, <1>11 DEF EndFragment, SetInv
  <2>2. files' = files \/ files' = Ended(Len(files))
    BY <1>11, <2>1 DEF EndFragment
  <2> QED
    BY <1>1, <1>2, <1>4, <2>1, <2>2, AllRemains
<1> QED
  BY <1>5, <1>6, <1>7, <1>8, <1>9, <1>10, <1>11 DEF Next, Write

\* Whatever step of a roll fails or is the last before a death, the events
\* that leave the set are those of the file at its last path, and all older
\* than any that stays.
THEOREM OldestLeaveFirst == Spec => OldestGoesFirst
<1>1. Base /\ Base' /\ [Next]_vars =>
        [\A id \in Held \ Held' : id \in HeldAt(Keep - 1) /\ \A kept \in Held' : kept > id]_vars
  BY OldestStep
<1> QED
  BY LogIsOrdered, <1>1, PTL DEF Spec, OldestGoesFirst

-----------------------------------------------------------------------------
(* What a walk adds to its page.                                           *)

\* A line that the newest file of a walk hides: it may still be growing.
Hidden(n, i) == reader.first /\ i = Len(files[n]) /\ ~files[n][i].ended

TakenIn(n, cut, stop) ==
  {i \in Good(n) : i > cut /\ i >= stop /\ ~Hidden(n, i) /\ AtAt(n, i) >= reader.query.since}

\* The page grows by the events of lines of one file, the last of them first.
Adds(n, S) ==
  /\ \A a \in 1 .. Len(reader.out) : a \in 1 .. Len(reader'.out) /\ reader'.out[a] = reader.out[a]
  /\ \A a \in 1 .. Len(reader'.out) :
       a \in 1 .. Len(reader.out) \/ \E i \in S : reader'.out[a] = files[n][i].event
  /\ \A i \in S : \E a \in 1 .. Len(reader'.out) : reader'.out[a] = files[n][i].event
  /\ \A a, b \in 1 .. Len(reader'.out) : a \notin 1 .. Len(reader.out) /\ a < b =>
       \E i, j \in S : i > j /\ reader'.out[a] = files[n][i].event /\ reader'.out[b] = files[n][j].event

\* What the line that ends the reading of a file tells.
StopsAt(n, cut, stop) ==
  /\ stop \in 0 .. Len(files[n])
  /\ \A i \in Good(n) : i > cut /\ ~Hidden(n, i) /\ AtAt(n, i) < reader.query.since => i <= stop
  /\ \/ stop = 0
     \/ Len(reader'.out) = reader.query.limit
     \/ stop \in Good(n) /\ AtAt(n, stop) < reader.query.since

LEMMA Joined ==
    ASSUME NEW s \in Seq(EventType), NEW t \in Seq(EventType)
    PROVE  /\ s \o t \in Seq(EventType) /\ Len(s) \in Nat /\ Len(t) \in Nat
           /\ Len(s \o t) = Len(s) + Len(t)
           /\ \A a \in 1 .. Len(s) : (s \o t)[a] = s[a]
           /\ \A a \in 1 .. Len(t) : (s \o t)[Len(s) + a] = t[a]
  OBVIOUS

LEMMA QueryType ==
    ASSUME NEW q \in Queries
    PROVE  q.limit \in Nat /\ q.limit > 0 /\ q.since \in Nat
<1>1. q \in [limit : Nat \ {0}, since : {0} \cup Times] /\ Times \subseteq Nat \ {0}
  BY LogAssumption
<1> DEFINE l == q.limit
           s == q.since
<1>2. l \in Nat \ {0} /\ s \in {0} \cup Times
  BY <1>1
<1> HIDE DEF l, s
<1>3. l \in Nat /\ l > 0
  BY <1>2
<1>4. s \in Nat
  BY <1>1, <1>2
<1> QED
  BY <1>3, <1>4 DEF l, s

LEMMA ReadGives ==
    ASSUME Base, reader.pc = "walk", NEW cut \in Nat, ReadsFile(cut),
           NEW n \in 1 .. Len(files), n = names[reader.k]
    PROVE  LET stop == Walked(Here, reader.first, cut).stop
           IN  Adds(n, TakenIn(n, cut, stop)) /\ StopsAt(n, cut, stop)
<1> DEFINE found == Walked(Here, reader.first, cut)
           stop == found.stop
           S == Taken(Here, reader.first, cut)
           T == TakenIn(n, cut, stop)
           room == reader.query.limit - Len(reader.out)
<1>1. /\ reader \in ReaderType /\ reader.first \in BOOLEAN /\ reader.out \in Seq(EventType)
      /\ files[n] \in Seq(LineType) /\ Len(files[n]) \in Nat
      /\ \A i \in 1 .. Len(files[n]) : files[n][i] \in LineType
      /\ reader.query.since \in Nat /\ reader.query.limit \in Nat
  <2>1. reader.query.since \in Nat /\ reader.query.limit \in Nat
    <3>1. reader.query \in Queries
      BY DEF Base, Types
    <3> QED
      BY <3>1, QueryType
  <2>2. reader \in ReaderType /\ reader.first \in BOOLEAN /\ reader.out \in Seq(EventType)
    BY DEF Base, Types, ReaderType
  <2>3. /\ files[n] \in Seq(LineType) /\ Len(files[n]) \in Nat
        /\ \A i \in 1 .. Len(files[n]) : files[n][i] \in LineType
    BY FilesFacts DEF Base, Types
  <2> QED
    BY <2>1, <2>2, <2>3
<1>2. Here = files[n]
  BY DEF Here
<1>3. /\ found.stop \in 0 .. Len(files[n])
      /\ \A i \in OldOnes(files[n], reader.first, cut) : i <= found.stop
      /\ found.stop # 0 =>
           found.stop \in OldOnes(files[n], reader.first, cut) \/ Len(found.events) = room
      /\ Backwards(found.events, files[n], S)
  BY <1>1, <1>2, WalkedIs
<1>4. S = T
  <2>1. S = {i \in 1 .. Len(files[n]) :
               /\ i > cut /\ ~(reader.first /\ i = Len(files[n]) /\ ~files[n][i].ended)
               /\ files[n][i].good /\ ~(files[n][i].event.at < reader.query.since)
               /\ i >= found.stop}
    BY <1>2 DEF Taken, Wanted, Shown
  <2>2. T = {i \in 1 .. Len(files[n]) :
               /\ i > cut /\ ~(reader.first /\ i = Len(files[n]) /\ ~files[n][i].ended)
               /\ files[n][i].good /\ files[n][i].event.at >= reader.query.since
               /\ i >= found.stop}
    BY DEF TakenIn, Good, Hidden, AtAt
  <2>3. \A i \in 1 .. Len(files[n]) : files[n][i].event.at \in Nat
    BY <1>1 DEF LineType, EventType
  <2> HIDE DEF S, T, found
  <2>4. \A i \in 1 .. Len(files[n]) :
          ~(files[n][i].event.at < reader.query.since) <=> files[n][i].event.at >= reader.query.since
    BY <1>1, <2>3
  <2> QED
    BY <2>1, <2>2, <2>4
<1>5. reader'.out = reader.out \o found.events
  BY DEF ReadsFile
<1> HIDE DEF found, S, T
<1>6. /\ found.events \in Seq(EventType)
      /\ \A a \in 1 .. Len(found.events) : \E i \in T : found.events[a] = files[n][i].event
      /\ \A i \in T : \E a \in 1 .. Len(found.events) : found.events[a] = files[n][i].event
      /\ \A a, b \in 1 .. Len(found.events) : a < b =>
           \E i, j \in T : i > j /\ found.events[a] = files[n][i].event
                                 /\ found.events[b] = files[n][j].event
  BY <1>3, <1>4 DEF Backwards
<1> DEFINE old == reader.out
           new == reader'.out
           events == found.events
           u == Len(old)
           v == Len(events)
           w == Len(new)
<1>7. /\ u \in Nat /\ v \in Nat /\ w = u + v
      /\ \A a \in 1 .. u : new[a] = old[a]
      /\ \A a \in 1 .. v : new[u + a] = events[a]
  <2> HIDE DEF old, new, events
  <2> SUFFICES old \in Seq(EventType) /\ events \in Seq(EventType) /\ new = old \o events
    BY Joined
  <2> QED
    BY <1>1, <1>5, <1>6 DEF old, new, events
<1>11. /\ \A a \in 1 .. v : \E i \in T : events[a] = files[n][i].event
       /\ \A i \in T : \E a \in 1 .. v : events[a] = files[n][i].event
       /\ \A a, b \in 1 .. v : a < b =>
            \E i, j \in T : i > j /\ events[a] = files[n][i].event /\ events[b] = files[n][j].event
  BY <1>6
<1> HIDE DEF old, new, events, u, v, w
<1>8. ASSUME NEW a \in 1 .. w, a \notin 1 .. u
      PROVE  a - u \in 1 .. v /\ new[a] = events[a - u]
  <2>1. a - u \in 1 .. v /\ u + (a - u) = a
    BY <1>7, <1>8
  <2> QED
    BY <1>7, <2>1
<1>9. Adds(n, T)
  <2>1. ASSUME NEW a \in 1 .. u
        PROVE  a \in 1 .. w /\ new[a] = old[a]
    BY <1>7
  <2>2. ASSUME NEW a \in 1 .. w, a \notin 1 .. u
        PROVE  \E i \in T : new[a] = files[n][i].event
    BY <1>8, <1>11, <2>2
  <2>3. ASSUME NEW i \in T
        PROVE  \E a \in 1 .. w : new[a] = files[n][i].event
    <3>1. PICK a \in 1 .. v : events[a] = files[n][i].event
      BY <1>11
    <3>2. u + a \in 1 .. w
      BY <1>7
    <3> QED
      BY <1>7, <3>1, <3>2
  <2>4. ASSUME NEW a \in 1 .. w, NEW b \in 1 .. w, a \notin 1 .. u, a < b
        PROVE  \E i, j \in T : i > j /\ new[a] = files[n][i].event /\ new[b] = files[n][j].event
    <3>1. b \notin 1 .. u /\ a - u < b - u
      BY <1>7, <2>4
    <3>2. a - u \in 1 .. v /\ b - u \in 1 .. v /\ new[a] = events[a - u] /\ new[b] = events[b - u]
      BY <1>8, <2>4, <3>1
    <3>3. PICK i \in T, j \in T :
            i > j /\ events[a - u] = files[n][i].event /\ events[b - u] = files[n][j].event
      BY <1>11, <3>1, <3>2
    <3> QED
      BY <3>2, <3>3
  <2> QED
    BY <2>1, <2>2, <2>3, <2>4 DEF Adds, old, new, u, w
<1>10. StopsAt(n, cut, stop)
  <2>1. \A i \in 1 .. Len(files[n]) :
          i \in OldOnes(files[n], reader.first, cut) <=>
            i \in Good(n) /\ i > cut /\ ~Hidden(n, i) /\ AtAt(n, i) < reader.query.since
    BY DEF OldOnes, Shown, Good, Hidden, AtAt
  <2>2. \A i \in Good(n) : i \in 1 .. Len(files[n])
    BY DEF Good
  <2>3. stop # 0 => stop \in 1 .. Len(files[n])
    BY <1>1, <1>3
  <2>4. Len(found.events) = room => Len(reader'.out) = reader.query.limit
    BY <1>1, <1>7 DEF old, new, events, u, v, w
  <2>5. stop # 0 => stop \in OldOnes(files[n], reader.first, cut)
                    \/ Len(reader'.out) = reader.query.limit
    BY <1>3, <2>4
  <2>6. ASSUME NEW i \in Good(n), i > cut, ~Hidden(n, i), AtAt(n, i) < reader.query.since
        PROVE  i <= stop
    BY <1>3, <2>1, <2>2, <2>6
  <2>7. stop # 0 /\ stop \in OldOnes(files[n], reader.first, cut) =>
          stop \in Good(n) /\ AtAt(n, stop) < reader.query.since
    BY <2>1, <2>3
  <2> QED
    BY <1>3, <2>5, <2>6, <2>7 DEF StopsAt
<1> QED
  BY <1>9, <1>10 DEF T, found

-----------------------------------------------------------------------------
(* A page never shows an event twice.                                      *)


Fresh == reader.read = {} /\ reader.out = << >> /\ reader.first = TRUE

PageInv ==
  /\ \A a \in 1 .. Len(reader.out) :
       reader.out[a].id \in 1 .. emitted /\ (Pending => reader.out[a].id < emitted)
  /\ \A a, b \in 1 .. Len(reader.out) : a # b => reader.out[a].id # reader.out[b].id
  /\ \A n \in 1 .. Len(files) : n \notin reader.read =>
       \A i \in Good(n) : \A a \in 1 .. Len(reader.out) : reader.out[a].id # IdAt(n, i)
  /\ reader.read = {} => Fresh
  /\ \A n \in reader.read : n \in 1 .. Len(files)
  /\ reader.pc = "idle" \/ (reader.pc = "walk" /\ reader.k = 0) => Fresh

LEMMA FreshPage ==
    ASSUME Types, Fresh
    PROVE  PageInv
<1>1. 1 .. Len(reader.out) = {}
  <2>1. Len(<< >>) = 0
    OBVIOUS
  <2> QED
    BY <2>1 DEF Fresh
<1> QED
  BY <1>1 DEF Fresh, PageInv

LEMMA IdleIs == Idle.pc = "idle" /\ Idle.k = 0 /\ Idle.read = {} /\ Idle.out = << >>
                /\ Idle.first = TRUE /\ Idle.rolls = 0 /\ Idle.reached = TRUE
  BY DEF Idle

\* What the sink does leaves the page true of the log.
LEMMA SinkPage ==
    ASSUME Base, Base', PageInv, Settles \/ Writes \/ Opens \/ Emits
    PROVE  PageInv'
<1>1. /\ Types' /\ emitted \in Nat /\ emitted' \in Nat /\ reader \in ReaderType
      /\ Len(files) \in Nat /\ Len(files') \in Nat
  BY FilesFacts DEF Base, Types
<1>2. /\ reader'.out = reader.out /\ reader'.read = reader.read /\ reader'.k = reader.k
      /\ reader'.pc = reader.pc /\ reader'.first = reader.first
  BY <1>1 DEF Settles, Writes, Opens, Emits, ReaderType
<1>3. /\ emitted' >= emitted
      /\ Pending' => (Pending /\ emitted' = emitted) \/ emitted' = emitted + 1
  BY <1>1 DEF Settles, Writes, Opens, Emits
<1>4. Len(files') >= Len(files)
  BY <1>1 DEF Settles, Writes, Opens, Emits, KeepsLines, WritesLine
<1>5. ASSUME NEW a \in 1 .. Len(reader.out)
      PROVE  reader.out[a].id \in 1 .. emitted' /\ (Pending' => reader.out[a].id < emitted')
  <2>1. reader.out[a].id \in 1 .. emitted /\ (Pending => reader.out[a].id < emitted)
    BY DEF PageInv
  <2> QED
    BY <1>1, <1>3, <2>1
<1>6. ASSUME NEW n \in 1 .. Len(files'), n \notin reader.read, NEW i \in Good(n)',
             NEW a \in 1 .. Len(reader.out)
      PROVE  reader.out[a].id # IdAt(n, i)'
  <2>1. CASE n \in 1 .. Len(files) /\ i \in Good(n) /\ files'[n][i].event = files[n][i].event
    BY <1>6, <2>1 DEF PageInv, IdAt
  <2>2. CASE Pending /\ files'[n][i].event = sink.event
    <3>1. IdAt(n, i)' = emitted
      BY <2>2 DEF IdAt, Base, EventInv
    <3>2. reader.out[a].id \in 1 .. emitted /\ reader.out[a].id < emitted
      BY <2>2 DEF PageInv
    <3> QED
      BY <1>1, <3>1, <3>2
  <2>3. CASE Emits
    BY <1>6, <2>1, <2>3 DEF Emits, Good
  <2>4. CASE KeepsLines
    BY <1>6, <2>1, <2>4 DEF KeepsLines, Stays
  <2>5. CASE Writes
    BY <1>6, <2>1, <2>2, <2>5 DEF Writes, WritesLine, Stays, Pending
  <2> QED
    BY <2>3, <2>4, <2>5 DEF Settles, Opens
<1>7. \A n \in reader.read : n \in 1 .. Len(files')
  <2>1. ASSUME NEW n \in reader.read
        PROVE  n \in 1 .. Len(files)
    BY DEF PageInv
  <2> QED
    BY <1>1, <1>4, <2>1
<1>8. Fresh' = Fresh
  BY <1>2 DEF Fresh
<1> QED
  BY <1>2, <1>5, <1>6, <1>7, <1>8 DEF PageInv

LEMMA WalkPage ==
    ASSUME Base, Base', PageInv, Walk
    PROVE  PageInv'
<1>1. /\ names' = names /\ files' = files /\ sink' = sink /\ emitted' = emitted /\ Pending' = Pending
      /\ reader.pc = "walk" /\ reader.k \in Paths /\ reader.k \in Nat
  BY WalkSet, PathFacts DEF Looks, Pending, Rolling, Walk, Base, Types
<1>2. reader'.pc = "done" \/ (reader'.pc = "walk" /\ reader'.k = reader.k + 1)
  BY WalkMoves DEF Passes, ReadsFile, Onward, Back
<1>3. ~(reader'.pc = "idle" \/ (reader'.pc = "walk" /\ reader'.k = 0))
  BY <1>1, <1>2
<1>4. CASE Passes
  <2>1. reader'.out = reader.out /\ reader'.read = reader.read /\ reader'.first = reader.first
    BY <1>4 DEF Passes
  <2> QED
    BY <1>1, <1>3, <2>1 DEF PageInv, Fresh, Good, IdAt
<1>5. ASSUME NEW cut \in Nat, ReadsFile(cut)
      PROVE  PageInv'
  <2>1. PICK n \in 1 .. Len(files) : n = names[reader.k]
    BY <1>1, <1>5, NamedIs DEF ReadsFile, Base
  <2> DEFINE stop == Walked(Here, reader.first, cut).stop
             S == TakenIn(n, cut, stop)
             old == reader.out
             new == reader'.out
  <2>2. Adds(n, S)
    BY <1>1, <1>5, <2>1, ReadGives
  <2>3. n \notin reader.read /\ reader'.read = reader.read \cup {n}
    BY <1>5, <2>1 DEF ReadsFile
  <2>4. \A i \in S : i \in Good(n) /\ i \in Nat
    BY DEF TakenIn, Good
  <2> HIDE DEF S, stop
  <2>5. /\ \A a \in 1 .. Len(new) : a \in 1 .. Len(old) \/ \E i \in S : new[a] = files[n][i].event
        /\ \A a \in 1 .. Len(old) : new[a] = old[a]
        /\ \A a, b \in 1 .. Len(new) : a \notin 1 .. Len(old) /\ a < b =>
             \E i, j \in S : i > j /\ new[a] = files[n][i].event /\ new[b] = files[n][j].event
    BY <2>2 DEF Adds
  <2>6. ASSUME NEW a \in 1 .. Len(new)
        PROVE  new[a].id \in 1 .. emitted /\ (Pending => new[a].id < emitted)
    <3>1. CASE a \in 1 .. Len(old)
      BY <2>5, <3>1 DEF PageInv
    <3>2. CASE a \notin 1 .. Len(old)
      <4>1. PICK i \in S : new[a] = files[n][i].event
        BY <2>5, <3>2
      <4>2. IdAt(n, i) \in 1 .. emitted /\ (Pending => IdAt(n, i) < emitted)
        BY <2>4, <4>1 DEF Base, EventInv
      <4> QED
        BY <4>1, <4>2 DEF IdAt
    <3> QED
      BY <3>1, <3>2
  <2>7. ASSUME NEW a \in 1 .. Len(new), NEW b \in 1 .. Len(new), a < b
        PROVE  new[a].id # new[b].id
    <3>1. CASE a \in 1 .. Len(old) /\ b \in 1 .. Len(old)
      BY <2>5, <2>7, <3>1 DEF PageInv
    <3>2. CASE a \in 1 .. Len(old) /\ b \notin 1 .. Len(old)
      <4>1. PICK i \in S : new[b] = files[n][i].event
        BY <2>5, <3>2
      <4>2. old[a].id # IdAt(n, i)
        BY <2>3, <2>4, <3>2, <4>1 DEF PageInv
      <4> QED
        BY <2>5, <3>2, <4>1, <4>2 DEF IdAt
    <3>3. CASE a \notin 1 .. Len(old)
      <4>1. PICK i \in S, j \in S :
              i > j /\ new[a] = files[n][i].event /\ new[b] = files[n][j].event
        BY <2>5, <2>7, <3>3
      <4>2. i \in Good(n) /\ j \in Good(n) /\ j < i
        BY <2>4, <4>1
      <4>3. IdAt(n, j) < IdAt(n, i) /\ IdAt(n, i) \in 1 .. emitted /\ IdAt(n, j) \in 1 .. emitted
        BY <4>2 DEF Base, EventInv
      <4>4. IdAt(n, i) # IdAt(n, j)
        BY <4>3
      <4> QED
        BY <4>1, <4>4 DEF IdAt
    <3> QED
      BY <3>1, <3>2, <3>3
  <2>8. ASSUME NEW a \in 1 .. Len(new), NEW b \in 1 .. Len(new), a # b
        PROVE  new[a].id # new[b].id
    <3>1. a < b \/ b < a
      BY <2>8
    <3> QED
      BY <2>7, <3>1
  <2>9. ASSUME NEW m \in 1 .. Len(files), m \notin reader.read, m # n, NEW j \in Good(m),
               NEW a \in 1 .. Len(new)
        PROVE  new[a].id # IdAt(m, j)
    <3>1. CASE a \in 1 .. Len(old)
      BY <2>5, <2>9, <3>1 DEF PageInv
    <3>2. CASE a \notin 1 .. Len(old)
      <4>1. PICK i \in S : new[a] = files[n][i].event
        BY <2>5, <3>2
      <4>2. i \in Good(n)
        BY <2>4, <4>1
      <4>3. m < n \/ n < m
        BY <2>9
      <4>4. IdAt(m, j) < IdAt(n, i) \/ IdAt(n, i) < IdAt(m, j)
        BY <2>9, <4>2, <4>3 DEF Base, EventInv
      <4>5. IdAt(m, j) \in 1 .. emitted /\ IdAt(n, i) \in 1 .. emitted
        BY <2>9, <4>2 DEF Base, EventInv
      <4>6. IdAt(m, j) # IdAt(n, i)
        BY <4>4, <4>5
      <4> QED
        BY <4>1, <4>6 DEF IdAt
    <3> QED
      BY <3>1, <3>2
  <2>10. \A m \in reader'.read : m \in 1 .. Len(files)
    BY <2>3 DEF PageInv
  <2>11. reader'.read # {}
    BY <2>3
  <2>12. /\ \A m : Good(m)' = Good(m)
         /\ \A m, i : IdAt(m, i)' = IdAt(m, i)
    BY <1>1 DEF Good, IdAt
  <2>13. \A m \in 1 .. Len(files) : m \notin reader'.read =>
           \A i \in Good(m) : \A a \in 1 .. Len(new) : new[a].id # IdAt(m, i)
    BY <2>3, <2>9
  <2> QED
    BY <1>1, <1>3, <2>6, <2>8, <2>10, <2>11, <2>12, <2>13 DEF PageInv
<1> QED
  BY <1>4, <1>5, WalkMoves

LEMMA PageStep ==
    ASSUME Base, Base', PageInv, [Next]_vars
    PROVE  PageInv'
<1>1. CASE Write \/ Die
  <2>1. Settles \/ Writes \/ Opens \/ Emits
    BY <1>1, WriteKinds DEF Base
  <2> QED
    BY <2>1, SinkPage
<1>2. CASE Ask \/ Answer
  <2>1. Fresh'
    <3>1. CASE Answer
      BY <3>1, IdleIs DEF Answer, Fresh
    <3>2. CASE Ask
      <4>1. PICK query \in Queries :
              reader' = [Idle EXCEPT !.pc = "walk", !.query = query, !.rolls = IF Rolling THEN 1 ELSE 0]
        BY <3>2 DEF Ask
      <4> QED
        BY <4>1 DEF Idle, Fresh
    <3> QED
      BY <1>2, <3>1, <3>2
  <2>2. Types' => PageInv'
    BY <2>1, FreshPage, PTL
  <2> QED
    BY <2>2 DEF Base
<1>3. CASE Walk
  BY <1>3, WalkPage
<1>4. CASE UNCHANGED vars
  BY <1>4 DEF PageInv, Fresh, Good, IdAt, Pending, Rolling, vars, log, history
<1> QED
  BY <1>1, <1>2, <1>3, <1>4 DEF Next

LEMMA PageIs ==
    ASSUME Types
    PROVE  /\ reader.out \in Seq(EventType) /\ Len(reader.out) \in Nat
           /\ DOMAIN reader.out = 1 .. Len(reader.out)
           /\ \A p : p \in Page <=> \E a \in 1 .. Len(reader.out) : p = reader.out[a].id
<1>1. reader.out \in Seq(EventType)
  BY DEF Types, ReaderType
<1>2. Len(reader.out) \in Nat /\ DOMAIN reader.out = 1 .. Len(reader.out)
  BY <1>1
<1> QED
  BY <1>1, <1>2 DEF Page

LEMMA OneByOne ==
    ASSUME Types, PageInv
    PROVE  NoEventTwice
<1> DEFINE k == Len(reader.out)
           S == 1 .. k
           f == [a \in S |-> reader.out[a].id]
<1>1. k \in Nat /\ \A p : p \in Page <=> \E a \in S : p = reader.out[a].id
  BY PageIs
<1>2. \A a, b \in S : a # b => reader.out[a].id # reader.out[b].id
  BY DEF PageInv
<1>3. f \in [S -> Page] /\ \A a \in S : f[a] = reader.out[a].id
  BY <1>1
<1> HIDE DEF f
<1>4. f \in Surjection(S, Page)
  BY <1>1, <1>3 DEF Surjection
<1>5. f \in Injection(S, Page)
  <2>1. ASSUME NEW a \in S, NEW b \in S, f[a] = f[b]
        PROVE  a = b
    BY <1>2, <1>3, <2>1
  <2> QED
    BY <1>3, <2>1 DEF Injection, IsInjective
<1>6. IsFiniteSet(S) /\ Cardinality(S) = k
  <2> HIDE DEF k
  <2>1. /\ IsFiniteSet(1 .. k)
        /\ Cardinality(1 .. k) = IF 1 > k THEN 0 ELSE k - 1 + 1
    BY <1>1, FS_Interval
  <2> QED
    BY <1>1, <2>1
<1> HIDE DEF S
<1>7. Cardinality(Page) = Cardinality(S)
  BY <1>4, <1>5, <1>6, FS_Surjection
<1> QED
  BY <1>6, <1>7 DEF NoEventTwice

\* No page shows an event twice, however often the log rolls under the walk.
THEOREM NoEventShownTwice == Spec => []NoEventTwice
<1>1. Init => Fresh
  BY IdleIs DEF Init, Fresh
<1>2. Base /\ Fresh => PageInv
  BY FreshPage DEF Base
<1>3. Base /\ Base' /\ PageInv /\ [Next]_vars => PageInv'
  BY PageStep
<1>4. Base /\ PageInv => NoEventTwice
  BY OneByOne DEF Base
<1> QED
  BY LogIsOrdered, <1>1, <1>2, <1>3, <1>4, PTL DEF Spec

-----------------------------------------------------------------------------
(* How files move from path to path.                                       *)

\* The roll under way has the file at path k yet to move.
WillMove(k) ==
  \/ sink.pc = "remove"
  \/ sink.pc = "shift" /\ k <= sink.n
  \/ sink.pc = "move" /\ k = 0

\* A file is where it was, or new, or one path up by a step of a roll.
Arrives(k) ==
  \/ names'[k] = names[k]
  \/ k = 0 /\ names[0] = NoFile /\ names'[0] > Len(files) /\ (Rolling \/ ~On)
  \/ k > 0 /\ names'[k] = names[k - 1] /\ Rolling /\ WillMove(k - 1) /\ ~WillMove(k)'

RollBegins == sink.pc = "idle" /\ sink'.pc = "remove" /\ names' = names

PathsMove ==
  /\ \A k \in Paths : names'[k] # NoFile => Arrives(k)
  /\ \A k \in Paths : WillMove(k)' => WillMove(k) \/ RollBegins
  /\ names'[0] = NoFile => names[0] = NoFile \/ Rolling
  /\ Rolling' => Rolling \/ RollBegins
  /\ names'[0] # names[0] /\ names'[0] # NoFile => ~WillMove(0)'

LEMMA SamePaths ==
    ASSUME names' = names, sink'.pc \notin {"remove", "shift", "move", "reopen"}
    PROVE  PathsMove
  BY DEF PathsMove, Arrives, WillMove, Rolling

LEMMA OpenPaths ==
    ASSUME Types, SetInv, names' = [names EXCEPT ![0] = AtPath(0)], Rolling \/ ~On,
           sink'.pc \notin {"remove", "shift", "move", "reopen"}
    PROVE  PathsMove
<1>1. \A k \in Paths : k # 0 => names'[k] = names[k]
  BY DEF Types
<1>2. names[0] = NoFile => names'[0] = Len(files) + 1 /\ Len(files) \in Nat
  BY FilesFacts, PathFacts DEF Types, AtPath
<1>3. names[0] # NoFile => names'[0] = names[0]
  BY PathFacts DEF Types, AtPath
<1>4. \A k : ~WillMove(k)'
  BY DEF WillMove
<1>5. names[0] = NoFile => names'[0] > Len(files)
  BY <1>2
<1> QED
  BY <1>1, <1>3, <1>4, <1>5 DEF PathsMove, Arrives, Rolling

LEMMA UpPaths ==
    ASSUME Types, NEW from \in Paths, MovesUp(from) \/ UNCHANGED log, Rolling,
           WillMove(from), ~WillMove(from + 1)',
           \A k \in Paths : WillMove(k)' => WillMove(k)
    PROVE  PathsMove
<1>1. CASE UNCHANGED log
  BY <1>1 DEF PathsMove, Arrives, log
<1>2. CASE MovesUp(from)
  <2>1. from \in Nat
    BY PathFacts
  <2>2. \A k \in Paths : k = from + 1 => k > 0 /\ k - 1 = from /\ names'[k] = names[k - 1]
    BY <1>2, <2>1, PathFacts DEF MovesUp
  <2>3. \A k \in Paths : k # from + 1 => names'[k] = NoFile \/ names'[k] = names[k]
    BY <1>2 DEF MovesUp
  <2>4. \A k \in Paths : names'[k] # NoFile => Arrives(k)
    BY <2>2, <2>3 DEF Arrives
  <2>5. 0 \in Paths /\ 0 # from + 1
    BY <2>1, PathFacts
  <2> QED
    BY <2>3, <2>4, <2>5 DEF PathsMove
<1> QED
  BY <1>1, <1>2

LEMMA SinkPaths ==
    ASSUME Base, Write \/ Die
    PROVE  PathsMove
<1>1. /\ Types /\ SetInv /\ names \in [Paths -> Nat] /\ sink \in SinkType
  BY DEF Base, Types
<1>2. CASE OpenSink
  BY <1>1, <1>2, OpenPaths DEF OpenSink, Off, On
<1>3. CASE Emit
  <2>1. names' = names /\ sink.pc = "idle" /\ sink'.pc \in {"remove", "append"}
    BY <1>1, <1>3 DEF Emit, log, SinkType
  <2> QED
    BY <2>1 DEF PathsMove, Arrives, RollBegins, WillMove, Rolling
<1>4. CASE RemoveOldest
  <2>1. sink.pc = "remove"
    BY <1>4 DEF RemoveOldest, RollStep
  <2>2. \A k \in Paths : names'[k] = NoFile \/ names'[k] = names[k]
    BY <1>1, <1>4 DEF RemoveOldest, RollStep, log
  <2>3. names'[0] = names[0]
    BY <1>1, <1>4, PathFacts DEF RemoveOldest, RollStep, log
  <2> QED
    BY <2>1, <2>2, <2>3 DEF PathsMove, Arrives, WillMove, Rolling
<1>5. CASE Shift
  <2>1. PICK m \in Paths : m = sink.n
    BY <1>1, <1>5, LogAssumption DEF SetInv, Shift, RollStep, Paths
  <2>3. \/ sink'.pc = "append"
        \/ sink'.pc = "shift" /\ sink'.n = m - 1
        \/ sink'.pc = "move"
    <3>1. CASE RollFails
      BY <1>1, <3>1 DEF RollFails, SinkType
    <3>2. CASE sink' = [sink EXCEPT !.pc = IF sink.n = 1 THEN "move" ELSE "shift", !.n = @ - 1]
      BY <1>1, <2>1, <3>2 DEF SinkType
    <3> QED
      BY <1>5, <3>1, <3>2 DEF Shift, RollStep
  <2>4. sink.pc = "shift" /\ m \in Nat
    BY <1>5, <2>1, PathFacts DEF Shift, RollStep
  <2>5. WillMove(m) /\ Rolling
    BY <2>1, <2>4 DEF WillMove, Rolling
  <2>6. ~WillMove(m + 1)'
    <3>1. ~(m + 1 <= m - 1) /\ m + 1 # 0
      BY <2>4
    <3> QED
      BY <2>3, <3>1 DEF WillMove
  <2>7. ASSUME NEW k \in Paths, WillMove(k)'
        PROVE  WillMove(k)
    <3>1. k \in Nat /\ (k <= m - 1 => k <= m) /\ (k = 0 => k <= m)
      BY <2>4, PathFacts
    <3> QED
      BY <2>1, <2>3, <2>4, <2>7, <3>1 DEF WillMove
  <2>8. MovesUp(m) \/ UNCHANGED log
    BY <1>1, <1>5, <2>1, ShiftSet
  <2> QED
    BY <1>1, <2>5, <2>6, <2>7, <2>8, UpPaths
<1>6. CASE MoveCurrent
  <2>1. sink.pc = "move" /\ (MovesUp(0) \/ UNCHANGED log)
    BY <1>1, <1>6, MoveSet DEF MoveCurrent, RollStep
  <2>2. sink'.pc \in {"append", "reopen"}
    BY <1>1, <1>6 DEF MoveCurrent, RollStep, RollFails, SinkType
  <2>3. \A k : ~WillMove(k)'
    BY <2>2 DEF WillMove
  <2>4. WillMove(0) /\ Rolling
    BY <2>1 DEF WillMove, Rolling
  <2> QED
    BY <1>1, <2>1, <2>3, <2>4, PathFacts, UpPaths
<1>7. CASE Reopen
  <2>1. Rolling /\ sink'.pc = "append"
    BY <1>1, <1>7 DEF Reopen, RollStep, RollFails, Rolling, SinkType
  <2>2. CASE names' = [names EXCEPT ![0] = AtPath(0)]
    BY <1>1, <2>1, <2>2, OpenPaths
  <2>3. CASE UNCHANGED log
    BY <2>1, <2>3, SamePaths DEF log
  <2> QED
    BY <1>7, <2>2, <2>3 DEF Reopen, RollStep
<1>8. CASE AppendEvent \/ EndFragment \/ Die
  <2>1. names' = names /\ sink'.pc \in {"idle", "end", "off"}
    <3>1. CASE AppendEvent
      BY <1>1, <3>1, AppendSet DEF AppendEvent
    <3>2. CASE EndFragment
      BY <1>1, <3>2, EndSet DEF EndFragment
    <3>3. CASE Die
      BY <3>3 DEF Die, Off
    <3> QED
      BY <1>8, <3>1, <3>2, <3>3
  <2> QED
    BY <2>1, SamePaths
<1> QED
  BY <1>2, <1>3, <1>4, <1>5, <1>6, <1>7, <1>8 DEF Write

-----------------------------------------------------------------------------
(* With at most one roll during it, a walk reads files from the newest to  *)
(* the oldest.                                                             *)

\* All that a file holds is older than all that has been read.
Precedes(n) ==
  /\ \A m \in reader.read : n < m
  /\ \A i \in Good(n) : \A a \in 1 .. Len(reader.out) : IdAt(n, i) < reader.out[a].id

OrderInv ==
  /\ reader.pc = "walk" => reader.reached = TRUE /\ (Rolling => reader.rolls >= 1)
  /\ reader.rolls <= 1 =>
       \A a, b \in 1 .. Len(reader.out) : a < b => reader.out[a].id > reader.out[b].id
  /\ reader.pc = "walk" /\ reader.rolls <= 1 =>
       /\ \A k \in Paths : k >= reader.k /\ names[k] # NoFile /\ names[k] \notin reader.read =>
            Precedes(names[k])
       /\ \A k \in Paths : k + 1 = reader.k /\ names[k] # NoFile /\ names[k] \notin reader.read =>
            Precedes(names[k]) \/ (reader.rolls = 1 /\ ~WillMove(k))
       /\ reader.rolls = 0 /\ names[0] = NoFile => reader.read = {} \/ reader.k > 1

LEMMA FreshPrecedes ==
    ASSUME Types, Fresh, NEW n
    PROVE  Precedes(n)
<1>1. 1 .. Len(reader.out) = {}
  <2>1. Len(<< >>) = 0
    OBVIOUS
  <2> QED
    BY <2>1 DEF Fresh
<1> QED
  BY <1>1 DEF Fresh, Precedes

\* What the sink does to a reader: a roll that begins is counted.
LEMMA SinkReader ==
    ASSUME Base, Base', Settles \/ Writes \/ Opens \/ Emits
    PROVE  /\ reader'.pc = reader.pc /\ reader'.k = reader.k /\ reader'.read = reader.read
           /\ reader'.out = reader.out /\ reader'.first = reader.first
           /\ reader'.reached = reader.reached /\ reader'.errors = reader.errors
           /\ reader'.from = reader.from /\ reader'.query = reader.query
           /\ reader'.finished = reader.finished /\ reader'.capped = reader.capped
           /\ reader'.life = reader.life
           /\ reader'.rolls = reader.rolls \/ (Emits /\ reader'.rolls = reader.rolls + 1)
           /\ RollBegins /\ reader.pc = "walk" => reader'.rolls = reader.rolls + 1
           /\ reader.rolls \in Nat /\ reader'.rolls \in Nat /\ reader.k \in Nat
<1>1. reader \in ReaderType /\ reader' \in ReaderType
  BY DEF Base, Types
<1>2. reader.rolls \in Nat /\ reader'.rolls \in Nat /\ reader.k \in Nat
  BY <1>1 DEF ReaderType
<1>3. CASE Emits
  <2>1. CASE reader' = reader /\ ~(sink'.pc = "remove" /\ reader.pc = "walk")
    BY <1>2, <2>1 DEF RollBegins
  <2>2. CASE reader' = [reader EXCEPT !.rolls = @ + 1]
    BY <1>1, <1>2, <1>3, <2>2 DEF ReaderType
  <2> QED
    BY <1>3, <2>1, <2>2 DEF Emits
<1>4. CASE Settles \/ Writes \/ Opens
  <2>1. reader' = reader
    BY <1>4 DEF Settles, Writes, Opens
  <2>2. ~RollBegins
    BY <1>4 DEF Settles, Writes, Opens, RollBegins, Pending, Rolling, On
  <2> QED
    BY <1>2, <2>1, <2>2
<1> QED
  BY <1>3, <1>4

LEMMA PrecedesStays ==
    ASSUME Base, Base', PageInv, Settles \/ Writes \/ Opens \/ Emits,
           NEW n \in 1 .. Len(files), Precedes(n)
    PROVE  Precedes(n)'
<1>1. reader'.read = reader.read /\ reader'.out = reader.out
  BY SinkReader
<1>2. /\ reader.read \in SUBSET Nat /\ Len(files) \in Nat /\ Len(files') \in Nat
      /\ Len(files') >= Len(files) /\ n \in 1 .. Len(files')
  <2>1. /\ Len(files) \in Nat /\ Len(files') \in Nat /\ reader.read \in SUBSET Nat
    BY FilesFacts DEF Base, Types, ReaderType
  <2>2. Len(files') >= Len(files)
    BY <2>1 DEF Settles, Writes, Opens, Emits, KeepsLines, WritesLine
  <2> QED
    BY <2>1, <2>2
<1>3. ASSUME NEW i \in Good(n)', NEW a \in 1 .. Len(reader.out)
      PROVE  IdAt(n, i)' < reader.out[a].id
  <2>1. CASE i \in Good(n) /\ files'[n][i].event = files[n][i].event
    BY <2>1 DEF Precedes, IdAt
  <2>2. CASE Emits
    BY <2>1, <2>2 DEF Emits, Good
  <2>3. CASE KeepsLines
    BY <1>2, <2>1, <2>3 DEF KeepsLines, Stays
  <2>4. CASE Writes
    <3>1. CASE n = Len(files)
      <4>1. \A m \in reader.read : m \in 1 .. Len(files) /\ n < m
        BY DEF PageInv, Precedes
      <4>2. reader.read = {}
        BY <1>2, <3>1, <4>1
      <4>3. reader.out = << >>
        BY <4>2 DEF PageInv, Fresh
      <4>4. Len(<< >>) = 0
        OBVIOUS
      <4>5. a \in 1 .. 0
        BY <4>3, <4>4
      <4> QED
        BY <4>5
    <3>2. CASE n # Len(files)
      BY <1>2, <2>1, <2>4, <3>2 DEF Writes, WritesLine, Stays
    <3> QED
      BY <3>1, <3>2
  <2> QED
    BY <2>2, <2>3, <2>4 DEF Settles, Opens
<1> QED
  BY <1>1, <1>3 DEF Precedes

LEMMA SinkOrder ==
    ASSUME Base, Base', PageInv, OrderInv, Write \/ Die
    PROVE  OrderInv'
<1>1. Settles \/ Writes \/ Opens \/ Emits
  BY WriteKinds DEF Base
<1>2. /\ reader'.pc = reader.pc /\ reader'.k = reader.k /\ reader'.read = reader.read
      /\ reader'.out = reader.out /\ reader'.reached = reader.reached
      /\ reader'.rolls = reader.rolls \/ (Emits /\ reader'.rolls = reader.rolls + 1)
      /\ RollBegins /\ reader.pc = "walk" => reader'.rolls = reader.rolls + 1
      /\ reader.rolls \in Nat /\ reader'.rolls \in Nat /\ reader.k \in Nat
  BY <1>1, SinkReader
<1>3. reader'.rolls <= 1 => reader.rolls <= 1
  BY <1>2
<1>4. PathsMove
  BY SinkPaths
<1>5. reader.pc = "walk" /\ Rolling' => reader'.rolls >= 1
  <2>1. CASE Rolling
    BY <1>2, <2>1 DEF OrderInv
  <2>2. CASE RollBegins
    BY <1>2, <2>2
  <2> QED
    BY <1>4, <2>1, <2>2 DEF PathsMove
<1>6. reader'.rolls <= 1 =>
        \A a, b \in 1 .. Len(reader'.out) : a < b => reader'.out[a].id > reader'.out[b].id
  BY <1>2, <1>3 DEF OrderInv
<1>7. ASSUME reader'.pc = "walk", reader'.rolls <= 1
      PROVE  /\ \A k \in Paths : k >= reader.k /\ names'[k] # NoFile /\ names'[k] \notin reader.read =>
                  Precedes(names[k])'
             /\ \A k \in Paths : k + 1 = reader.k /\ names'[k] # NoFile /\ names'[k] \notin reader.read =>
                  Precedes(names[k])' \/ (reader'.rolls = 1 /\ ~WillMove(k)')
             /\ reader'.rolls = 0 /\ names'[0] = NoFile => reader.read = {} \/ reader.k > 1
  <2>1. reader.pc = "walk" /\ reader.rolls <= 1
    BY <1>2, <1>3, <1>7
  <2>2. /\ \A k \in Paths : k >= reader.k /\ names[k] # NoFile /\ names[k] \notin reader.read =>
             Precedes(names[k])
        /\ \A k \in Paths : k + 1 = reader.k /\ names[k] # NoFile /\ names[k] \notin reader.read =>
             Precedes(names[k]) \/ (reader.rolls = 1 /\ ~WillMove(k))
        /\ reader.rolls = 0 /\ names[0] = NoFile => reader.read = {} \/ reader.k > 1
        /\ Rolling => reader.rolls >= 1
    BY <2>1 DEF OrderInv
  <2>3. ASSUME NEW n \in 1 .. Len(files), Precedes(n), NEW k \in Paths, names'[k] = n
        PROVE  Precedes(names[k])'
    <3>1. Precedes(n)'
      BY <1>1, <2>3, PrecedesStays
    <3> QED
      BY <2>3, <3>1
  <2>4. ASSUME NEW k \in Paths, Fresh
        PROVE  Precedes(names[k])'
    <3>1. Fresh'
      BY <1>2, <1>1, <2>4, SinkReader DEF Fresh
    <3>2. 1 .. Len(reader'.out) = {}
      <4>1. Len(<< >>) = 0
        OBVIOUS
      <4> QED
        BY <3>1, <4>1 DEF Fresh
    <3> QED
      BY <3>1, <3>2 DEF Fresh, Precedes
  <2>5. ASSUME NEW k \in Paths, k >= reader.k, names'[k] # NoFile, names'[k] \notin reader.read
        PROVE  Precedes(names[k])'
    <3>1. k \in Nat
      BY PathFacts
    <3>2. CASE names'[k] = names[k]
      <4>1. PICK n \in 1 .. Len(files) : n = names[k]
        BY <2>5, <3>2, NamedIs DEF Base
      <4>2. Precedes(n)
        BY <2>2, <2>5, <3>2, <4>1
      <4> QED
        BY <2>3, <3>2, <4>1, <4>2
    <3>3. CASE k = 0
      <4>1. reader.k = 0
        BY <1>2, <2>5, <3>3
      <4> QED
        BY <2>1, <2>4, <4>1 DEF PageInv
    <3>4. CASE k > 0 /\ names'[k] = names[k - 1] /\ Rolling /\ WillMove(k - 1)
      <4>1. PICK j \in Paths : j = k - 1 /\ j + 1 = k
        BY <3>1, <3>4, PathFacts DEF Paths
      <4>2. PICK n \in 1 .. Len(files) : n = names[j]
        BY <2>5, <3>4, <4>1, NamedIs DEF Base
      <4>3. n # NoFile /\ n \notin reader.read /\ names[j] = n
        BY <2>5, <3>4, <4>1, <4>2
      <4>4. j >= reader.k \/ j + 1 = reader.k
        BY <1>2, <2>5, <3>1, <4>1, PathFacts
      <4>5. Precedes(n)
        <5>1. CASE j >= reader.k
          BY <2>2, <4>2, <4>3, <5>1
        <5>2. CASE j + 1 = reader.k
          <6>1. Precedes(names[j]) \/ ~WillMove(j)
            BY <2>2, <4>3, <5>2
          <6> QED
            BY <3>4, <4>1, <4>2, <6>1
        <5> QED
          BY <4>4, <5>1, <5>2
      <4> QED
        BY <2>3, <3>4, <4>1, <4>2, <4>5
    <3> QED
      BY <1>4, <2>5, <3>2, <3>3, <3>4 DEF PathsMove, Arrives
  <2>6. ASSUME NEW k \in Paths, k + 1 = reader.k, names'[k] # NoFile, names'[k] \notin reader.read
        PROVE  Precedes(names[k])' \/ (reader'.rolls = 1 /\ ~WillMove(k)')
    <3>1. CASE names'[k] = names[k]
      <4>1. PICK n \in 1 .. Len(files) : n = names[k]
        BY <2>6, <3>1, NamedIs DEF Base
      <4>2. CASE Precedes(n)
        BY <2>3, <3>1, <4>1, <4>2
      <4>3. CASE ~Precedes(n)
        <5>1. reader.rolls = 1 /\ ~WillMove(k)
          BY <2>2, <2>6, <3>1, <4>1, <4>3
        <5>2. reader'.rolls = 1 /\ ~RollBegins
          BY <1>2, <1>7, <2>1, <5>1
        <5> QED
          BY <1>4, <5>1, <5>2 DEF PathsMove
      <4> QED
        BY <4>2, <4>3
    <3>2. CASE k = 0 /\ names[0] = NoFile /\ names'[0] > Len(files) /\ (Rolling \/ ~On)
      <4>1. ~WillMove(0)'
        BY <1>4, <2>6, <3>2 DEF PathsMove
      <4>2. CASE reader.rolls = 0
        <5>1. reader.read = {}
          BY <1>2, <2>2, <2>6, <3>2, <4>2
        <5> QED
          BY <2>4, <5>1 DEF PageInv
      <4>3. CASE reader.rolls # 0
        <5>1. reader'.rolls = 1
          BY <1>2, <1>7, <2>1, <4>3
        <5> QED
          BY <3>2, <4>1, <5>1
      <4> QED
        BY <4>2, <4>3
    <3>3. CASE Rolling /\ ~WillMove(k)'
      <4>1. reader'.rolls = 1
        BY <1>2, <1>7, <2>1, <2>2, <3>3
      <4> QED
        BY <3>3, <4>1
    <3> QED
      BY <1>4, <2>6, <3>1, <3>2, <3>3 DEF PathsMove, Arrives
  <2>7. reader'.rolls = 0 /\ names'[0] = NoFile => reader.read = {} \/ reader.k > 1
    <3>1. CASE names[0] = NoFile
      BY <1>2, <2>2, <3>1
    <3>2. CASE Rolling
      BY <1>2, <2>2, <3>2
    <3> QED
      BY <1>4, <3>1, <3>2 DEF PathsMove
  <2> QED
    BY <2>5, <2>6, <2>7
<1>8. reader'.pc = "walk" => reader'.reached = TRUE
  BY <1>2 DEF OrderInv
<1> QED
  BY <1>2, <1>5, <1>6, <1>7, <1>8 DEF OrderInv

LEMMA WalkOrder ==
    ASSUME Base, Base', PageInv, OrderInv, Walk
    PROVE  OrderInv'
<1>1. /\ names' = names /\ files' = files /\ sink' = sink
      /\ reader.pc = "walk" /\ reader.k \in Paths /\ reader.k \in Nat
  BY WalkSet, PathFacts DEF Looks, Walk, Base, Types
<1>2. /\ reader'.rolls = reader.rolls /\ reader.reached = TRUE
      /\ reader'.pc = "done" \/
           (reader'.pc = "walk" /\ reader'.k = reader.k + 1 /\ reader'.reached = reader.reached)
      /\ Rolling => reader.rolls >= 1
  BY <1>1, WalkMoves DEF Passes, ReadsFile, Notes, Onward, Back, OrderInv
<1>3. \A k : WillMove(k)' <=> WillMove(k)
  BY <1>1 DEF WillMove
<1>4. reader'.pc = "walk" => reader'.reached = TRUE /\ (Rolling' => reader'.rolls >= 1)
  BY <1>1, <1>2 DEF Rolling
<1>5. reader.rolls <= 1 =>
        /\ \A a, b \in 1 .. Len(reader.out) : a < b => reader.out[a].id > reader.out[b].id
        /\ \A k \in Paths : k >= reader.k /\ names[k] # NoFile /\ names[k] \notin reader.read =>
             Precedes(names[k])
        /\ reader.rolls = 0 /\ names[0] = NoFile => reader.read = {} \/ reader.k > 1
  BY <1>1 DEF OrderInv
<1>6. CASE Passes
  <2>1. reader'.out = reader.out /\ reader'.read = reader.read
    BY <1>6 DEF Passes
  <2>2. \A n : Precedes(n)' <=> Precedes(n)
    BY <1>1, <2>1 DEF Precedes, Good, IdAt
  <2>3. ASSUME reader'.pc = "walk", reader'.rolls <= 1, NEW k \in Paths, k + 1 >= reader'.k,
               names'[k] # NoFile, names'[k] \notin reader'.read
        PROVE  Precedes(names[k])'
    <3>1. k >= reader.k
      BY <1>1, <1>2, <2>3, PathFacts
    <3>2. Precedes(names[k])
      BY <1>1, <1>2, <1>5, <2>1, <2>3, <3>1
    <3> QED
      BY <1>1, <2>1, <3>2 DEF Precedes, Good, IdAt
  <2>4. \A k \in Paths : k >= reader'.k \/ k + 1 = reader'.k => k + 1 >= reader'.k
    <3>1. reader'.k \in Nat
      BY DEF Base, Types, ReaderType
    <3> QED
      BY <3>1, PathFacts
  <2>5. reader'.pc = "walk" /\ reader'.rolls = 0 /\ names'[0] = NoFile =>
          reader'.read = {} \/ reader'.k > 1
    <3>1. reader.k = 0 => reader.read = {}
      BY <1>1 DEF PageInv, Fresh
    <3>2. reader.k # 0 => reader.k + 1 > 1
      BY <1>1
    <3> QED
      BY <1>2, <2>1, <3>1, <3>2
  <2>6. reader'.rolls <= 1 =>
          \A a, b \in 1 .. Len(reader'.out) : a < b => reader'.out[a].id > reader'.out[b].id
    BY <1>2, <1>5, <2>1
  <2> QED
    BY <1>4, <2>3, <2>4, <2>5, <2>6 DEF OrderInv
<1>7. ASSUME NEW cut \in Nat, ReadsFile(cut)
      PROVE  OrderInv'
  <2>1. PICK n \in 1 .. Len(files) : n = names[reader.k]
    BY <1>1, <1>7, NamedIs DEF ReadsFile, Base
  <2> DEFINE stop == Walked(Here, reader.first, cut).stop
             S == TakenIn(n, cut, stop)
             old == reader.out
             new == reader'.out
  <2>2. Adds(n, S)
    BY <1>1, <1>7, <2>1, ReadGives
  <2>3. n \notin reader.read /\ reader'.read = reader.read \cup {n} /\ n # NoFile
    BY <1>7, <2>1 DEF ReadsFile
  <2>4. \A i \in S : i \in Good(n) /\ i \in Nat
    BY DEF TakenIn, Good
  <2> HIDE DEF S, stop
  <2>5. /\ \A a \in 1 .. Len(new) : a \in 1 .. Len(old) \/ \E i \in S : new[a] = files[n][i].event
        /\ \A a \in 1 .. Len(old) : new[a] = old[a]
        /\ \A a, b \in 1 .. Len(new) : a \notin 1 .. Len(old) /\ a < b =>
             \E i, j \in S : i > j /\ new[a] = files[n][i].event /\ new[b] = files[n][j].event
    BY <2>2 DEF Adds
  <2>6. reader.rolls <= 1 => Precedes(n)
    BY <1>1, <1>5, <2>1, <2>3
  <2>7. ASSUME reader.rolls <= 1, NEW a \in 1 .. Len(new), NEW b \in 1 .. Len(new), a < b
        PROVE  new[a].id > new[b].id
    <3>1. CASE a \in 1 .. Len(old) /\ b \in 1 .. Len(old)
      BY <1>5, <2>5, <2>7, <3>1
    <3>2. CASE a \in 1 .. Len(old) /\ b \notin 1 .. Len(old)
      <4>1. PICK i \in S : new[b] = files[n][i].event
        BY <2>5, <3>2
      <4>2. IdAt(n, i) < old[a].id
        BY <2>4, <2>6, <2>7, <3>2, <4>1 DEF Precedes
      <4>3. IdAt(n, i) \in Nat /\ old[a].id \in Nat
        <5>1. IdAt(n, i) \in 1 .. emitted
          BY <2>4, <4>1 DEF Base, EventInv
        <5>2. old[a].id \in 1 .. emitted
          BY <3>2 DEF PageInv
        <5> QED
          BY <5>1, <5>2
      <4> QED
        BY <2>5, <3>2, <4>1, <4>2, <4>3 DEF IdAt
    <3>3. CASE a \notin 1 .. Len(old)
      <4>1. PICK i \in S, j \in S :
              i > j /\ new[a] = files[n][i].event /\ new[b] = files[n][j].event
        BY <2>5, <2>7, <3>3
      <4>2. i \in Good(n) /\ j \in Good(n) /\ j < i
        BY <2>4, <4>1
      <4>3. IdAt(n, j) < IdAt(n, i) /\ IdAt(n, i) \in 1 .. emitted /\ IdAt(n, j) \in 1 .. emitted
        BY <4>2 DEF Base, EventInv
      <4>4. IdAt(n, i) > IdAt(n, j)
        BY <4>3
      <4> QED
        BY <4>1, <4>4 DEF IdAt
    <3> QED
      BY <3>1, <3>2, <3>3
  <2>8. ASSUME reader.rolls <= 1, NEW k \in Paths, k > reader.k, names[k] # NoFile,
               names[k] \notin reader'.read
        PROVE  Precedes(names[k])'
    <3>1. PICK m \in 1 .. Len(files) : m = names[k]
      BY <2>8, NamedIs DEF Base
    <3>2. m < n
      <4>1. names[reader.k] > names[k]
        BY <1>1, <2>1, <2>3, <2>8 DEF Base, SetInv, Descends
      <4> QED
        BY <2>1, <3>1, <4>1
    <3>3. Precedes(m)
      <4>1. k >= reader.k
        BY <1>1, <2>8, PathFacts
      <4> QED
        BY <1>5, <2>3, <2>8, <3>1, <4>1
    <3>4. \A j \in reader'.read : m < j
      BY <2>3, <3>2, <3>3 DEF Precedes
    <3>5. ASSUME NEW i \in Good(m), NEW a \in 1 .. Len(new)
          PROVE  IdAt(m, i) < new[a].id
      <4>1. CASE a \in 1 .. Len(old)
        BY <2>5, <3>3, <4>1 DEF Precedes
      <4>2. CASE a \notin 1 .. Len(old)
        <5>1. PICK j \in S : new[a] = files[n][j].event
          BY <2>5, <4>2
        <5>2. IdAt(m, i) < IdAt(n, j)
          BY <2>4, <3>2, <5>1 DEF Base, EventInv
        <5> QED
          BY <5>1, <5>2 DEF IdAt
      <4> QED
        BY <4>1, <4>2
    <3>6. Precedes(m)'
      BY <1>1, <3>4, <3>5 DEF Precedes, Good, IdAt
    <3> QED
      BY <1>1, <3>1, <3>6
  <2>9. reader'.rolls <= 1 =>
          \A a, b \in 1 .. Len(new) : a < b => new[a].id > new[b].id
    BY <1>2, <2>7
  <2>10. ASSUME reader'.pc = "walk", reader'.rolls <= 1
         PROVE  /\ \A k \in Paths : k >= reader'.k /\ names'[k] # NoFile /\ names'[k] \notin reader'.read =>
                     Precedes(names[k])'
                /\ \A k \in Paths : k + 1 = reader'.k =>
                     names'[k] = NoFile \/ names'[k] \in reader'.read
                /\ reader'.rolls = 0 /\ names'[0] = NoFile => reader'.k > 1
    <3>1. \A k \in Paths : (k >= reader'.k => k > reader.k) /\ (k + 1 = reader'.k => k = reader.k)
      BY <1>1, <1>2, <2>10, PathFacts
    <3>2. names'[0] = NoFile => reader'.k > 1
      <4>1. names'[0] = NoFile => reader.k # 0
        BY <1>1, <2>1, <2>3
      <4> QED
        BY <1>1, <1>2, <2>10, <4>1
    <3>3. \A k \in Paths : k + 1 = reader'.k => names'[k] = NoFile \/ names'[k] \in reader'.read
      BY <1>1, <2>1, <2>3, <3>1
    <3> QED
      BY <1>1, <1>2, <2>8, <2>10, <3>1, <3>2, <3>3
  <2> HIDE DEF new, old
  <2> QED
    BY <1>4, <2>9, <2>10 DEF OrderInv, new
<1> QED
  BY <1>6, <1>7, WalkMoves

LEMMA OrderStep ==
    ASSUME Base, Base', PageInv, OrderInv, [Next]_vars
    PROVE  OrderInv'
<1>1. CASE Write \/ Die
  BY <1>1, SinkOrder
<1>2. CASE Walk
  BY <1>2, WalkOrder
<1>3. CASE Ask \/ Answer
  <2>1. /\ reader'.pc = "walk" => (Rolling' => reader'.rolls >= 1)
        /\ reader'.pc = "walk" => reader'.reached = TRUE
        /\ reader'.k = 0 /\ Fresh' /\ reader'.read = {}
    <3>1. CASE Answer
      BY <3>1, IdleIs DEF Answer, Fresh
    <3>2. CASE Ask
      <4>1. PICK query \in Queries :
              reader' = [Idle EXCEPT !.pc = "walk", !.query = query, !.rolls = IF Rolling THEN 1 ELSE 0]
        BY <3>2 DEF Ask
      <4>2. Rolling' = Rolling
        BY <3>2 DEF Ask, Rolling
      <4>3. reader'.rolls = (IF Rolling THEN 1 ELSE 0) /\ reader'.reached = TRUE /\ reader'.k = 0
            /\ Fresh'
        BY <4>1 DEF Idle, Fresh
      <4> QED
        BY <4>2, <4>3 DEF Fresh
    <3> QED
      BY <1>3, <3>1, <3>2
  <2>2. 1 .. Len(reader'.out) = {}
    <3>1. Len(<< >>) = 0
      OBVIOUS
    <3> QED
      BY <2>1, <3>1 DEF Fresh
  <2>3. \A k \in Paths : k + 1 # reader'.k
    BY <2>1, PathFacts
  <2> QED
    BY <2>1, <2>2, <2>3 DEF OrderInv, Precedes
<1>4. CASE UNCHANGED vars
  BY <1>4 DEF OrderInv, Precedes, Good, IdAt, WillMove, Rolling, vars, log, history
<1> QED
  BY <1>1, <1>2, <1>3, <1>4 DEF Next

-----------------------------------------------------------------------------
(* An event is on the page, still ahead of the walk, older than the page   *)
(* where the walk was cut short, or newer than the walk itself.            *)

Started == reader.pc = "done" \/ (reader.pc = "walk" /\ reader.k > 0)

\* A line that the sink may still be writing.
Growing(n, i) == n = Len(files) /\ i = Len(files[n]) /\ ~files[n][i].ended

LateInv ==
  /\ Started => reader.from <= emitted /\ (Pending => reader.from < emitted)
  /\ \A n \in 1 .. Len(files) : \A i \in Good(n) : Growing(n, i) =>
       /\ Started => IdAt(n, i) > reader.from
       /\ reader.rolls <= 1 => \A a \in 1 .. Len(reader.out) : IdAt(n, i) > reader.out[a].id

LEMMA SinkLate ==
    ASSUME Base, Base', PageInv, LateInv, Settles \/ Writes \/ Opens \/ Emits
    PROVE  LateInv'
<1>1. /\ reader'.pc = reader.pc /\ reader'.k = reader.k /\ reader'.out = reader.out
      /\ reader'.from = reader.from /\ reader'.rolls \in Nat /\ reader.rolls \in Nat
      /\ reader'.rolls = reader.rolls \/ reader'.rolls = reader.rolls + 1
  BY SinkReader
<1>2. Started' = Started /\ (reader'.rolls <= 1 => reader.rolls <= 1)
  BY <1>1 DEF Started
<1>3. /\ emitted \in Nat /\ emitted' \in Nat /\ reader.from \in Nat
      /\ Len(files) \in Nat /\ Len(files') \in Nat
  BY FilesFacts DEF Base, Types, ReaderType
<1>4. emitted' >= emitted /\ (Pending' => (Pending /\ emitted' = emitted) \/ emitted' = emitted + 1)
  BY <1>3 DEF Settles, Writes, Opens, Emits
<1>5. Started' => reader'.from <= emitted' /\ (Pending' => reader'.from < emitted')
  BY <1>1, <1>2, <1>3, <1>4 DEF LateInv
<1>6. ASSUME NEW n \in 1 .. Len(files'), NEW i \in Good(n)', Growing(n, i)'
      PROVE  /\ Started => IdAt(n, i)' > reader.from
             /\ reader.rolls <= 1 => \A a \in 1 .. Len(reader.out) : IdAt(n, i)' > reader.out[a].id
  <2>1. CASE n \in 1 .. Len(files) /\ i \in Good(n) /\ Growing(n, i)
             /\ files'[n][i].event = files[n][i].event
    BY <2>1 DEF LateInv, IdAt
  <2>2. CASE Emits
    BY <1>6, <2>1, <2>2 DEF Emits, Good, Growing
  <2>3. ASSUME Stays(n, i), Len(files') >= Len(files)
        PROVE  n \in 1 .. Len(files) /\ i \in Good(n) /\ Growing(n, i)
               /\ files'[n][i].event = files[n][i].event
    BY <1>3, <1>6, <2>3 DEF Stays, Growing
  <2>4. CASE KeepsLines
    BY <2>1, <2>3, <2>4 DEF KeepsLines
  <2>5. CASE Writes
    <3>1. Len(files') >= Len(files)
      BY <1>3, <2>5 DEF Writes, WritesLine
    <3>2. CASE Stays(n, i)
      BY <2>1, <2>3, <3>1, <3>2
    <3>3. CASE files'[n][i].event = sink.event
      <4>1. Pending
        BY <2>5 DEF Writes, WritesLine, Pending
      <4>2. IdAt(n, i)' = emitted
        BY <3>3, <4>1 DEF IdAt, Base, EventInv
      <4>3. Started => reader.from < emitted
        BY <4>1 DEF LateInv
      <4>4. \A a \in 1 .. Len(reader.out) : reader.out[a].id \in 1 .. emitted /\ reader.out[a].id < emitted
        BY <4>1 DEF PageInv
      <4> QED
        BY <1>3, <4>2, <4>3, <4>4
    <3> QED
      BY <2>5, <3>2, <3>3 DEF Writes, WritesLine
  <2> QED
    BY <2>2, <2>4, <2>5 DEF Settles, Opens
<1> QED
  BY <1>1, <1>2, <1>5, <1>6 DEF LateInv

LEMMA LatestBefore ==
    ASSUME Base, NEW n \in 1 .. Len(files), NEW i \in Good(n), Growing(n, i)
    PROVE  Latest < IdAt(n, i)
<1>1. IdAt(n, i) \in 1 .. emitted /\ Latest \in Nat /\ Types /\ SetInv /\ Len(files) \in Nat
  BY LatestIs, FilesFacts DEF Base, EventInv, Types
<1>2. CASE Latest = 0
  BY <1>1, <1>2
<1>3. CASE Latest # 0
  <2>1. PICK k \in Paths : \E j \in Good(names[k]) : HeldLine(k, j) /\ Latest = IdAt(names[k], j)
    BY <1>1, <1>3, LatestIs, HeldIs
  <2>2. PICK j \in Good(names[k]) : HeldLine(k, j) /\ Latest = IdAt(names[k], j)
    BY <2>1
  <2>3. PICK m \in 1 .. Len(files) : m = names[k]
    BY <1>1, <2>2, NamedIs DEF HeldLine
  <2>4. j \in Good(m) /\ Latest = IdAt(m, j) /\ files[m][j].ended
    BY <2>2, <2>3 DEF HeldLine
  <2>5. m < n \/ (m = n /\ j < i)
    <3>1. CASE m # n
      BY <1>1, <2>3, <3>1 DEF Growing
    <3>2. CASE m = n
      <4>1. j # i /\ i = Len(files[n]) /\ j \in 1 .. Len(files[n])
        BY <2>4, <3>2 DEF Growing, Good
      <4>2. Len(files[n]) \in Nat
        BY <1>1, FilesFacts DEF Types
      <4> QED
        BY <3>2, <4>1, <4>2
    <3> QED
      BY <3>1, <3>2
  <2> QED
    BY <2>4, <2>5 DEF Base, EventInv
<1> QED
  BY <1>2, <1>3

LEMMA WalkLate ==
    ASSUME Base, Base', PageInv, OrderInv, LateInv, Walk
    PROVE  LateInv'
<1>1. /\ names' = names /\ files' = files /\ sink' = sink /\ emitted' = emitted
      /\ Pending' = Pending
      /\ reader.pc = "walk" /\ reader.k \in Paths /\ reader.k \in Nat
      /\ emitted \in Nat /\ reader.from \in Nat /\ Len(files) \in Nat
  BY WalkSet, PathFacts, FilesFacts DEF Looks, Walk, Base, Types, ReaderType, Pending, Rolling
<1>2. reader'.rolls = reader.rolls /\ reader'.from = IF reader.k = 0 THEN Latest ELSE reader.from
  BY WalkMoves DEF Passes, ReadsFile, Notes
<1>3. reader.k # 0 => Started
  BY <1>1 DEF Started
<1>4. reader'.from <= emitted' /\ (Pending' => reader'.from < emitted')
  BY <1>1, <1>2, <1>3, LatestIs DEF LateInv
<1>5. ASSUME NEW n \in 1 .. Len(files), NEW i \in Good(n), Growing(n, i)
      PROVE  IdAt(n, i) > reader'.from
  <2>1. IdAt(n, i) \in 1 .. emitted
    BY DEF Base, EventInv
  <2>2. CASE reader.k = 0
    BY <1>1, <1>2, <1>5, <2>1, <2>2, LatestBefore, LatestIs
  <2>3. CASE reader.k # 0
    BY <1>2, <1>3, <1>5, <2>3 DEF LateInv
  <2> QED
    BY <2>2, <2>3
<1>6. ASSUME NEW n \in 1 .. Len(files), NEW i \in Good(n), Growing(n, i), reader.rolls <= 1,
             NEW a \in 1 .. Len(reader'.out)
      PROVE  IdAt(n, i) > reader'.out[a].id
  <2>1. CASE a \in 1 .. Len(reader.out) /\ reader'.out[a] = reader.out[a]
    BY <1>6, <2>1 DEF LateInv
  <2>2. CASE Passes
    BY <2>1, <2>2 DEF Passes
  <2>3. ASSUME NEW cut \in Nat, ReadsFile(cut)
        PROVE  IdAt(n, i) > reader'.out[a].id
    <3>1. PICK m \in 1 .. Len(files) : m = names[reader.k]
      BY <1>1, <2>3, NamedIs DEF ReadsFile, Base
    <3> DEFINE stop == Walked(Here, reader.first, cut).stop
               S == TakenIn(m, cut, stop)
    <3>2. Adds(m, S)
      BY <1>1, <2>3, <3>1, ReadGives
    <3>3. \A j \in S : j \in Good(m) /\ ~Hidden(m, j)
      BY DEF TakenIn
    <3> HIDE DEF S, stop
    <3>4. CASE a \in 1 .. Len(reader.out)
      BY <2>1, <3>2, <3>4 DEF Adds
    <3>5. CASE a \notin 1 .. Len(reader.out)
      <4>1. PICK j \in S : reader'.out[a] = files[m][j].event
        BY <3>2, <3>5 DEF Adds
      <4>2. j \in Good(m) /\ ~Hidden(m, j)
        BY <3>3
      <4>3. m < n \/ (m = n /\ j < i)
        <5>1. CASE m # n
          BY <1>1, <1>6, <5>1 DEF Growing
        <5>2. CASE m = n
          <6>1. Precedes(m)
            <7>1. m # NoFile /\ m \notin reader.read
              BY <2>3, <3>1 DEF ReadsFile
            <7> QED
              BY <1>1, <1>6, <3>1, <7>1 DEF OrderInv
          <6>2. reader.read = {}
            <7>1. \A r \in reader.read : r \in 1 .. Len(files) /\ m < r
              BY <6>1 DEF PageInv, Precedes
            <7> QED
              BY <1>1, <1>6, <5>2, <7>1 DEF Growing
          <6>3. reader.first = TRUE
            BY <6>2 DEF PageInv, Fresh
          <6>4. j # i /\ i = Len(files[n]) /\ j \in 1 .. Len(files[n])
            BY <1>6, <4>2, <5>2, <6>3 DEF Growing, Good, Hidden
          <6>5. Len(files[n]) \in Nat
            BY FilesFacts DEF Base, Types
          <6> QED
            BY <5>2, <6>4, <6>5
        <5> QED
          BY <5>1, <5>2
      <4>4. IdAt(m, j) < IdAt(n, i) /\ IdAt(m, j) \in 1 .. emitted /\ IdAt(n, i) \in 1 .. emitted
        BY <4>2, <4>3 DEF Base, EventInv
      <4>5. IdAt(n, i) > IdAt(m, j)
        BY <4>4
      <4> QED
        BY <4>1, <4>5 DEF IdAt
    <3> QED
      BY <3>4, <3>5
  <2> QED
    BY <2>2, <2>3, WalkMoves
<1>7. \A n, i : /\ Good(n)' = Good(n) /\ IdAt(n, i)' = IdAt(n, i)
                /\ Growing(n, i)' <=> Growing(n, i)
  BY <1>1 DEF Good, IdAt, Growing
<1> QED
  BY <1>1, <1>2, <1>4, <1>5, <1>6, <1>7 DEF LateInv

LEMMA LateStep ==
    ASSUME Base, Base', PageInv, OrderInv, LateInv, [Next]_vars
    PROVE  LateInv'
<1>1. CASE Write \/ Die
  <2>1. Settles \/ Writes \/ Opens \/ Emits
    BY <1>1, WriteKinds DEF Base
  <2> QED
    BY <2>1, SinkLate
<1>2. CASE Walk
  BY <1>2, WalkLate
<1>3. CASE Ask \/ Answer
  <2>1. ~Started' /\ reader'.out = << >>
    <3>1. CASE Answer
      BY <3>1, IdleIs DEF Answer, Started
    <3>2. CASE Ask
      <4>1. PICK query \in Queries :
              reader' = [Idle EXCEPT !.pc = "walk", !.query = query, !.rolls = IF Rolling THEN 1 ELSE 0]
        BY <3>2 DEF Ask
      <4>2. reader'.pc = "walk" /\ reader'.k = 0 /\ reader'.out = << >>
        BY <4>1 DEF Idle
      <4> QED
        BY <4>2 DEF Started
    <3> QED
      BY <1>3, <3>1, <3>2
  <2>2. 1 .. Len(reader'.out) = {}
    <3>1. Len(<< >>) = 0
      OBVIOUS
    <3> QED
      BY <2>1, <3>1
  <2> QED
    BY <2>1, <2>2 DEF LateInv
<1>4. CASE UNCHANGED vars
  BY <1>4 DEF LateInv, Started, Growing, Good, IdAt, Pending, Rolling, vars, log, history
<1> QED
  BY <1>1, <1>2, <1>3, <1>4 DEF Next

OnPage(id) == \E a \in 1 .. Len(reader.out) : reader.out[a].id = id
Older(id) == \A a \in 1 .. Len(reader.out) : id < reader.out[a].id
Newer(id) == \A a \in 1 .. Len(reader.out) : id > reader.out[a].id
StillAhead(k) == reader.pc = "walk" /\ names[k] \notin reader.read /\ k >= reader.k

Accounted(k, id) ==
  \/ OnPage(id)
  \/ StillAhead(k)
  \/ ~reader.reached /\ Older(id)
  \/ id > reader.from /\ Newer(id)

WholeInv ==
  reader.pc # "idle" /\ reader.rolls <= 1 /\ ~reader.errors /\ reader.query.since = 0 =>
    \A k \in Paths : \A i \in Good(names[k]) : HeldLine(k, i) => Accounted(k, IdAt(names[k], i))

\* Where a line at a path was before a step of the sink.
WasHeld(k, n, i) ==
  \/ \E j \in Paths : j <= k /\ names[j] = n /\ HeldLine(j, i)
                      /\ files'[n][i].event = files[n][i].event
  \/ /\ n \in 1 .. Len(files) /\ i \in Good(n) /\ Growing(n, i)
     /\ files'[n][i].event = files[n][i].event
  \/ sink.pc = "append" /\ files'[n][i].event = sink.event

LEMMA HeldFrom ==
    ASSUME Base, Base', Write \/ Die, NEW k \in Paths, NEW n \in 1 .. Len(files'), names'[k] = n,
           NEW i \in Good(n)', files'[n][i].ended
    PROVE  WasHeld(k, n, i)
<1>1. Settles \/ Writes \/ Opens \/ Emits
  BY WriteKinds DEF Base
<1>2. n # NoFile /\ Len(files) \in Nat /\ Len(files') \in Nat
  BY FilesFacts DEF Base, Types, NoFile
<1>3. Arrives(k)
  BY <1>2, SinkPaths DEF PathsMove
<1>4. ASSUME n \in 1 .. Len(files), i \in Good(n), files[n][i].ended,
             files'[n][i].event = files[n][i].event
      PROVE  WasHeld(k, n, i)
  <2>1. \E j \in Paths : j <= k /\ names[j] = n
    <3>1. CASE names'[k] = names[k]
      BY <3>1, PathFacts
    <3>2. CASE names'[0] > Len(files) /\ k = 0
      BY <1>2, <1>4, <3>2
    <3>3. CASE k > 0 /\ names'[k] = names[k - 1]
      <4>1. PICK j \in Paths : j = k - 1 /\ j <= k
        BY <3>3, PathFacts DEF Paths
      <4> QED
        BY <3>3, <4>1
    <3> QED
      BY <1>3, <3>1, <3>2, <3>3 DEF Arrives
  <2>2. PICK j \in Paths : j <= k /\ names[j] = n
    BY <2>1
  <2>3. HeldLine(j, i)
    BY <1>2, <1>4, <2>2 DEF HeldLine
  <2> QED
    BY <1>4, <2>2, <2>3 DEF WasHeld
<1>5. CASE Stays(n, i)
  <2>1. n \in 1 .. Len(files) /\ i \in Good(n) /\ files'[n][i].event = files[n][i].event
    BY <1>5 DEF Stays
  <2>2. CASE files[n][i].ended
    BY <1>4, <2>1, <2>2
  <2>3. CASE ~files[n][i].ended
    <3>1. n = Len(files) /\ i = Len(files[n])
      BY <1>5, <2>3 DEF Stays
    <3> QED
      BY <2>1, <2>3, <3>1 DEF WasHeld, Growing
  <2> QED
    BY <2>2, <2>3
<1>6. CASE Emits
  <2>1. files' = files
    BY <1>6 DEF Emits
  <2> QED
    BY <1>4, <2>1 DEF Good
<1>7. CASE KeepsLines
  BY <1>5, <1>7 DEF KeepsLines
<1>8. CASE Writes
  BY <1>5, <1>8 DEF Writes, WritesLine, WasHeld
<1> QED
  BY <1>1, <1>6, <1>7, <1>8 DEF Settles, Opens

LEMMA SinkWhole ==
    ASSUME Base, Base', PageInv, LateInv, WholeInv, Write \/ Die
    PROVE  WholeInv'
<1>1. Settles \/ Writes \/ Opens \/ Emits
  BY WriteKinds DEF Base
<1>2. /\ reader'.pc = reader.pc /\ reader'.k = reader.k /\ reader'.read = reader.read
      /\ reader'.out = reader.out /\ reader'.reached = reader.reached
      /\ reader'.errors = reader.errors /\ reader'.from = reader.from
      /\ reader'.query = reader.query
      /\ reader.rolls \in Nat /\ reader'.rolls \in Nat /\ reader.k \in Nat
      /\ reader'.rolls = reader.rolls \/ reader'.rolls = reader.rolls + 1
  BY <1>1, SinkReader
<1> SUFFICES ASSUME reader'.pc # "idle", reader'.rolls <= 1, ~reader'.errors,
                    reader'.query.since = 0,
                    NEW k \in Paths, NEW n, n = names'[k], NEW i \in Good(n)', HeldLine(k, i)'
             PROVE  Accounted(k, IdAt(n, i))'
  BY DEF WholeInv
<1>3. n \in 1 .. Len(files') /\ files'[n][i].ended
  <2>1. names'[k] # NoFile
    BY DEF HeldLine
  <2>2. names'[k] \in 0 .. Len(files') /\ Len(files') \in Nat
    BY FilesFacts DEF Base, Types, SetInv
  <2> QED
    BY <2>1, <2>2 DEF HeldLine, NoFile
<1>4. WasHeld(k, n, i)
  BY <1>3, HeldFrom
<1> DEFINE id == files'[n][i].event.id
<1>5. IdAt(n, i)' = id
  BY DEF IdAt
<1>6. k \in Nat
  BY PathFacts
<1>7. ASSUME NEW j \in Paths, j <= k, names[j] = n, HeldLine(j, i),
             files'[n][i].event = files[n][i].event
      PROVE  Accounted(k, IdAt(n, i))'
  <2>1. id = IdAt(n, i) /\ i \in Good(n)
    BY <1>7 DEF HeldLine, IdAt
  <2>2. Accounted(j, id)
    BY <1>2, <1>7, <2>1 DEF WholeInv
  <2> HIDE DEF id
  <2>3. CASE StillAhead(j)
    <3>1. StillAhead(k)'
      BY <1>2, <1>6, <1>7, <2>3, PathFacts DEF StillAhead
    <3> QED
      BY <3>1 DEF Accounted
  <2>4. CASE OnPage(id)
    BY <1>2, <1>5, <2>4 DEF Accounted, OnPage
  <2>5. CASE ~reader.reached /\ Older(id)
    BY <1>2, <1>5, <2>5 DEF Accounted, Older
  <2>6. CASE id > reader.from /\ Newer(id)
    BY <1>2, <1>5, <2>6 DEF Accounted, Newer
  <2> QED
    BY <2>2, <2>3, <2>4, <2>5, <2>6 DEF Accounted
<1>8. ASSUME Started => id > reader.from /\ Newer(id)
      PROVE  Accounted(k, IdAt(n, i))'
  <2>1. CASE Started
    <3>1. Newer(id)
      BY <1>8, <2>1
    <3> QED
      BY <1>2, <1>5, <1>8, <2>1, <3>1 DEF Accounted, Newer
  <2>2. CASE ~Started
    <3>1. reader.pc = "walk" /\ reader.k = 0
      <4>1. reader.pc \in {"idle", "walk", "done"}
        BY DEF Base, Types, ReaderType
      <4> QED
        BY <1>2, <2>2, <4>1 DEF Started
    <3>2. reader.read = {}
      BY <3>1 DEF PageInv, Fresh
    <3>3. StillAhead(k)'
      BY <1>2, <1>6, <3>1, <3>2 DEF StillAhead
    <3> QED
      BY <3>3 DEF Accounted
  <2> QED
    BY <2>1, <2>2
<1>9. CASE n \in 1 .. Len(files) /\ i \in Good(n) /\ Growing(n, i)
           /\ files'[n][i].event = files[n][i].event
  <2>1. id = IdAt(n, i)
    BY <1>9 DEF IdAt
  <2>2. Started => id > reader.from
    BY <1>9, <2>1 DEF LateInv
  <2>3. reader.rolls <= 1
    BY <1>2
  <2>4. Newer(id)
    BY <1>9, <2>1, <2>3 DEF LateInv, Newer
  <2> QED
    BY <1>8, <2>2, <2>4
<1>10. CASE sink.pc = "append" /\ files'[n][i].event = sink.event
  <2>1. Pending /\ id = emitted
    BY <1>10 DEF Pending, Base, EventInv
  <2>2. emitted \in Nat /\ reader.from \in Nat
    BY DEF Base, Types, ReaderType
  <2>3. Started => emitted > reader.from
    BY <2>1, <2>2 DEF LateInv
  <2>4. Newer(emitted)
    <3>1. \A a \in 1 .. Len(reader.out) : reader.out[a].id \in 1 .. emitted /\ reader.out[a].id < emitted
      BY <2>1 DEF PageInv
    <3> QED
      BY <2>2, <3>1 DEF Newer
  <2> QED
    BY <1>8, <2>1, <2>3, <2>4
<1> QED
  BY <1>4, <1>7, <1>9, <1>10 DEF WasHeld

LEMMA WalkWhole ==
    ASSUME Base, Base', PageInv, OrderInv, WholeInv, Walk
    PROVE  WholeInv'
<1>1. /\ names' = names /\ files' = files
      /\ reader.pc = "walk" /\ reader.k \in Paths /\ reader.k \in Nat /\ Keep \in Nat
      /\ reader.reached = TRUE
  BY WalkSet, PathFacts DEF Looks, Walk, Base, Types, OrderInv
<1>2. /\ reader'.rolls = reader.rolls /\ reader'.query = reader.query
      /\ reader'.from = IF reader.k = 0 THEN Latest ELSE reader.from
      /\ reader'.errors = reader.errors \/ reader'.errors = TRUE
  BY WalkMoves DEF Passes, ReadsFile, Notes
<1> SUFFICES ASSUME reader'.rolls <= 1, ~reader'.errors, reader'.query.since = 0,
                    NEW k \in Paths, NEW n, n = names[k], NEW i \in Good(n), HeldLine(k, i),
                    NEW id, id = IdAt(n, i)
             PROVE  Accounted(k, id)'
  <2>1. \A k \in Paths : \A i \in Good(names[k])' : HeldLine(k, i)' =>
          i \in Good(names[k]) /\ HeldLine(k, i) /\ IdAt(names[k], i)' = IdAt(names[k], i)
    BY <1>1 DEF Good, HeldLine, IdAt
  <2>2. ASSUME reader'.rolls <= 1, ~reader'.errors, reader'.query.since = 0,
               NEW k \in Paths, NEW i \in Good(names[k])', HeldLine(k, i)'
        PROVE  Accounted(k, IdAt(names[k], i))'
    <3>1. PICK n : n = names[k]
      OBVIOUS
    <3>2. PICK id : id = IdAt(n, i)
      OBVIOUS
    <3>3. i \in Good(n) /\ HeldLine(k, i) /\ IdAt(names[k], i)' = id
      BY <1>1, <2>1, <2>2, <3>1, <3>2
    <3>4. Accounted(k, id)'
      BY <2>2, <3>1, <3>2, <3>3
    <3> QED
      BY <3>3, <3>4 DEF Accounted, OnPage, Older, Newer
  <2> QED
    BY <2>2 DEF WholeInv
<1>3. n \in 1 .. Len(files) /\ n # NoFile /\ files[n][i].ended /\ n \in Nat /\ k \in Nat
  BY NamedIs, PathFacts DEF HeldLine, Base
<1>4. id = files[n][i].event.id /\ IdAt(n, i) = id
  BY DEF IdAt
<1>5. Accounted(k, id)
  <2>1. ~reader.errors /\ reader.rolls <= 1 /\ reader.query.since = 0
    BY <1>2
  <2> QED
    BY <1>1, <1>4, <2>1 DEF WholeInv
<1>6. /\ reader.rolls <= 1 /\ ~reader.errors
      /\ \A a \in 1 .. Len(reader.out) : reader.out[a].id \in Nat
  <2>1. \A a \in 1 .. Len(reader.out) : reader.out[a].id \in 1 .. emitted
    BY DEF PageInv
  <2> QED
    BY <1>2, <2>1
<1>7. StillAhead(k) => Precedes(n) /\ Older(id)
  <2>1. StillAhead(k) => Precedes(n)
    BY <1>1, <1>3, <1>6 DEF StillAhead, OrderInv
  <2> QED
    BY <1>4, <2>1 DEF Precedes, Older
<1>8. ~StillAhead(k) => reader'.from = reader.from /\ (k < reader.k \/ n \in reader.read)
  <2>1. reader.k = 0 => StillAhead(k)
    BY <1>1, <1>3 DEF StillAhead, PageInv, Fresh
  <2>2. ~StillAhead(k) => k < reader.k \/ n \in reader.read
    BY <1>1, <1>3 DEF StillAhead
  <2> QED
    BY <1>2, <2>1, <2>2
<1>9. OnPage(id) \/ StillAhead(k) \/ (~StillAhead(k) /\ id > reader.from /\ Newer(id))
  BY <1>1, <1>5 DEF Accounted
<1>10. ASSUME Onward, StillAhead(k), k # reader.k, n \notin reader'.read
       PROVE  Accounted(k, id)'
  <2>1. k > reader.k
    BY <1>1, <1>3, <1>10 DEF StillAhead
  <2>2. reader.k # Keep - 1
    BY <1>1, <1>3, <2>1, PathFacts
  <2>3. reader'.pc = "walk" /\ reader'.k = reader.k + 1
    BY <1>10, <2>2 DEF Onward
  <2>4. StillAhead(k)'
    BY <1>1, <1>3, <1>10, <2>1, <2>3 DEF StillAhead
  <2> QED
    BY <2>4 DEF Accounted
<1>11. CASE Passes
  <2>1. reader'.out = reader.out /\ reader'.read = reader.read
    BY <1>11 DEF Passes
  <2>2. CASE OnPage(id)
    BY <1>1, <1>4, <2>1, <2>2 DEF OnPage, Accounted
  <2>3. CASE ~StillAhead(k) /\ id > reader.from /\ Newer(id)
    BY <1>1, <1>4, <1>8, <2>1, <2>3 DEF Newer, Accounted
  <2>4. CASE StillAhead(k)
    <3>1. CASE Back
      <4>1. ~reader'.reached /\ Older(id)'
        BY <1>1, <1>7, <2>1, <2>4, <3>1 DEF Back, Older
      <4> QED
        BY <1>4, <4>1 DEF Accounted
    <3>2. CASE Onward /\ (\/ names[reader.k] = NoFile
                          \/ names[reader.k] # NoFile /\ files[names[reader.k]] = << >>
                          \/ names[reader.k] # NoFile /\ names[reader.k] \in reader.read)
      <4>1. k # reader.k
        <5>1. Len(<< >>) = 0
          OBVIOUS
        <5>2. i \in 1 .. Len(files[n])
          BY DEF Good
        <5>3. files[n] # << >>
          BY <5>1, <5>2
        <5> QED
          BY <1>3, <2>4, <3>2, <5>3 DEF StillAhead
      <4> QED
        BY <1>4, <1>10, <2>1, <2>4, <3>2, <4>1 DEF StillAhead
    <3> QED
      BY <1>11, <3>1, <3>2 DEF Passes
  <2> QED
    BY <1>4, <1>9, <2>2, <2>3, <2>4
<1>12. ASSUME NEW cut \in Nat, ReadsFile(cut)
       PROVE  Accounted(k, id)'
  <2>1. PICK m \in 1 .. Len(files) : m = names[reader.k]
    BY <1>1, <1>12, NamedIs DEF ReadsFile, Base
  <2> DEFINE stop == Walked(Here, reader.first, cut).stop
             S == TakenIn(m, cut, stop)
             old == reader.out
             new == reader'.out
  <2>2. Adds(m, S) /\ stop \in 0 .. Len(files[m])
    BY <1>1, <1>12, <2>1, ReadGives DEF StopsAt
  <2>3. m \notin reader.read /\ reader'.read = reader.read \cup {m} /\ m # NoFile
    BY <1>12, <2>1 DEF ReadsFile
  <2>4. S = {j \in Good(m) : j > cut /\ j >= stop /\ ~Hidden(m, j) /\ AtAt(m, j) >= reader.query.since}
    BY DEF TakenIn
  <2>5. \/ cut = 0 /\ stop > 1 /\ Back
        \/ cut = 0 /\ stop <= 1 /\ Onward
        \/ cut > 0 /\ stop = 0 /\ Back
    <3>1. ~(reader'.errors = TRUE)
      OBVIOUS
    <3> QED
      BY <1>12, <3>1 DEF ReadsFile
  <2>6. stop \in Nat /\ Len(files[m]) \in Nat
    <3>1. Len(files[m]) \in Nat
      BY FilesFacts DEF Base, Types
    <3> QED
      BY <2>2, <3>1
  <2> HIDE DEF S, stop
  <2>7. /\ \A a \in 1 .. Len(old) : a \in 1 .. Len(new) /\ new[a] = old[a]
        /\ \A a \in 1 .. Len(new) : a \in 1 .. Len(old) \/ \E j \in S : new[a] = files[m][j].event
        /\ \A j \in S : \E a \in 1 .. Len(new) : new[a] = files[m][j].event
    BY <2>2 DEF Adds
  <2>8. ASSUME \A j \in S : id < IdAt(m, j), Older(id)
        PROVE  Older(id)'
    <3>1. \A a \in 1 .. Len(new) : id < new[a].id
      BY <2>7, <2>8 DEF Older, IdAt
    <3> QED
      BY <1>1, <3>1 DEF Older
  <2>9. ASSUME \A j \in S : id > IdAt(m, j), Newer(id)
        PROVE  Newer(id)'
    <3>1. \A a \in 1 .. Len(new) : id > new[a].id
      BY <2>7, <2>9 DEF Newer, IdAt
    <3> QED
      BY <1>1, <3>1 DEF Newer
  <2>10. \A j \in S : /\ m < n => id > IdAt(m, j)
                      /\ n < m => id < IdAt(m, j)
                      /\ n = m /\ i < j => id < IdAt(m, j)
    <3>1. ASSUME NEW j \in S
          PROVE  j \in Good(m) /\ IdAt(m, j) \in 1 .. emitted /\ id \in 1 .. emitted
      BY <1>3, <1>4, <2>4 DEF Base, EventInv
    <3>2. ASSUME NEW j \in S, m < n
          PROVE  IdAt(m, j) < id
      BY <1>3, <1>4, <3>1, <3>2 DEF Base, EventInv
    <3>3. ASSUME NEW j \in S, n < m \/ (n = m /\ i < j)
          PROVE  id < IdAt(m, j)
      BY <1>3, <1>4, <3>1, <3>3 DEF Base, EventInv
    <3> QED
      BY <3>1, <3>2, <3>3
  <2>11. CASE OnPage(id)
    <3>1. OnPage(id)'
      BY <1>1, <2>7, <2>11 DEF OnPage
    <3> QED
      BY <3>1 DEF Accounted
  <2>12. CASE ~StillAhead(k) /\ id > reader.from /\ Newer(id)
    <3>1. m < n
      <4>1. CASE k < reader.k
        BY <1>1, <1>3, <2>1, <2>3, <4>1 DEF Base, SetInv, Descends
      <4>2. CASE n \in reader.read
        <5>1. Precedes(m)
          BY <1>1, <1>6, <2>1, <2>3 DEF OrderInv
        <5> QED
          BY <4>2, <5>1 DEF Precedes
      <4> QED
        BY <1>8, <2>12, <4>1, <4>2
    <3>2. Newer(id)'
      BY <2>9, <2>10, <2>12, <3>1
    <3>3. id > reader'.from
      BY <1>8, <2>12
    <3> QED
      BY <1>1, <3>2, <3>3 DEF Accounted
  <2>13. CASE StillAhead(k) /\ k # reader.k
    <3>1. n < m
      <4>1. reader.k < k
        BY <1>1, <1>3, <2>13 DEF StillAhead
      <4> QED
        BY <1>1, <1>3, <2>1, <2>3, <4>1 DEF Base, SetInv, Descends
    <3>2. CASE Onward
      <4>1. n \notin reader'.read
        BY <1>3, <2>3, <2>13, <3>1 DEF StillAhead
      <4> QED
        BY <1>10, <2>13, <3>2, <4>1
    <3>3. CASE Back
      <4>1. Older(id)'
        BY <1>7, <2>8, <2>10, <2>13, <3>1
      <4>2. ~reader'.reached
        BY <3>3 DEF Back
      <4> QED
        BY <1>1, <4>1, <4>2 DEF Accounted
    <3> QED
      BY <2>5, <3>2, <3>3
  <2>14. CASE StillAhead(k) /\ k = reader.k
    <3>1. n = m
      BY <2>1, <2>14
    <3>2. i \in Good(m) /\ i \in 1 .. Len(files[m]) /\ ~Hidden(m, i)
      BY <1>3, <3>1 DEF Hidden, Good
    <3>3. AtAt(m, i) >= reader.query.since
      <4>1. files[m][i] \in LineType
        BY <3>2, FilesFacts DEF Base, Types
      <4>2. AtAt(m, i) \in Nat
        BY <4>1 DEF AtAt, LineType, EventType
      <4>3. reader.query.since = 0
        BY <1>2
      <4> QED
        BY <4>2, <4>3
    <3>4. CASE i > cut /\ i >= stop
      <4>1. i \in S
        BY <2>4, <3>2, <3>3, <3>4
      <4>2. OnPage(id)'
        BY <1>1, <1>4, <2>7, <3>1, <4>1 DEF OnPage
      <4> QED
        BY <4>2 DEF Accounted
    <3>5. CASE ~(i > cut /\ i >= stop)
      <4>1. Back
        BY <2>5, <2>6, <3>2, <3>5
      <4>2. \A j \in S : i < j
        <5>1. \A j \in S : j > cut /\ j >= stop /\ j \in 1 .. Len(files[m])
          BY <2>4 DEF Good
        <5> QED
          BY <2>5, <2>6, <3>2, <3>5, <5>1
      <4>3. Older(id)'
        BY <1>7, <2>8, <2>10, <2>14, <3>1, <4>2
      <4>4. ~reader'.reached
        BY <4>1 DEF Back
      <4> QED
        BY <1>1, <4>3, <4>4 DEF Accounted
    <3> QED
      BY <3>4, <3>5
  <2> QED
    BY <1>9, <2>11, <2>12, <2>13, <2>14
<1> QED
  BY <1>11, <1>12, WalkMoves

LEMMA WholeStep ==
    ASSUME Base, Base', PageInv, OrderInv, LateInv, WholeInv, [Next]_vars
    PROVE  WholeInv'
<1>1. CASE Write \/ Die
  BY <1>1, SinkWhole
<1>2. CASE Walk
  BY <1>2, WalkWhole
<1>3. CASE Answer
  <2>1. reader'.pc = "idle"
    BY <1>3, IdleIs DEF Answer
  <2> QED
    BY <2>1 DEF WholeInv
<1>4. CASE Ask
  <2>1. PICK query \in Queries :
          reader' = [Idle EXCEPT !.pc = "walk", !.query = query, !.rolls = IF Rolling THEN 1 ELSE 0]
    BY <1>4 DEF Ask
  <2>2. reader'.pc = "walk" /\ reader'.k = 0 /\ reader'.read = {}
    BY <2>1 DEF Idle
  <2>3. ASSUME NEW k \in Paths
        PROVE  StillAhead(k)'
    <3>1. k \in Nat
      BY PathFacts
    <3>2. names'[k] \notin reader'.read
      BY <2>2
    <3>3. k >= reader'.k
      BY <2>2, <3>1
    <3> QED
      BY <2>2, <3>2, <3>3 DEF StillAhead
  <2> QED
    BY <2>3 DEF WholeInv, Accounted
<1>5. CASE UNCHANGED vars
  <2>1. names' = names /\ files' = files /\ reader' = reader
    BY <1>5 DEF vars, log
  <2>2. ASSUME reader.pc # "idle" /\ reader.rolls <= 1 /\ ~reader.errors /\ reader.query.since = 0,
               NEW k \in Paths, NEW i \in Good(names[k])', HeldLine(k, i)'
        PROVE  Accounted(k, IdAt(names[k], i))'
    <3>1. i \in Good(names[k]) /\ HeldLine(k, i)
      BY <2>1, <2>2 DEF Good, HeldLine
    <3>2. Accounted(k, IdAt(names[k], i))
      BY <2>2, <3>1 DEF WholeInv
    <3> QED
      BY <2>1, <3>2 DEF Accounted, OnPage, Older, Newer, StillAhead, IdAt
  <2> QED
    BY <2>1, <2>2 DEF WholeInv
<1> QED
  BY <1>1, <1>2, <1>3, <1>4, <1>5 DEF Next

LEMMA OldestIs ==
    ASSUME Base, PageInv
    PROVE  /\ Oldest \in Nat
           /\ Page = {} => Oldest = reader.from + 1
           /\ Page # {} => Oldest \in Page
           /\ \A p \in Page : p \in Nat /\ Oldest <= p
<1>1. Page \subseteq Nat
  <2>1. ASSUME NEW p \in Page
        PROVE  p \in Nat
    <3>1. PICK a \in 1 .. Len(reader.out) : p = reader.out[a].id
      BY PageIs DEF Base
    <3>2. p \in 1 .. emitted
      BY <3>1 DEF PageInv
    <3> QED
      BY <3>2
  <2> QED
    BY <2>1
<1>2. reader.from \in Nat
  BY DEF Base, Types, ReaderType
<1>3. CASE Page = {}
  BY <1>2, <1>3 DEF Oldest
<1>4. CASE Page # {}
  <2>1. Min(Page) \in Page /\ \A p \in Page : Min(Page) <= p
    BY <1>1, <1>4, MinIs
  <2>2. Oldest = Min(Page)
    BY <1>4 DEF Oldest
  <2> QED
    BY <1>1, <1>4, <2>1, <2>2
<1> QED
  BY <1>3, <1>4

LEMMA WholeIs ==
    ASSUME Base, PageInv, OrderInv, WholeInv
    PROVE  PageIsWhole
<1> SUFFICES ASSUME reader.pc = "done", reader.rolls <= 1, ~reader.errors, reader.query.since = 0
             PROVE  /\ \A n \in 1..Len(reader.out) - 1 : reader.out[n].id > reader.out[n + 1].id
                    /\ \A id \in Held : id <= reader.from /\ id >= Oldest => id \in Page
                    /\ reader.reached => \A id \in Held : id >= Oldest
  BY DEF PageIsWhole
<1>1. /\ Len(reader.out) \in Nat /\ reader.from \in Nat
      /\ \A p : p \in Page <=> \E a \in 1 .. Len(reader.out) : p = reader.out[a].id
  BY PageIs DEF Base, Types, ReaderType
<1>2. ASSUME NEW n \in 1..Len(reader.out) - 1
      PROVE  reader.out[n].id > reader.out[n + 1].id
  <2>1. n \in 1 .. Len(reader.out) /\ n + 1 \in 1 .. Len(reader.out) /\ n < n + 1
    BY <1>1
  <2> QED
    BY <2>1 DEF OrderInv
<1>3. ASSUME NEW id \in Held
      PROVE  /\ id \in Nat
             /\ id \in Page \/ (~reader.reached /\ Older(id)) \/ (id > reader.from /\ Newer(id))
  <2>1. PICK k \in Paths : \E i \in Good(names[k]) : HeldLine(k, i) /\ id = IdAt(names[k], i)
    BY HeldIs DEF Base
  <2>2. PICK i \in Good(names[k]) : HeldLine(k, i) /\ id = IdAt(names[k], i)
    BY <2>1
  <2>3. Accounted(k, id)
    BY <2>2 DEF WholeInv
  <2>4. OnPage(id) => id \in Page
    BY <1>1 DEF OnPage
  <2>5. id \in 1 .. emitted
    BY LatestIs
  <2> QED
    BY <2>3, <2>4, <2>5 DEF Accounted, StillAhead
<1>4. /\ Oldest \in Nat /\ (Page = {} => Oldest = reader.from + 1)
      /\ Page # {} => Oldest \in Page
      /\ \A p \in Page : p \in Nat /\ Oldest <= p
  BY OldestIs
<1>5. ASSUME NEW id \in Held, id <= reader.from, id >= Oldest
      PROVE  id \in Page
  <2>1. CASE Older(id)
    <3>1. Page # {}
      BY <1>1, <1>3, <1>4, <1>5
    <3>2. id < Oldest
      BY <1>1, <1>4, <2>1, <3>1 DEF Older
    <3> QED
      BY <1>3, <1>4, <1>5, <3>2
  <2>2. ~(id > reader.from)
    BY <1>1, <1>3, <1>5
  <2> QED
    BY <1>3, <2>1, <2>2
<1>6. ASSUME reader.reached, NEW id \in Held
      PROVE  id >= Oldest
  <2>1. CASE id \in Page
    BY <1>3, <1>4, <2>1
  <2>2. CASE id > reader.from /\ Newer(id)
    <3>1. CASE Page = {}
      BY <1>1, <1>3, <1>4, <2>2, <3>1
    <3>2. CASE Page # {}
      <4>1. id > Oldest
        BY <1>1, <1>4, <2>2, <3>2 DEF Newer
      <4> QED
        BY <1>3, <1>4, <4>1
    <3> QED
      BY <3>1, <3>2
  <2> QED
    BY <1>3, <1>6, <2>1, <2>2
<1> QED
  BY <1>2, <1>5, <1>6

LEMMA WalkBegins ==
    ASSUME Init
    PROVE  PageInv /\ OrderInv /\ LateInv /\ WholeInv
<1>1. Types /\ Fresh /\ reader.pc = "idle" /\ files = << >>
  BY SetBegins, IdleIs DEF Init, Fresh
<1>2. 1 .. Len(reader.out) = {} /\ 1 .. Len(files) = {}
  <2>1. Len(<< >>) = 0
    OBVIOUS
  <2> QED
    BY <1>1, <2>1 DEF Fresh
<1> QED
  BY <1>1, <1>2, FreshPage DEF OrderInv, LateInv, Started, WholeInv

\* With at most one roll during it and no error, a walk gives the newest
\* events in order and leaves none out between them; and one that says it
\* reached the oldest left nothing older in the set.
THEOREM PageLeavesNothingOut == Spec => []PageIsWhole
<1> DEFINE Inv == PageInv /\ OrderInv /\ LateInv /\ WholeInv
<1>1. Init => Inv
  BY WalkBegins
<1>2. Base /\ Base' /\ Inv /\ [Next]_vars => Inv'
  BY PageStep, OrderStep, LateStep, WholeStep
<1>3. Base /\ Inv => PageIsWhole
  BY WholeIs
<1> HIDE DEF Inv
<1> QED
  BY LogIsOrdered, <1>1, <1>2, <1>3, PTL DEF Spec

-----------------------------------------------------------------------------
(* Times of one process do not step back from event to event.              *)

ClockInv ==
  /\ On => \A n \in 1 .. Len(files) : \A i \in Good(n) : IdAt(n, i) >= born => AtAt(n, i) <= sink.last
  /\ Pending => sink.event.at = sink.last
  /\ born <= emitted + 1 /\ (Pending => born <= emitted)
  /\ \A m, n \in 1 .. Len(files) : \A i \in Good(m), j \in Good(n) :
       born <= IdAt(m, i) /\ IdAt(m, i) < IdAt(n, j) => AtAt(m, i) <= AtAt(n, j)

LEMMA LineNumbers ==
    ASSUME Base, NEW n \in 1 .. Len(files), NEW i \in Good(n)
    PROVE  IdAt(n, i) \in 1 .. emitted /\ IdAt(n, i) \in Nat /\ AtAt(n, i) \in Nat /\ i \in Nat
<1>1. IdAt(n, i) \in 1 .. emitted /\ emitted \in Nat
  BY DEF Base, EventInv, Types
<1>2. files[n][i] \in LineType /\ i \in Nat
  BY FilesFacts DEF Base, Types, Good
<1>3. AtAt(n, i) \in Nat
  BY <1>2 DEF AtAt, LineType, EventType
<1> QED
  BY <1>1, <1>2, <1>3

LEMMA ClockStep ==
    ASSUME Base, Base', ClockInv, [Next]_vars
    PROVE  ClockInv'
<1>1. /\ Settles \/ Writes \/ Opens \/ Emits \/ Looks
      /\ emitted \in Nat /\ emitted' \in Nat /\ born \in Nat /\ born' \in Nat
      /\ sink.last \in Nat /\ sink'.last \in Nat
      /\ Len(files) \in Nat /\ Len(files') \in Nat
  BY BaseStep, FilesFacts DEF Base, Types, SinkType
<1>2. ASSUME UNCHANGED <<born, emitted>>, Pending' => Pending /\ sink'.event = sink.event,
             On' => On /\ sink'.last = sink.last,
             \A n \in 1 .. Len(files') : \A i \in Good(n)' :
               n \in 1 .. Len(files) /\ i \in Good(n) /\ files'[n][i].event = files[n][i].event
      PROVE  ClockInv'
  <2>1. \A n \in 1 .. Len(files') : \A i \in Good(n)' :
          /\ n \in 1 .. Len(files) /\ i \in Good(n)
          /\ IdAt(n, i)' = IdAt(n, i) /\ AtAt(n, i)' = AtAt(n, i)
    BY <1>2 DEF IdAt, AtAt
  <2>2. On' => \A n \in 1 .. Len(files') : \A i \in Good(n)' :
          IdAt(n, i)' >= born' => AtAt(n, i)' <= sink'.last
    BY <1>2, <2>1 DEF ClockInv
  <2>3. Pending' => sink'.event.at = sink'.last
    <3>1. Pending' => On'
      BY DEF Pending, Rolling, On
    <3> QED
      BY <1>2, <3>1 DEF ClockInv
  <2>4. born' <= emitted' + 1 /\ (Pending' => born' <= emitted')
    BY <1>2 DEF ClockInv
  <2>5. ASSUME NEW m \in 1 .. Len(files'), NEW n \in 1 .. Len(files'),
               NEW i \in Good(m)', NEW j \in Good(n)',
               born' <= IdAt(m, i)', IdAt(m, i)' < IdAt(n, j)'
        PROVE  AtAt(m, i)' <= AtAt(n, j)'
    BY <1>2, <2>1, <2>5 DEF ClockInv
  <2> QED
    BY <2>2, <2>3, <2>4, <2>5 DEF ClockInv
<1>3. CASE Settles
  BY <1>2, <1>3 DEF Settles, KeepsLines, Stays
<1>4. CASE Looks
  BY <1>2, <1>4 DEF Looks, Pending, Rolling, On, Good
<1>5. CASE Opens
  <2>1. born' = emitted + 1 /\ emitted' = emitted /\ ~Pending'
    BY <1>5 DEF Opens
  <2>2. ASSUME NEW n \in 1 .. Len(files'), NEW i \in Good(n)'
        PROVE  ~(IdAt(n, i)' >= born')
    <3>1. IdAt(n, i)' \in 1 .. emitted'
      BY DEF Base, EventInv
    <3> QED
      BY <1>1, <2>1, <3>1
  <2>3. ASSUME NEW n \in 1 .. Len(files'), NEW i \in Good(n)'
        PROVE  ~(born' <= IdAt(n, i)')
    <3>1. IdAt(n, i)' \in 1 .. emitted'
      BY DEF Base, EventInv
    <3> QED
      BY <1>1, <2>1, <3>1
  <2> QED
    BY <1>1, <2>1, <2>2, <2>3 DEF ClockInv
<1>6. CASE Emits
  <2>1. /\ files' = files /\ born' = born /\ emitted' = emitted + 1 /\ On
        /\ sink'.event.at = sink'.last /\ sink'.last >= sink.last
    BY <1>6 DEF Emits, On
  <2>2. \A n, i : Good(n)' = Good(n) /\ IdAt(n, i)' = IdAt(n, i) /\ AtAt(n, i)' = AtAt(n, i)
    BY <2>1 DEF Good, IdAt, AtAt
  <2>3. ASSUME NEW n \in 1 .. Len(files), NEW i \in Good(n), IdAt(n, i) >= born
        PROVE  AtAt(n, i) <= sink'.last
    <3>1. AtAt(n, i) <= sink.last /\ AtAt(n, i) \in Nat
      BY <2>1, <2>3, LineNumbers DEF ClockInv
    <3> QED
      BY <1>1, <2>1, <3>1
  <2>4. born' <= emitted' /\ born' <= emitted' + 1
    BY <1>1, <2>1 DEF ClockInv
  <2> QED
    BY <2>1, <2>2, <2>3, <2>4 DEF ClockInv
<1>7. CASE Writes
  <2>1. /\ UNCHANGED <<born, emitted>> /\ ~Pending' /\ (On' => sink'.last = sink.last)
        /\ Len(files') = Len(files) /\ Pending /\ On
        /\ \A n \in 1 .. Len(files') : \A i \in Good(n)' :
             \/ n \in 1 .. Len(files) /\ i \in Good(n) /\ files'[n][i].event = files[n][i].event
             \/ files'[n][i].event = sink.event
    BY <1>7 DEF Writes, WritesLine, Stays, Pending, On
  <2>2. sink.event.at = sink.last /\ sink.event.id = emitted
    BY <2>1 DEF ClockInv, Base, EventInv
  <2>3. ASSUME NEW n \in 1 .. Len(files'), NEW i \in Good(n)'
        PROVE  \/ /\ n \in 1 .. Len(files) /\ i \in Good(n)
                  /\ IdAt(n, i)' = IdAt(n, i) /\ AtAt(n, i)' = AtAt(n, i)
               \/ IdAt(n, i)' = emitted /\ AtAt(n, i)' = sink.last
    BY <2>1, <2>2 DEF IdAt, AtAt
  <2>4. ASSUME NEW n \in 1 .. Len(files'), NEW i \in Good(n)', IdAt(n, i)' >= born
        PROVE  AtAt(n, i)' <= sink.last
    BY <1>1, <2>1, <2>3, <2>4 DEF ClockInv
  <2>5. ASSUME NEW m \in 1 .. Len(files'), NEW n \in 1 .. Len(files'),
               NEW i \in Good(m)', NEW j \in Good(n)',
               born <= IdAt(m, i)', IdAt(m, i)' < IdAt(n, j)'
        PROVE  AtAt(m, i)' <= AtAt(n, j)'
    <3>1. IdAt(m, i)' \in 1 .. emitted /\ IdAt(n, j)' \in 1 .. emitted
      BY <2>1 DEF Base, EventInv
    <3>2. IdAt(m, i)' >= born
      BY <1>1, <2>5, <3>1
    <3>3. CASE IdAt(m, i)' = emitted
      BY <1>1, <2>5, <3>1, <3>3
    <3>4. CASE AtAt(n, j)' = sink.last
      BY <2>4, <3>2, <3>4
    <3>5. CASE /\ m \in 1 .. Len(files) /\ i \in Good(m)
               /\ IdAt(m, i)' = IdAt(m, i) /\ AtAt(m, i)' = AtAt(m, i)
               /\ n \in 1 .. Len(files) /\ j \in Good(n)
               /\ IdAt(n, j)' = IdAt(n, j) /\ AtAt(n, j)' = AtAt(n, j)
      BY <2>5, <3>5 DEF ClockInv
    <3> QED
      BY <2>3, <3>3, <3>4, <3>5
  <2>6. born' <= emitted' + 1
    BY <2>1 DEF ClockInv
  <2> QED
    BY <2>1, <2>4, <2>5, <2>6 DEF ClockInv
<1> QED
  BY <1>1, <1>3, <1>4, <1>5, <1>6, <1>7

-----------------------------------------------------------------------------
(* A walk for the events since an instant.                                 *)

\* A line at a path is one of those that the walk is for.
Asked(k, i) ==
  /\ HeldLine(k, i)
  /\ IdAt(names[k], i) >= born /\ IdAt(names[k], i) <= reader.from
  /\ AtAt(names[k], i) >= reader.query.since

SinceInv ==
  /\ reader.pc = "walk" /\ reader.k = 0 => ~reader.finished
  /\ Started /\ reader.life = born /\ ~reader.errors /\ ~reader.capped
       /\ Len(reader.out) < reader.query.limit =>
       \A k \in Paths : \A i \in Good(names[k]) : Asked(k, i) =>
         OnPage(IdAt(names[k], i)) \/ (StillAhead(k) /\ ~reader.finished)

LEMMA SinkSince ==
    ASSUME Base, Base', LateInv, SinceInv, Write \/ Die
    PROVE  SinceInv'
<1>1. Settles \/ Writes \/ Opens \/ Emits
  BY WriteKinds DEF Base
<1>2. /\ reader'.pc = reader.pc /\ reader'.k = reader.k /\ reader'.read = reader.read
      /\ reader'.out = reader.out /\ reader'.finished = reader.finished
      /\ reader'.errors = reader.errors /\ reader'.from = reader.from
      /\ reader'.query = reader.query /\ reader'.capped = reader.capped
      /\ reader'.life = reader.life /\ reader.k \in Nat
      /\ reader.from \in Nat /\ emitted \in Nat
  BY <1>1, SinkReader DEF Base, Types, ReaderType
<1>3. Started' = Started
  BY <1>2 DEF Started
<1>4. reader'.pc = "walk" /\ reader'.k = 0 => ~reader'.finished
  BY <1>2 DEF SinceInv
<1> SUFFICES ASSUME Started, reader'.life = born', ~reader'.errors, ~reader'.capped,
                    Len(reader'.out) < reader'.query.limit,
                    NEW k \in Paths, NEW n, n = names'[k], NEW i \in Good(n)', Asked(k, i)',
                    NEW id, id = IdAt(n, i)'
             PROVE  OnPage(id)' \/ (StillAhead(k)' /\ ~reader'.finished)
  <2>1. ASSUME Started', reader'.life = born', ~reader'.errors, ~reader'.capped,
               Len(reader'.out) < reader'.query.limit,
               NEW k \in Paths, NEW i \in Good(names[k])', Asked(k, i)'
        PROVE  OnPage(IdAt(names[k], i))' \/ (StillAhead(k)' /\ ~reader'.finished)
    <3>1. PICK n : n = names'[k]
      OBVIOUS
    <3>2. PICK id : id = IdAt(n, i)'
      OBVIOUS
    <3>3. i \in Good(n)' /\ IdAt(names[k], i)' = id
      BY <2>1, <3>1, <3>2
    <3>4. OnPage(id)' \/ (StillAhead(k)' /\ ~reader'.finished)
      BY <1>3, <2>1, <3>1, <3>2, <3>3
    <3> QED
      BY <3>3, <3>4 DEF OnPage
  <2> QED
    BY <1>4, <2>1 DEF SinceInv
<1>5. /\ n \in 1 .. Len(files') /\ files'[n][i].ended
      /\ id >= born' /\ id <= reader.from /\ AtAt(n, i)' >= reader.query.since
      /\ id = files'[n][i].event.id
  <2>1. names'[k] # NoFile /\ files'[n][i].ended
    BY DEF Asked, HeldLine
  <2>2. names'[k] \in 0 .. Len(files') /\ Len(files') \in Nat
    BY FilesFacts DEF Base, Types, SetInv
  <2>3. n \in 1 .. Len(files')
    BY <2>1, <2>2 DEF NoFile
  <2>4. id >= born' /\ id <= reader.from /\ AtAt(n, i)' >= reader.query.since
    BY <1>2 DEF Asked
  <2> QED
    BY <2>1, <2>3, <2>4 DEF IdAt
<1>6. id \in 1 .. emitted'
  BY <1>5 DEF Base, EventInv
<1>7. born' = born
  <2>1. CASE Opens
    <3>1. born' = emitted + 1 /\ emitted' = emitted
      BY <2>1 DEF Opens
    <3>2. id \in 1 .. emitted /\ emitted \in Nat
      BY <1>2, <1>6, <3>1
    <3>3. id >= emitted + 1
      BY <1>5, <3>1
    <3>4. FALSE
      BY <3>2, <3>3
    <3> QED
      BY <3>4
  <2> QED
    BY <1>1, <2>1 DEF Settles, Writes, Emits
<1>8. WasHeld(k, n, i)
  BY <1>5, HeldFrom
<1>9. ASSUME NEW j \in Paths, j <= k, names[j] = n, HeldLine(j, i),
             files'[n][i].event = files[n][i].event
      PROVE  OnPage(id)' \/ (StillAhead(k)' /\ ~reader'.finished)
  <2>1. id = IdAt(n, i) /\ AtAt(n, i)' = AtAt(n, i) /\ i \in Good(n)
    BY <1>5, <1>9 DEF HeldLine, IdAt, AtAt
  <2>2. Asked(j, i)
    BY <1>5, <1>7, <1>9, <2>1 DEF Asked
  <2>3. OnPage(id) \/ (StillAhead(j) /\ ~reader.finished)
    BY <1>2, <1>7, <1>9, <2>1, <2>2 DEF SinceInv
  <2>4. StillAhead(j) => StillAhead(k)'
    BY <1>2, <1>9, PathFacts DEF StillAhead
  <2> QED
    BY <1>2, <2>3, <2>4 DEF OnPage
<1>10. CASE n \in 1 .. Len(files) /\ i \in Good(n) /\ Growing(n, i)
            /\ files'[n][i].event = files[n][i].event
  <2>1. id = IdAt(n, i)
    BY <1>5, <1>10 DEF IdAt
  <2>2. id > reader.from
    BY <1>10, <2>1 DEF LateInv
  <2> QED
    BY <1>2, <1>5, <1>6, <2>2
<1>11. CASE sink.pc = "append" /\ files'[n][i].event = sink.event
  <2>1. Pending /\ id = emitted
    BY <1>5, <1>11 DEF Pending, Base, EventInv
  <2>2. reader.from < emitted
    BY <2>1 DEF LateInv
  <2> QED
    BY <1>2, <1>5, <2>1, <2>2
<1> QED
  BY <1>8, <1>9, <1>10, <1>11 DEF WasHeld

LEMMA WalkSince ==
    ASSUME Base, Base', PageInv, ClockInv, SinceInv, Walk
    PROVE  SinceInv'
<1>1. /\ names' = names /\ files' = files /\ born' = born
      /\ reader.pc = "walk" /\ reader.k \in Paths /\ reader.k \in Nat /\ Keep \in Nat
      /\ reader.query.since \in Nat
  <2>1. reader.pc = "walk" /\ reader.query \in Queries
    BY DEF Walk, Base, Types
  <2> QED
    BY <2>1, WalkSet, PathFacts, QueryType DEF Looks, Base, Types
<1>2. /\ reader'.query = reader.query
      /\ reader'.from = IF reader.k = 0 THEN Latest ELSE reader.from
      /\ reader'.life = IF reader.k = 0 THEN born ELSE reader.life
      /\ reader'.errors = reader.errors \/ reader'.errors = TRUE
      /\ reader'.capped = reader.capped \/ reader'.capped = TRUE
      /\ reader'.pc = "walk" => reader'.k = reader.k + 1
  BY WalkMoves DEF Passes, ReadsFile, Notes, Onward, Back
<1>3. ~(reader'.pc = "walk" /\ reader'.k = 0)
  BY <1>1, <1>2
<1> SUFFICES ASSUME reader'.life = born, ~reader'.errors, ~reader'.capped,
                    Len(reader'.out) < reader'.query.limit,
                    NEW k \in Paths, NEW n, n = names[k], NEW i \in Good(n), HeldLine(k, i),
                    NEW id, id = IdAt(n, i),
                    id >= born, id <= reader'.from, AtAt(n, i) >= reader.query.since
             PROVE  OnPage(id)' \/ (StillAhead(k)' /\ ~reader'.finished)
  <2>1. ASSUME Started', reader'.life = born', ~reader'.errors, ~reader'.capped,
               Len(reader'.out) < reader'.query.limit,
               NEW k \in Paths, NEW i \in Good(names[k])', Asked(k, i)'
        PROVE  OnPage(IdAt(names[k], i))' \/ (StillAhead(k)' /\ ~reader'.finished)
    <3>1. PICK n : n = names[k]
      OBVIOUS
    <3>2. PICK id : id = IdAt(n, i)
      OBVIOUS
    <3>3. /\ i \in Good(n) /\ HeldLine(k, i) /\ IdAt(names[k], i)' = id
          /\ id >= born /\ id <= reader'.from /\ AtAt(n, i) >= reader.query.since
      BY <1>1, <1>2, <2>1, <3>1, <3>2 DEF Asked, HeldLine, Good, IdAt, AtAt
    <3>4. OnPage(id)' \/ (StillAhead(k)' /\ ~reader'.finished)
      BY <1>1, <2>1, <3>1, <3>2, <3>3
    <3> QED
      BY <3>3, <3>4 DEF OnPage
  <2> QED
    BY <1>3, <2>1 DEF SinceInv
<1>4. /\ n \in 1 .. Len(files) /\ n # NoFile /\ files[n][i].ended /\ n \in Nat /\ k \in Nat
      /\ id = files[n][i].event.id
  BY NamedIs, PathFacts DEF HeldLine, Base, IdAt
<1>5. Len(reader.out) \in Nat /\ Len(reader'.out) \in Nat /\ reader.query.limit \in Nat
  <2>1. reader.query \in Queries
    BY <1>1 DEF Base, Types
  <2>2. reader.out \in Seq(EventType) /\ reader'.out \in Seq(EventType)
    BY DEF Base, Types, ReaderType
  <2> QED
    BY <2>1, <2>2, QueryType
<1>6. \A a \in 1 .. Len(reader.out) : a \in 1 .. Len(reader'.out) /\ reader'.out[a] = reader.out[a]
  <2>1. CASE Passes
    BY <2>1 DEF Passes
  <2>2. ASSUME NEW cut \in Nat, ReadsFile(cut)
        PROVE  \A a \in 1 .. Len(reader.out) :
                 a \in 1 .. Len(reader'.out) /\ reader'.out[a] = reader.out[a]
    <3>1. PICK m \in 1 .. Len(files) : m = names[reader.k]
      BY <1>1, <2>2, NamedIs DEF ReadsFile, Base
    <3> QED
      BY <1>1, <2>2, <3>1, ReadGives DEF Adds
  <2> QED
    BY <2>1, <2>2, WalkMoves
<1>7. Len(reader.out) < reader.query.limit
  <2>1. Len(reader.out) <= Len(reader'.out)
    <3>1. CASE Len(reader.out) = 0
      BY <1>5, <3>1
    <3>2. CASE Len(reader.out) # 0
      <4>1. Len(reader.out) \in 1 .. Len(reader.out)
        BY <1>5, <3>2
      <4>2. Len(reader.out) \in 1 .. Len(reader'.out)
        BY <1>6, <4>1
      <4> QED
        BY <1>5, <4>2
    <3> QED
      BY <3>1, <3>2
  <2> QED
    BY <1>2, <1>5, <2>1
<1>8. OnPage(id) \/ (StillAhead(k) /\ ~reader.finished)
  <2>1. CASE reader.k = 0
    <3>1. reader.read = {} /\ ~reader.finished
      BY <1>1, <2>1 DEF PageInv, Fresh, SinceInv
    <3> QED
      BY <1>1, <1>4, <2>1, <3>1 DEF StillAhead
  <2>2. CASE reader.k # 0
    <3>1. Started /\ reader.life = born /\ ~reader.errors /\ ~reader.capped
      BY <1>1, <1>2, <2>2 DEF Started
    <3>2. Asked(k, i)
      BY <1>2, <2>2 DEF Asked
    <3> QED
      BY <1>7, <3>1, <3>2 DEF SinceInv
  <2> QED
    BY <2>1, <2>2
<1>9. CASE OnPage(id)
  <2>1. OnPage(id)'
    BY <1>6, <1>9 DEF OnPage
  <2> QED
    BY <2>1
<1>10. ASSUME Onward, StillAhead(k), k # reader.k, n \notin reader'.read
       PROVE  StillAhead(k)'
  <2>1. k > reader.k
    BY <1>1, <1>4, <1>10 DEF StillAhead
  <2>2. reader.k # Keep - 1
    BY <1>1, <1>4, <2>1, PathFacts
  <2>3. reader'.pc = "walk" /\ reader'.k = reader.k + 1
    BY <1>10, <2>2 DEF Onward
  <2> QED
    BY <1>1, <1>4, <1>10, <2>1, <2>3 DEF StillAhead
<1>11. CASE StillAhead(k) /\ ~reader.finished /\ Passes
  <2>1. reader'.read = reader.read /\ reader'.finished = reader.finished /\ ~(reader'.errors = TRUE)
    BY <1>11 DEF Passes
  <2>2. Onward /\ (\/ names[reader.k] = NoFile
                   \/ names[reader.k] # NoFile /\ files[names[reader.k]] = << >>
                   \/ names[reader.k] # NoFile /\ names[reader.k] \in reader.read)
    BY <1>11, <2>1 DEF Passes
  <2>3. k # reader.k
    <3>1. Len(<< >>) = 0
      OBVIOUS
    <3>2. i \in 1 .. Len(files[n])
      BY DEF Good
    <3>3. files[n] # << >>
      BY <3>1, <3>2
    <3> QED
      BY <1>4, <1>11, <2>2, <3>3 DEF StillAhead
  <2>4. StillAhead(k)'
    BY <1>10, <1>11, <2>1, <2>2, <2>3 DEF StillAhead
  <2> QED
    BY <1>11, <2>1, <2>4
<1>12. ASSUME NEW cut \in Nat, ReadsFile(cut), StillAhead(k), ~reader.finished
       PROVE  OnPage(id)' \/ (StillAhead(k)' /\ ~reader'.finished)
  <2>1. PICK m \in 1 .. Len(files) : m = names[reader.k]
    BY <1>1, <1>12, NamedIs DEF ReadsFile, Base
  <2> DEFINE stop == Walked(Here, reader.first, cut).stop
             S == TakenIn(m, cut, stop)
  <2>2. Adds(m, S) /\ StopsAt(m, cut, stop)
    BY <1>1, <1>12, <2>1, ReadGives
  <2>3. m \notin reader.read /\ reader'.read = reader.read \cup {m} /\ m # NoFile
    BY <1>12, <2>1 DEF ReadsFile
  <2>4. S = {j \in Good(m) : j > cut /\ j >= stop /\ ~Hidden(m, j) /\ AtAt(m, j) >= reader.query.since}
    BY DEF TakenIn
  <2>5. /\ cut = 0
        /\ stop = 0 => Onward /\ reader'.finished = reader.finished
    <3>1. ~(reader'.errors = TRUE) /\ ~(reader'.capped = TRUE)
      OBVIOUS
    <3> QED
      BY <1>12, <3>1 DEF ReadsFile
  <2>6. \/ stop = 0
        \/ stop \in Good(m) /\ AtAt(m, stop) < reader.query.since
    BY <1>2, <1>5, <2>2 DEF StopsAt
  <2>7. stop \in Nat
    <3>1. Len(files[m]) \in Nat
      BY FilesFacts DEF Base, Types
    <3> QED
      BY <2>2, <3>1 DEF StopsAt
  <2> HIDE DEF S, stop
  <2>8. ASSUME stop \in Good(m), id < IdAt(m, stop)
        PROVE  AtAt(m, stop) >= reader.query.since
    <3>1. AtAt(n, i) <= AtAt(m, stop)
      BY <1>1, <1>4, <2>8 DEF ClockInv
    <3>2. AtAt(n, i) \in Nat /\ AtAt(m, stop) \in Nat
      BY <1>4, <2>8, LineNumbers
    <3> QED
      BY <1>1, <3>1, <3>2
  <2>9. CASE k = reader.k
    <3>1. n = m /\ i \in Nat /\ i > 0
      BY <2>1, <2>9, <1>4, LineNumbers DEF Good
    <3>2. CASE i >= stop
      <4>1. i \in S
        BY <1>4, <2>4, <2>5, <3>1, <3>2 DEF Hidden
      <4>2. OnPage(id)'
        BY <1>4, <2>2, <3>1, <4>1 DEF Adds, OnPage
      <4> QED
        BY <4>2
    <3>3. CASE i < stop
      <4>1. stop \in Good(m) /\ AtAt(m, stop) < reader.query.since
        BY <2>6, <3>1, <3>3
      <4>2. id < IdAt(m, stop)
        BY <3>1, <3>3, <4>1 DEF Base, EventInv
      <4>3. AtAt(m, stop) \in Nat
        BY <4>1, LineNumbers
      <4> QED
        BY <1>1, <2>8, <4>1, <4>2, <4>3
    <3> QED
      BY <2>7, <3>1, <3>2, <3>3
  <2>10. CASE k # reader.k
    <3>1. n < m
      <4>1. reader.k < k
        BY <1>1, <1>4, <1>12, <2>10 DEF StillAhead
      <4> QED
        BY <1>1, <1>4, <2>1, <2>3, <4>1 DEF Base, SetInv, Descends
    <3>2. stop = 0
      <4>1. SUFFICES ASSUME stop \in Good(m), AtAt(m, stop) < reader.query.since
                     PROVE  FALSE
        BY <2>6
      <4>2. id < IdAt(m, stop)
        BY <1>4, <3>1, <4>1 DEF Base, EventInv
      <4>3. AtAt(m, stop) \in Nat
        BY <4>1, LineNumbers
      <4> QED
        BY <1>1, <2>8, <4>1, <4>2, <4>3
    <3>3. n \notin reader'.read
      BY <1>4, <1>12, <2>3, <3>1 DEF StillAhead
    <3>4. StillAhead(k)'
      BY <1>10, <1>12, <2>5, <2>10, <3>2, <3>3
    <3> QED
      BY <1>12, <2>5, <3>2, <3>4
  <2> QED
    BY <2>9, <2>10
<1> QED
  BY <1>8, <1>9, <1>11, <1>12, WalkMoves

LEMMA SinceStep ==
    ASSUME Base, Base', PageInv, LateInv, ClockInv, SinceInv, [Next]_vars
    PROVE  SinceInv'
<1>1. CASE Write \/ Die
  BY <1>1, SinkSince
<1>2. CASE Walk
  BY <1>2, WalkSince
<1>3. CASE Answer
  <2>1. reader'.pc = "idle"
    BY <1>3, IdleIs DEF Answer
  <2> QED
    BY <2>1 DEF SinceInv, Started
<1>4. CASE Ask
  <2>1. PICK query \in Queries :
          reader' = [Idle EXCEPT !.pc = "walk", !.query = query, !.rolls = IF Rolling THEN 1 ELSE 0]
    BY <1>4 DEF Ask
  <2>2. reader'.pc = "walk" /\ reader'.k = 0 /\ reader'.finished = FALSE
    BY <2>1 DEF Idle
  <2> QED
    BY <2>2 DEF SinceInv, Started
<1>5. CASE UNCHANGED vars
  <2>1. names' = names /\ files' = files /\ reader' = reader /\ born' = born
    BY <1>5 DEF vars, log, history
  <2>2. ASSUME Started, reader.life = born, ~reader.errors, ~reader.capped,
               Len(reader.out) < reader.query.limit,
               NEW k \in Paths, NEW i \in Good(names[k])', Asked(k, i)'
        PROVE  OnPage(IdAt(names[k], i))' \/ (StillAhead(k)' /\ ~reader'.finished)
    <3>1. i \in Good(names[k]) /\ Asked(k, i)
      BY <2>1, <2>2 DEF Good, Asked, HeldLine, IdAt, AtAt
    <3>2. OnPage(IdAt(names[k], i)) \/ (StillAhead(k) /\ ~reader.finished)
      BY <2>2, <3>1 DEF SinceInv
    <3> QED
      BY <2>1, <3>2 DEF OnPage, StillAhead, IdAt
  <2>3. reader'.pc = "walk" /\ reader'.k = 0 => ~reader'.finished
    BY <2>1 DEF SinceInv
  <2>4. Started' = Started
    BY <2>1 DEF Started
  <2> QED
    BY <2>1, <2>2, <2>3, <2>4 DEF SinceInv
<1> QED
  BY <1>1, <1>2, <1>3, <1>4, <1>5 DEF Next

\* A line that does not decode has nothing of an event.
JunkInv == \A n \in 1 .. Len(files) : \A i \in 1 .. Len(files[n]) :
             ~files[n][i].good => files[n][i].event = Junk

LEMMA JunkKept ==
    ASSUME Types, Types', JunkInv, NEW m, Elsewhere(files, files', m),
           m \in 1 .. Len(files) =>
             \A i \in 1 .. Len(files'[m]) : ~files'[m][i].good => files'[m][i].event = Junk
    PROVE  JunkInv'
<1>1. Len(files') = Len(files) /\ \A n \in 1 .. Len(files) : n # m => files'[n] = files[n]
  BY DEF Elsewhere
<1>2. ASSUME NEW n \in 1 .. Len(files'), NEW i \in 1 .. Len(files'[n]), ~files'[n][i].good
      PROVE  files'[n][i].event = Junk
  <2>1. CASE n = m
    BY <1>1, <1>2, <2>1
  <2>2. CASE n # m
    BY <1>1, <1>2, <2>2 DEF JunkInv
  <2> QED
    BY <2>1, <2>2
<1> QED
  BY <1>2 DEF JunkInv

LEMMA JunkSame ==
    ASSUME JunkInv, files' = files
    PROVE  JunkInv'
  BY DEF JunkInv

LEMMA JunkOpened ==
    ASSUME Types, SetInv, JunkInv, files' = Opened(0)
    PROVE  JunkInv'
<1>1. /\ Len(Opened(0)) \in Nat /\ Len(files) \in Nat
      /\ \A m \in 1 .. Len(files) : Opened(0)[m] = files[m]
      /\ names[0] # NoFile => Opened(0) = files
      /\ names[0] = NoFile =>
           Len(Opened(0)) = Len(files) + 1 /\ Opened(0)[Len(files) + 1] = << >>
  BY OpenedIs, FilesFacts DEF Types, SetInv
<1>2. CASE names[0] # NoFile
  BY <1>1, <1>2, JunkSame
<1>3. CASE names[0] = NoFile
  <2>1. Len(<< >>) = 0
    OBVIOUS
  <2>2. ASSUME NEW n \in 1 .. Len(files'), NEW i \in 1 .. Len(files'[n]), ~files'[n][i].good
        PROVE  files'[n][i].event = Junk
    <3>1. n # Len(files) + 1
      <4>1. n = Len(files) + 1 => Len(files'[n]) = 0
        BY <1>1, <1>3, <2>1
      <4> QED
        BY <2>2, <4>1
    <3>2. n \in 1 .. Len(files)
      BY <1>1, <1>3, <3>1
    <3> QED
      BY <1>1, <2>2, <3>2 DEF JunkInv
  <2> QED
    BY <2>2 DEF JunkInv
<1> QED
  BY <1>2, <1>3

LEMMA JunkEnded ==
    ASSUME Types, Types', JunkInv, Len(files) > 0, files' = Ended(Len(files))
    PROVE  JunkInv'
<1>1. Len(files) \in 1 .. Len(files)
  BY FilesFacts DEF Types
<1>2. Closes(files, files', Len(files))
  BY <1>1, EndedIs DEF Types
<1>3. \A i \in 1 .. Len(files'[Len(files)]) :
        ~files'[Len(files)][i].good => files'[Len(files)][i].event = Junk
  BY <1>1, <1>2 DEF Closes, JunkInv
<1> QED
  BY <1>2, <1>3, JunkKept DEF Closes

LEMMA JunkWritten ==
    ASSUME Types, SetInv, Types', JunkInv, On, Written(files')
    PROVE  JunkInv'
<1>1. PICK whole, ended \in BOOLEAN :
        Extends(files, files', Len(files), Line(IF whole THEN sink.event ELSE Junk, whole, ended))
  BY WrittenIs DEF On
<1> DEFINE n == Len(files)
           line == Line(IF whole THEN sink.event ELSE Junk, whole, ended)
<1>2. /\ ~line.good => line.event = Junk
      /\ Line(Junk, FALSE, line.ended).event = Junk
  BY DEF Line
<1>3. n \in 1 .. Len(files) /\ Len(files[n]) \in Nat
  <2>1. n \in 1 .. Len(files)
    BY FilesFacts DEF SetInv, On, Types
  <2> QED
    BY <2>1, FilesFacts DEF Types
<1>4. Elsewhere(files, files', n)
  BY <1>1 DEF Extends
<1> HIDE DEF line
<1>5. ASSUME NEW i \in 1 .. Len(files'[n]), ~files'[n][i].good
      PROVE  files'[n][i].event = Junk
  <2>1. CASE Torn(files, n)
    <3>1. /\ Len(files'[n]) = Len(files[n])
          /\ \A j \in 1 .. Len(files[n]) - 1 : files'[n][j] = files[n][j]
          /\ files'[n][Len(files[n])] = Line(Junk, FALSE, line.ended)
      BY <1>1, <2>1 DEF Extends, Torn, line
    <3>2. CASE i = Len(files[n])
      BY <1>2, <3>1, <3>2
    <3>3. CASE i # Len(files[n])
      <4>1. i \in 1 .. Len(files[n]) - 1 /\ i \in 1 .. Len(files[n])
        BY <1>3, <3>1, <3>3
      <4> QED
        BY <1>3, <1>5, <3>1, <4>1 DEF JunkInv
    <3> QED
      BY <3>2, <3>3
  <2>2. CASE ~Torn(files, n)
    <3>1. /\ Len(files'[n]) = Len(files[n]) + 1
          /\ \A j \in 1 .. Len(files[n]) : files'[n][j] = files[n][j]
          /\ files'[n][Len(files[n]) + 1] = line
      BY <1>1, <2>2 DEF Extends, Torn, line
    <3>2. CASE i = Len(files[n]) + 1
      BY <1>2, <1>5, <3>1, <3>2
    <3>3. CASE i # Len(files[n]) + 1
      <4>1. i \in 1 .. Len(files[n])
        BY <1>3, <3>1, <3>3
      <4> QED
        BY <1>3, <1>5, <3>1, <4>1 DEF JunkInv
    <3> QED
      BY <3>2, <3>3
  <2> QED
    BY <2>1, <2>2
<1> QED
  BY <1>4, <1>5, JunkKept

LEMMA JunkStep ==
    ASSUME Base, Base', JunkInv, [Next]_vars
    PROVE  JunkInv'
<1>1. Types /\ SetInv /\ Types' /\ files \in FilesType /\ names \in [Paths -> Nat] /\ Len(files) \in Nat
  BY FilesFacts DEF Base, Types
<1>2. CASE OpenSink
  <2>1. CASE names[0] = NoFile
    <3>1. files' = Opened(0)
      <4>1. Opened(0)[AtPath(0)] = << >>
        BY <1>1, <2>1, OpenedIs DEF SetInv, AtPath
      <4> QED
        BY <1>2, <4>1 DEF OpenSink
    <3> QED
      BY <1>1, <3>1, JunkOpened
  <2>2. CASE names[0] # NoFile
    <3>1. Opened(0) = files /\ AtPath(0) = Len(files) /\ Len(files) > 0
      BY <1>1, <2>2, NamedIs, PathFacts DEF SetInv, Opened, AtPath
    <3>2. files' = files \/ files' = Ended(Len(files))
      BY <1>2, <3>1 DEF OpenSink
    <3> QED
      BY <1>1, <3>1, <3>2, JunkSame, JunkEnded
  <2> QED
    BY <2>1, <2>2
<1>3. CASE Emit \/ Ask \/ Walk \/ Answer \/ UNCHANGED vars
  <2>1. files' = files
    BY <1>3 DEF Emit, Ask, Walk, Answer, vars, log
  <2> QED
    BY <2>1, JunkSame
<1>4. CASE RemoveOldest
  <2>1. CASE files' = Freed(Keep - 1)
    <3>1. /\ Elsewhere(files, files', names[Keep - 1])
          /\ names[Keep - 1] # NoFile => files'[names[Keep - 1]] = << >>
      BY <1>1, <2>1, FreedIs, PathFacts DEF SetInv
    <3>2. names[Keep - 1] \in 1 .. Len(files) => 1 .. Len(files'[names[Keep - 1]]) = {}
      <4>1. Len(<< >>) = 0
        OBVIOUS
      <4> QED
        BY <1>1, <3>1, <4>1 DEF NoFile
    <3> QED
      BY <1>1, <3>1, <3>2, JunkKept
  <2>2. CASE UNCHANGED log
    BY <2>2, JunkSame DEF log
  <2> QED
    BY <1>4, <2>1, <2>2 DEF RemoveOldest, RollStep
<1>5. CASE Shift \/ MoveCurrent
  <2>1. files' = files
    BY <1>1, <1>5, ShiftSet, MoveSet DEF log, MovesUp
  <2> QED
    BY <2>1, JunkSame
<1>6. CASE Reopen
  <2>1. files' = files \/ files' = Opened(0)
    BY <1>6 DEF Reopen, RollStep, log
  <2> QED
    BY <1>1, <2>1, JunkSame, JunkOpened
<1>7. CASE AppendEvent \/ Die
  <2>1. files' = files \/ (On /\ Written(files'))
    BY <1>1, <1>7, AppendSet, DieSet DEF AppendEvent, Die, On
  <2> QED
    BY <1>1, <2>1, JunkSame, JunkWritten
<1>8. CASE EndFragment
  <2>1. sink.ino = Len(files) /\ Len(files) > 0
    BY <1>1, <1>8 DEF EndFragment, SetInv
  <2>2. files' = files \/ files' = Ended(Len(files))
    BY <1>8, <2>1 DEF EndFragment
  <2> QED
    BY <1>1, <2>1, <2>2, JunkSame, JunkEnded
<1> QED
  BY <1>2, <1>3, <1>4, <1>5, <1>6, <1>7, <1>8 DEF Next, Write

LEMMA AtIs ==
    ASSUME Base, JunkInv, NEW n \in 1 .. Len(files), NEW i \in Good(n)
    PROVE  At(IdAt(n, i)).at = AtAt(n, i)
<1> DEFINE id == IdAt(n, i)
           E == UNION {{files[m][j].event : j \in DOMAIN files[m]} : m \in DOMAIN files}
<1>1. files \in FilesType /\ DOMAIN files = 1 .. Len(files)
      /\ \A m \in 1 .. Len(files) : DOMAIN files[m] = 1 .. Len(files[m])
  BY FilesFacts DEF Base, Types
<1>2. id \in Nat /\ id # 0
  <2>1. id \in 1 .. emitted
    BY LineNumbers
  <2> QED
    BY <2>1
<1>3. \A e : e \in E <=> \E m \in 1 .. Len(files) : \E j \in 1 .. Len(files[m]) : e = files[m][j].event
  BY <1>1
<1>4. At(id) = CHOOSE e \in E : e.id = id
  BY DEF At
<1> HIDE DEF E
<1>5. \E e \in E : e.id = id
  BY <1>3 DEF Good, IdAt
<1>6. At(id) \in E /\ At(id).id = id
  BY <1>4, <1>5
<1>7. PICK m \in 1 .. Len(files) : \E j \in 1 .. Len(files[m]) : At(id) = files[m][j].event
  BY <1>3, <1>6
<1>8. PICK j \in 1 .. Len(files[m]) : At(id) = files[m][j].event
  BY <1>7
<1>9. j \in Good(m) /\ IdAt(m, j) = id
  <2>1. files[m][j].event.id # Junk.id
    BY <1>2, <1>6, <1>8 DEF Junk
  <2>2. files[m][j].good
    BY <2>1 DEF JunkInv
  <2> QED
    BY <1>6, <1>8, <2>2 DEF Good, IdAt
<1>10. m = n /\ j = i
  <2>1. j \in Nat /\ i \in Nat /\ m \in Nat /\ n \in Nat
    BY <1>9, LineNumbers
  <2>2. ~(IdAt(m, j) < IdAt(n, i)) /\ ~(IdAt(n, i) < IdAt(m, j))
    BY <1>2, <1>9
  <2>3. ~(m < n) /\ ~(n < m) /\ (m = n => ~(j < i) /\ ~(i < j))
    BY <1>9, <2>2 DEF Base, EventInv
  <2> QED
    BY <2>1, <2>3
<1> QED
  BY <1>8, <1>10 DEF AtAt

LEMMA SinceIs ==
    ASSUME Base, JunkInv, SinceInv
    PROVE  SinceIsComplete
<1> SUFFICES ASSUME reader.pc = "done", reader.life = born, ~reader.errors, ~reader.capped,
                    Len(reader.out) < reader.query.limit,
                    NEW id \in Held, id \in born..reader.from, At(id).at >= reader.query.since
             PROVE  id \in Page
  BY DEF SinceIsComplete
<1>1. PICK k \in Paths : \E i \in Good(names[k]) : HeldLine(k, i) /\ id = IdAt(names[k], i)
  BY HeldIs DEF Base
<1>2. PICK i \in Good(names[k]) : HeldLine(k, i) /\ id = IdAt(names[k], i)
  BY <1>1
<1>3. PICK n \in 1 .. Len(files) : n = names[k]
  BY <1>2, NamedIs DEF HeldLine, Base
<1>4. AtAt(n, i) = At(id).at
  BY <1>2, <1>3, AtIs
<1>5. born \in Nat /\ reader.from \in Nat
  BY DEF Base, Types, ReaderType
<1>6. Asked(k, i)
  BY <1>2, <1>3, <1>4, <1>5 DEF Asked
<1>7. OnPage(id)
  BY <1>2, <1>6 DEF SinceInv, Started, StillAhead
<1> QED
  BY <1>7, PageIs DEF OnPage, Base

LEMMA SinceBegins ==
    ASSUME Init
    PROVE  ClockInv /\ JunkInv /\ SinceInv
<1>1. files = << >> /\ sink = Off /\ reader.pc = "idle" /\ born = 1 /\ emitted = 0
  BY IdleIs DEF Init
<1>2. 1 .. Len(files) = {}
  <2>1. Len(<< >>) = 0
    OBVIOUS
  <2> QED
    BY <1>1, <2>1
<1>3. ~On /\ ~Pending
  BY <1>1 DEF Off, On, Pending, Rolling
<1> QED
  BY <1>1, <1>2, <1>3 DEF ClockInv, JunkInv, SinceInv, Started

\* A walk for the events since an instant, neither cut short nor filled,
\* gives all of them that the process that is up emitted before it.
THEOREM SinceGivesAll == Spec => []SinceIsComplete
<1> DEFINE Inv == PageInv /\ OrderInv /\ LateInv /\ ClockInv /\ JunkInv /\ SinceInv
<1>1. Init => Inv
  BY WalkBegins, SinceBegins
<1>2. Base /\ Base' /\ Inv /\ [Next]_vars => Inv'
  BY PageStep, OrderStep, LateStep, ClockStep, JunkStep, SinceStep
<1>3. Base /\ Inv => SinceIsComplete
  BY SinceIs
<1> HIDE DEF Inv
<1> QED
  BY LogIsOrdered, <1>1, <1>2, <1>3, PTL DEF Spec
=============================================================================
