--------------------------- MODULE MonthFile_proofs ---------------------------
(***************************************************************************)
(* The types of MonthFile, for every set of processes, every feed, every   *)
(* bound and every fault, with lemmas on the operators it is built from.   *)
(* In a month directory that exists, whatever rots there: handles stay     *)
(* current, no crash makes the month refused, and no append seals what has *)
(* rotted.  On an honest disk, where nothing rots and header slots may     *)
(* tear: no crash takes an acknowledged record, the month file is the log  *)
(* of MonthLog, and what is committed verifies if the feed is steady.      *)
(***************************************************************************)
EXTENDS MonthFile, TLAPS, WellFoundedInduction, FiniteSetTheorems, SequenceTheorems

(* A non-empty set of numbers from 1 to k has a highest one.               *)
LEMMA HighestMember ==
    ASSUME NEW k \in Nat, NEW S \in SUBSET (1 .. k), S # {}
    PROVE  \E i \in S : \A j \in S : j <= i
<1>1. IsWellFoundedOn(OpToRel(<, Nat), Nat)
  BY NatLessThanWellFounded
<1> DEFINE T == {k - i : i \in S}
<1>2. T \subseteq Nat /\ T # {}
  <2>1. \A i \in S : k - i \in Nat
    OBVIOUS
  <2> QED
    BY <2>1
<1> HIDE DEF T
<1>3. PICK x \in T : \A y \in T : << y, x >> \notin OpToRel(<, Nat)
  BY <1>1, <1>2, WFMin
<1>4. PICK i \in S : x = k - i
  BY DEF T
<1>5. ASSUME NEW j \in S
      PROVE  j <= i
  <2>1. k - j \in T
    BY DEF T
  <2>2. ~(k - j < x)
    BY <1>2, <1>3, <2>1 DEF OpToRel
  <2> QED
    BY <1>4, <2>2
<1> QED
  BY <1>5

(* What the length of a file holds: every position with something in it.    *)
LEMMA HeldCovers ==
    ASSUME NEW f \in File
    PROVE  /\ Held(f) \in 0 .. MaxRecs
           /\ \A i \in Pos : f[i] # Nothing => i <= Held(f)
<1> DEFINE S == {i \in Pos : f[i] # Nothing}
<1>1. CASE S = {}
  BY <1>1, MaxRecsAssumption DEF Held
<1>2. CASE S # {}
  <2>1. PICK i \in S : \A j \in S : j <= i
    BY <1>2, HighestMember, MaxRecsAssumption DEF Pos
  <2>2. f[i] # Nothing /\ \A j \in Pos : j > i => f[j] = Nothing
    BY <2>1 DEF Pos
  <2>3. /\ Held(f) \in Pos /\ f[Held(f)] # Nothing
        /\ \A j \in Pos : j > Held(f) => f[j] = Nothing
    BY <2>2 DEF Held
  <2> QED
    BY <2>3, MaxRecsAssumption DEF Pos
<1> QED
  BY <1>1, <1>2

Slots == [Slot -> Header \cup {Blank, Torn}]

(* The header chosen is one the file supports, and the newest of them.      *)
LEMMA ChosenIsNewest ==
    ASSUME NEW sl \in Slots, NEW f \in File, Supported(sl, f) # {}
    PROVE  /\ Chosen(sl, f) \in Supported(sl, f)
           /\ Chosen(sl, f) \in Header
           /\ \A hd \in Supported(sl, f) : hd.gen <= Chosen(sl, f).gen
<1>1. Supported(sl, f) \subseteq {sl[0], sl[1]} /\ Supported(sl, f) \subseteq Header
  BY DEF Supported, Decodable, Slots, Slot
<1>2. \E hd \in Supported(sl, f) : \A other \in Supported(sl, f) : other.gen <= hd.gen
  <2>1. PICK hd \in Supported(sl, f) : TRUE
    OBVIOUS
  <2>2. \A a, b \in Header : a.gen <= b.gen \/ b.gen <= a.gen
    BY DEF Header
  <2>3. \A a \in Header : a.gen <= a.gen
    BY DEF Header
  <2> QED
    BY <1>1, <2>1, <2>2, <2>3
<1> QED
  BY <1>1, <1>2 DEF Chosen, Newest

-----------------------------------------------------------------------------
(* No more bars of a batch overlap the month than the batch has.           *)
LEMMA OverlapType ==
    ASSUME NEW last, NEW batch \in Seq(Record)
    PROVE  OverlapLen(last, batch) \in Nat /\ OverlapLen(last, batch) <= Len(batch)
<1> DEFINE all == 1 .. Len(batch)
           S == {i \in 1 .. Len(batch) : batch[i].ts <= last}
<1>1. Len(batch) \in Nat
  OBVIOUS
<1>2. IsFiniteSet(all) /\ Cardinality(all) = Len(batch)
  <2>1. /\ IsFiniteSet(1 .. Len(batch))
        /\ Cardinality(1 .. Len(batch)) = IF 1 > Len(batch) THEN 0 ELSE Len(batch) - 1 + 1
    BY <1>1, FS_Interval
  <2> QED
    BY <1>1, <2>1
<1>3. S \subseteq all
  OBVIOUS
<1> HIDE DEF S, all
<1>4. IsFiniteSet(S) /\ Cardinality(S) <= Cardinality(all)
  BY <1>2, <1>3, FS_Subset
<1>5. Cardinality(S) \in Nat
  BY <1>4, FS_CardinalityType
<1> QED
  BY <1>2, <1>4, <1>5 DEF OverlapLen, S

(* The rows `append` takes from a batch are some of the batch's, and at     *)
(* least one.                                                              *)
LEMMA PlanTakesRows ==
    ASSUME NEW f, NEW n, NEW last, NEW bad, NEW batch \in Seq(Record),
           Plan(f, n, last, bad, batch).kind = "follows"
    PROVE  /\ Plan(f, n, last, bad, batch).rows \in Seq(Record)
           /\ Plan(f, n, last, bad, batch).rows # << >>
<1> DEFINE late == OverlapLen(last, batch)
           overlap == SubSeq(batch, 1, late)
           suffix == SubSeq(batch, Len(overlap) + 1, Len(batch))
<1>1. late \in Nat /\ late <= Len(batch)
  BY OverlapType
<1>2. Len(overlap) \in Nat /\ suffix \in Seq(Record)
  BY <1>1
<1>3. \/ Plan(f, n, last, bad, batch) = [kind |-> "follows", rows |-> batch] /\ batch # << >>
      \/ Plan(f, n, last, bad, batch) = [kind |-> "follows", rows |-> suffix] /\ suffix # << >>
  BY DEF Plan, Refused, Survey
<1> HIDE DEF suffix
<1> QED
  BY <1>2, <1>3

(* What an append has taken fits the month.                                *)
BatchFits ==
    \A p \in Procs : h[p].pc \in Appending =>
        h[p].batch # << >> /\ NewCount(p) <= MaxRecs

TypeInv == TypeOK /\ BatchFits

-----------------------------------------------------------------------------
(* Types.                                                                  *)

FilesType ==
    /\ recs \in File /\ recsD \in File
    /\ slots \in Slots /\ slotsD \in Slots
    /\ DOMAIN sums = Block /\ DOMAIN sumsD = Block
    /\ names \subseteq Names /\ namesD \subseteq Names
    /\ acked \in Seq(Cell)
    /\ crashes \in 0 .. MaxCrashes

Fits(x) == x.pc \in Appending => x.batch # << >> /\ x.n + Len(x.batch) <= MaxRecs

(* A step of one process leaves the handles well-typed when it leaves that *)
(* process's handle well-typed.                                            *)
LEMMA OneHandle ==
    ASSUME TypeInv, NEW p \in Procs, NEW x \in HandleType, Fits(x), h' = [h EXCEPT ![p] = x]
    PROVE  h' \in [Procs -> HandleType] /\ BatchFits'
<1>1. h \in [Procs -> HandleType] /\ h' \in [Procs -> HandleType]
  BY DEF TypeInv, TypeOK
<1>2. \A q \in Procs : h'[q] = IF q = p THEN x ELSE h[q]
  BY <1>1
<1> QED
  BY <1>1, <1>2 DEF TypeInv, BatchFits, Fits, NewCount

(* A closed handle is well-typed.                                          *)
LEMMA ClosedType == Closed \in HandleType /\ Fits(Closed)
  BY MaxRecsAssumption DEF Closed, HandleType, NoBlock, Fits, Exclusive, Opening, Appending

(* A step of one handle keeps the handles well-typed.                      *)
LEMMA StepType ==
    ASSUME TypeInv, NEW p \in Procs, NEW from, NEW to, Step(p, from, to),
           to \in Exclusive, to \in Appending => from \in Appending
    PROVE  h' \in [Procs -> HandleType] /\ BatchFits'
<1> DEFINE x == [h[p] EXCEPT !.pc = to]
<1>1. h' = [h EXCEPT ![p] = x]
  BY DEF Step
<1>2. h[p] \in HandleType
  BY DEF TypeInv, TypeOK
<1>3. x \in HandleType
  BY <1>2 DEF HandleType
<1>4. Fits(x)
  BY <1>2 DEF TypeInv, BatchFits, NewCount, Fits, Step, HandleType
<1> HIDE DEF x
<1> QED
  BY <1>1, <1>3, <1>4, OneHandle

(* Opening at a header keeps the handles well-typed.                       *)
LEMMA OpenAtType ==
    ASSUME TypeInv, NEW p \in Procs, NEW pc \in {"open", "named", "reading", "peeking"},
           NEW hd \in Header, OpenAt(p, pc, hd)
    PROVE  h' \in [Procs -> HandleType] /\ BatchFits'
<1> DEFINE x == [Closed EXCEPT !.pc = pc, !.n = hd.n, !.gen = hd.gen, !.last = hd.last]
<1>1. h' = [h EXCEPT ![p] = x]
  BY DEF OpenAt
<1>2. hd.n \in 0 .. MaxRecs /\ hd.gen \in Nat /\ hd.last \in Nat
  BY DEF Header
<1>3. x \in HandleType /\ x.pc = pc
  BY <1>2, ClosedType DEF HandleType, Exclusive, Opening
<1>4. Fits(x)
  BY <1>3 DEF Fits, Appending
<1> HIDE DEF x
<1> QED
  BY <1>1, <1>3, <1>4, OneHandle

(* A record position lies in a block.                                      *)
LEMMA BlockOfType ==
    ASSUME NEW i \in Nat \ {0}
    PROVE  BlockOf(i) \in Nat
<1>1. i - 1 \in Nat
  OBVIOUS
<1>2. \A a \in Nat : a \div BlockRecs \in Nat
  BY BlockRecsAssumption
<1> QED
  BY <1>1, <1>2 DEF BlockOf

(* The header an append writes is one, and its count fits the month.       *)
LEMMA AdvancedType ==
    ASSUME TypeInv, NEW p \in Procs, h[p].pc \in Appending
    PROVE  Advanced(p) \in Header /\ NewCount(p) \in 0 .. MaxRecs
<1>1. h[p] \in HandleType /\ h[p].batch # << >> /\ NewCount(p) <= MaxRecs
  BY DEF TypeInv, TypeOK, BatchFits
<1>2. /\ h[p].gen \in Nat /\ h[p].n \in 0 .. MaxRecs /\ h[p].batch \in Seq(Record)
      /\ h[p].batch[Len(h[p].batch)] \in Record
  BY <1>1 DEF HandleType
<1>3. h[p].batch[Len(h[p].batch)].ts \in Nat
  BY <1>2, TimesAssumption DEF Record
<1>4. NewCount(p) \in 0 .. MaxRecs
  BY <1>1, <1>2, MaxRecsAssumption DEF NewCount
<1> QED
  BY <1>2, <1>3, <1>4 DEF Advanced, Header

(* The initial state is well-typed.                                        *)
LEMMA TypeInit == Init => TypeInv
<1> SUFFICES ASSUME Init PROVE TypeInv
  OBVIOUS
<1>1. h \in [Procs -> HandleType] /\ BatchFits
  BY ClosedType DEF Init, BatchFits, Fits, NewCount
<1>2. FilesType
  BY MaxCrashesAssumption DEF Init, FilesType, File, EmptyFile, Cell, Slots, BlankSlots,
     BlankSums, Names, ExistingTree
<1> QED
  BY <1>1, <1>2 DEF TypeInv, TypeOK, FilesType, Slots

(* Every step keeps the state well-typed, whatever the faults.             *)
LEMMA TypeNext == TypeInv /\ [Next]_vars => TypeInv'
<1> SUFFICES ASSUME TypeInv, [Next]_vars
             PROVE  FilesType' /\ h' \in [Procs -> HandleType] /\ BatchFits'
  BY DEF TypeInv, TypeOK, FilesType, Slots
<1> USE DEF disk, cache
<1>0. FilesType
  BY DEF TypeInv, TypeOK, FilesType, Slots
<1>1. ASSUME NEW p \in Procs, TakeLock(p)
      PROVE  FilesType' /\ h' \in [Procs -> HandleType] /\ BatchFits'
  <2>1. h' \in [Procs -> HandleType] /\ BatchFits'
    BY <1>0, <1>1, StepType DEF TakeLock, Exclusive, Opening, Appending
  <2>2. FilesType'
    BY <1>0, <1>1 DEF TakeLock, Names, FilesType
  <2> QED
    BY <2>1, <2>2
<1>2. ASSUME NEW p \in Procs, OpenBars(p)
      PROVE  FilesType' /\ h' \in [Procs -> HandleType] /\ BatchFits'
  <2>1. h' \in [Procs -> HandleType] /\ BatchFits'
    BY <1>0, <1>2, StepType DEF OpenBars, Exclusive, Opening, Appending
  <2>2. FilesType'
    BY <1>0, <1>2 DEF OpenBars, Names, FilesType
  <2> QED
    BY <2>1, <2>2
<1>3. ASSUME NEW p \in Procs, Initialise(p)
      PROVE  FilesType' /\ h' \in [Procs -> HandleType] /\ BatchFits'
  <2>1. h' \in [Procs -> HandleType] /\ BatchFits'
    BY <1>0, <1>3, StepType DEF Initialise, Exclusive, Opening, Appending
  <2>2. Genesis \in Header
    BY MaxRecsAssumption DEF Genesis, Header
  <2>3. FilesType'
    BY <1>0, <1>3, <2>2 DEF Initialise, Slots, FilesType
  <2> QED
    BY <2>1, <2>3
<1>4. ASSUME NEW p \in Procs, SyncInitialise(p)
      PROVE  FilesType' /\ h' \in [Procs -> HandleType] /\ BatchFits'
  <2>1. h' \in [Procs -> HandleType] /\ BatchFits'
    BY <1>0, <1>4, StepType DEF SyncInitialise, Exclusive, Opening, Appending
  <2>2. FilesType'
    BY <1>0, <1>4 DEF SyncInitialise, FilesType
  <2> QED
    BY <2>1, <2>2
<1>5. ASSUME NEW p \in Procs, SyncDir(p)
      PROVE  FilesType' /\ h' \in [Procs -> HandleType] /\ BatchFits'
  <2>1. h' \in [Procs -> HandleType] /\ BatchFits'
    BY <1>0, <1>5, StepType DEF SyncDir, Exclusive, Opening, Appending
  <2>2. FilesType'
    BY <1>0, <1>5 DEF SyncDir, SyncNames, FilesType
  <2> QED
    BY <2>1, <2>2
<1>6. ASSUME NEW p \in Procs, Validate(p)
      PROVE  FilesType' /\ h' \in [Procs -> HandleType] /\ BatchFits'
  <2>1. h' \in [Procs -> HandleType] /\ BatchFits'
    <3>1. CASE Close(p)
      BY <3>1, OneHandle, ClosedType DEF Close
    <3>2. CASE Opens(slots, recs) /\ \E pc \in {"named", "open"} : OpenAt(p, pc, Chosen(slots, recs))
      BY <1>0, <3>2, OpenAtType, ChosenIsNewest DEF Opens, FilesType
    <3> QED
      BY <3>1, <3>2, <1>6 DEF Validate
  <2>2. FilesType'
    BY <1>0, <1>6 DEF Validate, Names, FilesType
  <2> QED
    BY <2>1, <2>2
<1>7. ASSUME NEW p \in Procs, SyncSidecarName(p)
      PROVE  FilesType' /\ h' \in [Procs -> HandleType] /\ BatchFits'
  <2>1. h' \in [Procs -> HandleType] /\ BatchFits'
    BY <1>0, <1>7, StepType DEF SyncSidecarName, Exclusive, Opening, Appending
  <2>2. FilesType'
    BY <1>0, <1>7 DEF SyncSidecarName, SyncNames, FilesType
  <2> QED
    BY <2>1, <2>2
<1>8. ASSUME NEW p \in Procs, OpenExisting(p)
      PROVE  FilesType' /\ h' \in [Procs -> HandleType] /\ BatchFits'
  <2>1. h' \in [Procs -> HandleType] /\ BatchFits'
    BY <1>0, <1>8, OpenAtType, ChosenIsNewest DEF OpenExisting, Opens, FilesType
  <2>2. FilesType'
    BY <1>0, <1>8 DEF OpenExisting, FilesType
  <2> QED
    BY <2>1, <2>2
<1>9. ASSUME NEW p \in Procs, NEW i \in Pos, ReadRow(p, i)
      PROVE  FilesType' /\ h' \in [Procs -> HandleType] /\ BatchFits'
  <2>1. h' \in [Procs -> HandleType] /\ BatchFits'
    <3> DEFINE x == [h[p] EXCEPT !.seen = BlockOf(i)]
    <3>1. h' = [h EXCEPT ![p] = x]
      BY <1>9 DEF ReadRow
    <3>2. h[p] \in HandleType /\ Fits(h[p])
      BY DEF TypeInv, TypeOK, BatchFits, Fits, NewCount
    <3>3. x \in HandleType
      BY <3>2, <1>9, BlockOfType, MaxRecsAssumption, SMTT(60) DEF Pos, HandleType
    <3>4. Fits(x)
      BY <3>2, <1>9 DEF ReadRow, Fits, HandleType, Appending
    <3> HIDE DEF x
    <3> QED
      BY <3>1, <3>3, <3>4, OneHandle
  <2>2. FilesType'
    BY <1>0, <1>9 DEF ReadRow, FilesType
  <2> QED
    BY <2>1, <2>2
<1>10. ASSUME NEW p \in Procs, NEW batch \in Offered, StartAppend(p, batch)
      PROVE  FilesType' /\ h' \in [Procs -> HandleType] /\ BatchFits'
  <2>1. h' \in [Procs -> HandleType] /\ BatchFits'
    <3> DEFINE rows == PlanFor(p, batch).rows
               x == [h[p] EXCEPT !.pc = "writing", !.batch = rows, !.done = 0, !.seen = NoBlock]
    <3>1. rows \in Seq(Record) /\ rows # << >>
      BY <1>10, PlanTakesRows, OfferedAssumption DEF StartAppend, PlanFor
    <3>2. h' = [h EXCEPT ![p] = x] /\ h[p].n + Len(rows) <= MaxRecs
      BY <1>10 DEF StartAppend
    <3>3. h[p] \in HandleType
      BY DEF TypeInv, TypeOK
    <3> HIDE DEF rows
    <3>4. x \in HandleType /\ Fits(x)
      BY <3>1, <3>2, <3>3 DEF HandleType, NoBlock, Fits, Exclusive, Appending
    <3> HIDE DEF x
    <3> QED
      BY <3>2, <3>4, OneHandle
  <2>2. FilesType'
    BY <1>0, <1>10 DEF StartAppend, FilesType
  <2> QED
    BY <2>1, <2>2
<1>11. ASSUME NEW p \in Procs, WriteRecord(p)
      PROVE  FilesType' /\ h' \in [Procs -> HandleType] /\ BatchFits'
  <2>1. h' \in [Procs -> HandleType] /\ BatchFits'
    <3> DEFINE x == [h[p] EXCEPT !.done = @ + 1]
    <3>1. h' = [h EXCEPT ![p] = x]
      BY <1>11 DEF WriteRecord
    <3>2. h[p] \in HandleType /\ Fits(h[p])
      BY DEF TypeInv, TypeOK, BatchFits, Fits, NewCount
    <3>3. x \in HandleType
      BY <3>2, <1>11, SMTT(60) DEF HandleType
    <3>4. Fits(x)
      BY <3>2, <1>11 DEF WriteRecord, Fits, HandleType, Appending
    <3> HIDE DEF x
    <3> QED
      BY <3>1, <3>3, <3>4, OneHandle
  <2>2. FilesType'
    <3>1. h[p].batch[h[p].done + 1] \in Record
      BY <1>11 DEF WriteRecord, TypeInv, TypeOK, HandleType
    <3> QED
      BY <1>0, <3>1, <1>11 DEF WriteRecord, FilesType, File, Cell
  <2> QED
    BY <2>1, <2>2
<1>12. ASSUME NEW p \in Procs, SyncRecords(p)
      PROVE  FilesType' /\ h' \in [Procs -> HandleType] /\ BatchFits'
  <2>1. h' \in [Procs -> HandleType] /\ BatchFits'
    <3> DEFINE x == [h[p] EXCEPT !.pc = "sealing", !.blk = BlockOf(h[p].n + 1)]
    <3>1. h' = [h EXCEPT ![p] = x]
      BY <1>12 DEF SyncRecords
    <3>2. h[p] \in HandleType /\ Fits(h[p])
      BY DEF TypeInv, TypeOK, BatchFits, Fits, NewCount
    <3>3. x \in HandleType
      <4>1. h[p].n + 1 \in Nat \ {0}
        BY <3>2, MaxRecsAssumption DEF HandleType
      <4>2. BlockOf(h[p].n + 1) \in Nat
        BY <4>1, BlockOfType
      <4> QED
        BY <3>2, <4>2 DEF HandleType, Exclusive, Appending
    <3>4. Fits(x)
      BY <3>2, <1>12 DEF SyncRecords, Fits, HandleType, Appending
    <3> HIDE DEF x
    <3> QED
      BY <3>1, <3>3, <3>4, OneHandle
  <2>2. FilesType'
    BY <1>0, <1>12 DEF SyncRecords, RecordsSynced, FilesType
  <2> QED
    BY <2>1, <2>2
<1>13. ASSUME NEW p \in Procs, SealBlock(p)
      PROVE  FilesType' /\ h' \in [Procs -> HandleType] /\ BatchFits'
  <2>1. h' \in [Procs -> HandleType] /\ BatchFits'
    <3> DEFINE x == [h[p] EXCEPT !.blk = @ + 1]
    <3>1. h' = [h EXCEPT ![p] = x]
      BY <1>13 DEF SealBlock
    <3>2. h[p] \in HandleType /\ Fits(h[p])
      BY DEF TypeInv, TypeOK, BatchFits, Fits, NewCount
    <3>3. x \in HandleType
      BY <3>2, <1>13, SMTT(60) DEF HandleType
    <3>4. Fits(x)
      BY <3>2, <1>13 DEF SealBlock, Fits, HandleType, Appending
    <3> HIDE DEF x
    <3> QED
      BY <3>1, <3>3, <3>4, OneHandle
  <2>2. FilesType'
    BY <1>0, <1>13 DEF SealBlock, FilesType
  <2> QED
    BY <2>1, <2>2
<1>14. ASSUME NEW p \in Procs, SyncSums(p)
      PROVE  FilesType' /\ h' \in [Procs -> HandleType] /\ BatchFits'
  <2>1. h' \in [Procs -> HandleType] /\ BatchFits'
    BY <1>0, <1>14, StepType DEF SyncSums, Exclusive, Opening, Appending
  <2>2. FilesType'
    BY <1>0, <1>14 DEF SyncSums, FilesType
  <2> QED
    BY <2>1, <2>2
<1>15. ASSUME NEW p \in Procs, WriteSlot(p)
      PROVE  FilesType' /\ h' \in [Procs -> HandleType] /\ BatchFits'
  <2>1. h' \in [Procs -> HandleType] /\ BatchFits'
    BY <1>0, <1>15, StepType DEF WriteSlot, Exclusive, Opening, Appending
  <2>2. FilesType'
    BY <1>0, <1>15, AdvancedType DEF WriteSlot, Step, Slots, Appending, FilesType
  <2> QED
    BY <2>1, <2>2
<1>16. ASSUME NEW p \in Procs, SyncSlot(p)
      PROVE  FilesType' /\ h' \in [Procs -> HandleType] /\ BatchFits'
  <2>1. h' \in [Procs -> HandleType] /\ BatchFits'
    BY <1>0, <1>16, OpenAtType, AdvancedType DEF SyncSlot, Appending
  <2>2. FilesType'
    <3>1. NewCount(p) \in 0 .. MaxRecs
      BY <1>16, AdvancedType DEF SyncSlot, Appending
    <3>2. acked' \in Seq(Cell)
      <4>1. \A i \in 1 .. NewCount(p) : (IF i <= Len(acked) THEN acked[i] ELSE recs[i]) \in Cell
        BY <1>0, <3>1, MaxRecsAssumption DEF FilesType, File, Pos
      <4> QED
        BY <3>1, <4>1, <1>16 DEF SyncSlot
    <3> QED
      BY <1>0, <3>2, <1>16 DEF SyncSlot, FilesType
  <2> QED
    BY <2>1, <2>2
<1>17. ASSUME NEW p \in Procs, Drop(p)
      PROVE  FilesType' /\ h' \in [Procs -> HandleType] /\ BatchFits'
  <2>1. h' \in [Procs -> HandleType] /\ BatchFits'
    BY <1>0, <1>17, OneHandle, ClosedType DEF Drop, Close
  <2>2. FilesType'
    BY <1>0, <1>17 DEF Drop, FilesType
  <2> QED
    BY <2>1, <2>2
<1>18. ASSUME NEW p \in Procs, Die(p)
      PROVE  FilesType' /\ h' \in [Procs -> HandleType] /\ BatchFits'
  <2>1. h' \in [Procs -> HandleType] /\ BatchFits'
    BY <1>0, <1>18, OneHandle, ClosedType DEF Die, Close
  <2>2. FilesType'
    BY <1>0, <1>18, MaxCrashesAssumption DEF Die, FilesType
  <2> QED
    BY <2>1, <2>2
<1>19. ASSUME UNCHANGED h PROVE h' \in [Procs -> HandleType] /\ BatchFits'
  BY <1>19 DEF TypeInv, TypeOK, BatchFits, NewCount
<1>20. CASE Writeback
  BY <1>0, <1>19, <1>20 DEF Writeback, FilesType, File, Slots
<1>21. CASE PowerLoss
  <2>1. h' \in [Procs -> HandleType] /\ BatchFits'
    BY <1>21, ClosedType DEF PowerLoss, BatchFits, Fits, NewCount
  <2>2. recsD' \in File /\ slotsD' \in Slots
    BY <1>0, <1>21 DEF PowerLoss, FilesType, File, Cell, EmptyFile, Slots, BlankSlots
  <2>3. DOMAIN sumsD' = Block /\ namesD' \subseteq Names /\ crashes' \in 0 .. MaxCrashes
    BY <1>0, <1>21, MaxCrashesAssumption DEF PowerLoss, FilesType, BlankSums
  <2> QED
    BY <1>0, <1>21, <2>1, <2>2, <2>3 DEF PowerLoss, FilesType
<1>22. ASSUME NEW i \in Pos, Rot(i)
       PROVE  FilesType' /\ h' \in [Procs -> HandleType] /\ BatchFits'
  BY <1>0, <1>19, <1>22 DEF Rot, FilesType, File, Cell
<1>23. CASE UNCHANGED vars
  BY <1>0, <1>19, <1>23 DEF vars, FilesType
<1> QED
  BY <1>1, <1>2, <1>3, <1>4, <1>5, <1>6, <1>7, <1>8, <1>9, <1>10, <1>11, <1>12, <1>13, <1>14, <1>15, <1>16, <1>17, <1>18, <1>20, <1>21, <1>22, <1>23
  DEF Next, OpenStep, AppendStep

(* Every variable stays in its domain, whatever the faults.                *)
THEOREM TypeCorrect == Spec => []TypeOK
<1>1. Spec => []TypeInv
  BY TypeInit, TypeNext, PTL DEF Spec
<1>2. TypeInv => TypeOK
  BY DEF TypeInv
<1> QED
  BY <1>1, <1>2, PTL

-----------------------------------------------------------------------------
(* The invariant of a month in a known tree.                               *)

(* Records do not rot, the month directory exists, header slots may tear.  *)
HonestDisk == Faults \subseteq {"torn_slot"}

(* The tree of the month's directory exists: its records may rot.          *)
KnownTree == "fresh_tree" \notin Faults

(* A record is left as it was written: what speaks of the contents of the  *)
(* records, and not of their being there, is claimed under it.             *)
NoRot == "rot" \notin Faults

(* Whoever holds the lock for writing holds it alone.                      *)
LockInv ==
    \A p, q \in Procs : p # q /\ h[p].pc \in Exclusive =>
        h[q].pc \notin Exclusive \cup {"reading"}

IsHeader(sl, s) == sl[s] # Blank /\ sl[s] # Torn

(* A header lies in its generation's slot, and a newer one counts no fewer *)
(* records.                                                                *)
RegionOK(sl) ==
    /\ \A s \in Slot : IsHeader(sl, s) => sl[s].gen % 2 = s
    /\ \A s, t \in Slot : IsHeader(sl, s) /\ IsHeader(sl, t) /\ sl[s].gen <= sl[t].gen =>
           sl[s].n <= sl[t].n

(* The first n records are there and durable, and whole unless they rot.   *)
Durable(n) ==
    \A i \in 1 .. n : /\ recs[i] # Nothing /\ recsD[i] = recs[i]
                      /\ NoRot => recs[i] \in Record

(* Every record a header counts is durable.                                *)
Backed == \A s \in Slot : IsHeader(slots, s) => Durable(slots[s].n)

(* At most one slot is dirty, a blank slot is not, and a header on the disk *)
(* is the cached one or an older one.                                      *)
DirtyInv ==
    /\ \E s \in Slot : slots[s] = slotsD[s]
    /\ \A s \in Slot : slots[s] = Blank => slotsD[s] = Blank
    /\ \A s \in Slot : IsHeader(slotsD, s) =>
           IsHeader(slots, s) /\ slotsD[s].n <= slots[s].n

(* The handle's header is the newest one of the region.                    *)
Current(hd) ==
    /\ slots[hd.gen % 2] = hd
    /\ \A s \in Slot : IsHeader(slots, s) => slots[s].gen <= hd.gen

HeaderOf(p) == [gen |-> h[p].gen, n |-> h[p].n, last |-> h[p].last]

HandleOK(p) ==
    /\ h[p].pc = "empty" => AllZero(slots, recs)
    /\ h[p].pc \in {"named", "open", "reading", "writing", "sealing", "summed"} =>
           Current(HeaderOf(p))
    /\ h[p].pc = "writing" =>
           /\ h[p].done <= Len(h[p].batch)
           /\ \A j \in 1 .. h[p].done : recs[h[p].n + j] = h[p].batch[j]
    /\ h[p].pc \in {"sealing", "summed"} => slotsD = slots /\ Durable(NewCount(p))
    /\ h[p].pc = "slotted" => Current(Advanced(p))
    /\ h[p].pc = "peeking" => h[p].n = 0
HandleInv == \A p \in Procs : HandleOK(p)

(* The month's names are durable before a record is committed.             *)
NamesInv ==
    /\ "dir" \in namesD /\ namesD \subseteq names
    /\ \A p \in Procs :
           /\ h[p].pc \in Exclusive => "lock" \in names
           /\ h[p].pc \in Exclusive \ {"locked"} => "bars" \in names
           /\ h[p].pc = "named" => "crc" \in names
           /\ h[p].pc \in Appending \cup {"open"} => Names \subseteq namesD
    /\ \A s \in Slot : IsHeader(slots, s) /\ slots[s].n > 0 => Names \subseteq namesD

(* A clean header counts every record reported committed.                  *)
AckInv ==
    acked # << >> =>
        /\ \E s \in Slot : /\ slots[s] = slotsD[s] /\ IsHeader(slots, s)
                           /\ Len(acked) <= slots[s].n
        /\ NoRot => \A i \in 1 .. Len(acked) : recs[i] = acked[i]

FileInv ==
    RegionOK(slots) /\ RegionOK(slotsD) /\ Backed /\ DirtyInv /\ AckInv

Inv == LockInv /\ FileInv /\ HandleInv /\ NamesInv

-----------------------------------------------------------------------------
(* Regions.                                                                *)

(* A slot that is neither blank nor torn holds a header.                   *)
LEMMA HeaderType ==
    ASSUME NEW sl \in Slots, NEW s \in Slot, IsHeader(sl, s)
    PROVE  sl[s] \in Header
  BY DEF Slots, IsHeader

(* Two generations in a row lie in the two slots.                          *)
LEMMA SlotOfType == \A g \in Nat : g % 2 \in Slot /\ (g + 1) % 2 \in Slot /\ (g + 1) % 2 # g % 2
  BY DEF Slot

(* A region whose records are there opens with its newest header.          *)
LEMMA RegionOpens ==
    ASSUME NEW sl \in Slots, NEW f \in File, RegionOK(sl),
           \A s \in Slot : IsHeader(sl, s) => \A i \in 1 .. sl[s].n : f[i] # Nothing,
           NEW s \in Slot, IsHeader(sl, s)
    PROVE  /\ Opens(sl, f)
           /\ Chosen(sl, f) \in Header
           /\ sl[Chosen(sl, f).gen % 2] = Chosen(sl, f)
           /\ \A t \in Slot : IsHeader(sl, t) => /\ sl[t].gen <= Chosen(sl, f).gen
                                               /\ sl[t].n <= Chosen(sl, f).n
<1>1. \A t \in Slot : IsHeader(sl, t) => sl[t] \in Header /\ sl[t].n <= Held(f)
  <2> SUFFICES ASSUME NEW t \in Slot, IsHeader(sl, t)
               PROVE  sl[t] \in Header /\ sl[t].n <= Held(f)
    OBVIOUS
  <2>1. sl[t] \in Header /\ sl[t].n \in 0 .. MaxRecs
    BY HeaderType DEF Header
  <2>2. CASE sl[t].n = 0
    BY <2>1, <2>2, HeldCovers
  <2>3. CASE sl[t].n # 0
    <3>1. sl[t].n \in Pos /\ f[sl[t].n] # Nothing
      BY <2>1, <2>3, MaxRecsAssumption DEF Pos
    <3> QED
      BY <2>1, <3>1, HeldCovers
  <2> QED
    BY <2>2, <2>3
<1>2. /\ Supported(sl, f) = Decodable(sl)
      /\ Decodable(sl) = {sl[t] : t \in {u \in Slot : IsHeader(sl, u)}}
  BY <1>1 DEF Supported, Decodable, IsHeader
<1>3. Supported(sl, f) # {}
  BY <1>2
<1>4. /\ Chosen(sl, f) \in Supported(sl, f) /\ Chosen(sl, f) \in Header
      /\ \A hd \in Supported(sl, f) : hd.gen <= Chosen(sl, f).gen
  BY <1>3, ChosenIsNewest
<1>5. PICK t \in Slot : IsHeader(sl, t) /\ Chosen(sl, f) = sl[t]
  BY <1>2, <1>4
<1>6. Chosen(sl, f).gen % 2 = t
  BY <1>5 DEF RegionOK
<1>7. \A u \in Slot : IsHeader(sl, u) => sl[u].gen <= sl[t].gen /\ sl[u].n <= sl[t].n
  BY <1>2, <1>4, <1>5 DEF RegionOK
<1>8. Opens(sl, f)
  BY <1>2, <1>3, <1>5, <1>7 DEF Opens
<1> QED
  BY <1>4, <1>5, <1>6, <1>7, <1>8

(* The month opens on what the processes see.                              *)
LEMMA CacheOpens ==
    ASSUME TypeInv, FileInv, NEW s \in Slot, IsHeader(slots, s)
    PROVE  /\ Opens(slots, recs) /\ Chosen(slots, recs) \in Header /\ Current(Chosen(slots, recs))
           /\ \A t \in Slot : IsHeader(slots, t) => slots[t].n <= Chosen(slots, recs).n
<1>1. slots \in Slots /\ recs \in File
  BY DEF TypeInv, TypeOK, Slots
<1>2. RegionOK(slots) /\ \A t \in Slot : IsHeader(slots, t) => \A i \in 1 .. slots[t].n : recs[i] # Nothing
  BY DEF FileInv, Backed, Durable
<1> QED
  BY <1>1, <1>2, RegionOpens DEF Current

(* It opens on the disk too, with at least the records of a clean header.  *)
LEMMA DiskOpens ==
    ASSUME TypeInv, FileInv, NEW s \in Slot, IsHeader(slotsD, s)
    PROVE  /\ Opens(slotsD, recsD) /\ Chosen(slotsD, recsD) \in Header
           /\ \A t \in Slot : IsHeader(slotsD, t) => slotsD[t].n <= Chosen(slotsD, recsD).n
<1>1. slots \in Slots /\ slotsD \in Slots /\ recsD \in File
  BY DEF TypeInv, TypeOK, Slots
<1>2. \A t \in Slot : IsHeader(slotsD, t) => \A i \in 1 .. slotsD[t].n : recsD[i] # Nothing
  <2> SUFFICES ASSUME NEW t \in Slot, IsHeader(slotsD, t), NEW i \in 1 .. slotsD[t].n
               PROVE  recsD[i] # Nothing
    OBVIOUS
  <2>1. IsHeader(slots, t) /\ slotsD[t].n <= slots[t].n
    BY DEF FileInv, DirtyInv
  <2>2. slotsD[t] \in Header /\ slots[t] \in Header
    BY <1>1, <2>1, HeaderType
  <2>3. i \in 1 .. slots[t].n
    BY <2>1, <2>2, MaxRecsAssumption DEF Header
  <2> QED
    BY <2>1, <2>3 DEF FileInv, Backed, Durable
<1> QED
  BY <1>1, <1>2, RegionOpens DEF FileInv

(* A region that opens has a header.                                       *)
LEMMA OpensHasHeader ==
    ASSUME NEW sl, NEW f, Opens(sl, f)
    PROVE  \E s \in Slot : IsHeader(sl, s)
  BY DEF Opens, Supported, Decodable, IsHeader

-----------------------------------------------------------------------------
(* Handles.                                                                *)

Others(p) == \A q \in Procs \ {p} : h'[q] = h[q]

(* A step of one handle changes its pc and no other handle.                *)
LEMMA StepEffect ==
    ASSUME TypeInv, NEW p \in Procs, NEW from, NEW to, Step(p, from, to)
    PROVE  /\ Others(p) /\ h[p].pc = from /\ h'[p].pc = to
           /\ h'[p].n = h[p].n /\ h'[p].gen = h[p].gen /\ h'[p].last = h[p].last
           /\ h'[p].batch = h[p].batch
<1>1. h \in [Procs -> HandleType]
  BY DEF TypeInv, TypeOK
<1>2. h'[p] = [h[p] EXCEPT !.pc = to] /\ Others(p)
  BY <1>1 DEF Step, Others
<1>3. h[p] \in HandleType
  BY <1>1
<1> QED
  BY <1>2, <1>3 DEF Step, HandleType

(* Closing a handle leaves the others alone.                               *)
LEMMA CloseEffect ==
    ASSUME TypeInv, NEW p \in Procs, Close(p)
    PROVE  Others(p) /\ h'[p].pc = "closed"
<1>1. h \in [Procs -> HandleType]
  BY DEF TypeInv, TypeOK
<1> QED
  BY <1>1 DEF Close, Others, Closed

(* Opening at a header leaves the handle with that header.                 *)
LEMMA OpenAtEffect ==
    ASSUME TypeInv, NEW p \in Procs, NEW pc, NEW hd, OpenAt(p, pc, hd)
    PROVE  /\ Others(p) /\ h'[p].pc = pc
           /\ h'[p].n = hd.n /\ h'[p].gen = hd.gen /\ h'[p].last = hd.last
<1>1. h \in [Procs -> HandleType]
  BY DEF TypeInv, TypeOK
<1>2. h'[p] = [Closed EXCEPT !.pc = pc, !.n = hd.n, !.gen = hd.gen, !.last = hd.last] /\ Others(p)
  BY <1>1 DEF OpenAt, Others
<1> QED
  BY <1>2 DEF Closed

(* Only `TakeLock` takes the lock for writing, only `OpenExisting` shares it. *)
LEMMA LockKept ==
    ASSUME LockInv, NEW p \in Procs, Others(p),
           h'[p].pc \in Exclusive => h[p].pc \in Exclusive,
           h'[p].pc = "reading" => h[p].pc = "reading"
    PROVE  LockInv'
<1> SUFFICES ASSUME NEW a \in Procs, NEW b \in Procs, a # b, h'[a].pc \in Exclusive
             PROVE  h'[b].pc \notin Exclusive \cup {"reading"}
  BY DEF LockInv
<1>1. h[a].pc \in Exclusive
  BY DEF Others
<1>2. h[b].pc \notin Exclusive \cup {"reading"}
  BY <1>1 DEF LockInv
<1> QED
  BY <1>2 DEF Others

(* Two handles never both hold the lock, whatever a third does: a step of a *)
(* writer leaves the promises to every other handle standing.              *)
LEMMA OthersIdle ==
    ASSUME LockInv, HandleInv, NEW p \in Procs, h[p].pc \in Exclusive, Others(p),
           NEW q \in Procs \ {p}
    PROVE  HandleOK(q)'
<1>1. h[q].pc \notin Exclusive \cup {"reading"} /\ h'[q] = h[q]
  BY DEF LockInv, Others
<1>2. h[q].pc = "peeking" => h[q].n = 0
  BY DEF HandleInv, HandleOK
<1> QED
  BY <1>1, <1>2 DEF HandleOK, Exclusive, Opening, Appending

(* A handle nobody touches keeps its promises while the files do not change. *)
LEMMA HandleKept ==
    ASSUME HandleInv, NEW q \in Procs, h'[q] = h[q], UNCHANGED << recs, recsD, slots, slotsD >>
    PROVE  HandleOK(q)'
<1>1. HandleOK(q)
  BY DEF HandleInv
<1> QED
  BY <1>1 DEF HandleOK, AllZero, Held, Current, HeaderOf, Durable, NewCount, Advanced, IsHeader

(* A handle that is locked, zeroed, inited, ready or closed promises nothing. *)
LEMMA HandleQuiet ==
    ASSUME NEW q \in Procs,
           h'[q].pc \notin {"empty", "named", "open", "reading", "writing", "sealing", "summed",
                            "slotted", "peeking"}
    PROVE  HandleOK(q)'
  BY DEF HandleOK

(* The files' part of the invariant speaks of these variables only.        *)
LEMMA FilesKept ==
    ASSUME FileInv, UNCHANGED << recs, recsD, slots, slotsD, acked >>
    PROVE  FileInv'
  BY DEF FileInv, RegionOK, IsHeader, Backed, Durable, DirtyInv, AckInv

(* Names only accumulate while no power is lost.                           *)
LEMMA NamesKept ==
    ASSUME NamesInv, NEW p \in Procs, Others(p),
           namesD \subseteq namesD', names \subseteq names', namesD' \subseteq names',
           UNCHANGED slots,
           h'[p].pc \in Exclusive => "lock" \in names',
           h'[p].pc \in Exclusive \ {"locked"} => "bars" \in names',
           h'[p].pc = "named" => "crc" \in names',
           h'[p].pc \in Appending \cup {"open"} => Names \subseteq namesD'
    PROVE  NamesInv'
  BY DEF NamesInv, Others, IsHeader

(* A sync that reaches the disk leaves the two contents of a file the same. *)
LEMMA SyncedFiles ==
    ASSUME TypeInv, FileInv, UNCHANGED << recs, slots, acked >>, slotsD' = slots, recsD' = recs
    PROVE  FileInv'
<1>1. RegionOK(slots') /\ RegionOK(slotsD')
  BY DEF FileInv
<1>2. Backed'
  BY DEF FileInv, Backed, Durable, IsHeader
<1>3. DirtyInv'
  <2>1. \A s \in Slot : IsHeader(slots, s) => slots[s].n \in 0 .. MaxRecs
    BY HeaderType DEF TypeInv, TypeOK, Slots, Header
  <2>2. \A s \in Slot : IsHeader(slots, s) => slots[s].n <= slots[s].n
    BY <2>1, MaxRecsAssumption
  <2> QED
    BY <2>2 DEF DirtyInv, IsHeader, Slot, FileInv
<1>4. AckInv'
  BY DEF FileInv, AckInv, IsHeader
<1> QED
  BY <1>1, <1>2, <1>3, <1>4 DEF FileInv

-----------------------------------------------------------------------------
(* Opening and reading.                                                    *)

(* Opening a month keeps the invariant, whatever it finds there.           *)
LEMMA SafeOpening ==
    ASSUME TypeInv, TypeInv', Inv, NEW p \in Procs, TakeLock(p) \/ OpenStep(p)
    PROVE  Inv'
<1> USE DEF cache, disk
<1>1. LockInv /\ FileInv /\ HandleInv /\ NamesInv
  BY DEF Inv
<1>2. namesD \subseteq names /\ SyncNames \subseteq names /\ namesD \subseteq SyncNames
  BY <1>1 DEF NamesInv, SyncNames
<1>3. CASE TakeLock(p)
  <2>1. h[p].pc = "closed" /\ h'[p].pc = "locked" /\ Others(p)
    BY <1>3, StepEffect DEF TakeLock
  <2>2. LockInv'
    BY <1>1, <1>3, <2>1 DEF TakeLock, CanLock, LockInv, Others, Exclusive, Opening, Appending
  <2>3. FileInv'
    BY <1>1, <1>3, FilesKept DEF TakeLock
  <2>4. HandleInv'
    <3>1. HandleOK(p)'
      BY <2>1, HandleQuiet
    <3>2. \A q \in Procs \ {p} : HandleOK(q)'
      BY <1>1, <1>3, <2>1, HandleKept DEF TakeLock, Others
    <3> QED
      BY <3>1, <3>2 DEF HandleInv
  <2>5. NamesInv'
    BY <1>1, <1>2, <1>3, <2>1, NamesKept DEF TakeLock, Appending
  <2> QED
    BY <2>2, <2>3, <2>4, <2>5 DEF Inv
<1>4. CASE OpenBars(p)
  <2>1. /\ h[p].pc = "locked" /\ Others(p)
        /\ h'[p].pc = IF AllZero(slots, recs) THEN "empty" ELSE "ready"
    BY <1>4, StepEffect DEF OpenBars
  <2>2. LockInv'
    BY <1>1, <2>1, LockKept DEF Exclusive, Opening
  <2>3. FileInv'
    BY <1>1, <1>4, FilesKept DEF OpenBars
  <2>4. HandleInv'
    <3>1. HandleOK(p)'
      BY <1>4, <2>1 DEF OpenBars, HandleOK, AllZero, Held
    <3>2. \A q \in Procs \ {p} : HandleOK(q)'
      BY <1>1, <1>4, <2>1, HandleKept DEF OpenBars, Others
    <3> QED
      BY <3>1, <3>2 DEF HandleInv
  <2>5. "lock" \in names
    BY <1>1, <2>1 DEF NamesInv, Exclusive, Opening
  <2>6. NamesInv'
    BY <1>1, <1>2, <1>4, <2>1, <2>5, NamesKept DEF OpenBars, Appending
  <2> QED
    BY <2>2, <2>3, <2>4, <2>6 DEF Inv
<1>5. CASE Initialise(p)
  <2>1. h[p].pc = "empty" /\ h'[p].pc = "zeroed" /\ Others(p)
    BY <1>5, StepEffect DEF Initialise
  <2>2. LockInv'
    BY <1>1, <2>1, LockKept DEF Exclusive, Opening
  <2>3. slots = BlankSlots /\ slots' = [BlankSlots EXCEPT ![0] = Genesis]
    <3>1. AllZero(slots, recs)
      BY <1>1, <2>1 DEF HandleInv, HandleOK
    <3>2. SlotOf(0) = 0
      BY DEF SlotOf
    <3> QED
      BY <1>5, <3>1, <3>2 DEF Initialise, AllZero
  <2>4. /\ \A s \in Slot : ~IsHeader(slots, s) /\ ~IsHeader(slotsD, s)
        /\ \A s \in Slot : IsHeader(slots', s) <=> s = 0
        /\ slots'[0] = Genesis /\ slotsD'[1] = slots'[1]
    BY <1>1, <1>5, <2>3, BlankAssumption, MaxRecsAssumption
    DEF Initialise, FileInv, DirtyInv, IsHeader, BlankSlots, Slot, Genesis, Header
  <2>5. FileInv'
    <3>1. RegionOK(slots') /\ Backed'
      BY <2>4 DEF RegionOK, Backed, Durable, Genesis, IsHeader
    <3>2. RegionOK(slotsD')
      BY <1>5, <2>4 DEF Initialise, RegionOK
    <3>3. DirtyInv'
      BY <1>1, <1>5, <2>3, <2>4 DEF Initialise, FileInv, DirtyInv, IsHeader, BlankSlots, Slot
    <3>4. AckInv'
      BY <1>1, <1>5, <2>4 DEF Initialise, FileInv, AckInv
    <3> QED
      BY <3>1, <3>2, <3>3, <3>4 DEF FileInv
  <2>6. HandleInv'
    <3>1. HandleOK(p)'
      BY <2>1, HandleQuiet
    <3>2. \A q \in Procs \ {p} : HandleOK(q)'
      BY <1>1, <2>1, OthersIdle DEF Exclusive, Opening
    <3> QED
      BY <3>1, <3>2 DEF HandleInv
  <2>7. NamesInv'
    <3>1. "lock" \in names /\ "bars" \in names
      BY <1>1, <2>1 DEF NamesInv, Exclusive, Opening
    <3>2. \A s \in Slot : ~(IsHeader(slots', s) /\ slots'[s].n > 0)
      BY <2>4 DEF Genesis
    <3> QED
      BY <1>1, <1>5, <2>1, <3>1, <3>2 DEF Initialise, NamesInv, Others, IsHeader, Appending
  <2> QED
    BY <2>2, <2>5, <2>6, <2>7 DEF Inv
<1>6. CASE SyncInitialise(p)
  <2>1. h[p].pc = "zeroed" /\ h'[p].pc = "inited" /\ Others(p)
    BY <1>6, StepEffect DEF SyncInitialise
  <2>2. LockInv'
    BY <1>1, <2>1, LockKept DEF Exclusive, Opening
  <2>3. UNCHANGED << recs, slots, acked, names, namesD >> /\ slotsD' = slots /\ recsD' = recs
    BY <1>6 DEF SyncInitialise
  <2>4. FileInv'
    BY <1>1, <2>3, SyncedFiles
  <2>5. HandleInv'
    <3>1. HandleOK(p)'
      BY <2>1, HandleQuiet
    <3>2. \A q \in Procs \ {p} : HandleOK(q)'
      BY <1>1, <2>1, OthersIdle DEF Exclusive, Opening
    <3> QED
      BY <3>1, <3>2 DEF HandleInv
  <2>6. NamesInv'
    <3>1. "lock" \in names /\ "bars" \in names
      BY <1>1, <2>1 DEF NamesInv, Exclusive, Opening
    <3> QED
      BY <1>1, <1>2, <2>1, <2>3, <3>1, NamesKept DEF Appending
  <2> QED
    BY <2>2, <2>4, <2>5, <2>6 DEF Inv
<1>7. CASE SyncDir(p)
  <2>1. h[p].pc = "inited" /\ h'[p].pc = "ready" /\ Others(p)
    BY <1>7, StepEffect DEF SyncDir
  <2>2. LockInv'
    BY <1>1, <2>1, LockKept DEF Exclusive, Opening
  <2>3. FileInv'
    BY <1>1, <1>7, FilesKept DEF SyncDir
  <2>4. HandleInv'
    <3>1. HandleOK(p)'
      BY <2>1, HandleQuiet
    <3>2. \A q \in Procs \ {p} : HandleOK(q)'
      BY <1>1, <2>1, OthersIdle DEF Exclusive, Opening
    <3> QED
      BY <3>1, <3>2 DEF HandleInv
  <2>5. NamesInv'
    <3>1. "lock" \in names /\ "bars" \in names
      BY <1>1, <2>1 DEF NamesInv, Exclusive, Opening
    <3> QED
      BY <1>1, <1>2, <1>7, <2>1, <3>1, NamesKept DEF SyncDir, Appending
  <2> QED
    BY <2>2, <2>3, <2>4, <2>5 DEF Inv
<1>8. CASE Validate(p)
  <2>1. h[p].pc = "ready" /\ UNCHANGED << recs, recsD, slots, slotsD, acked, namesD >>
    BY <1>8 DEF Validate
  <2>2. FileInv'
    BY <1>1, <2>1, FilesKept
  <2>3. "lock" \in names /\ "bars" \in names
    BY <1>1, <2>1 DEF NamesInv, Exclusive, Opening
  <2>4. CASE Close(p) /\ UNCHANGED names
    <3>1. h'[p].pc = "closed" /\ Others(p)
      BY <2>4, CloseEffect
    <3>2. LockInv'
      BY <1>1, <3>1, LockKept DEF Exclusive, Opening, Appending
    <3>3. HandleInv'
      BY <1>1, <2>1, <3>1, HandleQuiet, HandleKept DEF HandleInv, Others
    <3>4. NamesInv'
      BY <1>1, <1>2, <2>1, <2>4, <3>1, NamesKept DEF Exclusive, Opening, Appending
    <3> QED
      BY <2>2, <3>2, <3>3, <3>4 DEF Inv
  <2>5. ASSUME NEW pc \in {"named", "open"}, Opens(slots, recs),
               OpenAt(p, pc, Chosen(slots, recs)), names \subseteq names', names' \subseteq Names,
               pc = "named" => "crc" \in names', pc = "open" => Chosen(slots, recs).n > 0
        PROVE  Inv'
    <3>0. PICK hd : hd = Chosen(slots, recs)
      OBVIOUS
    <3>1. /\ Others(p) /\ h'[p].pc = pc
          /\ h'[p].n = hd.n /\ h'[p].gen = hd.gen /\ h'[p].last = hd.last
      BY <2>5, <3>0, OpenAtEffect
    <3>2. PICK s \in Slot : IsHeader(slots, s)
      BY <2>5, OpensHasHeader
    <3>3. hd \in Header /\ Current(hd)
      BY <1>1, <3>0, <3>2, CacheOpens
    <3>4. hd.gen % 2 \in Slot /\ IsHeader(slots, hd.gen % 2)
      BY <3>3, SlotOfType, BlankAssumption DEF Current, Header, IsHeader
    <3>5. LockInv'
      BY <1>1, <2>1, <3>1, LockKept DEF Exclusive, Opening
    <3>6. HandleInv'
      <4>1. HeaderOf(p)' = hd
        BY <3>1, <3>3 DEF HeaderOf, Header
      <4>2. HandleOK(p)'
        BY <2>1, <3>1, <3>3, <4>1 DEF HandleOK, Current, IsHeader
      <4> QED
        BY <1>1, <2>1, <3>1, <4>2, HandleKept DEF HandleInv, Others
    <3>7. NamesInv'
      <4>1. pc = "open" => Names \subseteq namesD
        BY <1>1, <2>5, <3>0, <3>3, <3>4 DEF NamesInv, Current
      <4> QED
        BY <1>1, <1>2, <2>1, <2>3, <2>5, <3>1, <4>1, NamesKept DEF Appending
    <3> QED
      BY <2>2, <3>5, <3>6, <3>7 DEF Inv
  <2>6. names \subseteq Names
    BY DEF TypeInv, TypeOK
  <2>7. Opens(slots, recs) => Chosen(slots, recs).n \in Nat
    <3> SUFFICES ASSUME Opens(slots, recs) PROVE Chosen(slots, recs).n \in Nat
      OBVIOUS
    <3>1. Chosen(slots, recs) \in Header
      BY <1>1, OpensHasHeader, CacheOpens
    <3> QED
      BY <3>1, MaxRecsAssumption DEF Header
  <2>8. CASE Opens(slots, recs) /\ Chosen(slots, recs).n = 0
    <3>1. names' = names \cup {"crc"} /\ OpenAt(p, "named", Chosen(slots, recs))
      BY <1>8, <2>8 DEF Validate
    <3>2. names \subseteq names' /\ names' \subseteq Names /\ "crc" \in names'
      BY <2>6, <3>1 DEF Names
    <3> QED
      BY <2>5, <2>8, <3>1, <3>2
  <2>9. CASE Opens(slots, recs) /\ Chosen(slots, recs).n > 0
    <3>1. /\ names' = names
          /\ IF "crc" \in names THEN OpenAt(p, "open", Chosen(slots, recs)) ELSE Close(p)
      BY <1>8, <2>7, <2>9 DEF Validate
    <3>2. CASE "crc" \in names
      <4>1. OpenAt(p, "open", Chosen(slots, recs)) /\ names \subseteq names' /\ names' \subseteq Names
        BY <2>6, <3>1, <3>2
      <4> QED
        BY <2>5, <2>9, <4>1
    <3>3. CASE "crc" \notin names
      BY <2>4, <3>1, <3>3
    <3> QED
      BY <3>2, <3>3
  <2>10. CASE ~Opens(slots, recs)
    BY <1>8, <2>4, <2>10 DEF Validate
  <2> QED
    BY <2>7, <2>8, <2>9, <2>10
<1>9. CASE SyncSidecarName(p)
  <2>1. /\ h[p].pc = "named" /\ h'[p].pc = "open" /\ Others(p)
        /\ h'[p].n = h[p].n /\ h'[p].gen = h[p].gen /\ h'[p].last = h[p].last
    BY <1>9, StepEffect DEF SyncSidecarName
  <2>2. LockInv'
    BY <1>1, <2>1, LockKept DEF Exclusive, Opening
  <2>3. FileInv' /\ UNCHANGED << recs, recsD, slots, slotsD >>
    BY <1>1, <1>9, FilesKept DEF SyncSidecarName
  <2>4. HandleInv'
    <3>1. Current(HeaderOf(p))
      BY <1>1, <2>1 DEF HandleInv, HandleOK
    <3>2. HeaderOf(p)' = HeaderOf(p)
      BY <2>1 DEF HeaderOf
    <3>3. HandleOK(p)'
      BY <2>1, <2>3, <3>1, <3>2 DEF HandleOK, Current, IsHeader
    <3> QED
      BY <1>1, <2>1, <2>3, <3>3, HandleKept DEF HandleInv, Others
  <2>5. NamesInv'
    <3>1. Names \subseteq namesD' /\ "lock" \in names /\ "bars" \in names
      BY <1>1, <1>9, <2>1 DEF SyncSidecarName, SyncNames, NamesInv, Names, Exclusive, Opening
    <3> QED
      BY <1>1, <1>2, <1>9, <2>1, <3>1, NamesKept DEF SyncSidecarName
  <2> QED
    BY <2>2, <2>3, <2>4, <2>5 DEF Inv
<1> QED
  BY <1>3, <1>4, <1>5, <1>6, <1>7, <1>8, <1>9 DEF OpenStep

(* Dropping a handle, or dying with one, leaves the files alone.           *)
LEMMA SafeClosing ==
    ASSUME TypeInv, Inv, NEW p \in Procs, Drop(p) \/ Die(p)
    PROVE  Inv'
<1>1. LockInv /\ FileInv /\ HandleInv /\ NamesInv
  BY DEF Inv
<1>2. UNCHANGED << recs, recsD, slots, slotsD, acked, names, namesD >> /\ Close(p)
  BY DEF Drop, Die, cache, disk
<1>3. h'[p].pc = "closed" /\ Others(p)
  BY <1>2, CloseEffect
<1>4. LockInv'
  BY <1>1, <1>3, LockKept DEF Exclusive, Opening, Appending
<1>5. FileInv'
  BY <1>1, <1>2, FilesKept
<1>6. HandleInv'
  BY <1>1, <1>2, <1>3, HandleQuiet, HandleKept DEF HandleInv, Others
<1>7. NamesInv'
  BY <1>1, <1>2, <1>3, NamesKept DEF NamesInv, Exclusive, Opening, Appending
<1> QED
  BY <1>4, <1>5, <1>6, <1>7 DEF Inv

(* A reader takes the newest header, under the shared lock or over an empty *)
(* month.                                                                  *)
LEMMA SafeReading ==
    ASSUME TypeInv, Inv, NEW p \in Procs, OpenExisting(p) \/ \E i \in Pos : ReadRow(p, i)
    PROVE  Inv'
<1>1. LockInv /\ FileInv /\ HandleInv /\ NamesInv
  BY DEF Inv
<1>2. UNCHANGED << recs, recsD, slots, slotsD, acked, names, namesD >>
  BY DEF OpenExisting, ReadRow, cache, disk
<1>3. FileInv'
  BY <1>1, <1>2, FilesKept
<1>4. CASE OpenExisting(p)
  <2>1. PICK hd, pc : /\ hd = Chosen(slots, recs) /\ OpenAt(p, pc, hd)
                      /\ pc = IF "lock" \in names THEN "reading" ELSE "peeking"
    BY <1>4 DEF OpenExisting
  <2>2. PICK s \in Slot : IsHeader(slots, s)
    BY <1>4, OpensHasHeader DEF OpenExisting
  <2>3. hd \in Header /\ Current(hd)
    BY <1>1, <2>1, <2>2, CacheOpens
  <2>4. Others(p) /\ h'[p].pc = pc /\ h'[p].n = hd.n /\ h'[p].gen = hd.gen /\ h'[p].last = hd.last
    BY <2>1, OpenAtEffect
  <2>5. h[p].pc = "closed" /\ ("lock" \in names => CanLockShared(p))
    BY <1>4 DEF OpenExisting
  <2>6. LockInv'
    BY <1>1, <2>1, <2>4, <2>5
    DEF LockInv, CanLockShared, Others, Exclusive, Opening, Appending
  <2>7. "lock" \notin names => hd.n = 0
    <3>1. hd.gen % 2 \in Slot /\ IsHeader(slots, hd.gen % 2) /\ slots[hd.gen % 2] = hd
      BY <2>3, SlotOfType, BlankAssumption DEF Current, Header, IsHeader
    <3>2. hd.n > 0 => Names \subseteq names
      BY <1>1, <3>1 DEF NamesInv
    <3> QED
      BY <2>3, <3>2, MaxRecsAssumption DEF Names, Header
  <2>8. HandleInv'
    <3>1. HeaderOf(p)' = hd
      BY <2>3, <2>4 DEF HeaderOf, Header
    <3>2. HandleOK(p)'
      BY <1>2, <2>1, <2>3, <2>4, <2>7, <3>1 DEF HandleOK, Current, IsHeader
    <3> QED
      BY <1>1, <1>2, <2>4, <3>2, HandleKept DEF HandleInv, Others
  <2>9. NamesInv'
    BY <1>1, <1>2, <2>1, <2>4, NamesKept DEF NamesInv, Exclusive, Opening, Appending
  <2> QED
    BY <1>3, <2>6, <2>8, <2>9 DEF Inv
<1>5. ASSUME NEW i \in Pos, ReadRow(p, i) PROVE Inv'
  <2>1. h[p].pc \in {"open", "reading", "peeking"}
    BY <1>5 DEF ReadRow
  <2>2. /\ Others(p) /\ h'[p].pc = h[p].pc
        /\ h'[p].n = h[p].n /\ h'[p].gen = h[p].gen /\ h'[p].last = h[p].last
    <3>1. h \in [Procs -> HandleType] /\ h[p] \in HandleType
      BY DEF TypeInv, TypeOK
    <3>2. h'[p] = [h[p] EXCEPT !.seen = BlockOf(i)] /\ Others(p)
      BY <1>5, <3>1 DEF ReadRow, Others
    <3> QED
      BY <3>1, <3>2 DEF HandleType
  <2>3. LockInv'
    BY <1>1, <2>2, LockKept
  <2>4. HandleInv'
    <3>1. HeaderOf(p)' = HeaderOf(p)
      BY <2>2 DEF HeaderOf
    <3>2. HandleOK(p)'
      BY <1>1, <1>2, <2>1, <2>2, <3>1 DEF HandleInv, HandleOK, Current, IsHeader
    <3> QED
      BY <1>1, <1>2, <2>2, <3>2, HandleKept DEF HandleInv, Others
  <2>5. NamesInv'
    BY <1>1, <1>2, <2>1, <2>2, NamesKept DEF NamesInv
  <2> QED
    BY <1>3, <2>3, <2>4, <2>5 DEF Inv
<1> QED
  BY <1>4, <1>5

-----------------------------------------------------------------------------
(* Appending.                                                              *)

(* The header of a handle that appends is in its slot, and no header of the *)
(* region counts more.                                                     *)
LEMMA HandleHeader ==
    ASSUME TypeInv, FileInv, NEW p \in Procs, Current(HeaderOf(p))
    PROVE  /\ h[p].gen \in Nat /\ h[p].n \in 0 .. MaxRecs
           /\ h[p].gen % 2 \in Slot /\ IsHeader(slots, h[p].gen % 2)
           /\ slots[h[p].gen % 2].gen = h[p].gen /\ slots[h[p].gen % 2].n = h[p].n
           /\ \A s \in Slot : IsHeader(slots, s) => slots[s].gen <= h[p].gen /\ slots[s].n <= h[p].n
           /\ Durable(h[p].n)
<1>1. h[p] \in HandleType
  BY DEF TypeInv, TypeOK
<1>2. h[p].gen \in Nat /\ h[p].n \in 0 .. MaxRecs /\ h[p].last \in Nat
  BY <1>1 DEF HandleType
<1>3. HeaderOf(p) \in Header
  BY <1>2 DEF HeaderOf, Header
<1>4. h[p].gen % 2 \in Slot /\ slots[h[p].gen % 2] = HeaderOf(p)
  BY <1>2, SlotOfType DEF Current, HeaderOf
<1>5. IsHeader(slots, h[p].gen % 2)
  BY <1>3, <1>4, BlankAssumption DEF IsHeader
<1>6. slots[h[p].gen % 2].gen = h[p].gen /\ slots[h[p].gen % 2].n = h[p].n
  BY <1>4 DEF HeaderOf
<1>7. \A s \in Slot : IsHeader(slots, s) => slots[s].gen <= h[p].gen
  BY DEF Current, HeaderOf
<1>8. \A s \in Slot : IsHeader(slots, s) => slots[s].n <= h[p].n
  BY <1>4, <1>5, <1>6, <1>7 DEF FileInv, RegionOK
<1>9. Durable(h[p].n)
  BY <1>4, <1>5, <1>6 DEF FileInv, Backed
<1> QED
  BY <1>2, <1>4, <1>5, <1>6, <1>7, <1>8, <1>9

(* The names of a month that is appended to are durable already.           *)
LEMMA WriterNames ==
    ASSUME NamesInv, NEW p \in Procs, h[p].pc \in Appending \cup {"open"}, Others(p),
           h'[p].pc \in Appending \cup {"open"}, UNCHANGED << names, namesD >>
    PROVE  NamesInv'
<1>1. Names \subseteq namesD /\ namesD \subseteq names
  BY DEF NamesInv
<1>2. "dir" \in Names /\ "lock" \in Names /\ "bars" \in Names /\ "crc" \in Names
  BY DEF Names
<1> QED
  BY <1>1, <1>2 DEF NamesInv

(* Taking a batch changes no file.                                         *)
LEMMA SafeStartAppend ==
    ASSUME TypeInv, Inv, NEW p \in Procs, NEW batch \in Offered, StartAppend(p, batch)
    PROVE  Inv'
<1>1. LockInv /\ FileInv /\ HandleInv /\ NamesInv
  BY DEF Inv
<1>2. UNCHANGED << recs, recsD, slots, slotsD, acked, names, namesD >>
  BY DEF StartAppend, cache, disk
<1>3. /\ Others(p) /\ h[p].pc = "open" /\ h'[p].pc = "writing" /\ h'[p].done = 0
      /\ h'[p].n = h[p].n /\ h'[p].gen = h[p].gen /\ h'[p].last = h[p].last
      /\ h'[p].batch \in Seq(Record)
  <2>1. h \in [Procs -> HandleType] /\ h[p] \in HandleType
    BY DEF TypeInv, TypeOK
  <2>2. PICK rows : /\ rows = PlanFor(p, batch).rows
                    /\ h'[p] = [h[p] EXCEPT !.pc = "writing", !.batch = rows, !.done = 0,
                                            !.seen = NoBlock]
    BY <2>1 DEF StartAppend
  <2>3. rows \in Seq(Record)
    BY <2>2, PlanTakesRows, OfferedAssumption DEF StartAppend, PlanFor
  <2>4. Others(p) /\ h[p].pc = "open"
    BY <2>1 DEF StartAppend, Others
  <2> QED
    BY <2>1, <2>2, <2>3, <2>4 DEF HandleType
<1>4. LockInv'
  BY <1>1, <1>3, LockKept DEF Exclusive
<1>5. FileInv'
  BY <1>1, <1>2, FilesKept
<1>6. HandleInv'
  <2>1. Current(HeaderOf(p)) /\ HeaderOf(p)' = HeaderOf(p)
    BY <1>1, <1>3 DEF HandleInv, HandleOK, HeaderOf
  <2>2. HandleOK(p)'
    BY <1>2, <1>3, <2>1 DEF HandleOK, Current, IsHeader
  <2> QED
    BY <1>1, <1>2, <1>3, <2>2, HandleKept DEF HandleInv, Others
<1>7. NamesInv'
  BY <1>1, <1>2, <1>3, WriterNames DEF Appending
<1> QED
  BY <1>4, <1>5, <1>6, <1>7 DEF Inv

(* A record is written past every record a header counts.                  *)
LEMMA SafeWriteRecord ==
    ASSUME TypeInv, Inv, NEW p \in Procs, WriteRecord(p)
    PROVE  Inv'
<1>1. LockInv /\ FileInv /\ HandleInv /\ NamesInv
  BY DEF Inv
<1>2. UNCHANGED << recsD, slots, slotsD, acked, names, namesD >>
  BY DEF WriteRecord, disk
<1>3. h[p] \in HandleType /\ h \in [Procs -> HandleType] /\ recs \in File
  BY DEF TypeInv, TypeOK
<1>4. h[p].pc = "writing" /\ Current(HeaderOf(p))
  BY <1>1 DEF WriteRecord, HandleInv, HandleOK
<1>5. /\ Others(p) /\ h'[p].pc = "writing" /\ h'[p].done = h[p].done + 1
      /\ h'[p].n = h[p].n /\ h'[p].gen = h[p].gen /\ h'[p].last = h[p].last
      /\ h'[p].batch = h[p].batch
  <2>1. h'[p] = [h[p] EXCEPT !.done = h[p].done + 1] /\ Others(p)
    BY <1>3 DEF WriteRecord, Others
  <2> QED
    BY <1>3, <1>4, <2>1 DEF HandleType
<1>6. /\ h[p].done \in Nat /\ h[p].done < Len(h[p].batch) /\ h[p].batch \in Seq(Record)
      /\ h[p].n \in 0 .. MaxRecs /\ h[p].n + Len(h[p].batch) <= MaxRecs
      /\ Len(h[p].batch) \in Nat
  BY <1>3, <1>4 DEF WriteRecord, HandleType, TypeInv, BatchFits, NewCount, Appending
<1> DEFINE at == h[p].n + h[p].done + 1
<1>7. at \in Pos /\ at > h[p].n
  BY <1>6, MaxRecsAssumption DEF Pos
<1>8. recs'[at] = h[p].batch[h[p].done + 1] /\ \A i \in Pos : i # at => recs'[i] = recs[i]
  BY <1>3, <1>7 DEF WriteRecord, File
<1>9. \A i \in 1 .. h[p].n : recs'[i] = recs[i]
  BY <1>6, <1>7, <1>8, MaxRecsAssumption DEF Pos
<1>10. \A s \in Slot : IsHeader(slots, s) => slots[s].n \in 0 .. h[p].n
  <2>1. \A s \in Slot : IsHeader(slots, s) => slots[s].n \in Nat
    BY HeaderType, MaxRecsAssumption DEF TypeInv, TypeOK, Slots, Header
  <2> QED
    BY <1>1, <1>4, <1>6, <2>1, HandleHeader
<1>11. LockInv'
  BY <1>1, <1>4, <1>5, LockKept DEF Exclusive, Appending
<1>12. FileInv'
  <2>1. RegionOK(slots') /\ RegionOK(slotsD') /\ DirtyInv'
    BY <1>1, <1>2 DEF FileInv, DirtyInv, IsHeader
  <2>2. Backed'
    <3> SUFFICES ASSUME NEW s \in Slot, IsHeader(slots, s), NEW i \in 1 .. slots[s].n
                 PROVE  /\ recs'[i] # Nothing /\ recsD'[i] = recs'[i]
                        /\ NoRot => recs'[i] \in Record
      BY <1>2 DEF Backed, Durable, IsHeader, NoRot
    <3>1. i \in 1 .. h[p].n
      BY <1>6, <1>10
    <3> QED
      BY <1>1, <1>2, <1>9, <3>1 DEF FileInv, Backed, Durable
  <2>3. AckInv'
    <3> SUFFICES ASSUME acked # << >>, NoRot
                 PROVE  \A i \in 1 .. Len(acked) : recs'[i] = acked[i]
      BY <1>1, <1>2 DEF FileInv, AckInv, IsHeader, NoRot
    <3>1. PICK s \in Slot : IsHeader(slots, s) /\ Len(acked) <= slots[s].n
      BY <1>1 DEF FileInv, AckInv
    <3>2. Len(acked) \in Nat /\ Len(acked) <= h[p].n
      <4>1. Len(acked) \in Nat
        BY DEF TypeInv, TypeOK
      <4> QED
        BY <1>6, <1>10, <3>1, <4>1
    <3>3. \A i \in 1 .. Len(acked) : i \in 1 .. h[p].n
      BY <1>6, <3>2
    <3> QED
      BY <1>1, <1>9, <3>3 DEF FileInv, AckInv
  <2> QED
    BY <2>1, <2>2, <2>3 DEF FileInv
<1>13. HandleInv'
  <2>1. HeaderOf(p)' = HeaderOf(p)
    BY <1>5 DEF HeaderOf
  <2>2. ASSUME NEW j \in 1 .. h[p].done + 1
        PROVE  recs'[h[p].n + j] = h[p].batch[j]
    <3>1. CASE j = h[p].done + 1
      <4>1. h[p].n + j = at
        BY <1>6, <3>1
      <4> QED
        BY <1>8, <3>1, <4>1
    <3>2. CASE j # h[p].done + 1
      <4>1. j \in 1 .. h[p].done
        BY <1>6, <3>2
      <4>2. h[p].n + j \in Pos /\ h[p].n + j # at
        <5>1. j \in Nat /\ 1 <= j /\ j <= h[p].done /\ h[p].n \in Nat
          BY <1>6, <4>1, MaxRecsAssumption
        <5>2. h[p].n + j # at
          BY <1>6, <5>1
        <5>3. h[p].n + j <= MaxRecs
          BY <1>6, <5>1, MaxRecsAssumption
        <5> QED
          BY <5>1, <5>2, <5>3, MaxRecsAssumption DEF Pos
      <4>3. recs[h[p].n + j] = h[p].batch[j]
        BY <1>1, <1>4, <4>1 DEF HandleInv, HandleOK
      <4> QED
        BY <1>8, <4>2, <4>3
    <3> QED
      BY <3>1, <3>2
  <2>3. HandleOK(p)'
    BY <1>2, <1>4, <1>5, <1>6, <2>1, <2>2 DEF HandleOK, Current, IsHeader
  <2>4. \A q \in Procs \ {p} : HandleOK(q)'
    BY <1>1, <1>4, <1>5, OthersIdle DEF Exclusive, Appending
  <2> QED
    BY <2>3, <2>4 DEF HandleInv
<1>14. NamesInv'
  BY <1>1, <1>2, <1>4, <1>5, WriterNames DEF Appending
<1> QED
  BY <1>11, <1>12, <1>13, <1>14 DEF Inv

(* The first barrier: the records of the batch are whole and durable, and  *)
(* the region on the disk is the one the processes see.                    *)
LEMMA SafeSyncRecords ==
    ASSUME TypeInv, Inv, NEW p \in Procs, SyncRecords(p)
    PROVE  Inv'
<1>1. LockInv /\ FileInv /\ HandleInv /\ NamesInv
  BY DEF Inv
<1>2. UNCHANGED << recs, slots, acked, names, namesD >> /\ slotsD' = slots /\ recsD' = recs
  BY DEF SyncRecords, RecordsSynced, cache
<1>3. h[p] \in HandleType /\ h \in [Procs -> HandleType] /\ recs \in File
  BY DEF TypeInv, TypeOK
<1>4. h[p].pc = "writing" /\ h[p].done = Len(h[p].batch) /\ HandleOK(p)
  BY <1>1 DEF SyncRecords, HandleInv
<1>5. /\ Others(p) /\ h'[p].pc = "sealing"
      /\ h'[p].n = h[p].n /\ h'[p].gen = h[p].gen /\ h'[p].last = h[p].last
      /\ h'[p].batch = h[p].batch
  <2>1. h'[p] = [h[p] EXCEPT !.pc = "sealing", !.blk = BlockOf(h[p].n + 1)] /\ Others(p)
    BY <1>3 DEF SyncRecords, Others
  <2> QED
    BY <1>3, <2>1 DEF HandleType
<1>6. h[p].batch \in Seq(Record) /\ h[p].n \in 0 .. MaxRecs /\ Len(h[p].batch) \in Nat
  BY <1>3 DEF HandleType
<1>7. Current(HeaderOf(p))
  BY <1>4 DEF HandleOK
<1>8. \A i \in 1 .. NewCount(p) : recs[i] # Nothing /\ (NoRot => recs[i] \in Record)
  <2> SUFFICES ASSUME NEW i \in 1 .. NewCount(p)
               PROVE  recs[i] # Nothing /\ (NoRot => recs[i] \in Record)
    OBVIOUS
  <2>1. CASE i <= h[p].n
    <3>1. i \in 1 .. h[p].n
      BY <1>6, <2>1 DEF NewCount
    <3> QED
      BY <1>1, <1>7, <3>1, HandleHeader DEF Durable
  <2>2. CASE i > h[p].n
    <3>1. i - h[p].n \in 1 .. Len(h[p].batch) /\ h[p].n + (i - h[p].n) = i
      BY <1>6, <2>2, MaxRecsAssumption DEF NewCount
    <3>2. recs[h[p].n + (i - h[p].n)] = h[p].batch[i - h[p].n]
      BY <1>4, <3>1 DEF HandleOK
    <3> QED
      BY <1>6, <3>1, <3>2, CellAssumption
  <2> QED
    BY <1>6, <2>1, <2>2, MaxRecsAssumption DEF NewCount
<1>9. LockInv'
  BY <1>1, <1>4, <1>5, LockKept DEF Exclusive, Appending
<1>10. FileInv'
  BY <1>1, <1>2, SyncedFiles
<1>11. HandleInv'
  <2>1. HeaderOf(p)' = HeaderOf(p) /\ NewCount(p)' = NewCount(p)
    BY <1>5 DEF HeaderOf, NewCount
  <2>2. HandleOK(p)'
    BY <1>2, <1>5, <1>7, <1>8, <2>1 DEF HandleOK, Current, IsHeader, Durable, NoRot
  <2>3. \A q \in Procs \ {p} : HandleOK(q)'
    BY <1>1, <1>4, <1>5, OthersIdle DEF Exclusive, Appending
  <2> QED
    BY <2>2, <2>3 DEF HandleInv
<1>12. NamesInv'
  BY <1>1, <1>2, <1>4, <1>5, WriterNames DEF Appending
<1> QED
  BY <1>9, <1>10, <1>11, <1>12 DEF Inv

(* Sealing touches the sidecar only.                                       *)
LEMMA SafeSealing ==
    ASSUME TypeInv, Inv, NEW p \in Procs, SealBlock(p) \/ SyncSums(p)
    PROVE  Inv'
<1>1. LockInv /\ FileInv /\ HandleInv /\ NamesInv
  BY DEF Inv
<1>2. UNCHANGED << recs, recsD, slots, slotsD, acked, names, namesD >>
  BY DEF SealBlock, SyncSums, cache, disk
<1>3. /\ Others(p) /\ h[p].pc = "sealing" /\ h'[p].pc \in {"sealing", "summed"}
      /\ h'[p].n = h[p].n /\ h'[p].gen = h[p].gen /\ h'[p].last = h[p].last
      /\ h'[p].batch = h[p].batch
  <2>1. CASE SealBlock(p)
    <3>1. h \in [Procs -> HandleType] /\ h[p] \in HandleType
      BY DEF TypeInv, TypeOK
    <3>2. h'[p] = [h[p] EXCEPT !.blk = h[p].blk + 1] /\ Others(p) /\ h[p].pc = "sealing"
      BY <2>1, <3>1 DEF SealBlock, Others
    <3> QED
      BY <3>1, <3>2 DEF HandleType
  <2>2. CASE SyncSums(p)
    BY <2>2, StepEffect DEF SyncSums
  <2> QED
    BY <2>1, <2>2
<1>4. LockInv'
  BY <1>1, <1>3, LockKept DEF Exclusive, Appending
<1>5. FileInv'
  BY <1>1, <1>2, FilesKept
<1>6. HandleInv'
  <2>1. Current(HeaderOf(p)) /\ slotsD = slots /\ Durable(NewCount(p))
    BY <1>1, <1>3 DEF HandleInv, HandleOK
  <2>2. HeaderOf(p)' = HeaderOf(p) /\ NewCount(p)' = NewCount(p)
    BY <1>3 DEF HeaderOf, NewCount
  <2>3. HandleOK(p)'
    BY <1>2, <1>3, <2>1, <2>2 DEF HandleOK, Current, IsHeader, Durable
  <2> QED
    BY <1>1, <1>2, <1>3, <2>3, HandleKept DEF HandleInv, Others
<1>7. NamesInv'
  BY <1>1, <1>2, <1>3, WriterNames DEF Appending
<1> QED
  BY <1>4, <1>5, <1>6, <1>7 DEF Inv

(* The header slot is written where the newest header is not, once all it  *)
(* counts is durable.                                                      *)
LEMMA SafeWriteSlot ==
    ASSUME TypeInv, Inv, NEW p \in Procs, WriteSlot(p)
    PROVE  Inv'
<1>1. LockInv /\ FileInv /\ HandleInv /\ NamesInv
  BY DEF Inv
<1>2. UNCHANGED << recs, recsD, slotsD, acked, names, namesD >>
  BY DEF WriteSlot, disk
<1>3. /\ Others(p) /\ h[p].pc = "summed" /\ h'[p].pc = "slotted"
      /\ h'[p].n = h[p].n /\ h'[p].gen = h[p].gen /\ h'[p].batch = h[p].batch
  BY StepEffect DEF WriteSlot
<1>4. Current(HeaderOf(p)) /\ slotsD = slots /\ Durable(NewCount(p))
  BY <1>1, <1>3 DEF HandleInv, HandleOK
<1>5. Advanced(p) \in Header /\ NewCount(p) \in 0 .. MaxRecs
  BY <1>3, AdvancedType DEF Appending
<1> DEFINE new == (h[p].gen + 1) % 2
           old == h[p].gen % 2
<1>6. /\ h[p].gen \in Nat /\ h[p].n \in 0 .. MaxRecs /\ old \in Slot /\ IsHeader(slots, old)
      /\ slots[old].gen = h[p].gen /\ slots[old].n = h[p].n
      /\ \A s \in Slot : IsHeader(slots, s) => slots[s].gen <= h[p].gen /\ slots[s].n <= h[p].n
  BY <1>1, <1>4, HandleHeader
<1>7. new \in Slot /\ new # old /\ Slot = {old, new}
  BY <1>6, SlotOfType DEF Slot
<1>8. h[p].n <= NewCount(p) /\ Advanced(p).n = NewCount(p) /\ Advanced(p).gen = h[p].gen + 1
  <2>1. Len(h[p].batch) \in Nat
    BY DEF TypeInv, TypeOK, HandleType
  <2> QED
    BY <1>6, <2>1, MaxRecsAssumption DEF NewCount, Advanced
<1> HIDE DEF new, old
<1>9. slots'[new] = Advanced(p) /\ slots'[old] = slots[old]
  BY <1>6, <1>7 DEF WriteSlot, SlotOf, TypeInv, TypeOK, new
<1>10. IsHeader(slots', new) /\ IsHeader(slots', old)
  BY <1>5, <1>6, <1>9, BlankAssumption DEF IsHeader
<1>11. LockInv'
  BY <1>1, <1>3, LockKept DEF Exclusive, Appending
<1>12. RegionOK(slots')
  <2>1. slots'[new].gen % 2 = new /\ slots'[old].gen % 2 = old
    BY <1>6, <1>8, <1>9 DEF new, old
  <2>2. slots[old].n <= Advanced(p).n /\ slots[old].gen < Advanced(p).gen
    BY <1>6, <1>8
  <2>3. slots[old].n \in Nat /\ Advanced(p).n \in Nat /\ slots[old].gen \in Nat /\ Advanced(p).gen \in Nat
    BY <1>5, <1>6, MaxRecsAssumption DEF Header
  <2> QED
    BY <1>7, <1>9, <2>1, <2>2, <2>3 DEF RegionOK
<1>13. Backed'
  <2>1. Durable(slots[old].n) /\ Durable(Advanced(p).n)
    BY <1>1, <1>4, <1>6, <1>8 DEF FileInv, Backed
  <2> QED
    BY <1>2, <1>7, <1>9, <2>1 DEF Backed, Durable
<1>14. DirtyInv'
  <2>1. \A s \in Slot : slots'[s] = Blank => slotsD'[s] = Blank
    BY <1>2, <1>4, <1>7, <1>9, <1>10 DEF IsHeader
  <2>2. IsHeader(slotsD', old) => slotsD'[old].n <= slots'[old].n
    BY <1>2, <1>4, <1>6, <1>9, MaxRecsAssumption
  <2>3. IsHeader(slotsD', new) => slotsD'[new].n <= slots'[new].n
    <3> SUFFICES ASSUME IsHeader(slots, new) PROVE slots[new].n <= NewCount(p)
      BY <1>2, <1>4, <1>8, <1>9 DEF IsHeader
    <3>1. slots[new] \in Header
      BY <1>7, HeaderType DEF TypeInv, TypeOK, Slots
    <3>2. slots[new].n <= h[p].n /\ slots[new].n \in Nat
      BY <1>6, <1>7, <3>1, MaxRecsAssumption DEF Header
    <3> QED
      BY <1>5, <1>6, <1>8, <3>2, MaxRecsAssumption
  <2> QED
    BY <1>2, <1>4, <1>7, <1>9, <1>10, <2>1, <2>2, <2>3 DEF DirtyInv
<1>15. AckInv'
  <2> SUFFICES ASSUME acked # << >>
               PROVE  /\ Len(acked) <= slots[old].n
                      /\ NoRot => \A i \in 1 .. Len(acked) : recs[i] = acked[i]
    BY <1>2, <1>4, <1>7, <1>9, <1>10 DEF AckInv, NoRot
  <2>1. PICK s \in Slot : IsHeader(slots, s) /\ Len(acked) <= slots[s].n
    BY <1>1 DEF FileInv, AckInv
  <2>2. Len(acked) \in Nat /\ slots[s].n \in Nat /\ slots[s].n <= h[p].n
    BY <1>6, <2>1, HeaderType, MaxRecsAssumption DEF TypeInv, TypeOK, Slots, Header
  <2>3. Len(acked) <= slots[old].n
    BY <1>6, <2>1, <2>2, MaxRecsAssumption
  <2> QED
    BY <1>1, <2>3 DEF FileInv, AckInv
<1>16. FileInv'
  BY <1>1, <1>2, <1>12, <1>13, <1>14, <1>15 DEF FileInv
<1>17. HandleInv'
  <2>1. Advanced(p)' = Advanced(p)
    BY <1>3 DEF Advanced, NewCount
  <2>2. \A s \in Slot : slots'[s].gen <= Advanced(p).gen
    BY <1>5, <1>6, <1>7, <1>8, <1>9 DEF Header
  <2>3. slots'[Advanced(p).gen % 2] = Advanced(p)
    BY <1>8, <1>9 DEF new
  <2>4. HandleOK(p)'
    BY <1>3, <2>1, <2>2, <2>3 DEF HandleOK, Current
  <2>5. \A q \in Procs \ {p} : HandleOK(q)'
    BY <1>1, <1>3, OthersIdle DEF Exclusive, Appending
  <2> QED
    BY <2>4, <2>5 DEF HandleInv
<1>18. NamesInv'
  BY <1>1, <1>2, <1>3, WriterNames DEF Appending
<1> QED
  BY <1>11, <1>16, <1>17, <1>18 DEF Inv

(* The second barrier: what is now reported committed is counted by a      *)
(* header that is clean.                                                   *)
LEMMA SafeSyncSlot ==
    ASSUME TypeInv, Inv, NEW p \in Procs, SyncSlot(p)
    PROVE  Inv'
<1>1. LockInv /\ FileInv /\ HandleInv /\ NamesInv
  BY DEF Inv
<1>2. UNCHANGED << recs, slots, names, namesD >> /\ slotsD' = slots /\ recsD' = recs
  BY DEF SyncSlot, cache
<1>3. h[p].pc = "slotted" /\ Current(Advanced(p))
  BY <1>1 DEF SyncSlot, HandleInv, HandleOK
<1>4. Advanced(p) \in Header /\ NewCount(p) \in 0 .. MaxRecs
  BY <1>3, AdvancedType DEF Appending
<1>5. PICK hd \in Header : hd = Advanced(p) /\ OpenAt(p, "open", hd)
  BY <1>4 DEF SyncSlot
<1>6. /\ Others(p) /\ h'[p].pc = "open"
      /\ h'[p].n = hd.n /\ h'[p].gen = hd.gen /\ h'[p].last = hd.last
  BY <1>5, OpenAtEffect
<1>7. LockInv'
  BY <1>1, <1>3, <1>6, LockKept DEF Exclusive, Appending
<1>8. FileInv'
  <2>1. RegionOK(slotsD') /\ RegionOK(slots') /\ Backed'
    BY <1>1, <1>2 DEF FileInv, Backed, Durable, IsHeader
  <2>2. DirtyInv'
    <3>1. \A s \in Slot : IsHeader(slots, s) => slots[s].n <= slots[s].n
      BY HeaderType, MaxRecsAssumption DEF TypeInv, TypeOK, Slots, Header
    <3> QED
      BY <1>2, <3>1 DEF DirtyInv, IsHeader, Slot
  <2>3. AckInv'
    <3>1. acked' \in Seq(Cell) /\ Len(acked') = NewCount(p)
      <4>1. \A i \in 1 .. NewCount(p) : (IF i <= Len(acked) THEN acked[i] ELSE recs[i]) \in Cell
        BY <1>4, MaxRecsAssumption DEF TypeInv, TypeOK, File, Pos
      <4> QED
        BY <1>4, <4>1, MaxRecsAssumption DEF SyncSlot
    <3>2. NoRot => \A i \in 1 .. NewCount(p) : recs[i] = acked'[i]
      <4> SUFFICES ASSUME NoRot, NEW i \in 1 .. NewCount(p) PROVE recs[i] = acked'[i]
        OBVIOUS
      <4>1. acked'[i] = IF i <= Len(acked) THEN acked[i] ELSE recs[i]
        BY DEF SyncSlot
      <4>2. CASE i <= Len(acked)
        <5>1. Len(acked) \in Nat /\ i \in Nat /\ i >= 1
          BY <1>4, MaxRecsAssumption DEF TypeInv, TypeOK
        <5>2. i \in 1 .. Len(acked) /\ acked # << >>
          BY <4>2, <5>1
        <5> QED
          BY <1>1, <4>1, <4>2, <5>2 DEF FileInv, AckInv
      <4>3. CASE ~(i <= Len(acked))
        BY <4>1, <4>3
      <4> QED
        BY <4>2, <4>3
    <3>3. PICK s \in Slot : slots[s] = hd /\ IsHeader(slots, s)
      <4>1. hd.gen % 2 \in Slot
        BY <1>5, SlotOfType DEF Header
      <4> QED
        BY <1>3, <1>5, <4>1, BlankAssumption DEF Current, IsHeader
    <3>4. slots[s].n = NewCount(p)
      BY <1>5, <3>3 DEF Advanced
    <3>5. slots'[s] = slotsD'[s] /\ IsHeader(slots', s) /\ Len(acked') <= slots'[s].n
      BY <1>2, <1>4, <3>1, <3>3, <3>4, MaxRecsAssumption
    <3> QED
      BY <1>2, <3>1, <3>2, <3>5 DEF AckInv
  <2> QED
    BY <2>1, <2>2, <2>3 DEF FileInv
<1>9. HandleInv'
  <2>1. HeaderOf(p)' = hd
    BY <1>5, <1>6 DEF HeaderOf, Header
  <2>2. HandleOK(p)'
    BY <1>2, <1>3, <1>5, <1>6, <2>1 DEF HandleOK, Current, IsHeader
  <2>3. \A q \in Procs \ {p} : HandleOK(q)'
    BY <1>1, <1>3, <1>6, OthersIdle DEF Exclusive, Appending
  <2> QED
    BY <2>2, <2>3 DEF HandleInv
<1>10. NamesInv'
  BY <1>1, <1>2, <1>3, <1>6, WriterNames DEF Appending
<1> QED
  BY <1>7, <1>8, <1>9, <1>10 DEF Inv

-----------------------------------------------------------------------------
(* The environment.                                                        *)

(* Writeback by the kernel, of any piece at any time, keeps the invariant. *)
LEMMA SafeWriteback ==
    ASSUME TypeInv, Inv, Writeback
    PROVE  Inv'
<1>1. LockInv /\ FileInv /\ HandleInv /\ NamesInv
  BY DEF Inv
<1>2. UNCHANGED << recs, slots, names, h, acked >>
  BY DEF Writeback, cache
<1>3. recs \in File /\ recsD \in File /\ slots \in Slots /\ slotsD \in Slots
  BY DEF TypeInv, TypeOK, Slots
<1>4. \A i \in Pos : recsD'[i] = recs[i] \/ recsD'[i] = recsD[i]
  BY <1>3 DEF Writeback, File
<1>5. slotsD' = slotsD \/ \E s \in Slot : slotsD' = [slotsD EXCEPT ![s] = slots[s]]
  BY DEF Writeback
<1>6. slotsD' = slotsD \/ slotsD' = slots
  <2> SUFFICES ASSUME NEW s \in Slot, slotsD' = [slotsD EXCEPT ![s] = slots[s]]
               PROVE  slotsD' = slotsD \/ slotsD' = slots
    BY <1>5
  <2>1. PICK t \in Slot : slots[t] = slotsD[t]
    BY <1>1 DEF FileInv, DirtyInv
  <2>2. CASE s = t
    BY <1>3, <2>1, <2>2 DEF Slots
  <2>3. CASE s # t
    <3>1. \A u \in Slot : slotsD'[u] = slots[u]
      BY <1>3, <2>1, <2>3 DEF Slots, Slot
    <3> QED
      BY <1>3, <3>1 DEF Slots
  <2> QED
    BY <2>2, <2>3
<1>7. ASSUME NEW n \in 0 .. MaxRecs, Durable(n) PROVE Durable(n)'
  BY <1>2, <1>4, <1>7, MaxRecsAssumption DEF Durable, Pos
<1>8. LockInv'
  BY <1>1, <1>2 DEF LockInv
<1>9. \A s \in Slot : IsHeader(slots, s) => slots[s].n \in 0 .. MaxRecs /\ slots[s].n <= slots[s].n
  BY <1>3, HeaderType, MaxRecsAssumption DEF Header
<1>10. FileInv'
  <2>1. RegionOK(slots') /\ RegionOK(slotsD')
    BY <1>1, <1>2, <1>6 DEF FileInv
  <2>2. Backed'
    BY <1>1, <1>2, <1>7, <1>9 DEF FileInv, Backed, Durable, IsHeader
  <2>3. DirtyInv'
    BY <1>1, <1>2, <1>6, <1>9 DEF FileInv, DirtyInv, IsHeader, Slot
  <2>4. AckInv'
    BY <1>1, <1>2, <1>6 DEF FileInv, AckInv, IsHeader
  <2> QED
    BY <2>1, <2>2, <2>3, <2>4 DEF FileInv
<1>11. HandleInv'
  <2> SUFFICES ASSUME NEW q \in Procs PROVE HandleOK(q)'
    BY DEF HandleInv
  <2>1. HandleOK(q)
    BY <1>1 DEF HandleInv
  <2>2. /\ AllZero(slots, recs)' <=> AllZero(slots, recs)
        /\ Current(HeaderOf(q))' <=> Current(HeaderOf(q))
        /\ Current(Advanced(q))' <=> Current(Advanced(q))
    BY <1>2 DEF AllZero, Held, Current, HeaderOf, Advanced, NewCount, IsHeader
  <2>3. h[q].pc \in {"sealing", "summed"} => slotsD' = slots' /\ Durable(NewCount(q))'
    <3> SUFFICES ASSUME h[q].pc \in {"sealing", "summed"}
                 PROVE  slotsD' = slots' /\ Durable(NewCount(q))'
      OBVIOUS
    <3>1. slotsD = slots /\ Durable(NewCount(q))
      BY <2>1 DEF HandleOK
    <3>2. PICK n \in 0 .. MaxRecs : n = NewCount(q)
      BY AdvancedType DEF Appending
    <3>3. NewCount(q)' = NewCount(q)
      BY <1>2 DEF NewCount
    <3> QED
      BY <1>2, <1>6, <1>7, <3>1, <3>2, <3>3 DEF Durable
  <2> QED
    BY <1>2, <2>1, <2>2, <2>3 DEF HandleOK
<1>12. NamesInv'
  <2>1. namesD' = namesD \/ \E x \in names : namesD' = namesD \cup {x}
    BY DEF Writeback
  <2>2. namesD \subseteq namesD' /\ namesD' \subseteq names
    BY <1>1, <2>1 DEF NamesInv
  <2> QED
    BY <1>1, <1>2, <2>2 DEF NamesInv, IsHeader
<1> QED
  BY <1>8, <1>10, <1>11, <1>12 DEF Inv

(* Power loss leaves the disk's content, and what was clean is not torn.   *)
LEMMA SafePowerLoss ==
    ASSUME TypeInv, Inv, PowerLoss
    PROVE  Inv'
<1>1. LockInv /\ FileInv /\ HandleInv /\ NamesInv
  BY DEF Inv
<1>2. /\ h' = [q \in Procs |-> Closed] /\ acked' = acked
      /\ recs' = recsD' /\ slots' = slotsD' /\ names' = namesD'
      /\ namesD' = {x \in namesD : Survives(x)}
  BY DEF PowerLoss
<1>3. recs \in File /\ recsD \in File /\ slots \in Slots /\ slotsD \in Slots
  BY DEF TypeInv, TypeOK, Slots
<1>4. Survives("bars") =>
          /\ \A i \in Pos : recsD[i] = recs[i] => recsD'[i] = recsD[i]
          /\ \A s \in Slot : slotsD'[s] = slotsD[s] \/ slotsD'[s] = Torn
          /\ \A s \in Slot : slots[s] = slotsD[s] => slotsD'[s] = slotsD[s]
  BY DEF PowerLoss
<1>5. ~Survives("bars") => slotsD' = BlankSlots
  BY DEF PowerLoss
<1>6. \A s \in Slot : IsHeader(slotsD', s) =>
          /\ Survives("bars") /\ IsHeader(slotsD, s) /\ slotsD'[s] = slotsD[s]
          /\ IsHeader(slots, s) /\ slotsD[s].n <= slots[s].n
          /\ slotsD[s].n \in 0 .. MaxRecs /\ slots[s].n \in 0 .. MaxRecs
  <2> SUFFICES ASSUME NEW s \in Slot, IsHeader(slotsD', s)
               PROVE  /\ Survives("bars") /\ IsHeader(slotsD, s) /\ slotsD'[s] = slotsD[s]
                      /\ IsHeader(slots, s) /\ slotsD[s].n <= slots[s].n
                      /\ slotsD[s].n \in 0 .. MaxRecs /\ slots[s].n \in 0 .. MaxRecs
    OBVIOUS
  <2>1. Survives("bars")
    BY <1>5 DEF IsHeader, BlankSlots
  <2>2. IsHeader(slotsD, s) /\ slotsD'[s] = slotsD[s]
    BY <1>4, <2>1 DEF IsHeader
  <2>3. IsHeader(slots, s) /\ slotsD[s].n <= slots[s].n
    BY <1>1, <2>2 DEF FileInv, DirtyInv
  <2>4. slotsD[s] \in Header /\ slots[s] \in Header
    BY <1>3, <2>2, <2>3, HeaderType
  <2> QED
    BY <2>1, <2>2, <2>3, <2>4 DEF Header
<1>7. LockInv'
  BY <1>2 DEF LockInv, Closed, Exclusive, Opening, Appending
<1>8. HandleInv'
  BY <1>2 DEF HandleInv, HandleOK, Closed
<1>9. RegionOK(slotsD')
  BY <1>1, <1>6 DEF FileInv, RegionOK
<1>10. Backed'
  <2> SUFFICES ASSUME NEW s \in Slot, IsHeader(slotsD', s), NEW i \in 1 .. slotsD'[s].n
               PROVE  /\ recs'[i] # Nothing /\ recsD'[i] = recs'[i]
                      /\ NoRot => recs'[i] \in Record
    BY <1>2 DEF Backed, Durable, IsHeader, NoRot
  <2>1. i \in 1 .. slots[s].n /\ i \in Pos /\ IsHeader(slots, s) /\ Survives("bars")
    BY <1>6, MaxRecsAssumption DEF Pos
  <2>2. recs[i] # Nothing /\ recsD[i] = recs[i] /\ (NoRot => recs[i] \in Record)
    BY <1>1, <2>1 DEF FileInv, Backed, Durable
  <2> QED
    BY <1>2, <1>4, <2>1, <2>2
<1>11. DirtyInv'
  <2>1. \A s \in Slot : IsHeader(slotsD', s) => slotsD'[s].n <= slotsD'[s].n
    BY <1>6, MaxRecsAssumption
  <2> QED
    BY <1>2, <2>1 DEF DirtyInv, IsHeader, Slot
<1>12. (\E s \in Slot : IsHeader(slots, s) /\ slots[s].n > 0) =>
          /\ Names \subseteq namesD
          /\ Survives("dir") /\ Survives("lock") /\ Survives("bars") /\ Survives("crc")
  BY <1>1 DEF NamesInv, Survives, Names
<1>13. AckInv'
  <2> SUFFICES ASSUME acked # << >>
               PROVE  /\ \E s \in Slot : IsHeader(slotsD', s) /\ Len(acked) <= slotsD'[s].n
                      /\ NoRot => \A i \in 1 .. Len(acked) : recsD'[i] = acked[i]
    BY <1>2 DEF AckInv, IsHeader, NoRot
  <2>1. PICK s \in Slot : /\ slots[s] = slotsD[s] /\ IsHeader(slots, s)
                          /\ Len(acked) <= slots[s].n
    BY <1>1 DEF FileInv, AckInv
  <2>2. Len(acked) \in Nat /\ Len(acked) > 0 /\ slots[s].n \in 0 .. MaxRecs
    BY <1>3, <2>1, HeaderType DEF TypeInv, TypeOK, Header
  <2>3. Survives("bars")
    BY <1>12, <2>1, <2>2, MaxRecsAssumption
  <2>4. slotsD'[s] = slots[s]
    BY <1>4, <2>1, <2>3
  <2>5. \A i \in 1 .. Len(acked) : i \in Pos /\ i \in 1 .. slots[s].n
    BY <2>1, <2>2, MaxRecsAssumption DEF Pos
  <2>6. NoRot => \A i \in 1 .. Len(acked) : recsD'[i] = acked[i]
    BY <1>1, <1>4, <2>1, <2>3, <2>5 DEF FileInv, Backed, Durable, AckInv
  <2> QED
    BY <2>1, <2>4, <2>6 DEF IsHeader
<1>14. FileInv'
  BY <1>2, <1>9, <1>10, <1>11, <1>13 DEF FileInv
<1>15. NamesInv'
  <2>1. "dir" \in namesD'
    BY <1>1, <1>2 DEF NamesInv, Survives
  <2>2. \A s \in Slot : IsHeader(slotsD', s) /\ slotsD'[s].n > 0 => Names \subseteq namesD'
    <3> SUFFICES ASSUME NEW s \in Slot, IsHeader(slotsD', s), slotsD'[s].n > 0
                 PROVE  Names \subseteq namesD'
      OBVIOUS
    <3>1. IsHeader(slots, s) /\ slots[s].n > 0
      BY <1>6, MaxRecsAssumption
    <3> QED
      BY <1>2, <1>12, <3>1 DEF Names
  <2>3. \A q \in Procs : h'[q].pc = "closed"
    BY <1>2 DEF Closed
  <2> QED
    BY <1>2, <2>1, <2>2, <2>3 DEF NamesInv, IsHeader, Exclusive, Opening, Appending
<1> QED
  BY <1>7, <1>8, <1>14, <1>15 DEF Inv

-----------------------------------------------------------------------------
(* The theorems.                                                           *)

(* Rot leaves a Torn record where one was committed, and no header or name *)
(* is touched.                                                             *)
LEMMA SafeRot ==
    ASSUME TypeInv, Inv, NEW i \in Pos, Rot(i)
    PROVE  Inv'
<1>1. LockInv /\ FileInv /\ HandleInv /\ NamesInv
  BY DEF Inv
<1>2. /\ UNCHANGED << slots, slotsD, names, namesD, h, acked >>
      /\ recs' = [recs EXCEPT ![i] = Torn] /\ recsD' = [recsD EXCEPT ![i] = Torn]
      /\ ~NoRot /\ acked # << >> /\ \A p \in Procs : h[p].pc \notin Appending
  <2>1. acked # << >>
    <3>1. i <= Len(acked) /\ i \in Nat /\ i >= 1 /\ acked \in Seq(Cell)
      BY MaxRecsAssumption DEF Rot, Pos, TypeInv, TypeOK
    <3> QED
      BY <3>1
  <2> QED
    BY <2>1 DEF Rot, NoRot
<1>3. \A n : Durable(n) => Durable(n)'
  <2>1. recs \in File /\ recsD \in File
    BY DEF TypeInv, TypeOK
  <2>2. /\ recs'[i] = Torn /\ recsD'[i] = Torn
        /\ \A j : j # i => recs'[j] = recs[j] /\ recsD'[j] = recsD[j]
    BY <1>2, <2>1 DEF File
  <2> QED
    BY <1>2, <2>2, CellAssumption DEF Durable
<1>4. Backed'
  BY <1>1, <1>2, <1>3 DEF FileInv, Backed, IsHeader, Durable
<1>5. FileInv'
  BY <1>1, <1>2, <1>4 DEF FileInv, DirtyInv, AckInv, IsHeader, NoRot
<1>6. HandleInv'
  <2> SUFFICES ASSUME NEW q \in Procs PROVE HandleOK(q)'
    BY DEF HandleInv
  <2>1. slots # BlankSlots
    BY <1>1, <1>2 DEF FileInv, AckInv, IsHeader, BlankSlots
  <2>2. HandleOK(q) /\ h[q].pc \notin Appending
    BY <1>1, <1>2 DEF HandleInv
  <2>3. h[q].pc # "empty"
    BY <2>1, <2>2 DEF HandleOK, AllZero
  <2> QED
    BY <1>2, <2>2, <2>3 DEF HandleOK, Current, HeaderOf, IsHeader, Appending
<1> QED
  BY <1>1, <1>2, <1>5, <1>6 DEF Inv, LockInv, NamesInv, IsHeader

(* A month nobody has opened satisfies the invariant.                      *)
LEMMA SafeInit ==
    ASSUME KnownTree, Init
    PROVE  Inv
<1>1. LockInv /\ HandleInv
  BY DEF Init, LockInv, HandleInv, HandleOK, Closed, Exclusive, Opening, Appending
<1>2. FileInv
  BY DEF Init, FileInv, RegionOK, IsHeader, Backed, DirtyInv, AckInv, BlankSlots, Slot
<1>3. NamesInv
  BY DEF Init, KnownTree, NamesInv, ExistingTree, IsHeader, BlankSlots, Closed, Exclusive,
     Opening, Appending
<1> QED
  BY <1>1, <1>2, <1>3 DEF Inv

(* Every step keeps the invariant.                                         *)
LEMMA SafeNext ==
    ASSUME TypeInv, TypeInv', Inv, [Next]_vars
    PROVE  Inv'
<1>1. ASSUME NEW p \in Procs, TakeLock(p) \/ OpenStep(p) PROVE Inv'
  BY <1>1, SafeOpening
<1>2. ASSUME NEW p \in Procs, OpenExisting(p) \/ \E i \in Pos : ReadRow(p, i) PROVE Inv'
  BY <1>2, SafeReading
<1>3. ASSUME NEW p \in Procs, NEW batch \in Offered, StartAppend(p, batch) PROVE Inv'
  BY <1>3, SafeStartAppend
<1>4. ASSUME NEW p \in Procs, AppendStep(p) PROVE Inv'
  BY <1>4, SafeWriteRecord, SafeSyncRecords, SafeSealing, SafeWriteSlot, SafeSyncSlot
  DEF AppendStep
<1>5. ASSUME NEW p \in Procs, Drop(p) \/ Die(p) PROVE Inv'
  BY <1>5, SafeClosing
<1>6. CASE Writeback
  BY <1>6, SafeWriteback
<1>7. CASE PowerLoss
  BY <1>7, SafePowerLoss
<1>8. ASSUME NEW i \in Pos, Rot(i) PROVE Inv'
  BY <1>8, SafeRot
<1>9. CASE UNCHANGED vars
  <2>1. FileInv'
    BY <1>9, FilesKept DEF Inv, vars
  <2>2. HandleInv'
    BY <1>9, HandleKept DEF Inv, HandleInv, vars
  <2>3. LockInv' /\ NamesInv'
    BY <1>9 DEF Inv, LockInv, NamesInv, IsHeader, vars
  <2> QED
    BY <2>1, <2>2, <2>3 DEF Inv
<1> QED
  BY <1>1, <1>2, <1>3, <1>4, <1>5, <1>6, <1>7, <1>8, <1>9 DEF Next

(* An honest disk's tree is known, and nothing on it rots.                 *)
LEMMA HonestTree == HonestDisk => KnownTree /\ NoRot
  BY DEF HonestDisk, KnownTree, NoRot

(* The inductive invariant holds in every behaviour in a known tree.       *)
LEMMA Invariance == KnownTree => (Spec => [](TypeInv /\ Inv))
<1> SUFFICES ASSUME KnownTree PROVE Spec => [](TypeInv /\ Inv)
  OBVIOUS
<1>1. Init => TypeInv /\ Inv
  BY TypeInit, SafeInit
<1>2. TypeInv /\ Inv /\ [Next]_vars => TypeInv' /\ Inv'
  BY TypeNext, SafeNext
<1> QED
  BY <1>1, <1>2, PTL DEF Spec

(* On an honest disk the records `append` reported committed survive any   *)
(* power loss, whatever other writers, deaths and torn slots come between. *)
THEOREM AckedRecordsSurvive == HonestDisk => (Spec => []AckedSurvive)
<1> SUFFICES ASSUME HonestDisk PROVE Spec => []AckedSurvive
  OBVIOUS
<1>0. KnownTree /\ NoRot
  BY HonestTree
<1>1. ASSUME TypeInv, Inv PROVE AckedSurvive
  <2> SUFFICES ASSUME acked # << >>
               PROVE  /\ {"dir", "bars", "crc"} \subseteq namesD
                      /\ Opens(slotsD, recsD)
                      /\ IsPrefixOf(acked, Month(slotsD, recsD))
    BY DEF AckedSurvive
  <2>1. FileInv /\ NamesInv
    BY <1>1 DEF Inv
  <2>2. PICK s \in Slot : /\ slots[s] = slotsD[s] /\ IsHeader(slots, s)
                          /\ Len(acked) <= slots[s].n
    BY <2>1 DEF FileInv, AckInv
  <2>3. Len(acked) \in Nat /\ Len(acked) > 0 /\ slots[s].n \in 0 .. MaxRecs
    BY <1>1, <2>2, HeaderType DEF TypeInv, TypeOK, Slots, Header
  <2>4. {"dir", "bars", "crc"} \subseteq namesD
    BY <2>1, <2>2, <2>3, MaxRecsAssumption DEF NamesInv, Names
  <2>5. /\ Opens(slotsD, recsD) /\ Chosen(slotsD, recsD) \in Header
        /\ slotsD[s].n <= Chosen(slotsD, recsD).n
    BY <1>1, <2>1, <2>2, DiskOpens DEF IsHeader
  <2>6. /\ Count(slotsD, recsD) \in Nat /\ Len(acked) <= Count(slotsD, recsD)
        /\ Len(Month(slotsD, recsD)) = Count(slotsD, recsD)
        /\ \A i \in 1 .. Count(slotsD, recsD) : Month(slotsD, recsD)[i] = recsD[i]
    <3>1. Count(slotsD, recsD) = Chosen(slotsD, recsD).n
      BY <2>5 DEF Count
    <3>2. Count(slotsD, recsD) \in Nat /\ Len(acked) <= Count(slotsD, recsD)
      BY <2>2, <2>3, <2>5, <3>1, MaxRecsAssumption DEF Header
    <3> HIDE DEF Count
    <3> QED
      BY <3>2 DEF Month
  <2>7. \A i \in 1 .. Len(acked) : recsD[i] = acked[i]
    <3>1. \A i \in 1 .. Len(acked) : i \in 1 .. slots[s].n
      BY <2>2, <2>3, MaxRecsAssumption
    <3> QED
      BY <1>0, <2>1, <2>2, <3>1 DEF FileInv, Backed, Durable, AckInv
  <2>8. \A i \in 1 .. Len(acked) : i \in 1 .. Count(slotsD, recsD)
    BY <2>3, <2>6
  <2> QED
    BY <2>4, <2>5, <2>6, <2>7, <2>8 DEF IsPrefixOf
<1> QED
  BY <1>0, <1>1, Invariance, PTL

(* In a month directory that exists, whatever rots in it, an open handle   *)
(* knows the header of the file: there is never a second writer, nor a     *)
(* reader beside a writer with bars to serve.                              *)
THEOREM HandlesAreCurrent == KnownTree => (Spec => []HandleIsCurrent)
<1> SUFFICES ASSUME KnownTree PROVE Spec => []HandleIsCurrent
  OBVIOUS
<1>1. ASSUME TypeInv, Inv PROVE HandleIsCurrent
  <2>1. FileInv /\ HandleInv
    BY <1>1 DEF Inv
  <2>2. ASSUME NEW p \in Procs,
               h[p].pc \in {"open", "reading", "writing", "sealing", "summed"}
        PROVE  Opens(slots, recs) /\ Chosen(slots, recs) = HeaderOf(p)
    <3>1. Current(HeaderOf(p))
      BY <2>1, <2>2 DEF HandleInv, HandleOK
    <3>2. /\ h[p].gen \in Nat /\ h[p].gen % 2 \in Slot /\ IsHeader(slots, h[p].gen % 2)
          /\ slots[h[p].gen % 2].gen = h[p].gen /\ slots[h[p].gen % 2] = HeaderOf(p)
      BY <1>1, <2>1, <3>1, HandleHeader DEF Current, HeaderOf
    <3>3. /\ Opens(slots, recs) /\ Chosen(slots, recs) \in Header
          /\ Current(Chosen(slots, recs))
      BY <1>1, <2>1, <3>2, CacheOpens
    <3>4. Chosen(slots, recs).gen \in Nat
      BY <3>3 DEF Header
    <3>5. /\ Chosen(slots, recs).gen % 2 \in Slot
          /\ slots[Chosen(slots, recs).gen % 2] = Chosen(slots, recs)
          /\ IsHeader(slots, Chosen(slots, recs).gen % 2)
      BY <3>3, <3>4, SlotOfType, BlankAssumption DEF Current, IsHeader
    <3>6. Chosen(slots, recs).gen <= h[p].gen /\ h[p].gen <= Chosen(slots, recs).gen
      BY <3>1, <3>2, <3>3, <3>5 DEF Current, HeaderOf
    <3>7. Chosen(slots, recs).gen = h[p].gen
      BY <3>2, <3>4, <3>6
    <3> QED
      BY <3>2, <3>3, <3>5, <3>7
  <2>3. \A p \in Procs : h[p].pc = "peeking" => h[p].n = 0
    BY <2>1 DEF HandleInv, HandleOK
  <2> QED
    BY <2>2, <2>3 DEF HandleIsCurrent, HeaderOf
<1> QED
  BY <1>1, Invariance, PTL

(* In a month directory that exists, whatever rots in it, an honest crash  *)
(* is never refused: a month with a header that decodes opens, and the     *)
(* sidecar its records need is there.                                      *)
THEOREM CrashesAreNotRefused == KnownTree => (Spec => []HonestCrashIsNotRefused)
<1> SUFFICES ASSUME KnownTree PROVE Spec => []HonestCrashIsNotRefused
  OBVIOUS
<1>1. ASSUME TypeInv, Inv PROVE HonestCrashIsNotRefused
  <2> SUFFICES ASSUME NEW s \in Slot, IsHeader(slots, s)
               PROVE  Opens(slots, recs) /\ (Chosen(slots, recs).n > 0 => "crc" \in names)
    BY DEF HonestCrashIsNotRefused, Decodable, IsHeader
  <2>1. FileInv /\ NamesInv
    BY <1>1 DEF Inv
  <2>2. Opens(slots, recs) /\ Chosen(slots, recs) \in Header /\ Current(Chosen(slots, recs))
    BY <1>1, <2>1, CacheOpens
  <2>3. Chosen(slots, recs).gen \in Nat
    BY <2>2 DEF Header
  <2>4. /\ Chosen(slots, recs).gen % 2 \in Slot
        /\ slots[Chosen(slots, recs).gen % 2] = Chosen(slots, recs)
        /\ IsHeader(slots, Chosen(slots, recs).gen % 2)
    BY <2>2, <2>3, SlotOfType, BlankAssumption DEF Current, IsHeader
  <2> QED
    BY <2>1, <2>2, <2>4 DEF NamesInv, Names
<1> QED
  BY <1>1, Invariance, PTL

-----------------------------------------------------------------------------
(* MonthFile implements MonthLog on an honest disk.  To the invariant      *)
(* above this part adds what the headers tell of the records they count    *)
(* (RowsInv); then every step publishes, acknowledges, loses, or leaves    *)
(* the month and what was reported committed as they were.                 *)

-----------------------------------------------------------------------------
(* The month a header region tells of.                                     *)

(* The newest header of a region lies in slot s.                           *)
Leads(sl, s) ==
    IsHeader(sl, s) /\ \A t \in Slot : IsHeader(sl, t) => sl[t].gen <= sl[s].gen

(* The records the headers of a region count are whole.                    *)
Whole(sl, f) ==
    \A s \in Slot : IsHeader(sl, s) => \A i \in 1 .. sl[s].n : f[i] \in Record

(* A region with a header has a newest one.                                *)
LEMMA SomeLeads ==
    ASSUME NEW sl \in Slots, NEW s \in Slot, IsHeader(sl, s)
    PROVE  \E t \in Slot : Leads(sl, t)
<1>1. \A t \in Slot : IsHeader(sl, t) => sl[t].gen \in Nat
  BY HeaderType DEF Header
<1> QED
  BY <1>1 DEF Leads, Slot

(* The month is the records the newest header counts.                      *)
LEMMA MonthOfLeader ==
    ASSUME NEW sl \in Slots, NEW f \in File, RegionOK(sl), Whole(sl, f),
           NEW s \in Slot, Leads(sl, s)
    PROVE  /\ sl[s].n \in 0 .. MaxRecs
           /\ Month(sl, f) = [i \in 1 .. sl[s].n |-> f[i]]
<1>1. sl[s] \in Header /\ sl[s].gen % 2 = s
  BY HeaderType DEF Leads, RegionOK
<1>2. /\ Opens(sl, f) /\ Chosen(sl, f) \in Header
      /\ sl[Chosen(sl, f).gen % 2] = Chosen(sl, f)
      /\ sl[s].gen <= Chosen(sl, f).gen
  BY RegionOpens, CellAssumption DEF Leads, Whole
<1>3. Chosen(sl, f).gen \in Nat /\ sl[s].gen \in Nat
  BY <1>1, <1>2 DEF Header
<1>4. Chosen(sl, f).gen % 2 \in Slot /\ IsHeader(sl, Chosen(sl, f).gen % 2)
  BY <1>2, <1>3, SlotOfType, BlankAssumption DEF IsHeader
<1>5. Chosen(sl, f).gen <= sl[s].gen
  BY <1>2, <1>4 DEF Leads
<1>6. Chosen(sl, f) = sl[s]
  BY <1>1, <1>2, <1>3, <1>5
<1>7. Count(sl, f) = sl[s].n
  BY <1>2, <1>6 DEF Count
<1> QED
  BY <1>1, <1>7 DEF Month, Header

(* A region without a header has no bar.                                   *)
LEMMA MonthOfNone ==
    ASSUME NEW sl, NEW f, \A s \in Slot : ~IsHeader(sl, s)
    PROVE  Month(sl, f) = << >>
<1>1. Count(sl, f) = 0
  BY OpensHasHeader DEF Count
<1> HIDE DEF Count
<1> QED
  BY <1>1 DEF Month

(* The first n records of a file are a sequence of bars.                   *)
LEMMA Rows ==
    ASSUME NEW n \in Nat, NEW f, \A i \in 1 .. n : f[i] \in Record
    PROVE  /\ [i \in 1 .. n |-> f[i]] \in Seq(Record)
           /\ Len([i \in 1 .. n |-> f[i]]) = n
  OBVIOUS

(* The first records of a month.                                           *)
LEMMA FirstRows ==
    ASSUME NEW m \in Nat, NEW n \in 0 .. m, NEW f, NEW g,
           \A i \in 1 .. m : f[i] \in Record, \A i \in 1 .. n : g[i] = f[i]
    PROVE  [i \in 1 .. n |-> g[i]] = SubSeq([i \in 1 .. m |-> f[i]], 1, n)
<1> DEFINE whole == [i \in 1 .. m |-> f[i]]
           part == [i \in 1 .. n |-> g[i]]
<1>1. n \in Nat /\ \A i \in 1 .. n : i \in 1 .. m
  OBVIOUS
<1>2. \A i \in 1 .. n : whole[i] \in Record /\ g[i] \in Record
  BY <1>1
<1>3. part \in Seq(Record) /\ Len(part) = n /\ \A i \in 1 .. n : part[i] = whole[i]
  BY <1>1, <1>2, Rows
<1> HIDE DEF whole, part
<1>4. /\ SubSeq(whole, 1, n) \in Seq(Record)
      /\ Len(SubSeq(whole, 1, n)) = IF 1 <= n THEN n - 1 + 1 ELSE 0
      /\ \A i \in 1 .. n - 1 + 1 : SubSeq(whole, 1, n)[i] = whole[1 + i - 1]
  BY <1>1, <1>2, SubSeqProperties
<1>5. Len(SubSeq(whole, 1, n)) = n /\ \A i \in 1 .. n : SubSeq(whole, 1, n)[i] = whole[i]
  BY <1>1, <1>4
<1> QED
  BY <1>3, <1>4, <1>5, SeqEqual DEF whole, part

-----------------------------------------------------------------------------
(* What an append takes continues the month.                               *)

Rising(rows) == \A i \in 1 .. Len(rows) - 1 : rows[i].ts < rows[i + 1].ts
Continues(rows, n, last) == Rising(rows) /\ (n = 0 \/ rows[1].ts > last)

(* Every bar has a time.                                                   *)
LEMMA RowTimes ==
    ASSUME NEW rows \in Seq(Record)
    PROVE  \A i \in 1 .. Len(rows) : rows[i].ts \in Nat
<1>1. \A i \in 1 .. Len(rows) : rows[i] \in Record
  OBVIOUS
<1> QED
  BY <1>1, TimesAssumption DEF Record

(* Of the first k members of a rising batch, all are at or before `last`    *)
(* when the k-th is.                                                       *)
LEMMA RisingBelow ==
    ASSUME NEW batch \in Seq(Record), Rising(batch), NEW last \in Nat,
           NEW k \in 1 .. Len(batch), batch[k].ts <= last
    PROVE  \A i \in 1 .. k : batch[i].ts <= last
<1> DEFINE T == {i \in 1 .. k : ~(batch[i].ts <= last)}
<1>1. SUFFICES ASSUME T # {} PROVE FALSE
  OBVIOUS
<1>2. k \in Nat /\ \A i \in 1 .. k : i \in 1 .. Len(batch) /\ batch[i].ts \in Nat
  BY RowTimes
<1>3. T \in SUBSET (1 .. k)
  OBVIOUS
<1> HIDE DEF T
<1>4. PICK g \in T : \A j \in T : j <= g
  BY <1>1, <1>2, <1>3, HighestMember
<1>5. g \in 1 .. k /\ ~(batch[g].ts <= last)
  BY <1>4 DEF T
<1>6. g + 1 \in 1 .. k /\ g \in 1 .. Len(batch) - 1
  BY <1>2, <1>5
<1>7. g + 1 \notin T
  BY <1>4, <1>5
<1>8. batch[g + 1].ts <= last
  BY <1>6, <1>7 DEF T
<1>9. batch[g].ts < batch[g + 1].ts
  BY <1>6 DEF Rising
<1>10. batch[g].ts \in Nat /\ batch[g + 1].ts \in Nat
  BY <1>2, <1>5, <1>6
<1> QED
  BY <1>5, <1>8, <1>9, <1>10

(* The overlap of a rising batch with the month is all of it that is at or *)
(* before the last committed bar: what comes after it is later.            *)
LEMMA SuffixIsLater ==
    ASSUME NEW batch \in Seq(Record), Rising(batch), NEW last \in Nat,
           OverlapLen(last, batch) + 1 \in 1 .. Len(batch)
    PROVE  batch[OverlapLen(last, batch) + 1].ts > last
<1> DEFINE S == {i \in 1 .. Len(batch) : batch[i].ts <= last}
           k == OverlapLen(last, batch) + 1
<1>1. k \in Nat /\ k \in 1 .. Len(batch) /\ OverlapLen(last, batch) = Cardinality(S)
  BY DEF OverlapLen
<1>2. batch[k].ts \in Nat
  BY <1>1, RowTimes
<1>3. SUFFICES ASSUME batch[k].ts <= last PROVE FALSE
  BY <1>2
<1> DEFINE upto == 1 .. k
           all == 1 .. Len(batch)
<1>4. \A i \in 1 .. k : batch[i].ts <= last /\ i \in 1 .. Len(batch)
  BY <1>1, <1>3, RisingBelow
<1>5. upto \subseteq S /\ S \subseteq all
  BY <1>4
<1>6. IsFiniteSet(all) /\ Cardinality(upto) = k
  BY <1>1, FS_Interval
<1>7. k = Cardinality(S) + 1
  BY <1>1
<1> HIDE DEF S, upto, all, k
<1>8. IsFiniteSet(S) /\ Cardinality(upto) <= Cardinality(S)
  BY <1>5, <1>6, FS_Subset
<1>9. Cardinality(S) \in Nat
  BY <1>8, FS_CardinalityType
<1> QED
  BY <1>6, <1>7, <1>8, <1>9

(* A batch taken for a month whose last bar is at `last` is in time order   *)
(* and later than it.                                                      *)
LEMMA PlanContinues ==
    ASSUME NEW f, NEW n, NEW last \in Nat, NEW bad, NEW batch \in Seq(Record),
           Plan(f, n, last, bad, batch).kind = "follows"
    PROVE  Continues(Plan(f, n, last, bad, batch).rows, n, last)
<1> DEFINE late == OverlapLen(last, batch)
           overlap == SubSeq(batch, 1, late)
           suffix == SubSeq(batch, Len(overlap) + 1, Len(batch))
<1>1. Survey(batch)
  BY DEF Plan, Refused
<1>2. Rising(batch)
  BY <1>1 DEF Survey, Rising
<1>3. CASE Follows(n, last, batch)
  <2>1. Plan(f, n, last, bad, batch) = [kind |-> "follows", rows |-> batch]
    BY <1>1, <1>3 DEF Plan
  <2> QED
    BY <1>2, <1>3, <2>1 DEF Continues, Follows
<1>4. CASE ~Follows(n, last, batch)
  <2>1. Plan(f, n, last, bad, batch) = [kind |-> "follows", rows |-> suffix] /\ suffix # << >>
    BY <1>1, <1>4 DEF Plan, Refused
  <2>2. late \in Nat /\ late <= Len(batch)
    BY OverlapType
  <2>3. Len(overlap) = late
    <3>1. \A i \in 1 .. late : batch[i] \in Record
      BY <2>2
    <3>2. Len(overlap) = IF 1 <= late THEN late - 1 + 1 ELSE 0
      BY <2>2, <3>1, SubSeqProperties
    <3> QED
      BY <2>2, <3>2
  <2>4. \A i \in late + 1 .. Len(batch) : batch[i] \in Record
    BY <2>2
  <2>5. /\ suffix \in Seq(Record)
        /\ Len(suffix) = IF late + 1 <= Len(batch) THEN Len(batch) - (late + 1) + 1 ELSE 0
        /\ \A i \in 1 .. Len(batch) - (late + 1) + 1 : suffix[i] = batch[late + 1 + i - 1]
    BY <2>2, <2>3, <2>4, SubSeqProperties, SMTT(20)
  <2> HIDE DEF late, overlap, suffix
  <2>6. late + 1 <= Len(batch)
    BY <2>1, <2>5
  <2>7. /\ Len(suffix) = Len(batch) - late
        /\ \A i \in 1 .. Len(batch) - late : suffix[i] = batch[late + i]
    <3>1. Len(batch) - (late + 1) + 1 = Len(batch) - late
      BY <2>2
    <3>2. \A i \in 1 .. Len(batch) - late : late + 1 + i - 1 = late + i
      BY <2>2
    <3> QED
      BY <2>5, <2>6, <3>1, <3>2
  <2>8. suffix[1].ts > last
    <3>1. suffix[1] = batch[late + 1] /\ late + 1 \in 1 .. Len(batch)
      BY <2>2, <2>6, <2>7
    <3> QED
      BY <1>2, <3>1, SuffixIsLater DEF late
  <2>9. Rising(suffix)
    <3> SUFFICES ASSUME NEW i \in 1 .. Len(suffix) - 1
                 PROVE  suffix[i].ts < suffix[i + 1].ts
      BY DEF Rising
    <3>1. /\ i \in 1 .. Len(batch) - late /\ i + 1 \in 1 .. Len(batch) - late
          /\ late + i \in 1 .. Len(batch) - 1 /\ late + (i + 1) = (late + i) + 1
      BY <2>2, <2>7
    <3>2. suffix[i] = batch[late + i] /\ suffix[i + 1] = batch[(late + i) + 1]
      BY <2>7, <3>1
    <3> QED
      BY <1>2, <3>1, <3>2 DEF Rising
  <2> QED
    BY <2>1, <2>8, <2>9 DEF Continues
<1> QED
  BY <1>3, <1>4

-----------------------------------------------------------------------------
(* The records a header counts are in time order, and its `last` is the    *)
(* time of the last of them.                                               *)

TellsOf(f, hd) ==
    /\ hd.n > 0 => f[hd.n].ts = hd.last
    /\ Rising([i \in 1 .. hd.n |-> f[i]])
Told(sl, f) == \A s \in Slot : IsHeader(sl, s) => TellsOf(f, sl[s])

(* What a handle appends continues the month, and is in the file by the    *)
(* first barrier.                                                          *)
TakenOK(p) ==
    /\ h[p].pc \in {"writing", "sealing", "summed"} =>
           Continues(h[p].batch, h[p].n, h[p].last)
    /\ h[p].pc \in {"sealing", "summed"} =>
           \A j \in 1 .. Len(h[p].batch) : recs[h[p].n + j] = h[p].batch[j]

RowsInv == Told(slots, recs) /\ Told(slotsD, recs) /\ \A p \in Procs : TakenOK(p)

(* A header tells the same of two files that agree on what it counts.      *)
LEMMA ToldKept ==
    ASSUME NEW sl \in Slots, NEW f, NEW g, Told(sl, f),
           \A s \in Slot : IsHeader(sl, s) => \A i \in 1 .. sl[s].n : g[i] = f[i]
    PROVE  Told(sl, g)
<1> SUFFICES ASSUME NEW s \in Slot, IsHeader(sl, s) PROVE TellsOf(g, sl[s])
  BY DEF Told
<1>1. sl[s].n \in Nat /\ TellsOf(f, sl[s])
  BY HeaderType, MaxRecsAssumption DEF Told, Header
<1>2. [i \in 1 .. sl[s].n |-> g[i]] = [i \in 1 .. sl[s].n |-> f[i]]
  OBVIOUS
<1>3. sl[s].n > 0 => g[sl[s].n] = f[sl[s].n]
  BY <1>1
<1> QED
  BY <1>1, <1>2, <1>3 DEF TellsOf

(* A handle nobody touches keeps what it has taken while no record is      *)
(* written.                                                                *)
LEMMA TakenKept ==
    ASSUME NEW q \in Procs, TakenOK(q), UNCHANGED recs,
           h'[q].pc = h[q].pc, h'[q].n = h[q].n, h'[q].last = h[q].last,
           h'[q].batch = h[q].batch
    PROVE  TakenOK(q)'
  BY DEF TakenOK

(* A handle that is not on its way to the first write of a header slot has *)
(* taken nothing.                                                          *)
LEMMA TakenQuiet ==
    ASSUME NEW q \in Procs, h'[q].pc \notin {"writing", "sealing", "summed"}
    PROVE  TakenOK(q)'
  BY DEF TakenOK

(* A step that writes neither a record nor a header slot leaves the headers *)
(* telling what they told, whatever it syncs.                              *)
LEMMA RowsSynced ==
    ASSUME RowsInv, UNCHANGED << recs, slots >>, slotsD' = slotsD \/ slotsD' = slots
    PROVE  Told(slots', recs') /\ Told(slotsD', recs')
  BY DEF RowsInv

(* It leaves the whole invariant standing when its own handle does.        *)
LEMMA RowsQuiet ==
    ASSUME RowsInv, UNCHANGED << recs, slots >>, slotsD' = slotsD \/ slotsD' = slots,
           NEW p \in Procs, Others(p), TakenOK(p)'
    PROVE  RowsInv'
<1>1. Told(slots', recs') /\ Told(slotsD', recs')
  BY RowsSynced
<1>2. \A q \in Procs \ {p} : TakenOK(q)'
  BY TakenKept DEF RowsInv, Others
<1> QED
  BY <1>1, <1>2 DEF RowsInv

(* No step of opening, reading or closing takes bars, and none writes to   *)
(* the bar file's records, to a header slot or to the sidecar.             *)
LEMMA OpeningTakesNothing ==
    ASSUME TypeInv, NEW p \in Procs,
           \/ TakeLock(p) \/ OpenBars(p) \/ SyncInitialise(p) \/ SyncDir(p) \/ Validate(p)
           \/ SyncSidecarName(p) \/ OpenExisting(p) \/ Drop(p) \/ Die(p)
           \/ SyncSlot(p) \/ \E i \in Pos : ReadRow(p, i)
    PROVE  /\ UNCHANGED << recs, slots, sums, sumsD >>
           /\ slotsD' = slotsD \/ slotsD' = slots
           /\ recsD' = recsD \/ recsD' = recs
           /\ Others(p) /\ h'[p].pc \notin Appending
<1> USE DEF cache, disk, Appending
<1>1. UNCHANGED << recs, slots, sums, sumsD >>
  BY DEF TakeLock, OpenBars, SyncInitialise, SyncDir, Validate, SyncSidecarName, OpenExisting,
     Drop, Die, SyncSlot, ReadRow
<1>2. (slotsD' = slotsD \/ slotsD' = slots) /\ (recsD' = recsD \/ recsD' = recs)
  BY DEF TakeLock, OpenBars, SyncInitialise, SyncDir, Validate, SyncSidecarName, OpenExisting,
     Drop, Die, SyncSlot, ReadRow
<1> SUFFICES Others(p) /\ h'[p].pc \notin Appending
  BY <1>1, <1>2
<1>3. CASE TakeLock(p) \/ OpenBars(p) \/ SyncInitialise(p) \/ SyncDir(p) \/ SyncSidecarName(p)
  BY <1>3, StepEffect DEF TakeLock, OpenBars, SyncInitialise, SyncDir, SyncSidecarName
<1>4. CASE Validate(p)
  <2>1. Close(p) \/ \E pc \in {"named", "open"}, hd \in {Chosen(slots, recs)} : OpenAt(p, pc, hd)
    BY <1>4 DEF Validate
  <2> QED
    BY <2>1, CloseEffect, OpenAtEffect
<1>5. CASE OpenExisting(p)
  <2>1. \E pc \in {"reading", "peeking"}, hd \in {Chosen(slots, recs)} : OpenAt(p, pc, hd)
    BY <1>5 DEF OpenExisting
  <2> QED
    BY <2>1, OpenAtEffect
<1>6. CASE Drop(p) \/ Die(p)
  BY <1>6, CloseEffect DEF Drop, Die
<1>7. CASE SyncSlot(p)
  <2>1. PICK hd : hd = Advanced(p)
    OBVIOUS
  <2>2. OpenAt(p, "open", hd)
    BY <1>7, <2>1 DEF SyncSlot
  <2> QED
    BY <2>2, OpenAtEffect
<1>8. ASSUME NEW i \in Pos, ReadRow(p, i)
      PROVE  Others(p) /\ h'[p].pc \notin Appending
  <2>1. h \in [Procs -> HandleType] /\ h[p] \in HandleType
    BY DEF TypeInv, TypeOK
  <2>2. h'[p] = [h[p] EXCEPT !.seen = BlockOf(i)] /\ Others(p)
    BY <1>8, <2>1 DEF ReadRow, Others
  <2>3. h[p].pc \in {"open", "reading", "peeking"} /\ h'[p].pc = h[p].pc
    BY <1>8, <2>1, <2>2 DEF ReadRow, HandleType
  <2> QED
    BY <2>2, <2>3
<1> QED
  BY <1>3, <1>4, <1>5, <1>6, <1>7, <1>8

(* So they leave the headers telling what they told.                       *)
LEMMA RowsOpening ==
    ASSUME TypeInv, RowsInv, NEW p \in Procs,
           \/ TakeLock(p) \/ OpenBars(p) \/ SyncInitialise(p) \/ SyncDir(p) \/ Validate(p)
           \/ SyncSidecarName(p) \/ OpenExisting(p) \/ Drop(p) \/ Die(p)
           \/ SyncSlot(p) \/ \E i \in Pos : ReadRow(p, i)
    PROVE  RowsInv'
  BY OpeningTakesNothing, RowsQuiet, TakenQuiet DEF Appending

(* The rows a header counts are in order when each is before the next.     *)
LEMMA RisingRows ==
    ASSUME NEW n \in Nat, NEW f, \A i \in 1 .. n : f[i] \in Record
    PROVE  Rising([i \in 1 .. n |-> f[i]]) <=> \A i \in 1 .. n - 1 : f[i].ts < f[i + 1].ts
<1>1. Len([i \in 1 .. n |-> f[i]]) = n
  BY Rows
<1>2. \A i \in 1 .. n - 1 : /\ [j \in 1 .. n |-> f[j]][i] = f[i]
                            /\ [j \in 1 .. n |-> f[j]][i + 1] = f[i + 1]
  OBVIOUS
<1> QED
  BY <1>1, <1>2 DEF Rising

(* No header of the region, on the disk or not, counts a record past those *)
(* of the handle that appends.                                             *)
LEMMA HeadersBelow ==
    ASSUME TypeInv, FileInv, NEW p \in Procs, Current(HeaderOf(p)), NEW s \in Slot
    PROVE  /\ IsHeader(slots, s) => slots[s].n \in 0 .. h[p].n
           /\ IsHeader(slotsD, s) => slotsD[s].n \in 0 .. h[p].n
<1>1. slots \in Slots /\ slotsD \in Slots
  BY DEF TypeInv, TypeOK, Slots
<1>2. h[p].n \in Nat /\ (IsHeader(slots, s) => slots[s].n <= h[p].n)
  BY HandleHeader, MaxRecsAssumption
<1>3. IsHeader(slots, s) => slots[s].n \in Nat
  BY <1>1, HeaderType, MaxRecsAssumption DEF Header
<1>4. IsHeader(slotsD, s) => slotsD[s].n \in Nat
  BY <1>1, HeaderType, MaxRecsAssumption DEF Header
<1>5. IsHeader(slotsD, s) => IsHeader(slots, s) /\ slotsD[s].n <= slots[s].n
  BY DEF FileInv, DirtyInv
<1> QED
  BY <1>2, <1>3, <1>4, <1>5

(* A batch is taken when it continues the month the handle's header counts. *)
LEMMA RowsStartAppend ==
    ASSUME TypeInv, RowsInv, NEW p \in Procs, NEW batch \in Offered, StartAppend(p, batch)
    PROVE  RowsInv'
<1>1. h \in [Procs -> HandleType] /\ h[p] \in HandleType
  BY DEF TypeInv, TypeOK
<1>2. UNCHANGED << recs, slots, slotsD >>
  BY DEF StartAppend, cache, disk
<1>3. PICK rows : /\ rows = PlanFor(p, batch).rows
                  /\ h' = [h EXCEPT ![p].pc = "writing", ![p].batch = rows, ![p].done = 0,
                                    ![p].seen = NoBlock]
  BY DEF StartAppend
<1>4. h[p].last \in Nat /\ batch \in Seq(Record) /\ PlanFor(p, batch).kind = "follows"
  BY <1>1, OfferedAssumption DEF HandleType, StartAppend
<1>5. Continues(rows, h[p].n, h[p].last)
  BY <1>3, <1>4, PlanContinues DEF PlanFor
<1>6. h'[p] = [h[p] EXCEPT !.pc = "writing", !.batch = rows, !.done = 0, !.seen = NoBlock]
  BY <1>1, <1>3
<1>7. /\ Others(p) /\ h'[p].pc = "writing" /\ h'[p].batch = rows
      /\ h'[p].n = h[p].n /\ h'[p].last = h[p].last
  BY <1>1, <1>3, <1>6 DEF Others, HandleType
<1>8. TakenOK(p)'
  BY <1>5, <1>7 DEF TakenOK
<1> QED
  BY <1>2, <1>7, <1>8, RowsQuiet

(* A record is written past all that a header counts, by the only writer.  *)
LEMMA RowsWriteRecord ==
    ASSUME TypeInv, Inv, RowsInv, NEW p \in Procs, WriteRecord(p)
    PROVE  RowsInv'
<1>1. LockInv /\ FileInv /\ HandleInv
  BY DEF Inv
<1>2. UNCHANGED << slots, slotsD >> /\ h[p].pc = "writing" /\ Current(HeaderOf(p))
  BY <1>1 DEF WriteRecord, disk, HandleInv, HandleOK
<1>3. h[p] \in HandleType /\ h \in [Procs -> HandleType] /\ recs \in File
      /\ slots \in Slots /\ slotsD \in Slots
  BY DEF TypeInv, TypeOK, Slots
<1>4. /\ Others(p) /\ h'[p].pc = "writing" /\ h'[p].n = h[p].n /\ h'[p].last = h[p].last
      /\ h'[p].batch = h[p].batch
  <2>1. h'[p] = [h[p] EXCEPT !.done = h[p].done + 1] /\ Others(p)
    BY <1>3 DEF WriteRecord, Others
  <2> QED
    BY <1>2, <1>3, <2>1 DEF HandleType
<1>5. h[p].done \in Nat /\ h[p].n \in 0 .. MaxRecs
  BY <1>3 DEF HandleType
<1>6. \A i \in 1 .. h[p].n : recs'[i] = recs[i]
  <2>1. \A i \in 1 .. h[p].n : i \in Pos /\ i # h[p].n + h[p].done + 1
    BY <1>5, MaxRecsAssumption DEF Pos
  <2> QED
    BY <1>3, <2>1 DEF WriteRecord, File
<1>7. \A s \in Slot : IsHeader(slots, s) => \A i \in 1 .. slots[s].n : recs'[i] = recs[i]
  <2>1. \A s \in Slot : IsHeader(slots, s) => slots[s].n \in 0 .. h[p].n
    BY <1>1, <1>2, HeadersBelow
  <2> QED
    BY <1>5, <1>6, <2>1, MaxRecsAssumption
<1>8. \A s \in Slot : IsHeader(slotsD, s) => \A i \in 1 .. slotsD[s].n : recs'[i] = recs[i]
  <2>1. \A s \in Slot : IsHeader(slotsD, s) => slotsD[s].n \in 0 .. h[p].n
    BY <1>1, <1>2, HeadersBelow
  <2> QED
    BY <1>5, <1>6, <2>1, MaxRecsAssumption
<1>9. Told(slots, recs') /\ Told(slotsD, recs')
  BY <1>3, <1>7, <1>8, ToldKept DEF RowsInv
<1>10. TakenOK(p)'
  BY <1>2, <1>4 DEF RowsInv, TakenOK
<1>11. ASSUME NEW q \in Procs \ {p} PROVE TakenOK(q)'
  <2>1. h[q].pc \notin Exclusive /\ h'[q] = h[q]
    BY <1>1, <1>2, <1>4 DEF LockInv, Others, Exclusive, Appending
  <2> QED
    BY <2>1, TakenQuiet DEF Exclusive, Appending
<1> QED
  BY <1>2, <1>9, <1>10, <1>11 DEF RowsInv

(* By the first barrier the whole batch is in the file.                    *)
LEMMA RowsSyncing ==
    ASSUME TypeInv, Inv, RowsInv, NEW p \in Procs,
           SyncRecords(p) \/ SealBlock(p) \/ SyncSums(p)
    PROVE  RowsInv'
<1>1. h \in [Procs -> HandleType] /\ h[p] \in HandleType
  BY DEF TypeInv, TypeOK
<1>2. UNCHANGED << recs, slots >> /\ (slotsD' = slotsD \/ slotsD' = slots)
  BY DEF SyncRecords, SealBlock, SyncSums, cache, disk
<1>3. HandleOK(p) /\ TakenOK(p)
  BY DEF Inv, HandleInv, RowsInv
<1>4. CASE SyncRecords(p)
  <2>1. h'[p] = [h[p] EXCEPT !.pc = "sealing", !.blk = BlockOf(h[p].n + 1)] /\ Others(p)
    BY <1>1, <1>4 DEF SyncRecords, Others
  <2>2. /\ h'[p].pc = "sealing" /\ h'[p].n = h[p].n /\ h'[p].last = h[p].last
        /\ h'[p].batch = h[p].batch
    BY <1>1, <2>1 DEF HandleType
  <2>3. /\ Continues(h[p].batch, h[p].n, h[p].last)
        /\ \A j \in 1 .. Len(h[p].batch) : recs[h[p].n + j] = h[p].batch[j]
    BY <1>3, <1>4 DEF SyncRecords, HandleOK, TakenOK
  <2>4. TakenOK(p)'
    BY <1>2, <2>2, <2>3 DEF TakenOK
  <2> QED
    BY <1>2, <2>1, <2>4, RowsQuiet
<1>5. CASE SealBlock(p) \/ SyncSums(p)
  <2>1. /\ Others(p) /\ h[p].pc = "sealing" /\ h'[p].pc \in {"sealing", "summed"}
        /\ h'[p].n = h[p].n /\ h'[p].last = h[p].last /\ h'[p].batch = h[p].batch
    <3>1. CASE SealBlock(p)
      <4>1. h'[p] = [h[p] EXCEPT !.blk = h[p].blk + 1] /\ Others(p) /\ h[p].pc = "sealing"
        BY <1>1, <3>1 DEF SealBlock, Others
      <4> QED
        BY <1>1, <4>1 DEF HandleType
    <3>2. CASE SyncSums(p)
      BY <3>2, StepEffect DEF SyncSums
    <3> QED
      BY <1>5, <3>1, <3>2
  <2>2. TakenOK(p)'
    BY <1>2, <1>3, <2>1 DEF TakenOK
  <2> QED
    BY <1>2, <2>1, <2>2, RowsQuiet
<1> QED
  BY <1>4, <1>5

(* The genesis header counts no record.                                    *)
LEMMA RowsInitialise ==
    ASSUME TypeInv, Inv, RowsInv, NEW p \in Procs, Initialise(p)
    PROVE  RowsInv'
<1>1. UNCHANGED << recs, slotsD >> /\ slots' = [slots EXCEPT ![0] = Genesis] /\ slots \in Slots
  BY DEF Initialise, disk, TypeInv, TypeOK, Slots, SlotOf
<1>2. Others(p) /\ h'[p].pc = "zeroed"
  BY StepEffect DEF Initialise
<1>3. Told(slots', recs')
  <2>1. TellsOf(recs, Genesis)
    <3>1. PICK k \in Nat : k = 0
      OBVIOUS
    <3>2. (\A i \in 1 .. k : recs[i] \in Record) /\ \A i \in 1 .. k - 1 : recs[i].ts < recs[i + 1].ts
      BY <3>1
    <3>3. Rising([i \in 1 .. k |-> recs[i]])
      BY <3>2, RisingRows
    <3> QED
      BY <3>1, <3>3 DEF TellsOf, Genesis
  <2>2. \A s \in Slot : slots'[s] = Genesis \/ slots'[s] = slots[s]
    BY <1>1 DEF Slots
  <2> QED
    BY <1>1, <2>1, <2>2 DEF RowsInv, Told, IsHeader
<1>4. TakenOK(p)'
  BY <1>2, TakenQuiet
<1>5. \A q \in Procs \ {p} : TakenOK(q)'
  BY <1>1, <1>2, TakenKept DEF RowsInv, Others
<1> QED
  BY <1>1, <1>3, <1>4, <1>5 DEF RowsInv

(* The header written counts the month and the batch that continues it.    *)
LEMMA RowsWriteSlot ==
    ASSUME NoRot, TypeInv, Inv, RowsInv, NEW p \in Procs, WriteSlot(p)
    PROVE  RowsInv'
<1>1. FileInv /\ HandleInv
  BY DEF Inv
<1>2. UNCHANGED << recs, slotsD >> /\ slots \in Slots
  BY DEF WriteSlot, disk, TypeInv, TypeOK, Slots
<1>3. Others(p) /\ h[p].pc = "summed" /\ h'[p].pc = "slotted"
  BY StepEffect DEF WriteSlot
<1>4. Current(HeaderOf(p)) /\ Durable(NewCount(p))
  BY <1>1, <1>3 DEF HandleInv, HandleOK
<1> DEFINE n == h[p].n
           batch == h[p].batch
<1>5. /\ Continues(batch, n, h[p].last)
      /\ \A j \in 1 .. Len(batch) : recs[n + j] = batch[j]
  BY <1>3 DEF RowsInv, TakenOK
<1>6. /\ n \in Nat /\ batch \in Seq(Record) /\ batch # << >> /\ Len(batch) \in Nat /\ Len(batch) > 0
      /\ h[p].gen \in Nat /\ h[p].last \in Nat
  <2>1. h[p] \in HandleType /\ batch # << >>
    BY <1>3 DEF TypeInv, TypeOK, BatchFits, Appending
  <2>2. n \in Nat /\ batch \in Seq(Record) /\ h[p].gen \in Nat /\ h[p].last \in Nat
    BY <2>1, MaxRecsAssumption DEF HandleType
  <2> QED
    BY <2>1, <2>2
<1>7. TellsOf(recs, HeaderOf(p))
  <2>1. h[p].gen % 2 \in Slot /\ IsHeader(slots, h[p].gen % 2)
    BY <1>1, <1>4, HandleHeader
  <2>2. slots[h[p].gen % 2] = HeaderOf(p)
    BY <1>4 DEF Current, HeaderOf
  <2> QED
    BY <2>1, <2>2 DEF RowsInv, Told
<1>8. NewCount(p) = n + Len(batch) /\ \A i \in 1 .. n + Len(batch) : recs[i] \in Record
  BY <1>4 DEF NewCount, Durable
<1>9. \A i \in 1 .. n - 1 : recs[i].ts < recs[i + 1].ts
  <2>1. \A i \in 1 .. n : recs[i] \in Record
    BY <1>6, <1>8
  <2>2. Rising([i \in 1 .. n |-> recs[i]])
    BY <1>7 DEF TellsOf, HeaderOf
  <2> QED
    BY <1>6, <2>1, <2>2, RisingRows
<1>10. n > 0 => recs[n].ts = h[p].last /\ recs[n].ts < batch[1].ts
  BY <1>5, <1>6, <1>7, RowTimes DEF TellsOf, HeaderOf, Continues
<1>11. \A j \in 1 .. Len(batch) - 1 : batch[j].ts < batch[j + 1].ts
  BY <1>5 DEF Continues, Rising
<1> HIDE DEF n, batch
<1>12. \A i \in 1 .. (n + Len(batch)) - 1 : recs[i].ts < recs[i + 1].ts
  <2> SUFFICES ASSUME NEW i \in 1 .. (n + Len(batch)) - 1 PROVE recs[i].ts < recs[i + 1].ts
    OBVIOUS
  <2>1. CASE i < n
    BY <1>6, <1>9, <2>1
  <2>2. CASE i = n
    <3>1. recs[n + 1] = batch[1] /\ n > 0
      BY <1>5, <1>6, <2>2
    <3> QED
      BY <1>10, <2>2, <3>1
  <2>3. CASE i > n
    <3>1. /\ i - n \in 1 .. Len(batch) - 1 /\ n + (i - n) = i /\ n + ((i - n) + 1) = i + 1
          /\ i - n \in 1 .. Len(batch) /\ (i - n) + 1 \in 1 .. Len(batch)
      BY <1>6, <2>3
    <3>2. recs[i] = batch[i - n] /\ recs[i + 1] = batch[(i - n) + 1]
      BY <1>5, <3>1
    <3> QED
      BY <1>11, <3>1, <3>2
  <2> QED
    BY <1>6, <2>1, <2>2, <2>3
<1>13. TellsOf(recs, Advanced(p))
  <2>1. Advanced(p).n = n + Len(batch) /\ Advanced(p).last = batch[Len(batch)].ts
    BY <1>8 DEF Advanced, batch
  <2>2. PICK k \in Nat : k = n + Len(batch)
    BY <1>6
  <2>3. Rising([i \in 1 .. k |-> recs[i]])
    BY <1>8, <1>12, <2>2, RisingRows
  <2>4. recs[n + Len(batch)] = batch[Len(batch)]
    BY <1>5, <1>6
  <2> QED
    BY <2>1, <2>2, <2>3, <2>4 DEF TellsOf
<1>14. Told(slots', recs')
  <2>1. \A s \in Slot : slots'[s] = Advanced(p) \/ slots'[s] = slots[s]
    BY <1>2 DEF WriteSlot, Slots
  <2> QED
    BY <1>2, <1>13, <2>1 DEF RowsInv, Told, IsHeader
<1>15. TakenOK(p)'
  BY <1>3, TakenQuiet
<1>16. \A q \in Procs \ {p} : TakenOK(q)'
  BY <1>2, <1>3, TakenKept DEF RowsInv, Others
<1> QED
  BY <1>2, <1>14, <1>15, <1>16 DEF RowsInv

(* Writeback puts on the disk a header that was there or one in the cache. *)
LEMMA RowsWriteback ==
    ASSUME TypeInv, RowsInv, Writeback
    PROVE  RowsInv'
<1>1. UNCHANGED << recs, slots, h >> /\ slotsD \in Slots /\ slots \in Slots
  BY DEF Writeback, cache, TypeInv, TypeOK, Slots
<1>2. slotsD' = slotsD \/ \E s \in Slot : slotsD' = [slotsD EXCEPT ![s] = slots[s]]
  BY DEF Writeback
<1>3. \A s \in Slot : slotsD'[s] = slotsD[s] \/ slotsD'[s] = slots[s]
  BY <1>1, <1>2 DEF Slots
<1>4. Told(slotsD', recs')
  BY <1>1, <1>3 DEF RowsInv, Told, IsHeader
<1>5. Told(slots', recs')
  BY <1>1 DEF RowsInv
<1>6. \A q \in Procs : TakenOK(q)'
  BY <1>1, TakenKept DEF RowsInv
<1> QED
  BY <1>4, <1>5, <1>6 DEF RowsInv

(* What a power loss leaves of the file: the headers of the disk that are  *)
(* not torn, and the records they count, which were durable.               *)
LEMMA LossLeaves ==
    ASSUME TypeInv, Inv, PowerLoss, NEW s \in Slot, IsHeader(slots', s)
    PROVE  /\ IsHeader(slots, s) /\ IsHeader(slotsD, s) /\ slots'[s] = slotsD[s]
           /\ slotsD[s] \in Header /\ slots[s] \in Header /\ slotsD[s].n <= slots[s].n
           /\ \A i \in 1 .. slots'[s].n : recs'[i] = recs[i]
<1>1. slots' = slotsD' /\ recs' = recsD'
  BY DEF PowerLoss
<1>2. recs \in File /\ recsD \in File /\ slots \in Slots /\ slotsD \in Slots
  BY DEF TypeInv, TypeOK, Slots
<1>3. Survives("bars")
  BY <1>1 DEF PowerLoss, IsHeader, BlankSlots
<1>4. /\ \A i \in Pos : recsD[i] = recs[i] => recsD'[i] = recsD[i]
      /\ slotsD'[s] = slotsD[s] \/ slotsD'[s] = Torn
  BY <1>3 DEF PowerLoss
<1>5. IsHeader(slotsD, s) /\ slots'[s] = slotsD[s]
  BY <1>1, <1>4 DEF IsHeader
<1>6. IsHeader(slots, s) /\ slotsD[s].n <= slots[s].n
  BY <1>5 DEF Inv, FileInv, DirtyInv
<1>7. slotsD[s] \in Header /\ slots[s] \in Header
  BY <1>2, <1>5, <1>6, HeaderType
<1>8. ASSUME NEW i \in 1 .. slots'[s].n PROVE recs'[i] = recs[i]
  <2>1. i \in 1 .. slots[s].n /\ i \in Pos
    BY <1>5, <1>6, <1>7, MaxRecsAssumption DEF Header, Pos
  <2>2. recsD[i] = recs[i]
    BY <1>6, <2>1 DEF Inv, FileInv, Backed, Durable
  <2> QED
    BY <1>1, <1>4, <2>1, <2>2
<1> QED
  BY <1>5, <1>6, <1>7, <1>8

(* So a power loss leaves headers that tell the truth.                     *)
LEMMA RowsPowerLoss ==
    ASSUME TypeInv, Inv, RowsInv, PowerLoss
    PROVE  RowsInv'
<1>1. slots' = slotsD' /\ h' = [p \in Procs |-> Closed]
  BY DEF PowerLoss
<1>2. Told(slots', recs')
  <2> SUFFICES ASSUME NEW s \in Slot, IsHeader(slots', s) PROVE TellsOf(recs', slots'[s])
    BY DEF Told
  <2>1. /\ IsHeader(slotsD, s) /\ slots'[s] = slotsD[s] /\ slotsD[s] \in Header
        /\ \A i \in 1 .. slots'[s].n : recs'[i] = recs[i]
    BY LossLeaves
  <2>2. TellsOf(recs, slotsD[s]) /\ slotsD[s].n \in Nat
    BY <2>1, MaxRecsAssumption DEF RowsInv, Told, Header
  <2>3. [i \in 1 .. slotsD[s].n |-> recs'[i]] = [i \in 1 .. slotsD[s].n |-> recs[i]]
    BY <2>1
  <2>4. slotsD[s].n > 0 => recs'[slotsD[s].n] = recs[slotsD[s].n]
    BY <2>1, <2>2
  <2> QED
    BY <2>1, <2>2, <2>3, <2>4 DEF TellsOf
<1>3. \A q \in Procs : TakenOK(q)'
  BY <1>1, TakenQuiet DEF Closed
<1> QED
  BY <1>1, <1>2, <1>3 DEF RowsInv

(* A month nobody has opened tells of no record.                           *)
LEMMA RowsInit == Init => RowsInv
  BY DEF Init, RowsInv, Told, IsHeader, BlankSlots, TakenOK, Closed

(* Every step on an honest disk keeps what the headers tell.               *)
LEMMA RowsNext ==
    ASSUME NoRot, TypeInv, Inv, RowsInv, [Next]_vars
    PROVE  RowsInv'
<1>1. ASSUME NEW p \in Procs, TakeLock(p) \/ OpenStep(p) \/ OpenExisting(p) PROVE RowsInv'
  BY <1>1, RowsOpening, RowsInitialise DEF OpenStep
<1>2. ASSUME NEW p \in Procs, Drop(p) \/ Die(p) \/ \E i \in Pos : ReadRow(p, i) PROVE RowsInv'
  BY <1>2, RowsOpening
<1>3. ASSUME NEW p \in Procs, NEW batch \in Offered, StartAppend(p, batch) PROVE RowsInv'
  BY <1>3, RowsStartAppend
<1>4. ASSUME NEW p \in Procs, AppendStep(p) PROVE RowsInv'
  BY <1>4, RowsWriteRecord, RowsSyncing, RowsWriteSlot, RowsOpening DEF AppendStep
<1>5. Writeback \/ PowerLoss => RowsInv'
  BY RowsWriteback, RowsPowerLoss
<1>6. ASSUME NEW i \in Pos PROVE ~Rot(i)
  BY DEF NoRot, Rot
<1>7. CASE UNCHANGED vars
  <2>1. \A q \in Procs : TakenOK(q)'
    BY <1>7, TakenKept DEF RowsInv, vars
  <2> QED
    BY <1>7, <2>1 DEF RowsInv, vars
<1> QED
  BY <1>1, <1>2, <1>3, <1>4, <1>5, <1>6, <1>7 DEF Next

-----------------------------------------------------------------------------
(* The implementation.                                                     *)

(* The month a reader of the cached file sees, in a state of the invariant. *)
LEMMA CachedMonth ==
    ASSUME NoRot, TypeInv, FileInv, NEW s \in Slot, Leads(slots, s)
    PROVE  /\ slots[s].n \in 0 .. MaxRecs
           /\ Month(slots, recs) = [i \in 1 .. slots[s].n |-> recs[i]]
           /\ \A i \in 1 .. slots[s].n : recs[i] \in Record
<1>1. slots \in Slots /\ recs \in File /\ RegionOK(slots)
  BY DEF TypeInv, TypeOK, Slots, FileInv
<1>2. Whole(slots, recs)
  BY DEF FileInv, Backed, Durable, Whole
<1> QED
  BY <1>1, <1>2, MonthOfLeader DEF Whole, Leads

(* The month that reader sees after the step.                              *)
LEMMA CachedMonthNext ==
    ASSUME NoRot, TypeInv', FileInv', NEW s \in Slot, Leads(slots', s)
    PROVE  /\ slots'[s].n \in 0 .. MaxRecs
           /\ Month(slots', recs') = [i \in 1 .. slots'[s].n |-> recs'[i]]
           /\ \A i \in 1 .. slots'[s].n : recs'[i] \in Record
<1>1. slots' \in Slots /\ recs' \in File /\ RegionOK(slots')
  BY DEF TypeInv, TypeOK, Slots, FileInv
<1>2. Whole(slots', recs')
  BY DEF FileInv, Backed, Durable, Whole, IsHeader
<1> QED
  BY <1>1, <1>2, MonthOfLeader DEF Whole, Leads

(* A handle that knows the newest header knows the slot that leads.         *)
LEMMA HandleLeads ==
    ASSUME TypeInv, FileInv, NEW p \in Procs, Current(HeaderOf(p))
    PROVE  Leads(slots, h[p].gen % 2)
  BY HandleHeader DEF Leads

(* Bars written past the newest header are not in the month yet.           *)
LEMMA WritingIsUnseen ==
    ASSUME NoRot, TypeInv, TypeInv', Inv, Inv', NEW p \in Procs, WriteRecord(p)
    PROVE  Month(slots', recs') = Month(slots, recs) /\ acked' = acked
<1>1. FileInv /\ HandleInv /\ FileInv'
  BY DEF Inv
<1>2. slots' = slots /\ acked' = acked /\ h[p].pc = "writing" /\ Current(HeaderOf(p))
  BY <1>1 DEF WriteRecord, disk, HandleInv, HandleOK
<1>3. PICK s \in Slot : Leads(slots, s) /\ s = h[p].gen % 2
  BY <1>1, <1>2, HandleLeads, HandleHeader
<1>4. /\ slots[s].n \in 0 .. MaxRecs /\ slots[s].n = h[p].n
      /\ Month(slots, recs) = [i \in 1 .. slots[s].n |-> recs[i]]
      /\ Month(slots', recs') = [i \in 1 .. slots[s].n |-> recs'[i]]
  BY <1>1, <1>2, <1>3, CachedMonth, CachedMonthNext, HandleHeader
<1>5. \A i \in 1 .. h[p].n : recs'[i] = recs[i]
  <2>1. h[p].done \in Nat /\ h[p].n \in 0 .. MaxRecs /\ recs \in File
    BY DEF TypeInv, TypeOK, HandleType
  <2>2. \A i \in 1 .. h[p].n : i \in Pos /\ i # h[p].n + h[p].done + 1
    BY <2>1, MaxRecsAssumption DEF Pos
  <2> QED
    BY <2>1, <2>2 DEF WriteRecord, File
<1> QED
  BY <1>2, <1>4, <1>5

(* The write of the header slot publishes the batch.                       *)
LEMMA WriteSlotPublishes ==
    ASSUME NoRot, TypeInv, TypeInv', Inv, Inv', RowsInv', NEW p \in Procs, WriteSlot(p)
    PROVE  Log!Publish
<1>1. FileInv /\ HandleInv /\ FileInv' /\ HandleInv'
  BY DEF Inv
<1>2. recs' = recs /\ acked' = acked /\ slots \in Slots
  BY DEF WriteSlot, disk, TypeInv, TypeOK, Slots
<1>3. /\ h[p].pc = "summed" /\ Current(HeaderOf(p)) /\ h[p].gen \in Nat
      /\ Leads(slots, h[p].gen % 2) /\ h[p].gen % 2 \in Slot /\ slots[h[p].gen % 2].n = h[p].n
      /\ \A s \in Slot : IsHeader(slots, s) => slots[s].gen <= h[p].gen
  BY <1>1, HandleLeads, HandleHeader DEF WriteSlot, Step, HandleInv, HandleOK
<1>4. /\ h[p].n \in Nat /\ Len(h[p].batch) \in Nat /\ Len(h[p].batch) > 0
      /\ NewCount(p) = h[p].n + Len(h[p].batch) /\ Advanced(p) \in Header
  <2>1. h[p] \in HandleType /\ h[p].batch # << >>
    BY <1>3 DEF TypeInv, TypeOK, BatchFits, Appending
  <2>2. h[p].n \in Nat /\ h[p].batch \in Seq(Record)
    BY <2>1, MaxRecsAssumption DEF HandleType
  <2> QED
    BY <1>3, <2>1, <2>2, AdvancedType DEF NewCount, Appending
<1> DEFINE new == (h[p].gen + 1) % 2
<1>5. new \in Slot
  BY <1>3, SlotOfType
<1>6. slots'[new] = Advanced(p) /\ \A s \in Slot \ {new} : slots'[s] = slots[s]
  BY <1>2, <1>5 DEF WriteSlot, SlotOf, Slots
<1> HIDE DEF new
<1>7. Leads(slots', new) /\ slots'[new].n = NewCount(p)
  <2>1. Advanced(p).gen = h[p].gen + 1 /\ Advanced(p).n = NewCount(p)
    BY DEF Advanced
  <2>2. \A s \in Slot \ {new} : IsHeader(slots, s) => slots[s].gen \in Nat
    BY <1>2, HeaderType DEF Header
  <2>3. \A s \in Slot \ {new} : IsHeader(slots', s) => slots'[s].gen <= h[p].gen + 1
    BY <1>3, <1>6, <2>2 DEF IsHeader
  <2> QED
    BY <1>3, <1>4, <1>6, <2>1, <2>3, BlankAssumption DEF Leads, IsHeader
<1>8. PICK n \in Nat, m \in Nat : n = h[p].n /\ m = NewCount(p) /\ n < m
  BY <1>4
<1>9. /\ Month(slots, recs) = [i \in 1 .. n |-> recs[i]]
      /\ Month(slots', recs') = [i \in 1 .. m |-> recs[i]]
      /\ \A i \in 1 .. m : recs[i] \in Record
  BY <1>1, <1>2, <1>3, <1>5, <1>7, <1>8, CachedMonth, CachedMonthNext
<1>10. /\ Len(Month(slots, recs)) = n /\ Len(Month(slots', recs')) = m
       /\ Month(slots', recs') \in Seq(Record)
  <2>1. \A i \in 1 .. n : recs[i] \in Record
    BY <1>8, <1>9
  <2> QED
    BY <1>9, <2>1, Rows
<1>11. SubSeq(Month(slots', recs'), 1, n) = Month(slots, recs)
  <2>1. n \in 0 .. m
    BY <1>8
  <2> QED
    BY <1>9, <2>1, FirstRows
<1>12. Rising(Month(slots', recs'))
  <2>1. TellsOf(recs', slots'[new])
    BY <1>5, <1>7 DEF RowsInv, Told, Leads
  <2> QED
    BY <1>2, <1>7, <1>8, <1>9, <2>1 DEF TellsOf
<1> QED
  BY <1>2, <1>8, <1>10, <1>11, <1>12 DEF Log!Publish, Log!Ordered, Rising

(* The second barrier acknowledges the month.                              *)
LEMMA SyncSlotAcknowledges ==
    ASSUME NoRot, TypeInv, TypeInv', Inv, NEW p \in Procs, SyncSlot(p)
    PROVE  Log!Acknowledge
<1>1. FileInv /\ HandleInv
  BY DEF Inv
<1>2. UNCHANGED << slots, recs >> /\ h[p].pc = "slotted" /\ Current(Advanced(p))
  BY <1>1 DEF SyncSlot, cache, HandleInv, HandleOK
<1>3. Advanced(p) \in Header /\ NewCount(p) \in 0 .. MaxRecs /\ Advanced(p).n = NewCount(p)
  BY <1>2, AdvancedType DEF Appending, Advanced
<1>4. PICK s \in Slot : Leads(slots, s) /\ slots[s] = Advanced(p)
  <2>1. Advanced(p).gen \in Nat
    BY <1>3 DEF Header
  <2>2. Advanced(p).gen % 2 \in Slot /\ slots[Advanced(p).gen % 2] = Advanced(p)
    BY <1>2, <2>1, SlotOfType DEF Current
  <2> QED
    BY <1>2, <1>3, <2>2, BlankAssumption DEF Current, Leads, IsHeader
<1>5. Month(slots, recs) = [i \in 1 .. NewCount(p) |-> recs[i]]
  BY <1>1, <1>3, <1>4, CachedMonth
<1>6. \A i \in 1 .. NewCount(p) : i <= Len(acked) => acked[i] = recs[i]
  <2>1. Len(acked) \in Nat
    BY DEF TypeInv, TypeOK
  <2>2. acked # << >> => \A i \in 1 .. Len(acked) : recs[i] = acked[i]
    BY <1>1 DEF FileInv, AckInv
  <2>3. \A i \in 1 .. NewCount(p) : i <= Len(acked) => i \in 1 .. Len(acked) /\ acked # << >>
    BY <1>3, <2>1
  <2> QED
    BY <2>2, <2>3
<1>7. acked' = [i \in 1 .. NewCount(p) |-> recs[i]]
  BY <1>6 DEF SyncSlot
<1>8. Month(slots', recs') = Month(slots, recs)
  BY <1>2
<1> QED
  BY <1>5, <1>7, <1>8 DEF Log!Acknowledge

(* A power loss takes back at most what has not been acknowledged.         *)
LEMMA PowerLossLoses ==
    ASSUME NoRot, TypeInv, TypeInv', Inv, Inv', PowerLoss
    PROVE  Log!Lose
<1>1. FileInv /\ FileInv' /\ slots \in Slots /\ slots' \in Slots /\ acked' = acked
  BY DEF Inv, TypeInv, TypeOK, Slots, PowerLoss
<1>2. Len(acked) \in Nat /\ (acked = << >> => Len(acked) = 0)
  BY DEF TypeInv, TypeOK
<1>3. SUFFICES \E n \in Len(acked) .. Len(Month(slots, recs)) :
                   Month(slots', recs') = SubSeq(Month(slots, recs), 1, n)
  BY <1>1 DEF Log!Lose
<1>4. CASE \E s \in Slot : IsHeader(slots', s)
  <2>1. PICK s \in Slot : Leads(slots', s)
    BY <1>1, <1>4, SomeLeads
  <2>2. /\ slots'[s].n \in 0 .. MaxRecs
        /\ Month(slots', recs') = [i \in 1 .. slots'[s].n |-> recs'[i]]
    BY <1>1, <2>1, CachedMonthNext
  <2>3. /\ IsHeader(slots, s) /\ slots'[s] = slotsD[s] /\ slotsD[s].n <= slots[s].n
        /\ slots[s] \in Header /\ \A i \in 1 .. slots'[s].n : recs'[i] = recs[i]
    BY <2>1, LossLeaves DEF Leads
  <2>4. PICK t \in Slot : Leads(slots, t)
    BY <1>1, <2>3, SomeLeads
  <2>5. /\ slots[t].n \in 0 .. MaxRecs
        /\ Month(slots, recs) = [i \in 1 .. slots[t].n |-> recs[i]]
        /\ \A i \in 1 .. slots[t].n : recs[i] \in Record
    BY <1>1, <2>4, CachedMonth
  <2>6. slots[s].n <= slots[t].n
    BY <1>1, <2>3, <2>4 DEF Leads, FileInv, RegionOK
  <2>7. PICK n \in Nat, m \in Nat : n = slots'[s].n /\ m = slots[t].n /\ n <= m
    BY <2>2, <2>3, <2>5, <2>6, MaxRecsAssumption DEF Header
  <2>8. Month(slots', recs') = SubSeq(Month(slots, recs), 1, n)
    <3>1. n \in 0 .. m
      BY <2>7
    <3> QED
      BY <2>2, <2>3, <2>5, <2>7, <3>1, FirstRows
  <2>9. Len(Month(slots, recs)) = m
    BY <2>5, <2>7, Rows
  <2>10. Len(acked) <= n
    <3>1. CASE acked = << >>
      BY <1>2, <2>7, <3>1
    <3>2. CASE acked # << >>
      <4>1. PICK u \in Slot : IsHeader(slots', u) /\ Len(acked) <= slots'[u].n
        BY <1>1, <3>2 DEF FileInv, AckInv, IsHeader
      <4>2. slots'[u].n <= slots'[s].n
        BY <1>1, <2>1, <4>1 DEF Leads, FileInv, RegionOK, IsHeader
      <4>3. slots'[u] \in Header
        BY <1>1, <4>1, HeaderType
      <4> QED
        BY <1>2, <2>7, <4>1, <4>2, <4>3, MaxRecsAssumption DEF Header
    <3> QED
      BY <3>1, <3>2
  <2>11. n \in Len(acked) .. Len(Month(slots, recs))
    BY <1>2, <2>7, <2>9, <2>10
  <2> QED
    BY <2>8, <2>11
<1>5. CASE \A s \in Slot : ~IsHeader(slots', s)
  <2>1. acked = << >>
    BY <1>1, <1>5 DEF FileInv, AckInv, IsHeader
  <2>2. Month(slots', recs') = << >>
    BY <1>5, MonthOfNone
  <2>3. Len(Month(slots, recs)) \in Nat /\ SubSeq(Month(slots, recs), 1, 0) = << >>
    <3>1. CASE \E s \in Slot : IsHeader(slots, s)
      <4>1. PICK t \in Slot : Leads(slots, t)
        BY <1>1, <3>1, SomeLeads
      <4>2. /\ slots[t].n \in Nat
            /\ Month(slots, recs) = [i \in 1 .. slots[t].n |-> recs[i]]
            /\ \A i \in 1 .. slots[t].n : recs[i] \in Record
        BY <1>1, <4>1, CachedMonth, MaxRecsAssumption
      <4>3. Month(slots, recs) \in Seq(Record)
        BY <4>2, Rows
      <4> QED
        BY <4>3
    <3>2. CASE \A s \in Slot : ~IsHeader(slots, s)
      BY <3>2, MonthOfNone
    <3> QED
      BY <3>1, <3>2
  <2> QED
    BY <1>2, <2>1, <2>2, <2>3
<1> QED
  BY <1>4, <1>5

(* The genesis header starts a month no bar has been published of.         *)
LEMMA InitialiseIsUnseen ==
    ASSUME NoRot, TypeInv, TypeInv', Inv, Inv', NEW p \in Procs, Initialise(p)
    PROVE  Month(slots', recs') = Month(slots, recs) /\ acked' = acked
<1>1. FileInv' /\ slots \in Slots
  BY DEF Inv, TypeInv, TypeOK, Slots
<1>2. /\ recs' = recs /\ acked' = acked /\ slots' = [slots EXCEPT ![0] = Genesis]
      /\ slots = BlankSlots
  BY DEF Initialise, disk, Step, SlotOf, Inv, HandleInv, HandleOK, AllZero
<1>3. Month(slots, recs) = << >>
  BY <1>2, MonthOfNone DEF IsHeader, BlankSlots
<1>4. Leads(slots', 0) /\ slots'[0].n = 0 /\ 0 \in Slot
  BY <1>2, BlankAssumption, MaxRecsAssumption
  DEF Leads, IsHeader, BlankSlots, Slot, Genesis, Header
<1>5. Month(slots', recs') = [i \in 1 .. slots'[0].n |-> recs'[i]]
  BY <1>1, <1>4, CachedMonthNext
<1> QED
  BY <1>2, <1>3, <1>4, <1>5

(* Every step publishes, acknowledges, loses, or changes nothing that a    *)
(* reader or a caller is told.                                             *)
LEMMA LogMoves ==
    ASSUME NoRot, TypeInv, TypeInv', Inv, Inv', RowsInv, RowsInv', [Next]_vars
    PROVE  [Log!Next]_<< Month(slots, recs), acked >>
<1> DEFINE Moves == [Log!Next]_<< Month(slots, recs), acked >>
<1> SUFFICES Moves
  OBVIOUS
<1>1. ASSUME Month(slots', recs') = Month(slots, recs), acked' = acked PROVE Moves
  BY <1>1
<1>2. ASSUME UNCHANGED << recs, slots, acked >> PROVE Moves
  BY <1>2
<1>3. ASSUME Log!Publish \/ Log!Acknowledge \/ Log!Lose PROVE Moves
  BY <1>3 DEF Log!Next
<1> HIDE DEF Moves
<1>4. ASSUME NEW p \in Procs, TakeLock(p) \/ OpenStep(p) \/ OpenExisting(p) PROVE Moves
  BY <1>1, <1>2, <1>4, InitialiseIsUnseen
  DEF OpenStep, TakeLock, OpenBars, SyncInitialise, SyncDir, Validate, SyncSidecarName,
      OpenExisting, cache, disk
<1>5. ASSUME NEW p \in Procs, Drop(p) \/ Die(p) \/ \E i \in Pos : ReadRow(p, i) PROVE Moves
  BY <1>2, <1>5 DEF Drop, Die, ReadRow, cache, disk
<1>6. ASSUME NEW p \in Procs, NEW batch \in Offered, StartAppend(p, batch) PROVE Moves
  BY <1>2, <1>6 DEF StartAppend, cache, disk
<1>7. ASSUME NEW p \in Procs, WriteRecord(p) PROVE Moves
  BY <1>1, <1>7, WritingIsUnseen
<1>8. ASSUME NEW p \in Procs, SyncRecords(p) \/ SealBlock(p) \/ SyncSums(p) PROVE Moves
  BY <1>2, <1>8 DEF SyncRecords, SealBlock, SyncSums, cache, disk
<1>9. ASSUME NEW p \in Procs, WriteSlot(p) \/ SyncSlot(p) PROVE Moves
  BY <1>3, <1>9, WriteSlotPublishes, SyncSlotAcknowledges
<1>10. CASE Writeback
  BY <1>2, <1>10 DEF Writeback, cache
<1>11. CASE PowerLoss
  <2>1. Log!Lose
    BY <1>11, PowerLossLoses
  <2> QED
    BY <1>3, <2>1
<1>12. ASSUME NEW i \in Pos PROVE ~Rot(i)
  BY DEF NoRot, Rot
<1>13. CASE UNCHANGED vars
  BY <1>2, <1>13 DEF vars
<1>14. ASSUME NEW p \in Procs, AppendStep(p) PROVE Moves
  BY <1>7, <1>8, <1>9, <1>14 DEF AppendStep
<1>15. CASE Next
  BY <1>4, <1>5, <1>6, <1>10, <1>11, <1>12, <1>14, <1>15 DEF Next
<1> QED
  BY <1>13, <1>15

(* A month nobody has opened is the empty log.                             *)
LEMMA LogInit == Init => Log!Init
<1> SUFFICES ASSUME Init PROVE Log!Init
  OBVIOUS
<1>1. Month(slots, recs) = << >>
  BY MonthOfNone DEF Init, IsHeader, BlankSlots
<1> QED
  BY <1>1 DEF Init, Log!Init

(* On an honest disk the month file is the log it promises to be: whatever *)
(* writers, readers, deaths, torn slots and power losses interleave, a     *)
(* batch appears in the month whole and in time order or not at all, and a *)
(* crash takes back no bar `append` has reported committed.                *)
THEOREM MonthImplementsLog == HonestDisk => (Spec => LogSpec)
<1> SUFFICES ASSUME HonestDisk PROVE Spec => LogSpec
  OBVIOUS
<1>1. Init => RowsInv /\ Log!Init
  BY RowsInit, LogInit
<1>2. TypeInv /\ Inv /\ RowsInv /\ [Next]_vars => RowsInv'
  BY HonestTree, RowsNext
<1>3. TypeInv /\ Inv /\ RowsInv /\ (TypeInv /\ Inv /\ RowsInv)' /\ [Next]_vars
        => [Log!Next]_<< Month(slots, recs), acked >>
  BY HonestTree, LogMoves
<1> QED
  BY <1>1, <1>2, <1>3, HonestTree, Invariance, PTL DEF Spec, LogSpec, Log!Spec
-----------------------------------------------------------------------------
(* Every committed record verifies when the feed is steady.                *)

(* A steady feed always tells the month from its start and always the same: *)
(* every batch it offers is the beginning of one sequence of bars.         *)
Steady(bars) ==
    /\ bars \in Seq(Record) /\ Rising(bars)
    /\ \A batch \in Offered :
           Len(batch) <= Len(bars) /\ \A i \in 1 .. Len(batch) : batch[i] = bars[i]

(* The first n records of the month are the first n bars of the feed.      *)
Tells(bars, n) == n <= Len(bars) /\ \A i \in 1 .. n : recs[i] = bars[i]

(* A sidecar vouches for a block of a month of n records: its checksum is  *)
(* that of the feed's bars, up to the n-th or past it, and both contents   *)
(* of the file hold those bars.                                            *)
Vouches(bars, f, g, sm, b, n) ==
    \E k \in 1 .. Len(bars) :
        /\ n <= k /\ sm[b] = Seal(bars, b, k)
        /\ \A i \in Covered(b, k) : f[i] = bars[i] /\ g[i] = bars[i]

(* Both sidecars vouch for every block of a month of n records.            *)
AllVouched(bars, n) ==
    \A b \in 1 .. BlocksFor(n) :
        Vouches(bars, recs, recsD, sums, b, n) /\ Vouches(bars, recs, recsD, sumsD, b, n)

(* What a handle appends continues the feed; the blocks it has sealed are  *)
(* vouched for.                                                            *)
SealingOK(bars, p) ==
    /\ h[p].pc \in {"writing", "sealing", "summed"} =>
           /\ NewCount(p) <= Len(bars)
           /\ \A j \in 1 .. Len(h[p].batch) : h[p].batch[j] = bars[h[p].n + j]
    /\ h[p].pc = "sealing" =>
           /\ BlockOf(h[p].n + 1) <= h[p].blk
           /\ \A b \in BlockOf(h[p].n + 1) .. BlocksFor(NewCount(p)) :
                  b < h[p].blk => Vouches(bars, recs, recsD, sums, b, NewCount(p))
    /\ h[p].pc = "summed" => AllVouched(bars, NewCount(p))

HeadersVouched(bars) ==
    \A s \in Slot : IsHeader(slots, s) =>
        Tells(bars, slots[s].n) /\ AllVouched(bars, slots[s].n)

SteadyInv(bars) ==
    /\ HeadersVouched(bars)
    /\ \A p \in Procs : SealingOK(bars, p)

-----------------------------------------------------------------------------
(* Blocks.                                                                 *)

(* Positions in order lie in blocks in order, and the next position lies in *)
(* the same block or in the next.                                          *)
LEMMA BlocksInOrder ==
    ASSUME NEW i \in Nat \ {0}
    PROVE  /\ BlockOf(i) \in Nat \ {0}
           /\ \A j \in Nat \ {0} : i <= j => BlockOf(i) <= BlockOf(j)
           /\ BlockOf(i + 1) <= BlockOf(i) + 1
<1>1. i - 1 \in Nat /\ (i - 1) \div BlockRecs \in Nat
  BY BlockRecsAssumption
<1>2. ASSUME NEW j \in Nat \ {0}, i <= j
      PROVE  BlockOf(i) <= BlockOf(j)
  <2>1. j - 1 \in Nat /\ i - 1 <= j - 1
    BY <1>2
  <2>2. \A a, b \in Nat : a <= b => a \div BlockRecs <= b \div BlockRecs
    BY BlockRecsAssumption
  <2>3. (i - 1) \div BlockRecs <= (j - 1) \div BlockRecs /\ (j - 1) \div BlockRecs \in Nat
    BY <1>1, <2>1, <2>2, BlockRecsAssumption
  <2> QED
    BY <1>1, <2>3 DEF BlockOf
<1>3. BlockOf(i + 1) <= BlockOf(i) + 1
  <2>1. \A a \in Nat : (a + 1) \div BlockRecs <= a \div BlockRecs + 1
    BY BlockRecsAssumption
  <2>2. (i + 1) - 1 = (i - 1) + 1
    OBVIOUS
  <2>3. ((i - 1) + 1) \div BlockRecs \in Nat
    BY <1>1, BlockRecsAssumption
  <2> QED
    BY <1>1, <2>1, <2>2, <2>3 DEF BlockOf
<1> QED
  BY <1>1, <1>2, <1>3 DEF BlockOf

(* A month of n records has no block past the n-th record's.               *)
LEMMA BlocksOfMonth ==
    ASSUME NEW n \in 0 .. MaxRecs
    PROVE  /\ BlocksFor(n) \in Nat
           /\ n > 0 => BlocksFor(n) = BlockOf(n)
           /\ \A i \in 1 .. n : BlockOf(i) \in 1 .. BlocksFor(n)
           /\ \A m \in n .. MaxRecs : BlocksFor(n) <= BlocksFor(m)
           /\ 1 .. BlocksFor(n) \subseteq Block
           /\ BlockOf(n + 1) \in Nat \ {0} /\ BlockOf(n + 1) <= BlocksFor(n) + 1
<1>1. n \in Nat /\ MaxRecs \in Nat /\ n <= MaxRecs
  BY MaxRecsAssumption
<1>2. CASE n = 0
  <2>1. BlocksFor(n) = 0
    BY <1>2 DEF BlocksFor
  <2>2. \A m \in n .. MaxRecs : BlocksFor(m) \in Nat
    BY <1>1, BlocksInOrder DEF BlocksFor
  <2>3. BlockOf(1) = 1
    BY BlockRecsAssumption DEF BlockOf
  <2> QED
    BY <1>2, <2>1, <2>2, <2>3
<1>3. CASE n > 0
  <2>1. BlocksFor(n) = BlockOf(n) /\ BlockOf(n) \in Nat \ {0}
    BY <1>1, <1>3, BlocksInOrder DEF BlocksFor
  <2>2. \A m \in n .. MaxRecs : BlocksFor(n) <= BlocksFor(m) /\ BlocksFor(m) \in Nat
    BY <1>1, <1>3, <2>1, BlocksInOrder DEF BlocksFor
  <2>3. \A i \in 1 .. n : BlockOf(i) \in 1 .. BlocksFor(n)
    BY <1>1, <1>3, <2>1, BlocksInOrder
  <2>4. BlocksFor(n) <= BlocksFor(MaxRecs) /\ BlocksFor(MaxRecs) \in Nat
    BY <1>1, <2>2
  <2>5. BlockOf(n + 1) \in Nat \ {0} /\ BlockOf(n + 1) <= BlocksFor(n) + 1
    BY <1>1, <1>3, <2>1, BlocksInOrder
  <2> QED
    BY <1>3, <2>1, <2>2, <2>3, <2>4, <2>5 DEF Block
<1> QED
  BY <1>1, <1>2, <1>3

(* A block before that of the next record holds none past the n-th.        *)
LEMMA FullBlock ==
    ASSUME NEW n \in 0 .. MaxRecs, NEW b, b < BlockOf(n + 1), b \in Nat, NEW k \in Nat, NEW m \in Nat,
           n <= k, n <= m
    PROVE  Covered(b, k) = Covered(b, m)
<1>1. n + 1 \in Nat \ {0} /\ MaxRecs \in Nat
  BY MaxRecsAssumption
<1>2. ASSUME NEW i \in Pos, BlockOf(i) = b PROVE i <= n
  <2>1. i \in Nat \ {0}
    BY <1>1 DEF Pos
  <2>2. ~(n + 1 <= i)
    BY <1>1, <1>2, <2>1, BlocksInOrder
  <2> QED
    BY <1>1, <2>1, <2>2
<1>3. \A i \in Pos : i \in Nat
  BY <1>1 DEF Pos
<1> QED
  BY <1>1, <1>2, <1>3 DEF Covered

-----------------------------------------------------------------------------
(* The feed.                                                               *)

(* Of two bars of a rising sequence the later one has the later time.      *)
LEMMA RisingApart ==
    ASSUME NEW bars \in Seq(Record), Rising(bars),
           NEW i \in 1 .. Len(bars), NEW j \in 1 .. Len(bars), i < j
    PROVE  bars[i].ts < bars[j].ts
<1>1. \A k \in 1 .. Len(bars) : bars[k].ts \in Nat
  BY RowTimes
<1>2. i + 1 \in 1 .. j /\ i \in 1 .. Len(bars) - 1 /\ i + 1 \in 1 .. Len(bars)
  OBVIOUS
<1>3. bars[i].ts < bars[i + 1].ts
  BY <1>2 DEF Rising
<1>4. PICK last \in Nat : last = bars[j].ts
  BY <1>1
<1>5. bars[i + 1].ts <= last
  <2>1. bars[j].ts <= last
    BY <1>4
  <2> QED
    BY <1>2, <2>1, RisingBelow
<1> QED
  BY <1>1, <1>2, <1>3, <1>4, <1>5

(* Rows are the bars of the feed after the first n.                        *)
ComesNext(bars, n, rows) ==
    n + Len(rows) <= Len(bars) /\ \A j \in 1 .. Len(rows) : rows[j] = bars[n + j]

(* What `append` takes of a steady feed is what comes after the month.     *)
LEMMA PlanTells ==
    ASSUME NEW bars, Steady(bars), NEW batch \in Offered,
           NEW f, NEW n \in Nat, NEW last \in Nat, NEW bad,
           n <= Len(bars), \A i \in 1 .. n : f[i] = bars[i], n > 0 => last = bars[n].ts,
           Plan(f, n, last, bad, batch).kind = "follows",
           NEW rows, rows = Plan(f, n, last, bad, batch).rows
    PROVE  ComesNext(bars, n, rows)
<1> DEFINE late == OverlapLen(last, batch)
           overlap == SubSeq(batch, 1, late)
           suffix == SubSeq(batch, Len(overlap) + 1, Len(batch))
<1>1. /\ bars \in Seq(Record) /\ Rising(bars) /\ Len(bars) \in Nat
      /\ batch \in Seq(Record) /\ Len(batch) \in Nat /\ Len(batch) <= Len(bars)
      /\ \A i \in 1 .. Len(batch) : batch[i] = bars[i]
  BY OfferedAssumption DEF Steady
<1>2. Survey(batch) /\ Rising(batch) /\ batch # << >> /\ Len(batch) > 0
  <2>1. Survey(batch)
    BY DEF Plan, Refused
  <2> QED
    BY <1>1, <2>1 DEF Survey, Rising
<1>3. \A i \in 1 .. Len(bars) : bars[i].ts \in Nat
  BY <1>1, RowTimes
<1>4. CASE Follows(n, last, batch)
  <2>1. rows = batch
    BY <1>2, <1>4 DEF Plan
  <2>2. n = 0
    <3> SUFFICES ASSUME n # 0 PROVE FALSE
      OBVIOUS
    <3>1. bars[1].ts > bars[n].ts
      BY <1>1, <1>2, <1>4 DEF Follows
    <3>2. 1 \in 1 .. Len(bars) /\ n \in 1 .. Len(bars)
      BY <1>1, <1>2
    <3>3. n = 1 \/ bars[1].ts < bars[n].ts
      BY <1>1, <3>2, RisingApart
    <3> QED
      BY <1>3, <3>1, <3>2, <3>3
  <2> QED
    BY <1>1, <2>1, <2>2 DEF ComesNext
<1>5. CASE ~Follows(n, last, batch)
  <2>1. rows = suffix /\ suffix # << >> /\ TailMatches(f, n, overlap)
    BY <1>2, <1>5 DEF Plan, Refused
  <2>2. n > 0
    BY <1>5 DEF Follows
  <2>3. late \in Nat /\ late <= Len(batch)
    BY <1>1, OverlapType
  <2>4. Len(overlap) = late /\ \A i \in 1 .. late : overlap[i] = batch[i]
    <3>1. \A i \in 1 .. late : batch[i] \in Record
      BY <1>1, <2>3
    <3>2. /\ Len(overlap) = IF 1 <= late THEN late - 1 + 1 ELSE 0
          /\ \A i \in 1 .. late - 1 + 1 : overlap[i] = batch[1 + i - 1]
      BY <2>3, <3>1, SubSeqProperties
    <3> QED
      BY <2>3, <3>2
  <2>5. \A i \in late + 1 .. Len(batch) : batch[i] \in Record
    BY <1>1, <2>3
  <2>6. /\ suffix \in Seq(Record)
        /\ Len(suffix) = IF late + 1 <= Len(batch) THEN Len(batch) - (late + 1) + 1 ELSE 0
        /\ \A i \in 1 .. Len(batch) - (late + 1) + 1 : suffix[i] = batch[late + 1 + i - 1]
    BY <2>3, <2>4, <2>5, SubSeqProperties, SMTT(20)
  <2> HIDE DEF late, overlap, suffix
  <2>7. late + 1 <= Len(batch) /\ Len(suffix) = Len(batch) - late
    BY <1>1, <2>1, <2>3, <2>6
  <2>8. \A j \in 1 .. Len(suffix) : suffix[j] = batch[late + j]
    <3>1. \A j \in 1 .. Len(suffix) : late + 1 + j - 1 = late + j
      BY <2>3, <2>7
    <3> QED
      BY <1>1, <2>3, <2>6, <2>7, <3>1
  <2>9. late <= n /\ \A i \in 1 .. late : f[(n - late) + i] = batch[i]
    BY <2>1, <2>4 DEF TailMatches, Equal
  <2>10. late # 0
    <3> SUFFICES ASSUME late = 0 PROVE FALSE
      OBVIOUS
    <3>1. batch[1].ts > last
      BY <1>1, <1>2, <2>7, SuffixIsLater DEF late
    <3> QED
      BY <1>5, <3>1 DEF Follows
  <2>11. late = n
    <3>1. f[(n - late) + 1] = batch[1] /\ (n - late) + 1 \in 1 .. n
      BY <2>2, <2>3, <2>9, <2>10
    <3>2. bars[(n - late) + 1] = bars[1] /\ (n - late) + 1 \in 1 .. Len(bars) /\ 1 \in 1 .. Len(bars)
      BY <1>1, <1>2, <3>1
    <3>3. (n - late) + 1 > 1 => bars[1].ts < bars[(n - late) + 1].ts
      BY <1>1, <3>2, RisingApart
    <3> QED
      BY <1>3, <2>3, <2>9, <3>2, <3>3
  <2> QED
    BY <1>1, <2>1, <2>7, <2>8, <2>11 DEF ComesNext
<1> QED
  BY <1>4, <1>5

-----------------------------------------------------------------------------
(* What keeps a block vouched for.                                         *)

(* A record of the feed that both contents of the file hold stays in both. *)
Stands(bars) ==
    \A i \in Pos : recs[i] = bars[i] /\ recsD[i] = bars[i] =>
        recs'[i] = bars[i] /\ recsD'[i] = bars[i]

(* What the sidecars hold of every block is what one of them held.         *)
SumsMoved ==
    \A b \in Block : /\ sums'[b] = sums[b] \/ sums'[b] = sumsD[b]
                     /\ sumsD'[b] = sums[b] \/ sumsD'[b] = sumsD[b]

(* A checksum that vouches for a block goes on vouching for it, also for a  *)
(* shorter month.                                                          *)
LEMMA VouchKept ==
    ASSUME NEW bars \in Seq(Record), Stands(bars), NEW n \in Nat, NEW m \in 0 .. n,
           NEW b, NEW sm, NEW kept, kept[b] = sm[b], Vouches(bars, recs, recsD, sm, b, n)
    PROVE  Vouches(bars, recs', recsD', kept, b, m)
<1>1. PICK k \in 1 .. Len(bars) :
          /\ n <= k /\ sm[b] = Seal(bars, b, k)
          /\ \A i \in Covered(b, k) : recs[i] = bars[i] /\ recsD[i] = bars[i]
  BY DEF Vouches
<1>2. m <= k
  BY <1>1
<1>3. \A i \in Covered(b, k) : recs'[i] = bars[i] /\ recsD'[i] = bars[i]
  BY <1>1 DEF Stands, Covered
<1> QED
  BY <1>1, <1>2, <1>3 DEF Vouches

(* So does a pair of sidecars.                                             *)
LEMMA AllVouchedKept ==
    ASSUME NEW bars \in Seq(Record), Stands(bars), SumsMoved, NEW n \in 0 .. MaxRecs,
           NEW m \in 0 .. n, AllVouched(bars, n)
    PROVE  AllVouched(bars, m)'
<1>1. n \in Nat /\ m \in 0 .. MaxRecs
  BY MaxRecsAssumption
<1>2. BlocksFor(m) \in Nat /\ BlocksFor(n) \in Nat /\ BlocksFor(m) <= BlocksFor(n)
      /\ 1 .. BlocksFor(n) \subseteq Block
  BY <1>1, BlocksOfMonth
<1> SUFFICES ASSUME NEW b \in 1 .. BlocksFor(m)
             PROVE  /\ Vouches(bars, recs', recsD', sums', b, m)
                    /\ Vouches(bars, recs', recsD', sumsD', b, m)
  BY DEF AllVouched
<1>3. b \in 1 .. BlocksFor(n) /\ b \in Block
  BY <1>2
<1>4. Vouches(bars, recs, recsD, sums, b, n) /\ Vouches(bars, recs, recsD, sumsD, b, n)
  BY <1>3 DEF AllVouched
<1>5. /\ sums'[b] = sums[b] \/ sums'[b] = sumsD[b]
      /\ sumsD'[b] = sums[b] \/ sumsD'[b] = sumsD[b]
  BY <1>3 DEF SumsMoved
<1>6. Vouches(bars, recs', recsD', sums', b, m)
  BY <1>1, <1>4, <1>5, VouchKept
<1>7. Vouches(bars, recs', recsD', sumsD', b, m)
  BY <1>1, <1>4, <1>5, VouchKept
<1> QED
  BY <1>6, <1>7

(* A month of no records needs no checksum.                                *)
LEMMA NothingToVouch == \A bars \in Seq(Record) : AllVouched(bars, 0) /\ Tells(bars, 0)
  BY DEF AllVouched, BlocksFor, Tells

(* What a header counts is the feed's, in both contents of the file.       *)
LEMMA HeaderTells ==
    ASSUME TypeInv, FileInv, NEW bars \in Seq(Record), HeadersVouched(bars),
           NEW s \in Slot, IsHeader(slots, s)
    PROVE  /\ slots[s].n \in 0 .. MaxRecs /\ slots[s].n <= Len(bars)
           /\ \A i \in 1 .. slots[s].n : i \in Pos /\ recs[i] = bars[i] /\ recsD[i] = bars[i]
<1>1. slots[s].n \in 0 .. MaxRecs
  BY HeaderType DEF TypeInv, TypeOK, Slots, Header
<1>2. Tells(bars, slots[s].n) /\ Durable(slots[s].n)
  BY DEF HeadersVouched, FileInv, Backed
<1> QED
  BY <1>1, <1>2, MaxRecsAssumption DEF Tells, Durable, Pos

(* The headers stay vouched for when none is new.                          *)
LEMMA HeadersKept ==
    ASSUME TypeInv, FileInv, NEW bars \in Seq(Record), HeadersVouched(bars), Stands(bars),
           (\E s \in Slot : IsHeader(slots, s) /\ slots[s].n > 0) => SumsMoved,
           \A s \in Slot : IsHeader(slots', s) =>
               IsHeader(slots, s) /\ slots'[s].n \in 0 .. slots[s].n
    PROVE  HeadersVouched(bars)'
<1> SUFFICES ASSUME NEW s \in Slot, IsHeader(slots', s)
             PROVE  \E m \in Nat : m = slots'[s].n /\ Tells(bars, m)' /\ AllVouched(bars, m)'
  BY DEF HeadersVouched, Tells, AllVouched
<1>1. IsHeader(slots, s) /\ slots'[s].n \in 0 .. slots[s].n
  OBVIOUS
<1>2. /\ slots[s].n \in 0 .. MaxRecs /\ slots[s].n <= Len(bars)
      /\ \A i \in 1 .. slots[s].n : i \in Pos /\ recs[i] = bars[i] /\ recsD[i] = bars[i]
  BY <1>1, HeaderTells
<1>3. PICK n \in 0 .. MaxRecs : n = slots[s].n
  BY <1>2
<1>4. PICK m \in 0 .. n : m = slots'[s].n
  BY <1>1, <1>3
<1>5. Tells(bars, m)'
  BY <1>2, <1>3, <1>4, MaxRecsAssumption DEF Tells, Stands
<1>6. AllVouched(bars, m)'
  <2>1. CASE n = 0
    <3>1. m = 0
      BY <1>4, <2>1
    <3> QED
      BY <3>1 DEF AllVouched, BlocksFor
  <2>2. CASE n # 0
    <3>1. SumsMoved /\ AllVouched(bars, n)
      BY <1>1, <1>3, <2>2, MaxRecsAssumption DEF HeadersVouched
    <3> QED
      BY <3>1, AllVouchedKept
  <2> QED
    BY <2>1, <2>2
<1> QED
  BY <1>3, <1>4, <1>5, <1>6, MaxRecsAssumption

-----------------------------------------------------------------------------
(* The steps.                                                              *)

(* The places of a batch of l rows after n records.                        *)
LEMMA NextPlace ==
    \A n, d, l \in Nat : d < l => d + 1 \in 1 .. l /\ n + (d + 1) = n + d + 1
  OBVIOUS

LEMMA PlacePast ==
    \A n, l \in Nat : \A i \in 1 .. n + l : i > n => i - n \in 1 .. l /\ n + (i - n) = i
  OBVIOUS

(* A handle nobody touches goes on as it was while no checksum is written. *)
LEMMA SealingKept ==
    ASSUME TypeInv, NEW bars \in Seq(Record), NEW q \in Procs, SealingOK(bars, q), h'[q] = h[q],
           Stands(bars), UNCHANGED sums, \A b \in Block : sumsD'[b] = sums[b] \/ sumsD'[b] = sumsD[b]
    PROVE  SealingOK(bars, q)'
<1>1. NewCount(q)' = NewCount(q)
  BY DEF NewCount
<1>2. h[q].pc \in Appending => NewCount(q) \in 0 .. MaxRecs
  BY AdvancedType
<1>3. h[q].pc = "sealing" =>
          \A b \in BlockOf(h[q].n + 1) .. BlocksFor(NewCount(q)) :
              b < h[q].blk => Vouches(bars, recs', recsD', sums', b, NewCount(q))
  <2> SUFFICES ASSUME h[q].pc = "sealing",
                      NEW b \in BlockOf(h[q].n + 1) .. BlocksFor(NewCount(q)), b < h[q].blk
               PROVE  Vouches(bars, recs', recsD', sums', b, NewCount(q))
    OBVIOUS
  <2>1. Vouches(bars, recs, recsD, sums, b, NewCount(q))
    BY DEF SealingOK
  <2>2. PICK n \in Nat : n = NewCount(q) /\ n \in 0 .. n
    BY <1>2, MaxRecsAssumption DEF Appending
  <2>3. Vouches(bars, recs', recsD', sums', b, n)
    BY <2>1, <2>2, VouchKept
  <2> QED
    BY <2>2, <2>3
<1>4. h[q].pc = "summed" => AllVouched(bars, NewCount(q))'
  <2> SUFFICES ASSUME h[q].pc = "summed" PROVE AllVouched(bars, NewCount(q))'
    OBVIOUS
  <2>1. PICK n \in 0 .. MaxRecs : n = NewCount(q) /\ n \in 0 .. n
    BY <1>2, MaxRecsAssumption DEF Appending
  <2>2. AllVouched(bars, n) /\ SumsMoved
    BY <2>1 DEF SealingOK, SumsMoved
  <2>3. AllVouched(bars, n)'
    BY <2>1, <2>2, AllVouchedKept
  <2> QED
    BY <1>1, <2>1, <2>3 DEF AllVouched
<1> QED
  BY <1>1, <1>3, <1>4 DEF SealingOK

(* A handle that is not on its way to the first write of a header slot has *)
(* sealed nothing.                                                         *)
LEMMA SealingQuiet ==
    ASSUME NEW bars, NEW q \in Procs, h'[q].pc \notin {"writing", "sealing", "summed"}
    PROVE  SealingOK(bars, q)'
  BY DEF SealingOK

(* A step of one process that changes no checksum and publishes no header. *)
LEMMA SteadyQuiet ==
    ASSUME TypeInv, FileInv, NEW bars \in Seq(Record), SteadyInv(bars), NEW p \in Procs, Others(p),
           SealingOK(bars, p)', Stands(bars), UNCHANGED << slots, sums, sumsD >>
    PROVE  SteadyInv(bars)'
<1>1. SumsMoved
  BY DEF SumsMoved
<1>2. \A s \in Slot : IsHeader(slots', s) => IsHeader(slots, s) /\ slots'[s].n \in 0 .. slots[s].n
  BY HeaderType, MaxRecsAssumption DEF IsHeader, TypeInv, TypeOK, Slots, Header
<1>3. HeadersVouched(bars)'
  BY <1>1, <1>2, HeadersKept DEF SteadyInv
<1>4. \A q \in Procs \ {p} : SealingOK(bars, q)'
  BY SealingKept DEF SteadyInv, Others
<1> QED
  BY <1>3, <1>4 DEF SteadyInv

(* Opening, reading and closing leave the sidecar vouching for the month.  *)
LEMMA SteadyOpening ==
    ASSUME TypeInv, FileInv, NEW bars \in Seq(Record), SteadyInv(bars), NEW p \in Procs,
           \/ TakeLock(p) \/ OpenBars(p) \/ SyncInitialise(p) \/ SyncDir(p) \/ Validate(p)
           \/ SyncSidecarName(p) \/ OpenExisting(p) \/ Drop(p) \/ Die(p)
           \/ SyncSlot(p) \/ \E i \in Pos : ReadRow(p, i)
    PROVE  SteadyInv(bars)'
<1>1. /\ UNCHANGED << recs, slots, sums, sumsD >>
      /\ recsD' = recsD \/ recsD' = recs
      /\ Others(p) /\ h'[p].pc \notin {"writing", "sealing", "summed"}
  BY OpeningTakesNothing DEF Appending
<1>2. Stands(bars)
  BY <1>1 DEF Stands
<1>3. SealingOK(bars, p)'
  BY <1>1, SealingQuiet
<1> QED
  BY <1>1, <1>2, <1>3, SteadyQuiet

(* The genesis header needs no checksum.                                   *)
LEMMA SteadyInitialise ==
    ASSUME TypeInv, FileInv, NEW bars \in Seq(Record), SteadyInv(bars), NEW p \in Procs,
           Initialise(p)
    PROVE  SteadyInv(bars)'
<1>1. /\ UNCHANGED << recs, recsD, sums, sumsD >>
      /\ slots' = [slots EXCEPT ![0] = Genesis] /\ slots \in Slots
  BY DEF Initialise, disk, TypeInv, TypeOK, Slots, SlotOf
<1>2. Others(p) /\ h'[p].pc = "zeroed"
  BY StepEffect DEF Initialise
<1>3. HeadersVouched(bars)'
  <2> SUFFICES ASSUME NEW s \in Slot, IsHeader(slots', s)
               PROVE  Tells(bars, slots'[s].n) /\ AllVouched(bars, slots'[s].n)
    BY <1>1 DEF HeadersVouched, Tells, AllVouched
  <2>1. slots'[s] = Genesis \/ slots'[s] = slots[s]
    BY <1>1 DEF Slots
  <2> QED
    BY <2>1, NothingToVouch DEF SteadyInv, HeadersVouched, IsHeader, Genesis
<1>4. Stands(bars)
  BY <1>1 DEF Stands
<1>5. SealingOK(bars, p)'
  BY <1>2, SealingQuiet
<1>6. \A q \in Procs \ {p} : SealingOK(bars, q)'
  BY <1>1, <1>2, <1>4, SealingKept DEF SteadyInv, Others
<1> QED
  BY <1>3, <1>5, <1>6 DEF SteadyInv

(* What `append` takes is the feed's next bars.                            *)
LEMMA SteadyStartAppend ==
    ASSUME TypeInv, Inv, RowsInv, NEW bars, Steady(bars), SteadyInv(bars), NEW p \in Procs,
           NEW batch \in Offered, StartAppend(p, batch)
    PROVE  SteadyInv(bars)'
<1>1. LockInv /\ FileInv /\ HandleInv /\ bars \in Seq(Record)
  BY DEF Inv, Steady
<1>2. h \in [Procs -> HandleType] /\ h[p] \in HandleType
  BY DEF TypeInv, TypeOK
<1>3. UNCHANGED << recs, recsD, slots, sums, sumsD >>
  BY DEF StartAppend, cache, disk
<1>4. PICK rows : /\ rows = PlanFor(p, batch).rows
                  /\ h' = [h EXCEPT ![p].pc = "writing", ![p].batch = rows, ![p].done = 0,
                                    ![p].seen = NoBlock]
  BY DEF StartAppend
<1>5. h'[p] = [h[p] EXCEPT !.pc = "writing", !.batch = rows, !.done = 0, !.seen = NoBlock]
  BY <1>2, <1>4
<1>6. Others(p) /\ h'[p].pc = "writing" /\ h'[p].batch = rows /\ h'[p].n = h[p].n
  BY <1>2, <1>4, <1>5 DEF Others, HandleType
<1>7. Current(HeaderOf(p)) /\ PlanFor(p, batch).kind = "follows"
  BY <1>1 DEF StartAppend, HandleInv, HandleOK
<1> DEFINE at == h[p].gen % 2
<1>8. at \in Slot /\ IsHeader(slots, at) /\ slots[at] = HeaderOf(p)
  BY <1>1, <1>7, HandleHeader DEF Current, HeaderOf
<1>9. HeadersVouched(bars)
  BY DEF SteadyInv
<1>10. /\ h[p].n \in Nat /\ h[p].last \in Nat /\ h[p].n <= Len(bars)
       /\ \A i \in 1 .. h[p].n : recs[i] = bars[i]
       /\ h[p].n > 0 => recs[h[p].n].ts = h[p].last
  <2>1. slots[at].n = h[p].n /\ slots[at].last = h[p].last
    BY <1>8 DEF HeaderOf
  <2>2. h[p].n \in Nat /\ h[p].last \in Nat
    BY <1>2, MaxRecsAssumption DEF HandleType
  <2>3. slots[at].n <= Len(bars) /\ \A i \in 1 .. slots[at].n : recs[i] = bars[i]
    BY <1>1, <1>8, <1>9, HeaderTells
  <2>4. TellsOf(recs, slots[at])
    BY <1>8 DEF RowsInv, Told
  <2> QED
    BY <2>1, <2>2, <2>3, <2>4 DEF TellsOf
<1>11. h[p].n > 0 => h[p].last = bars[h[p].n].ts
  BY <1>10
<1>12. /\ h[p].n + Len(rows) <= Len(bars)
       /\ \A j \in 1 .. Len(rows) : rows[j] = bars[h[p].n + j]
  <2>1. PICK bad : PlanFor(p, batch) = Plan(recs, h[p].n, h[p].last, bad, batch)
    BY DEF PlanFor
  <2>2. PICK n \in Nat, last \in Nat : n = h[p].n /\ last = h[p].last
    BY <1>10
  <2>3. /\ Plan(recs, n, last, bad, batch).kind = "follows"
        /\ rows = Plan(recs, n, last, bad, batch).rows
    BY <1>4, <1>7, <2>1, <2>2
  <2>4. n <= Len(bars) /\ (\A i \in 1 .. n : recs[i] = bars[i]) /\ (n > 0 => last = bars[n].ts)
    BY <1>10, <1>11, <2>2
  <2>5. n + Len(rows) <= Len(bars) /\ \A j \in 1 .. Len(rows) : rows[j] = bars[n + j]
    <3>1. ComesNext(bars, n, rows)
      BY <2>2, <2>3, <2>4, PlanTells
    <3> QED
      BY <3>1 DEF ComesNext
  <2> QED
    BY <2>2, <2>5
<1>13. SealingOK(bars, p)'
  BY <1>6, <1>12 DEF SealingOK, NewCount
<1>14. Stands(bars)
  BY <1>3 DEF Stands
<1> QED
  BY <1>1, <1>3, <1>6, <1>13, <1>14, SteadyQuiet

(* The record written is the feed's bar of its place.                      *)
LEMMA SteadyWriteRecord ==
    ASSUME TypeInv, Inv, NEW bars \in Seq(Record), SteadyInv(bars), NEW p \in Procs, WriteRecord(p)
    PROVE  SteadyInv(bars)'
<1>1. FileInv /\ h \in [Procs -> HandleType] /\ h[p] \in HandleType /\ recs \in File
  BY DEF Inv, TypeInv, TypeOK
<1>2. UNCHANGED << recsD, slots, sums, sumsD >> /\ h[p].pc = "writing"
  BY DEF WriteRecord, disk
<1>3. h'[p] = [h[p] EXCEPT !.done = h[p].done + 1] /\ Others(p)
  BY <1>1 DEF WriteRecord, Others
<1>4. h'[p].pc = "writing" /\ h'[p].n = h[p].n /\ h'[p].batch = h[p].batch
  BY <1>1, <1>2, <1>3 DEF HandleType
<1>5. \A j \in 1 .. Len(h[p].batch) : h[p].batch[j] = bars[h[p].n + j]
  BY <1>2 DEF SteadyInv, SealingOK
<1>6. /\ h[p].done \in Nat /\ h[p].n \in Nat /\ h[p].done < Len(h[p].batch)
      /\ Len(h[p].batch) \in Nat
  BY <1>1, MaxRecsAssumption DEF HandleType, WriteRecord
<1>7. h[p].done + 1 \in 1 .. Len(h[p].batch) /\ h[p].n + (h[p].done + 1) = h[p].n + h[p].done + 1
  BY <1>6, NextPlace
<1>8. h[p].batch[h[p].done + 1] = bars[h[p].n + h[p].done + 1]
  BY <1>5, <1>7
<1>9. Stands(bars)
  BY <1>1, <1>2, <1>8 DEF Stands, WriteRecord, File
<1>10. SealingOK(bars, p)'
  BY <1>2, <1>4 DEF SteadyInv, SealingOK, NewCount
<1> QED
  BY <1>1, <1>2, <1>3, <1>9, <1>10, SteadyQuiet

(* After the first barrier no block is sealed yet.                         *)
LEMMA SteadySyncRecords ==
    ASSUME TypeInv, Inv, NEW bars \in Seq(Record), SteadyInv(bars), NEW p \in Procs, SyncRecords(p)
    PROVE  SteadyInv(bars)'
<1>1. FileInv /\ h \in [Procs -> HandleType] /\ h[p] \in HandleType
  BY DEF Inv, TypeInv, TypeOK
<1>2. UNCHANGED << recs, slots, sums, sumsD >> /\ recsD' = recs /\ h[p].pc = "writing"
  BY DEF SyncRecords, RecordsSynced, cache
<1>3. h'[p] = [h[p] EXCEPT !.pc = "sealing", !.blk = BlockOf(h[p].n + 1)] /\ Others(p)
  BY <1>1 DEF SyncRecords, Others
<1>4. /\ h'[p].pc = "sealing" /\ h'[p].n = h[p].n /\ h'[p].batch = h[p].batch
      /\ h'[p].blk = BlockOf(h[p].n + 1)
  BY <1>1, <1>3 DEF HandleType
<1>5. BlockOf(h[p].n + 1) \in Nat
  <2>1. h[p].n + 1 \in Nat \ {0}
    BY <1>1, MaxRecsAssumption DEF HandleType
  <2> QED
    BY <2>1, BlockOfType
<1>6. NewCount(p)' = NewCount(p)
  BY <1>4 DEF NewCount
<1>7. \A b \in BlockOf(h[p].n + 1) .. BlocksFor(NewCount(p)) : ~(b < h'[p].blk)
  BY <1>4, <1>5
<1>8. SealingOK(bars, p)'
  <2>1. BlockOf(h'[p].n + 1) <= h'[p].blk
    BY <1>4, <1>5
  <2>2. /\ NewCount(p) <= Len(bars)
        /\ \A j \in 1 .. Len(h[p].batch) : h[p].batch[j] = bars[h[p].n + j]
    BY <1>2 DEF SteadyInv, SealingOK
  <2> QED
    BY <1>4, <1>6, <1>7, <2>1, <2>2 DEF SealingOK
<1>9. Stands(bars)
  BY <1>2 DEF Stands
<1> QED
  BY <1>1, <1>2, <1>3, <1>8, <1>9, SteadyQuiet

(* A block is sealed over records that are the feed's in both contents of   *)
(* the file; the sidecar goes on vouching for what the headers count.      *)
LEMMA SteadySealBlock ==
    ASSUME TypeInv, Inv, RowsInv, NEW bars \in Seq(Record), SteadyInv(bars), NEW p \in Procs,
           SealBlock(p)
    PROVE  SteadyInv(bars)'
<1>1. LockInv /\ FileInv /\ HandleInv /\ h \in [Procs -> HandleType] /\ h[p] \in HandleType
  BY DEF Inv, TypeInv, TypeOK
<1>2. /\ UNCHANGED << recs, recsD, slots, sumsD >> /\ h[p].pc = "sealing"
      /\ h[p].blk <= BlocksFor(NewCount(p))
      /\ sums' = [sums EXCEPT ![h[p].blk] = Seal(recs, h[p].blk, NewCount(p))]
  BY DEF SealBlock, disk
<1>3. h'[p] = [h[p] EXCEPT !.blk = h[p].blk + 1] /\ Others(p)
  BY <1>1 DEF SealBlock, Others
<1>4. /\ h'[p].pc = "sealing" /\ h'[p].n = h[p].n /\ h'[p].batch = h[p].batch
      /\ h'[p].blk = h[p].blk + 1 /\ h[p].blk \in Nat
  BY <1>1, <1>2, <1>3 DEF HandleType
<1>5. NewCount(p)' = NewCount(p)
  BY <1>4 DEF NewCount
<1>6. /\ SealingOK(bars, p) /\ NewCount(p) <= Len(bars)
      /\ Current(HeaderOf(p)) /\ Durable(NewCount(p))
  BY <1>1, <1>2 DEF SteadyInv, SealingOK, HandleInv, HandleOK
<1>7. PICK m \in 0 .. MaxRecs : m = NewCount(p)
  BY <1>2, AdvancedType DEF Appending
<1>8. \A s \in Slot : IsHeader(slots, s) => slots[s].n \in 0 .. h[p].n
  BY <1>1, <1>6, HeadersBelow
<1>9. /\ h[p].n \in Nat /\ Len(h[p].batch) \in Nat /\ h[p].n + Len(h[p].batch) = m
      /\ h[p].n < m /\ BlockOf(h[p].n + 1) \in Nat \ {0}
  <2>1. h[p].n \in Nat /\ h[p].batch # << >> /\ h[p].batch \in Seq(Record)
    <3>1. h[p].batch # << >>
      BY <1>2 DEF TypeInv, BatchFits, Appending
    <3> QED
      BY <1>1, <3>1, MaxRecsAssumption DEF HandleType
  <2>2. h[p].n + 1 \in Nat \ {0}
    BY <2>1
  <2>3. BlockOf(h[p].n + 1) \in Nat \ {0}
    BY <2>2, BlocksInOrder
  <2> QED
    BY <1>7, <2>1, <2>3 DEF NewCount
<1> DEFINE at == h[p].gen % 2
<1>10. at \in Slot /\ IsHeader(slots, at) /\ slots[at].n = h[p].n
  BY <1>1, <1>6, HandleHeader
<1>11. HeadersVouched(bars)
  BY DEF SteadyInv
<1>12. \A i \in 1 .. m : recs[i] = bars[i] /\ recsD[i] = bars[i]
  <2> SUFFICES ASSUME NEW i \in 1 .. m PROVE recs[i] = bars[i]
    BY <1>6, <1>7 DEF Durable
  <2>1. CASE i <= h[p].n
    <3>1. i \in 1 .. slots[at].n
      BY <1>9, <1>10, <2>1
    <3> QED
      BY <1>1, <1>10, <1>11, <3>1, HeaderTells
  <2>2. CASE i > h[p].n
    <3>1. i - h[p].n \in 1 .. Len(h[p].batch) /\ h[p].n + (i - h[p].n) = i
      BY <1>9, <2>2, PlacePast
    <3>2. recs[h[p].n + (i - h[p].n)] = h[p].batch[i - h[p].n]
      BY <1>2, <3>1 DEF RowsInv, TakenOK
    <3>3. h[p].batch[i - h[p].n] = bars[h[p].n + (i - h[p].n)]
      BY <1>2, <1>6, <3>1 DEF SealingOK
    <3> QED
      BY <3>1, <3>2, <3>3
  <2> QED
    BY <1>9, <2>1, <2>2
<1>13. Stands(bars)
  BY <1>2 DEF Stands
<1>14. \A b : b # h[p].blk => sums'[b] = sums[b] 
  BY <1>2
<1>15. \A n \in 0 .. m : Vouches(bars, recs', recsD', sums', h[p].blk, n)
  <2>1. h[p].blk \in Block
    <3>1. BlockOf(h[p].n + 1) <= h[p].blk /\ BlockOf(h[p].n + 1) \in Nat \ {0}
      BY <1>2, <1>6, <1>9 DEF SealingOK
    <3>2. BlocksFor(m) \in Nat /\ 1 .. BlocksFor(m) \subseteq Block
      BY BlocksOfMonth
    <3> QED
      BY <1>2, <1>4, <1>7, <3>1, <3>2
  <2>2. sums'[h[p].blk] = Seal(recs, h[p].blk, m)
    BY <1>2, <1>7, <2>1 DEF TypeInv, TypeOK
  <2>3. \A i \in Covered(h[p].blk, m) : recs[i] = bars[i] /\ recsD[i] = bars[i]
    BY <1>12, MaxRecsAssumption DEF Covered, Pos
  <2>4. Seal(recs, h[p].blk, m) = Seal(bars, h[p].blk, m)
    BY <2>3 DEF Seal
  <2>5. m \in 1 .. Len(bars) /\ \A n \in 0 .. m : n <= m
    BY <1>6, <1>7, <1>9
  <2> QED
    BY <1>2, <2>2, <2>3, <2>4, <2>5 DEF Vouches
<1>16. HeadersVouched(bars)'
  <2> SUFFICES ASSUME NEW s \in Slot, IsHeader(slots, s)
               PROVE  AllVouched(bars, slots[s].n)'
    BY <1>2, <1>11 DEF HeadersVouched, Tells, IsHeader, AllVouched
  <2>1. PICK n \in 0 .. m : n = slots[s].n
    BY <1>8, <1>9
  <2>2. AllVouched(bars, n) /\ n \in Nat /\ n \in 0 .. n
    BY <1>11, <2>1 DEF HeadersVouched
  <2>3. ASSUME NEW b \in 1 .. BlocksFor(n)
        PROVE  /\ Vouches(bars, recs', recsD', sums', b, n)
               /\ Vouches(bars, recs', recsD', sumsD', b, n)
    <3>1. Vouches(bars, recs, recsD, sums, b, n) /\ Vouches(bars, recs, recsD, sumsD, b, n)
      BY <2>2 DEF AllVouched
    <3>2. Vouches(bars, recs', recsD', sumsD', b, n)
      BY <1>2, <1>13, <2>2, <3>1, VouchKept
    <3>3. b # h[p].blk => Vouches(bars, recs', recsD', sums', b, n)
      BY <1>13, <1>14, <2>2, <3>1, VouchKept
    <3> QED
      BY <1>15, <3>2, <3>3
  <2>4. AllVouched(bars, n)'
    BY <2>3 DEF AllVouched
  <2> QED
    BY <1>2, <2>1, <2>4 DEF AllVouched
<1>17. SealingOK(bars, p)'
  <2>1. \A b \in BlockOf(h[p].n + 1) .. BlocksFor(m) :
            b < h[p].blk + 1 => Vouches(bars, recs', recsD', sums', b, m)
    <3> SUFFICES ASSUME NEW b \in BlockOf(h[p].n + 1) .. BlocksFor(m), b < h[p].blk + 1
                 PROVE  Vouches(bars, recs', recsD', sums', b, m)
      OBVIOUS
    <3>1. m \in Nat /\ m \in 0 .. m
      BY MaxRecsAssumption
    <3>2. CASE b = h[p].blk
      BY <1>15, <3>1, <3>2
    <3>3. CASE b # h[p].blk
      <4>1. BlockOf(h[p].n + 1) \in Nat /\ BlocksFor(m) \in Nat
        BY <1>9, BlocksOfMonth
      <4>2. b < h[p].blk
        BY <1>4, <3>3, <4>1
      <4>3. Vouches(bars, recs, recsD, sums, b, m)
        BY <1>2, <1>6, <1>7, <4>2 DEF SealingOK
      <4> QED
        BY <1>13, <1>14, <3>1, <3>3, <4>3, VouchKept
    <3> QED
      BY <3>2, <3>3
  <2>2. BlockOf(h[p].n + 1) <= h[p].blk + 1
    <3>1. BlockOf(h[p].n + 1) \in Nat /\ BlockOf(h[p].n + 1) <= h[p].blk
      BY <1>2, <1>6, <1>9 DEF SealingOK
    <3> QED
      BY <1>4, <3>1
  <2> QED
    BY <1>2, <1>4, <1>5, <1>6, <1>7, <2>1, <2>2 DEF SealingOK
<1>18. ASSUME NEW q \in Procs \ {p} PROVE SealingOK(bars, q)'
  <2>1. h[q].pc \notin Exclusive /\ h'[q] = h[q]
    BY <1>1, <1>2, <1>3 DEF LockInv, Others, Exclusive, Appending
  <2> QED
    BY <2>1, SealingQuiet DEF Exclusive, Appending
<1> QED
  BY <1>16, <1>17, <1>18 DEF SteadyInv

(* The sidecar is made durable once it vouches for the whole new month: a  *)
(* block before the first one sealed is full, and unchanged.               *)
LEMMA SteadySyncSums ==
    ASSUME TypeInv, Inv, NEW bars \in Seq(Record), SteadyInv(bars), NEW p \in Procs, SyncSums(p)
    PROVE  SteadyInv(bars)'
<1>1. LockInv /\ FileInv /\ HandleInv /\ h[p] \in HandleType
  BY DEF Inv, TypeInv, TypeOK
<1>2. /\ UNCHANGED << recs, recsD, slots, sums >> /\ sumsD' = sums
      /\ h[p].blk > BlocksFor(NewCount(p))
  BY DEF SyncSums, cache
<1>3. /\ Others(p) /\ h[p].pc = "sealing" /\ h'[p].pc = "summed"
      /\ h'[p].n = h[p].n /\ h'[p].batch = h[p].batch
  BY StepEffect DEF SyncSums
<1>4. NewCount(p)' = NewCount(p)
  BY <1>3 DEF NewCount
<1>5. SealingOK(bars, p) /\ NewCount(p) <= Len(bars) /\ Current(HeaderOf(p))
  BY <1>1, <1>3 DEF SteadyInv, SealingOK, HandleInv, HandleOK
<1>6. PICK m \in 0 .. MaxRecs : m = NewCount(p)
  BY <1>3, AdvancedType DEF Appending
<1>7. PICK n \in 0 .. m : n = h[p].n
  <2>1. h[p].n \in Nat /\ Len(h[p].batch) \in Nat
    BY <1>1, MaxRecsAssumption DEF HandleType
  <2> QED
    BY <1>6, <2>1 DEF NewCount
<1>8. n \in 0 .. MaxRecs /\ m \in Nat /\ m \in 0 .. m /\ n \in Nat
  BY MaxRecsAssumption
<1>9. Stands(bars)
  BY <1>2 DEF Stands
<1>10. AllVouched(bars, n)
  <2>1. h[p].gen % 2 \in Slot /\ IsHeader(slots, h[p].gen % 2) /\ slots[h[p].gen % 2].n = n
    BY <1>1, <1>5, <1>7, HandleHeader
  <2> QED
    BY <2>1 DEF SteadyInv, HeadersVouched
<1>11. ASSUME NEW b \in 1 .. BlocksFor(m)
       PROVE  Vouches(bars, recs, recsD, sums, b, m)
  <2>1. /\ BlocksFor(n) \in Nat /\ BlocksFor(m) \in Nat
        /\ BlockOf(n + 1) \in Nat \ {0} /\ BlockOf(n + 1) <= BlocksFor(n) + 1
    BY <1>8, BlocksOfMonth
  <2>2. CASE BlockOf(n + 1) <= b
    <3>1. b < h[p].blk
      <4>1. h[p].blk \in Nat
        BY <1>1 DEF HandleType
      <4> QED
        BY <1>2, <1>6, <2>1, <4>1
    <3>2. b \in BlockOf(n + 1) .. BlocksFor(m)
      BY <2>1, <2>2
    <3> QED
      BY <1>3, <1>5, <1>6, <1>7, <3>1, <3>2 DEF SealingOK
  <2>3. CASE b < BlockOf(n + 1)
    <3>1. b \in 1 .. BlocksFor(n) /\ b \in Nat
      BY <2>1, <2>3
    <3>2. PICK k \in 1 .. Len(bars) :
              /\ n <= k /\ sums[b] = Seal(bars, b, k)
              /\ \A i \in Covered(b, k) : recs[i] = bars[i] /\ recsD[i] = bars[i]
      BY <1>10, <3>1 DEF AllVouched, Vouches
    <3>3. Covered(b, k) = Covered(b, m)
      <4>1. k \in Nat /\ n <= m
        BY <1>8
      <4> QED
        BY <1>8, <2>3, <3>1, <3>2, <4>1, FullBlock
    <3>4. Seal(bars, b, k) = Seal(bars, b, m)
      BY <3>3 DEF Seal
    <3>5. m \in 1 .. Len(bars) /\ m <= m
      <4>1. h[p].batch # << >> /\ h[p].batch \in Seq(Record)
        BY <1>1, <1>3 DEF TypeInv, BatchFits, Appending, HandleType
      <4> QED
        BY <1>5, <1>6, <1>7, <1>8, <4>1 DEF NewCount
    <3> QED
      BY <3>2, <3>3, <3>4, <3>5 DEF Vouches
  <2> QED
    BY <2>1, <2>2, <2>3
<1>12. AllVouched(bars, m)'
  <2>1. \A b \in 1 .. BlocksFor(m) : /\ Vouches(bars, recs', recsD', sums', b, m)
                                     /\ Vouches(bars, recs', recsD', sumsD', b, m)
    BY <1>2, <1>8, <1>9, <1>11, VouchKept
  <2> QED
    BY <2>1 DEF AllVouched
<1>13. SealingOK(bars, p)'
  <2>1. /\ NewCount(p) <= Len(bars)
        /\ \A j \in 1 .. Len(h[p].batch) : h[p].batch[j] = bars[h[p].n + j]
    BY <1>3, <1>5 DEF SealingOK
  <2>2. AllVouched(bars, NewCount(p))'
    BY <1>4, <1>6, <1>12 DEF AllVouched
  <2> QED
    BY <1>3, <1>4, <2>1, <2>2 DEF SealingOK
<1>14. ASSUME NEW q \in Procs \ {p} PROVE SealingOK(bars, q)'
  <2>1. h[q].pc \notin Exclusive /\ h'[q] = h[q]
    BY <1>1, <1>3 DEF LockInv, Others, Exclusive, Appending
  <2> QED
    BY <2>1, SealingQuiet DEF Exclusive, Appending
<1>15. HeadersVouched(bars)'
  <2>1. SumsMoved
    BY <1>2 DEF SumsMoved
  <2>2. \A s \in Slot : IsHeader(slots', s) => IsHeader(slots, s) /\ slots'[s].n \in 0 .. slots[s].n
    BY <1>2, HeaderType, MaxRecsAssumption DEF IsHeader, TypeInv, TypeOK, Slots, Header
  <2> QED
    BY <1>1, <1>9, <2>1, <2>2, HeadersKept DEF SteadyInv
<1> QED
  BY <1>13, <1>14, <1>15 DEF SteadyInv

(* The header written counts records and blocks that are vouched for.      *)
LEMMA SteadyWriteSlot ==
    ASSUME TypeInv, Inv, RowsInv, NEW bars \in Seq(Record), SteadyInv(bars), NEW p \in Procs,
           WriteSlot(p)
    PROVE  SteadyInv(bars)'
<1>1. FileInv /\ HandleInv /\ h[p] \in HandleType
  BY DEF Inv, TypeInv, TypeOK
<1>2. UNCHANGED << recs, recsD, sums, sumsD >> /\ slots \in Slots
  BY DEF WriteSlot, disk, TypeInv, TypeOK, Slots
<1>3. Others(p) /\ h[p].pc = "summed" /\ h'[p].pc = "slotted"
  BY StepEffect DEF WriteSlot
<1>4. /\ Current(HeaderOf(p)) /\ SealingOK(bars, p) /\ TakenOK(p)
      /\ AllVouched(bars, NewCount(p)) /\ NewCount(p) <= Len(bars)
  BY <1>1, <1>3 DEF HandleInv, HandleOK, SteadyInv, SealingOK, RowsInv
<1> DEFINE at == h[p].gen % 2
           n == h[p].n
<1>5. at \in Slot /\ IsHeader(slots, at) /\ slots[at].n = n
  BY <1>1, <1>4, HandleHeader
<1>6. n \in Nat /\ Len(h[p].batch) \in Nat /\ NewCount(p) = n + Len(h[p].batch)
  BY <1>1, MaxRecsAssumption DEF HandleType, NewCount
<1>7. Tells(bars, NewCount(p))
  <2> SUFFICES ASSUME NEW i \in 1 .. NewCount(p) PROVE recs[i] = bars[i]
    BY <1>4 DEF Tells
  <2>1. CASE i <= n
    <3>1. i \in 1 .. slots[at].n
      BY <1>5, <1>6, <2>1
    <3> QED
      BY <1>1, <1>5, <3>1, HeaderTells DEF SteadyInv
  <2>2. CASE i > n
    <3>1. i - n \in 1 .. Len(h[p].batch) /\ n + (i - n) = i
      BY <1>6, <2>2, PlacePast
    <3>2. recs[n + (i - n)] = h[p].batch[i - n] /\ h[p].batch[i - n] = bars[n + (i - n)]
      BY <1>3, <1>4, <3>1 DEF TakenOK, SealingOK
    <3> QED
      BY <3>1, <3>2
  <2> QED
    BY <1>6, <2>1, <2>2
<1>8. HeadersVouched(bars)'
  <2> SUFFICES ASSUME NEW s \in Slot, IsHeader(slots', s)
               PROVE  Tells(bars, slots'[s].n) /\ AllVouched(bars, slots'[s].n)
    BY <1>2 DEF HeadersVouched, Tells, AllVouched
  <2>1. slots'[s] = Advanced(p) \/ slots'[s] = slots[s]
    BY <1>2 DEF WriteSlot, Slots
  <2>2. Advanced(p).n = NewCount(p)
    BY DEF Advanced
  <2> QED
    BY <1>4, <1>7, <2>1, <2>2 DEF SteadyInv, HeadersVouched, IsHeader
<1>9. Stands(bars)
  BY <1>2 DEF Stands
<1>10. \A q \in Procs : SealingOK(bars, q)'
  BY <1>2, <1>3, <1>9, SealingKept, SealingQuiet DEF SteadyInv, Others
<1> QED
  BY <1>8, <1>10 DEF SteadyInv

(* Writeback brings the disk's content nearer to the cache's.              *)
LEMMA SteadyWriteback ==
    ASSUME TypeInv, Inv, NEW bars \in Seq(Record), SteadyInv(bars), Writeback
    PROVE  SteadyInv(bars)'
<1>1. UNCHANGED << recs, slots, sums, h >> /\ recsD \in File /\ DOMAIN sumsD = Block
  BY DEF Writeback, cache, TypeInv, TypeOK
<1>2. \A i \in Pos : recsD'[i] = recs[i] \/ recsD'[i] = recsD[i]
  BY <1>1 DEF Writeback, File
<1>3. \A b \in Block : sumsD'[b] = sums[b] \/ sumsD'[b] = sumsD[b]
  <2>1. sumsD' = sumsD \/ \E b \in Block : sumsD' = [sumsD EXCEPT ![b] = sums[b]]
    BY DEF Writeback
  <2> QED
    BY <1>1, <2>1
<1>4. Stands(bars)
  BY <1>1, <1>2 DEF Stands
<1>5. SumsMoved
  BY <1>1, <1>3 DEF SumsMoved
<1>6. \A s \in Slot : IsHeader(slots', s) => IsHeader(slots, s) /\ slots'[s].n \in 0 .. slots[s].n
  BY <1>1, HeaderType, MaxRecsAssumption DEF IsHeader, TypeInv, TypeOK, Slots, Header
<1>7. HeadersVouched(bars)'
  BY <1>4, <1>5, <1>6, HeadersKept DEF SteadyInv, Inv
<1>8. \A q \in Procs : SealingOK(bars, q)'
  BY <1>1, <1>3, <1>4, SealingKept DEF SteadyInv
<1> QED
  BY <1>7, <1>8 DEF SteadyInv

(* A power loss leaves the sidecar of the disk, and tears no record that    *)
(* both contents of the file hold alike.                                   *)
LEMMA SteadyPowerLoss ==
    ASSUME TypeInv, Inv, NEW bars \in Seq(Record), SteadyInv(bars), PowerLoss
    PROVE  SteadyInv(bars)'
<1>1. /\ h' = [p \in Procs |-> Closed] /\ recs' = recsD' /\ sums' = sumsD'
      /\ sumsD' = IF Survives("crc") THEN sumsD ELSE BlankSums
  BY DEF PowerLoss
<1>2. FileInv /\ NamesInv
  BY DEF Inv
<1>3. \A s \in Slot : IsHeader(slots', s) => IsHeader(slots, s) /\ slots'[s].n \in 0 .. slots[s].n
  BY LossLeaves, MaxRecsAssumption DEF Header
<1>4. (\E s \in Slot : IsHeader(slots, s) /\ slots[s].n > 0) => Survives("bars") /\ Survives("crc")
  BY <1>2 DEF NamesInv, Survives, Names
<1>5. CASE \E s \in Slot : IsHeader(slots, s) /\ slots[s].n > 0
  <2>1. Survives("bars") /\ Survives("crc")
    BY <1>4, <1>5
  <2>2. SumsMoved
    BY <1>1, <2>1 DEF SumsMoved
  <2>3. \A i \in Pos : recsD[i] = recs[i] => recsD'[i] = recsD[i]
    BY <2>1 DEF PowerLoss
  <2>4. Stands(bars)
    BY <1>1, <2>3 DEF Stands
  <2>5. HeadersVouched(bars)'
    BY <1>2, <1>3, <2>2, <2>4, HeadersKept DEF SteadyInv
  <2> QED
    BY <1>1, <2>5, SealingQuiet DEF SteadyInv, Closed
<1>6. CASE ~ \E s \in Slot : IsHeader(slots, s) /\ slots[s].n > 0
  <2> SUFFICES ASSUME NEW s \in Slot, IsHeader(slots', s)
               PROVE  \E m \in {0} : m = slots'[s].n /\ Tells(bars, m)' /\ AllVouched(bars, m)'
    BY <1>1, SealingQuiet DEF SteadyInv, HeadersVouched, Tells, AllVouched, Closed
  <2>1. slots[s].n \in Nat
    BY <1>3, HeaderType, MaxRecsAssumption DEF TypeInv, TypeOK, Slots, Header
  <2>2. slots'[s].n = 0
    BY <1>3, <1>6, <2>1
  <2>3. Tells(bars, 0)' /\ AllVouched(bars, 0)'
    BY DEF Tells, AllVouched, BlocksFor
  <2> QED
    BY <2>2, <2>3
<1> QED
  BY <1>5, <1>6

(* Every step on an honest disk keeps the sidecar vouching for the month   *)
(* of a steady feed.                                                       *)
LEMMA SteadyNext ==
    ASSUME NoRot, TypeInv, Inv, RowsInv, NEW bars, Steady(bars), SteadyInv(bars), [Next]_vars
    PROVE  SteadyInv(bars)'
<1>0. bars \in Seq(Record) /\ FileInv
  BY DEF Steady, Inv
<1>1. ASSUME NEW p \in Procs, TakeLock(p) \/ OpenStep(p) \/ OpenExisting(p)
      PROVE  SteadyInv(bars)'
  BY <1>0, <1>1, SteadyOpening, SteadyInitialise DEF OpenStep
<1>2. ASSUME NEW p \in Procs, Drop(p) \/ Die(p) \/ \E i \in Pos : ReadRow(p, i)
      PROVE  SteadyInv(bars)'
  BY <1>0, <1>2, SteadyOpening
<1>3. ASSUME NEW p \in Procs, NEW batch \in Offered, StartAppend(p, batch)
      PROVE  SteadyInv(bars)'
  BY <1>3, SteadyStartAppend
<1>4. ASSUME NEW p \in Procs, AppendStep(p) PROVE SteadyInv(bars)'
  BY <1>0, <1>4, SteadyWriteRecord, SteadySyncRecords, SteadySealBlock, SteadySyncSums,
     SteadyWriteSlot, SteadyOpening DEF AppendStep
<1>5. Writeback \/ PowerLoss => SteadyInv(bars)'
  BY <1>0, SteadyWriteback, SteadyPowerLoss
<1>6. ASSUME NEW i \in Pos PROVE ~Rot(i)
  BY DEF NoRot, Rot
<1>7. CASE UNCHANGED vars
  <2>1. Stands(bars) /\ SumsMoved
    BY <1>7 DEF vars, Stands, SumsMoved
  <2>2. \A s \in Slot : IsHeader(slots', s) => IsHeader(slots, s) /\ slots'[s].n \in 0 .. slots[s].n
    BY <1>7, HeaderType, MaxRecsAssumption DEF vars, IsHeader, TypeInv, TypeOK, Slots, Header
  <2>3. HeadersVouched(bars)'
    BY <1>0, <2>1, <2>2, HeadersKept DEF SteadyInv
  <2>4. \A q \in Procs : SealingOK(bars, q)'
    BY <1>0, <1>7, <2>1, SealingKept DEF SteadyInv, vars
  <2> QED
    BY <2>3, <2>4 DEF SteadyInv
<1> QED
  BY <1>1, <1>2, <1>3, <1>4, <1>5, <1>6, <1>7 DEF Next

(* A month nobody has opened needs no checksum.                            *)
LEMMA SteadyInit == \A bars : Init => SteadyInv(bars)
  BY DEF Init, SteadyInv, HeadersVouched, IsHeader, BlankSlots, SealingOK, Closed

-----------------------------------------------------------------------------
(* What is vouched for verifies.                                           *)

(* A block verifies when its checksum vouches for it: as of the month's    *)
(* count, or of the last record the checksum covers in the tail block.     *)
LEMMA VouchedVerifies ==
    ASSUME NEW bars \in Seq(Record), NEW f \in File, NEW sm, NEW n \in 0 .. MaxRecs,
           NEW i \in 1 .. n,
           NEW k \in 1 .. Len(bars), n <= k, sm[BlockOf(i)] = Seal(bars, BlockOf(i), k),
           \A j \in Covered(BlockOf(i), k) : f[j] = bars[j]
    PROVE  VerifyThrough(f, sm[BlockOf(i)], n, BlockOf(i))
<1> DEFINE b == BlockOf(i)
<1>1. /\ n \in Nat /\ i \in Nat \ {0} /\ MaxRecs \in Nat /\ n # 0
      /\ Len(bars) \in Nat /\ k \in Nat
  BY MaxRecsAssumption
<1>2. /\ BlocksFor(n) = BlockOf(n) /\ b \in 1 .. BlocksFor(n) /\ b \in Nat /\ BlocksFor(n) \in Nat
  <2>1. /\ BlocksFor(n) = BlockOf(n) /\ BlocksFor(n) \in Nat
        /\ \A j \in 1 .. n : BlockOf(j) \in 1 .. BlocksFor(n)
    BY <1>1, BlocksOfMonth
  <2> QED
    BY <2>1
<1>3. Covered(b, n) \subseteq Covered(b, k)
  BY <1>1 DEF Covered, Pos
<1> HIDE DEF b
<1>4. CASE b < BlocksFor(n)
  <2>1. Covered(b, k) = Covered(b, n)
    <3>1. ASSUME NEW j \in Pos, BlockOf(j) = b PROVE j <= n
      <4>1. j \in Nat \ {0}
        BY <1>1 DEF Pos
      <4>2. ~(n <= j)
        BY <1>1, <1>2, <1>4, <3>1, <4>1, BlocksInOrder
      <4> QED
        BY <1>1, <4>1, <4>2
    <3>2. \A j \in Pos : j \in Nat
      BY <1>1 DEF Pos
    <3> QED
      BY <1>1, <3>1, <3>2 DEF Covered
  <2>2. Seal(bars, b, k) = Seal(f, b, n)
    BY <2>1 DEF Seal, b
  <2> QED
    BY <2>2 DEF VerifyThrough, b
<1>5. CASE b = BlocksFor(n)
  <2>1. n \in Covered(b, k) /\ Covered(b, k) \in SUBSET (1 .. k)
    <3>1. n \in Pos /\ BlockOf(n) = b /\ n <= k
      BY <1>1, <1>2, <1>5 DEF Pos
    <3>2. \A j \in Pos : j \in Nat /\ 1 <= j
      BY <1>1 DEF Pos
    <3>3. \A j \in Covered(b, k) : j \in 1 .. k
      BY <1>1, <3>2 DEF Covered
    <3>4. n \in Covered(b, k)
      BY <3>1 DEF Covered
    <3> QED
      BY <3>3, <3>4
  <2>2. PICK g \in Covered(b, k) : \A j \in Covered(b, k) : j <= g
    BY <1>1, <2>1, HighestMember
  <2>3. g \in Pos /\ g \in Nat /\ BlockOf(g) = b /\ n <= g /\ g <= k /\ g \in 1 .. Len(bars)
    BY <1>1, <2>1, <2>2 DEF Covered, Pos
  <2>4. Covered(b, g) = Covered(b, k)
    <3>1. \A j \in Pos : j \in Nat
      BY <1>1 DEF Pos
    <3>2. ASSUME NEW j \in Pos PROVE j \in Covered(b, g) <=> j \in Covered(b, k)
      <4>1. j \in Covered(b, k) => j <= g
        BY <2>2
      <4>2. j <= g => j <= k
        BY <1>1, <2>3, <3>1
      <4> QED
        BY <4>1, <4>2 DEF Covered
    <3> QED
      BY <3>2 DEF Covered
  <2>5. Seal(bars, b, k) = Seal(f, b, g)
    BY <2>4 DEF Seal, b
  <2>6. g <= Held(f)
    <3>1. f[g] = bars[g] /\ bars[g] \in Record
      BY <2>2, <2>3 DEF b
    <3> QED
      BY <2>3, <3>1, HeldCovers, CellAssumption
  <2>7. g \in {n} \cup PastTheCommit(f, n, b)
    BY <1>1, <1>5, <2>3, <2>6 DEF PastTheCommit
  <2> QED
    BY <2>5, <2>7 DEF VerifyThrough, b
<1> QED
  BY <1>2, <1>4, <1>5

(* On an honest disk every committed record can be read through its        *)
(* block's checksum, in the page cache and in what a power loss would      *)
(* leave, at every instant of every append and after any crash, for every  *)
(* feed that always tells the month from its start and always the same.    *)
THEOREM CommittedRecordsVerify ==
    ASSUME NEW bars, Steady(bars), HonestDisk
    PROVE  Spec => []CommittedVerifies
<1>1. Init => TypeInv /\ Inv /\ RowsInv /\ SteadyInv(bars)
  BY HonestTree, TypeInit, SafeInit, RowsInit, SteadyInit
<1>2. TypeInv /\ Inv /\ RowsInv /\ SteadyInv(bars) /\ [Next]_vars =>
          TypeInv' /\ Inv' /\ RowsInv' /\ SteadyInv(bars)'
  BY HonestTree, TypeNext, SafeNext, RowsNext, SteadyNext
<1>3. TypeInv /\ Inv /\ SteadyInv(bars) => CommittedVerifies
  <2> SUFFICES ASSUME TypeInv, Inv, SteadyInv(bars) PROVE CommittedVerifies
    OBVIOUS
  <2>1. /\ FileInv /\ bars \in Seq(Record) /\ HeadersVouched(bars)
        /\ recs \in File /\ recsD \in File /\ slots \in Slots /\ slotsD \in Slots
    BY DEF Inv, Steady, SteadyInv, TypeInv, TypeOK, Slots
  <2>2. ASSUME NEW s \in Slot, IsHeader(slots, s), NEW n \in 0 .. slots[s].n, NEW i \in 1 .. n
        PROVE  /\ VerifyThrough(recs, sums[BlockOf(i)], n, BlockOf(i))
               /\ VerifyThrough(recsD, sumsD[BlockOf(i)], n, BlockOf(i))
    <3>1. PICK m \in 0 .. MaxRecs : m = slots[s].n
      BY <2>1, <2>2, HeaderTells
    <3>2. n \in 0 .. MaxRecs /\ i \in 1 .. m /\ n <= m /\ n \in Nat /\ m \in Nat
      BY <3>1, MaxRecsAssumption
    <3>3. BlockOf(i) \in 1 .. BlocksFor(m) /\ AllVouched(bars, m)
      BY <2>1, <2>2, <3>1, <3>2, BlocksOfMonth DEF HeadersVouched
    <3>4. PICK k \in 1 .. Len(bars) :
              /\ m <= k /\ sums[BlockOf(i)] = Seal(bars, BlockOf(i), k)
              /\ \A j \in Covered(BlockOf(i), k) : recs[j] = bars[j] /\ recsD[j] = bars[j]
      BY <3>3 DEF AllVouched, Vouches
    <3>5. PICK l \in 1 .. Len(bars) :
              /\ m <= l /\ sumsD[BlockOf(i)] = Seal(bars, BlockOf(i), l)
              /\ \A j \in Covered(BlockOf(i), l) : recs[j] = bars[j] /\ recsD[j] = bars[j]
      BY <3>3 DEF AllVouched, Vouches
    <3>6. n <= k /\ n <= l
      BY <2>1, <3>2, <3>4, <3>5
    <3>7. VerifyThrough(recs, sums[BlockOf(i)], n, BlockOf(i))
      BY <2>1, <3>2, <3>4, <3>6, VouchedVerifies
    <3>8. VerifyThrough(recsD, sumsD[BlockOf(i)], n, BlockOf(i))
      BY <2>1, <3>2, <3>5, <3>6, VouchedVerifies
    <3> QED
      BY <3>7, <3>8
  <2>3. Count(slots, recs) = 0 \/ \E s \in Slot : IsHeader(slots, s) /\ Count(slots, recs) \in 0 .. slots[s].n
    <3>1. CASE ~Opens(slots, recs)
      BY <3>1 DEF Count
    <3>2. CASE Opens(slots, recs)
      <4>1. Supported(slots, recs) # {} /\ Count(slots, recs) = Chosen(slots, recs).n
        BY <3>2 DEF Opens, Count
      <4>2. Chosen(slots, recs) \in Supported(slots, recs) /\ Chosen(slots, recs) \in Header
        BY <2>1, <4>1, ChosenIsNewest
      <4>3. PICK s \in Slot : IsHeader(slots, s) /\ slots[s] = Chosen(slots, recs)
        BY <4>2 DEF Supported, Decodable, IsHeader
      <4> QED
        BY <4>1, <4>2, <4>3, MaxRecsAssumption DEF Header
    <3> QED
      BY <3>1, <3>2
  <2>4. Count(slotsD, recsD) = 0 \/ \E s \in Slot : IsHeader(slots, s) /\ Count(slotsD, recsD) \in 0 .. slots[s].n
    <3>1. CASE ~Opens(slotsD, recsD)
      BY <3>1 DEF Count
    <3>2. CASE Opens(slotsD, recsD)
      <4>1. Supported(slotsD, recsD) # {} /\ Count(slotsD, recsD) = Chosen(slotsD, recsD).n
        BY <3>2 DEF Opens, Count
      <4>2. Chosen(slotsD, recsD) \in Supported(slotsD, recsD) /\ Chosen(slotsD, recsD) \in Header
        BY <2>1, <4>1, ChosenIsNewest
      <4>3. PICK s \in Slot : IsHeader(slotsD, s) /\ slotsD[s] = Chosen(slotsD, recsD)
        BY <4>2 DEF Supported, Decodable, IsHeader
      <4>4. IsHeader(slots, s) /\ slotsD[s].n <= slots[s].n /\ slots[s] \in Header
        BY <2>1, <4>3, HeaderType DEF FileInv, DirtyInv
      <4> QED
        BY <4>1, <4>2, <4>3, <4>4, MaxRecsAssumption DEF Header
    <3> QED
      BY <3>1, <3>2
  <2>5. Unverifiable(recs, sums, Count(slots, recs)) = {}
    BY <2>2, <2>3 DEF Unverifiable
  <2>6. Unverifiable(recsD, sumsD, Count(slotsD, recsD)) = {}
    BY <2>2, <2>4 DEF Unverifiable
  <2> QED
    BY <2>5, <2>6 DEF CommittedVerifies
<1> QED
  BY <1>1, <1>2, <1>3, PTL DEF Spec
-----------------------------------------------------------------------------
(* An append never seals a rotted record.  The tree of the month exists;   *)
(* its records may rot whenever no append is under way, its slots may tear. *)

(* What was committed at a place of the month: what `append` reported, and  *)
(* past that what the file holds.                                          *)
Truth(a, f, i) == IF i <= Len(a) THEN a[i] ELSE f[i]

(* A sidecar remembers what was committed at the first n places.           *)
Remembers(a, f, sm, n) == \A i \in 1 .. n : sm[BlockOf(i)][i] = Truth(a, f, i)

(* Since `append` verified the old tail, the records that share its block  *)
(* with the batch are what was committed; the blocks sealed since remember *)
(* them and the batch.                                                     *)
TailOK(p) ==
    /\ h[p].pc \in Appending =>
           \A i \in 1 .. h[p].n :
               BlockOf(h[p].n + 1) <= BlockOf(i) => recs[i] = Truth(acked, recs, i)
    /\ h[p].pc = "sealing" =>
           /\ BlockOf(h[p].n + 1) <= h[p].blk
           /\ \A i \in 1 .. NewCount(p) :
                  BlockOf(h[p].n + 1) <= BlockOf(i) /\ BlockOf(i) < h[p].blk =>
                      sums[BlockOf(i)][i] = Truth(acked, recs, i)
    /\ h[p].pc = "summed" => /\ Remembers(acked, recs, sums, NewCount(p))
                             /\ Remembers(acked, recs, sumsD, NewCount(p))

HeadersRemembered ==
    \A s \in Slot : IsHeader(slots, s) =>
        /\ Remembers(acked, recs, sums, slots[s].n)
        /\ Remembers(acked, recs, sumsD, slots[s].n)

RotInv == HeadersRemembered /\ \A p \in Procs : TailOK(p)

(* Records of the month that a step leaves what they were committed as.    *)
TruthStands(n) == \A i \in 1 .. n : Truth(acked', recs', i) = Truth(acked, recs, i)

(* The headers' records stay remembered when no header is new.             *)
LEMMA RememberedKept ==
    ASSUME TypeInv, HeadersRemembered,
           (\E s \in Slot : IsHeader(slots, s) /\ slots[s].n > 0) => SumsMoved,
           \A s \in Slot : IsHeader(slots', s) =>
               /\ IsHeader(slots, s) /\ slots'[s].n \in 0 .. slots[s].n
               /\ TruthStands(slots'[s].n)
    PROVE  HeadersRemembered'
<1> SUFFICES ASSUME NEW s \in Slot, IsHeader(slots', s)
             PROVE  /\ Remembers(acked', recs', sums', slots'[s].n)
                    /\ Remembers(acked', recs', sumsD', slots'[s].n)
  BY DEF HeadersRemembered
<1>1. /\ IsHeader(slots, s) /\ slots'[s].n \in 0 .. slots[s].n
      /\ TruthStands(slots'[s].n)
  OBVIOUS
<1>2. PICK n \in 0 .. MaxRecs : n = slots[s].n
  BY <1>1, HeaderType DEF TypeInv, TypeOK, Slots, Header
<1>3. PICK m \in 0 .. n : m = slots'[s].n
  BY <1>1, <1>2
<1>4. /\ Remembers(acked, recs, sums, n) /\ Remembers(acked, recs, sumsD, n)
  BY <1>1, <1>2 DEF HeadersRemembered
<1>5. ASSUME NEW i \in 1 .. m
      PROVE  /\ sums'[BlockOf(i)][i] = Truth(acked', recs', i)
             /\ sumsD'[BlockOf(i)][i] = Truth(acked', recs', i)
  <2>1. i \in 1 .. n /\ n > 0 /\ n \in Nat
    BY MaxRecsAssumption
  <2>2. BlockOf(i) \in Block
    BY <2>1, BlocksOfMonth
  <2>3. SumsMoved
    BY <1>1, <1>2, <2>1
  <2>4. /\ sums[BlockOf(i)][i] = Truth(acked, recs, i)
        /\ sumsD[BlockOf(i)][i] = Truth(acked, recs, i)
    BY <1>4, <2>1 DEF Remembers
  <2>5. Truth(acked', recs', i) = Truth(acked, recs, i)
    BY <1>1, <1>3 DEF TruthStands
  <2> QED
    BY <2>2, <2>3, <2>4, <2>5 DEF SumsMoved
<1> QED
  BY <1>3, <1>5 DEF Remembers

(* A handle that does not append has no tail to answer for.                *)
LEMMA TailQuiet ==
    ASSUME NEW q \in Procs, h'[q].pc \notin Appending
    PROVE  TailOK(q)'
  BY DEF TailOK, Appending

(* A step of a writer finds no other handle appending.                     *)
LEMMA TailOfOthers ==
    ASSUME LockInv, NEW p \in Procs, h[p].pc \in Exclusive, Others(p), NEW q \in Procs \ {p}
    PROVE  TailOK(q)'
<1>1. h[q].pc \notin Exclusive /\ h'[q] = h[q]
  BY DEF LockInv, Others
<1> QED
  BY <1>1, TailQuiet DEF Exclusive

(* A handle nobody touches goes on as it was while the records and the     *)
(* cached sidecar do.                                                      *)
LEMMA TailKept ==
    ASSUME TypeInv, NEW q \in Procs, TailOK(q), h'[q] = h[q], UNCHANGED << recs, sums, acked >>,
           \A b \in Block : sumsD'[b] = sums[b] \/ sumsD'[b] = sumsD[b]
    PROVE  TailOK(q)'
<1>1. NewCount(q)' = NewCount(q)
  BY DEF NewCount
<1>2. ASSUME h[q].pc = "summed"
      PROVE  Remembers(acked', recs', sumsD', NewCount(q))
  <2>1. PICK n \in 0 .. MaxRecs : n = NewCount(q)
    BY <1>2, AdvancedType DEF Appending
  <2>2. Remembers(acked, recs, sums, n) /\ Remembers(acked, recs, sumsD, n)
    BY <1>2, <2>1 DEF TailOK
  <2>3. \A i \in 1 .. n : BlockOf(i) \in Block
    BY BlocksOfMonth
  <2> QED
    BY <2>1, <2>2, <2>3 DEF Remembers
<1> QED
  BY <1>1, <1>2 DEF TailOK, Remembers

(* A step of one handle that touches neither the records nor a checksum nor *)
(* a header.                                                               *)
LEMMA RotQuiet ==
    ASSUME TypeInv, RotInv, NEW p \in Procs, Others(p), TailOK(p)',
           UNCHANGED << recs, slots, sums, sumsD, acked >>
    PROVE  RotInv'
<1>1. SumsMoved
  BY DEF SumsMoved
<1>2. \A s \in Slot : IsHeader(slots', s) =>
          /\ IsHeader(slots, s) /\ slots'[s].n \in 0 .. slots[s].n
          /\ TruthStands(slots'[s].n)
  BY HeaderType, MaxRecsAssumption DEF IsHeader, TypeInv, TypeOK, Slots, Header, TruthStands
<1>3. HeadersRemembered'
  BY <1>1, <1>2, RememberedKept DEF RotInv
<1>4. \A q \in Procs \ {p} : TailOK(q)'
  BY TailKept DEF RotInv, Others
<1> QED
  BY <1>3, <1>4 DEF RotInv

(* No header counts more than that of a handle that is open or appends,    *)
(* and no more was reported committed.                                     *)
LEMMA AckedBelow ==
    ASSUME TypeInv, FileInv, NEW p \in Procs, Current(HeaderOf(p))
    PROVE  Len(acked) \in Nat /\ Len(acked) <= h[p].n
<1>1. Len(acked) \in Nat /\ (acked = << >> => Len(acked) = 0) /\ h[p].n \in Nat
  BY MaxRecsAssumption DEF TypeInv, TypeOK, HandleType
<1>2. CASE acked = << >>
  BY <1>1, <1>2
<1>3. CASE acked # << >>
  <2>1. PICK s \in Slot : IsHeader(slots, s) /\ Len(acked) <= slots[s].n
    BY <1>3 DEF FileInv, AckInv
  <2>2. slots[s].n \in Nat /\ slots[s].n <= h[p].n
    BY <2>1, HandleHeader, HeaderType, MaxRecsAssumption DEF TypeInv, TypeOK, Slots, Header
  <2> QED
    BY <1>1, <2>1, <2>2
<1> QED
  BY <1>2, <1>3

(* A block ends where the count is a multiple of its size.                 *)
LEMMA BlockEnds ==
    ASSUME NEW n \in Nat \ {0}, BlockOf(n + 1) = BlockOf(n)
    PROVE  n % BlockRecs # 0
<1>1. \A a \in Nat : (a + 1) % BlockRecs = 0 => (a + 1) \div BlockRecs = a \div BlockRecs + 1
  BY BlockRecsAssumption
<1>2. n - 1 \in Nat /\ (n - 1) + 1 = n /\ (n + 1) - 1 = n
  OBVIOUS
<1>3. n % BlockRecs = 0 => n \div BlockRecs = (n - 1) \div BlockRecs + 1
  BY <1>1, <1>2
<1>4. (n - 1) \div BlockRecs \in Nat
  BY <1>2, BlockRecsAssumption
<1> QED
  BY <1>2, <1>3, <1>4 DEF BlockOf

(* A record whose block verifies is what the sidecar remembers.            *)
LEMMA VerifiedIsRemembered ==
    ASSUME NEW f, NEW sm, NEW n \in 0 .. MaxRecs, NEW i \in 1 .. n,
           VerifyThrough(f, sm[BlockOf(i)], n, BlockOf(i)),
           NEW j \in 1 .. n, BlockOf(j) = BlockOf(i)
    PROVE  sm[BlockOf(j)][j] = f[j]
<1>1. PICK k \in {n} \cup PastTheCommit(f, n, BlockOf(i)) : sm[BlockOf(i)] = Seal(f, BlockOf(i), k)
  BY DEF VerifyThrough
<1>2. n \in Nat /\ MaxRecs \in Nat /\ k \in Nat /\ n <= k
  BY <1>1, MaxRecsAssumption DEF PastTheCommit, Pos
<1>3. j \in Covered(BlockOf(i), k)
  BY <1>2 DEF Covered, Pos
<1> QED
  BY <1>1, <1>3 DEF Seal

-----------------------------------------------------------------------------
(* The steps of an append.                                                 *)

(* Opening, reading and closing change nothing a sidecar remembers.        *)
LEMMA RotOpening ==
    ASSUME TypeInv, RotInv, NEW p \in Procs,
           \/ TakeLock(p) \/ OpenBars(p) \/ SyncInitialise(p) \/ SyncDir(p) \/ Validate(p)
           \/ SyncSidecarName(p) \/ OpenExisting(p) \/ Drop(p) \/ Die(p)
           \/ \E i \in Pos : ReadRow(p, i)
    PROVE  RotInv'
<1>1. /\ UNCHANGED << recs, slots, sums, sumsD, acked >> /\ Others(p)
      /\ h'[p].pc \notin Appending
  <2>1. UNCHANGED acked
    BY DEF TakeLock, OpenBars, SyncInitialise, SyncDir, Validate, SyncSidecarName, OpenExisting,
           Drop, Die, ReadRow
  <2> QED
    BY <2>1, OpeningTakesNothing
<1>2. TailOK(p)'
  BY <1>1, TailQuiet
<1> QED
  BY <1>1, <1>2, RotQuiet

(* The genesis header counts no record.                                    *)
LEMMA RotInitialise ==
    ASSUME TypeInv, Inv, RotInv, NEW p \in Procs, Initialise(p)
    PROVE  RotInv'
<1>1. /\ UNCHANGED << recs, sums, sumsD, acked >>
      /\ slots' = [slots EXCEPT ![0] = Genesis] /\ slots \in Slots
  BY DEF Initialise, disk, TypeInv, TypeOK, Slots, SlotOf
<1>2. Others(p) /\ h[p].pc = "empty" /\ h'[p].pc = "zeroed"
  BY StepEffect DEF Initialise
<1>3. HeadersRemembered'
  <2> SUFFICES ASSUME NEW s \in Slot, IsHeader(slots', s)
               PROVE  /\ Remembers(acked, recs, sums, slots'[s].n)
                      /\ Remembers(acked, recs, sumsD, slots'[s].n)
    BY <1>1 DEF HeadersRemembered
  <2>1. slots'[s] = Genesis \/ slots'[s] = slots[s]
    BY <1>1 DEF Slots
  <2>2. CASE slots'[s] = slots[s]
    BY <2>2 DEF RotInv, HeadersRemembered, IsHeader
  <2>3. CASE slots'[s] = Genesis
    BY <2>3 DEF Genesis, Remembers
  <2> QED
    BY <2>1, <2>2, <2>3
<1>4. \A q \in Procs : TailOK(q)'
  BY <1>2, TailOfOthers, TailQuiet DEF Inv, Exclusive, Opening, Appending
<1> QED
  BY <1>3, <1>4 DEF RotInv

(* Taking a batch changes no other handle, and not the count of this one.  *)
LEMMA StartEffect ==
    ASSUME TypeInv, NEW p \in Procs, NEW batch \in Offered, StartAppend(p, batch)
    PROVE  Others(p) /\ h'[p].pc = "writing" /\ h'[p].n = h[p].n
<1>1. h \in [Procs -> HandleType] /\ h[p] \in HandleType
  BY DEF TypeInv, TypeOK
<1>2. PICK rows : /\ rows = PlanFor(p, batch).rows
                  /\ h'[p] = [h[p] EXCEPT !.pc = "writing", !.batch = rows, !.done = 0,
                                          !.seen = NoBlock]
  BY <1>1 DEF StartAppend
<1>3. Others(p)
  BY <1>1 DEF StartAppend, Others
<1> QED
  BY <1>1, <1>2, <1>3 DEF HandleType

(* A batch is taken once the old tail block verifies: its records are what *)
(* the sidecar remembers.                                                  *)
LEMMA RotStartAppend ==
    ASSUME TypeInv, Inv, RotInv, NEW p \in Procs, NEW batch \in Offered, StartAppend(p, batch)
    PROVE  RotInv'
<1>1. FileInv /\ HandleInv /\ h \in [Procs -> HandleType] /\ h[p] \in HandleType
  BY DEF Inv, TypeInv, TypeOK
<1>2. UNCHANGED << recs, slots, sums, sumsD, acked >> /\ OldTailVerifies(p)
  BY DEF StartAppend, cache, disk
<1>3. Others(p) /\ h'[p].pc = "writing" /\ h'[p].n = h[p].n
  BY StartEffect
<1>4. Current(HeaderOf(p))
  BY <1>1 DEF StartAppend, HandleInv, HandleOK
<1>5. PICK n \in 0 .. MaxRecs : n = h[p].n
  BY <1>1 DEF HandleType
<1>6. Remembers(acked, recs, sums, n)
  <2>1. h[p].gen % 2 \in Slot /\ IsHeader(slots, h[p].gen % 2) /\ slots[h[p].gen % 2].n = n
    BY <1>1, <1>4, <1>5, HandleHeader
  <2> QED
    BY <2>1 DEF RotInv, HeadersRemembered
<1>7. ASSUME NEW i \in 1 .. n, BlockOf(n + 1) <= BlockOf(i)
      PROVE  recs[i] = Truth(acked, recs, i)
  <2>1. n \in Nat \ {0} /\ i \in Nat \ {0} /\ i <= n /\ n + 1 \in Nat \ {0}
    BY MaxRecsAssumption
  <2>2. /\ BlockOf(i) <= BlockOf(n) /\ BlockOf(n) <= BlockOf(n + 1)
        /\ BlockOf(i) \in Nat /\ BlockOf(n) \in Nat /\ BlockOf(n + 1) \in Nat
    BY <2>1, BlocksInOrder
  <2>3. BlockOf(i) = BlockOf(n) /\ BlockOf(n + 1) = BlockOf(n)
    BY <1>7, <2>2
  <2>4. n % BlockRecs # 0
    BY <2>1, <2>3, BlockEnds
  <2>5. n \in 1 .. n /\ VerifyThrough(recs, sums[BlockOf(n)], n, BlockOf(n))
    BY <1>2, <1>5, <2>1, <2>4 DEF OldTailVerifies, Unverifiable
  <2>6. sums[BlockOf(i)][i] = recs[i]
    BY <2>3, <2>5, VerifiedIsRemembered
  <2> QED
    BY <1>6, <2>6 DEF Remembers
<1>8. TailOK(p)'
  BY <1>2, <1>3, <1>5, <1>7 DEF TailOK
<1> QED
  BY <1>2, <1>3, <1>8, RotQuiet

(* Records are written past all that was committed.                        *)
LEMMA RotWriteRecord ==
    ASSUME TypeInv, Inv, RotInv, NEW p \in Procs, WriteRecord(p)
    PROVE  RotInv'
<1>1. /\ LockInv /\ FileInv /\ HandleInv /\ h \in [Procs -> HandleType] /\ h[p] \in HandleType
      /\ recs \in File
  BY DEF Inv, TypeInv, TypeOK
<1>2. UNCHANGED << slots, sums, sumsD, acked >> /\ h[p].pc = "writing"
  BY DEF WriteRecord, disk
<1>3. Others(p) /\ h'[p].pc = "writing" /\ h'[p].n = h[p].n
  <2>1. h'[p] = [h[p] EXCEPT !.done = h[p].done + 1] /\ Others(p)
    BY <1>1 DEF WriteRecord, Others
  <2> QED
    BY <1>1, <1>2, <2>1 DEF HandleType
<1>4. h[p].n \in Nat /\ h[p].done \in Nat
  BY <1>1, MaxRecsAssumption DEF HandleType
<1>5. \A i \in 1 .. h[p].n : recs'[i] = recs[i]
  <2>1. \A i : i # h[p].n + h[p].done + 1 => recs'[i] = recs[i]
    BY <1>1 DEF WriteRecord, File
  <2> QED
    BY <1>4, <2>1
<1>6. TruthStands(h[p].n)
  BY <1>2, <1>5 DEF TruthStands, Truth
<1>7. HeadersRemembered'
  <2>1. \A s \in Slot : IsHeader(slots, s) => slots[s].n \in 0 .. h[p].n
    BY <1>1, <1>2, HeadersBelow DEF HandleInv, HandleOK
  <2>2. \A s \in Slot : IsHeader(slots', s) =>
            /\ IsHeader(slots, s) /\ slots'[s].n \in 0 .. slots[s].n
            /\ TruthStands(slots'[s].n)
    BY <1>2, <1>4, <1>6, <2>1 DEF IsHeader, TruthStands
  <2>3. SumsMoved
    BY <1>2 DEF SumsMoved
  <2> QED
    BY <2>2, <2>3, RememberedKept DEF RotInv
<1>8. TailOK(p)'
  <2>1. \A i \in 1 .. h[p].n : BlockOf(h[p].n + 1) <= BlockOf(i) => recs[i] = Truth(acked, recs, i)
    BY <1>2 DEF RotInv, TailOK, Appending
  <2> QED
    BY <1>2, <1>3, <1>5, <1>6, <2>1 DEF TailOK, TruthStands
<1>9. \A q \in Procs \ {p} : TailOK(q)'
  BY <1>1, <1>2, <1>3, TailOfOthers DEF Exclusive, Appending
<1> QED
  BY <1>7, <1>8, <1>9 DEF RotInv

(* Sealing starts with no block sealed.                                    *)
LEMMA RotSyncRecords ==
    ASSUME TypeInv, RotInv, NEW p \in Procs, SyncRecords(p)
    PROVE  RotInv'
<1>1. h \in [Procs -> HandleType] /\ h[p] \in HandleType
  BY DEF TypeInv, TypeOK
<1>2. UNCHANGED << recs, slots, sums, sumsD, acked >> /\ h[p].pc = "writing"
  BY DEF SyncRecords, cache
<1>3. h'[p] = [h[p] EXCEPT !.pc = "sealing", !.blk = BlockOf(h[p].n + 1)] /\ Others(p)
  BY <1>1 DEF SyncRecords, Others
<1>4. h'[p].pc = "sealing" /\ h'[p].n = h[p].n /\ h'[p].blk = BlockOf(h[p].n + 1)
  BY <1>1, <1>3 DEF HandleType
<1>5. h'[p].batch = h[p].batch
  BY <1>1, <1>3 DEF HandleType
<1>6. NewCount(p)' = NewCount(p) /\ NewCount(p) \in Nat /\ BlockOf(h[p].n + 1) \in Nat
  <2>1. h[p].n \in Nat /\ h[p].n + 1 \in Nat \ {0} /\ Len(h[p].batch) \in Nat
    BY <1>1, MaxRecsAssumption DEF HandleType
  <2>2. BlockOf(h[p].n + 1) \in Nat
    BY <2>1, BlockOfType
  <2> QED
    BY <1>4, <1>5, <2>1, <2>2 DEF NewCount
<1>7. \A i \in 1 .. NewCount(p) : ~(BlockOf(h[p].n + 1) <= BlockOf(i) /\ BlockOf(i) < h'[p].blk)
  <2>1. \A i \in 1 .. NewCount(p) : BlockOf(i) \in Nat
    BY <1>6, BlocksInOrder
  <2> QED
    BY <1>4, <1>6, <2>1
<1>8. \A i \in 1 .. h[p].n : BlockOf(h[p].n + 1) <= BlockOf(i) => recs[i] = Truth(acked, recs, i)
  BY <1>2 DEF RotInv, TailOK, Appending
<1>9. TailOK(p)'
  <2>1. BlockOf(h'[p].n + 1) <= h'[p].blk
    BY <1>4, <1>6
  <2> QED
    BY <1>2, <1>4, <1>6, <1>7, <1>8, <2>1 DEF TailOK
<1> QED
  BY <1>2, <1>3, <1>9, RotQuiet

(* A block sealed remembers the old tail, which is what was committed, and *)
(* the batch, which is not committed yet.                                  *)
LEMMA RotSealBlock ==
    ASSUME TypeInv, Inv, RotInv, NEW p \in Procs, SealBlock(p)
    PROVE  RotInv'
<1>1. LockInv /\ FileInv /\ HandleInv /\ h \in [Procs -> HandleType] /\ h[p] \in HandleType
  BY DEF Inv, TypeInv, TypeOK
<1>2. /\ UNCHANGED << recs, slots, sumsD, acked >> /\ h[p].pc = "sealing"
      /\ h[p].blk <= BlocksFor(NewCount(p))
      /\ sums' = [sums EXCEPT ![h[p].blk] = Seal(recs, h[p].blk, NewCount(p))]
  BY DEF SealBlock, disk
<1>3. h'[p] = [h[p] EXCEPT !.blk = h[p].blk + 1] /\ Others(p)
  BY <1>1 DEF SealBlock, Others
<1>4. /\ h'[p].pc = "sealing" /\ h'[p].n = h[p].n /\ h'[p].batch = h[p].batch
      /\ h'[p].blk = h[p].blk + 1 /\ h[p].blk \in Nat
  BY <1>1, <1>2, <1>3 DEF HandleType
<1>5. NewCount(p)' = NewCount(p)
  BY <1>4 DEF NewCount
<1>6. Current(HeaderOf(p)) /\ TailOK(p)
  BY <1>1, <1>2 DEF HandleInv, HandleOK, RotInv
<1>7. PICK m \in 0 .. MaxRecs : m = NewCount(p)
  BY <1>2, AdvancedType DEF Appending
<1>8. PICK n \in Nat : n = h[p].n
  BY <1>1, MaxRecsAssumption DEF HandleType
<1>9. n <= m /\ m \in Nat
  <2>1. Len(h[p].batch) \in Nat /\ m = n + Len(h[p].batch)
    BY <1>1, <1>7, <1>8 DEF HandleType, NewCount
  <2> QED
    BY <2>1
<1>10. Len(acked) \in Nat /\ Len(acked) <= n
  BY <1>1, <1>6, <1>8, AckedBelow
<1>11. ASSUME NEW i \in 1 .. m, BlockOf(n + 1) <= BlockOf(i)
       PROVE  recs[i] = Truth(acked, recs, i)
  <2>1. CASE i <= n
    <3>1. i \in 1 .. n
      BY <1>9, <2>1
    <3> QED
      BY <1>2, <1>6, <1>8, <1>11, <3>1 DEF TailOK, Appending
  <2>2. CASE i > n
    BY <1>9, <1>10, <2>2 DEF Truth
  <2> QED
    BY <1>9, <2>1, <2>2
<1>12. \A i \in 1 .. m : BlockOf(i) = h[p].blk => sums'[BlockOf(i)][i] = recs[i]
  <2> SUFFICES ASSUME NEW i \in 1 .. m, BlockOf(i) = h[p].blk
               PROVE  sums'[BlockOf(i)][i] = recs[i]
    OBVIOUS
  <2>1. h[p].blk \in Block
    BY BlocksOfMonth
  <2>2. sums'[h[p].blk] = Seal(recs, h[p].blk, m)
    BY <1>2, <1>7, <2>1 DEF TypeInv, TypeOK
  <2>3. i \in Covered(h[p].blk, m)
    BY MaxRecsAssumption DEF Covered, Pos
  <2> QED
    BY <2>2, <2>3 DEF Seal
<1>13. \A b : b # h[p].blk => sums'[b] = sums[b]
  BY <1>2
<1>14. BlockOf(n + 1) <= h[p].blk /\ BlockOf(n + 1) \in Nat
  <2>1. n + 1 \in Nat \ {0}
    OBVIOUS
  <2> QED
    BY <1>2, <1>6, <1>8, <2>1, BlockOfType DEF TailOK
<1>15. HeadersRemembered'
  <2> SUFFICES ASSUME NEW s \in Slot, IsHeader(slots, s)
               PROVE  /\ Remembers(acked, recs, sums', slots[s].n)
                      /\ Remembers(acked, recs, sumsD, slots[s].n)
    BY <1>2 DEF HeadersRemembered, IsHeader
  <2>1. /\ Remembers(acked, recs, sums, slots[s].n)
        /\ Remembers(acked, recs, sumsD, slots[s].n)
    BY DEF RotInv, HeadersRemembered
  <2>2. PICK k \in 0 .. n : k = slots[s].n
    BY <1>1, <1>6, <1>8, HeadersBelow
  <2>3. ASSUME NEW i \in 1 .. k PROVE sums'[BlockOf(i)][i] = Truth(acked, recs, i)
    <3>1. i \in 1 .. m
      BY <1>9
    <3>2. CASE BlockOf(i) = h[p].blk
      BY <1>11, <1>12, <1>14, <3>1, <3>2
    <3>3. CASE BlockOf(i) # h[p].blk
      BY <1>13, <2>1, <2>2, <3>3 DEF Remembers
    <3> QED
      BY <3>2, <3>3
  <2> QED
    BY <2>1, <2>2, <2>3 DEF Remembers
<1>16. TailOK(p)'
  <2>1. ASSUME NEW i \in 1 .. m, BlockOf(n + 1) <= BlockOf(i), BlockOf(i) < h[p].blk + 1
        PROVE  sums'[BlockOf(i)][i] = Truth(acked, recs, i)
    <3>1. CASE BlockOf(i) = h[p].blk
      BY <1>11, <1>12, <2>1, <3>1
    <3>2. CASE BlockOf(i) # h[p].blk
      <4>1. BlockOf(i) \in Nat
        BY BlocksInOrder
      <4>2. BlockOf(i) < h[p].blk
        BY <1>4, <2>1, <3>2, <4>1
      <4> QED
        BY <1>2, <1>6, <1>7, <1>8, <1>13, <2>1, <3>2, <4>2 DEF TailOK
    <3> QED
      BY <3>1, <3>2
  <2>2. \A i \in 1 .. n : BlockOf(n + 1) <= BlockOf(i) => recs[i] = Truth(acked, recs, i)
    BY <1>9, <1>11
  <2>3. BlockOf(n + 1) <= h[p].blk + 1
    BY <1>4, <1>14
  <2> QED
    BY <1>2, <1>4, <1>5, <1>7, <1>8, <2>1, <2>2, <2>3 DEF TailOK
<1>17. \A q \in Procs \ {p} : TailOK(q)'
  BY <1>1, <1>2, <1>3, TailOfOthers DEF Exclusive, Appending
<1> QED
  BY <1>15, <1>16, <1>17 DEF RotInv

(* Once every block is sealed the sidecar remembers the whole new month.   *)
LEMMA RotSyncSums ==
    ASSUME TypeInv, Inv, RotInv, NEW p \in Procs, SyncSums(p)
    PROVE  RotInv'
<1>1. LockInv /\ FileInv /\ HandleInv /\ h[p] \in HandleType
  BY DEF Inv, TypeInv, TypeOK
<1>2. /\ UNCHANGED << recs, slots, sums, acked >> /\ sumsD' = sums
      /\ h[p].blk > BlocksFor(NewCount(p))
  BY DEF SyncSums, cache
<1>3. /\ Others(p) /\ h[p].pc = "sealing" /\ h'[p].pc = "summed"
      /\ h'[p].n = h[p].n /\ h'[p].batch = h[p].batch
  BY StepEffect DEF SyncSums
<1>4. NewCount(p)' = NewCount(p)
  BY <1>3 DEF NewCount
<1>5. Current(HeaderOf(p)) /\ TailOK(p)
  BY <1>1, <1>3 DEF HandleInv, HandleOK, RotInv
<1>6. PICK m \in 0 .. MaxRecs : m = NewCount(p)
  BY <1>3, AdvancedType DEF Appending
<1>7. PICK n \in 0 .. MaxRecs : n = h[p].n
  BY <1>1 DEF HandleType
<1>8. Remembers(acked, recs, sums, n)
  <2>1. h[p].gen % 2 \in Slot /\ IsHeader(slots, h[p].gen % 2) /\ slots[h[p].gen % 2].n = n
    BY <1>1, <1>5, <1>7, HandleHeader
  <2> QED
    BY <2>1 DEF RotInv, HeadersRemembered
<1>9. ASSUME NEW i \in 1 .. m PROVE sums[BlockOf(i)][i] = Truth(acked, recs, i)
  <2>1. /\ BlockOf(i) \in Nat /\ BlockOf(n + 1) \in Nat /\ BlocksFor(m) \in Nat
        /\ BlockOf(i) <= BlocksFor(m) /\ n \in Nat /\ i \in Nat \ {0} /\ h[p].blk \in Nat
    <3>1. n \in Nat /\ i \in Nat \ {0} /\ h[p].blk \in Nat
      BY <1>1, MaxRecsAssumption DEF HandleType
    <3>2. BlockOf(i) \in 1 .. BlocksFor(m) /\ BlocksFor(m) \in Nat /\ BlockOf(n + 1) \in Nat
      BY BlocksOfMonth
    <3> QED
      BY <3>1, <3>2
  <2>2. CASE BlockOf(n + 1) <= BlockOf(i)
    <3>1. BlockOf(i) < h[p].blk
      BY <1>2, <1>6, <2>1
    <3> QED
      BY <1>3, <1>5, <1>6, <1>7, <2>2, <3>1 DEF TailOK
  <2>3. CASE BlockOf(i) < BlockOf(n + 1)
    <3>1. ~(n + 1 <= i)
      BY <2>1, <2>3, BlocksInOrder
    <3>2. i \in 1 .. n
      BY <2>1, <3>1
    <3> QED
      BY <1>8, <3>2 DEF Remembers
  <2> QED
    BY <2>1, <2>2, <2>3
<1>10. Remembers(acked, recs, sums, m)
  BY <1>9 DEF Remembers
<1>11. TailOK(p)'
  <2>1. \A i \in 1 .. h[p].n : BlockOf(h[p].n + 1) <= BlockOf(i) => recs[i] = Truth(acked, recs, i)
    BY <1>3, <1>5 DEF TailOK, Appending
  <2> QED
    BY <1>2, <1>3, <1>4, <1>6, <1>10, <2>1 DEF TailOK
<1>12. \A q \in Procs \ {p} : TailOK(q)'
  BY <1>1, <1>3, TailOfOthers DEF Exclusive, Appending
<1>13. HeadersRemembered'
  BY <1>2 DEF RotInv, HeadersRemembered, IsHeader
<1> QED
  BY <1>11, <1>12, <1>13 DEF RotInv

(* The header written counts records that both sidecars remember.          *)
LEMMA RotWriteSlot ==
    ASSUME TypeInv, Inv, RotInv, NEW p \in Procs, WriteSlot(p)
    PROVE  RotInv'
<1>1. LockInv
  BY DEF Inv
<1>2. UNCHANGED << recs, sums, sumsD, acked >> /\ slots \in Slots
  BY DEF WriteSlot, disk, TypeInv, TypeOK, Slots
<1>3. Others(p) /\ h[p].pc = "summed" /\ h'[p].pc = "slotted" /\ h'[p].n = h[p].n
  BY StepEffect DEF WriteSlot
<1>4. TailOK(p)
  BY DEF RotInv
<1>5. HeadersRemembered'
  <2> SUFFICES ASSUME NEW s \in Slot, IsHeader(slots', s)
               PROVE  /\ Remembers(acked, recs, sums, slots'[s].n)
                      /\ Remembers(acked, recs, sumsD, slots'[s].n)
    BY <1>2 DEF HeadersRemembered
  <2>1. slots'[s] = Advanced(p) \/ slots'[s] = slots[s]
    BY <1>2 DEF WriteSlot, Slots
  <2>2. Advanced(p).n = NewCount(p)
    BY DEF Advanced
  <2> QED
    BY <1>3, <1>4, <2>1, <2>2 DEF RotInv, TailOK, HeadersRemembered, IsHeader
<1>6. TailOK(p)'
  BY <1>2, <1>3, <1>4 DEF TailOK, Appending
<1>7. \A q \in Procs \ {p} : TailOK(q)'
  BY <1>1, <1>3, TailOfOthers DEF Exclusive, Appending
<1> QED
  BY <1>5, <1>6, <1>7 DEF RotInv

(* What is reported committed is what the sidecars remember.               *)
LEMMA RotSyncSlot ==
    ASSUME TypeInv, Inv, RotInv, NEW p \in Procs, SyncSlot(p)
    PROVE  RotInv'
<1>1. LockInv /\ FileInv /\ HandleInv
  BY DEF Inv
<1>2. /\ UNCHANGED << recs, slots, sums, sumsD >> /\ h[p].pc = "slotted"
      /\ acked' = [i \in 1 .. NewCount(p) |-> IF i <= Len(acked) THEN acked[i] ELSE recs[i]]
  BY DEF SyncSlot, cache
<1>3. Advanced(p) \in Header /\ NewCount(p) \in 0 .. MaxRecs /\ Advanced(p).n = NewCount(p)
  BY <1>2, AdvancedType DEF Appending, Advanced
<1>4. Others(p) /\ h'[p].pc = "open"
  <2>1. PICK hd : hd = Advanced(p)
    OBVIOUS
  <2>2. OpenAt(p, "open", hd)
    BY <2>1 DEF SyncSlot
  <2> QED
    BY <2>2, OpenAtEffect
<1>5. TruthStands(NewCount(p))
  <2>1. PICK n \in Nat : n = NewCount(p)
    BY <1>3, MaxRecsAssumption
  <2>2. Len(acked') = n
    <3>1. \A i \in 1 .. n : (IF i <= Len(acked) THEN acked[i] ELSE recs[i]) \in Cell
      BY <1>3, <2>1, MaxRecsAssumption DEF TypeInv, TypeOK, File, Pos
    <3> QED
      BY <1>2, <2>1, <3>1
  <2>3. \A i \in 1 .. n : i <= n /\ acked'[i] = Truth(acked, recs, i)
    BY <1>2, <2>1 DEF Truth
  <2>4. \A i \in 1 .. n : Truth(acked', recs', i) = acked'[i]
    BY <2>2, <2>3 DEF Truth
  <2> QED
    BY <2>1, <2>3, <2>4 DEF TruthStands
<1>6. HeadersRemembered'
  <2>1. Current(Advanced(p))
    BY <1>1, <1>2 DEF HandleInv, HandleOK
  <2>2. \A s \in Slot : IsHeader(slots, s) => slots[s].n \in 0 .. NewCount(p)
    <3> SUFFICES ASSUME NEW s \in Slot, IsHeader(slots, s)
                 PROVE  slots[s].n \in 0 .. NewCount(p)
      OBVIOUS
    <3>1. Advanced(p).gen \in Nat
      BY <1>3 DEF Header
    <3>2. Advanced(p).gen % 2 \in Slot /\ slots[Advanced(p).gen % 2] = Advanced(p)
      BY <2>1, <3>1, SlotOfType DEF Current
    <3>3. IsHeader(slots, Advanced(p).gen % 2) /\ slots[s].gen <= Advanced(p).gen
      BY <1>3, <2>1, <3>2, BlankAssumption DEF Current, IsHeader
    <3>4. slots[s].n <= Advanced(p).n
      BY <1>1, <3>2, <3>3 DEF FileInv, RegionOK
    <3>5. slots[s].n \in 0 .. MaxRecs
      BY HeaderType DEF TypeInv, TypeOK, Slots, Header
    <3> QED
      BY <1>3, <3>4, <3>5, MaxRecsAssumption
  <2>3. \A s \in Slot : IsHeader(slots', s) =>
            /\ IsHeader(slots, s) /\ slots'[s].n \in 0 .. slots[s].n
            /\ TruthStands(slots'[s].n)
    BY <1>2, <1>3, <1>5, <2>2, MaxRecsAssumption DEF IsHeader, TruthStands
  <2>4. SumsMoved
    BY <1>2 DEF SumsMoved
  <2> QED
    BY <2>3, <2>4, RememberedKept DEF RotInv
<1>7. TailOK(p)'
  BY <1>4, TailQuiet DEF Appending
<1>8. \A q \in Procs \ {p} : TailOK(q)'
  BY <1>1, <1>2, <1>4, TailOfOthers DEF Exclusive, Appending
<1> QED
  BY <1>6, <1>7, <1>8 DEF RotInv

-----------------------------------------------------------------------------
(* The environment, and the theorem.                                       *)

(* Writeback brings the sidecar of the disk nearer to the cached one.      *)
LEMMA RotWriteback ==
    ASSUME TypeInv, RotInv, Writeback
    PROVE  RotInv'
<1>1. UNCHANGED << recs, slots, sums, h, acked >> /\ DOMAIN sumsD = Block
  BY DEF Writeback, cache, TypeInv, TypeOK
<1>2. \A b \in Block : sumsD'[b] = sums[b] \/ sumsD'[b] = sumsD[b]
  <2>1. sumsD' = sumsD \/ \E b \in Block : sumsD' = [sumsD EXCEPT ![b] = sums[b]]
    BY DEF Writeback
  <2> QED
    BY <1>1, <2>1
<1>3. SumsMoved
  BY <1>1, <1>2 DEF SumsMoved
<1>4. \A s \in Slot : IsHeader(slots', s) =>
          /\ IsHeader(slots, s) /\ slots'[s].n \in 0 .. slots[s].n
          /\ TruthStands(slots'[s].n)
  BY <1>1, HeaderType, MaxRecsAssumption DEF IsHeader, TypeInv, TypeOK, Slots, Header, TruthStands
<1>5. HeadersRemembered'
  BY <1>3, <1>4, RememberedKept DEF RotInv
<1>6. \A q \in Procs : TailOK(q)'
  BY <1>1, <1>2, TailKept DEF RotInv
<1> QED
  BY <1>5, <1>6 DEF RotInv

(* A power loss leaves a sidecar that remembers what its headers count.    *)
LEMMA RotPowerLoss ==
    ASSUME TypeInv, Inv, RotInv, PowerLoss
    PROVE  RotInv'
<1>1. /\ h' = [p \in Procs |-> Closed] /\ sums' = sumsD' /\ acked' = acked
      /\ sumsD' = IF Survives("crc") THEN sumsD ELSE BlankSums
  BY DEF PowerLoss
<1>2. (\E s \in Slot : IsHeader(slots, s) /\ slots[s].n > 0) => SumsMoved
  BY <1>1 DEF Inv, NamesInv, Survives, Names, SumsMoved
<1>3. ASSUME NEW s \in Slot, IsHeader(slots', s)
      PROVE  /\ IsHeader(slots, s) /\ slots'[s].n \in 0 .. slots[s].n
             /\ TruthStands(slots'[s].n)
  <2>1. /\ IsHeader(slots, s) /\ slots'[s] = slotsD[s]
        /\ slotsD[s] \in Header /\ slots[s] \in Header /\ slotsD[s].n <= slots[s].n
        /\ \A i \in 1 .. slots'[s].n : recs'[i] = recs[i]
    BY <1>3, LossLeaves
  <2>2. TruthStands(slots'[s].n)
    BY <1>1, <2>1 DEF TruthStands, Truth
  <2> QED
    BY <2>1, <2>2, MaxRecsAssumption DEF Header
<1>4. HeadersRemembered'
  BY <1>2, <1>3, RememberedKept DEF RotInv
<1>5. \A q \in Procs : TailOK(q)'
  BY <1>1, TailQuiet DEF Closed, Appending
<1> QED
  BY <1>4, <1>5 DEF RotInv

(* Rot changes no more than what was reported committed, while no append   *)
(* is under way.                                                           *)
LEMMA RotRot ==
    ASSUME TypeInv, RotInv, NEW i \in Pos, Rot(i)
    PROVE  RotInv'
<1>1. /\ UNCHANGED << slots, sums, sumsD, h, acked >> /\ i <= Len(acked)
      /\ recs' = [recs EXCEPT ![i] = Torn] /\ \A p \in Procs : h[p].pc \notin Appending
  BY DEF Rot
<1>2. \A n : TruthStands(n)
  <2>1. \A j : j # i => recs'[j] = recs[j]
    BY <1>1 DEF TypeInv, TypeOK, File
  <2> QED
    BY <1>1, <2>1 DEF TruthStands, Truth
<1>3. SumsMoved
  BY <1>1 DEF SumsMoved
<1>4. \A s \in Slot : IsHeader(slots', s) =>
          /\ IsHeader(slots, s) /\ slots'[s].n \in 0 .. slots[s].n
          /\ TruthStands(slots'[s].n)
  BY <1>1, <1>2, HeaderType, MaxRecsAssumption DEF IsHeader, TypeInv, TypeOK, Slots, Header
<1>5. HeadersRemembered'
  BY <1>3, <1>4, RememberedKept DEF RotInv
<1>6. \A q \in Procs : TailOK(q)'
  BY <1>1, TailQuiet
<1> QED
  BY <1>5, <1>6 DEF RotInv

(* Every step leaves the sidecars remembering what was committed.          *)
LEMMA RotNext ==
    ASSUME TypeInv, Inv, RotInv, [Next]_vars
    PROVE  RotInv'
<1>1. ASSUME NEW p \in Procs, TakeLock(p) \/ OpenStep(p) \/ OpenExisting(p) PROVE RotInv'
  BY <1>1, RotOpening, RotInitialise DEF OpenStep
<1>2. ASSUME NEW p \in Procs, Drop(p) \/ Die(p) \/ \E i \in Pos : ReadRow(p, i) PROVE RotInv'
  BY <1>2, RotOpening
<1>3. ASSUME NEW p \in Procs, NEW batch \in Offered, StartAppend(p, batch) PROVE RotInv'
  BY <1>3, RotStartAppend
<1>4. ASSUME NEW p \in Procs, AppendStep(p) PROVE RotInv'
  BY <1>4, RotWriteRecord, RotSyncRecords, RotSealBlock, RotSyncSums, RotWriteSlot, RotSyncSlot
  DEF AppendStep
<1>5. Writeback \/ PowerLoss => RotInv'
  BY RotWriteback, RotPowerLoss
<1>6. ASSUME NEW i \in Pos, Rot(i) PROVE RotInv'
  BY <1>6, RotRot
<1>7. CASE UNCHANGED vars
  BY <1>7 DEF vars, RotInv, HeadersRemembered, IsHeader, Remembers, Truth, TailOK, NewCount
<1> QED
  BY <1>1, <1>2, <1>3, <1>4, <1>5, <1>6, <1>7 DEF Next

(* A month nobody has opened has nothing to remember.                      *)
LEMMA RotInit == Init => RotInv
  BY DEF Init, RotInv, HeadersRemembered, IsHeader, BlankSlots, TailOK, Closed, Appending

(* An append never seals a rotted record, whatever rots between appends,   *)
(* whatever crashes cut an append short: a committed record whose block    *)
(* verifies is the one that was committed.                                 *)
THEOREM RotIsNeverLaundered == KnownTree => (Spec => []RotNeverLaundered)
<1> SUFFICES ASSUME KnownTree PROVE Spec => []RotNeverLaundered
  OBVIOUS
<1>1. Init => TypeInv /\ Inv /\ RotInv
  BY TypeInit, SafeInit, RotInit
<1>2. TypeInv /\ Inv /\ RotInv /\ [Next]_vars => TypeInv' /\ Inv' /\ RotInv'
  BY TypeNext, SafeNext, RotNext
<1>3. TypeInv /\ Inv /\ RotInv => RotNeverLaundered
  <2> SUFFICES ASSUME TypeInv, Inv, RotInv, NEW i \in 1 .. Len(acked),
                      i \notin Unverifiable(recs, sums, Count(slots, recs))
               PROVE  recs[i] = acked[i]
    BY DEF RotNeverLaundered
  <2>1. FileInv /\ Len(acked) \in Nat /\ acked # << >>
    BY DEF Inv, TypeInv, TypeOK
  <2>2. PICK s \in Slot : IsHeader(slots, s) /\ Len(acked) <= slots[s].n
    BY <2>1 DEF FileInv, AckInv
  <2>3. /\ Opens(slots, recs) /\ Chosen(slots, recs) \in Header
        /\ slots[s].n <= Chosen(slots, recs).n /\ slots[s].n \in 0 .. MaxRecs
    BY <2>1, <2>2, CacheOpens, HeaderType DEF TypeInv, TypeOK, Slots, Header
  <2>4. PICK n \in 0 .. MaxRecs : n = Count(slots, recs) /\ i \in 1 .. n
    BY <2>1, <2>2, <2>3, MaxRecsAssumption DEF Count, Header
  <2>5. VerifyThrough(recs, sums[BlockOf(i)], n, BlockOf(i))
    BY <2>4 DEF Unverifiable
  <2>6. sums[BlockOf(i)][i] = recs[i]
    BY <2>4, <2>5, VerifiedIsRemembered
  <2>7. sums[BlockOf(i)][i] = Truth(acked, recs, i)
    <3>1. i \in 1 .. slots[s].n
      BY <2>1, <2>2, <2>3, MaxRecsAssumption
    <3> QED
      BY <2>2, <3>1 DEF RotInv, HeadersRemembered, Remembers
  <2> QED
    BY <2>1, <2>6, <2>7 DEF Truth
<1> QED
  BY <1>1, <1>2, <1>3, PTL DEF Spec
=============================================================================
