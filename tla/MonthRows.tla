------------------------------ MODULE MonthRows ------------------------------
(***************************************************************************)
(* The arithmetic of one month file of crates/store: where a record and    *)
(* its checksum block lie, when a block verifies, and what `append` decides *)
(* about a batch before it writes a byte.  Nothing here has state; a file  *)
(* is a function from record positions to what the file holds there.       *)
(*                                                                         *)
(* Positions and blocks count from 1 (the code counts from 0).  A CRC-32C  *)
(* is the very content it was computed over, so two extents have the same  *)
(* checksum exactly when they are equal: collisions are abstracted away.   *)
(***************************************************************************)
EXTENDS Integers, Sequences, FiniteSets

CONSTANTS
    Times,        \* timestamps a bar can carry (ts_micros)
    Vals,         \* the rest of a bar: two bars of one instant may differ
    MaxRecs,      \* bound: record positions a file of the model can hold
    BlockRecs,    \* records per checksum block (73 in the source)
    Nothing,      \* a position past the end of the file, or a hole
    Torn          \* bytes that no writer wrote: a torn or rotted record

ASSUME TimesAssumption == Times \subseteq Nat
ASSUME MaxRecsAssumption == MaxRecs \in Nat
ASSUME BlockRecsAssumption == BlockRecs \in Nat \ {0}

Record == [ts : Times, v : Vals]

ASSUME CellAssumption == Nothing \notin Record /\ Torn \notin Record /\ Nothing # Torn

Pos == 1 .. MaxRecs
Cell == Record \cup {Nothing, Torn}
File == [Pos -> Cell]
EmptyFile == [i \in Pos |-> Nothing]

(* Layout::capacity_for: the highest record position the length reaches.   *)
Held(f) == IF \E i \in Pos : f[i] # Nothing
           THEN CHOOSE i \in Pos : f[i] # Nothing /\ \A j \in Pos : j > i => f[j] = Nothing
           ELSE 0

-----------------------------------------------------------------------------
(* Blocks.                                                                 *)

BlockOf(i) == ((i - 1) \div BlockRecs) + 1
BlocksFor(n) == IF n = 0 THEN 0 ELSE BlockOf(n)
Block == 1 .. BlocksFor(MaxRecs)
NoBlock == 0

(* Layout::covered_byte_range: the committed part of a block, never its    *)
(* nominal extent.                                                         *)
Covered(b, n) == {i \in Pos : BlockOf(i) = b /\ i <= n}

(* block::seal: the checksum of the committed part of block b.             *)
Seal(f, b, n) == [i \in Covered(b, n) |-> f[i]]

(* The whole records the file holds past the commit, in the tail block.    *)
PastTheCommit(f, n, b) ==
    IF b = BlocksFor(n) THEN {k \in Pos : k > n /\ k <= Held(f) /\ BlockOf(k) = b} ELSE {}

(* block::verify_through: the stored sum is that of the committed part, or *)
(* of the committed part and the first records past the commit.            *)
MutVerifyExact(f, stored, n, b) == stored = Seal(f, b, n)
VerifyThrough(f, stored, n, b) ==
    \E k \in {n} \cup PastTheCommit(f, n, b) : stored = Seal(f, b, k)

-----------------------------------------------------------------------------
(* The decision `append` takes about a batch.                              *)

(* survey: a batch is non-empty and strictly increasing, and every bar is  *)
(* sane (a bar that is not sane is not a member of Record).                *)
Survey(batch) ==
    /\ batch # << >>
    /\ \A i \in 1 .. Len(batch) : batch[i] \in Record
    /\ \A i \in 1 .. Len(batch) - 1 : batch[i].ts < batch[i + 1].ts

(* first_at_or_after: the bisection over the n committed records, as the   *)
(* number of records before the insertion point and the positions it read. *)
(* It stops where a read is refused.                                       *)
(* Mutant: a record at the wanted timestamp is taken as before it.         *)
MutBisect(f, n, ts, bad) ==
    LET walk[gap \in (0 .. n) \X (0 .. n)] ==
            LET lo == gap[1]
                hi == gap[2]
                mid == lo + ((hi - lo) \div 2)
                rest == IF (mid + 1) \in bad THEN [at |-> lo, reads |-> {}]
                        ELSE IF f[mid + 1].ts <= ts THEN walk[<< mid + 1, hi >>]
                        ELSE walk[<< lo, mid >>]
            IN  IF lo >= hi THEN [at |-> lo, reads |-> {}]
                ELSE [at |-> rest.at, reads |-> {mid + 1} \cup rest.reads]
    IN walk[<< 0, n >>]

Bisect(f, n, ts, bad) ==
    LET walk[gap \in (0 .. n) \X (0 .. n)] ==
            LET lo == gap[1]
                hi == gap[2]
                mid == lo + ((hi - lo) \div 2)
                rest == IF (mid + 1) \in bad THEN [at |-> lo, reads |-> {}]
                        ELSE IF f[mid + 1].ts < ts THEN walk[<< mid + 1, hi >>]
                        ELSE walk[<< lo, mid >>]
            IN  IF lo >= hi THEN [at |-> lo, reads |-> {}]
                ELSE [at |-> rest.at, reads |-> {mid + 1} \cup rest.reads]
    IN walk[<< 0, n >>]

(* A comparison of the batch with the records after the first `at`, and    *)
(* the positions it reads: it stops at the first record that differs.      *)
Equal(f, at, batch) == \A i \in 1 .. Len(batch) : f[at + i] = batch[i]
Compared(f, at, batch) ==
    {at + i : i \in {k \in 1 .. Len(batch) : \A j \in 1 .. k - 1 : f[at + j] = batch[j]}}

(* already_stored: the whole batch lies inside the committed records, byte *)
(* for byte, at the place the bisection finds.                             *)
AlreadyStored(f, n, batch, at) == at + Len(batch) <= n /\ Equal(f, at, batch)

(* suffix_that_follows: how many bars of the batch are at or before the    *)
(* last held timestamp, and whether they are the last records of the file. *)
OverlapLen(last, batch) == Cardinality({i \in 1 .. Len(batch) : batch[i].ts <= last})
MutTailMatches(f, n, overlap) == overlap = << >>
TailMatches(f, n, overlap) == Len(overlap) <= n /\ Equal(f, n - Len(overlap), overlap)

(* Header::advance: a batch follows when the month is empty or its first   *)
(* bar is later than the last committed one.                               *)
MutFollows(n, last, batch) == n = 0 \/ batch[1].ts >= last
Follows(n, last, batch) == n = 0 \/ batch[1].ts > last

Refused == [kind |-> "refused", rows |-> << >>]

(* `append` up to its first write.  `bad` are the positions whose block    *)
(* does not verify: every record is read through its block's checksum, and *)
(* the first one refused refuses the batch.                                *)
Plan(f, n, last, bad, batch) ==
    LET found   == Bisect(f, n, batch[1].ts, bad)
        overlap == SubSeq(batch, 1, OverlapLen(last, batch))
        suffix  == SubSeq(batch, Len(overlap) + 1, Len(batch))
        inside  == IF found.at + Len(batch) <= n THEN Compared(f, found.at, batch) ELSE {}
        tail    == IF suffix # << >> /\ Len(overlap) <= n
                   THEN Compared(f, n - Len(overlap), overlap) ELSE {}
    IN  IF ~Survey(batch) THEN Refused
        ELSE IF Follows(n, last, batch) THEN [kind |-> "follows", rows |-> batch]
        ELSE IF found.reads \cap bad # {} THEN Refused
        ELSE IF inside \cap bad # {} THEN Refused
        ELSE IF AlreadyStored(f, n, batch, found.at)
             THEN [kind |-> "present", rows |-> << >>]
        ELSE IF tail \cap bad # {} THEN Refused
        ELSE IF suffix # << >> /\ TailMatches(f, n, overlap)
             THEN [kind |-> "follows", rows |-> suffix]
        ELSE Refused
=============================================================================
