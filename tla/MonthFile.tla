------------------------------ MODULE MonthFile ------------------------------
(***************************************************************************)
(* One month of one instrument on disk: the bar file with its two header   *)
(* slots, the checksum sidecar, the lock file and their names in the       *)
(* directory, as crates/store/src/file.rs opens, appends to and reads them.*)
(*                                                                         *)
(* Every file has two contents: the one running processes see (the page    *)
(* cache: recs, slots, sums, names) and the one on the disk (recsD, ...).  *)
(* A write changes the first; a sync copies it to the second; writeback    *)
(* may copy any single piece at any time; a power loss replaces the first  *)
(* by the second, and may tear what was on its way.  A process that dies,  *)
(* or whose call fails and is dropped, leaves the first as it is.          *)
(***************************************************************************)
EXTENDS MonthRows

CONSTANTS
    Procs,        \* processes (or BarFile values) that open the month
    Readers,      \* those of them that open it to read as well
    Offered,      \* the batches callers offer to `append`
    MaxCrashes,   \* bound: deaths and power losses in one behaviour
    Faults,       \* which faults beyond a plain power loss can happen
    Blank         \* a header slot or sidecar entry that is all zeros

ASSUME OfferedAssumption == Offered \subseteq Seq(Record)
ASSUME MaxCrashesAssumption == MaxCrashes \in Nat
ASSUME FaultsAssumption ==
    Faults \subseteq {"torn_slot", "fresh_tree", "rot"}

VARIABLES
    recs, recsD,      \* record region of the bar file
    slots, slotsD,    \* the two header slots
    sums, sumsD,      \* the .crc sidecar, one checksum per block
    names, namesD,    \* directory entries: the month directory and its files
    h,                \* the BarFile of each process
    acked,            \* history: the records `append` has reported committed
    crashes           \* how many deaths and power losses have happened

disk == << recsD, slotsD, sumsD, namesD >>
cache == << recs, slots, sums, names >>
vars == << recs, recsD, slots, slotsD, sums, sumsD, names, namesD, h, acked, crashes >>

Slot == {0, 1}
Names == {"dir", "lock", "bars", "crc"}
BlankSlots == [s \in Slot |-> Blank]
BlankSums == [b \in Block |-> Blank]

(* Header: the fields of the 64-byte slot that change.                     *)
Header == [gen : Nat, n : 0 .. MaxRecs, last : Nat]
Genesis == [gen |-> 0, n |-> 0, last |-> 0]

ASSUME BlankAssumption == Blank \notin Header /\ Torn \notin Header

(* Header::commit: the slot a generation is written to.                    *)
SlotOf(gen) == gen % 2

-----------------------------------------------------------------------------
(* Reading a header region.                                                *)

(* Header::decode: a slot that is neither blank nor torn.                  *)
Decodable(sl) == {sl[s] : s \in {t \in Slot : sl[t] # Blank /\ sl[t] # Torn}}

(* Header::validate: the counter does not exceed what the file holds.      *)
Supported(sl, f) == {hd \in Decodable(sl) : hd.n <= Held(f)}

Newest(hds) == CHOOSE hd \in hds : \A other \in hds : other.gen <= hd.gen

(* Header::read_region: the newest header the file supports, walking back  *)
(* over those it does not.                                                 *)
Chosen(sl, f) == Newest(Supported(sl, f))

(* BarFile::validated: a month opens when there is a header to choose and  *)
(* no slot of the region still claims more records than it does.           *)
Opens(sl, f) ==
    /\ Supported(sl, f) # {}
    /\ \A hd \in Decodable(sl) : hd.n <= Chosen(sl, f).n

(* The records a reader of this region takes for the month.                *)
Count(sl, f) == IF Opens(sl, f) THEN Chosen(sl, f).n ELSE 0
Month(sl, f) == [i \in 1 .. Count(sl, f) |-> f[i]]

(* open_or_create: no more than the region, and every byte of it is zero.  *)
AllZero(sl, f) == Held(f) = 0 /\ sl = BlankSlots

(* The positions of the n committed records whose block does not verify.   *)
Unverifiable(f, sm, n) ==
    {i \in 1 .. n : ~VerifyThrough(f, sm[BlockOf(i)], n, BlockOf(i))}

-----------------------------------------------------------------------------
(* A BarFile and the lock it holds.                                        *)

Opening == {"locked", "empty", "zeroed", "inited", "ready", "named"}
Appending == {"writing", "sealing", "summed", "slotted"}
Exclusive == Opening \cup Appending \cup {"open"}
Closed == [pc |-> "closed", n |-> 0, gen |-> 0, last |-> 0,
           batch |-> << >>, done |-> 0, blk |-> NoBlock, seen |-> NoBlock]

(* "reading" holds the shared lock; "peeking" found no lock file to take.  *)
MutCanLock(p) == \A q \in Procs \ {p} : h[q].pc # "reading"
CanLock(p) == \A q \in Procs \ {p} : h[q].pc \notin Exclusive \cup {"reading"}
CanLockShared(p) == \A q \in Procs \ {p} : h[q].pc \notin Exclusive

Step(p, from, to) == h[p].pc = from /\ h' = [h EXCEPT ![p].pc = to]
Close(p) == h' = [h EXCEPT ![p] = Closed]
OpenAt(p, pc, hd) ==
    h' = [h EXCEPT ![p] = [Closed EXCEPT !.pc = pc, !.n = hd.n, !.gen = hd.gen,
                                         !.last = hd.last]]

-----------------------------------------------------------------------------
(* BarFile::open_or_create.                                                *)

(* create_dir_all, then the exclusive lock before the bars are measured.   *)
TakeLock(p) ==
    /\ CanLock(p)
    /\ Step(p, "closed", "locked")
    /\ names' = names \cup {"dir", "lock"}
    /\ UNCHANGED << recs, slots, sums, disk, acked, crashes >>

(* Open the bar file, creating it, and look for an interrupted initialise. *)
OpenBars(p) ==
    /\ Step(p, "locked", IF AllZero(slots, recs) THEN "empty" ELSE "ready")
    /\ names' = names \cup {"bars"}
    /\ UNCHANGED << recs, slots, sums, disk, acked, crashes >>

(* initialise: zeros over the region, the genesis header, one sync.        *)
Initialise(p) ==
    /\ Step(p, "empty", "zeroed")
    /\ slots' = [slots EXCEPT ![SlotOf(0)] = Genesis]
    /\ UNCHANGED << recs, sums, names, disk, acked, crashes >>

SyncInitialise(p) ==
    /\ Step(p, "zeroed", "inited")
    /\ slotsD' = slots
    /\ recsD' = recs
    /\ UNCHANGED << cache, sumsD, namesD, acked, crashes >>

(* fsync_dir makes the names in the month directory durable, and not the   *)
(* name of the directory itself.                                           *)
MutSyncNames == namesD
SyncNames == namesD \cup (names \ {"dir"})

SyncDir(p) ==
    /\ Step(p, "inited", "ready")
    /\ namesD' = SyncNames
    /\ UNCHANGED << cache, recsD, slotsD, sumsD, acked, crashes >>

(* validated, with Access::Write: only a stream with no committed record   *)
(* creates its sidecar; committed records without one are refused.         *)
Validate(p) ==
    /\ h[p].pc = "ready"
    /\ LET hd == Chosen(slots, recs)
       IN  \/ /\ ~Opens(slots, recs)
              /\ Close(p)
              /\ UNCHANGED names
           \/ /\ Opens(slots, recs) /\ hd.n = 0
              /\ OpenAt(p, "named", hd)
              /\ names' = names \cup {"crc"}
           \/ /\ Opens(slots, recs) /\ hd.n > 0
              /\ IF "crc" \in names THEN OpenAt(p, "open", hd) ELSE Close(p)
              /\ UNCHANGED names
    /\ UNCHANGED << recs, slots, sums, disk, acked, crashes >>

SyncSidecarName(p) ==
    /\ Step(p, "named", "open")
    /\ namesD' = SyncNames
    /\ UNCHANGED << cache, recsD, slotsD, sumsD, acked, crashes >>

(* BarFile::open_existing: a shared lock when there is a lock file, and    *)
(* the same `validated`.                                                   *)
OpenExisting(p) ==
    /\ p \in Readers
    /\ h[p].pc = "closed"
    /\ "bars" \in names
    /\ "lock" \in names => CanLockShared(p)
    /\ Opens(slots, recs)
    /\ OpenAt(p, IF "lock" \in names THEN "reading" ELSE "peeking", Chosen(slots, recs))
    /\ UNCHANGED << cache, disk, acked, crashes >>

-----------------------------------------------------------------------------
(* BarFile::read_record.                                                   *)

(* verify_block_of: a block verified last is not verified again.           *)
Readable(p, i) ==
    \/ h[p].seen = BlockOf(i)
    \/ "crc" \in names /\ VerifyThrough(recs, sums[BlockOf(i)], h[p].n, BlockOf(i))

ReadRow(p, i) ==
    /\ h[p].pc \in {"open", "reading", "peeking"}
    /\ i <= h[p].n
    /\ Readable(p, i)
    /\ h' = [h EXCEPT ![p].seen = BlockOf(i)]
    /\ UNCHANGED << cache, disk, acked, crashes >>

-----------------------------------------------------------------------------
(* BarFile::append.                                                        *)

(* verify_old_tail_before_reseal: a partial tail block is verified afresh, *)
(* whatever the handle has already verified.                               *)
MutOldTailVerifies(p) ==
    h[p].n % BlockRecs # 0 => Readable(p, h[p].n)
OldTailVerifies(p) ==
    h[p].n % BlockRecs # 0 => h[p].n \notin Unverifiable(recs, sums, h[p].n)

(* What `append` answers or does for a batch, given the block the handle    *)
(* last verified and does not verify again.                                *)
PlanFor(p, batch) ==
    Plan(recs, h[p].n, h[p].last,
         {i \in Unverifiable(recs, sums, h[p].n) : BlockOf(i) # h[p].seen \/ recs[i] = Torn},
         batch)

(* Survey, overlap, the old tail, and then the batch is taken: the records *)
(* to write are in h[p].batch.  A batch that is present or refused changes *)
(* nothing.  MaxRecs bounds the month.                                     *)
StartAppend(p, batch) ==
    LET plan == PlanFor(p, batch)
    IN  /\ h[p].pc = "open"
        /\ plan.kind = "follows"
        /\ h[p].n + Len(plan.rows) <= MaxRecs
        /\ OldTailVerifies(p)
        /\ h' = [h EXCEPT ![p].pc = "writing", ![p].batch = plan.rows, ![p].done = 0,
                          ![p].seen = NoBlock]
        /\ UNCHANGED << cache, disk, acked, crashes >>

(* write_fully, one record at a time, past the committed records.          *)
WriteRecord(p) ==
    /\ h[p].pc = "writing"
    /\ h[p].done < Len(h[p].batch)
    /\ recs' = [recs EXCEPT ![h[p].n + h[p].done + 1] = h[p].batch[h[p].done + 1]]
    /\ h' = [h EXCEPT ![p].done = @ + 1]
    /\ UNCHANGED << slots, sums, names, disk, acked, crashes >>

(* The first barrier: sync_all on the bar file, its header slots included. *)
NewCount(p) == h[p].n + Len(h[p].batch)
MutRecordsSynced == recsD
RecordsSynced == recs
SyncRecords(p) ==
    /\ h[p].pc = "writing"
    /\ h[p].done = Len(h[p].batch)
    /\ recsD' = RecordsSynced
    /\ slotsD' = slots
    /\ h' = [h EXCEPT ![p].pc = "sealing", ![p].blk = BlockOf(h[p].n + 1)]
    /\ UNCHANGED << cache, sumsD, namesD, acked, crashes >>

(* seal_committed: every block from the old tail's to the new one's.       *)
SealBlock(p) ==
    /\ h[p].pc = "sealing"
    /\ h[p].blk <= BlocksFor(NewCount(p))
    /\ sums' = [sums EXCEPT ![h[p].blk] = Seal(recs, h[p].blk, NewCount(p))]
    /\ h' = [h EXCEPT ![p].blk = @ + 1]
    /\ UNCHANGED << recs, slots, names, disk, acked, crashes >>

SyncSums(p) ==
    /\ Step(p, "sealing", "summed")
    /\ h[p].blk > BlocksFor(NewCount(p))
    /\ sumsD' = sums
    /\ UNCHANGED << cache, recsD, slotsD, namesD, acked, crashes >>

(* Header::advance and Header::commit, and the one write of the slot.      *)
Advanced(p) == [gen |-> h[p].gen + 1, n |-> NewCount(p),
                last |-> h[p].batch[Len(h[p].batch)].ts]
WriteSlot(p) ==
    /\ Step(p, "summed", "slotted")
    /\ slots' = [slots EXCEPT ![SlotOf(h[p].gen + 1)] = Advanced(p)]
    /\ UNCHANGED << recs, sums, names, disk, acked, crashes >>

(* The second barrier; only then does the handle, and the caller, know the *)
(* new count: what was committed before stays what it was, and the rest of *)
(* the month, published by this call or by one that died, is committed too. *)
SyncSlot(p) ==
    /\ h[p].pc = "slotted"
    /\ slotsD' = slots
    /\ recsD' = recs
    /\ OpenAt(p, "open", Advanced(p))
    /\ acked' = [i \in 1 .. NewCount(p) |-> IF i <= Len(acked) THEN acked[i] ELSE recs[i]]
    /\ UNCHANGED << cache, sumsD, namesD, crashes >>

-----------------------------------------------------------------------------
(* The end of a handle, and the environment.                               *)

(* The owner drops an idle BarFile, which releases the lock.               *)
Drop(p) ==
    /\ h[p].pc \in {"open", "reading", "peeking"}
    /\ Close(p)
    /\ UNCHANGED << cache, disk, acked, crashes >>

(* The process dies, or a call on the way fails and its error drops the    *)
(* BarFile: the lock goes, the page cache stays.                           *)
Die(p) ==
    /\ h[p].pc \in Opening \cup Appending
    /\ crashes < MaxCrashes
    /\ crashes' = crashes + 1
    /\ Close(p)
    /\ UNCHANGED << cache, disk, acked >>

(* The kernel writes one dirty piece back when it likes.                   *)
Writeback ==
    /\ \/ \E i \in Pos : recsD' = [recsD EXCEPT ![i] = recs[i]] /\ UNCHANGED << slotsD, sumsD, namesD >>
       \/ \E s \in Slot : slotsD' = [slotsD EXCEPT ![s] = slots[s]] /\ UNCHANGED << recsD, sumsD, namesD >>
       \/ \E b \in Block : sumsD' = [sumsD EXCEPT ![b] = sums[b]] /\ UNCHANGED << recsD, slotsD, namesD >>
       \/ \E x \in names : namesD' = namesD \cup {x} /\ UNCHANGED << recsD, slotsD, sumsD >>
    /\ disk' # disk
    /\ UNCHANGED << cache, h, acked, crashes >>

(* Power is lost: what is on the disk is what there is, any record that    *)
(* was dirty may be torn, and a dirty header slot too when slots can tear. *)
(* A 4-byte sidecar entry is never torn.  A file without a durable name is *)
(* gone, and so is everything when the directory has none.                 *)
Survives(x) == "dir" \in namesD /\ x \in namesD
PowerLoss ==
    /\ crashes < MaxCrashes
    /\ crashes' = crashes + 1
    /\ \E tornRecs \in SUBSET {i \in Pos : recs[i] # recsD[i]},
          tornSlots \in SUBSET {s \in Slot : slots[s] # slotsD[s] /\ "torn_slot" \in Faults} :
          /\ recsD' = IF Survives("bars")
                      THEN [i \in Pos |-> IF i \in tornRecs THEN Torn ELSE recsD[i]]
                      ELSE EmptyFile
          /\ slotsD' = IF Survives("bars")
                       THEN [s \in Slot |-> IF s \in tornSlots THEN Torn ELSE slotsD[s]]
                       ELSE BlankSlots
    /\ sumsD' = IF Survives("crc") THEN sumsD ELSE BlankSums
    /\ namesD' = {x \in namesD : Survives(x)}
    /\ recs' = recsD' /\ slots' = slotsD' /\ sums' = sumsD' /\ names' = namesD'
    /\ h' = [p \in Procs |-> Closed]
    /\ UNCHANGED acked

(* A committed record rots on the disk, while no append is under way.      *)
Rot(i) ==
    /\ "rot" \in Faults
    /\ i <= Len(acked)
    /\ \A p \in Procs : h[p].pc \notin Appending
    /\ recs' = [recs EXCEPT ![i] = Torn]
    /\ recsD' = [recsD EXCEPT ![i] = Torn]
    /\ UNCHANGED << slots, slotsD, sums, sumsD, names, namesD, h, acked, crashes >>

-----------------------------------------------------------------------------
(* The month's directory already exists, unless its tree is a fresh one.   *)
ExistingTree == IF "fresh_tree" \in Faults THEN {} ELSE {"dir"}

Init ==
    /\ recs = EmptyFile /\ recsD = EmptyFile
    /\ slots = BlankSlots /\ slotsD = BlankSlots
    /\ sums = BlankSums /\ sumsD = BlankSums
    /\ names = ExistingTree /\ namesD = ExistingTree
    /\ h = [p \in Procs |-> Closed]
    /\ acked = << >>
    /\ crashes = 0

OpenStep(p) == \/ OpenBars(p) \/ Initialise(p) \/ SyncInitialise(p) \/ SyncDir(p)
               \/ Validate(p) \/ SyncSidecarName(p)
AppendStep(p) == \/ WriteRecord(p) \/ SyncRecords(p) \/ SealBlock(p) \/ SyncSums(p)
                 \/ WriteSlot(p) \/ SyncSlot(p)

Next ==
    \/ \E p \in Procs :
          \/ TakeLock(p) \/ OpenStep(p) \/ OpenExisting(p)
          \/ \E i \in Pos : ReadRow(p, i)
          \/ \E batch \in Offered : StartAppend(p, batch)
          \/ AppendStep(p)
          \/ Drop(p) \/ Die(p)
    \/ Writeback \/ PowerLoss
    \/ \E i \in Pos : Rot(i)

Spec == Init /\ [][Next]_vars

(* Fairness: a process the kernel schedules finishes the calls it has      *)
(* begun and drops its handle (a BarFile is a local of every caller); the  *)
(* caller of `again` comes back until the non-blocking lock lets it in,    *)
(* and then offers the batch before it drops the handle, as                *)
(* ingest::write_and_count does.                                           *)
Fairness(again) ==
    \A p \in Procs :
        /\ WF_vars(OpenStep(p)) /\ WF_vars(AppendStep(p)) /\ WF_vars(Drop(p))
        /\ SF_vars(TakeLock(p))
        /\ SF_vars(StartAppend(p, again))

-----------------------------------------------------------------------------
(* Properties.                                                             *)

HandleType ==
    [pc : {"closed", "reading", "peeking"} \cup Exclusive, n : 0 .. MaxRecs, gen : Nat, last : Nat,
     batch : Seq(Record), done : Nat, blk : Nat, seen : Nat]

(* Every variable stays in its domain.                                     *)
TypeOK ==
    /\ recs \in File /\ recsD \in File
    /\ slots \in [Slot -> Header \cup {Blank, Torn}]
    /\ slotsD \in [Slot -> Header \cup {Blank, Torn}]
    /\ DOMAIN sums = Block /\ DOMAIN sumsD = Block
    /\ names \subseteq Names /\ namesD \subseteq Names
    /\ h \in [Procs -> HandleType]
    /\ acked \in Seq(Cell)
    /\ crashes \in 0 .. MaxCrashes

IsPrefixOf(a, m) == Len(a) <= Len(m) /\ \A i \in 1 .. Len(a) : a[i] = m[i]

(* The records `append` reported Committed survive: whatever has been      *)
(* written since, power lost now leaves a month file that has its name and *)
(* its sidecar, opens, and starts with them.  (The table of durability in  *)
(* the module doc of file.rs.)                                             *)
AckedSurvive ==
    acked # << >> =>
        /\ {"dir", "bars", "crc"} \subseteq namesD
        /\ Opens(slotsD, recsD)
        /\ IsPrefixOf(acked, Month(slotsD, recsD))

(* A handle that is open, and one that is appending until it writes its    *)
(* header slot, knows the header the file has: no other process publishes  *)
(* underneath it, whatever died or was killed before it opened.  A reader  *)
(* that found no lock file to take has no record to serve.                 *)
HandleIsCurrent ==
    \A p \in Procs :
        /\ h[p].pc \in {"open", "reading", "writing", "sealing", "summed"} =>
               /\ Opens(slots, recs)
               /\ Chosen(slots, recs) = [gen |-> h[p].gen, n |-> h[p].n, last |-> h[p].last]
        /\ h[p].pc = "peeking" => h[p].n = 0

(* An honest crash is never refused: as long as one header slot decodes,   *)
(* the month opens with it, no slot claims more than the file holds, and   *)
(* the sidecar its records need is there.  (The comment of `validated`:    *)
(* CounterExceedsFile "cannot fire on an honest interrupted append".)      *)
HonestCrashIsNotRefused ==
    Decodable(slots) # {} =>
        /\ Opens(slots, recs)
        /\ Chosen(slots, recs).n > 0 => "crc" \in names

(* Every committed record can be read through its block's checksum, at     *)
(* every instant of an append and after any crash, as long as callers      *)
(* offer the same bars again.                                              *)
CommittedVerifies ==
    /\ Unverifiable(recs, sums, Count(slots, recs)) = {}
    /\ Unverifiable(recsD, sumsD, Count(slotsD, recsD)) = {}

(* An append never seals a rotted record: a block that verifies holds, for *)
(* every record reported committed, the record that was committed.         *)
RotNeverLaundered ==
    \A i \in 1 .. Len(acked) :
        i \notin Unverifiable(recs, sums, Count(slots, recs)) => recs[i] = acked[i]

(* A month with a committed bar is completed: whatever crashes cut short,  *)
(* the re-offered month is taken up where it was left.                     *)
MonthIsCompleted == acked # << >> ~> Count(slots, recs) = MaxRecs

(* The month implements the log of MonthLog: what a reader of the cached   *)
(* file takes for the month, and what `append` has reported committed.     *)
Log == INSTANCE MonthLog WITH Bar <- Record, month <- Month(slots, recs)
LogSpec == Log!Spec
=============================================================================
