------------------------------ MODULE Revision ------------------------------
(***************************************************************************)
(* A revision of a month (store/src/repair.rs): a corrected copy published *)
(* once, under an ordinal of its own, in files that stand beside those of  *)
(* the month and are never replaced.  One ordinal of one month, publishers *)
(* and readers of it, and the ordinary writer of the month it corrects.    *)
(*                                                                         *)
(* The month file under the ordinal is taken at MonthFile's word: rows     *)
(* become visible with the commit of its header, and are durable when      *)
(* append returns.  A power loss keeps of a directory any names between    *)
(* those synced and those present, and may take all of it while an         *)
(* ancestor was not synced.  Size limits and unsealed headers, which only  *)
(* refuse, are left out.  answered and served are history.                 *)
(***************************************************************************)
EXTENDS Naturals, Sequences, FiniteSets

CONSTANTS
  Processes,    \* each publishes or reads, one call at a time
  SourceTimes,  \* the timestamps the ordinary month comes to hold, in order
  Offers,       \* what is published: the rows merged and the source they were merged over
  MaxCalls,     \* bound: calls of publish and of open
  MaxFails,     \* bound: calls that end early, by an I/O error or a death
  MaxLosses     \* bound: losses of power

ASSUME RevisionAssumption ==
  /\ IsFiniteSet(Processes)
  /\ \A o \in Offers : o = [source |-> o.source, rows |-> o.rows]
  /\ {MaxCalls, MaxFails, MaxLosses} \subseteq Nat

VARIABLES
  source,    \* rows of the ordinary month
  names,     \* what the directory of the ordinal holds
  synced,    \* the names of it that are on the disk
  rooted,    \* the directory is on the disk, with every ancestor
  month,     \* the revised rows: as they are read, and whether they are on the disk
  receipt,   \* the receipt, likewise: <<the offer it names>>, or Torn
  procs,     \* the calls under way; a reader's has no offer
  calls, fails, losses,
  answered,  \* offers answered Created or Reused
  served     \* what readers were given

disk == <<names, synced, rooted, month, receipt>>
bounds == <<calls, fails, losses>>
vars == <<source, disk, procs, bounds, answered, served>>

Siblings == {"bars", "sums", "lock"}
Torn == << >>
Empty == [is |-> << >>, safe |-> FALSE]
Quiet == [pc |-> "idle", offer |-> << >>, seen |-> << >>]

Init ==
  /\ source \in 0..Len(SourceTimes)
  /\ names = {} /\ synced = {} /\ rooted = FALSE
  /\ month = Empty /\ receipt = Empty
  /\ procs = [p \in Processes |-> Quiet]
  /\ calls = 0 /\ fails = 0 /\ losses = 0
  /\ answered = {} /\ served = {}

-----------------------------------------------------------------------------
At(p, pc) == procs[p].pc = pc
Goes(p, pc) == procs' = [procs EXCEPT ![p].pc = pc]
Ends(p) == procs' = [procs EXCEPT ![p] = Quiet]
Offered(p) == procs[p].offer[1]

(* The exclusive lock of the revised month, from its creation to the end   *)
(* of write_revision; the shared lock of the source, of all of publish.    *)
Writing == {"open", "append", "commit", "root", "create", "write", "sync", "publish"}
WritesMonth(p) == procs[p].pc \in Writing \ {"open"}
HoldsSource(p) == procs[p].pc \in Writing \cup {"reserve", "check"}

Publish(p) ==
  /\ At(p, "idle") /\ calls < MaxCalls /\ calls' = calls + 1
  /\ \E o \in Offers : procs' = [procs EXCEPT ![p] = [Quiet EXCEPT !.pc = "look", !.offer = <<o>>]]
  /\ UNCHANGED <<source, disk, fails, losses, answered, served>>

Open(p) ==
  /\ At(p, "idle") /\ calls < MaxCalls /\ calls' = calls + 1
  /\ Goes(p, "receipt")
  /\ UNCHANGED <<source, disk, fails, losses, answered, served>>

(* A reservation sends the publisher down the path of a retry.             *)
Look(p) ==
  /\ At(p, "look")
  /\ Goes(p, IF "reserved" \in names THEN "receipt" ELSE "source")
  /\ UNCHANGED <<source, disk, bounds, answered, served>>

-----------------------------------------------------------------------------
(* RevisionReader::open, for a reader and for the retry of a publisher     *)

ReadReceipt(p) ==
  /\ At(p, "receipt")
  /\ IF "receipt" \in names /\ receipt.is # Torn
     THEN procs' = [procs EXCEPT ![p].pc = "month", ![p].seen = receipt.is]
     ELSE Ends(p)
  /\ UNCHANGED <<source, disk, bounds, answered, served>>

(* The lock file must be there and be free for a shared lock, and the      *)
(* month's header must be the one the receipt names.  A header is told by  *)
(* the rows it commits, which MonthFile syncs before it.                   *)
Opens(p) ==
  /\ Siblings \subseteq names /\ \A q \in Processes : ~WritesMonth(q)
  /\ month.is = procs[p].seen[1].rows

OpenMonth(p) ==
  /\ At(p, "month")
  /\ IF Opens(p) THEN Goes(p, IF procs[p].offer = << >> THEN "serve" ELSE "compare")
     ELSE Ends(p)
  /\ UNCHANGED <<source, disk, bounds, answered, served>>

Serve(p) ==
  /\ At(p, "serve")
  /\ served' = served \cup {[procs[p].seen[1] EXCEPT !.rows = month.is]}
  /\ Ends(p)
  /\ UNCHANGED <<source, disk, bounds, answered>>

Same(p) == procs[p].seen[1].source = Offered(p).source /\ month.is = Offered(p).rows

Compare(p) ==
  /\ At(p, "compare")
  /\ IF Same(p) THEN Goes(p, "resync") ELSE Ends(p)
  /\ UNCHANGED <<source, disk, bounds, answered, served>>

(* sync_revision syncs the three files, then the directory and all above.  *)
SyncFiles(p) ==
  /\ At(p, "resync")
  /\ month' = [month EXCEPT !.safe = TRUE] /\ receipt' = [receipt EXCEPT !.safe = TRUE]
  /\ Goes(p, "reuse")
  /\ UNCHANGED <<source, names, synced, rooted, bounds, answered, served>>

(* Mutant: the ancestors are left to the kernel.                           *)
MutSyncAncestors == UNCHANGED <<synced, rooted>>

SyncAncestors == synced' = names /\ rooted' = TRUE

Reuse(p) ==
  /\ At(p, "reuse")
  /\ SyncAncestors
  /\ answered' = answered \cup {Offered(p)}
  /\ Ends(p)
  /\ UNCHANGED <<source, names, month, receipt, bounds, served>>

-----------------------------------------------------------------------------
(* publish and write_revision                                              *)

(* Every source timestamp must be among those offered.                     *)
Retains(o) == \A n \in 1..o.source : SourceTimes[n] \in DOMAIN o.rows

LockSource(p) ==
  /\ At(p, "source")
  /\ IF Offered(p).source = source /\ Retains(Offered(p)) THEN Goes(p, "reserve")
     ELSE Ends(p)
  /\ UNCHANGED <<source, disk, bounds, answered, served>>

(* create_new: one publisher gets the ordinal.                             *)
Reserve(p) ==
  /\ At(p, "reserve")
  /\ IF "reserved" \in names THEN Ends(p) /\ UNCHANGED names
     ELSE names' = names \cup {"reserved"} /\ Goes(p, "check")
  /\ UNCHANGED <<source, synced, rooted, month, receipt, bounds, answered, served>>

(* What a lost reservation left behind is never adopted.                   *)
Check(p) ==
  /\ At(p, "check")
  /\ IF names \cap (Siblings \cup {"receipt"}) = {} THEN Goes(p, "open") ELSE Ends(p)
  /\ UNCHANGED <<source, disk, bounds, answered, served>>

(* open_or_create makes the three files and syncs their directory; append  *)
(* makes the rows visible, then durable.                                   *)
CreateFiles(p) ==
  /\ At(p, "open")
  /\ names' = names \cup Siblings
  /\ month' = [is |-> << >>, safe |-> TRUE]
  /\ Goes(p, "append")
  /\ UNCHANGED <<source, synced, rooted, receipt, bounds, answered, served>>

AppendRows(p) ==
  /\ At(p, "append")
  /\ synced' = names
  /\ month' = [is |-> Offered(p).rows, safe |-> FALSE]
  /\ Goes(p, "commit")
  /\ UNCHANGED <<source, names, rooted, receipt, bounds, answered, served>>

SyncRows(p) ==
  /\ At(p, "commit")
  /\ month' = [month EXCEPT !.safe = TRUE]
  /\ Goes(p, "root")
  /\ UNCHANGED <<source, names, synced, rooted, receipt, bounds, answered, served>>

(* Mutant: only the month's own directory is synced before the receipt.    *)
MutRoot(p) ==
  /\ At(p, "root")
  /\ Goes(p, "create")
  /\ UNCHANGED <<source, disk, bounds, answered, served>>

Root(p) ==
  /\ At(p, "root")
  /\ SyncAncestors
  /\ Goes(p, "create")
  /\ UNCHANGED <<source, names, month, receipt, bounds, answered, served>>

CreateReceipt(p) ==
  /\ At(p, "create")
  /\ IF "receipt" \in names THEN Ends(p) /\ UNCHANGED <<names, receipt>>
     ELSE names' = names \cup {"receipt"} /\ receipt' = [is |-> Torn, safe |-> FALSE]
          /\ Goes(p, "write")
  /\ UNCHANGED <<source, synced, rooted, month, bounds, answered, served>>

WriteReceipt(p) ==
  /\ At(p, "write")
  /\ receipt' = [is |-> procs[p].offer, safe |-> FALSE]
  /\ Goes(p, "sync")
  /\ UNCHANGED <<source, names, synced, rooted, month, bounds, answered, served>>

SyncReceipt(p) ==
  /\ At(p, "sync")
  /\ receipt' = [receipt EXCEPT !.safe = TRUE]
  /\ Goes(p, "publish")
  /\ UNCHANGED <<source, names, synced, rooted, month, bounds, answered, served>>

Created(p) ==
  /\ At(p, "publish")
  /\ SyncAncestors
  /\ answered' = answered \cup {Offered(p)}
  /\ Ends(p)
  /\ UNCHANGED <<source, names, month, receipt, bounds, served>>

-----------------------------------------------------------------------------
(* The call ends where it stands; its locks go, what it wrote stays.       *)
Fail(p) ==
  /\ ~At(p, "idle") /\ fails < MaxFails /\ fails' = fails + 1
  /\ Ends(p)
  /\ UNCHANGED <<source, disk, calls, losses, answered, served>>

(* The ordinary writer, which a shared lock keeps out.                     *)
AppendSource ==
  /\ source < Len(SourceTimes) /\ \A p \in Processes : ~HoldsSource(p)
  /\ source' = source + 1
  /\ UNCHANGED <<disk, procs, bounds, answered, served>>

Kept(name, file, lost) ==
  IF name \notin names' THEN {Empty}
  ELSE {[file EXCEPT !.safe = TRUE]} \cup (IF file.safe THEN {} ELSE {[is |-> lost, safe |-> TRUE]})

PowerLoss ==
  /\ losses < MaxLosses /\ losses' = losses + 1
  /\ \/ /\ names' \in SUBSET names /\ synced \subseteq names'
        /\ rooted' = (rooted \/ names' # {})
     \/ ~rooted /\ names' = {} /\ rooted' = FALSE
  /\ synced' = names'
  /\ month' \in Kept("bars", month, << >>) /\ receipt' \in Kept("receipt", receipt, Torn)
  /\ procs' = [p \in Processes |-> Quiet]
  /\ UNCHANGED <<source, calls, fails, answered, served>>

Step(p) ==
  \/ Publish(p) \/ Open(p) \/ Look(p)
  \/ ReadReceipt(p) \/ OpenMonth(p) \/ Serve(p) \/ Compare(p) \/ SyncFiles(p) \/ Reuse(p)
  \/ LockSource(p) \/ Reserve(p) \/ Check(p) \/ CreateFiles(p) \/ AppendRows(p) \/ SyncRows(p)
  \/ Root(p) \/ CreateReceipt(p) \/ WriteReceipt(p) \/ SyncReceipt(p) \/ Created(p)
  \/ Fail(p)

Next == (\E p \in Processes : Step(p)) \/ AppendSource \/ PowerLoss

Spec == Init /\ [][Next]_vars

-----------------------------------------------------------------------------
(* What an offer answered Created or Reused leaves is there for every      *)
(* reader ever after, whatever power is lost (repair.rs: a revision is     *)
(* durable, names included, before publish answers).                       *)
PublishedSurvives ==
  \A o \in answered :
    /\ {"reserved", "receipt"} \cup Siblings \subseteq names
    /\ receipt.is = <<o>> /\ month.is = o.rows

(* An ordinal never has two contents: whoever was served or answered, and  *)
(* before or after whatever crash, it was with the same rows over the same *)
(* source ("exhausted ordinals are never reused for different data").      *)
OrdinalIsImmutable == \A a, b \in answered \cup served : a = b
=============================================================================
