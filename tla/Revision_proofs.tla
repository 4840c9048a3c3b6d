-------------------------- MODULE Revision_proofs ---------------------------
(***************************************************************************)
(* An ordinal is written once and what it answers stays, for any number of *)
(* processes, any offers and any number of failures and losses of power.   *)
(***************************************************************************)
EXTENDS Revision, TLAPS

USE RevisionAssumption

-----------------------------------------------------------------------------
(* The inductive invariant                                                 *)

Base == {"reserved"} \cup Siblings
Claiming == Writing \cup {"check"}
Reading == {"month", "serve", "compare", "resync", "reuse"}
Outside == {"idle", "look", "receipt", "source", "reserve"}
Whole == {<<o>> : o \in Offers}
Proc == [pc : Claiming \cup Reading \cup Outside, offer : {<< >>} \cup Whole, seen : {<< >>} \cup Whole]
Given == answered \cup served

Disked ==
  /\ names \subseteq Base \cup {"receipt"} /\ synced \subseteq names /\ rooted \in BOOLEAN
  /\ month \in [is : {<< >>} \cup {o.rows : o \in Offers}, safe : BOOLEAN]
  /\ receipt \in [is : {Torn} \cup Whole, safe : BOOLEAN]

Free == \A q \in Processes : procs[q].pc \notin Claiming

\* One process at most has the ordinal, and it is reserved.
Sole ==
  \A p \in Processes : procs[p].pc \in Claiming =>
    "reserved" \in names /\ \A q \in Processes : procs[q].pc \in Claiming => q = p

Carries(r) == r.pc \notin {"idle", "receipt", "month", "serve"} => r.offer \in Whole

\* How far the process that has it has come.
Stage(r) ==
  /\ r.pc \in {"append", "commit", "root"} => Siblings \subseteq names
  /\ r.pc \in {"check", "open", "append", "commit", "root", "create"} => "receipt" \notin names
  /\ r.pc \in {"commit", "root", "create", "write", "sync", "publish"} => month.is = r.offer[1].rows
  /\ r.pc \in {"root", "create", "write", "sync", "publish"} => month.safe
  /\ r.pc \in {"create", "write", "sync", "publish"} => rooted /\ Base \subseteq synced
  /\ r.pc \in {"write", "sync", "publish"} => "receipt" \in names
  /\ r.pc = "write" => receipt.is = Torn
  /\ r.pc \in {"sync", "publish"} => receipt.is = r.offer
  /\ r.pc = "publish" => receipt.safe

\* What a reader has seen is still what is there.
Reads(r) ==
  /\ r.pc \in Reading => "receipt" \in names /\ receipt.is = r.seen /\ receipt.is # Torn
  /\ r.pc \in Reading \ {"month"} => Free
  /\ r.pc \in {"resync", "reuse"} => r.offer = r.seen
  /\ r.pc = "reuse" => receipt.safe

Fits == \A p \in Processes : Carries(procs[p]) /\ Stage(procs[p]) /\ Reads(procs[p])

\* A receipt stands only on names that no power loss takes, and a whole
\* one on rows that none takes.
Receipted ==
  "receipt" \in names =>
    /\ rooted /\ Base \subseteq synced
    /\ receipt.is # Torn => month.safe /\ month.is = receipt.is[1].rows

\* Once anyone was given something nobody writes, or ever can again.
Settled ==
  Given # {} =>
    /\ rooted /\ Base \subseteq synced /\ Free
    /\ "receipt" \in names /\ receipt.is # Torn => \A a \in Given : receipt.is = <<a>>
    /\ \A a, b \in Given : a = b

Lasting == answered # {} => "receipt" \in synced /\ receipt.safe /\ receipt.is # Torn

IInv ==
  /\ Disked /\ procs \in [Processes -> Proc]
  /\ Sole /\ Fits /\ Receipted /\ Settled /\ Lasting

-----------------------------------------------------------------------------
LEMMA OneHeld == \A h \in Whole : h # << >> /\ h[1] \in Offers /\ h = <<h[1]>>
  BY DEF Whole

\* Offers are told apart by their fields.
LEMMA SameOffer ==
  ASSUME NEW a \in Offers, NEW b \in Offers, a.source = b.source, a.rows = b.rows
  PROVE  a = b
<1>1. a = [source |-> a.source, rows |-> a.rows]
  OBVIOUS
<1>2. b = [source |-> b.source, rows |-> b.rows]
  OBVIOUS
<1> QED
  BY <1>1, <1>2

LEMMA Replaced ==
  ASSUME procs \in [Processes -> Proc], NEW p \in Processes, NEW r \in Proc,
         procs' = [procs EXCEPT ![p] = r]
  PROVE  /\ procs' \in [Processes -> Proc] /\ procs'[p] = r
         /\ \A q \in Processes : q # p => procs'[q] = procs[q]
  OBVIOUS

LEMMA Apart ==
  /\ Outside \cap Claiming = {} /\ Outside \cap Reading = {} /\ Reading \cap Claiming = {}
  BY DEF Outside, Claiming, Reading, Writing

\* A place outside asks nothing of the disk.
LEMMA Plain == ASSUME NEW r, r.pc \in Outside PROVE Stage(r) /\ Reads(r)
  BY DEF Outside, Stage, Reads, Reading

LEMMA NotWriting == ASSUME NEW r, r.pc \notin Claiming PROVE Stage(r)
  BY DEF Stage, Claiming, Writing

LEMMA NotReading == ASSUME NEW r, r.pc \notin Reading PROVE Reads(r)
  BY DEF Reads, Reading

-----------------------------------------------------------------------------
(* Steps that leave the disk alone and answer nobody                       *)

LEMMA Still ==
  ASSUME IInv, NEW p \in Processes, NEW r \in Proc, procs' = [procs EXCEPT ![p] = r],
         r.pc \in Claiming => procs[p].pc \in Claiming,
         Carries(r), Stage(r), Reads(r),
         UNCHANGED <<disk, answered, served>>
  PROVE  IInv'
<1>1. /\ procs' \in [Processes -> Proc] /\ procs'[p] = r
      /\ \A q \in Processes : q # p => procs'[q] = procs[q]
  BY Replaced DEF IInv
<1>2. \A q \in Processes : procs'[q].pc \in Claiming => procs[q].pc \in Claiming
  BY <1>1
<1>3. Free => Free'
  BY <1>2 DEF Free, Claiming, Writing
<1>4. Disked' /\ Receipted' /\ Lasting'
  BY DEF IInv, Disked, Receipted, Lasting, disk, Base, Siblings, Torn, Whole
<1>5. Sole'
  BY <1>2 DEF IInv, Sole, disk, Claiming, Writing
<1>6. Settled'
  BY <1>3 DEF IInv, Settled, Given, disk, Base, Siblings, Torn
<1>7. ASSUME NEW s, Carries(s), Stage(s), Reads(s) PROVE Carries(s)' /\ Stage(s)' /\ Reads(s)'
  <2>1. Carries(s)'
    BY <1>7 DEF Carries, Whole
  <2>2. Stage(s)'
    BY <1>7 DEF Stage, disk, Base, Siblings, Torn
  <2>3. Reads(s)'
    BY <1>7, <1>3 DEF Reads, disk, Torn, Reading
  <2> QED
    BY <2>1, <2>2, <2>3
<1>8. Fits'
  <2> SUFFICES ASSUME NEW q \in Processes PROVE (Carries(procs[q]) /\ Stage(procs[q]) /\ Reads(procs[q]))'
    BY DEF Fits
  <2>1. CASE q = p
    BY <2>1, <1>1, <1>7
  <2>2. CASE q # p
    <3>1. Carries(procs[q]) /\ Stage(procs[q]) /\ Reads(procs[q])
      BY DEF IInv, Fits
    <3> QED
      BY <2>2, <3>1, <1>1, <1>7
  <2> QED
    BY <2>1, <2>2
<1> QED
  BY <1>1, <1>4, <1>5, <1>6, <1>8 DEF IInv

LEMMA QuietIsProc == Quiet \in Proc /\ Quiet.pc = "idle"
  BY DEF Quiet, Proc, Outside

LEMMA Withdraws ==
  ASSUME IInv, NEW p \in Processes, NEW r \in Proc, procs' = [procs EXCEPT ![p] = r],
         r.pc \in Outside, Carries(r), UNCHANGED <<disk, answered, served>>
  PROVE  IInv'
<1>1. Stage(r) /\ Reads(r)
  BY Plain
<1>2. r.pc \notin Claiming
  BY Apart
<1> QED
  BY <1>1, <1>2, Still

LEMMA EndsQuietly ==
  ASSUME IInv, NEW p \in Processes, Ends(p), UNCHANGED <<disk, answered, served>>
  PROVE  IInv'
<1>1. Quiet.pc \in Outside /\ Carries(Quiet)
  BY QuietIsProc DEF Outside, Carries
<1> QED
  BY <1>1, QuietIsProc, Withdraws DEF Ends

\* A process that only goes on to another place.
LEMMA Went ==
  ASSUME IInv, NEW p \in Processes, NEW pc \in Claiming \cup Reading \cup Outside, Goes(p, pc)
  PROVE  LET r == [procs[p] EXCEPT !.pc = pc]
         IN  /\ r \in Proc /\ r.pc = pc /\ r.offer = procs[p].offer /\ r.seen = procs[p].seen
             /\ procs' = [procs EXCEPT ![p] = r]
  BY DEF IInv, Goes, Proc

LEMMA Owned ==
  ASSUME IInv, NEW p \in Processes
  PROVE  /\ procs[p] \in Proc /\ Carries(procs[p]) /\ Stage(procs[p]) /\ Reads(procs[p])
         /\ procs[p].pc \in Claiming \cup Reading \cup Outside
  BY DEF IInv, Fits, Proc

LEMMA PublishKeeps == ASSUME IInv, NEW p \in Processes, Publish(p) PROVE IInv'
<1>1. PICK o \in Offers : procs' = [procs EXCEPT ![p] = [Quiet EXCEPT !.pc = "look", !.offer = <<o>>]]
  BY DEF Publish
<1> DEFINE r == [Quiet EXCEPT !.pc = "look", !.offer = <<o>>]
<1>2. r \in Proc /\ r.pc \in Outside /\ Carries(r)
  BY DEF Quiet, Proc, Outside, Carries, Whole
<1> QED
  BY <1>1, <1>2, Withdraws DEF Publish

LEMMA OpenKeeps == ASSUME IInv, NEW p \in Processes, Open(p) PROVE IInv'
<1> DEFINE r == [procs[p] EXCEPT !.pc = "receipt"]
<1>1. Goes(p, "receipt") /\ UNCHANGED <<disk, answered, served>>
  BY DEF Open
<1>2. r \in Proc /\ r.pc = "receipt" /\ procs' = [procs EXCEPT ![p] = r]
  BY <1>1, Went DEF Outside
<1> QED
  BY <1>1, <1>2, Withdraws DEF Outside, Carries

LEMMA LookKeeps == ASSUME IInv, NEW p \in Processes, Look(p) PROVE IInv'
<1>1. PICK pc \in {"receipt", "source"} : Goes(p, pc)
  BY DEF Look
<1> DEFINE r == [procs[p] EXCEPT !.pc = pc]
<1>2. r \in Proc /\ r.pc = pc /\ r.offer = procs[p].offer /\ procs' = [procs EXCEPT ![p] = r]
  BY <1>1, Went DEF Outside
<1>3. Carries(r)
  BY <1>2, Owned DEF Carries, Look, At
<1> QED
  BY <1>2, <1>3, Withdraws DEF Look, Outside

LEMMA ReadReceiptKeeps == ASSUME IInv, NEW p \in Processes, ReadReceipt(p) PROVE IInv'
<1>1. CASE Ends(p)
  BY <1>1, EndsQuietly DEF ReadReceipt
<1>2. CASE ~Ends(p)
  <2> DEFINE r == [procs[p] EXCEPT !.pc = "month", !.seen = receipt.is]
  <2>1. /\ "receipt" \in names /\ receipt.is # Torn
        /\ procs' = [procs EXCEPT ![p].pc = "month", ![p].seen = receipt.is]
    BY <1>2 DEF ReadReceipt
  <2>2. receipt.is \in Whole
    BY <2>1 DEF IInv, Disked
  <2>3. r \in Proc /\ r.pc = "month" /\ r.seen = receipt.is
    BY <2>2, Owned DEF Proc, Reading
  <2>4. procs' = [procs EXCEPT ![p] = r]
    BY <2>1 DEF IInv, Proc
  <2>5. Carries(r) /\ Stage(r) /\ r.pc \notin Claiming
    BY <2>3, NotWriting, Apart DEF Carries, Reading
  <2>6. Reads(r)
    BY <2>1, <2>3 DEF Reads
  <2> QED
    BY <2>3, <2>4, <2>5, <2>6, Still DEF ReadReceipt
<1> QED
  BY <1>1, <1>2

\* Nobody has the ordinal while its month can be opened.
LEMMA OpensFree ==
  ASSUME IInv, "receipt" \in names, \A q \in Processes : ~WritesMonth(q)
  PROVE  Free
<1> SUFFICES ASSUME NEW q \in Processes, procs[q].pc \in Claiming PROVE FALSE
  BY DEF Free
<1>1. procs[q].pc \in {"check", "open"}
  BY DEF WritesMonth, Claiming
<1> QED
  BY <1>1, Owned DEF Stage

LEMMA OpenMonthKeeps == ASSUME IInv, NEW p \in Processes, OpenMonth(p) PROVE IInv'
<1>1. CASE Ends(p)
  BY <1>1, EndsQuietly DEF OpenMonth
<1>2. CASE ~Ends(p)
  <2>1. Opens(p) /\ At(p, "month") /\ UNCHANGED <<disk, answered, served>>
    BY <1>2 DEF OpenMonth
  <2>2. PICK pc \in {"serve", "compare"} :
          Goes(p, pc) /\ (pc = "compare" => procs[p].offer # << >>)
    BY <1>2 DEF OpenMonth
  <2> DEFINE r == [procs[p] EXCEPT !.pc = pc]
  <2>3. /\ r \in Proc /\ r.pc = pc /\ r.offer = procs[p].offer /\ r.seen = procs[p].seen
        /\ procs' = [procs EXCEPT ![p] = r]
    BY <2>2, Went DEF Reading
  <2>4. "receipt" \in names /\ receipt.is = procs[p].seen /\ receipt.is # Torn
    BY <2>1, Owned DEF Reads, At, Reading
  <2>5. Free
    BY <2>1, <2>4, OpensFree DEF Opens
  <2>6. Carries(r)
    BY <2>2, <2>3, Owned DEF Carries, Proc
  <2>7. Stage(r) /\ r.pc \notin Claiming
    BY <2>2, <2>3, NotWriting DEF Claiming, Writing
  <2>8. Reads(r)
    BY <2>2, <2>3, <2>4, <2>5 DEF Reads
  <2> QED
    BY <2>1, <2>3, <2>6, <2>7, <2>8, Still
<1> QED
  BY <1>1, <1>2

LEMMA CompareKeeps == ASSUME IInv, NEW p \in Processes, Compare(p) PROVE IInv'
<1>1. CASE Ends(p)
  BY <1>1, EndsQuietly DEF Compare
<1>2. CASE ~Ends(p)
  <2>1. Same(p) /\ Goes(p, "resync") /\ At(p, "compare") /\ UNCHANGED <<disk, answered, served>>
    BY <1>2 DEF Compare
  <2> DEFINE r == [procs[p] EXCEPT !.pc = "resync"]
  <2>2. /\ r \in Proc /\ r.pc = "resync" /\ r.offer = procs[p].offer /\ r.seen = procs[p].seen
        /\ procs' = [procs EXCEPT ![p] = r]
    BY <2>1, Went DEF Reading
  <2>3. "receipt" \in names /\ receipt.is = procs[p].seen /\ receipt.is # Torn /\ Free
    BY <2>1, Owned DEF Reads, At, Reading
  <2>4. procs[p].offer \in Whole /\ procs[p].seen \in Whole
    BY <2>1, <2>3, Owned DEF Carries, At, IInv, Disked
  <2>5. procs[p].seen[1].rows = procs[p].offer[1].rows
    BY <2>1, <2>3 DEF IInv, Receipted, Same, Offered
  <2>6. procs[p].seen[1] = procs[p].offer[1]
    BY <2>1, <2>4, <2>5, OneHeld, SameOffer DEF Same, Offered
  <2>7. procs[p].offer = procs[p].seen
    BY <2>4, <2>6, OneHeld
  <2>8. Carries(r) /\ Stage(r) /\ r.pc \notin Claiming
    BY <2>2, <2>4, NotWriting DEF Carries, Claiming, Writing
  <2>9. Reads(r)
    BY <2>2, <2>3, <2>7 DEF Reads
  <2> QED
    BY <2>1, <2>2, <2>8, <2>9, Still
<1> QED
  BY <1>1, <1>2

LEMMA LockSourceKeeps == ASSUME IInv, NEW p \in Processes, LockSource(p) PROVE IInv'
<1>1. CASE Ends(p)
  BY <1>1, EndsQuietly DEF LockSource
<1>2. CASE Goes(p, "reserve")
  <2> DEFINE r == [procs[p] EXCEPT !.pc = "reserve"]
  <2>1. r \in Proc /\ r.pc = "reserve" /\ r.offer = procs[p].offer /\ procs' = [procs EXCEPT ![p] = r]
    BY <1>2, Went DEF Outside
  <2>2. Carries(r)
    BY <2>1, Owned DEF Carries, LockSource, At
  <2> QED
    BY <2>1, <2>2, Withdraws DEF LockSource, Outside
<1> QED
  BY <1>1, <1>2 DEF LockSource

LEMMA CheckKeeps == ASSUME IInv, NEW p \in Processes, Check(p) PROVE IInv'
<1>1. CASE Ends(p)
  BY <1>1, EndsQuietly DEF Check
<1>2. CASE Goes(p, "open") /\ "receipt" \notin names
  <2> DEFINE r == [procs[p] EXCEPT !.pc = "open"]
  <2>1. r \in Proc /\ r.pc = "open" /\ r.offer = procs[p].offer /\ procs' = [procs EXCEPT ![p] = r]
    BY <1>2, Went DEF Claiming, Writing
  <2>2. Carries(r) /\ procs[p].pc \in Claiming
    BY <2>1, Owned DEF Carries, Check, At, Claiming
  <2>3. Stage(r) /\ Reads(r)
    BY <1>2, <2>1, NotReading DEF Stage, Reading
  <2> QED
    BY <2>1, <2>2, <2>3, Still DEF Check
<1> QED
  BY <1>1, <1>2 DEF Check

LEMMA FailKeeps == ASSUME IInv, NEW p \in Processes, Fail(p) PROVE IInv'
  BY EndsQuietly DEF Fail

LEMMA AppendSourceKeeps == ASSUME IInv, AppendSource PROVE IInv'
  BY DEF AppendSource, IInv, Disked, Sole, Fits, Carries, Stage, Reads, Free, Receipted, Settled, Lasting,
         Given, disk, Torn, Base, Siblings, Whole

-----------------------------------------------------------------------------
(* Steps of the process that has the ordinal                               *)

\* Nobody was given anything yet, and nobody reads beyond the receipt.
LEMMA Alone ==
  ASSUME IInv, NEW p \in Processes, procs[p].pc \in Claiming
  PROVE  Given = {} /\ \A q \in Processes : q # p => procs[q].pc \in Outside \cup {"month"}
<1>1. ~Free
  BY DEF Free
<1>2. ASSUME NEW q \in Processes, q # p PROVE procs[q].pc \in Outside \cup {"month"}
  <2>1. procs[q].pc \notin Claiming
    BY <1>2 DEF IInv, Sole
  <2>2. procs[q].pc \notin Reading \ {"month"}
    BY <1>1, Owned DEF Reads
  <2> QED
    BY <2>1, <2>2, Owned
<1> QED
  BY <1>1, <1>2 DEF IInv, Settled

LEMMA Works ==
  ASSUME IInv, NEW p \in Processes, NEW r \in Proc, procs' = [procs EXCEPT ![p] = r],
         Given = {}, UNCHANGED <<answered, served>>,
         \A q \in Processes : q # p => procs[q].pc \in Outside \cup {"month"},
         r.pc \in Claiming, "reserved" \in names',
         Carries(r), Stage(r)', Disked', Receipted',
         "receipt" \in names /\ receipt.is # Torn => "receipt" \in names' /\ receipt'.is = receipt.is
  PROVE  IInv'
<1>1. /\ procs' \in [Processes -> Proc] /\ procs'[p] = r
      /\ \A q \in Processes : q # p => procs'[q] = procs[q]
  BY Replaced DEF IInv
<1>2. \A q \in Processes : q # p => procs'[q].pc \notin Claiming
  BY <1>1 DEF Outside, Claiming, Writing
<1>3. Sole'
  BY <1>1, <1>2 DEF Sole, Claiming, Writing
<1>4. Settled' /\ Lasting'
  BY DEF Settled, Lasting, Given
<1>5. Reads(r)'
  BY DEF Reads, Reading, Claiming, Writing
<1>6. Fits'
  <2> SUFFICES ASSUME NEW q \in Processes PROVE (Carries(procs[q]) /\ Stage(procs[q]) /\ Reads(procs[q]))'
    BY DEF Fits
  <2>1. CASE q = p
    BY <2>1, <1>1, <1>5 DEF Carries, Whole
  <2>2. CASE q # p
    <3>1. procs'[q] = procs[q] /\ procs[q].pc \in Outside \cup {"month"}
      BY <2>2, <1>1
    <3>2. Carries(procs[q])' /\ Stage(procs[q])'
      BY <3>1, Owned DEF Carries, Whole, Stage, Outside
    <3>3. Reads(procs[q])'
      BY <3>1, Owned DEF Reads, Outside, Reading
    <3> QED
      BY <3>2, <3>3
  <2> QED
    BY <2>1, <2>2
<1> QED
  BY <1>1, <1>3, <1>4, <1>6 DEF IInv

\* The process that has the ordinal goes on to its next step.
LEMMA Wrote ==
  ASSUME IInv, NEW p \in Processes, NEW pc \in Claiming, procs[p].pc \in Claiming, Goes(p, pc),
         NEW r, r = [procs[p] EXCEPT !.pc = pc],
         UNCHANGED <<answered, served>>, names \subseteq names',
         Stage(r)', Disked', Receipted',
         "receipt" \in names /\ receipt.is # Torn => receipt'.is = receipt.is
  PROVE  IInv'
<1>1. r \in Proc /\ r.pc = pc /\ r.offer = procs[p].offer /\ procs' = [procs EXCEPT ![p] = r]
  BY Went
<1>2. Carries(r)
  BY <1>1, Owned DEF Carries, Claiming, Writing
<1>3. "reserved" \in names'
  BY DEF IInv, Sole
<1>4. Given = {} /\ \A q \in Processes : q # p => procs[q].pc \in Outside \cup {"month"}
  BY Alone
<1> QED
  BY <1>1, <1>2, <1>3, <1>4, Works

LEMMA NamesFacts == /\ Base \cup {"receipt"} = {"reserved", "bars", "sums", "lock", "receipt"}
                    /\ Siblings \subseteq Base /\ "reserved" \in Base /\ "receipt" \notin Base
  BY DEF Base, Siblings

LEMMA ReserveKeeps == ASSUME IInv, NEW p \in Processes, Reserve(p) PROVE IInv'
<1>1. CASE "reserved" \in names
  BY <1>1, EndsQuietly DEF Reserve, disk
<1>2. CASE "reserved" \notin names
  <2>0. PICK r : r = [procs[p] EXCEPT !.pc = "check"]
    OBVIOUS
  <2>1. /\ names' = names \cup {"reserved"} /\ Goes(p, "check") /\ At(p, "reserve")
        /\ UNCHANGED <<synced, rooted, month, receipt, answered, served>>
    BY <1>2 DEF Reserve
  <2>2. /\ r \in Proc /\ r.pc = "check" /\ r.offer = procs[p].offer
        /\ procs' = [procs EXCEPT ![p] = r]
    BY <2>0, <2>1, Went DEF Claiming
  <2>3. ~(Base \subseteq synced)
    BY <1>2, NamesFacts DEF IInv, Disked
  <2>4. "receipt" \notin names /\ Given = {}
    BY <2>3 DEF IInv, Receipted, Settled
  <2>5. \A q \in Processes : procs[q].pc \in Outside \cup {"month"}
    BY <1>2, <2>4, Owned DEF IInv, Sole, Reads
  <2>6. Carries(r)
    BY <2>1, <2>2, Owned DEF Carries, At
  <2>7. Disked' /\ Receipted'
    BY <2>1, <2>4, NamesFacts DEF IInv, Disked, Receipted, Whole, Torn
  <2>8. "receipt" \notin names'
    BY <2>1, <2>4
  <2>9. Stage(r)'
    BY <2>2, <2>8 DEF Stage
  <2> QED
    BY <2>1, <2>2, <2>4, <2>5, <2>6, <2>7, <2>9, Works DEF Claiming
<1> QED
  BY <1>1, <1>2

\* What the place of the process that has the ordinal says of the disk.
LEMMA Stands ==
  ASSUME IInv, NEW p \in Processes, NEW pc \in Claiming, NEW next \in Claiming, At(p, pc)
  PROVE  LET r == [procs[p] EXCEPT !.pc = next]
         IN  /\ procs[p].pc \in Claiming /\ r.pc = next /\ r.offer = procs[p].offer
             /\ procs[p].offer \in Whole /\ Offered(p) \in Offers
             /\ Stage(procs[p]) /\ procs[p].pc = pc
  BY Owned, OneHeld DEF At, Proc, Carries, Claiming, Writing, Offered

LEMMA CreateFilesKeeps == ASSUME IInv, NEW p \in Processes, CreateFiles(p) PROVE IInv'
<1>0. PICK r : r = [procs[p] EXCEPT !.pc = "append"]
  OBVIOUS
<1>1. "open" \in Claiming /\ "append" \in Claiming
  BY DEF Claiming, Writing
<1>2. Stage(procs[p]) /\ procs[p].pc = "open" /\ r.pc = "append" /\ procs[p].pc \in Claiming
  BY <1>0, <1>1, Stands DEF CreateFiles, At
<1>3. "receipt" \notin names' /\ Siblings \subseteq names' /\ names \subseteq names'
  BY <1>2 DEF CreateFiles, Stage, Siblings
<1>4. Disked' /\ Receipted'
  BY <1>3, NamesFacts DEF CreateFiles, IInv, Disked, Receipted, Whole, Torn
<1>5. Stage(r)'
  BY <1>2, <1>3 DEF Stage
<1> QED
  BY <1>0, <1>1, <1>2, <1>3, <1>4, <1>5, Wrote DEF CreateFiles

LEMMA AppendRowsKeeps == ASSUME IInv, NEW p \in Processes, AppendRows(p) PROVE IInv'
<1>0. PICK r : r = [procs[p] EXCEPT !.pc = "commit"]
  OBVIOUS
<1>1. "append" \in Claiming /\ "commit" \in Claiming
  BY DEF Claiming, Writing
<1>2. /\ Stage(procs[p]) /\ procs[p].pc = "append" /\ r.pc = "commit" /\ procs[p].pc \in Claiming
      /\ r.offer = procs[p].offer /\ Offered(p) \in Offers
  BY <1>0, <1>1, Stands DEF AppendRows, At
<1>3. "receipt" \notin names' /\ Siblings \subseteq names' /\ month'.is = r.offer[1].rows
  BY <1>2 DEF AppendRows, Stage, Siblings, Offered
<1>4. Disked' /\ Receipted'
  BY <1>2, <1>3, NamesFacts DEF AppendRows, IInv, Disked, Receipted, Whole, Torn
<1>5. Stage(r)'
  BY <1>2, <1>3 DEF Stage
<1> QED
  BY <1>0, <1>1, <1>2, <1>4, <1>5, Wrote DEF AppendRows

LEMMA SyncRowsKeeps == ASSUME IInv, NEW p \in Processes, SyncRows(p) PROVE IInv'
<1>0. PICK r : r = [procs[p] EXCEPT !.pc = "root"]
  OBVIOUS
<1>1. "commit" \in Claiming /\ "root" \in Claiming
  BY DEF Claiming, Writing
<1>2. /\ Stage(procs[p]) /\ procs[p].pc = "commit" /\ r.pc = "root" /\ procs[p].pc \in Claiming
      /\ r.offer = procs[p].offer /\ Offered(p) \in Offers
  BY <1>0, <1>1, Stands DEF SyncRows, At
<1>3. month' = [is |-> month.is, safe |-> TRUE]
  BY DEF SyncRows, IInv, Disked
<1>4. "receipt" \notin names' /\ Siblings \subseteq names' /\ month'.is = r.offer[1].rows /\ month'.safe
  BY <1>2, <1>3 DEF SyncRows, Stage, Siblings, Offered
<1>5. Disked' /\ Receipted'
  BY <1>3, <1>4, NamesFacts DEF SyncRows, IInv, Disked, Receipted, Whole, Torn
<1>6. Stage(r)'
  BY <1>2, <1>4 DEF Stage
<1> QED
  BY <1>0, <1>1, <1>2, <1>5, <1>6, Wrote DEF SyncRows

LEMMA RootKeeps == ASSUME IInv, NEW p \in Processes, Root(p) PROVE IInv'
<1>0. PICK r : r = [procs[p] EXCEPT !.pc = "create"]
  OBVIOUS
<1>1. "root" \in Claiming /\ "create" \in Claiming
  BY DEF Claiming, Writing
<1>2. /\ Stage(procs[p]) /\ procs[p].pc = "root" /\ r.pc = "create" /\ procs[p].pc \in Claiming
      /\ r.offer = procs[p].offer
  BY <1>0, <1>1, Stands DEF Root, At
<1>3. names' = names /\ synced' = names /\ rooted' = TRUE /\ UNCHANGED <<month, receipt>>
  BY DEF Root, SyncAncestors
<1>4. Base \subseteq names
  BY <1>2 DEF IInv, Sole, Stage, Base
<1>5. /\ "receipt" \notin names' /\ month'.is = r.offer[1].rows /\ month'.safe
      /\ rooted' /\ Base \subseteq synced'
  BY <1>2, <1>3, <1>4 DEF Stage, Base, Siblings
<1>6. Disked' /\ Receipted'
  BY <1>3, <1>5 DEF IInv, Disked, Receipted, Whole, Torn, Base, Siblings
<1>7. Stage(r)'
  BY <1>2, <1>5 DEF Stage
<1> QED
  BY <1>0, <1>1, <1>2, <1>3, <1>6, <1>7, Wrote DEF Root

LEMMA CreateReceiptKeeps == ASSUME IInv, NEW p \in Processes, CreateReceipt(p) PROVE IInv'
<1>0. PICK r : r = [procs[p] EXCEPT !.pc = "write"]
  OBVIOUS
<1>1. "create" \in Claiming /\ "write" \in Claiming
  BY DEF Claiming, Writing
<1>2. /\ Stage(procs[p]) /\ procs[p].pc = "create" /\ r.pc = "write" /\ procs[p].pc \in Claiming
      /\ r.offer = procs[p].offer
  BY <1>0, <1>1, Stands DEF CreateReceipt, At
<1>3. "receipt" \notin names
  BY <1>2 DEF Stage
<1>4. /\ names' = names \cup {"receipt"} /\ receipt' = [is |-> Torn, safe |-> FALSE] /\ Goes(p, "write")
      /\ UNCHANGED <<synced, rooted, month, answered, served>>
  BY <1>3 DEF CreateReceipt
<1>5. /\ month'.is = r.offer[1].rows /\ month'.safe /\ rooted' /\ Base \subseteq synced'
      /\ "receipt" \in names' /\ receipt'.is = Torn
  BY <1>2, <1>4 DEF Stage, Base, Siblings
<1>6. Disked' /\ Receipted'
  BY <1>4, <1>5 DEF IInv, Disked, Receipted, Whole, Torn, Base, Siblings
<1>7. Stage(r)'
  BY <1>2, <1>5 DEF Stage
<1> QED
  BY <1>0, <1>1, <1>2, <1>3, <1>4, <1>6, <1>7, Wrote

LEMMA WriteReceiptKeeps == ASSUME IInv, NEW p \in Processes, WriteReceipt(p) PROVE IInv'
<1>0. PICK r : r = [procs[p] EXCEPT !.pc = "sync"]
  OBVIOUS
<1>1. "write" \in Claiming /\ "sync" \in Claiming
  BY DEF Claiming, Writing
<1>2. /\ Stage(procs[p]) /\ procs[p].pc = "write" /\ r.pc = "sync" /\ procs[p].pc \in Claiming
      /\ r.offer = procs[p].offer /\ procs[p].offer \in Whole
  BY <1>0, <1>1, Stands DEF WriteReceipt, At
<1>3. /\ receipt' = [is |-> procs[p].offer, safe |-> FALSE] /\ Goes(p, "sync")
      /\ UNCHANGED <<names, synced, rooted, month, answered, served>>
  BY DEF WriteReceipt
<1>4. receipt.is = Torn
  BY <1>2 DEF Stage
<1>5. /\ month'.is = r.offer[1].rows /\ month'.safe /\ rooted' /\ Base \subseteq synced'
      /\ "receipt" \in names' /\ receipt'.is = r.offer
  BY <1>2, <1>3 DEF Stage, Base, Siblings
<1>6. Disked' /\ Receipted'
  BY <1>2, <1>3, <1>5 DEF IInv, Disked, Receipted, Whole, Torn, Base, Siblings
<1>7. Stage(r)'
  BY <1>2, <1>5 DEF Stage
<1> QED
  BY <1>0, <1>1, <1>2, <1>3, <1>4, <1>6, <1>7, Wrote

LEMMA SyncReceiptKeeps == ASSUME IInv, NEW p \in Processes, SyncReceipt(p) PROVE IInv'
<1>0. PICK r : r = [procs[p] EXCEPT !.pc = "publish"]
  OBVIOUS
<1>1. "sync" \in Claiming /\ "publish" \in Claiming
  BY DEF Claiming, Writing
<1>2. /\ Stage(procs[p]) /\ procs[p].pc = "sync" /\ r.pc = "publish" /\ procs[p].pc \in Claiming
      /\ r.offer = procs[p].offer
  BY <1>0, <1>1, Stands DEF SyncReceipt, At
<1>3. /\ receipt' = [is |-> receipt.is, safe |-> TRUE] /\ Goes(p, "publish")
      /\ UNCHANGED <<names, synced, rooted, month, answered, served>>
  BY DEF SyncReceipt, IInv, Disked
<1>4. /\ month'.is = r.offer[1].rows /\ month'.safe /\ rooted' /\ Base \subseteq synced'
      /\ "receipt" \in names' /\ receipt'.is = r.offer /\ receipt'.safe
  BY <1>2, <1>3 DEF Stage, Base, Siblings
<1>5. Disked' /\ Receipted'
  BY <1>3, <1>4 DEF IInv, Disked, Receipted, Whole, Torn, Base, Siblings
<1>6. Stage(r)'
  BY <1>2, <1>4 DEF Stage
<1> QED
  BY <1>0, <1>1, <1>2, <1>3, <1>5, <1>6, Wrote

-----------------------------------------------------------------------------
(* Steps that answer, serve or sync for a retry                            *)

\* A process that ends and leaves every other's footing as it was.
LEMMA Leaves ==
  ASSUME IInv, NEW p \in Processes, Ends(p), Disked',
         UNCHANGED <<names, month, receipt>>, synced' = synced \/ synced' = names,
         rooted => rooted', Base \subseteq synced => Base \subseteq synced'
  PROVE  /\ procs' \in [Processes -> Proc] /\ (Free => Free') /\ Sole' /\ Fits'
         /\ (\A q \in Processes : q # p => procs[q].pc \notin Claiming) => Free'
<1>1. /\ procs' \in [Processes -> Proc] /\ procs'[p] = Quiet
      /\ \A q \in Processes : q # p => procs'[q] = procs[q]
  BY QuietIsProc, Replaced DEF IInv, Ends
<1>2. Quiet.pc \notin Claiming /\ Quiet.pc \in Outside /\ Carries(Quiet)
  BY QuietIsProc DEF Claiming, Writing, Outside, Carries
<1>3. Free => Free'
  BY <1>1, <1>2 DEF Free, Claiming, Writing
<1>4. Sole'
  BY <1>1, <1>2 DEF IInv, Sole, Claiming, Writing
<1>5. ASSUME NEW s, Carries(s), Stage(s), Reads(s) PROVE Carries(s)' /\ Stage(s)' /\ Reads(s)'
  BY <1>5, <1>3 DEF Carries, Whole, Stage, Reads, Torn, Base, Siblings, Reading
<1>6. Carries(Quiet)' /\ Stage(Quiet)' /\ Reads(Quiet)'
  BY <1>2, <1>5, Plain
<1>7. Fits'
  <2> SUFFICES ASSUME NEW q \in Processes PROVE (Carries(procs[q]) /\ Stage(procs[q]) /\ Reads(procs[q]))'
    BY DEF Fits
  <2>1. CASE q = p
    BY <2>1, <1>1, <1>6
  <2>2. CASE q # p
    <3>1. Carries(procs[q]) /\ Stage(procs[q]) /\ Reads(procs[q])
      BY DEF IInv, Fits
    <3> QED
      BY <2>2, <3>1, <1>1, <1>5
  <2> QED
    BY <2>1, <2>2
<1>8. (\A q \in Processes : q # p => procs[q].pc \notin Claiming) => Free'
  BY <1>1, <1>2 DEF Free, Claiming, Writing
<1> QED
  BY <1>1, <1>3, <1>4, <1>7, <1>8

LEMMA CreatedKeeps == ASSUME IInv, NEW p \in Processes, Created(p) PROVE IInv'
<1>1. "publish" \in Claiming
  BY DEF Claiming, Writing
<1>2. /\ Stage(procs[p]) /\ procs[p].pc = "publish" /\ procs[p].pc \in Claiming
      /\ procs[p].offer \in Whole /\ Offered(p) \in Offers
  BY <1>1, Stands DEF Created, At
<1>3. /\ synced' = names /\ rooted' = TRUE /\ answered' = answered \cup {Offered(p)} /\ Ends(p)
      /\ UNCHANGED <<names, month, receipt, served>>
  BY DEF Created, SyncAncestors
<1>4. /\ Base \subseteq synced /\ "receipt" \in names /\ receipt.is = procs[p].offer
      /\ receipt.safe /\ month.safe /\ month.is = Offered(p).rows
  BY <1>2 DEF Stage, Offered
<1>5. Base \subseteq synced' /\ Disked'
  BY <1>3, <1>4 DEF IInv, Disked, Whole, Torn, Base, Siblings
<1>6. Given = {} /\ \A q \in Processes : q # p => procs[q].pc \notin Claiming
  BY <1>2, Alone DEF Outside, Claiming, Writing
<1>7. procs' \in [Processes -> Proc] /\ Free' /\ Sole' /\ Fits'
  BY <1>3, <1>5, <1>6, Leaves
<1>8. Receipted'
  BY <1>3, <1>4, <1>5 DEF Receipted, Torn, Offered, Base, Siblings
<1>9. Given' = {Offered(p)} /\ receipt'.is = <<Offered(p)>> /\ receipt'.is # Torn
  BY <1>2, <1>3, <1>4, <1>6, OneHeld DEF Given, Offered, Torn
<1>10. Settled' /\ Lasting'
  BY <1>3, <1>4, <1>5, <1>7, <1>9 DEF Settled, Lasting, Torn, Base, Siblings
<1> QED
  BY <1>5, <1>7, <1>8, <1>10 DEF IInv

\* What a reader was given is what everyone before it was given.
LEMMA Joins ==
  ASSUME IInv, NEW a, receipt.is = <<a>>, "receipt" \in names, Free, Free',
         Given' = Given \cup {a}, UNCHANGED <<names, receipt>>, rooted', Base \subseteq synced'
  PROVE  Settled'
<1>1. \A b \in Given : b = a
  <2> SUFFICES ASSUME NEW b \in Given PROVE b = a
    OBVIOUS
  <2>1. receipt.is # Torn
    BY DEF Torn
  <2>2. receipt.is = <<b>>
    BY <2>1 DEF IInv, Settled
  <2> QED
    BY <2>2
<1> QED
  BY <1>1 DEF Settled, Base, Siblings, Torn

LEMMA ReuseKeeps == ASSUME IInv, NEW p \in Processes, Reuse(p) PROVE IInv'
<1>1. /\ synced' = names /\ rooted' = TRUE /\ answered' = answered \cup {Offered(p)} /\ Ends(p)
      /\ UNCHANGED <<names, month, receipt, served>> /\ procs[p].pc = "reuse"
  BY DEF Reuse, SyncAncestors, At
<1>2. /\ "receipt" \in names /\ receipt.is = procs[p].seen /\ receipt.is # Torn /\ Free
      /\ procs[p].offer = procs[p].seen /\ receipt.safe
  BY <1>1, Owned DEF Reads, Reading
<1>3. receipt.is = <<Offered(p)>>
  BY <1>2, OneHeld DEF IInv, Disked, Offered
<1>4. Base \subseteq synced /\ month.safe /\ month.is = receipt.is[1].rows
  BY <1>2 DEF IInv, Receipted
<1>5. Base \subseteq synced' /\ Disked'
  BY <1>1, <1>4 DEF IInv, Disked, Whole, Torn, Base, Siblings
<1>6. procs' \in [Processes -> Proc] /\ Free' /\ Sole' /\ Fits'
  BY <1>1, <1>2, <1>5, Leaves
<1>7. Receipted' /\ Lasting'
  BY <1>1, <1>2, <1>4, <1>5 DEF Receipted, Lasting, Torn, Base, Siblings
<1>8. Given' = Given \cup {Offered(p)}
  BY <1>1 DEF Given
<1>9. Settled'
  BY <1>1, <1>2, <1>3, <1>5, <1>6, <1>8, Joins
<1> QED
  BY <1>5, <1>6, <1>7, <1>9 DEF IInv

LEMMA ServeKeeps == ASSUME IInv, NEW p \in Processes, Serve(p) PROVE IInv'
<1>1. /\ served' = served \cup {[procs[p].seen[1] EXCEPT !.rows = month.is]} /\ Ends(p)
      /\ UNCHANGED <<disk, answered>> /\ procs[p].pc = "serve"
  BY DEF Serve, At
<1>2. "receipt" \in names /\ receipt.is = procs[p].seen /\ receipt.is # Torn /\ Free
  BY <1>1, Owned DEF Reads, Reading
<1>3. PICK o \in Offers : receipt.is = <<o>>
  BY <1>2 DEF IInv, Disked, Whole
<1>4. rooted /\ Base \subseteq synced /\ month.is = o.rows
  BY <1>2, <1>3 DEF IInv, Receipted
<1>5. [procs[p].seen[1] EXCEPT !.rows = month.is] = o
  <2>1. o = [source |-> o.source, rows |-> o.rows]
    OBVIOUS
  <2>2. procs[p].seen[1] = o
    BY <1>2, <1>3
  <2> QED
    BY <2>1, <2>2, <1>4
<1>6. Disked' /\ Receipted' /\ Lasting'
  BY <1>1 DEF IInv, Disked, Receipted, Lasting, disk, Whole, Torn, Base, Siblings
<1>7. procs' \in [Processes -> Proc] /\ Free' /\ Sole' /\ Fits'
  BY <1>1, <1>2, <1>6, Leaves DEF disk, Base, Siblings
<1>8. Given' = Given \cup {o}
  BY <1>1, <1>5 DEF Given
<1>9. Settled'
  BY <1>1, <1>2, <1>3, <1>4, <1>7, <1>8, Joins DEF disk, Base, Siblings
<1> QED
  BY <1>6, <1>7, <1>9 DEF IInv

LEMMA SyncFilesKeeps == ASSUME IInv, NEW p \in Processes, SyncFiles(p) PROVE IInv'
<1>0. PICK r : r = [procs[p] EXCEPT !.pc = "reuse"]
  OBVIOUS
<1>1. /\ month' = [is |-> month.is, safe |-> TRUE] /\ receipt' = [is |-> receipt.is, safe |-> TRUE]
      /\ Goes(p, "reuse") /\ UNCHANGED <<names, synced, rooted, answered, served>>
      /\ procs[p].pc = "resync"
  BY DEF SyncFiles, At, IInv, Disked
<1>2. /\ r \in Proc /\ r.pc = "reuse" /\ r.offer = procs[p].offer /\ r.seen = procs[p].seen
      /\ procs' = [procs EXCEPT ![p] = r]
  BY <1>0, <1>1, Went DEF Reading
<1>3. /\ procs' \in [Processes -> Proc] /\ procs'[p] = r
      /\ \A q \in Processes : q # p => procs'[q] = procs[q]
  BY <1>2, Replaced DEF IInv
<1>4. /\ "receipt" \in names /\ receipt.is = procs[p].seen /\ receipt.is # Torn /\ Free
      /\ procs[p].offer = procs[p].seen
  BY <1>1, Owned DEF Reads, Reading
<1>5. Free' /\ Sole'
  BY <1>2, <1>3, <1>4 DEF Free, Sole, Claiming, Writing
<1>6. Disked' /\ Receipted' /\ Settled' /\ Lasting'
  BY <1>1, <1>5 DEF IInv, Disked, Receipted, Settled, Lasting, Given, Whole, Torn, Base, Siblings
<1>7. Fits'
  <2> SUFFICES ASSUME NEW q \in Processes PROVE (Carries(procs[q]) /\ Stage(procs[q]) /\ Reads(procs[q]))'
    BY DEF Fits
  <2>1. Stage(procs[q])'
    <3>1. procs'[q].pc \notin Claiming
      BY <1>5 DEF Free, Claiming, Writing
    <3> QED
      BY <3>1 DEF Stage, Claiming, Writing
  <2>2. CASE q = p
    <3>1. Carries(r)' /\ Reads(r)'
      BY <1>1, <1>2, <1>4, <1>5, Owned DEF Carries, Whole, Reads, Torn, Reading
    <3> QED
      BY <2>1, <2>2, <3>1, <1>3
  <2>3. CASE q # p
    <3>1. procs'[q] = procs[q] /\ Carries(procs[q]) /\ Reads(procs[q])
      BY <2>3, <1>3, Owned
    <3>2. Carries(procs[q])' /\ Reads(procs[q])'
      BY <3>1, <1>1, <1>5 DEF Carries, Whole, Reads, Torn, Reading
    <3> QED
      BY <2>1, <3>2
  <2> QED
    BY <2>2, <2>3
<1> QED
  BY <1>3, <1>5, <1>6, <1>7 DEF IInv

-----------------------------------------------------------------------------
(* Loss of power                                                           *)

LEMMA PowerLossKeeps == ASSUME IInv, PowerLoss PROVE IInv'
<1>1. /\ procs' \in [Processes -> Proc]
      /\ \A q \in Processes : procs'[q].pc = "idle" /\ Carries(procs[q])'
  BY QuietIsProc DEF PowerLoss, Carries
<1>2. Free'
  BY <1>1 DEF Free, Claiming, Writing
<1>3. Sole' /\ Fits'
  BY <1>1 DEF Sole, Fits, Stage, Reads, Reading, Claiming, Writing
<1>4. names' \subseteq names /\ synced' = names' /\ rooted' \in BOOLEAN
  BY DEF PowerLoss, IInv, Disked
<1>5. month' \in Kept("bars", month, << >>) /\ receipt' \in Kept("receipt", receipt, Torn)
  BY DEF PowerLoss
<1>a. \/ month' = Empty /\ "bars" \notin names'
      \/ month' = [is |-> month.is, safe |-> TRUE]
      \/ ~month.safe /\ month' = [is |-> << >>, safe |-> TRUE]
  BY <1>5 DEF Kept, IInv, Disked
<1>b. \/ receipt' = Empty /\ "receipt" \notin names'
      \/ receipt' = [is |-> receipt.is, safe |-> TRUE]
      \/ ~receipt.safe /\ receipt' = [is |-> Torn, safe |-> TRUE]
  BY <1>5 DEF Kept, IInv, Disked
<1> DEFINE Rows == {<< >>} \cup {o.rows : o \in Offers}
<1>6. /\ month' \in [is : Rows, safe : BOOLEAN]
      /\ month.safe /\ "bars" \in names' => month'.safe /\ month'.is = month.is
  <2>1. month \in [is : Rows, safe : BOOLEAN] /\ << >> \in Rows
    BY DEF IInv, Disked
  <2> HIDE DEF Rows
  <2>2. CASE month' = Empty /\ "bars" \notin names'
    BY <2>1, <2>2 DEF Empty
  <2>3. CASE month' = [is |-> month.is, safe |-> TRUE]
    BY <2>1, <2>3
  <2>4. CASE ~month.safe /\ month' = [is |-> << >>, safe |-> TRUE]
    BY <2>1, <2>4
  <2> QED
    BY <2>2, <2>3, <2>4, <1>a
<1> DEFINE Marks == {Torn} \cup Whole
<1>7. /\ receipt' \in [is : Marks, safe : BOOLEAN]
      /\ receipt'.is # Torn => receipt'.is = receipt.is
      /\ receipt.safe /\ "receipt" \in names' => receipt'.safe /\ receipt'.is = receipt.is
  <2>1. receipt \in [is : Marks, safe : BOOLEAN] /\ Torn \in Marks /\ Empty.is = Torn /\ Empty.safe = FALSE
    BY DEF IInv, Disked, Empty, Torn
  <2>2. Empty = [is |-> Torn, safe |-> FALSE]
    BY DEF Empty, Torn
  <2> HIDE DEF Marks
  <2>3. CASE receipt' = Empty /\ "receipt" \notin names'
    BY <2>1, <2>2, <2>3
  <2>4. CASE receipt' = [is |-> receipt.is, safe |-> TRUE]
    BY <2>1, <2>4
  <2>5. CASE ~receipt.safe /\ receipt' = [is |-> Torn, safe |-> TRUE]
    BY <2>1, <2>5
  <2> QED
    BY <2>3, <2>4, <2>5, <1>b
<1>8. Disked'
  BY <1>4, <1>6, <1>7 DEF IInv, Disked, Whole, Torn, Base, Siblings
<1>9. rooted /\ Base \subseteq synced => rooted' /\ synced \subseteq names' /\ Base \subseteq synced'
  BY <1>4 DEF PowerLoss, Base, Siblings
<1>10. Receipted'
  <2> SUFFICES ASSUME "receipt" \in names'
               PROVE  /\ rooted' /\ Base \subseteq synced'
                      /\ receipt'.is # Torn => month'.safe /\ month'.is = receipt'.is[1].rows
    BY DEF Receipted, Torn, Base, Siblings
  <2>1. rooted /\ Base \subseteq synced /\ (receipt.is # Torn => month.safe /\ month.is = receipt.is[1].rows)
    BY <1>4 DEF IInv, Receipted
  <2>2. "bars" \in names' /\ rooted' /\ Base \subseteq synced'
    BY <2>1, <1>4, <1>9 DEF Base, Siblings
  <2>3. ASSUME receipt'.is # Torn PROVE month'.safe /\ month'.is = receipt'.is[1].rows
    <3>1. receipt'.is = receipt.is /\ receipt.is # Torn
      BY <2>3, <1>7
    <3> QED
      BY <3>1, <2>1, <2>2, <1>6
  <2> QED
    BY <2>2, <2>3
<1>11. Settled'
  <2> SUFFICES ASSUME Given # {} PROVE Settled'
    BY DEF Settled, Given, PowerLoss
  <2>1. /\ rooted /\ Base \subseteq synced /\ \A a, b \in Given : a = b
        /\ "receipt" \in names /\ receipt.is # Torn => \A a \in Given : receipt.is = <<a>>
    BY DEF IInv, Settled
  <2>2. Given' = Given
    BY DEF Given, PowerLoss
  <2> QED
    BY <2>1, <2>2, <1>2, <1>4, <1>7, <1>9 DEF Settled, Torn, Base, Siblings
<1>12. Lasting'
  <2> SUFFICES ASSUME answered # {} PROVE Lasting'
    BY DEF Lasting, PowerLoss
  <2>1. "receipt" \in synced /\ receipt.safe /\ receipt.is # Torn /\ rooted /\ Base \subseteq synced
    BY DEF IInv, Lasting, Settled, Given
  <2> QED
    BY <2>1, <1>4, <1>7, <1>9 DEF Lasting, Torn
<1> QED
  BY <1>1, <1>3, <1>8, <1>10, <1>11, <1>12 DEF IInv

-----------------------------------------------------------------------------
LEMMA Inductive == IInv /\ [Next]_vars => IInv'
<1> SUFFICES ASSUME IInv, [Next]_vars PROVE IInv'
  OBVIOUS
<1>1. ASSUME NEW p \in Processes, Step(p) PROVE IInv'
  BY <1>1, PublishKeeps, OpenKeeps, LookKeeps, ReadReceiptKeeps, OpenMonthKeeps, ServeKeeps, CompareKeeps,
     SyncFilesKeeps, ReuseKeeps, LockSourceKeeps, ReserveKeeps, CheckKeeps, CreateFilesKeeps,
     AppendRowsKeeps, SyncRowsKeeps, RootKeeps, CreateReceiptKeeps, WriteReceiptKeeps, SyncReceiptKeeps,
     CreatedKeeps, FailKeeps, Zenon DEF Step
<1>2. CASE UNCHANGED vars
  BY <1>2 DEF vars, IInv, Disked, Sole, Fits, Carries, Stage, Reads, Free, Receipted, Settled, Lasting,
              Given, disk, Torn, Base, Siblings, Whole
<1> QED
  BY <1>1, <1>2, AppendSourceKeeps, PowerLossKeeps DEF Next

LEMMA Begins == Init => IInv
<1> SUFFICES ASSUME Init PROVE IInv
  OBVIOUS
<1>1. Disked
  BY DEF Init, Disked, Empty, Torn
<1>2. procs \in [Processes -> Proc] /\ \A p \in Processes : procs[p].pc = "idle"
  BY QuietIsProc DEF Init
<1>3. Sole /\ Fits
  BY <1>2 DEF Sole, Fits, Carries, Stage, Reads, Claiming, Writing, Reading
<1>4. Receipted /\ Settled /\ Lasting
  BY DEF Init, Receipted, Settled, Lasting, Given
<1> QED
  BY <1>1, <1>2, <1>3, <1>4 DEF IInv

THEOREM InvariantHolds == Spec => []IInv
<1> QED
  BY Begins, Inductive, PTL DEF Spec

(* What publish answered Created or Reused is what every reader finds ever *)
(* after (repair.rs: every name and every byte is synced before it says    *)
(* so), over any calls that fail and any losses of power.                  *)
THEOREM Survives == Spec => []PublishedSurvives
<1>1. IInv => PublishedSurvives
  <2> SUFFICES ASSUME IInv, NEW o \in answered
               PROVE  /\ {"reserved", "receipt"} \cup Siblings \subseteq names
                      /\ receipt.is = <<o>> /\ month.is = o.rows
    BY DEF PublishedSurvives
  <2>1. "receipt" \in synced /\ receipt.is # Torn /\ Base \subseteq synced
    BY DEF IInv, Lasting, Settled, Given
  <2>2. "receipt" \in names /\ Base \subseteq names
    BY <2>1 DEF IInv, Disked
  <2>3. receipt.is = <<o>>
    BY <2>1, <2>2 DEF IInv, Settled, Given
  <2>4. month.is = o.rows
    BY <2>1, <2>2, <2>3 DEF IInv, Receipted
  <2> QED
    BY <2>2, <2>3, <2>4 DEF Base
<1> QED
  BY <1>1, InvariantHolds, PTL

(* Whoever was ever answered or served, before or after whatever crash,    *)
(* was given one and the same content (Revision: an ordinal is never used  *)
(* again for different data).                                              *)
THEOREM Immutable == Spec => []OrdinalIsImmutable
<1>1. IInv => OrdinalIsImmutable
  BY DEF IInv, Settled, Given, OrdinalIsImmutable
<1> QED
  BY <1>1, InvariantHolds, PTL
=============================================================================
