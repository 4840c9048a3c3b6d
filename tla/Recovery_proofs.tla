--------------------------- MODULE Recovery_proofs ---------------------------
(***************************************************************************)
(* What gap recovery promises, for every set of days and plans, every      *)
(* layout of their windows and any number of faults.                       *)
(***************************************************************************)
EXTENDS Recovery, TLAPS

USE RecoveryAssumption

-----------------------------------------------------------------------------
(* Shapes: the type invariant without the bound on the requests, with what *)
(* the worker's place says of its registers.                               *)

Pointed(journal) == journal.act.ids = {} \/ journal.act.top \in Plans

\* Places whose window and day are set.
Scanning == run.pc = "retry" \/ run.pc = "loop" \/ run.pc = "ask" \/ run.pc = "settle"
              \/ (run.pc = "attemptsync" /\ run.next # "reconcile" /\ run.next # "close")

Dayful == run.pc = "loop" \/ run.pc = "ask" \/ run.pc = "settle" \/ run.pc = "attemptsync"

Registers ==
  /\ Scanning => run.left > 0
  /\ Dayful => run.day \in Days
  /\ run.pc = "attemptsync" => run.next \in {"reconcile", "retry", "loop", "ask", "close"}
  /\ run.pc \notin {"off", "up"} => run.plan \in Plans

Journalled ==
  /\ file \in Contents /\ disk \in Contents
  /\ Pointed(file) /\ Pointed(disk)

Filed == gone \subseteq Journals /\ torn \subseteq Journals \ gone

Controlled ==
  /\ slot \in [running : BOOLEAN, stopping : BOOLEAN]
  /\ active \in Plans \cup {NoPlan} /\ stopper \in Plans \cup {NoPlan}
  /\ ready \subseteq Plans /\ owed \subseteq Days
  /\ asked \in [Days -> Nat]
  /\ answered \subseteq Plans /\ unrouted \subseteq answered
  /\ late \in Nat /\ faults \in 0..MaxFaults /\ losses \in 0..MaxLosses

\* A day about to be charged has attempts left.
Headroom ==
  run.pc = "loop" \/ (run.pc = "attemptsync" /\ run.next = "loop")
    => file.att[run.day].attempts < Limit

Shapes == SlotIsHeldByRun /\ Headroom /\ Journalled /\ Filed /\ Controlled /\ run \in Runs /\ Registers

LEMMA PlacesFacts ==
  /\ Working \subseteq Places /\ Seeding \subseteq Places
  /\ {"off", "up", "clear", "abort", "abortsync", "drive", "ending", "ended"} \subseteq Places
  BY DEF Places

LEMMA AtRest == Down \in Runs /\ Resting \in Runs
  BY PlacesFacts DEF Down, Resting, Runs, Places, NoDay

\* What the helpers that move the worker leave in its registers.
LEMMA GotoMoves ==
  ASSUME run \in Runs, NEW place \in Places, Goto(place)
  PROVE  /\ run' \in Runs /\ run'.pc = place
         /\ run'.plan = run.plan /\ run'.left = run.left /\ run'.day = run.day
         /\ run'.next = run.next /\ run'.explicit = run.explicit
  BY DEF Goto, Runs

LEMMA EndMoves ==
  ASSUME run \in Runs, NEW ok \in BOOLEAN, EndWith(ok)
  PROVE  run' \in Runs /\ run'.pc = "close" /\ run'.plan = run.plan
<1>1. run' = [pc |-> "close", plan |-> run.plan, explicit |-> FALSE, todo |-> {}, left |-> 0,
              days |-> {}, day |-> NoDay, next |-> "up", ok |-> ok]
  BY DEF EndWith, Down
<1>2. "close" \in Places /\ "up" \in Places
  BY DEF Places, Working
<1>3. run.plan \in Plans \cup {NoPlan}
  BY DEF Runs
<1> QED
  BY <1>1, <1>2, <1>3 DEF Runs

LEMMA LeaveMoves ==
  ASSUME run \in Runs, Leave
  PROVE  run' \in Runs /\ run'.pc = "ending" /\ run'.plan = run.plan
<1>1. run' = [pc |-> "ending", plan |-> run.plan, explicit |-> FALSE, todo |-> {}, left |-> 0,
              days |-> {}, day |-> NoDay, next |-> "up", ok |-> TRUE]
  BY DEF Leave, Down
<1>2. "ending" \in Places /\ "up" \in Places
  BY DEF Places
<1>3. run.plan \in Plans \cup {NoPlan}
  BY DEF Runs
<1> QED
  BY <1>1, <1>2, <1>3 DEF Runs

LEMMA RefusalMoves ==
  ASSUME run \in Runs, SeedRefused
  PROVE  /\ run' \in Runs /\ run'.pc \in {"abort", "ending"}
         /\ run'.plan = run.plan
<1>1. CASE run.explicit
  <2>1. "abort" \in Places
    BY DEF Places
  <2> QED
    BY <1>1, <2>1, GotoMoves DEF SeedRefused
<1>2. CASE ~run.explicit
  BY <1>2, LeaveMoves DEF SeedRefused
<1> QED
  BY <1>1, <1>2

LEMMA AppendMoves ==
  ASSUME run \in Runs, NEW d \in Days, NEW rec \in Records, NEW next \in Places,
         AppendAttempt(d, rec, next)
  PROVE  /\ run' \in Runs /\ run'.pc = "attemptsync" /\ run'.day = d
         /\ run'.next = next /\ run'.plan = run.plan /\ run'.left = run.left
<1>1. "attemptsync" \in Places
  BY DEF Places, Working
<1>2. (IF next = "retry" THEN run.days \ {d} ELSE run.days) \in SUBSET Days
  BY DEF Runs
<1> QED
  BY <1>1, <1>2 DEF AppendAttempt, Runs

\* The same helper on the journals: the record of one day.
LEMMA AppendWrites ==
  ASSUME file \in Contents, NEW d \in Days, NEW rec \in Records, NEW next,
         AppendAttempt(d, rec, next)
  PROVE  /\ file' \in Contents /\ file'.act = file.act
         /\ file'.stop = file.stop /\ file'.seal = file.seal
         /\ file'.att = [file.att EXCEPT ![d] = rec]
         /\ UNCHANGED <<disk, gone, torn>>
  BY DEF AppendAttempt, Contents

LEMMA DamageKeepsContents ==
  ASSUME Journalled, NEW j \in Journals, Damage(j), UNCHANGED disk
  PROVE  Journalled'
<1>1. CASE UNCHANGED <<file, torn>>
  BY <1>1 DEF Journalled, Pointed
<1>2. CASE ~UNCHANGED <<file, torn>>
  <2> DEFINE att == IF j = Attempts THEN disk.att ELSE file.att
             act == IF j = Active THEN disk.act ELSE file.act
             seal == [p \in Plans |-> IF j = PlanOf(p) THEN disk.seal[p] ELSE file.seal[p]]
             stop == [p \in Plans |-> IF j = StopOf(p) THEN disk.stop[p] ELSE file.stop[p]]
  <2>1. file' = [att |-> att, act |-> act, seal |-> seal, stop |-> stop]
    BY <1>2 DEF Damage
  <2>2. att \in [Days -> Records] /\ act \in {file.act, disk.act}
    BY DEF Journalled, Contents
  <2>3. seal \in [Plans -> Seals] /\ stop \in [Plans -> Intents]
    BY DEF Journalled, Contents
  <2>4. file' \in Contents
    BY <2>1, <2>2, <2>3 DEF Journalled, Contents
  <2>5. file'.act \in {file.act, disk.act}
    BY <2>1, <2>2
  <2> QED
    BY <2>4, <2>5 DEF Journalled, Pointed
<1> QED
  BY <1>1, <1>2

LEMMA AppendKeepsContents ==
  ASSUME Journalled, NEW d \in Days, NEW rec \in Records, NEW next, AppendAttempt(d, rec, next)
  PROVE  Journalled'
  BY AppendWrites DEF Journalled, Pointed

\* A record rewritten without a new charge is a record.
LEMMA Rewritten ==
  ASSUME file \in Contents, NEW d \in Days, NEW status \in Statuses
  PROVE  [file.att[d] EXCEPT !.status = status] \in Records
<1>1. ASSUME NEW item \in Records PROVE [item EXCEPT !.status = status] \in Records
  BY DEF Records
<1>2. file.att[d] \in Records
  BY DEF Contents
<1> QED
  BY <1>1, <1>2

LEMMA JournalledStep ==
  ASSUME Shapes, [Next]_vars
  PROVE  Journalled'
<1> USE DEF Seals, Intents
<1>f. /\ file \in Contents /\ disk \in Contents
      /\ \A p \in Plans : file.seal[p] \in Seals /\ file.stop[p] \in Intents
  BY DEF Shapes, Journalled, Contents
<1>2. ASSUME NEW p \in Plans, Prepare(p) PROVE Journalled'
  <2>1. PICK reached \in {file.seal[p], "Queued"} :
          /\ file' = [file EXCEPT !.seal[p] = reached]
          /\ disk' = [disk EXCEPT !.seal[p] = reached]
    BY <1>2 DEF Prepare
  <2>2. reached \in Seals
    BY <1>f
  <2> QED
    BY <2>1, <2>2, <1>f DEF Contents, Shapes, Journalled, Pointed
<1>5. ASSUME Boot PROVE Journalled'
  <2> DEFINE p == file.act.top
             pointed == Readable(Active) /\ file.act.ids # {}
             clear == StopOf(p) \notin torn /\ (StopOf(p) \in gone \/ file.stop[p] = "clear")
             resumes == clear /\ Readable(PlanOf(p)) /\ file.seal[p] = "InFlight"
             one == [disk EXCEPT !.stop[p] = file.stop[p]]
  <2>1. file' = file
    BY <1>5 DEF Boot
  <2>2. CASE ~pointed
    BY <2>1, <2>2, <1>5 DEF Boot, Shapes, Journalled, Pointed
  <2>3. CASE pointed
    <3>1. p \in Plans
      BY <2>3 DEF Shapes, Journalled, Pointed
    <3>2. one \in Contents /\ one.act = disk.act
      BY <3>1, <1>f DEF Contents
    <3>3. CASE resumes
      <4>1. disk' = [one EXCEPT !.seal[p] = file.seal[p]]
        BY <2>3, <3>3, <1>5 DEF Boot
      <4> QED
        BY <2>1, <3>1, <3>2, <4>1, <1>f DEF Contents, Shapes, Journalled, Pointed
    <3>4. CASE ~resumes
      <4>1. disk' = [one EXCEPT !.seal[p] = IF clear THEN file.seal[p] ELSE one.seal[p]]
        BY <2>3, <3>4, <1>5 DEF Boot
      <4>2. (IF clear THEN file.seal[p] ELSE one.seal[p]) \in Seals
        BY <3>1, <3>2, <1>f DEF Contents
      <4> QED
        BY <2>1, <3>1, <3>2, <4>1, <4>2, <1>f DEF Contents, Shapes, Journalled, Pointed
    <3> QED
      BY <3>3, <3>4
  <2> QED
    BY <2>2, <2>3
<1>6. ASSUME SeedPlan PROVE Journalled'
  <2>1. CASE UNCHANGED <<file, disk>>
    BY <2>1 DEF Shapes, Journalled, Pointed
  <2>2. CASE /\ disk' = [disk EXCEPT !.seal[run.plan] = file.seal[run.plan]]
             /\ file' = [file EXCEPT !.seal[run.plan] = "InFlight"]
    <3>1. run.plan \in Plans
      BY <1>6 DEF SeedPlan, Shapes, Registers
    <3> QED
      BY <2>2, <3>1, <1>f DEF Contents, Shapes, Journalled, Pointed
  <2> QED
    BY <1>6, <2>1, <2>2 DEF SeedPlan
<1>8. ASSUME OpenBudget PROVE Journalled'
  <2>0. [d \in Days |-> Fresh] \in [Days -> Records]
    BY DEF Fresh, Records, Statuses
  <2>1. CASE UNCHANGED <<file, disk>>
    BY <2>1 DEF Shapes, Journalled, Pointed
  <2>3. CASE file' = file /\ disk' = [disk EXCEPT !.att = file.att]
    BY <2>3, <1>f DEF Contents, Shapes, Journalled, Pointed
  <2>2. CASE /\ file' = [file EXCEPT !.att = [d \in Days |-> Fresh]]
             /\ disk' = [disk EXCEPT !.att = [d \in Days |-> Fresh]]
    BY <2>0, <2>2, <1>f DEF Contents, Shapes, Journalled, Pointed
  <2> QED
    BY <1>8, <2>1, <2>2, <2>3 DEF OpenBudget
<1>9. ASSUME OpenActive PROVE Journalled'
  <2>1. CASE UNCHANGED <<file, disk>>
    BY <2>1 DEF Shapes, Journalled, Pointed
  <2>2. CASE file' = file /\ disk' = [disk EXCEPT !.act = file.act]
    BY <2>2, <1>f DEF Contents, Shapes, Journalled, Pointed
  <2> QED
    BY <1>9, <2>1, <2>2 DEF OpenActive
<1>12. ASSUME AbortWrite PROVE Journalled'
  <2>1. CASE UNCHANGED <<file, disk>>
    BY <2>1 DEF Shapes, Journalled, Pointed
  <2>2. CASE /\ disk' = [disk EXCEPT !.stop[run.plan] = file.stop[run.plan]]
             /\ file' = [file EXCEPT !.stop[run.plan] = "stop"]
    <3>1. run.plan \in Plans
      BY <1>12 DEF AbortWrite, Shapes, Registers
    <3> QED
      BY <2>2, <3>1, <1>f DEF Contents, Shapes, Journalled, Pointed
  <2> QED
    BY <1>12, <2>1, <2>2 DEF AbortWrite
<1>20. ASSUME StopAgain PROVE Journalled'
  <2>1. CASE UNCHANGED <<file, disk>>
    BY <2>1 DEF Shapes, Journalled, Pointed
  <2>2. CASE file' = file /\ disk' = [disk EXCEPT !.stop[active] = "stop"]
    BY <2>2, <1>f DEF Contents, Shapes, Journalled, Pointed
  <2> QED
    BY <1>20, <2>1, <2>2 DEF StopAgain
<1>21. ASSUME PowerLoss PROVE Journalled'
  <2>1. PICK cut \in SUBSET (Unsynced \ gone), lost \in SUBSET Unsynced :
          /\ file' = [att |-> IF Attempts \in cut \cup lost THEN disk.att ELSE file.att,
                      act |-> IF Active \in cut \cup lost THEN disk.act ELSE file.act,
                      seal |-> [p \in Plans |-> IF PlanOf(p) \in cut \cup lost
                                                THEN disk.seal[p] ELSE file.seal[p]],
                      stop |-> [p \in Plans |-> IF StopOf(p) \in cut \cup lost
                                                THEN disk.stop[p] ELSE file.stop[p]]]
          /\ torn' = torn \cup cut
    BY <1>21 DEF PowerLoss
  <2> DEFINE out == cut \cup lost
             att == IF Attempts \in out THEN disk.att ELSE file.att
             act == IF Active \in out THEN disk.act ELSE file.act
             seal == [p \in Plans |-> IF PlanOf(p) \in out THEN disk.seal[p] ELSE file.seal[p]]
             stop == [p \in Plans |-> IF StopOf(p) \in out THEN disk.stop[p] ELSE file.stop[p]]
  <2>2. file' = [att |-> att, act |-> act, seal |-> seal, stop |-> stop] /\ disk' = file'
    BY <2>1, <1>21 DEF PowerLoss
  <2>3. att \in [Days -> Records] /\ act \in {file.act, disk.act}
    BY <1>f DEF Contents
  <2>4. seal \in [Plans -> Seals] /\ stop \in [Plans -> Intents]
    BY <1>f DEF Contents
  <2>5. file' \in Contents
    BY <2>2, <2>3, <2>4, <1>f DEF Contents
  <2>6. file'.act \in {file.act, disk.act}
    BY <2>2, <2>3
  <2> QED
    BY <2>2, <2>5, <2>6 DEF Shapes, Journalled, Pointed
<1>22. ASSUME NEW j \in Losable, Lose(j) PROVE Journalled'
  <2>1. ASSUME NEW journal \in Contents, Pointed(journal)
        PROVE  Without(journal, j) \in Contents /\ Pointed(Without(journal, j))
    <3> DEFINE act == IF j = Active THEN NoHistory ELSE journal.act
               seal == [p \in Plans |-> IF j = PlanOf(p) THEN "none" ELSE journal.seal[p]]
    <3>1. act \in [ids : SUBSET Plans, top : Plans \cup {NoPlan}]
      BY <2>1 DEF Contents, NoHistory
    <3>2. seal \in [Plans -> Seals]
      BY <2>1 DEF Contents
    <3>3. Without(journal, j) = [[journal EXCEPT !.act = act] EXCEPT !.seal = seal]
      BY <2>1 DEF Without, Contents
    <3>4. Without(journal, j) \in Contents /\ Without(journal, j).act = act
      BY <3>1, <3>2, <3>3, <2>1 DEF Contents
    <3> QED
      BY <3>4, <2>1 DEF Pointed, NoHistory
  <2> QED
    BY <1>22, <2>1 DEF Lose, Shapes, Journalled
<1>3. ASSUME NEW p \in Plans, ClearStop(p) PROVE Journalled'
  BY <1>3 DEF Contents, Shapes, Journalled, Pointed, ClearStop
<1>4. ASSUME Claim PROVE Journalled'
  BY <1>4 DEF Contents, Shapes, Journalled, Pointed, Claim
<1>7. ASSUME SealSync PROVE Journalled'
  BY <1>7 DEF Contents, Shapes, Journalled, Pointed, SealSync
<1>10. ASSUME WritePointer PROVE Journalled'
  BY <1>10, ZenonT(60) DEF Contents, Shapes, Journalled, Pointed, WritePointer, Registers
<1>11. ASSUME PointerSync PROVE Journalled'
  BY <1>11 DEF Contents, Shapes, Journalled, Pointed, PointerSync
<1>13. ASSUME AbortSync PROVE Journalled'
  BY <1>13 DEF Contents, Shapes, Journalled, Pointed, AbortSync
<1>14. ASSUME Drive PROVE Journalled'
  BY <1>14, ZenonT(60) DEF Contents, Shapes, Journalled, Pointed, Drive
<1>15. ASSUME AttemptSync PROVE Journalled'
  BY <1>15, ZenonT(60) DEF Contents, Shapes, Journalled, Pointed, AttemptSync
<1>16. ASSUME Close PROVE Journalled'
  BY <1>16 DEF Contents, Shapes, Journalled, Pointed, Close
<1>17. ASSUME CloseSync PROVE Journalled'
  BY <1>17 DEF Contents, Shapes, Journalled, Pointed, CloseSync
<1>18. ASSUME StopWrite PROVE Journalled'
  BY <1>18 DEF Contents, Shapes, Journalled, Pointed, StopWrite
<1>19. ASSUME StopSync PROVE Journalled'
  BY <1>19 DEF Contents, Shapes, Journalled, Pointed, StopSync
<1>23. ASSUME Reconcile PROVE Journalled'
  <2>1. CASE UNCHANGED <<file, disk>>
    BY <2>1 DEF Shapes, Journalled, Pointed
  <2>2. ASSUME NEW d \in run.todo, NEW status \in {"Blocked", "Unverified", Settled(d)},
               AppendAttempt(d, [file.att[d] EXCEPT !.status = status], "reconcile")
        PROVE  Journalled'
    <3>1. d \in Days
      BY DEF Shapes, Runs
    <3>2. status \in Statuses
      BY DEF Settled, Statuses
    <3> QED
      BY <2>2, <3>1, <3>2, Rewritten, AppendKeepsContents DEF Shapes, Journalled
  <2> QED
    BY <1>23, <2>1, <2>2 DEF Reconcile, journals
<1>24. ASSUME Retry PROVE Journalled'
  <2>1. CASE UNCHANGED <<file, disk>>
    BY <2>1 DEF Shapes, Journalled, Pointed
  <2>2. ASSUME NEW d \in run.days,
               AppendAttempt(d, [file.att[d] EXCEPT !.status = "Exhausted"], "retry")
        PROVE  Journalled'
    <3>1. d \in Days /\ "Exhausted" \in Statuses
      BY DEF Shapes, Runs, Statuses
    <3> QED
      BY <2>2, <3>1, Rewritten, AppendKeepsContents DEF Shapes, Journalled
  <2> QED
    BY <1>24, <2>1, <2>2 DEF Retry, journals
<1>25. ASSUME Reserve PROVE Journalled'
  <2> DEFINE rec == [status |-> "InFlight", attempts |-> file.att[run.day].attempts + 1]
  <2>1. CASE UNCHANGED <<file, disk>>
    BY <2>1 DEF Shapes, Journalled, Pointed
  <2>2. CASE AppendAttempt(run.day, rec, "ask")
    <3>1. run.day \in Days /\ file.att[run.day].attempts < Limit
      BY <1>25 DEF Reserve, Shapes, Registers, Dayful, Headroom
    <3>2. file.att[run.day].attempts \in Nat
      BY <3>1, <1>f DEF Contents, Records
    <3>3. rec \in Records
      BY <3>1, <3>2 DEF Records, Statuses
    <3> QED
      BY <2>2, <3>1, <3>3, AppendKeepsContents DEF Shapes
  <2> QED
    BY <1>25, <2>1, <2>2 DEF Reserve, Stopped, journals
<1>26. ASSUME Ask PROVE Journalled'
  <2>1. CASE UNCHANGED <<file, disk>>
    BY <2>1 DEF Shapes, Journalled, Pointed
  <2>2. CASE AppendAttempt(run.day, [file.att[run.day] EXCEPT !.status = "Blocked"], "close")
    <3>1. run.day \in Days /\ "Blocked" \in Statuses
      BY <1>26 DEF Ask, Shapes, Registers, Dayful, Statuses
    <3> QED
      BY <2>2, <3>1, Rewritten, AppendKeepsContents DEF Shapes, Journalled
  <2> QED
    BY <1>26, <2>1, <2>2 DEF Ask, journals
<1>27. ASSUME Settle PROVE Journalled'
  <2>1. CASE UNCHANGED <<file, disk>>
    BY <2>1 DEF Shapes, Journalled, Pointed
  <2>2. ASSUME NEW status \in {Settled(run.day), "Verified", "Unverified"}, NEW next,
               AppendAttempt(run.day, [file.att[run.day] EXCEPT !.status = status], next)
        PROVE  Journalled'
    <3>1. run.day \in Days /\ status \in Statuses
      BY <1>27 DEF Settle, Shapes, Registers, Dayful, Statuses, Settled
    <3> QED
      BY <2>2, <3>1, Rewritten, AppendKeepsContents DEF Shapes, Journalled
  <2> QED
    BY <1>27, <2>1, <2>2 DEF Settle, journals
<1>28. ASSUME AppendFails \/ StopFails PROVE Journalled'
  <2>1. \E j \in Journals : Damage(j)
    BY <1>28 DEF AppendFails, StopFails, Journals, Shapes, Controlled
  <2>2. UNCHANGED disk
    BY <1>28 DEF AppendFails, StopFails
  <2> QED
    BY <2>1, <2>2, DamageKeepsContents DEF Shapes
<1>29. CASE UNCHANGED <<file, disk>>
  BY <1>29 DEF Shapes, Journalled, Pointed
<1>30. ASSUME NEW p \in Plans, Preflight(p) \/ Refuse(p) PROVE UNCHANGED <<file, disk>>
  BY <1>30 DEF Preflight, Refuse, journals
<1>31. ASSUME \/ Seeded \/ Reconciled \/ ScanWindow \/ ScanDone \/ RetryDone \/ Idle \/ Finish
              \/ StopRefused \/ Die \/ Panic \/ SourceChanges \/ UNCHANGED vars
       PROVE  UNCHANGED <<file, disk>>
  BY <1>31 DEF Seeded, Reconciled, ScanWindow, ScanDone, RetryDone, Idle, Finish, StopRefused,
               Die, Panic, SourceChanges, journals, vars
<1> QED
  BY <1>2, <1>3, <1>4, <1>5, <1>6, <1>7, <1>8, <1>9, <1>10, <1>11, <1>12, <1>13, <1>14, <1>15,
     <1>16, <1>17, <1>18, <1>19, <1>20, <1>21, <1>22, <1>23, <1>24, <1>25, <1>26, <1>27, <1>28,
     <1>29, <1>30, <1>31
     DEF Next, Start, Seed, Work, Stop, Faults

LEMMA FiledStep ==
  ASSUME Shapes, [Next]_vars
  PROVE  Filed'
<1>1. ASSUME gone' \subseteq gone, torn' = torn PROVE Filed'
  BY <1>1 DEF Shapes, Filed
<1>2. ASSUME NEW p \in Plans, Preflight(p) \/ Prepare(p) \/ ClearStop(p) \/ Refuse(p)
      PROVE  Filed'
  BY <1>1, <1>2 DEF Preflight, Prepare, ClearStop, Refuse, journals
<1>3. ASSUME Claim \/ Boot \/ Seed PROVE Filed'
  BY <1>1, <1>3 DEF Claim, Boot, Seed, SeedPlan, SealSync, OpenBudget, OpenActive, WritePointer,
                    PointerSync, Seeded, AbortWrite, AbortSync, journals
<1>4. ASSUME Work PROVE Filed'
  BY <1>1, <1>4 DEF Work, Drive, AttemptSync, Reconcile, Reconciled, ScanWindow, ScanDone, Retry,
                    RetryDone, Reserve, Ask, Settle, Close, CloseSync, Idle, Finish, Stopped,
                    AppendAttempt, journals
<1>5. ASSUME Stop \/ StopSync \/ Die \/ Panic \/ SourceChanges \/ UNCHANGED vars PROVE Filed'
  BY <1>1, <1>5 DEF Stop, StopWrite, StopAgain, StopRefused, StopSync, Die, Panic, SourceChanges,
                    journals, vars
<1>6. Unsynced \subseteq Journals
  BY DEF Unsynced, Journals
<1>7. ASSUME PowerLoss PROVE Filed'
  BY <1>6, <1>7 DEF PowerLoss, Shapes, Filed
<1>8. ASSUME AppendFails \/ StopFails PROVE Filed'
  BY <1>6, <1>8 DEF AppendFails, StopFails, Damage, Shapes, Filed
<1>9. ASSUME NEW j \in Losable, Lose(j) PROVE Filed'
  BY <1>9 DEF Lose, Losable, Journals, Shapes, Filed
<1> QED
  BY <1>2, <1>3, <1>4, <1>5, <1>7, <1>8, <1>9 DEF Next, Start, Faults

LEMMA ControlledStep ==
  ASSUME Shapes, [Next]_vars
  PROVE  Controlled'
<1> USE DEF Shapes, Controlled, control, history, bounds
<1>1. ASSUME NEW p \in Plans, Preflight(p) \/ Prepare(p) \/ ClearStop(p) \/ Refuse(p)
      PROVE  Controlled'
  BY <1>1 DEF Preflight, Prepare, ClearStop, Refuse
<1>2. ASSUME Claim PROVE Controlled'
  BY <1>2 DEF Claim, Registers
<1>0. NoSlot \in [running : BOOLEAN, stopping : BOOLEAN]
  BY DEF NoSlot
<1>3. ASSUME Boot PROVE Controlled'
  <2>1. file.act.ids # {} => file.act.top \in Plans
    BY DEF Journalled, Pointed
  <2>2. active' \in Plans \cup {NoPlan} /\ late' \in Nat
    BY <1>3, <2>1 DEF Boot
  <2>3. slot' = slot \/ slot' = [running |-> TRUE, stopping |-> FALSE]
    BY <1>3 DEF Boot
  <2> DEFINE Slots == [running : BOOLEAN, stopping : BOOLEAN]
  <2>5. slot \in Slots /\ [running |-> TRUE, stopping |-> FALSE] \in Slots
    OBVIOUS
  <2>4. slot' \in Slots
    <3> HIDE DEF Slots
    <3> QED
      BY <2>3, <2>5
  <2> QED
    BY <1>3, <2>2, <2>4 DEF Boot
<1>4. ASSUME Seed PROVE Controlled'
  BY <1>4 DEF Seed, SeedPlan, SealSync, OpenBudget, OpenActive, WritePointer, PointerSync, Seeded,
              AbortWrite, AbortSync
<1>5. ASSUME Ask PROVE Controlled'
  <2>1. asked' \in [Days -> Nat] /\ late' \in Nat /\ owed' \subseteq Days
    BY <1>5 DEF Ask
  <2> QED
    BY <1>5, <2>1 DEF Ask
<1>6. ASSUME \/ Drive \/ AttemptSync \/ Reconcile \/ Reconciled \/ ScanWindow \/ ScanDone \/ Retry
             \/ RetryDone \/ Reserve \/ Settle \/ Close \/ CloseSync
      PROVE  Controlled'
  BY <1>6 DEF Drive, AttemptSync, Reconcile, Reconciled, ScanWindow, ScanDone, Retry, RetryDone,
              Reserve, Settle, Close, CloseSync
<1>7. ASSUME Idle \/ Finish PROVE Controlled'
  BY <1>0, <1>7 DEF Idle, Finish
<1>8. ASSUME Stop \/ StopSync PROVE Controlled'
  <2>1. [slot EXCEPT !.stopping = TRUE] \in [running : BOOLEAN, stopping : BOOLEAN]
    OBVIOUS
  <2>2. ASSUME StopAgain PROVE run.plan \in Plans
    BY <2>2 DEF StopAgain, Stoppable, SlotIsHeldByRun, Registers
  <2> QED
    BY <1>8, <2>1, <2>2 DEF Stop, StopWrite, StopAgain, StopRefused, StopSync
<1>9. ASSUME Faults PROVE Controlled'
  <2>1. ASSUME Fault PROVE faults' \in 0..MaxFaults /\ losses' \in 0..MaxLosses
    BY <2>1 DEF Fault
  <2>2. ASSUME Die \/ PowerLoss PROVE Controlled'
    BY <1>0, <2>1, <2>2 DEF Die, PowerLoss, Dead
  <2>3. ASSUME AppendFails \/ StopFails \/ Panic PROVE Controlled'
    BY <2>1, <2>3 DEF AppendFails, StopFails, Panic
  <2>4. ASSUME NEW j \in Losable, Lose(j) PROVE Controlled'
    BY <2>4 DEF Lose
  <2> QED
    BY <1>9, <2>2, <2>3, <2>4 DEF Faults
<1>10. ASSUME SourceChanges \/ UNCHANGED vars PROVE Controlled'
  BY <1>10 DEF SourceChanges, vars
<1> QED
  BY <1>1, <1>2, <1>3, <1>4, <1>5, <1>6, <1>7, <1>8, <1>9, <1>10 DEF Next, Start, Work

\* What happens around the worker moves neither it nor the attempts.
LEMMA Bystanders ==
  ASSUME Shapes,
         \/ \E p \in Plans : Preflight(p) \/ Prepare(p) \/ Refuse(p)
         \/ Stop \/ StopSync \/ StopFails
         \/ \E j \in Losable : Lose(j)
         \/ SourceChanges \/ UNCHANGED vars
  PROVE  /\ UNCHANGED run /\ file'.att = file.att
         /\ slot'.running = slot.running
<1> USE DEF Shapes, Journalled, Contents, control, journals
<1>1. ASSUME NEW p \in Plans, Preflight(p) \/ Prepare(p) \/ Refuse(p)
      PROVE  UNCHANGED run /\ file'.att = file.att /\ slot'.running = slot.running
  BY <1>1 DEF Preflight, Prepare, Refuse
<1>2. ASSUME Stop \/ StopSync
      PROVE  UNCHANGED run /\ file'.att = file.att /\ slot'.running = slot.running
  BY <1>2 DEF Stop, StopWrite, StopAgain, StopRefused, StopSync, Controlled
<1>3. ASSUME StopFails
      PROVE  UNCHANGED run /\ file'.att = file.att /\ slot'.running = slot.running
  <2>1. \A p : StopOf(p) # Attempts
    BY DEF StopOf, Attempts
  <2> QED
    BY <1>3, <2>1 DEF StopFails, Damage
<1>4. ASSUME NEW j \in Losable, Lose(j)
      PROVE  UNCHANGED run /\ file'.att = file.att /\ slot'.running = slot.running
  BY <1>4 DEF Lose, Without
<1>5. ASSUME SourceChanges \/ UNCHANGED vars
      PROVE  UNCHANGED run /\ file'.att = file.att /\ slot'.running = slot.running
  BY <1>5 DEF SourceChanges, vars
<1> QED
  BY <1>1, <1>2, <1>3, <1>4, <1>5

LEMMA WorkerStep ==
  ASSUME Shapes, [Next]_vars
  PROVE  run' \in Runs /\ Registers' /\ Headroom' /\ SlotIsHeldByRun'
<1> DEFINE Good == run' \in Runs /\ Registers' /\ Headroom' /\ SlotIsHeldByRun'
<1> USE DEF Registers, Scanning, Dayful, Headroom, SlotIsHeldByRun
<1>r. run \in Runs /\ Registers /\ SlotIsHeldByRun
  BY DEF Shapes
<1>1. ASSUME UNCHANGED run, file'.att = file.att, slot'.running = slot.running PROVE Good
  BY <1>1 DEF Shapes
<1>2. ASSUME Down = run' \/ Resting = run', slot' = slot \/ slot' = NoSlot,
             ~slot.running \/ slot' = NoSlot
      PROVE  Good
  <2>1. run'.pc = "off" \/ run'.pc = "up"
    BY <1>2 DEF Down, Resting
  <2>2. ~slot'.running
    BY <1>2 DEF NoSlot
  <2> QED
    BY <1>2, <2>1, <2>2, AtRest
\* A worker that goes to a place without a day or a window.
<1>3. ASSUME NEW place \in {"seed", "sealsync", "budget", "activate", "point", "pointsync",
                            "seeded", "abort", "abortsync", "drive", "reconcile", "scan",
                            "close", "closesync", "ending", "ended"},
             run' \in Runs, run'.pc = place, run'.plan = run.plan,
             run.pc \notin {"off", "up"}, slot'.running
      PROVE  Good
  BY <1>3, <1>r
<1>4. ASSUME EndWith(TRUE) \/ EndWith(FALSE), slot.running, UNCHANGED slot PROVE Good
  BY <1>3, <1>4, <1>r, EndMoves
<1>5. ASSUME Leave, slot.running, UNCHANGED slot PROVE Good
  BY <1>3, <1>5, <1>r, LeaveMoves
<1>6. ASSUME SeedRefused, slot.running, UNCHANGED slot PROVE Good
  BY <1>3, <1>6, <1>r, RefusalMoves
<1>7. ASSUME NEW place \in {"sealsync", "budget", "activate", "point", "pointsync",
                            "seeded", "abort", "abortsync", "drive", "scan", "closesync",
                            "ended"},
             Goto(place), slot.running, UNCHANGED slot
      PROVE  Good
  <2>1. place \in Places
    BY DEF Places, Seeding, Working
  <2> QED
    BY <1>3, <1>7, <1>r, <2>1, GotoMoves
<1>8. ASSUME NEW p \in Plans, ClearStop(p) PROVE Good
  <2>1. run' = [pc |-> "clear", plan |-> p, explicit |-> TRUE, todo |-> {}, left |-> 0,
                days |-> {}, day |-> NoDay, next |-> "up", ok |-> TRUE]
    BY <1>8 DEF ClearStop, Resting, Down
  <2>2. "clear" \in Places /\ "up" \in Places
    BY DEF Places
  <2>3. run' \in Runs
    BY <2>1, <2>2 DEF Runs
  <2> QED
    BY <1>8, <1>r, <2>1, <2>3 DEF ClearStop
<1>9. ASSUME Claim PROVE Good
  <2>1. "seed" \in Places
    BY DEF Places, Seeding
  <2> QED
    BY <1>3, <1>9, <1>r, <2>1, GotoMoves DEF Claim
<1>10. ASSUME Boot PROVE Good
  <2> DEFINE p == file.act.top
  <2>0. [Down EXCEPT !.pc = "seed", !.plan = p].pc = "seed" /\ Resting.pc = "up"
    BY DEF Down, Resting
  <2>1. CASE run' = Resting
    <3>1. UNCHANGED slot
      BY <1>10, <2>0, <2>1 DEF Boot
    <3> QED
      BY <1>2, <1>10, <1>r, <2>1, <3>1 DEF Boot
  <2>2. CASE run' = [Down EXCEPT !.pc = "seed", !.plan = p]
    <3>1. run' = [pc |-> "seed", plan |-> p, explicit |-> FALSE, todo |-> {}, left |-> 0,
                  days |-> {}, day |-> NoDay, next |-> "up", ok |-> TRUE]
      BY <2>2 DEF Down
    <3>2. "seed" \in Places /\ "up" \in Places
      BY DEF Places, Seeding
    <3>4. run' # Resting
      BY <3>1 DEF Resting, Down
    <3>3. p \in Plans /\ slot' = [running |-> TRUE, stopping |-> FALSE]
      BY <1>10, <3>4 DEF Boot, Shapes, Journalled, Pointed
    <3> QED
      BY <3>1, <3>2, <3>3 DEF Runs
  <2> QED
    BY <1>10, <2>1, <2>2 DEF Boot
<1>11. ASSUME SeedPlan \/ OpenBudget \/ OpenActive PROVE Good
  <2>1. slot.running /\ UNCHANGED slot
    BY <1>11, <1>r DEF SeedPlan, OpenBudget, OpenActive, control
  <2>2. Goto("sealsync") \/ Goto("activate") \/ Goto("point") \/ SeedRefused
    BY <1>11 DEF SeedPlan, OpenBudget, OpenActive
  <2> QED
    BY <1>6, <1>7, <2>1, <2>2
<1>12. ASSUME SealSync \/ WritePointer \/ PointerSync \/ Seeded PROVE Good
  <2>1. slot.running /\ UNCHANGED slot
    BY <1>12, <1>r DEF SealSync, WritePointer, PointerSync, Seeded, control
  <2>2. \/ Goto("budget") \/ Goto("pointsync") \/ Goto("seeded") \/ Goto("abort")
        \/ Goto("drive")
    BY <1>12 DEF SealSync, WritePointer, PointerSync, Seeded
  <2> QED
    BY <1>7, <2>1, <2>2
<1>13. ASSUME AbortWrite \/ AbortSync \/ CloseSync PROVE Good
  <2>1. slot.running /\ UNCHANGED slot
    BY <1>13, <1>r DEF AbortWrite, AbortSync, CloseSync, control
  <2>2. Goto("abortsync") \/ Goto("ending") \/ Leave
    BY <1>13 DEF AbortWrite, AbortSync, CloseSync
  <2>3. "ending" \in Places
    BY DEF Places
  <2> QED
    BY <1>3, <1>5, <1>7, <1>r, <2>1, <2>2, <2>3, GotoMoves
<1>14. ASSUME Drive PROVE Good
  <2>1. slot.running /\ UNCHANGED slot
    BY <1>14, <1>r DEF Drive, control
  <2> DEFINE todo == {d \in Days : d \in Scope(run.plan) /\ Pending(d)}
             left == Len(Windows[run.plan])
  <2>2. CASE run' = [run EXCEPT !.pc = "reconcile", !.left = left, !.todo = todo]
    <3>1. left \in Nat
      <4>1. run.plan \in Plans
        BY <1>14, <1>r DEF Drive
      <4>2. Windows[run.plan] \in Seq(SUBSET Days)
        BY <4>1, RecoveryAssumption
      <4> QED
        BY <4>2
    <3>2. todo \in SUBSET Days /\ "reconcile" \in Places
      BY DEF Places, Working
    <3>3. run' \in Runs /\ run'.pc = "reconcile" /\ run'.plan = run.plan
      <4> HIDE DEF todo, left
      <4> QED
        BY <2>2, <3>1, <3>2, <1>r DEF Runs
    <3> QED
      BY <1>3, <1>r, <2>1, <3>3
  <2> QED
    BY <1>5, <1>14, <2>1, <2>2 DEF Drive
<1>15. ASSUME AttemptSync PROVE Good
  <2>1. slot.running /\ UNCHANGED slot /\ file' = file
    BY <1>15, <1>r DEF AttemptSync, control
  <2>2. CASE EndWith(FALSE)
    BY <1>4, <2>1, <2>2
  <2>3. CASE run' = [run EXCEPT !.pc = run.next, !.next = "up"] /\ run.next # "close"
    <3>1. run.next \in {"reconcile", "retry", "loop", "ask"}
      BY <1>15, <1>r, <2>3 DEF AttemptSync
    <3>2. "up" \in Places
      BY DEF Places
    <3>3. run' \in Runs /\ run'.pc = run.next /\ run'.plan = run.plan /\ run'.left = run.left
            /\ run'.day = run.day
      BY <2>3, <3>1, <3>2, <1>r DEF Runs
    <3> QED
      BY <1>15, <1>r, <2>1, <3>1, <3>3 DEF AttemptSync, Shapes
  <2> QED
    BY <1>15, <2>2, <2>3 DEF AttemptSync, GiveUp
\* A record appended on the way to next.
<1>16. ASSUME NEW d \in Days, NEW rec \in Records,
              NEW next \in {"reconcile", "retry", "loop", "ask", "close"},
              AppendAttempt(d, rec, next), slot.running, UNCHANGED slot,
              run.left > 0 \/ next \in {"reconcile", "close"},
              next = "loop" => rec.attempts < Limit,
              run.pc \notin {"off", "up"}
       PROVE  Good
  <2>1. next \in Places
    BY DEF Places, Working
  <2>2. file'.att[d] = rec
    <3>1. file'.att = [file.att EXCEPT ![d] = rec]
      BY <1>16, AppendWrites DEF Shapes, Journalled
    <3>2. file.att \in [Days -> Records]
      BY DEF Shapes, Journalled, Contents
    <3> QED
      BY <3>1, <3>2
  <2> QED
    BY <1>16, <1>r, <2>1, <2>2, AppendMoves
<1>17. ASSUME Reconcile PROVE Good
  <2>1. slot.running /\ UNCHANGED slot
    BY <1>17, <1>r DEF Reconcile, control
  <2>2. ASSUME NEW d \in run.todo, NEW status \in {"Blocked", "Unverified", Settled(d)},
               AppendAttempt(d, [file.att[d] EXCEPT !.status = status], "reconcile")
        PROVE  Good
    <3>1. d \in Days /\ status \in Statuses
      BY <1>r DEF Runs, Settled, Statuses
    <3>2. [file.att[d] EXCEPT !.status = status] \in Records
      BY <3>1, Rewritten DEF Shapes, Journalled
    <3> QED
      BY <1>16, <1>17, <2>1, <2>2, <3>1, <3>2 DEF Reconcile
  <2> QED
    BY <1>4, <1>17, <2>1, <2>2 DEF Reconcile, GiveUp
<1>18. ASSUME Reconciled \/ ScanDone \/ RetryDone \/ ScanWindow PROVE Good
  <2>1. slot.running /\ UNCHANGED slot /\ file' = file
    BY <1>18, <1>r DEF Reconciled, ScanDone, RetryDone, ScanWindow, control, journals
  <2>2. CASE NextWindow /\ run.left > 0 /\ run.pc \in {"scan", "retry"}
    <3>1. run.left - 1 \in Nat /\ "scan" \in Places
      BY <2>2, <1>r DEF Runs, Places, Working
    <3>2. run' \in Runs /\ run'.pc = "scan" /\ run'.plan = run.plan
      BY <2>2, <3>1, <1>r DEF NextWindow, Runs
    <3> QED
      BY <1>3, <1>r, <2>1, <2>2, <3>2
  <2>3. CASE /\ run' = [run EXCEPT !.pc = "retry", !.days = owed \cap Window]
             /\ run.left > 0 /\ run.pc = "scan"
    <3>1. owed \cap Window \in SUBSET Days /\ "retry" \in Places
      BY DEF Shapes, Controlled, Places, Working
    <3>2. run' \in Runs /\ run'.pc = "retry" /\ run'.plan = run.plan /\ run'.left = run.left
      BY <2>3, <3>1, <1>r DEF Runs
    <3> QED
      BY <1>r, <2>1, <2>3, <3>2
  <2>4. CASE RetryDone
    BY <1>4, <1>r, <2>1, <2>2, <2>4 DEF RetryDone, GiveUp
  <2>5. CASE ScanWindow
    BY <1>4, <2>1, <2>2, <2>3, <2>5 DEF ScanWindow, GiveUp
  <2> QED
    BY <1>4, <1>7, <1>18, <2>1, <2>4, <2>5 DEF Reconciled, ScanDone
<1>19. ASSUME Retry PROVE Good
  <2>1. slot.running /\ UNCHANGED slot /\ run.left > 0
    BY <1>19, <1>r DEF Retry, control
  <2>2. PICK d \in run.days :
          \/ run' = [run EXCEPT !.days = @ \ {d}] /\ UNCHANGED journals
          \/ AppendAttempt(d, [file.att[d] EXCEPT !.status = "Exhausted"], "retry")
          \/ /\ file.att[d].attempts < Limit
             /\ run' = [run EXCEPT !.pc = "loop", !.day = d]
             /\ UNCHANGED journals
    BY <1>19 DEF Retry
  <2>3. d \in Days /\ "Exhausted" \in Statuses
    BY <1>r DEF Runs, Statuses
  <2>4. CASE run' = [run EXCEPT !.days = @ \ {d}] /\ UNCHANGED journals
    <3>1. run' \in Runs /\ run'.pc = "retry" /\ run'.plan = run.plan /\ run'.left = run.left
      BY <1>19, <2>4, <1>r DEF Runs, Retry
    <3> QED
      BY <1>19, <1>r, <2>1, <3>1 DEF Retry
  <2>5. CASE AppendAttempt(d, [file.att[d] EXCEPT !.status = "Exhausted"], "retry")
    BY <1>16, <1>19, <2>1, <2>3, <2>5, Rewritten DEF Retry, Shapes, Journalled
  <2>6. CASE /\ file.att[d].attempts < Limit
             /\ run' = [run EXCEPT !.pc = "loop", !.day = d]
             /\ UNCHANGED journals
    <3>1. "loop" \in Places
      BY DEF Places, Working
    <3>2. run' \in Runs /\ run'.pc = "loop" /\ run'.plan = run.plan /\ run'.left = run.left
            /\ run'.day = d
      BY <2>3, <2>6, <3>1, <1>r DEF Runs
    <3> QED
      BY <1>19, <1>r, <2>1, <2>3, <2>6, <3>2 DEF Retry, journals
  <2> QED
    BY <2>2, <2>4, <2>5, <2>6
<1>20. ASSUME Reserve PROVE Good
  <2>1. slot.running /\ UNCHANGED slot /\ run.left > 0 /\ run.day \in Days
    BY <1>20, <1>r DEF Reserve, control
  <2> DEFINE rec == [status |-> "InFlight", attempts |-> file.att[run.day].attempts + 1]
  <2>2. CASE AppendAttempt(run.day, rec, "ask")
    <3>1. file.att[run.day].attempts < Limit
      BY <1>20 DEF Reserve, Shapes
    <3>2. file.att[run.day].attempts \in Nat
      BY <2>1 DEF Shapes, Journalled, Contents, Records
    <3>3. rec \in Records
      BY <3>1, <3>2 DEF Records, Statuses
    <3> QED
      BY <1>16, <1>20, <2>1, <2>2, <3>3 DEF Reserve
  <2> QED
    BY <1>4, <1>20, <2>1, <2>2 DEF Reserve, Stopped, GiveUp
<1>21. ASSUME Ask PROVE Good
  <2>1. slot.running /\ UNCHANGED slot /\ run.left > 0 /\ run.day \in Days
    BY <1>21, <1>r DEF Ask, control
  <2>2. CASE AppendAttempt(run.day, [file.att[run.day] EXCEPT !.status = "Blocked"], "close")
    <3>1. "Blocked" \in Statuses
      BY DEF Statuses
    <3> QED
      BY <1>16, <1>21, <2>1, <2>2, <3>1, Rewritten DEF Ask, Shapes, Journalled
  <2>3. CASE Goto("settle") /\ UNCHANGED journals
    <3>1. "settle" \in Places
      BY DEF Places, Working
    <3> QED
      BY <1>21, <1>r, <2>1, <2>3, <3>1, GotoMoves DEF Ask
  <2> QED
    BY <1>4, <1>21, <2>1, <2>2, <2>3 DEF Ask, GiveUp
<1>22. ASSUME Settle PROVE Good
  <2>1. slot.running /\ UNCHANGED slot /\ run.left > 0 /\ run.day \in Days
    BY <1>22, <1>r DEF Settle, control
  <2>2. ASSUME NEW status \in {Settled(run.day), "Verified", "Unverified"},
               AppendAttempt(run.day, [file.att[run.day] EXCEPT !.status = status],
                             IF status = "Queued" THEN "loop" ELSE "retry")
        PROVE  Good
    <3> DEFINE rec == [file.att[run.day] EXCEPT !.status = status]
    <3>1. status \in Statuses
      BY DEF Statuses, Settled
    <3>2. rec \in Records
      BY <2>1, <3>1, Rewritten DEF Shapes, Journalled
    <3>3. file.att[run.day] \in Records
      BY <2>1 DEF Shapes, Journalled, Contents
    <3>4. status = "Queued" => rec.attempts < Limit
      BY <2>2, <3>3 DEF Settled, Records
    <3> HIDE DEF rec
    <3> QED
      BY <1>16, <1>22, <2>1, <2>2, <3>2, <3>4 DEF Settle, rec
  <2> QED
    BY <1>4, <1>22, <2>1, <2>2 DEF Settle, GiveUp
<1>23. ASSUME Close \/ Idle PROVE Good
  BY <1>7, <1>23, <1>r DEF Close, Idle, control
<1>24. ASSUME Finish PROVE Good
  BY <1>2, <1>24 DEF Finish
<1>25. ASSUME Die \/ PowerLoss PROVE Good
  BY <1>2, <1>25 DEF Die, PowerLoss, Dead
<1>26. ASSUME Panic PROVE Good
  BY <1>5, <1>26, <1>r DEF Panic, control, Working
<1>27. ASSUME AppendFails PROVE Good
  <2>1. UNCHANGED slot
    BY <1>27 DEF AppendFails, control
  <2>2. PICK j \in Journals : Appending(j)
    BY <1>27 DEF AppendFails
  <2>3. CASE run.pc = "clear" /\ run' = Resting
    BY <1>2, <1>r, <2>1, <2>3
  <2>4. CASE run.pc # "clear"
    BY <1>4, <1>5, <1>6, <1>r, <2>1, <2>2, <2>4 DEF Appending, GiveUp
  <2> QED
    BY <2>2, <2>3, <2>4 DEF Appending
<1>28. CASE \/ \E p \in Plans : Preflight(p) \/ Prepare(p) \/ Refuse(p)
            \/ Stop \/ StopSync \/ StopFails \/ (\E j \in Losable : Lose(j))
            \/ SourceChanges \/ UNCHANGED vars
  BY <1>1, <1>28, Bystanders
<1> QED
  BY <1>8, <1>9, <1>10, <1>11, <1>12, <1>13, <1>14, <1>15, <1>17, <1>18, <1>19, <1>20, <1>21,
     <1>22, <1>23, <1>24, <1>25, <1>26, <1>27, <1>28
     DEF Next, Start, Seed, Work, Faults

LEMMA ShapesInit == Init => Shapes
<1> SUFFICES ASSUME Init PROVE Shapes
  OBVIOUS
<1>1. Journalled
  BY DEF Init, Journalled, Pointed, Contents, Fresh, Records, Statuses, NoHistory, Seals, Intents
<1>2. Filed
  BY DEF Init, Filed
<1>3. Controlled
  BY DEF Init, Controlled, NoSlot
<1>4. run = Resting /\ run.pc = "up" /\ ~slot.running
  BY DEF Init, Resting, Down, NoSlot
<1>5. Registers /\ Headroom /\ SlotIsHeldByRun
  BY <1>4 DEF Registers, Scanning, Dayful, Headroom, SlotIsHeldByRun
<1> QED
  BY <1>1, <1>2, <1>3, <1>4, <1>5, AtRest DEF Shapes

LEMMA ShapesHold == Spec => []Shapes
<1>1. Shapes /\ [Next]_vars => Shapes'
  BY JournalledStep, FiledStep, ControlledStep, WorkerStep DEF Shapes
<1> QED
  BY <1>1, ShapesInit, PTL DEF Spec

-----------------------------------------------------------------------------
(* The budget. *)

Attempted(journal, d) == journal.att[d].attempts

\* Every journal and every request in the order they may be ahead of each
\* other: what was asked is on the disk, what is on the disk is in the file.
Ordered ==
  \A d \in Days : asked[d] <= Attempted(disk, d) /\ Attempted(disk, d) <= Attempted(file, d)

\* A request about to be sent has its reservation, in the file while the
\* record is being synced and on the disk after.
Paid ==
  /\ run.pc = "ask" => asked[run.day] < Attempted(disk, run.day)
  /\ run.pc = "attemptsync" /\ run.next = "ask" => asked[run.day] < Attempted(file, run.day)

\* A budget that may still be created has nothing in it.
Unborn ==
  {Attempts, Active} \subseteq gone
    => \A d \in Days : Attempted(file, d) = 0 /\ Attempted(disk, d) = 0

\* Past the opening of the budget one of its two journals has a file.
Born ==
  run.pc \in Working \cup {"activate", "point", "pointsync", "seeded", "drive"}
    => ~({Attempts, Active} \subseteq gone)

Charged == Ordered /\ Paid /\ Unborn /\ Born

\* What a step may do to the journals of attempts and to the requests.
LEMMA BudgetMoves ==
  ASSUME Shapes, Charged, [Next]_vars
  PROVE  Charged' /\ [Budget!Next]_<<[d \in Days |-> Attempted(disk, d)], asked>>
<1> DEFINE Step == Charged' /\ [Budget!Next]_<<[d \in Days |-> Attempted(disk, d)], asked>>
           reserved == [d \in Days |-> Attempted(disk, d)]
<1>t. \A d \in Days : /\ asked[d] \in Nat
                      /\ Attempted(disk, d) \in 0..Limit /\ Attempted(file, d) \in 0..Limit
  BY DEF Shapes, Controlled, Journalled, Contents, Records, Attempted
<1>r. (\A d \in Days : Attempted(disk', d) \in 0..Limit /\ Attempted(disk, d) <= Attempted(disk', d))
        /\ UNCHANGED asked
        => [Budget!Next]_<<reserved, asked>>
  <2> SUFFICES ASSUME \A d \in Days : Attempted(disk', d) \in 0..Limit,
                      \A d \in Days : Attempted(disk, d) <= Attempted(disk', d),
                      UNCHANGED asked
               PROVE  Budget!Reserve
    BY DEF Budget!Next
  <2> QED
    BY DEF Budget!Reserve, Attempted
\* A step that leaves the attempts alone and does not make the budget unborn.
<1>1. ASSUME file'.att = file.att, disk'.att = disk.att, UNCHANGED asked,
             {Attempts, Active} \subseteq gone' => {Attempts, Active} \subseteq gone,
             run'.pc \in Working \cup {"activate", "point", "pointsync", "seeded", "drive"}
               => ~({Attempts, Active} \subseteq gone),
             Paid'
      PROVE  Step
  BY <1>1, <1>r, <1>t DEF Charged, Ordered, Unborn, Born, Attempted
\* A step of the worker to a place that sends nothing.
<1>2. ASSUME file'.att = file.att, disk'.att = disk.att, UNCHANGED asked, gone' \subseteq gone,
             run'.pc \notin {"ask", "attemptsync"},
             run'.pc \in Working \cup {"activate", "point", "pointsync", "seeded", "drive"}
               => run.pc \in Working \cup {"activate", "point", "pointsync", "seeded", "drive"}
      PROVE  Step
  BY <1>1, <1>2 DEF Charged, Paid, Born
<1> USE DEF Working
<1>s. file \in Contents /\ disk \in Contents /\ run \in Runs
  BY DEF Shapes, Journalled
<1>3. CASE \/ \E p \in Plans : Preflight(p) \/ Prepare(p) \/ Refuse(p)
           \/ Stop \/ StopSync \/ StopFails \/ (\E j \in Losable : Lose(j))
           \/ SourceChanges \/ UNCHANGED vars
  <2>1. UNCHANGED run /\ file'.att = file.att
    BY <1>3, Bystanders
  <2>2. disk'.att = disk.att /\ UNCHANGED asked
    BY <1>3, <1>s DEF Contents, Preflight, Prepare, Refuse, Stop, StopWrite, StopAgain, StopRefused,
                     StopSync, StopFails, Lose, Without, SourceChanges, vars, journals
  <2>3. {Attempts, Active} \subseteq gone' => {Attempts, Active} \subseteq gone
    BY <1>3 DEF Preflight, Prepare, Refuse, Stop, StopWrite, StopAgain, StopRefused,
                StopSync, StopFails, Lose, SourceChanges, vars, journals
  <2> QED
    BY <1>1, <2>1, <2>2, <2>3 DEF Charged, Paid, Born, Attempted
<1>4. ASSUME NEW p \in Plans, ClearStop(p) PROVE Step
  BY <1>2, <1>4, <1>s DEF ClearStop, Resting, Down, Contents
<1>5. ASSUME Claim \/ SealSync \/ WritePointer \/ PointerSync \/ Seeded PROVE Step
  <2>1. file'.att = file.att /\ disk'.att = disk.att /\ UNCHANGED <<asked, gone>>
    BY <1>5, <1>s DEF Claim, SealSync, WritePointer, PointerSync, Seeded, Contents, journals
  <2>2. /\ run'.pc \notin {"ask", "attemptsync"}
        /\ run'.pc \in Working \cup {"activate", "point", "pointsync", "seeded", "drive"}
             => run.pc \in Working \cup {"activate", "point", "pointsync", "seeded", "drive"}
    BY <1>5, <1>s DEF Claim, SealSync, WritePointer, PointerSync, Seeded, Goto, Runs
  <2> QED
    BY <1>2, <2>1, <2>2
<1>6. ASSUME Boot PROVE Step
  <2>1. file' = file /\ disk'.att = disk.att /\ UNCHANGED <<asked, gone>>
    <3> DEFINE p == file.act.top
    <3>1. [disk EXCEPT !.stop[p] = file.stop[p], !.seal[p] = file.seal[p]].att = disk.att
      BY <1>s DEF Contents
    <3>2. ASSUME NEW x
          PROVE  [disk EXCEPT !.stop[p] = file.stop[p],
                              !.seal[p] = IF x THEN file.seal[p] ELSE @].att = disk.att
      BY <1>s DEF Contents
    <3> QED
      BY <1>6, <3>1, <3>2 DEF Boot
  <2>2. run'.pc = "seed" \/ run'.pc = "up"
    <3>1. [Down EXCEPT !.pc = "seed", !.plan = file.act.top].pc = "seed" /\ Resting.pc = "up"
      BY DEF Down, Resting
    <3> QED
      BY <1>6, <3>1 DEF Boot
  <2> QED
    BY <1>2, <2>1, <2>2
<1>7. ASSUME SeedPlan \/ OpenActive \/ AbortWrite \/ AbortSync PROVE Step
  <2>1. file'.att = file.att /\ disk'.att = disk.att /\ UNCHANGED asked /\ gone' \subseteq gone
    BY <1>7, <1>s DEF SeedPlan, OpenActive, AbortWrite, AbortSync, Contents
  <2>2. \/ Goto("sealsync") \/ Goto("abortsync") \/ Leave \/ SeedRefused
        \/ Goto("point") /\ run.pc = "activate"
    BY <1>7 DEF SeedPlan, OpenActive, AbortWrite, AbortSync
  <2>3. {"sealsync", "abortsync", "point"} \subseteq Places
    BY DEF Places, Seeding
  <2> QED
    BY <1>2, <1>s, <2>1, <2>2, <2>3, GotoMoves, LeaveMoves, RefusalMoves
<1>8. ASSUME OpenBudget PROVE Step
  <2>0. "activate" \in Places
    BY DEF Places, Seeding
  <2>1. CASE /\ {Active, Attempts} \subseteq gone /\ Goto("activate") /\ gone' = gone \ {Attempts}
             /\ file' = [file EXCEPT !.att = [d \in Days |-> Fresh]]
             /\ disk' = [disk EXCEPT !.att = [d \in Days |-> Fresh]]
    <3>1. \A d \in Days : Attempted(file', d) = 0 /\ Attempted(disk', d) = 0
      BY <1>s, <2>1 DEF Attempted, Fresh, Contents
    <3>2. \A d \in Days : Attempted(file, d) = 0 /\ Attempted(disk, d) = 0
      BY <2>1 DEF Charged, Unborn
    <3>3. run'.pc = "activate" /\ UNCHANGED asked
      BY <1>8, <1>s, <2>0, <2>1, GotoMoves DEF OpenBudget
    <3>4. Charged'
      BY <2>1, <3>1, <3>2, <3>3, <1>t DEF Charged, Ordered, Paid, Unborn, Born, Attempted
    <3> QED
      BY <1>r, <1>t, <3>1, <3>2, <3>3, <3>4
  <2>2. CASE /\ ~({Active, Attempts} \subseteq gone) /\ Goto("activate") /\ UNCHANGED <<file, gone>>
             /\ disk' = [disk EXCEPT !.att = file.att]
    <3>1. \A d \in Days : Attempted(disk', d) = Attempted(file, d)
      BY <1>s, <2>2 DEF Attempted, Contents
    <3>3. run'.pc = "activate" /\ UNCHANGED asked
      BY <1>8, <1>s, <2>0, <2>2, GotoMoves DEF OpenBudget
    <3>4. Charged'
      BY <2>2, <3>1, <3>3, <1>t DEF Charged, Ordered, Paid, Unborn, Born, Attempted
    <3> QED
      BY <1>r, <1>t, <2>2, <3>1, <3>3, <3>4 DEF Charged, Ordered
  <2>3. CASE SeedRefused /\ UNCHANGED <<file, disk, gone>>
    BY <1>2, <1>8, <1>s, <2>3, RefusalMoves DEF OpenBudget
  <2> QED
    BY <1>8, <2>1, <2>2, <2>3 DEF OpenBudget
\* The disk catches up with the file.
<1>9. ASSUME UNCHANGED <<file, gone, asked>>, disk' = [disk EXCEPT !.att = file.att],
             ~({Attempts, Active} \subseteq gone),
             run'.pc # "attemptsync",
             run'.pc = "ask" => run'.day = run.day /\ run.pc = "attemptsync" /\ run.next = "ask"
      PROVE  Step
  <2>1. \A d \in Days : Attempted(disk', d) = Attempted(file, d)
    BY <1>s, <1>9 DEF Attempted, Contents
  <2>2. run.pc = "attemptsync" => run.day \in Days
    BY DEF Shapes, Registers, Dayful
  <2>3. Paid'
    BY <1>9, <2>1, <2>2 DEF Charged, Paid, Attempted
  <2>4. Charged'
    BY <1>9, <2>1, <2>3, <1>t DEF Charged, Ordered, Unborn, Born, Attempted
  <2> QED
    BY <1>r, <1>t, <1>9, <2>1, <2>4 DEF Charged, Ordered
<1>10. ASSUME Drive PROVE Step
  <2>1. CASE Leave /\ UNCHANGED disk
    BY <1>2, <1>10, <1>s, <2>1, LeaveMoves DEF Drive
  <2>2. CASE /\ disk' = [disk EXCEPT !.att = file.att]
             /\ run'.pc = "reconcile"
    BY <1>9, <1>10, <2>2 DEF Drive, Charged, Born
  <2> QED
    BY <1>10, <1>s, <2>1, <2>2 DEF Drive, Runs
<1>11. ASSUME AttemptSync PROVE Step
  <2>1. CASE EndWith(FALSE)
    <3>1. run'.pc = "close"
      BY <1>s, <2>1, EndMoves
    <3>2. UNCHANGED <<file, gone, asked>> /\ (UNCHANGED disk \/ disk' = [disk EXCEPT !.att = file.att])
      BY <1>11 DEF AttemptSync
    <3>3. run.pc = "attemptsync" /\ ~({Attempts, Active} \subseteq gone)
      BY <1>11 DEF AttemptSync, Charged, Born
    <3> QED
      BY <1>2, <1>9, <3>1, <3>2, <3>3
  <2>2. CASE /\ run' = [run EXCEPT !.pc = run.next, !.next = "up"]
             /\ disk' = [disk EXCEPT !.att = file.att]
    <3>1. run'.pc = run.next /\ run'.day = run.day
      BY <1>s, <2>2 DEF Runs
    <3>2. run.pc = "attemptsync" /\ ~({Attempts, Active} \subseteq gone)
            /\ run.next \in {"reconcile", "retry", "loop", "ask", "close"}
      BY <1>11 DEF AttemptSync, Charged, Born, Shapes, Registers
    <3> QED
      BY <1>9, <1>11, <2>2, <3>1, <3>2 DEF AttemptSync
  <2> QED
    BY <1>11, <2>1, <2>2 DEF AttemptSync, GiveUp
\* A record appended: charged if it is on the way to the vendor.
<1>12. ASSUME NEW d \in Days, NEW rec \in Records,
              NEW next \in {"reconcile", "retry", "loop", "ask", "close"},
              AppendAttempt(d, rec, next),
              IF next = "ask" THEN rec.attempts = Attempted(file, d) + 1
              ELSE rec.attempts = Attempted(file, d),
              run.pc \in Working,
              UNCHANGED asked
       PROVE  Step
  <2>1. next \in Places
    BY DEF Places
  <2>2. run'.pc = "attemptsync" /\ run'.day = d /\ run'.next = next
    BY <1>12, <1>s, <2>1, AppendMoves
  <2>3. file'.att = [file.att EXCEPT ![d] = rec] /\ UNCHANGED <<disk, gone>>
    BY <1>12, <1>s, AppendWrites
  <2>4. file.att \in [Days -> Records]
    BY <1>s DEF Contents
  <2>5. /\ Attempted(file', d) = rec.attempts
        /\ \A e \in Days \ {d} : Attempted(file', e) = Attempted(file, e)
    BY <2>3, <2>4 DEF Attempted
  <2>6. \A e \in Days : Attempted(file, e) <= Attempted(file', e)
    BY <1>12, <1>t, <2>5
  <2>7. rec.attempts \in Nat
    BY <1>12 DEF Records
  <2>8. Ordered'
    BY <1>12, <1>t, <2>3, <2>5, <2>6, <2>7 DEF Charged, Ordered, Attempted
  <2>9. Paid'
    BY <1>12, <1>t, <2>2, <2>5 DEF Charged, Ordered, Paid, Attempted
  <2>10. ~({Attempts, Active} \subseteq gone)
    BY <1>12 DEF Charged, Born
  <2>11. Charged'
    BY <2>2, <2>3, <2>8, <2>9, <2>10 DEF Charged, Unborn, Born
  <2> QED
    BY <1>12, <1>r, <1>t, <2>3, <2>11
<1>13. ASSUME NEW d \in Days, NEW status \in Statuses
       PROVE  /\ [file.att[d] EXCEPT !.status = status] \in Records
              /\ [file.att[d] EXCEPT !.status = status].attempts = Attempted(file, d)
  <2>1. file.att[d] \in Records
    BY <1>s DEF Contents
  <2> QED
    BY <1>13, <1>s, <2>1, Rewritten DEF Attempted, Records
<1>14. ASSUME EndWith(FALSE) \/ EndWith(TRUE), UNCHANGED <<file, disk, gone, asked>>,
              run.pc \in Working
       PROVE  Step
  BY <1>2, <1>14, <1>s, EndMoves
<1>15. ASSUME Reconcile PROVE Step
  <2>1. ASSUME NEW d \in run.todo, NEW status \in {"Blocked", "Unverified", Settled(d)},
               AppendAttempt(d, [file.att[d] EXCEPT !.status = status], "reconcile")
        PROVE  Step
    <3>1. d \in Days /\ status \in Statuses
      BY <1>s DEF Runs, Settled, Statuses
    <3> QED
      BY <1>12, <1>13, <1>15, <2>1, <3>1 DEF Reconcile
  <2> QED
    BY <1>14, <1>15, <2>1 DEF Reconcile, GiveUp, journals
<1>16. ASSUME Retry PROVE Step
  <2>1. ASSUME NEW d \in run.days,
               AppendAttempt(d, [file.att[d] EXCEPT !.status = "Exhausted"], "retry")
        PROVE  Step
    <3>1. d \in Days /\ "Exhausted" \in Statuses
      BY <1>s DEF Runs, Statuses
    <3> QED
      BY <1>12, <1>13, <1>16, <2>1, <3>1 DEF Retry
  <2>2. CASE UNCHANGED journals /\ run'.pc \in {"retry", "loop"}
    BY <1>2, <1>16, <2>2 DEF Retry, journals
  <2> QED
    BY <1>16, <1>s, <2>1, <2>2 DEF Retry, Runs
<1>17. ASSUME Reserve PROVE Step
  <2> DEFINE rec == [status |-> "InFlight", attempts |-> file.att[run.day].attempts + 1]
  <2>1. CASE AppendAttempt(run.day, rec, "ask")
    <3>1. run.day \in Days /\ file.att[run.day].attempts < Limit
      BY <1>17 DEF Reserve, Shapes, Registers, Dayful, Headroom
    <3>2. rec \in Records
      BY <1>t, <3>1 DEF Records, Statuses, Attempted
    <3> QED
      BY <1>12, <1>17, <2>1, <3>1, <3>2 DEF Reserve, Attempted
  <2> QED
    BY <1>14, <1>17, <2>1 DEF Reserve, Stopped, GiveUp, journals
<1>18. ASSUME Settle PROVE Step
  <2>1. ASSUME NEW status \in {Settled(run.day), "Verified", "Unverified"},
               AppendAttempt(run.day, [file.att[run.day] EXCEPT !.status = status],
                             IF status = "Queued" THEN "loop" ELSE "retry")
        PROVE  Step
    <3>1. run.day \in Days /\ status \in Statuses
      BY <1>18 DEF Settle, Shapes, Registers, Dayful, Settled, Statuses
    <3>2. (IF status = "Queued" THEN "loop" ELSE "retry") \in {"retry", "loop"}
      OBVIOUS
    <3>3. CASE status = "Queued"
      BY <1>12, <1>13, <1>18, <2>1, <3>1, <3>3 DEF Settle
    <3>4. CASE status # "Queued"
      BY <1>12, <1>13, <1>18, <2>1, <3>1, <3>4 DEF Settle
    <3> QED
      BY <3>3, <3>4
  <2> QED
    BY <1>14, <1>18, <2>1 DEF Settle, GiveUp, journals
<1>19. ASSUME Ask PROVE Step
  <2>1. run.day \in Days /\ asked[run.day] < Attempted(disk, run.day) /\ run.pc = "ask"
    BY <1>19 DEF Ask, Shapes, Registers, Dayful, Charged, Paid
  <2>2. CASE UNCHANGED asked
    <3>1. CASE AppendAttempt(run.day, [file.att[run.day] EXCEPT !.status = "Blocked"], "close")
      <4>1. "Blocked" \in Statuses
        BY DEF Statuses
      <4> QED
        BY <1>12, <1>13, <2>1, <2>2, <3>1, <4>1
    <3>2. CASE EndWith(FALSE) /\ UNCHANGED journals
      BY <1>14, <2>1, <2>2, <3>2 DEF journals
    <3>3. CASE Goto("settle") /\ UNCHANGED journals
      BY <1>2, <1>s, <2>1, <2>2, <3>3, GotoMoves DEF journals, Places
    <3> QED
      BY <1>19, <3>1, <3>2, <3>3 DEF Ask, GiveUp
  <2>3. CASE asked' = [asked EXCEPT ![run.day] = @ + 1]
    <3>1. UNCHANGED <<disk, gone>>
      BY <1>19 DEF Ask, AppendAttempt, journals
    <3>2. Budget!Ask(run.day)
      BY <2>1, <2>3, <3>1, <1>s DEF Budget!Ask, Attempted, Contents
    <3>3. \A d \in Days : Attempted(file', d) = Attempted(file, d)
      <4>1. CASE UNCHANGED journals
        BY <4>1 DEF journals, Attempted
      <4>2. CASE AppendAttempt(run.day, [file.att[run.day] EXCEPT !.status = "Blocked"], "close")
        <5>1. "Blocked" \in Statuses
          BY DEF Statuses
        <5>2. file'.att = [file.att EXCEPT
                             ![run.day] = [file.att[run.day] EXCEPT !.status = "Blocked"]]
          BY <1>13, <1>s, <2>1, <4>2, <5>1, AppendWrites
        <5>3. file.att \in [Days -> Records]
          BY <1>s DEF Contents
        <5> QED
          BY <1>13, <2>1, <5>1, <5>2, <5>3 DEF Attempted
      <4> QED
        BY <1>19, <4>1, <4>2 DEF Ask
    <3>4. run'.pc # "ask" /\ (run'.pc = "attemptsync" => run'.next # "ask")
      <4>1. CASE EndWith(FALSE)
        BY <1>s, <4>1, EndMoves
      <4>2. CASE Goto("settle")
        BY <1>s, <4>2, GotoMoves DEF Places
      <4>3. CASE AppendAttempt(run.day, [file.att[run.day] EXCEPT !.status = "Blocked"], "close")
        <5>1. "Blocked" \in Statuses /\ "close" \in Places
          BY DEF Statuses, Places
        <5>2. [file.att[run.day] EXCEPT !.status = "Blocked"] \in Records
          BY <1>13, <2>1, <5>1
        <5> QED
          BY <1>s, <2>1, <4>3, <5>1, <5>2, AppendMoves
      <4> QED
        BY <1>19, <4>1, <4>2, <4>3 DEF Ask, GiveUp
    <3>5. Ordered'
      BY <1>t, <2>1, <2>3, <3>1, <3>3 DEF Charged, Ordered, Attempted, Shapes, Controlled
    <3>6. ~({Attempts, Active} \subseteq gone)
      BY <2>1 DEF Charged, Born
    <3>7. Charged'
      BY <3>1, <3>4, <3>5, <3>6 DEF Charged, Paid, Unborn, Born
    <3> QED
      BY <2>1, <3>2, <3>7 DEF Budget!Next
  <2> QED
    BY <1>19, <2>2, <2>3 DEF Ask
<1>20. ASSUME Reconciled \/ ScanWindow \/ ScanDone \/ RetryDone PROVE Step
  <2>1. UNCHANGED <<file, disk, gone, asked>> /\ run.pc \in Working
    BY <1>20 DEF Reconciled, ScanWindow, ScanDone, RetryDone, journals
  <2>2. \/ EndWith(TRUE) \/ EndWith(FALSE) \/ run'.pc = "scan" \/ run'.pc = "retry"
    BY <1>20, <1>s DEF Reconciled, ScanWindow, ScanDone, RetryDone, GiveUp, Goto, NextWindow, Runs
  <2> QED
    BY <1>2, <1>14, <2>1, <2>2
<1>21. ASSUME Close \/ CloseSync \/ Idle \/ Finish \/ Panic PROVE Step
  <2>1. file'.att = file.att /\ disk'.att = disk.att /\ UNCHANGED <<asked, gone>>
    BY <1>21, <1>s DEF Close, CloseSync, Idle, Finish, Panic, Contents, journals
  <2>2. run'.pc \in {"ending", "ended", "up"} \/ (run'.pc = "closesync" /\ run.pc = "close")
    BY <1>21, <1>s, LeaveMoves DEF Close, CloseSync, Idle, Finish, Panic, Goto, Runs, Resting, Down
  <2> QED
    BY <1>2, <2>1, <2>2
<1>22. ASSUME Die PROVE Step
  BY <1>2, <1>22 DEF Die, Dead, Down, journals
\* A fault leaves the file or the disk's attempts in the file.
<1>23. ASSUME file'.att \in {file.att, disk.att}, disk'.att \in {disk.att, file'.att},
              UNCHANGED <<gone, asked>>, run'.pc \notin {"ask", "attemptsync"},
              run'.pc \in Working \cup {"activate", "point", "pointsync", "seeded", "drive"}
                => run.pc \in Working \cup {"activate", "point", "pointsync", "seeded", "drive"}
       PROVE  Step
  <2>1. Charged'
    BY <1>23, <1>t DEF Charged, Ordered, Paid, Unborn, Born, Attempted
  <2> QED
    BY <1>23, <1>r, <1>t, <2>1 DEF Charged, Ordered, Attempted
<1>24. ASSUME PowerLoss PROVE Step
  <2>1. file'.att \in {file.att, disk.att} /\ disk' = file' /\ UNCHANGED <<gone, asked>>
    BY <1>24 DEF PowerLoss
  <2>2. run'.pc = "off"
    BY <1>24 DEF PowerLoss, Dead, Down
  <2> QED
    BY <1>23, <2>1, <2>2
<1>25. ASSUME AppendFails PROVE Step
  <2>1. PICK j \in Journals : Appending(j) /\ Damage(j)
    BY <1>25 DEF AppendFails
  <2>2. file'.att \in {file.att, disk.att} /\ UNCHANGED <<disk, gone, asked>>
    BY <1>25, <2>1 DEF AppendFails, Damage
  <2>3. \/ run' = Resting \/ SeedRefused \/ Leave
        \/ EndWith(FALSE) /\ run.pc = "attemptsync"
    BY <2>1 DEF Appending, GiveUp
  <2>4. \/ run'.pc \in {"up", "abort", "ending"}
        \/ run'.pc = "close" /\ run.pc = "attemptsync"
    BY <1>s, <2>3, RefusalMoves, LeaveMoves, EndMoves DEF Resting, Down
  <2> QED
    BY <1>23, <2>2, <2>4
<1> QED
  BY <1>3, <1>4, <1>5, <1>6, <1>7, <1>8, <1>10, <1>11, <1>15, <1>16, <1>17, <1>18, <1>19, <1>20,
     <1>21, <1>22, <1>24, <1>25
     DEF Next, Start, Seed, Work, Faults

LEMMA ChargedInit == Init => Charged /\ Budget!Init
<1> SUFFICES ASSUME Init PROVE Charged /\ Budget!Init
  OBVIOUS
<1>1. \A d \in Days : Attempted(file, d) = 0 /\ Attempted(disk, d) = 0 /\ asked[d] = 0
  BY DEF Init, Attempted, Fresh
<1>2. [d \in Days |-> disk.att[d].attempts] = [d \in Days |-> 0]
  BY <1>1 DEF Attempted
<1>3. run.pc = "up"
  BY DEF Init, Resting, Down
<1> QED
  BY <1>1, <1>2, <1>3, SMTT(60) DEF Init, Charged, Ordered, Paid, Unborn, Born, Working, Budget!Init

(* Over any number of crashes, power losses, torn journals, restarts and   *)
(* overlapping plans, a request is sent only out of a reservation the disk *)
(* already holds and no reservation is given back: append_attempt before   *)
(* recovery_spot implements the abstract budget.                           *)
THEOREM RecoveryKeepsBudget == Spec => KeepsBudget
<1>1. Shapes /\ Charged /\ [Next]_vars
        => Charged' /\ [Budget!Next]_<<[d \in Days |-> disk.att[d].attempts], asked>>
  BY BudgetMoves DEF Attempted
<1> QED
  BY <1>1, ShapesHold, ChargedInit, PTL DEF Spec, KeepsBudget, Budget!Spec

LEMMA ChargedHolds == Spec => []Charged
<1>1. Shapes /\ Charged /\ [Next]_vars => Charged'
  BY BudgetMoves
<1> QED
  BY <1>1, ShapesHold, ChargedInit, PTL DEF Spec

(* The type invariant, and with it the bound on the requests of each day.  *)
THEOREM RecoveryTypes == Spec => []TypeOK
<1>1. ASSUME Shapes, Charged PROVE TypeOK
  <2>1. ASSUME NEW d \in Days PROVE asked[d] \in 0..Limit
    <3>1. asked[d] \in Nat /\ Attempted(disk, d) \in 0..Limit
      BY <1>1 DEF Shapes, Controlled, Journalled, Contents, Records, Attempted
    <3>2. asked[d] <= Attempted(disk, d)
      BY <1>1 DEF Charged, Ordered
    <3> QED
      BY <3>1, <3>2
  <2>2. asked \in [Days -> 0..Limit]
    BY <1>1, <2>1 DEF Shapes, Controlled
  <2> QED
    BY <1>1, <2>2 DEF TypeOK, Shapes, Journalled, Filed, Controlled
<1> QED
  BY <1>1, ShapesHold, ChargedHolds, PTL

-----------------------------------------------------------------------------
(* Stops. *)

Recorded(p) ==
  file.stop[p] = "stop" /\ disk.stop[p] = "stop" /\ StopOf(p) \notin gone

\* A STOP file that holds a record is there: nothing removes one.
Written(p) == file.stop[p] # "none" \/ disk.stop[p] # "none" => StopOf(p) \notin gone

Kept(p) == (Recorded(p) => Recorded(p)') /\ (Written(p) => Written(p)')

\* Answered STOPs are on the disk, the one being made durable is in the file,
\* and the owner routed to is the plan that runs.
Routed ==
  /\ \A p \in Plans : Written(p)
  /\ \A p \in answered \ unrouted : Recorded(p)
  /\ stopper # NoPlan =>
       /\ file.stop[stopper] = "stop" /\ StopOf(stopper) \notin gone
       /\ run.pc \notin {"clear", "abortsync"}
  /\ active # NoPlan => run.plan = active /\ run.pc \notin {"off", "up", "clear", "ended"}
  /\ run.pc = "clear" => run.plan \notin answered

LEMMA Names ==
  /\ \A p, q : PlanOf(p) # StopOf(q) /\ PlanOf(p) # Attempts /\ PlanOf(p) # Active
  /\ \A p, q : StopOf(p) = StopOf(q) => p = q
  /\ \A p : StopOf(p) # Attempts /\ StopOf(p) # Active
  /\ Attempts # Active
  BY DEF PlanOf, StopOf, Attempts, Active

\* A record of STOP that is synced is not what an append or a loss damages.
LEMMA RecordedSurvives ==
  ASSUME Shapes, NEW p \in Plans, NEW j \in Journals,
         Damage(j), UNCHANGED <<disk, gone>>
  PROVE  Kept(p)
<1>1. CASE UNCHANGED <<file, torn>>
  BY <1>1 DEF Kept, Recorded, Written
<1>2. CASE ~UNCHANGED <<file, torn>>
  <2>1. file'.stop[p] = IF j = StopOf(p) THEN disk.stop[p] ELSE file.stop[p]
    BY <1>2 DEF Damage
  <2> QED
    BY <2>1 DEF Kept, Recorded, Written
<1> QED
  BY <1>1, <1>2

LEMMA RoutedStep ==
  ASSUME Shapes, Routed, [Next]_vars
  PROVE  Routed'
<1>s. file \in Contents /\ disk \in Contents /\ run \in Runs
  BY DEF Shapes, Journalled
<1>a. answered \subseteq Plans /\ active \in Plans \cup {NoPlan}
        /\ stopper \in Plans \cup {NoPlan}
  BY DEF Shapes, Controlled
<1>n. NoPlan \notin Plans
  BY RecoveryAssumption
\* A step that keeps the STOP files, their owner and what was answered.
<1>1. ASSUME file'.stop = file.stop, disk'.stop = disk.stop, gone' \subseteq gone,
             UNCHANGED <<answered, unrouted, stopper>>,
             active' = active \/ active' = NoPlan,
             active' # NoPlan =>
               run'.plan = run.plan /\ run'.pc \notin {"off", "up", "clear", "ended"},
             stopper # NoPlan => run'.pc \notin {"clear", "abortsync"},
             run'.pc = "clear" => run.pc = "clear" /\ run'.plan = run.plan
      PROVE  Routed'
  BY <1>1 DEF Routed, Recorded, Written
<1>2. ASSUME NEW p \in Plans, Preflight(p) \/ Prepare(p) \/ Refuse(p) PROVE Routed'
  <2>1. file'.stop = file.stop /\ disk'.stop = disk.stop /\ gone' \subseteq gone
    BY <1>2, <1>s DEF Preflight, Prepare, Refuse, Contents, journals
  <2>2. UNCHANGED <<answered, unrouted, stopper, active, run>>
    BY <1>2 DEF Preflight, Prepare, Refuse, control, history
  <2> QED
    BY <1>1, <2>1, <2>2 DEF Routed, Kept
<1>3. ASSUME NEW p \in Plans, ClearStop(p) PROVE Routed'
  <2>1. /\ run'.pc = "clear" /\ run'.plan = p
    BY <1>3 DEF ClearStop, Resting, Down
  <2>2. active = NoPlan /\ stopper = NoPlan
    BY <1>3 DEF ClearStop, Routed, Kept, Unlocked
  <2>3. \A q \in Plans \ {p} : Kept(q)
    BY <1>3, <1>s DEF ClearStop, Kept, Recorded, Written, Contents
  <2>4. answered' = answered \ {p} /\ unrouted' = unrouted \ {p} /\ UNCHANGED <<active, stopper>>
    BY <1>3 DEF ClearStop
  <2>5. Written(p)'
    BY <1>3 DEF ClearStop, Written
  <2> QED
    BY <1>a, <2>1, <2>2, <2>3, <2>4, <2>5 DEF Routed, Kept
<1>4. ASSUME Claim PROVE Routed'
  <2>1. run'.pc = "seed" /\ run'.plan = run.plan
    BY <1>4, <1>s DEF Claim, Goto, Runs
  <2>2. \A q \in Plans : Kept(q)
    BY <1>4, <1>s DEF Claim, Kept, Recorded, Written, Contents
  <2> QED
    BY <1>4, <1>a, <2>1, <2>2 DEF Claim, Routed, Kept
<1>5. ASSUME Boot PROVE Routed'
  <2> DEFINE p == file.act.top
             one == [disk EXCEPT !.stop[p] = file.stop[p]]
  <2>0. file' = file /\ UNCHANGED <<gone, stopper, answered, unrouted>>
    BY <1>5 DEF Boot
  <2>1. \A q \in Plans : one.stop[q] \in {disk.stop[q], file.stop[q]}
    BY <1>s DEF Contents
  <2>2. disk'.stop = disk.stop \/ disk'.stop = one.stop
    <3>1. [disk EXCEPT !.stop[p] = file.stop[p], !.seal[p] = file.seal[p]].stop = one.stop
      BY <1>s DEF Contents
    <3>2. ASSUME NEW x
          PROVE  [disk EXCEPT !.stop[p] = file.stop[p],
                              !.seal[p] = IF x THEN file.seal[p] ELSE @].stop = one.stop
      BY <1>s DEF Contents
    <3> QED
      BY <1>5, <3>1, <3>2 DEF Boot
  <2>3. \A q \in Plans : Kept(q)
    BY <2>0, <2>1, <2>2 DEF Kept, Recorded, Written
  <2>4. [Down EXCEPT !.pc = "seed", !.plan = p].pc = "seed"
          /\ [Down EXCEPT !.pc = "seed", !.plan = p].plan = p
          /\ Resting.pc = "up"
    BY DEF Down, Resting
  <2>5. active = NoPlan
    BY <1>5 DEF Boot, Routed, Kept
  <2>6. \/ run'.pc = "up" /\ active' = NoPlan
        \/ run'.pc = "seed" /\ run'.plan = active'
    BY <1>5, <2>4, <2>5 DEF Boot
  <2>7. stopper # NoPlan => run'.pc \notin {"clear", "abortsync"}
    BY <2>6
  <2> QED
    BY <1>a, <2>0, <2>3, <2>6, <2>7 DEF Routed, Kept
\* The worker, where it is neither clearing nor recording a STOP.
<1>6. ASSUME NEW place, run'.pc = place, run'.plan = run.plan,
             place \notin {"off", "up", "clear", "abortsync", "ended"},
             file'.stop = file.stop, disk'.stop = disk.stop, gone' \subseteq gone,
             UNCHANGED <<answered, unrouted, stopper, active>>
      PROVE  Routed'
  BY <1>1, <1>6
<1>7. ASSUME SeedPlan \/ SealSync \/ OpenBudget \/ OpenActive \/ WritePointer \/ PointerSync \/ Seeded
      PROVE  Routed'
  <2>1. file'.stop = file.stop /\ disk'.stop = disk.stop /\ gone' \subseteq gone
    BY <1>7, <1>s DEF SeedPlan, SealSync, OpenBudget, OpenActive, WritePointer, PointerSync, Seeded,
                      Contents, journals
  <2>2. UNCHANGED <<answered, unrouted, stopper, active>>
    BY <1>7 DEF SeedPlan, SealSync, OpenBudget, OpenActive, WritePointer, PointerSync, Seeded,
                control, history
  <2>3. \/ SeedRefused
        \/ \E place \in {"sealsync", "budget", "activate", "point", "pointsync", "seeded",
                         "abort", "drive"} : Goto(place)
    BY <1>7 DEF SeedPlan, SealSync, OpenBudget, OpenActive, WritePointer, PointerSync, Seeded
  <2>4. {"sealsync", "budget", "activate", "point", "pointsync", "seeded", "abort", "drive"}
          \subseteq Places
    BY DEF Places, Seeding
  <2> QED
    BY <1>6, <1>s, <2>1, <2>2, <2>3, <2>4, GotoMoves, RefusalMoves
<1>8. ASSUME AbortWrite PROVE Routed'
  <2>1. CASE Leave /\ UNCHANGED <<file, disk, gone>>
    BY <1>6, <1>8, <1>s, <2>1, LeaveMoves DEF AbortWrite, control, history
  <2>2. CASE /\ disk' = [disk EXCEPT !.stop[run.plan] = file.stop[run.plan]]
             /\ file' = [file EXCEPT !.stop[run.plan] = "stop"]
             /\ gone' = gone \ {StopOf(run.plan)}
             /\ Goto("abortsync")
    <3>1. \A q \in Plans : Kept(q)
      BY <1>s, <2>2 DEF Kept, Recorded, Written, Contents
    <3>2. run'.pc = "abortsync" /\ run'.plan = run.plan
      BY <1>s, <2>2 DEF Goto, Runs
    <3>3. stopper = NoPlan /\ UNCHANGED <<answered, unrouted, stopper, active>>
      BY <1>8 DEF AbortWrite, Unlocked, control, history
    <3> QED
      BY <1>a, <3>1, <3>2, <3>3 DEF Routed, Kept
  <2> QED
    BY <1>8, <2>1, <2>2 DEF AbortWrite
<1>9. ASSUME AbortSync PROVE Routed'
  <2>1. \A q \in Plans : Kept(q)
    BY <1>9, <1>s DEF AbortSync, Kept, Recorded, Written, Contents
  <2>2. run'.pc = "ending" /\ run'.plan = run.plan
    BY <1>9, <1>s, LeaveMoves DEF AbortSync
  <2> QED
    BY <1>9, <1>a, <2>1, <2>2 DEF AbortSync, Routed, Kept, control, history
<1>10. ASSUME \/ Drive \/ AttemptSync \/ Reconcile \/ Reconciled \/ ScanWindow \/ ScanDone \/ Retry
              \/ RetryDone \/ Reserve \/ Ask \/ Settle \/ Close \/ CloseSync \/ Panic
       PROVE  Routed'
  <2> DEFINE Busy == Working \cup {"drive"}
  <2>1. run.pc \in Busy
    BY <1>10 DEF Drive, AttemptSync, Reconcile, Reconciled, ScanWindow, ScanDone, Retry, RetryDone,
                 Reserve, Ask, Settle, Close, CloseSync, Panic, Working
  <2>2. UNCHANGED <<answered, unrouted, stopper, active>> /\ UNCHANGED gone
    BY <1>10 DEF Drive, AttemptSync, Reconcile, Reconciled, ScanWindow, ScanDone, Retry, RetryDone,
                 Reserve, Ask, Settle, Close, CloseSync, Panic, control, history, journals,
                 AppendAttempt, Stopped
  <2>3. file'.stop = file.stop /\ disk'.stop = disk.stop
    <3>1. ASSUME NEW d, NEW rec, NEW next, AppendAttempt(d, rec, next)
          PROVE  file'.stop = file.stop /\ disk'.stop = disk.stop
      BY <3>1, <1>s DEF AppendAttempt, Contents
    <3>2. CASE Drive \/ AttemptSync \/ Close \/ CloseSync \/ Panic
      BY <1>s, <3>2 DEF Drive, AttemptSync, Close, CloseSync, Panic, Contents, journals
    <3>3. CASE Reconciled \/ ScanWindow \/ ScanDone \/ RetryDone
      BY <3>3 DEF Reconciled, ScanWindow, ScanDone, RetryDone, journals
    <3>4. CASE Reconcile \/ Retry \/ Reserve \/ Ask \/ Settle
      BY <3>1, <3>4 DEF Reconcile, Retry, Reserve, Ask, Settle, Stopped, journals
    <3> QED
      BY <1>10, <3>2, <3>3, <3>4
  <2>4. run'.plan = run.plan /\ run'.pc \in Working \cup {"ending"}
    <3>1. ASSUME NEW d, NEW rec, NEW next, AppendAttempt(d, rec, next)
          PROVE  run'.plan = run.plan /\ run'.pc = "attemptsync"
      BY <3>1, <1>s DEF AppendAttempt, Runs
    <3>2. ASSUME NEW ok, EndWith(ok) PROVE run'.plan = run.plan /\ run'.pc = "close"
      BY <3>2 DEF EndWith, Down
    <3>3. ASSUME Leave PROVE run'.plan = run.plan /\ run'.pc = "ending"
      BY <3>3 DEF Leave, Down
    <3>4. ASSUME NEW place, Goto(place) PROVE run'.plan = run.plan /\ run'.pc = place
      BY <3>4, <1>s DEF Goto, Runs
    <3>5. CASE Drive \/ Close \/ CloseSync \/ Panic
      BY <1>s, <3>3, <3>4, <3>5 DEF Drive, Close, CloseSync, Panic, Runs, Working
    <3>6. CASE AttemptSync
      <4>1. run.next \in {"reconcile", "retry", "loop", "ask", "close"}
        BY <3>6 DEF AttemptSync, Shapes, Registers
      <4> QED
        BY <1>s, <3>2, <3>6, <4>1 DEF AttemptSync, GiveUp, Runs, Working
    <3>7. CASE Reconciled \/ ScanWindow \/ ScanDone \/ RetryDone
      BY <1>s, <3>2, <3>4, <3>7 DEF Reconciled, ScanWindow, ScanDone, RetryDone, GiveUp, NextWindow,
                                    Runs, Working
    <3>8. CASE Reconcile \/ Reserve \/ Ask \/ Settle
      BY <3>1, <3>2, <3>4, <3>8 DEF Reconcile, Reserve, Ask, Settle, Stopped, GiveUp, Working
    <3>9. CASE Retry
      BY <1>s, <3>1, <3>9 DEF Retry, Runs, Working
    <3> QED
      BY <1>10, <3>5, <3>6, <3>7, <3>8, <3>9
  <2> QED
    BY <1>6, <2>2, <2>3, <2>4 DEF Working
<1>11. ASSUME Idle PROVE Routed'
  <2>1. run'.pc = "ended" /\ active' = NoPlan
    BY <1>11, <1>s DEF Idle, Goto, Runs
  <2> QED
    BY <1>1, <1>11, <2>1 DEF Idle, journals, history
<1>12. ASSUME Finish PROVE Routed'
  <2>1. run'.pc = "up" /\ active' = NoPlan
    BY <1>12 DEF Finish, Resting, Down, Routed, Kept
  <2> QED
    BY <1>1, <1>12, <2>1 DEF Finish, journals, history
<1>13. ASSUME Die PROVE Routed'
  <2>1. run'.pc = "off" /\ active' = NoPlan /\ stopper' = NoPlan
    BY <1>13 DEF Die, Dead, Down
  <2> QED
    BY <1>13, <2>1 DEF Die, Routed, Recorded, Written, journals, history
<1>14. ASSUME PowerLoss PROVE Routed'
  <2>1. run'.pc = "off" /\ active' = NoPlan /\ stopper' = NoPlan
    BY <1>14 DEF PowerLoss, Dead, Down
  <2>2. /\ disk' = file' /\ UNCHANGED <<gone, answered, unrouted>>
        /\ \A q \in Plans : file'.stop[q] \in {file.stop[q], disk.stop[q]}
    BY <1>14 DEF PowerLoss, history
  <2> QED
    BY <1>a, <2>1, <2>2 DEF Routed, Recorded, Written
<1>15. ASSUME StopWrite PROVE Routed'
  <2>1. active \in Plans /\ run.plan = active /\ stopper' = active
    BY <1>15, <1>a DEF StopWrite, Routed, Kept
  <2>2. \A q \in Plans : Kept(q)
    BY <1>15, <1>s DEF StopWrite, Kept, Recorded, Written, Contents
  <2>3. file'.stop[active] = "stop" /\ StopOf(active) \notin gone'
    BY <1>15, <1>s, <2>1 DEF StopWrite, Contents
  <2>4. run.pc \notin {"clear", "abortsync"} /\ UNCHANGED <<run, active, answered, unrouted>>
    BY <1>15 DEF StopWrite, Stoppable, Routed, Kept, history
  <2> QED
    BY <1>a, <2>1, <2>2, <2>3, <2>4 DEF Routed, Kept
<1>16. ASSUME StopSync PROVE Routed'
  <2>1. \A q \in Plans : Kept(q)
    BY <1>16, <1>s DEF StopSync, Kept, Recorded, Written, Contents
  <2>0. PICK q \in Plans : q = stopper /\ file.stop[q] = "stop" /\ StopOf(q) \notin gone
    BY <1>16, <1>a DEF StopSync, Routed
  <2>2. Recorded(q)'
    BY <1>16, <1>s, <2>0 DEF StopSync, Recorded, Contents
  <2>3. /\ answered' = answered \cup {q} /\ stopper' = NoPlan
        /\ UNCHANGED <<run, active, unrouted>>
        /\ run.pc # "clear"
    BY <1>16, <2>0, <1>n DEF StopSync, Routed
  <2> QED
    BY <1>a, <2>1, <2>2, <2>3 DEF Routed, Kept
<1>17. ASSUME StopAgain PROVE Routed'
  <2>1. \A q \in Plans : Kept(q)
    BY <1>17, <1>s DEF StopAgain, Kept, Recorded, Written, Contents
  <2>2. run.pc # "clear" /\ stopper = NoPlan
    BY <1>17 DEF StopAgain, Stoppable, Unlocked, Shapes, SlotIsHeldByRun
  <2>3. /\ answered' = answered \cup {run.plan} /\ UNCHANGED <<run, active, stopper>>
    BY <1>17 DEF StopAgain
  <2>4. CASE active = NoPlan /\ unrouted' = unrouted \cup {run.plan}
    BY <1>a, <2>1, <2>2, <2>3, <2>4 DEF Routed, Kept
  <2>5. CASE /\ active # NoPlan /\ file.stop[active] = "stop" /\ UNCHANGED unrouted
             /\ disk' = [disk EXCEPT !.stop[active] = "stop"]
    <3>1. run.plan = active /\ active \in Plans
      BY <1>a, <2>5 DEF Routed, Kept
    <3>2. StopOf(active) \notin gone'
      BY <1>17, <2>5, <3>1 DEF StopAgain, Routed, Written
    <3>3. Recorded(active)'
      BY <1>17, <1>s, <2>5, <3>1, <3>2 DEF StopAgain, Kept, Recorded, Written, Contents
    <3> QED
      BY <1>a, <2>1, <2>2, <2>3, <2>5, <3>1, <3>3 DEF Routed, Kept
  <2> QED
    BY <1>17, <2>4, <2>5 DEF StopAgain
<1>18. ASSUME StopRefused \/ SourceChanges \/ UNCHANGED vars PROVE Routed'
  BY <1>1, <1>18 DEF StopRefused, SourceChanges, vars, journals, control, history, Routed, Kept
<1>19. ASSUME StopFails PROVE Routed'
  <2>1. StopOf(stopper) \in Journals /\ stopper' = NoPlan
    BY <1>19, <1>a DEF StopFails, Journals
  <2>2. \A q \in Plans : Kept(q)
    BY <1>19, <2>1, RecordedSurvives DEF StopFails
  <2> QED
    BY <1>19, <1>a, <2>1, <2>2 DEF StopFails, Routed, Kept, history
<1>20. ASSUME AppendFails PROVE Routed'
  <2>1. PICK j \in Journals : Appending(j) /\ Damage(j)
    BY <1>20 DEF AppendFails
  <2>2. UNCHANGED <<disk, gone, active, stopper, answered, unrouted>>
    BY <1>20 DEF AppendFails, control, history
  <2>3. \A q \in Plans : Kept(q)
    BY <2>1, <2>2, RecordedSurvives
  <2>4. \/ run.pc = "clear" /\ run'.pc = "up"
        \/ run'.pc \in {"abort", "ending", "close"} /\ run'.plan = run.plan
    BY <1>s, <2>1, RefusalMoves, LeaveMoves, EndMoves DEF Appending, GiveUp, Resting, Down
  <2>5. CASE stopper = NoPlan
    BY <1>a, <2>2, <2>3, <2>4, <2>5 DEF Routed, Kept
  <2>6. CASE stopper # NoPlan
    <3>1. run.pc \notin {"clear", "abortsync"} /\ stopper \in Plans
      BY <1>a, <2>6 DEF Routed, Kept
    <3>2. j \in {PlanOf(run.plan), Active, Attempts}
      BY <2>1, <3>1 DEF Appending
    <3>3. file'.stop[stopper] = file.stop[stopper]
      BY <1>s, <2>1, <3>1, <3>2, Names DEF Damage, Contents
    <3> QED
      BY <1>a, <2>2, <2>3, <2>4, <2>6, <3>1, <3>3 DEF Routed, Kept
  <2> QED
    BY <2>5, <2>6
<1>21. ASSUME NEW j \in Losable, Lose(j) PROVE Routed'
  <2>1. \A q : j # StopOf(q)
    BY Names DEF Losable
  <2>2. file'.stop = file.stop /\ disk'.stop = disk.stop
    BY <1>21, <1>s DEF Lose, Without, Contents
  <2> QED
    BY <1>21, <2>1, <2>2 DEF Lose, Routed, Recorded, Written, control, history
<1> QED
  BY <1>2, <1>3, <1>4, <1>5, <1>7, <1>8, <1>9, <1>10, <1>11, <1>12, <1>13, <1>14, <1>15, <1>16,
     <1>17, <1>18, <1>19, <1>20, <1>21
     DEF Next, Start, Seed, Work, Stop, Faults

LEMMA RoutedHolds == Spec => []Routed
<1>1. Init => Routed
  <2> SUFFICES ASSUME Init PROVE Routed
    OBVIOUS
  <2>1. \A p \in Plans : Written(p)
    BY DEF Init, Written
  <2>2. run.pc = "up" /\ answered = {} /\ stopper = NoPlan /\ active = NoPlan
    BY DEF Init, Resting, Down
  <2> QED
    BY <2>1, <2>2 DEF Routed
<1> QED
  BY <1>1, RoutedStep, ShapesHold, PTL DEF Spec

\* Only the boot takes a worker that is off to its seed.
LEMMA OffMoves ==
  ASSUME run.pc = "off", [Next]_vars
  PROVE  Boot \/ run' = run \/ run' = Down
<1>1. ASSUME NEW p \in Plans, Preflight(p) \/ Prepare(p) \/ ClearStop(p) \/ Refuse(p)
      PROVE  run' = run
  BY <1>1 DEF Preflight, Prepare, ClearStop, Refuse, Serving, control
<1>2. ~Claim /\ ~Seed
  BY DEF Claim, Seed, SeedPlan, SealSync, OpenBudget, OpenActive, WritePointer, PointerSync, Seeded,
         AbortWrite, AbortSync
<1>3. ~Work
  BY DEF Work, Drive, AttemptSync, Reconcile, Reconciled, ScanWindow, ScanDone, Retry, RetryDone,
         Reserve, Ask, Settle, Close, CloseSync, Idle, Finish
<1>4. ASSUME Stop \/ StopSync PROVE run' = run
  BY <1>4 DEF Stop, StopWrite, StopAgain, StopRefused, StopSync
<1>5. ASSUME Faults PROVE run' = run \/ run' = Down
  <2>1. ~Panic /\ ~AppendFails
    BY DEF Panic, AppendFails, Appending, Working
  <2>2. ASSUME Die \/ PowerLoss PROVE run' = Down
    BY <2>2 DEF Die, PowerLoss, Dead
  <2>3. ASSUME StopFails \/ \E j \in Losable : Lose(j) PROVE run' = run
    BY <2>3 DEF StopFails, Lose
  <2> QED
    BY <1>5, <2>1, <2>2, <2>3 DEF Faults
<1>6. ASSUME SourceChanges \/ UNCHANGED vars PROVE run' = run
  BY <1>6 DEF SourceChanges, vars
<1> QED
  BY <1>1, <1>2, <1>3, <1>4, <1>5, <1>6 DEF Next, Start

(* A restart never resumes a plan whose STOP was recorded and answered:    *)
(* recovery_control's stop syncs its record before pull_run_stop answers,  *)
(* and resume asks is_stopped before it reads the seal.                    *)
THEOREM RecordedStopIsKept == Spec => RecordedStopHolds
<1>1. ASSUME Routed, [Next]_vars, NEW p \in answered \ unrouted PROVE ~Resumed(p)
  <2> SUFFICES ASSUME run.pc = "off", run'.pc = "seed", run'.plan = p PROVE FALSE
    BY DEF Resumed
  <2>1. Boot
    BY <1>1, OffMoves DEF Down
  <2>2. run' # Resting
    BY DEF Resting, Down
  <2>3. /\ StopOf(file.act.top) \notin torn
        /\ StopOf(file.act.top) \in gone \/ file.stop[file.act.top] = "clear"
        /\ run' = [Down EXCEPT !.pc = "seed", !.plan = file.act.top]
    BY <2>1, <2>2 DEF Boot
  <2>4. file.act.top = p
    BY <2>3 DEF Down
  <2> QED
    BY <1>1, <2>3, <2>4 DEF Routed, Recorded
<1>2. Routed /\ [Next]_vars => [\A p \in answered \ unrouted : ~Resumed(p)]_vars
  BY <1>1
<1> QED
  BY <1>2, RoutedHolds, PTL DEF Spec, RecordedStopHolds

-----------------------------------------------------------------------------
(* Prompt: once a request was sent after STOP, the flag stays up and no    *)
(* request is being prepared, until the run is over.                       *)

Asking == run.pc = "ask" \/ (run.pc = "attemptsync" /\ run.next = "ask")

AtEase == run.pc \in {"off", "up", "clear"}

Prompt ==
  \/ late = 0
  \/ late = 1 /\ ~Asking /\ (slot.stopping \/ AtEase)

LEMMA PromptStep ==
  ASSUME Shapes, Prompt, [Next]_vars
  PROVE  Prompt'
<1>s. run \in Runs /\ slot \in [running : BOOLEAN, stopping : BOOLEAN]
  BY DEF Shapes, Controlled
<1>0. ASSUME late' = late, Asking' => Asking, AtEase => AtEase',
             slot' = slot \/ slot'.stopping \/ AtEase'
      PROVE  Prompt'
  BY <1>0 DEF Prompt
\* The worker, whatever it appends, gives up or goes to, save for a request.
<1>1. ASSUME UNCHANGED <<slot, late>>, ~AtEase,
             run'.pc # "ask", run'.pc = "attemptsync" => run'.next # "ask"
      PROVE  Prompt'
  BY <1>0, <1>1 DEF Asking
<1>2. ASSUME NEW p \in Plans, Preflight(p) \/ Prepare(p) \/ Refuse(p) PROVE Prompt'
  <2>1. UNCHANGED <<run, slot, late>>
    BY <1>2 DEF Preflight, Prepare, Refuse, control, history
  <2> QED
    BY <1>0, <2>1 DEF Asking, AtEase
<1>3. ASSUME NEW p \in Plans, ClearStop(p) PROVE Prompt'
  <2>1. run'.pc = "clear" /\ UNCHANGED <<slot, late>>
    BY <1>3 DEF ClearStop, Resting, Down
  <2> QED
    BY <1>0, <2>1 DEF Asking, AtEase
<1>4. ASSUME Claim PROVE Prompt'
  BY <1>4 DEF Claim, Prompt
<1>5. ASSUME Boot PROVE Prompt'
  <2>1. CASE late' = 0
    BY <2>1 DEF Prompt
  <2>2. CASE run' = Resting /\ UNCHANGED <<slot, late>>
    BY <1>0, <2>2 DEF Asking, AtEase, Resting, Down
  <2> QED
    BY <1>5, <2>1, <2>2 DEF Boot
<1>6. ASSUME Seed PROVE Prompt'
  <2>1. UNCHANGED <<slot, late>> /\ ~AtEase
    BY <1>6 DEF Seed, SeedPlan, SealSync, OpenBudget, OpenActive, WritePointer, PointerSync, Seeded,
                AbortWrite, AbortSync, control, history, AtEase
  <2>2. \/ SeedRefused \/ Leave
        \/ \E place \in {"sealsync", "budget", "activate", "point", "pointsync", "seeded",
                         "abort", "abortsync", "drive"} : Goto(place)
    BY <1>6 DEF Seed, SeedPlan, SealSync, OpenBudget, OpenActive, WritePointer, PointerSync, Seeded,
                AbortWrite, AbortSync
  <2>3. ASSUME NEW place, Goto(place) PROVE run'.pc = place
    BY <1>s, <2>3 DEF Goto, Runs
  <2> QED
    BY <1>1, <1>s, <2>1, <2>2, <2>3, RefusalMoves, LeaveMoves
<1>7. ASSUME NEW d, NEW rec, NEW next, AppendAttempt(d, rec, next)
      PROVE  run'.pc = "attemptsync" /\ run'.next = next
  BY <1>7, <1>s DEF AppendAttempt, Runs
<1>8. ASSUME NEW ok, EndWith(ok) PROVE run'.pc = "close"
  BY <1>8 DEF EndWith, Down
<1>9. ASSUME NEW place, Goto(place) PROVE run'.pc = place
  BY <1>9, <1>s DEF Goto, Runs
<1>10. ASSUME \/ Drive \/ Reconcile \/ Reconciled \/ ScanWindow \/ ScanDone \/ Retry
              \/ RetryDone \/ Settle \/ Close \/ CloseSync \/ Panic
       PROVE  Prompt'
  <2>1. UNCHANGED <<slot, late>> /\ ~AtEase
    BY <1>10 DEF Drive, Reconcile, Reconciled, ScanWindow, ScanDone, Retry, RetryDone,
                 Settle, Close, CloseSync, Panic, control, history, Working, AtEase
  <2>2. CASE Drive \/ Close \/ CloseSync \/ Panic
    BY <1>1, <1>9, <1>s, <2>1, <2>2, LeaveMoves DEF Drive, Close, CloseSync, Panic, Runs
  <2>3. CASE Reconciled \/ ScanWindow \/ ScanDone \/ RetryDone
    BY <1>1, <1>8, <1>9, <1>s, <2>1, <2>3
       DEF Reconciled, ScanWindow, ScanDone, RetryDone, GiveUp, NextWindow, Runs
  <2>4. CASE Reconcile \/ Settle
    <3>1. GiveUp \/ \E d, rec : \E next \in {"reconcile", "loop", "retry"} : AppendAttempt(d, rec, next)
      BY <2>4 DEF Reconcile, Settle, Stopped
    <3> QED
      BY <1>1, <1>7, <1>8, <2>1, <3>1 DEF GiveUp
  <2>5. CASE Retry
    <3>1. \/ \E d, rec : AppendAttempt(d, rec, "retry")
          \/ \E d : run' = [run EXCEPT !.days = @ \ {d}]
          \/ \E d : run' = [run EXCEPT !.pc = "loop", !.day = d]
      BY <2>5 DEF Retry
    <3>2. run.pc = "retry"
      BY <2>5 DEF Retry
    <3>3. \/ run'.pc = "attemptsync" /\ run'.next = "retry"
          \/ run'.pc \in {"retry", "loop"}
      BY <1>7, <1>s, <3>1, <3>2 DEF Runs
    <3> QED
      BY <1>1, <2>1, <3>3
  <2> QED
    BY <1>10, <2>2, <2>3, <2>4, <2>5
<1>11. ASSUME AttemptSync PROVE Prompt'
  <2>1. UNCHANGED <<slot, late>> /\ ~AtEase
    BY <1>11 DEF AttemptSync, control, history, AtEase
  <2>2. run'.pc = "close" \/ (run'.pc = run.next /\ run.next # "attemptsync")
    BY <1>8, <1>11, <1>s DEF AttemptSync, GiveUp, Runs, Shapes, Registers
  <2>3. Asking' => Asking
    BY <1>11, <2>2 DEF AttemptSync, Asking
  <2> QED
    BY <1>0, <2>1, <2>3
<1>12. ASSUME Reserve PROVE Prompt'
  <2>1. UNCHANGED <<slot, late>> /\ ~AtEase
    BY <1>12 DEF Reserve, control, history, AtEase
  <2>2. CASE slot.stopping
    <3>1. GiveUp
      BY <1>12, <2>2 DEF Reserve, Stopped
    <3> QED
      BY <1>1, <1>8, <2>1, <3>1 DEF GiveUp
  <2>3. CASE ~slot.stopping
    BY <2>1, <2>3 DEF Prompt
  <2> QED
    BY <2>2, <2>3
<1>13. ASSUME Ask PROVE Prompt'
  <2>1. UNCHANGED slot /\ late = 0 /\ ~AtEase
    BY <1>13 DEF Ask, control, AtEase, Prompt, Asking
  <2>2. late' = 0 \/ (late' = 1 /\ slot.stopping)
    BY <1>13, <2>1 DEF Ask
  <2>3. run'.pc \in {"close", "settle"} \/ (run'.pc = "attemptsync" /\ run'.next = "close")
    BY <1>7, <1>8, <1>9, <1>13 DEF Ask, GiveUp
  <2> QED
    BY <2>1, <2>2, <2>3 DEF Prompt, Asking
<1>14. ASSUME Idle PROVE Prompt'
  <2>1. UNCHANGED <<slot, late>> /\ ~AtEase
    BY <1>14 DEF Idle, history, AtEase
  <2> QED
    BY <1>1, <1>9, <1>14, <2>1 DEF Idle
<1>15. ASSUME Finish PROVE Prompt'
  BY <1>0, <1>15 DEF Finish, Resting, Down, history, Asking, AtEase
<1>16. ASSUME Stop \/ StopSync \/ StopFails PROVE Prompt'
  <2>1. UNCHANGED <<run, late>>
    BY <1>16 DEF Stop, StopWrite, StopAgain, StopRefused, StopSync, StopFails, history
  <2>2. slot' = slot \/ slot'.stopping
    BY <1>16, <1>s DEF Stop, StopWrite, StopAgain, StopRefused, StopSync, StopFails
  <2> QED
    BY <1>0, <2>1, <2>2 DEF Asking, AtEase
<1>17. ASSUME Die \/ PowerLoss PROVE Prompt'
  <2>1. run'.pc = "off" /\ late' = late
    BY <1>17 DEF Die, PowerLoss, Dead, Down, history
  <2> QED
    BY <1>0, <2>1 DEF Asking, AtEase
<1>18. ASSUME AppendFails PROVE Prompt'
  <2>1. UNCHANGED <<slot, late>>
    BY <1>18 DEF AppendFails, control, history
  <2>2. PICK j \in Journals : Appending(j)
    BY <1>18 DEF AppendFails
  <2>3. \/ run'.pc = "up"
        \/ run'.pc \in {"abort", "ending", "close"} /\ ~AtEase
    BY <1>8, <1>s, <2>2, RefusalMoves, LeaveMoves
       DEF Appending, GiveUp, Resting, Down, AtEase
  <2> QED
    BY <1>0, <1>1, <2>1, <2>3 DEF Asking, AtEase
<1>19. ASSUME SourceChanges \/ UNCHANGED vars \/ \E j \in Losable : Lose(j) PROVE Prompt'
  <2>1. UNCHANGED <<run, slot, late>>
    BY <1>19 DEF SourceChanges, vars, Lose, control, history
  <2> QED
    BY <1>0, <2>1 DEF Asking, AtEase
<1> QED
  BY <1>2, <1>3, <1>4, <1>5, <1>6, <1>10, <1>11, <1>12, <1>13, <1>14, <1>15, <1>16, <1>17, <1>18,
     <1>19 DEF Next, Start, Work, Faults

(* The run slot is taken exactly as long as a worker carries it: Claim and *)
(* Boot take it, Finish and a death give it back, and every failure, panic *)
(* and refusal on the way leads to Finish.                                 *)
THEOREM SlotIsHeld == Spec => []SlotIsHeldByRun
  BY ShapesHold, PTL DEF Shapes

(* Once STOP is flagged at most the request already under way is sent:     *)
(* reserve reads the flag under the slot's lock before each charge, and a  *)
(* later request needs a charge of its own.                                *)
THEOREM StopTakesOneRequest == Spec => []StopIsPrompt
<1>1. Init => Prompt
  BY DEF Init, Prompt
<1>2. Shapes /\ Prompt => StopIsPrompt
  BY DEF Prompt, StopIsPrompt
<1> QED
  BY <1>1, <1>2, PromptStep, ShapesHold, PTL DEF Spec

-----------------------------------------------------------------------------
(* Settling: past its reconciliation the worker leaves no day of its scope *)
(* InFlight but the one it is asking for.                                  *)

\* A day is InFlight only by a charge, so reconcile_pending never passes it.
Tried(journal) ==
  \A d \in Days : journal.att[d].status = "InFlight" => journal.att[d].attempts > 0

SettledBut(days) == \A d \in Scope(run.plan) \ days : file.att[d].status # "InFlight"

Toward(place) == run.pc = place \/ (run.pc = "attemptsync" /\ run.next = place)

SettledSoFar ==
  /\ Tried(file) /\ Tried(disk)
  /\ Toward("reconcile") => SettledBut(run.todo)
  /\ Toward("ask") \/ run.pc = "settle" => SettledBut({run.day})
  /\ run.pc = "scan" \/ Toward("retry") \/ Toward("loop") => SettledBut({})
  /\ run.pc = "close" /\ run.ok => SettledBut({})

Handling == {"reconcile", "scan", "retry", "loop", "ask", "settle", "attemptsync"}

LEMMA ScopeIsDays == ASSUME NEW p \in Plans PROVE Scope(p) \subseteq Days
<1>1. Windows[p] \in Seq(SUBSET Days)
  OBVIOUS
<1>2. \A i \in DOMAIN Windows[p] : Windows[p][i] \in SUBSET Days
  BY <1>1
<1> QED
  BY <1>2 DEF Scope

\* The journals as a step may leave them when it appends no record of a day.
LEMMA TriedStays ==
  ASSUME Tried(file), Tried(disk),
         NEW blank, blank = [d \in Days |-> Fresh],
         file'.att \in {file.att, disk.att, blank},
         disk'.att \in {file.att, disk.att, blank}
  PROVE  Tried(file)' /\ Tried(disk)'
  BY DEF Tried, Fresh

LEMMA SettledAway ==
  ASSUME Tried(file)', Tried(disk)', run'.pc \notin Handling, run'.pc = "close" => ~run'.ok
  PROVE  SettledSoFar'
  BY DEF SettledSoFar, Toward, Handling

\* A record of one day: what it leaves of the days that were settled.
LEMMA AppendSettles ==
  ASSUME Shapes, SettledSoFar, run.pc \notin {"off", "up"},
         NEW d \in Days, NEW status \in Statuses, NEW attempts \in 0..Limit,
         NEW next \in {"reconcile", "retry", "loop", "ask", "close"},
         AppendAttempt(d, [status |-> status, attempts |-> attempts], next),
         status = "InFlight" => next = "ask" /\ attempts > 0,
         next = "reconcile" => run.pc = "reconcile",
         next = "ask" => SettledBut({}),
         next \in {"retry", "loop"} => SettledBut({d})
  PROVE  SettledSoFar'
<1> DEFINE rec == [status |-> status, attempts |-> attempts]
<1>1. rec \in Records /\ next \in Places /\ file \in Contents /\ run \in Runs
  BY PlacesFacts DEF Records, Shapes, Journalled, Places, Working
<1> HIDE DEF rec
<1>2. /\ run'.pc = "attemptsync" /\ run'.next = next /\ run'.plan = run.plan /\ run'.day = d
      /\ file'.att = [file.att EXCEPT ![d] = rec] /\ UNCHANGED disk
  BY <1>1, AppendMoves, AppendWrites DEF rec
<1>3. run'.todo = run.todo \ {d}
  BY <1>1 DEF AppendAttempt, Runs
<1>4. rec.status = status /\ rec.attempts = attempts
  BY DEF rec
<1>5. file.att \in [Days -> Records]
  BY <1>1 DEF Contents
<1>6. \A e \in Days : file'.att[e] = IF e = d THEN rec ELSE file.att[e]
  BY <1>2, <1>5
<1>7. Tried(file)' /\ Tried(disk)'
  BY <1>2, <1>4, <1>6 DEF SettledSoFar, Tried
<1>8. Scope(run.plan) \subseteq Days
  BY ScopeIsDays DEF Shapes, Registers
<1> QED
  BY <1>2, <1>3, <1>4, <1>6, <1>7, <1>8 DEF SettledSoFar, Toward, SettledBut

\* Steps that leave the worker where it is.
LEMMA SettledBystanders ==
  ASSUME Shapes, SettledSoFar, UNCHANGED run, file'.att = file.att, disk'.att \in {disk.att, file.att}
  PROVE  SettledSoFar'
  BY DEF SettledSoFar, Tried, Toward, SettledBut

LEMMA SettledStep ==
  ASSUME Shapes, SettledSoFar, [Next]_vars
  PROVE  SettledSoFar'
<1>s. run \in Runs /\ file \in Contents /\ disk \in Contents
  BY DEF Shapes, Journalled
<1>t. Tried(file) /\ Tried(disk)
  BY DEF SettledSoFar
<1> DEFINE blank == [d \in Days |-> Fresh]
<1>b. blank = [d \in Days |-> Fresh]
  OBVIOUS
<1>a. ASSUME file'.att \in {file.att, disk.att, blank}, disk'.att \in {file.att, disk.att, blank},
             run'.pc \notin Handling, run'.pc = "close" => ~run'.ok
      PROVE  SettledSoFar'
  BY <1>a, <1>b, <1>t, TriedStays, SettledAway
<1> HIDE DEF blank
\* The helpers that move the worker.
<1>g. ASSUME NEW place, Goto(place) PROVE run' = [run EXCEPT !.pc = place] /\ run'.pc = place
  BY <1>g, <1>s DEF Goto, Runs
<1>e. ASSUME NEW ok, EndWith(ok) PROVE run'.pc = "close" /\ run'.ok = ok /\ run'.plan = run.plan
  BY <1>e DEF EndWith, Down
<1>l. Leave => run'.pc = "ending"
  BY DEF Leave, Down
<1>r. SeedRefused => run'.pc \in {"abort", "ending"}
  BY <1>g, <1>l DEF SeedRefused
<1>1. ASSUME NEW p \in Plans, Preflight(p) \/ Prepare(p) \/ Refuse(p) PROVE SettledSoFar'
  <2>1. UNCHANGED run
    BY <1>1 DEF Preflight, Prepare, Refuse
  <2>2. file'.att = file.att /\ disk'.att = disk.att
    BY <1>1, <1>s DEF Preflight, Prepare, Refuse, journals, Contents
  <2> QED
    BY <2>1, <2>2, SettledBystanders
<1>2. ASSUME NEW p \in Plans, ClearStop(p) PROVE SettledSoFar'
  <2>1. run'.pc = "clear"
    BY <1>2 DEF ClearStop, Resting, Down
  <2>2. file'.att = file.att /\ disk'.att = disk.att
    BY <1>2, <1>s DEF ClearStop, Contents
  <2> QED
    BY <1>a, <2>1, <2>2 DEF Handling
<1>3. ASSUME Claim PROVE SettledSoFar'
  <2>1. run'.pc = "seed"
    BY <1>3, <1>g DEF Claim
  <2>2. file'.att = file.att /\ disk'.att = disk.att
    BY <1>3, <1>s DEF Claim, Contents
  <2> QED
    BY <1>a, <2>1, <2>2 DEF Handling
<1>4. ASSUME Boot PROVE SettledSoFar'
  <2>1. run'.pc \in {"seed", "up"}
    BY <1>4 DEF Boot, Resting, Down
  <2>2. file'.att = file.att /\ disk'.att = disk.att
    BY <1>4, <1>s DEF Boot, Contents
  <2> QED
    BY <1>a, <2>1, <2>2 DEF Handling
<1>5. ASSUME Seed PROVE SettledSoFar'
  <2>1. run'.pc \notin Handling \cup {"close"}
    <3>1. \/ SeedRefused \/ Leave
          \/ \E place \in {"sealsync", "budget", "activate", "point", "pointsync", "seeded",
                           "abort", "abortsync", "drive"} : Goto(place)
      BY <1>5 DEF Seed, SeedPlan, SealSync, OpenBudget, OpenActive, WritePointer, PointerSync, Seeded,
                  AbortWrite, AbortSync
    <3> QED
      BY <1>g, <1>l, <1>r, <3>1 DEF Handling
  <2>2. file'.att \in {file.att, disk.att, blank} /\ disk'.att \in {file.att, disk.att, blank}
    <3>1. CASE OpenBudget
      BY <1>s, <3>1 DEF OpenBudget, Contents, blank
    <3>2. CASE ~OpenBudget
      BY <1>5, <1>s, <3>2 DEF Seed, SeedPlan, SealSync, OpenActive, WritePointer, PointerSync, Seeded,
                  AbortWrite, AbortSync, journals, Contents
    <3> QED
      BY <3>1, <3>2
  <2> QED
    BY <1>a, <2>1, <2>2
<1>p. run.pc \notin {"off", "up"} => run.plan \in Plans /\ Scope(run.plan) \subseteq Days
  BY ScopeIsDays DEF Shapes, Registers
<1>6. ASSUME Drive PROVE SettledSoFar'
  <2>1. file'.att = file.att /\ disk'.att \in {disk.att, file.att}
    BY <1>6, <1>s DEF Drive, Contents
  <2>2. CASE Leave
    BY <1>a, <1>l, <2>1, <2>2 DEF Handling
  <2>3. CASE ~Leave
    <3>1. /\ run'.pc = "reconcile" /\ run'.plan = run.plan
          /\ run'.todo = {d \in Days : d \in Scope(run.plan) /\ Pending(d)}
      BY <1>6, <1>s, <2>3 DEF Drive, Runs
    <3>2. \A d \in Scope(run.plan) \ run'.todo : file.att[d].status # "InFlight"
      BY <1>p, <1>t, <1>6, <3>1 DEF Drive, Tried, Pending
    <3>3. Tried(file)' /\ Tried(disk)'
      BY <1>b, <1>t, <2>1, TriedStays
    <3> QED
      BY <2>1, <3>1, <3>2, <3>3 DEF SettledSoFar, SettledBut, Toward
  <2> QED
    BY <2>2, <2>3
\* Giving up, and with it every stop.
<1>h. ASSUME GiveUp, file'.att = file.att, disk'.att \in {disk.att, file.att} PROVE SettledSoFar'
  BY <1>a, <1>e, <1>h DEF GiveUp, Handling
<1>j. UNCHANGED journals => file'.att = file.att /\ disk'.att = disk.att
  BY DEF journals
<1>7. ASSUME AttemptSync PROVE SettledSoFar'
  <2>1. file'.att = file.att /\ disk'.att \in {disk.att, file.att}
    BY <1>7, <1>s DEF AttemptSync, Contents
  <2>2. CASE GiveUp
    BY <1>h, <2>1, <2>2
  <2>3. CASE ~GiveUp
    <3>1. run.pc = "attemptsync" /\ run' = [run EXCEPT !.pc = run.next, !.next = "up"]
      BY <1>7, <2>3 DEF AttemptSync
    <3>2. /\ run.next \in {"reconcile", "retry", "loop", "ask"}
          /\ run'.pc = run.next /\ run'.plan = run.plan /\ run'.day = run.day /\ run'.todo = run.todo
      BY <1>7, <1>s, <2>3, <3>1 DEF AttemptSync, Runs, Shapes, Registers
    <3>3. Tried(file)' /\ Tried(disk)'
      BY <1>b, <1>t, <2>1, TriedStays
    <3> QED
      BY <2>1, <3>1, <3>2, <3>3 DEF SettledSoFar, SettledBut, Toward
  <2> QED
    BY <2>2, <2>3
\* The record of a day, with what the journals hold of it.
<1>u. ASSUME NEW d \in Days
      PROVE  /\ file.att[d].attempts \in 0..Limit /\ file.att[d].status \in Statuses
             /\ \A status \in Statuses : [file.att[d] EXCEPT !.status = status]
                            = [status |-> status, attempts |-> file.att[d].attempts]
  <2>1. file.att[d] \in [status : Statuses, attempts : 0..Limit]
    BY <1>s DEF Contents, Records
  <2>2. ASSUME NEW status \in Statuses, NEW r \in [status : Statuses, attempts : 0..Limit]
        PROVE  [r EXCEPT !.status = status] = [status |-> status, attempts |-> r.attempts]
    OBVIOUS
  <2> QED
    BY <2>1, <2>2
<1>8. ASSUME Reconcile PROVE SettledSoFar'
  <2>1. CASE GiveUp /\ UNCHANGED journals
    BY <1>h, <1>j, <2>1
  <2>2. CASE ~(GiveUp /\ UNCHANGED journals)
    <3>1. PICK d \in run.todo, found \in {"blocked", "audited"} :
             AppendAttempt(d, [file.att[d] EXCEPT !.status =
               IF found = "blocked" THEN "Blocked"
               ELSE IF d \in owed THEN Settled(d) ELSE "Unverified"], "reconcile")
      BY <1>8, <2>2 DEF Reconcile
    <3> DEFINE status == IF found = "blocked" THEN "Blocked"
                         ELSE IF d \in owed THEN Settled(d) ELSE "Unverified"
    <3>2. d \in Days /\ run.pc = "reconcile"
      BY <1>8, <1>s DEF Runs, Reconcile
    <3>3. status \in Statuses /\ status # "InFlight"
      BY DEF Settled, Statuses
    <3>4. AppendAttempt(d, [status |-> status, attempts |-> file.att[d].attempts], "reconcile")
      BY <1>u, <3>1, <3>2, <3>3
    <3> HIDE DEF status
    <3> QED
      BY <1>u, <3>2, <3>3, <3>4, AppendSettles
  <2> QED
    BY <2>1, <2>2
<1>9. ASSUME Reconciled PROVE SettledSoFar'
  <2>1. /\ run.pc = "reconcile" /\ run.todo = {} /\ run'.pc = "scan" /\ run'.plan = run.plan
        /\ file'.att = file.att /\ disk'.att = disk.att
    BY <1>9, <1>g, <1>j, <1>s DEF Reconciled, Runs
  <2> QED
    BY <1>b, <1>t, <2>1, TriedStays DEF SettledSoFar, SettledBut, Toward
<1>k. ASSUME run.pc \in {"scan", "retry"}, file'.att = file.att, disk'.att = disk.att,
             run'.plan = run.plan, run'.pc \in {"scan", "retry", "loop", "close"}
      PROVE  SettledSoFar'
  BY <1>b, <1>t, <1>k, TriedStays DEF SettledSoFar, SettledBut, Toward
<1>10. ASSUME ScanWindow \/ ScanDone \/ RetryDone PROVE SettledSoFar'
  <2>1. run.pc \in {"scan", "retry"} /\ file'.att = file.att /\ disk'.att = disk.att
    BY <1>10, <1>j DEF ScanWindow, ScanDone, RetryDone
  <2>2. \/ \E ok : EndWith(ok)
        \/ NextWindow \/ run' = [run EXCEPT !.pc = "retry", !.days = owed \cap Window]
    BY <1>10 DEF ScanWindow, ScanDone, RetryDone, GiveUp
  <2>3. run'.plan = run.plan /\ run'.pc \in {"scan", "retry", "close"}
    BY <1>e, <1>s, <2>2 DEF NextWindow, Runs
  <2> QED
    BY <1>k, <2>1, <2>3
<1>11. ASSUME Retry PROVE SettledSoFar'
  <2>1. run.pc = "retry" /\ SettledBut({})
    BY <1>11 DEF Retry, SettledSoFar, Toward
  <2>2. PICK d \in run.days :
          \/ run' = [run EXCEPT !.days = @ \ {d}] /\ UNCHANGED journals
          \/ run' = [run EXCEPT !.pc = "loop", !.day = d] /\ UNCHANGED journals
          \/ AppendAttempt(d, [file.att[d] EXCEPT !.status = "Exhausted"], "retry")
    BY <1>11 DEF Retry
  <2>3. CASE UNCHANGED journals /\ run'.plan = run.plan /\ run'.pc \in {"retry", "loop"}
    BY <1>j, <1>k, <2>1, <2>3
  <2>4. CASE AppendAttempt(d, [file.att[d] EXCEPT !.status = "Exhausted"], "retry")
    <3>1. d \in Days
      BY <1>s DEF Runs
    <3>2. AppendAttempt(d, [status |-> "Exhausted", attempts |-> file.att[d].attempts], "retry")
      BY <1>u, <2>4, <3>1 DEF Statuses
    <3>3. "Exhausted" \in Statuses /\ SettledBut({d})
      BY <2>1 DEF Statuses, SettledBut
    <3> QED
      BY <1>u, <2>1, <3>1, <3>2, <3>3, AppendSettles
  <2> QED
    BY <1>s, <2>1, <2>2, <2>3, <2>4 DEF Runs
<1>12. ASSUME Reserve PROVE SettledSoFar'
  <2>1. CASE Stopped
    BY <1>h, <1>j, <2>1 DEF Stopped
  <2>2. CASE ~Stopped
    <3>1. /\ run.pc = "loop" /\ run.day \in Days /\ SettledBut({})
          /\ file.att[run.day].attempts < Limit
      BY <1>12 DEF Reserve, SettledSoFar, Toward, Shapes, Registers, Dayful, Headroom
    <3>2. AppendAttempt(run.day, [status |-> "InFlight",
                                  attempts |-> file.att[run.day].attempts + 1], "ask")
      BY <1>12, <2>2 DEF Reserve
    <3>3. file.att[run.day].attempts \in 0..Limit
      BY <1>u, <3>1
    <3> DEFINE n == file.att[run.day].attempts
    <3> HIDE DEF n
    <3>4. n \in 0..Limit /\ n < Limit /\ Limit \in Nat
      BY <3>1, <3>3 DEF n
    <3>5. n + 1 \in 0..Limit /\ n + 1 > 0
      BY <3>4
    <3>6. file.att[run.day].attempts + 1 \in 0..Limit /\ file.att[run.day].attempts + 1 > 0
      BY <3>5 DEF n
    <3>7. "InFlight" \in Statuses
      BY DEF Statuses
    <3> QED
      BY <3>1, <3>2, <3>6, <3>7, AppendSettles
  <2> QED
    BY <2>1, <2>2
<1>13. ASSUME Ask PROVE SettledSoFar'
  <2>1. run.pc = "ask" /\ run.day \in Days /\ SettledBut({run.day})
    BY <1>13 DEF Ask, SettledSoFar, Toward, Shapes, Registers, Dayful
  <2>2. CASE GiveUp /\ UNCHANGED journals
    BY <1>h, <1>j, <2>2
  <2>3. CASE AppendAttempt(run.day, [file.att[run.day] EXCEPT !.status = "Blocked"], "close")
    <3>1. AppendAttempt(run.day, [status |-> "Blocked", attempts |-> file.att[run.day].attempts], "close")
      BY <1>u, <2>1, <2>3 DEF Statuses
    <3> QED
      BY <1>u, <2>1, <3>1, AppendSettles DEF Statuses
  <2>4. CASE Goto("settle") /\ UNCHANGED journals
    <3>1. /\ run'.pc = "settle" /\ run'.plan = run.plan /\ run'.day = run.day
          /\ file'.att = file.att /\ disk'.att = disk.att
      BY <1>g, <1>j, <1>s, <2>4 DEF Runs
    <3> QED
      BY <1>b, <1>t, <2>1, <3>1, TriedStays DEF SettledSoFar, SettledBut, Toward
  <2> QED
    BY <1>13, <2>2, <2>3, <2>4 DEF Ask
<1>14. ASSUME Settle PROVE SettledSoFar'
  <2>1. run.pc = "settle" /\ run.day \in Days /\ SettledBut({run.day})
    BY <1>14 DEF Settle, SettledSoFar, Shapes, Registers, Dayful
  <2>2. CASE GiveUp /\ UNCHANGED journals
    BY <1>h, <1>j, <2>2
  <2>3. CASE ~(GiveUp /\ UNCHANGED journals)
    <3>1. PICK status \in {"Exhausted", "Queued", "Verified", "Unverified"} :
             AppendAttempt(run.day, [file.att[run.day] EXCEPT !.status = status],
                           IF status = "Queued" THEN "loop" ELSE "retry")
      BY <1>14, <2>3 DEF Settle, Settled
    <3>2. AppendAttempt(run.day, [status |-> status, attempts |-> file.att[run.day].attempts],
                        IF status = "Queued" THEN "loop" ELSE "retry")
      <4>1. status \in Statuses
        BY DEF Statuses
      <4>2. [file.att[run.day] EXCEPT !.status = status]
              = [status |-> status, attempts |-> file.att[run.day].attempts]
        BY <1>u, <2>1, <4>1
      <4> QED
        BY <3>1, <4>2
    <3>3. CASE status = "Queued"
      BY <1>u, <2>1, <3>2, <3>3, AppendSettles DEF Statuses
    <3>4. CASE status # "Queued"
      <4>1. AppendAttempt(run.day, [status |-> status, attempts |-> file.att[run.day].attempts],
                          "retry")
        BY <3>2, <3>4
      <4>2. status \in Statuses /\ status # "InFlight"
        BY <3>1 DEF Statuses
      <4> QED
        BY <1>u, <2>1, <4>1, <4>2, AppendSettles
    <3> QED
      BY <3>3, <3>4
  <2> QED
    BY <2>2, <2>3
<1>15. ASSUME Close \/ CloseSync \/ Idle \/ Finish \/ Panic PROVE SettledSoFar'
  <2>1. file'.att = file.att /\ disk'.att = disk.att
    BY <1>15, <1>j, <1>s DEF Close, CloseSync, Idle, Finish, Panic, Contents
  <2>2. run'.pc \in {"closesync", "ending", "ended", "up"}
    BY <1>15, <1>g, <1>l DEF Close, CloseSync, Idle, Finish, Panic, Resting, Down
  <2> QED
    BY <1>a, <2>1, <2>2 DEF Handling
<1>16. ASSUME Stop \/ StopSync \/ SourceChanges \/ UNCHANGED vars PROVE SettledSoFar'
  <2>1. UNCHANGED run
    BY <1>16 DEF Stop, StopWrite, StopAgain, StopRefused, StopSync, SourceChanges, vars
  <2>2. file'.att = file.att /\ disk'.att = disk.att
    BY <1>16, <1>j, <1>s DEF Stop, StopWrite, StopAgain, StopRefused, StopSync, SourceChanges, vars,
                              Contents
  <2> QED
    BY <2>1, <2>2, SettledBystanders
<1>17. ASSUME StopFails PROVE SettledSoFar'
  <2>1. UNCHANGED run /\ disk' = disk /\ file'.att = file.att
    BY <1>17, Names DEF StopFails, Damage
  <2> QED
    BY <2>1, SettledBystanders
<1>18. ASSUME NEW j \in Losable, Lose(j) PROVE SettledSoFar'
  <2>1. UNCHANGED run /\ file'.att = file.att /\ disk'.att = disk.att
    BY <1>18, <1>s DEF Lose, Without, Contents
  <2> QED
    BY <2>1, SettledBystanders
<1>19. ASSUME Die \/ PowerLoss PROVE SettledSoFar'
  <2>1. run'.pc = "off"
    BY <1>19 DEF Die, PowerLoss, Dead, Down
  <2>2. file'.att \in {file.att, disk.att} /\ disk'.att \in {file.att, disk.att}
    <3>1. CASE Die
      BY <1>j, <3>1 DEF Die
    <3>2. CASE PowerLoss
      BY <3>2 DEF PowerLoss
    <3> QED
      BY <1>19, <3>1, <3>2
  <2> QED
    BY <1>a, <2>1, <2>2 DEF Handling
<1>20. ASSUME AppendFails PROVE SettledSoFar'
  <2>1. PICK j \in Journals : Appending(j) /\ Damage(j)
    BY <1>20 DEF AppendFails
  <2>2. file'.att \in {file.att, disk.att} /\ disk' = disk
    BY <1>20, <2>1 DEF AppendFails, Damage
  <2>3. \/ run'.pc \in {"up", "abort", "ending"}
        \/ run'.pc = "close" /\ ~run'.ok
    BY <1>e, <1>l, <1>r, <2>1 DEF Appending, GiveUp, Resting, Down
  <2> QED
    BY <1>a, <2>2, <2>3 DEF Handling
<1> QED
  BY <1>1, <1>2, <1>3, <1>4, <1>5, <1>6, <1>7, <1>8, <1>9, <1>10, <1>11, <1>12, <1>13, <1>14, <1>15,
     <1>16, <1>17, <1>18, <1>19, <1>20 DEF Next, Start, Work, Faults

LEMMA SettledHolds == Spec => []SettledSoFar
<1>1. Init => SettledSoFar
  BY DEF Init, SettledSoFar, Tried, Toward, Fresh, Resting, Down
<1> QED
  BY <1>1, SettledStep, ShapesHold, PTL DEF Spec

\* Only close writes a seal of Verified; a fault at most brings one back.
LEMMA SealMoves ==
  ASSUME Shapes, [Next]_vars, NEW p \in Plans,
         Verified(file, p)', ~Verified(file, p), ~Verified(disk, p)
  PROVE  Close /\ run.plan = p /\ run.ok
<1>s. file \in Contents /\ disk \in Contents
  BY DEF Shapes, Journalled
<1>0. /\ file'.seal[p] = "Verified"
      /\ file.seal[p] # "Verified" /\ disk.seal[p] # "Verified"
  BY DEF Verified
<1>5. ~UNCHANGED file
  BY <1>0
<1>j. UNCHANGED journals => UNCHANGED file
  BY DEF journals
<1>1. ASSUME NEW q \in Plans, Preflight(q) \/ Prepare(q) \/ ClearStop(q) \/ Refuse(q) PROVE FALSE
  <2>1. CASE Preflight(q) \/ Refuse(q)
    BY <1>5, <1>j, <2>1 DEF Preflight, Refuse
  <2>2. CASE Prepare(q)
    <3>1. PICK reached \in {file.seal[q], "Queued"} : file' = [file EXCEPT !.seal[q] = reached]
      BY <2>2 DEF Prepare
    <3>2. file'.seal[p] = IF p = q THEN reached ELSE file.seal[p]
      BY <1>s, <3>1 DEF Contents
    <3> QED
      BY <1>0, <3>1, <3>2
  <2>3. CASE ClearStop(q)
    BY <1>0, <1>s, <2>3 DEF ClearStop, Contents
  <2> QED
    BY <1>1, <2>1, <2>2, <2>3
<1>2. ~Claim /\ ~Boot
  BY <1>5 DEF Claim, Boot
<1>3. ~Seed
  <2>1. ~SealSync /\ ~OpenActive /\ ~PointerSync /\ ~Seeded /\ ~AbortSync
    BY <1>5, <1>j DEF SealSync, OpenActive, PointerSync, Seeded, AbortSync
  <2>2. ~SeedPlan
    <3> SUFFICES ASSUME file' = [file EXCEPT !.seal[run.plan] = "InFlight"] PROVE FALSE
      BY <1>5 DEF SeedPlan
    <3>1. file'.seal[p] \in {"InFlight", file.seal[p]}
      BY <1>s DEF Contents
    <3> QED
      BY <1>0, <3>1
  <2>3. ~OpenBudget /\ ~WritePointer /\ ~AbortWrite
    BY <1>0, <1>5, <1>s DEF OpenBudget, WritePointer, AbortWrite, Contents
  <2> QED
    BY <2>1, <2>2, <2>3 DEF Seed
<1>4. ASSUME NEW d, NEW rec, NEW next, AppendAttempt(d, rec, next) PROVE FALSE
  BY <1>0, <1>4, <1>s DEF AppendAttempt, Contents
<1>6. Work => Close
  BY <1>4, <1>5, <1>j
     DEF Work, Drive, AttemptSync, Reconcile, Reconciled, ScanWindow, ScanDone, Retry, RetryDone,
         Reserve, Ask, Settle, CloseSync, Idle, Finish, Stopped
<1>7. ~Stop /\ ~StopSync
  BY <1>0, <1>5, <1>j, <1>s DEF Stop, StopWrite, StopAgain, StopRefused, StopSync, Contents
<1>8. ASSUME NEW j, Damage(j) PROVE FALSE
  BY <1>0, <1>8 DEF Damage
<1>9. ~Faults
  <2>1. ~Die /\ ~Panic
    BY <1>5, <1>j DEF Die, Panic
  <2>4. ~AppendFails /\ ~StopFails
    BY <1>8 DEF AppendFails, StopFails
  <2>2. ~PowerLoss
    BY <1>0 DEF PowerLoss
  <2>3. ASSUME NEW j, Lose(j) PROVE FALSE
    BY <1>0, <1>s, <2>3 DEF Lose, Without, Contents
  <2> QED
    BY <2>1, <2>2, <2>3, <2>4 DEF Faults
<1>10. ~SourceChanges /\ ~UNCHANGED vars
  BY <1>5, <1>j DEF SourceChanges, vars
<1>11. Close
  BY <1>1, <1>2, <1>3, <1>6, <1>7, <1>9, <1>10 DEF Next, Start
<1>12. file'.seal[p] = IF p = run.plan /\ run.ok THEN "Verified"
                       ELSE IF p = run.plan THEN "Blocked" ELSE file.seal[p]
  BY <1>11, <1>s DEF Close, Contents
<1> QED
  BY <1>0, <1>11, <1>12

(* A plan is newly sealed Verified only when no request in its scope is    *)
(* left InFlight: reconcile_pending goes over every charge of the shared   *)
(* journal, whichever plan made it, and no way out of a request but its    *)
(* settled receipt leads to the end without an error.                      *)
THEOREM SealsAreSettled == Spec => FinishedIsSettled
<1>1. ASSUME Shapes, SettledSoFar, [Next]_vars, NEW p \in Plans,
             Verified(file, p)', ~Verified(file, p), ~Verified(disk, p),
             NEW d \in Scope(p)
      PROVE  file'.att[d].status # "InFlight"
  <2>1. Close /\ run.plan = p /\ run.ok
    BY <1>1, SealMoves
  <2>2. file'.att = file.att /\ run.pc = "close"
    BY <1>1, <2>1 DEF Close, Shapes, Journalled, Contents
  <2> QED
    BY <1>1, <2>1, <2>2 DEF SettledSoFar, SettledBut
<1>2. Shapes /\ SettledSoFar /\ [Next]_vars =>
        [\A p \in Plans :
           Verified(file, p)' /\ ~Verified(file, p) /\ ~Verified(disk, p)
             => \A d \in Scope(p) : file'.att[d].status # "InFlight"]_vars
  BY <1>1
<1> QED
  BY <1>2, ShapesHold, SettledHolds, PTL DEF Spec, FinishedIsSettled
=============================================================================
