------------------------------ MODULE Recovery ------------------------------
(***************************************************************************)
(* Gap recovery (api/src/recovery.rs) over its journals                    *)
(* (recovery_journal.rs), its durable STOP (recovery_control.rs) and the   *)
(* run slot it shares with the pages (server.rs).  A plan re-audits the    *)
(* months of its scope and asks the vendor again for the days found owed,  *)
(* each at most Limit times over every plan, run and restart.              *)
(*                                                                         *)
(* file is what the journals hold for a reader, disk what a loss of power  *)
(* leaves of them.  A journal is here the index its replay gives: a record *)
(* for each day in the shared attempts.bin, the seal of a plan, the plans  *)
(* ever activated and the last of them, the last intent of each STOP file. *)
(* The rows of months and days in a plan's own journal are read by the     *)
(* status page alone and are left out; that appending them may fail is not.*)
(* asked, answered, unrouted and late are history.                         *)
(***************************************************************************)
EXTENDS Naturals, Sequences

CONSTANTS
  Days,        \* the single days a request may name
  Plans,       \* plan identities
  Windows,     \* the month windows of a plan, sets of days, in their order
  Pred,        \* the plan a successor replaces, NoPlan for an original plan
  NoPlan,
  Limit,       \* ATTEMPT_LIMIT
  MaxFaults,   \* bound: deaths, power losses, failed appends and panics
  MaxLosses    \* bound: journal files that disappear

ASSUME RecoveryAssumption ==
  /\ Limit \in Nat \ {0}
  /\ MaxFaults \in Nat /\ MaxLosses \in Nat
  /\ NoPlan \notin Plans
  /\ Windows \in [Plans -> Seq(SUBSET Days)]
  /\ Pred \in [Plans -> Plans \cup {NoPlan}]

VARIABLES
  file,        \* the journals as running processes see them
  disk,        \* the journals as the disk holds them
  gone, torn,  \* journals with no file, and with a torn last record
  slot,        \* site.run
  active,      \* site.recovery_active
  run,         \* the worker, from the claim of its slot to the end
  ready,       \* starts whose preflight has passed and that have not claimed
  stopper,     \* the plan whose STOP the handler is making durable
  owed,        \* days an audit of the source would find owed
  asked,       \* requests sent for each day
  answered,    \* plans whose STOP was answered, and not started again since
  unrouted,    \* those of them answered while no recovery was routed
  late,        \* requests of this run sent after its STOP was answered
  faults, losses

journals == <<file, disk, gone, torn>>
control == <<slot, active, ready, stopper>>
history == <<answered, unrouted, late>>
bounds == <<faults, losses>>
vars == <<journals, control, run, owed, asked, history, bounds>>

Attempts == <<"attempts">>
Active == <<"active">>
PlanOf(p) == <<"plan", p>>
StopOf(p) == <<"stop", p>>
Journals == {Attempts, Active} \cup {PlanOf(p) : p \in Plans} \cup {StopOf(p) : p \in Plans}

Statuses == {"Queued", "InFlight", "Verified", "Unverified", "Exhausted", "Blocked"}
Seals == {"none", "Queued", "InFlight", "Verified", "Blocked"}
Intents == {"none", "clear", "stop"}
Seeding == {"seed", "sealsync", "budget", "activate", "point", "pointsync", "seeded"}
Working == {"reconcile", "scan", "retry", "loop", "attemptsync", "ask", "settle",
            "close", "closesync"}
Places == {"off", "up", "clear", "abort", "abortsync", "drive", "ending", "ended"}
              \cup Seeding \cup Working

NoDay == "no day"
NoHistory == [ids |-> {}, top |-> NoPlan]
Fresh == [status |-> "Queued", attempts |-> 0]
Records == [status : Statuses, attempts : 0..Limit]
Contents == [att : [Days -> Records],
             act : [ids : SUBSET Plans, top : Plans \cup {NoPlan}],
             seal : [Plans -> Seals],
             stop : [Plans -> Intents]]
Runs == [pc : Places, plan : Plans \cup {NoPlan}, explicit : BOOLEAN,
         todo : SUBSET Days, left : Nat, days : SUBSET Days,
         day : Days \cup {NoDay}, next : Places, ok : BOOLEAN]

Down == [pc |-> "off", plan |-> NoPlan, explicit |-> FALSE, todo |-> {}, left |-> 0,
         days |-> {}, day |-> NoDay, next |-> "up", ok |-> TRUE]
Resting == [Down EXCEPT !.pc = "up"]
NoSlot == [running |-> FALSE, stopping |-> FALSE]

Readable(j) == j \notin gone \cup torn

(* The handler holds the run slot's lock and the owner's while it makes a  *)
(* STOP durable.                                                           *)
Unlocked == stopper = NoPlan

Scope(p) == UNION {Windows[p][i] : i \in DOMAIN Windows[p]}

Goto(place) == run' = [run EXCEPT !.pc = place]

(* The worker ends, having given up with an error or not; its plan will be *)
(* sealed Blocked or Verified, or its seal left as it is.                  *)
EndWith(ok) == run' = [Down EXCEPT !.pc = "close", !.plan = run.plan, !.ok = ok]
GiveUp == EndWith(FALSE)
Leave == run' = [Down EXCEPT !.pc = "ending", !.plan = run.plan]

Init ==
  /\ file = [att |-> [d \in Days |-> Fresh], act |-> NoHistory,
             seal |-> [p \in Plans |-> "none"], stop |-> [p \in Plans |-> "none"]]
  /\ disk = file
  /\ gone = Journals /\ torn = {}
  /\ slot = NoSlot /\ active = NoPlan /\ run = Resting /\ ready = {} /\ stopper = NoPlan
  /\ owed \in SUBSET Days
  /\ asked = [d \in Days |-> 0]
  /\ answered = {} /\ unrouted = {} /\ late = 0
  /\ faults = 0 /\ losses = 0

-----------------------------------------------------------------------------
(* Starting: preflight, successor, claim                                   *)

(* preflight_plan: a plan once activated is never recreated from today's   *)
(* form, and no activation history runs without the shared budget.         *)
PreflightPlan(p) ==
  LET ids == IF Active \in gone THEN {} ELSE file.act.ids
      sealed == file.seal[p] # "none"
  IN  /\ Active \notin torn
      /\ Active \in gone \/ ids # {}
      /\ p \in ids => PlanOf(p) \notin gone /\ sealed
      /\ PlanOf(p) \notin torn
      /\ ids # {} => Readable(Attempts)

PreflightSubmission(p) ==
  /\ PreflightPlan(p)
  /\ Pred[p] # NoPlan => Readable(PlanOf(p)) /\ file.seal[p] # "none"

(* Journals whose writer lock the worker holds; a snapshot of them refuses.*)
Held ==
  (IF run.pc \in Working THEN {Attempts} ELSE {})
    \cup (IF run.pc \in {"point", "pointsync"} THEN {Active} ELSE {})
    \cup (IF run.pc \in Working \cup (Seeding \ {"seed"}) \cup {"drive"} THEN {PlanOf(run.plan)} ELSE {})

(* The server answers requests once the boot has done with its own resume. *)
Serving == run.pc # "off" /\ (run.explicit \/ run.pc \notin Seeding)

Preflight(p) ==
  /\ Serving /\ p \notin ready
  /\ PreflightSubmission(p) /\ {Attempts, Active, PlanOf(p)} \cap Held = {}
  /\ ready' = ready \cup {p}
  /\ UNCHANGED <<journals, slot, active, stopper, run, owed, asked, history, bounds>>

(* prepare_successor writes the windows and then the seal of a new         *)
(* generation whose predecessor's file is missing; it may die in between.  *)
Prepare(p) ==
  /\ Serving /\ Pred[p] # NoPlan /\ {Attempts, Active, PlanOf(p)} \cap Held = {}
  /\ Readable(Active) /\ Pred[p] \in file.act.ids /\ p \notin file.act.ids
  /\ PlanOf(Pred[p]) \in gone
  /\ Readable(Attempts)
  /\ PlanOf(p) \notin torn /\ file.seal[p] \in {"none", "Queued"}
  /\ \E reached \in {file.seal[p], "Queued"} :
       /\ file' = [file EXCEPT !.seal[p] = reached]
       /\ disk' = [disk EXCEPT !.seal[p] = reached]
  /\ gone' = gone \ {PlanOf(p)}
  /\ UNCHANGED <<torn, control, run, owed, asked, history, bounds>>

(* claim, under the slot's lock: an explicit start first appends the clear *)
(* of its STOP (persist), then routes STOP to itself and takes the slot.   *)
ClearStop(p) ==
  /\ run.pc = "up" /\ Unlocked /\ p \in ready
  /\ active \in {NoPlan, p} /\ StopOf(p) \notin torn
  /\ disk' = [disk EXCEPT !.stop[p] = file.stop[p]]
  /\ file' = [file EXCEPT !.stop[p] = "clear"]
  /\ gone' = gone \ {StopOf(p)}
  /\ ready' = ready \ {p}
  /\ run' = [Resting EXCEPT !.pc = "clear", !.plan = p, !.explicit = TRUE]
  /\ answered' = answered \ {p} /\ unrouted' = unrouted \ {p}
  /\ UNCHANGED <<torn, slot, active, stopper, owed, asked, late, bounds>>

Claim ==
  /\ run.pc = "clear"
  /\ disk' = [disk EXCEPT !.stop[run.plan] = file.stop[run.plan]]
  /\ active' = run.plan
  /\ slot' = [running |-> TRUE, stopping |-> FALSE]
  /\ late' = 0
  /\ Goto("seed")
  /\ UNCHANGED <<file, gone, torn, ready, stopper, owed, asked, answered, unrouted, bounds>>

(* A start is refused when the slot is taken or its STOP file unreadable.  *)
Refuse(p) ==
  /\ p \in ready /\ Unlocked
  /\ slot.running \/ (run.pc = "up" /\ StopOf(p) \in torn)
  /\ ready' = ready \ {p}
  /\ UNCHANGED <<journals, slot, active, stopper, run, owed, asked, history, bounds>>

(* resume, before the server answers anyone: the plan last activated, if   *)
(* it is sealed InFlight and no STOP of it is recorded or in doubt.        *)
Boot ==
  LET p == file.act.top
      pointed == Readable(Active) /\ file.act.ids # {}
      clear == StopOf(p) \notin torn /\ (StopOf(p) \in gone \/ file.stop[p] = "clear")
      resumes == clear /\ Readable(PlanOf(p)) /\ file.seal[p] = "InFlight"
  IN  /\ run.pc = "off"
      /\ \/ /\ pointed /\ resumes
            /\ disk' = [disk EXCEPT !.stop[p] = file.stop[p], !.seal[p] = file.seal[p]]
            /\ run' = [Down EXCEPT !.pc = "seed", !.plan = p]
            /\ active' = p
            /\ slot' = [running |-> TRUE, stopping |-> FALSE]
            /\ late' = 0
         \/ /\ pointed /\ ~resumes
            /\ disk' = [disk EXCEPT !.stop[p] = file.stop[p],
                                    !.seal[p] = IF clear THEN file.seal[p] ELSE @]
            /\ run' = Resting
            /\ UNCHANGED <<active, slot, late>>
         \/ /\ ~pointed
            /\ run' = Resting
            /\ UNCHANGED <<disk, active, slot, late>>
      /\ UNCHANGED <<file, gone, torn, ready, stopper, owed, asked, answered, unrouted, bounds>>

-----------------------------------------------------------------------------
(* seeded: plan and seal, shared budget, activation pointer                *)

SeedRefused == IF run.explicit THEN Goto("abort") ELSE Leave

SeedPlan ==
  LET p == run.plan
      units == run.explicit /\ Pred[p] = NoPlan
      opens == PreflightPlan(p) /\ (units \/ (PlanOf(p) \notin gone /\ file.seal[p] # "none"))
  IN  /\ run.pc = "seed"
      /\ \/ /\ opens
            /\ disk' = [disk EXCEPT !.seal[p] = file.seal[p]]
            /\ file' = [file EXCEPT !.seal[p] = "InFlight"]
            /\ gone' = gone \ {PlanOf(p)}
            /\ Goto("sealsync")
         \/ /\ ~opens
            /\ SeedRefused
            /\ UNCHANGED <<file, disk, gone>>
      /\ UNCHANGED <<torn, control, owed, asked, history, bounds>>

SealSync ==
  /\ run.pc = "sealsync"
  /\ disk' = [disk EXCEPT !.seal[run.plan] = file.seal[run.plan]]
  /\ Goto("budget")
  /\ UNCHANGED <<file, gone, torn, control, owed, asked, history, bounds>>

(* The budget is created once, before the first activation.                *)
OpenBudget ==
  /\ run.pc = "budget"
  /\ \/ /\ {Active, Attempts} \subseteq gone
        /\ file' = [file EXCEPT !.att = [d \in Days |-> Fresh]]
        /\ disk' = [disk EXCEPT !.att = [d \in Days |-> Fresh]]
        /\ gone' = gone \ {Attempts}
        /\ Goto("activate")
     \/ /\ ~({Active, Attempts} \subseteq gone) /\ Readable(Attempts)
        /\ disk' = [disk EXCEPT !.att = file.att]
        /\ Goto("activate")
        /\ UNCHANGED <<file, gone>>
     \/ /\ ~({Active, Attempts} \subseteq gone) /\ ~Readable(Attempts)
        /\ SeedRefused
        /\ UNCHANGED <<file, disk, gone>>
  /\ UNCHANGED <<torn, control, owed, asked, history, bounds>>

OpenActive ==
  /\ run.pc = "activate"
  /\ \/ /\ Active \notin torn
        /\ disk' = [disk EXCEPT !.act = file.act]
        /\ gone' = gone \ {Active}
        /\ Goto("point")
     \/ /\ Active \in torn
        /\ SeedRefused
        /\ UNCHANGED <<disk, gone>>
  /\ UNCHANGED <<file, torn, control, owed, asked, history, bounds>>

WritePointer ==
  /\ run.pc = "point"
  /\ file' = [file EXCEPT !.act = [ids |-> @.ids \cup {run.plan}, top |-> run.plan]]
  /\ Goto("pointsync")
  /\ UNCHANGED <<disk, gone, torn, control, owed, asked, history, bounds>>

PointerSync ==
  /\ run.pc = "pointsync"
  /\ disk' = [disk EXCEPT !.act = file.act]
  /\ Goto("seeded")
  /\ UNCHANGED <<file, gone, torn, control, owed, asked, history, bounds>>

(* activate_durable reads the stop flag once the plan is durable.          *)
Seeded ==
  /\ run.pc = "seeded" /\ Unlocked
  /\ Goto(IF run.explicit /\ slot.stopping THEN "abort" ELSE "drive")
  /\ UNCHANGED <<journals, control, owed, asked, history, bounds>>

(* A start that is not driven records a STOP of its own before it lets go. *)
AbortWrite ==
  /\ run.pc = "abort" /\ Unlocked
  /\ \/ /\ StopOf(run.plan) \notin torn
        /\ disk' = [disk EXCEPT !.stop[run.plan] = file.stop[run.plan]]
        /\ file' = [file EXCEPT !.stop[run.plan] = "stop"]
        /\ gone' = gone \ {StopOf(run.plan)}
        /\ Goto("abortsync")
     \/ /\ StopOf(run.plan) \in torn
        /\ Leave
        /\ UNCHANGED <<file, disk, gone>>
  /\ UNCHANGED <<torn, control, owed, asked, history, bounds>>

AbortSync ==
  /\ run.pc = "abortsync"
  /\ disk' = [disk EXCEPT !.stop[run.plan] = file.stop[run.plan]]
  /\ Leave
  /\ UNCHANGED <<file, gone, torn, control, owed, asked, history, bounds>>

-----------------------------------------------------------------------------
(* drive and execute: the worker                                           *)

Seed ==
  \/ SeedPlan \/ SealSync \/ OpenBudget \/ OpenActive \/ WritePointer \/ PointerSync
  \/ Seeded \/ AbortWrite \/ AbortSync

(* Mutant: an interrupted request is not looked at again.                  *)
MutPendingForgets(d) ==
  /\ file.att[d].attempts > 0
  /\ \/ file.att[d].status \in {"Queued", "Unverified"}
     \/ run.explicit /\ file.att[d].status = "Blocked"

(* The worker opens the shared journal and picks what reconcile_pending    *)
(* looks at: requests no run has settled, and, when the operator started   *)
(* the plan, requests it had given up.                                     *)
Pending(d) ==
  /\ file.att[d].attempts > 0
  /\ \/ file.att[d].status \in {"Queued", "InFlight", "Unverified"}
     \/ run.explicit /\ file.att[d].status = "Blocked"

Drive ==
  /\ run.pc = "drive"
  /\ \/ /\ Readable(Attempts)
        /\ disk' = [disk EXCEPT !.att = file.att]
        /\ run' = [run EXCEPT !.pc = "reconcile", !.left = Len(Windows[run.plan]),
                              !.todo = {d \in Days : d \in Scope(run.plan) /\ Pending(d)}]
     \/ /\ ~Readable(Attempts)
        /\ Leave
        /\ UNCHANGED disk
  /\ UNCHANGED <<file, gone, torn, control, owed, asked, history, bounds>>

(* Mutant: the record is published before it is synced.                    *)
MutAppendAttempt(d, rec, next) ==
  /\ file' = [file EXCEPT !.att[d] = rec]
  /\ run' = [run EXCEPT !.pc = next, !.day = d, !.todo = @ \ {d},
                        !.days = IF next = "retry" THEN @ \ {d} ELSE @]
  /\ UNCHANGED <<disk, gone, torn>>

(* append_attempt, its write to the shared journal: the record is a fact   *)
(* only once it is synced, and next is where the worker goes then.         *)
AppendAttempt(d, rec, next) ==
  /\ file' = [file EXCEPT !.att[d] = rec]
  /\ run' = [run EXCEPT !.pc = "attemptsync", !.day = d, !.next = next,
                        !.todo = @ \ {d},
                        !.days = IF next = "retry" THEN @ \ {d} ELSE @]
  /\ UNCHANGED <<disk, gone, torn>>

AttemptSync ==
  /\ run.pc = "attemptsync"
  /\ \/ /\ Attempts \notin gone
        /\ disk' = [disk EXCEPT !.att = file.att]
        /\ IF run.next = "close" THEN GiveUp
           ELSE run' = [run EXCEPT !.pc = run.next, !.next = "up"]
     \/ /\ Attempts \in gone
        /\ GiveUp
        /\ UNCHANGED disk
  /\ UNCHANGED <<file, gone, torn, control, owed, asked, history, bounds>>

Stopped == slot.stopping /\ GiveUp /\ UNCHANGED journals

Settled(d) == IF file.att[d].attempts >= Limit THEN "Exhausted" ELSE "Queued"

(* A request interrupted before its receipt is settled by what the source  *)
(* holds now, never as a clean one; an audit that fails blocks it. A STOP  *)
(* ends the reconciliation, and so does an error of its own: the evidence  *)
(* of the lifecycle not written, a scope or an attempt that does not check.*)
Reconcile ==
  /\ run.pc = "reconcile" /\ Unlocked
  /\ \/ GiveUp /\ UNCHANGED journals
     \/ /\ ~slot.stopping
        /\ \E d \in run.todo, found \in {"blocked", "audited"} :
             LET status == IF found = "blocked" THEN "Blocked"
                           ELSE IF d \in owed THEN Settled(d) ELSE "Unverified"
             IN  AppendAttempt(d, [file.att[d] EXCEPT !.status = status],
                               "reconcile")
  /\ UNCHANGED <<control, owed, asked, history, bounds>>

Reconciled ==
  /\ run.pc = "reconcile" /\ run.todo = {}
  /\ Goto("scan")
  /\ UNCHANGED <<journals, control, owed, asked, history, bounds>>

Window == LET all == Windows[run.plan] IN all[Len(all) + 1 - run.left]

NextWindow == run' = [run EXCEPT !.pc = "scan", !.left = @ - 1]

(* The audit of a window: it fails and the window is passed over, it finds *)
(* nothing owed, or it gives the days to retry; the audit journal may fail.*)
ScanWindow ==
  /\ run.pc = "scan" /\ run.left > 0 /\ Unlocked
  /\ \/ slot.stopping /\ GiveUp
     \/ /\ ~slot.stopping
        /\ \/ GiveUp
           \/ NextWindow
           \/ run' = [run EXCEPT !.pc = "retry", !.days = owed \cap Window]
  /\ UNCHANGED <<journals, control, owed, asked, history, bounds>>

ScanDone ==
  /\ run.pc = "scan" /\ run.left = 0
  /\ EndWith(TRUE)
  /\ UNCHANGED <<journals, control, owed, asked, history, bounds>>

(* retry_day: a day given up stays given up, a spent budget stays spent.   *)
Retry ==
  /\ run.pc = "retry"
  /\ \E d \in run.days :
       \/ /\ file.att[d].status \in {"Exhausted", "Blocked"}
          /\ run' = [run EXCEPT !.days = @ \ {d}]
          /\ UNCHANGED journals
       \/ /\ file.att[d].status \notin {"Exhausted", "Blocked"}
          /\ file.att[d].attempts >= Limit
          /\ AppendAttempt(d, [file.att[d] EXCEPT !.status = "Exhausted"], "retry")
       \/ /\ file.att[d].status \notin {"Exhausted", "Blocked"}
          /\ file.att[d].attempts < Limit
          /\ run' = [run EXCEPT !.pc = "loop", !.day = d]
          /\ UNCHANGED journals
  /\ UNCHANGED <<control, owed, asked, history, bounds>>

(* The window is audited again after its retries, and may fail then.       *)
RetryDone ==
  /\ run.pc = "retry" /\ run.days = {}
  /\ NextWindow \/ GiveUp
  /\ UNCHANGED <<journals, control, owed, asked, history, bounds>>

(* Mutant: the stop flag is looked at between days only.                   *)
MutReserve ==
  /\ run.pc = "loop"
  /\ AppendAttempt(run.day,
                   [status |-> "InFlight", attempts |-> file.att[run.day].attempts + 1], "ask")
  /\ UNCHANGED <<control, owed, asked, history, bounds>>

(* reserve: the request is charged to the day before it is sent.           *)
Reserve ==
  /\ run.pc = "loop" /\ Unlocked
  /\ \/ Stopped
     \/ /\ ~slot.stopping
        /\ AppendAttempt(run.day,
                         [status |-> "InFlight", attempts |-> file.att[run.day].attempts + 1],
                         "ask")
  /\ UNCHANGED <<control, owed, asked, history, bounds>>

(* recovery_spot: refused before anything was sent, or sent, which may     *)
(* land the day; the answer may be lost to a failure of the audit journal. *)
(* A refused credential or a stop is recorded on the day and ends the run. *)
Ask ==
  LET block == AppendAttempt(run.day, [file.att[run.day] EXCEPT !.status = "Blocked"],
                             "close")
      lost == GiveUp /\ UNCHANGED journals
  IN  /\ run.pc = "ask"
      /\ \/ /\ lost \/ block
            /\ UNCHANGED <<owed, asked, late>>
         \/ /\ asked' = [asked EXCEPT ![run.day] = @ + 1]
            /\ late' = IF slot.stopping THEN late + 1 ELSE late
            /\ owed' \in {owed, owed \ {run.day}}
            /\ \/ lost
               \/ block
               \/ Goto("settle") /\ UNCHANGED journals
      /\ UNCHANGED <<control, answered, unrouted, bounds>>

(* receipt_state, over a fresh audit of the day that may itself fail.      *)
Settle ==
  LET d == run.day
      Settling(status) ==
        AppendAttempt(d, [file.att[d] EXCEPT !.status = status],
                      IF status = "Queued" THEN "loop" ELSE "retry")
  IN  /\ run.pc = "settle"
      /\ \/ GiveUp /\ UNCHANGED journals
         \/ d \in owed /\ Settling(Settled(d))
         \/ d \notin owed /\ \E status \in {"Verified", "Unverified"} : Settling(status)
      /\ UNCHANGED <<control, owed, asked, history, bounds>>

Close ==
  /\ run.pc = "close"
  /\ file' = [file EXCEPT !.seal[run.plan] = IF run.ok THEN "Verified" ELSE "Blocked"]
  /\ Goto("closesync")
  /\ UNCHANGED <<disk, gone, torn, control, owed, asked, history, bounds>>

CloseSync ==
  /\ run.pc = "closesync"
  /\ disk' = [disk EXCEPT !.seal[run.plan] = file.seal[run.plan]]
  /\ Leave
  /\ UNCHANGED <<file, gone, torn, control, owed, asked, history, bounds>>

(* The end of a run, in the two steps of drive: idle, then the slot.       *)
Idle ==
  /\ run.pc = "ending" /\ Unlocked
  /\ active' = NoPlan
  /\ Goto("ended")
  /\ UNCHANGED <<journals, slot, ready, stopper, owed, asked, history, bounds>>

Finish ==
  /\ run.pc = "ended" /\ Unlocked
  /\ slot' = NoSlot
  /\ run' = Resting
  /\ UNCHANGED <<journals, active, ready, stopper, owed, asked, history, bounds>>

Work ==
  \/ Drive \/ AttemptSync \/ Reconcile \/ Reconciled \/ ScanWindow \/ ScanDone
  \/ Retry \/ RetryDone \/ Reserve \/ Ask \/ Settle \/ Close \/ CloseSync \/ Idle \/ Finish

-----------------------------------------------------------------------------
(* pull_run_stop, under the slot's lock                                    *)

Stoppable == Serving /\ slot.running /\ Unlocked /\ run.pc # "abortsync"

StopWrite ==
  /\ Stoppable /\ active # NoPlan
  /\ StopOf(active) \notin torn /\ file.stop[active] # "stop"
  /\ slot' = [slot EXCEPT !.stopping = TRUE]
  /\ disk' = [disk EXCEPT !.stop[active] = file.stop[active]]
  /\ file' = [file EXCEPT !.stop[active] = "stop"]
  /\ gone' = gone \ {StopOf(active)}
  /\ stopper' = active
  /\ UNCHANGED <<torn, active, ready, run, owed, asked, history, bounds>>

(* Mutant: the STOP is answered once it is written.                        *)
MutStopSync ==
  /\ stopper # NoPlan
  /\ answered' = answered \cup {stopper}
  /\ stopper' = NoPlan
  /\ UNCHANGED <<journals, slot, active, ready, run, owed, asked, unrouted, late, bounds>>

StopSync ==
  /\ stopper # NoPlan
  /\ disk' = [disk EXCEPT !.stop[stopper] = file.stop[stopper]]
  /\ answered' = answered \cup {stopper}
  /\ stopper' = NoPlan
  /\ UNCHANGED <<file, gone, torn, slot, active, ready, run, owed, asked,
                 unrouted, late, bounds>>

(* A STOP already recorded is answered again, and one that finds no        *)
(* recovery routed answers for the run it flags without recording it.      *)
StopAgain ==
  /\ Stoppable
  /\ slot' = [slot EXCEPT !.stopping = TRUE]
  /\ answered' = answered \cup {run.plan}
  /\ \/ /\ active # NoPlan /\ StopOf(active) \notin torn /\ file.stop[active] = "stop"
        /\ disk' = [disk EXCEPT !.stop[active] = "stop"]
        /\ UNCHANGED unrouted
     \/ /\ active = NoPlan
        /\ unrouted' = unrouted \cup {run.plan}
        /\ UNCHANGED disk
  /\ UNCHANGED <<file, gone, torn, active, ready, stopper, run, owed, asked, late, bounds>>

(* A STOP file that refuses to open: 503, and the flag stays.              *)
StopRefused ==
  /\ Stoppable /\ active # NoPlan /\ StopOf(active) \in torn
  /\ slot' = [slot EXCEPT !.stopping = TRUE]
  /\ UNCHANGED <<journals, active, ready, stopper, run, owed, asked, history, bounds>>

Stop == StopWrite \/ StopAgain \/ StopRefused

-----------------------------------------------------------------------------
(* What may go wrong                                                       *)

Fault == faults < MaxFaults /\ faults' = faults + 1 /\ UNCHANGED losses

Dead == /\ run' = Down /\ slot' = NoSlot /\ active' = NoPlan
        /\ ready' = {} /\ stopper' = NoPlan

Die ==
  /\ run.pc # "off" /\ Fault /\ Dead
  /\ UNCHANGED <<journals, owed, asked, history>>

Unsynced ==
  (IF file.att # disk.att THEN {Attempts} ELSE {})
    \cup (IF file.act # disk.act THEN {Active} ELSE {})
    \cup {PlanOf(p) : p \in {q \in Plans : file.seal[q] # disk.seal[q]}}
    \cup {StopOf(p) : p \in {q \in Plans : file.stop[q] # disk.stop[q]}}

(* What is not synced is kept, lost, or cut in the middle of its record.   *)
PowerLoss ==
  /\ Fault /\ Dead
  /\ \E cut \in SUBSET (Unsynced \ gone), lost \in SUBSET Unsynced :
       LET Keep(j, new, old) == IF j \in cut \cup lost THEN old ELSE new
       IN  /\ file' = [att |-> Keep(Attempts, file.att, disk.att),
                       act |-> Keep(Active, file.act, disk.act),
                       seal |-> [p \in Plans |-> Keep(PlanOf(p), file.seal[p], disk.seal[p])],
                       stop |-> [p \in Plans |-> Keep(StopOf(p), file.stop[p], disk.stop[p])]]
           /\ torn' = torn \cup cut
  /\ disk' = file'
  /\ UNCHANGED <<gone, owed, asked, history>>

(* An append fails in its sync, and its record may be whole, or in its     *)
(* write, and leaves a part of it; where the caller goes then.             *)
Appending(j) ==
  \/ run.pc = "clear" /\ j = StopOf(run.plan) /\ run' = Resting
  \/ run.pc = "sealsync" /\ j = PlanOf(run.plan) /\ SeedRefused
  \/ run.pc = "pointsync" /\ j = Active /\ SeedRefused
  \/ run.pc = "abortsync" /\ j = StopOf(run.plan) /\ Leave
  \/ run.pc = "attemptsync" /\ j = Attempts /\ GiveUp
  \/ run.pc = "closesync" /\ j = PlanOf(run.plan) /\ Leave

Damage(j) ==
  \/ UNCHANGED <<file, torn>>
  \/ /\ j \in Unsynced \ gone
     /\ torn' = torn \cup {j}
     /\ file' = [att |-> IF j = Attempts THEN disk.att ELSE file.att,
                 act |-> IF j = Active THEN disk.act ELSE file.act,
                 seal |-> [p \in Plans |-> IF j = PlanOf(p) THEN disk.seal[p] ELSE file.seal[p]],
                 stop |-> [p \in Plans |-> IF j = StopOf(p) THEN disk.stop[p] ELSE file.stop[p]]]

AppendFails ==
  /\ Fault
  /\ \E j \in Journals : Appending(j) /\ Damage(j)
  /\ UNCHANGED <<disk, gone, control, owed, asked, history>>

StopFails ==
  /\ stopper # NoPlan /\ Fault
  /\ Damage(StopOf(stopper))
  /\ stopper' = NoPlan
  /\ UNCHANGED <<disk, gone, slot, active, ready, run, owed, asked, history>>

(* Mutant: the unwinding of the worker is not caught.                      *)
MutPanic ==
  /\ run.pc \in Working /\ Fault
  /\ run' = Resting
  /\ UNCHANGED <<journals, control, owed, asked, history>>

(* A panic of the worker, or a failed append to the plan's own journal:    *)
(* the seal stays InFlight.                                                *)
Panic ==
  /\ run.pc \in Working /\ Fault
  /\ Leave
  /\ UNCHANGED <<journals, control, owed, asked, history>>

(* Someone removes a journal, but never the budget and the activations     *)
(* both: then nothing is left that tells a first start from a later one.   *)
Without(journal, j) ==
  [journal EXCEPT !.act = IF j = Active THEN NoHistory ELSE @,
                  !.seal = [p \in Plans |-> IF j = PlanOf(p) THEN "none" ELSE @[p]]]

Lose(j) ==
  /\ losses < MaxLosses /\ losses' = losses + 1
  /\ j \notin gone /\ ~({Attempts, Active} \subseteq gone \cup {j})
  /\ j \notin Held \/ j = Attempts
  /\ gone' = gone \cup {j} /\ torn' = torn \ {j}
  /\ file' = Without(file, j) /\ disk' = Without(disk, j)
  /\ UNCHANGED <<control, run, owed, asked, history, faults>>

Losable == {Attempts, Active} \cup {PlanOf(p) : p \in Plans}

(* Other pulls land days, and days come to be owed.                        *)
SourceChanges ==
  /\ owed' \in SUBSET Days /\ owed' # owed
  /\ UNCHANGED <<journals, control, run, asked, history, bounds>>

-----------------------------------------------------------------------------
Start == \E p \in Plans : Preflight(p) \/ Prepare(p) \/ ClearStop(p) \/ Refuse(p)

Faults == Die \/ PowerLoss \/ AppendFails \/ StopFails \/ Panic \/ \E j \in Losable : Lose(j)

Next ==
  \/ Start \/ Claim \/ Boot \/ Seed \/ Work \/ Stop \/ StopSync \/ Faults \/ SourceChanges

Spec == Init /\ [][Next]_vars

-----------------------------------------------------------------------------
TypeOK ==
  /\ file \in Contents /\ disk \in Contents
  /\ gone \subseteq Journals /\ torn \subseteq Journals \ gone
  /\ slot \in [running : BOOLEAN, stopping : BOOLEAN]
  /\ active \in Plans \cup {NoPlan} /\ stopper \in Plans \cup {NoPlan}
  /\ run \in Runs
  /\ ready \subseteq Plans /\ owed \subseteq Days
  /\ asked \in [Days -> 0..Limit]
  /\ answered \subseteq Plans /\ unrouted \subseteq answered
  /\ late \in Nat /\ faults \in 0..MaxFaults /\ losses \in 0..MaxLosses

(* The budget of DayBudget, on what the disk keeps: over crashes, torn     *)
(* journals, restarts and overlapping plans a request is sent only out of  *)
(* a durable reservation and no reservation is given back.                 *)
Budget == INSTANCE DayBudget WITH reserved <- [d \in Days |-> disk.att[d].attempts]

KeepsBudget == Budget!Spec

(* A plan is sealed Verified only when no request in its scope is left     *)
(* InFlight, its own or one interrupted under another plan.  A seal of an  *)
(* earlier run that a lost append brings back is not a new one.            *)
Verified(journal, p) == journal.seal[p] = "Verified"

FinishedIsSettled ==
  [][\A p \in Plans :
       Verified(file, p)' /\ ~Verified(file, p) /\ ~Verified(disk, p)
         => \A d \in Scope(p) : file'.att[d].status # "InFlight"]_vars

Resumed(p) == run.pc = "off" /\ run'.pc = "seed" /\ run'.plan = p

(* A restart never resumes a plan whose STOP was recorded and answered.    *)
RecordedStopHolds == [][\A p \in answered \ unrouted : ~Resumed(p)]_vars

(* The run slot is taken exactly as long as a worker carries it, whatever  *)
(* fails or panics on the way: no exit leaves it taken, none frees it early.*)
SlotIsHeldByRun == slot.running <=> run.pc \notin {"off", "up", "clear"}

(* Once STOP is flagged at most the request already under way is sent.     *)
StopIsPrompt == late <= 1
=============================================================================
