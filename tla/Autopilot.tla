----------------------------- MODULE Autopilot -----------------------------
(***************************************************************************)
(* The automatic backfill (api/src/autopilot.rs): one task, fly, that      *)
(* takes every feed's seat, surveys every feed at one rung, asks the feed  *)
(* that owes the oldest month for it (server::broker_run), and settles     *)
(* what came back into that feed's place: carry on, wait, pass the month,  *)
(* halt.  Beside it run what shares its seats and its flags: a press of    *)
(* POST /pull/run, whose legs take one seat each, single pulls that take   *)
(* one seat too, and the operator's pause and resume.                      *)
(*                                                                         *)
(* The store is what a feed's census counts, for each rung and month:      *)
(* Missing when some tracked series hold nothing, Short when all hold      *)
(* something and some not the last finished day, Held when all hold it.    *)
(* Time is the environment's: a stall comes due, a probe comes due, a day  *)
(* ends, when it likes.  blind, pleas, owed and given are history.         *)
(***************************************************************************)
EXTENDS Naturals, Sequences, FiniteSets, FiniteSetsExt, SequencesExt

CONSTANTS
  NFeeds,         \* drivable feeds, in the order of the descriptors
  LastMonth,      \* bound: months the calendar reaches
  Instruments,    \* tracked instruments: broker_run asks them in turn
  MaxAttempts,    \* MAX_MONTH_ATTEMPTS
  DryRounds,      \* DRY_ROUNDS
  Rereads,        \* CREDENTIAL_REREADS
  StallRetries,   \* STALL_RETRIES
  StoreProbes,    \* STORE_PROBES
  DownAt,         \* VENDOR_DOWN_INSTRUMENTS
  MaxTroubled,    \* bound: sweeps in which an instrument may fail (a credential once
                  \* refused may stay dead beyond it)
  MaxEvents       \* bound: what the operator, other pulls and the world do

Feeds == 1..NFeeds
Months == 1..LastMonth
Rungs == {"day", "minute"}
Missing == 0
Short == 1
Held == 2

ASSUME AutopilotAssumption ==
  /\ {NFeeds, LastMonth, Instruments, MaxAttempts, DryRounds, DownAt} \subseteq Nat \ {0}
  /\ {Rereads, StallRetries, StoreProbes, MaxTroubled, MaxEvents} \subseteq Nat

VARIABLES
  pc, rung, unit, at,      \* the task: where it is, its rung, its unit, the epoch it captured
  sweep,                   \* the run so far
  feeds,                   \* FeedState, for each feed
  seats,                   \* Control::seats, as a set
  paused, epoch,           \* Control::paused, Control::epoch
  reported,                \* the feeds the published reports call halted
  claim,                   \* whether the page says that nothing is missing
  held, census, today,     \* the store, the censuses, the month of yesterday
  pressing, leg, single,   \* site.run; a press's legs and the other pulls, by feed
  troubled, events,
  blind, pleas, owed, given

task == <<pc, rung, unit, at, sweep>>
control == <<paused, epoch>>
world == <<held, census, today>>
hands == <<pressing, leg, single>>
history == <<blind, pleas, owed, given>>
vars == <<task, feeds, seats, control, reported, claim, world, hands, troubled, events, history>>

NoUnit == [feed |-> 0, month |-> 0]
Fresh == [frontier |-> 1, attempts |-> 0, dry |-> 0, rereads |-> Rereads,
          halt |-> "none", probes |-> 0, stalls |-> <<>>]
Ready == [asked |-> 0, reached |-> FALSE, stored |-> FALSE, down |-> 0,
          reason |-> "none", stopped |-> FALSE, yield |-> "landed", trouble |-> FALSE, late |-> FALSE]

Init ==
  /\ pc = "top" /\ rung = "minute" /\ unit = NoUnit /\ at = 0 /\ sweep = Ready
  /\ feeds = [f \in Feeds |-> Fresh]
  /\ seats = {} /\ paused = FALSE /\ epoch = 0
  /\ reported = {} /\ claim = FALSE
  /\ held = [f \in Feeds |-> [r \in Rungs |-> [m \in Months |-> Missing]]]
  /\ census = [f \in Feeds |-> "held"] /\ today = 1
  /\ pressing = FALSE /\ leg = [f \in Feeds |-> "none"] /\ single = [f \in Feeds |-> FALSE]
  /\ troubled = 0 /\ events = 0
  /\ blind = 0 /\ pleas = [f \in Feeds |-> 0] /\ owed = {}
  /\ given = [f \in Feeds |-> {}]

-----------------------------------------------------------------------------
(* One feed's place.                                                       *)

\* Mutant: a month that is passed gives the credential its second read back.
MutClearMonth(s) == [s EXCEPT !.attempts = 0, !.dry = 0, !.rereads = Rereads]
ClearMonth(s) == [s EXCEPT !.attempts = 0, !.dry = 0]
Halt(s, kind) == [s EXCEPT !.halt = kind, !.probes = 0]
Revive(s) == [ClearMonth(s) EXCEPT !.halt = "none", !.probes = 0, !.rereads = Rereads]

(* What a feed owes at a rung: next_window answers for every month that is *)
(* not held, and a census that is not there counts nothing.                *)
Owes(f, r, m) == m <= today /\ held[f][r][m] # Held

(* frontier: the first month from the hint on that is owed, or the month   *)
(* after the last.                                                         *)
Scanned(f, r, hint) == Min({m \in hint..today : Owes(f, r, m)} \cup {Max({hint, today + 1})})

(* A round that stored nothing and met no fault is counted.                *)
\* Mutant: it is not.
MutBarren(s) == s
Barren(s) == [s EXCEPT !.dry = @ + 1]

(* observe: what a tick did, to what follows and the state it leaves.      *)
Observe(s, out) ==
  LET better == [ClearMonth(s) EXCEPT !.rereads = Rereads]
      failed == [s EXCEPT !.attempts = @ + 1]
      barren == Barren(s)
      stall == [month |-> s.frontier, retried |-> 0, age |-> "new"]
  IN  IF out.reason = "Credential" /\ ~out.reached
      THEN IF s.rereads > 0 THEN [next |-> "Retry", state |-> [s EXCEPT !.rereads = @ - 1]]
           ELSE [next |-> "Halt", state |-> Halt(s, "Credential")]
      ELSE IF out.stopped THEN [next |-> "Retry", state |-> s]
      ELSE IF out.complete THEN [next |-> "Advance", state |-> better]
      ELSE IF out.stored THEN [next |-> "Retry", state |-> better]
      ELSE IF out.reason = "Store" /\ s.attempts > 0
      THEN [next |-> "Halt", state |-> Halt(s, "Store")]
      ELSE IF out.reason # "none"
      THEN IF failed.attempts < MaxAttempts THEN [next |-> "Wait", state |-> failed]
           ELSE [next |-> "Stall", state |-> [ClearMonth(s) EXCEPT !.stalls = Append(@, stall)]]
      ELSE IF barren.dry >= DryRounds THEN [next |-> "Advance", state |-> ClearMonth(s)]
      ELSE [next |-> "Retry", state |-> barren]

(* reconsider: stamp the stalls not seen before, then put the oldest due   *)
(* month of any feed still driven back, once.                              *)
Stamped(s) == [s EXCEPT !.stalls =
  [n \in DOMAIN @ |-> IF @[n].age = "new" THEN [@[n] EXCEPT !.age = "waiting"] ELSE @[n]]]

DueStalls(table) == UNION {{<<f, n>> : n \in {n \in DOMAIN table[f].stalls :
    /\ table[f].halt = "none"
    /\ table[f].stalls[n].age = "due" /\ table[f].stalls[n].retried < StallRetries}} : f \in Feeds}

(* The stalls with one of them replaced.  A function of its own: TLC 1.7.4 *)
(* may lose an EXCEPT over a function it has not evaluated yet.            *)
Restalled(stalls, n, stall) == [k \in DOMAIN stalls |-> IF k = n THEN stall ELSE stalls[k]]

PutBack(s, n) ==
  LET stall == s.stalls[n]
      again == [stall EXCEPT !.retried = @ + 1, !.age = "waiting"]
  IN  [ClearMonth(s) EXCEPT !.frontier = stall.month, !.stalls = Restalled(s.stalls, n, again)]

-----------------------------------------------------------------------------
(* The task.                                                               *)

(* fly: a paused task only dwells; the rung is flipped before the round,   *)
(* and the round looks for a press first, under the lock of site.run.  How *)
(* long the task waits before it begins again is left out.                 *)
\* Mutant: the round takes its seats whatever site.run says.
MutBegin ==
  /\ pc = "top" /\ ~paused
  /\ rung' = IF rung = "day" THEN "minute" ELSE "day"
  /\ pc' = "seats" /\ UNCHANGED claim
  /\ UNCHANGED <<unit, at, sweep, feeds, seats, control, reported, world, hands,
                 troubled, events, history>>
Begin ==
  /\ pc = "top" /\ ~paused
  /\ rung' = IF rung = "day" THEN "minute" ELSE "day"
  /\ IF pressing THEN claim' = FALSE /\ UNCHANGED pc ELSE pc' = "seats" /\ UNCHANGED claim
  /\ UNCHANGED <<unit, at, sweep, feeds, seats, control, reported, world, hands,
                 troubled, events, history>>

(* It stands off from a pull that holds a seat (take_every_seat).          *)
StandOff ==
  /\ pc = "seats" /\ seats # {}
  /\ pc' = "top" /\ claim' = FALSE
  /\ UNCHANGED <<rung, unit, at, sweep, feeds, seats, control, reported, world, hands,
                 troubled, events, history>>

(* probe_store_halts, on one feed: the next probe is not due, succeeds or  *)
(* fails.                                                                  *)
Probed(s, probe) ==
  IF s.halt # "Store" \/ s.probes >= StoreProbes \/ probe = "later" THEN s
  ELSE IF probe = "ok" THEN Revive(s) ELSE [s EXCEPT !.probes = @ + 1]

(* survey, on one feed.                                                    *)
\* Mutant: whatever halted a feed, a manifest that loads brings it back.
MutRecovers(f, s) == s.halt # "none" /\ census[f] = "held"
Recovers(f, s) == s.halt = "Census" /\ census[f] = "held"
Surveyed(f, s) ==
  LET live == IF Recovers(f, s) THEN Revive(s) ELSE s
  IN  IF live.halt # "none" THEN live
      ELSE IF census[f] = "unreadable" THEN Halt(live, "Census")
      ELSE [live EXCEPT !.frontier = Scanned(f, rung, @)]

(* The feeds that owe a month, and of them the one that owes the oldest.   *)
\* Mutant: a feed whose last round was dry is left out.
MutCandidates(table) ==
  {f \in Feeds : /\ table[f].halt = "none" /\ table[f].dry = 0
                 /\ Owes(f, rung, table[f].frontier)}
Candidates(table) ==
  {f \in Feeds : table[f].halt = "none" /\ Owes(f, rung, table[f].frontier)}
Oldest(table, some) ==
  Min({f \in some : \A g \in some : table[f].frontier <= table[g].frontier})

(* The branch with nothing to choose: the oldest stalled month that is due *)
(* is put back, or the page says that nothing is missing, unless every     *)
(* feed is halted.                                                         *)
Reconsidered(table) ==
  LET due == DueStalls(table)
      month(x) == table[x[1]].stalls[x[2]].month
      oldest == {x \in due : \A y \in due : month(x) <= month(y)}
      first == CHOOSE x \in oldest : \A y \in oldest : x[1] < y[1] \/ (x[1] = y[1] /\ x[2] <= y[2])
  IN  IF due = {} THEN table ELSE [table EXCEPT ![first[1]] = PutBack(@, first[2])]

(* The seats of a round that finds nothing to do are dropped with it.      *)
Rests == pc' = "top" /\ UNCHANGED <<seats, unit>>

Nothing(table, terminal) ==
  LET stamped == [f \in Feeds |-> Stamped(table[f])]
      complete == ~terminal /\ DueStalls(stamped) = {}
      missing == {f \in Feeds : table[f].halt = "none" /\
                    \E r \in Rungs, m \in Months \ given[f] : Owes(f, r, m)}
  IN  /\ feeds' = IF terminal THEN table ELSE Reconsidered(stamped)
      /\ claim' = complete
      /\ owed' = IF complete THEN missing ELSE owed
      /\ Rests

(* Every seat at once, the probes, the survey, and what is chosen.         *)
Survey ==
  \E probes \in [{f \in Feeds : feeds[f].halt = "Store"} -> {"later", "ok", "bad"}] :
    LET table == [f \in Feeds |-> Surveyed(f, IF f \in DOMAIN probes
                                              THEN Probed(feeds[f], probes[f]) ELSE feeds[f])]
        some == Candidates(table)
        halted == {f \in Feeds : table[f].halt # "none"}
    IN  /\ pc = "seats" /\ seats = {}
        /\ reported' = halted
        /\ pleas' = [f \in Feeds |-> IF feeds[f].halt # "none" /\ f \notin halted
                                     THEN 0 ELSE pleas[f]]
        /\ IF some = {} THEN Nothing(table, halted = Feeds)
           ELSE LET f == Oldest(table, some)
                IN  /\ unit' = [feed |-> f, month |-> table[f].frontier]
                    /\ feeds' = table /\ claim' = FALSE /\ pc' = "ask" /\ seats' = Feeds
                    /\ UNCHANGED owed
        /\ blind' = IF pressing THEN blind + 1 ELSE blind
        /\ UNCHANGED <<rung, at, sweep, control, world, hands, troubled, events, given>>

(* settle, and the end of the round: the seats are dropped.  level is what *)
(* the store holds of the month when it is probed again.                   *)
Settle(out, level) ==
  LET f == unit.feed
      graded == [out EXCEPT !.complete = level = Held /\ census[f] # "unreadable"]
      seen == Observe(feeds[f], graded)
      passes == seen.next \in {"Advance", "Stall"}
      refused == graded.reason = "Credential" /\ ~graded.reached
  IN  /\ feeds' = [feeds EXCEPT ![f] = [seen.state EXCEPT !.frontier = IF passes THEN @ + 1 ELSE @]]
      /\ held' = [held EXCEPT ![f][rung][unit.month] = level]
      /\ census' = IF graded.stored THEN [census EXCEPT ![f] = "held"] ELSE census
      /\ pc' = "top" /\ seats' = {} /\ unit' = NoUnit /\ sweep' = Ready /\ at' = 0
      /\ pleas' = [pleas EXCEPT ![f] = IF refused THEN @ + 1
                                       ELSE IF out.stopped \/ ~out.stored THEN @ ELSE 0]
      /\ given' = IF passes /\ ~graded.complete
                  THEN [given EXCEPT ![f] = @ \cup {unit.month}] ELSE given
      /\ UNCHANGED <<rung, control, reported, claim, today, hands, events, blind, owed>>

(* broker_run: the pull order is checked against a fresh census before any *)
(* socket, and a run it admits captures the epoch.                         *)
OutOfOrder ==
  \/ census[unit.feed] = "unreadable"
  \/ rung = "minute" /\ held[unit.feed]["day"][unit.month] = Missing

Outcome(run) == [reached |-> run.reached, stored |-> run.stored, reason |-> run.reason,
                 stopped |-> run.stopped, complete |-> FALSE]
Refused == Outcome([Ready EXCEPT !.reason = "Transport"])

Ask ==
  /\ pc = "ask"
  /\ IF OutOfOrder
     THEN /\ Settle(Refused, held[unit.feed][rung][unit.month])
          /\ UNCHANGED troubled
     ELSE /\ pc' = "sweep" /\ at' = epoch
          /\ \E trouble \in BOOLEAN,
                yield \in {"landed", "none"} \cup IF pleas[unit.feed] > 0 THEN {"Credential"} ELSE {} :
               /\ trouble => troubled < MaxTroubled
               /\ sweep' = [Ready EXCEPT !.trouble = trouble, !.yield = yield]
               /\ troubled' = IF trouble THEN troubled + 1 ELSE troubled
          /\ UNCHANGED <<rung, unit, feeds, seats, control, reported, claim, world, hands,
                         events, history>>

(* One instrument: its bars land or the vendor has none (the same for the  *)
(* whole run: one that has to be repeated met a trouble or the end of a    *)
(* day), they cannot be counted, the vendor refuses it for this or that, or*)
(* the store does.  DownAt instruments in a row that the vendor failed     *)
(* stop the run, as the operator does; no answer of a bars request carries *)
(* the mark this counts, so "down" is more than the code does today.       *)
Good == IF sweep.yield = "landed" /\ census[unit.feed] = "unreadable" THEN "uncounted"
        ELSE sweep.yield
Kinds == {Good} \cup IF sweep.trouble THEN {"down", "Transport", "Credential", "Store"} ELSE {}

Reason(kind) == CASE kind \in {"landed", "none"} -> "none"
                  [] kind \in {"down", "uncounted"} -> "Transport"
                  [] OTHER -> kind

Answered(kind) ==
  LET down == IF kind = "down" THEN sweep.down + 1 ELSE 0
  IN  [sweep EXCEPT !.asked = @ + 1, !.down = down,
                    !.reached = @ \/ kind \in {"landed", "none", "uncounted", "Store"},
                    !.stored = @ \/ kind = "landed",
                    !.reason = IF @ = "none" THEN Reason(kind) ELSE @,
                    !.stopped = down >= DownAt]

Sweeping == pc = "sweep" /\ ~sweep.stopped /\ sweep.asked < Instruments

AskInstrument ==
  /\ Sweeping
  /\ IF epoch # at
     THEN sweep' = [sweep EXCEPT !.stopped = TRUE, !.reason = IF @ = "none" THEN "Transport" ELSE @]
     ELSE \E kind \in Kinds : sweep' = Answered(kind)
  /\ UNCHANGED <<pc, rung, unit, at, feeds, seats, control, reported, claim, world, hands,
                 troubled, events, history>>

(* What a run leaves in the store: the whole month if nothing stood in its *)
(* way, less if something did, and never the last finished day of a month  *)
(* that had another end meanwhile.                                         *)
Levels(now) ==
  LET best == IF sweep.late THEN Max({now, Short}) ELSE Held
  IN  IF ~sweep.stored THEN {now} ELSE IF sweep.reason = "none" THEN {best} ELSE now..best

EndSweep ==
  /\ pc = "sweep" /\ ~Sweeping
  /\ \E level \in Levels(held[unit.feed][rung][unit.month]) : Settle(Outcome(sweep), level)
  /\ UNCHANGED troubled

Fly == Begin \/ StandOff \/ Survey \/ Ask \/ AskInstrument \/ EndSweep

-----------------------------------------------------------------------------
(* Those who share its seats and its flags, and the world.                 *)

An == events < MaxEvents /\ events' = events + 1

(* conduct: a press takes site.run, sends a leg for every feed, each of    *)
(* which takes that feed's seat or is refused and comes again, and leaves. *)
Press ==
  /\ An /\ ~pressing
  /\ pressing' = TRUE /\ leg' = [f \in Feeds |-> "wants"] /\ blind' = 0
  /\ UNCHANGED <<task, feeds, seats, control, reported, claim, world, single, troubled,
                 pleas, owed, given>>

(* take_seat.                                                              *)
Take(f) == f \notin seats /\ seats' = seats \cup {f}

TakeLegSeat(f) ==
  /\ leg[f] = "wants" /\ Take(f)
  /\ leg' = [leg EXCEPT ![f] = "pulls"]
  /\ UNCHANGED <<task, feeds, control, reported, claim, world, pressing, single,
                 troubled, events, history>>

(* What a leg stores is what a single pull may store.                      *)
\* Mutant: the leg that ends drops every seat.
MutEndLeg(f) ==
  /\ leg[f] = "pulls" /\ seats' = {}
  /\ leg' = [leg EXCEPT ![f] = "none"]
  /\ UNCHANGED <<task, feeds, control, reported, claim, world, pressing, single, troubled,
                 events, history>>
EndLeg(f) ==
  /\ leg[f] = "pulls" /\ seats' = seats \ {f}
  /\ leg' = [leg EXCEPT ![f] = "none"]
  /\ UNCHANGED <<task, feeds, control, reported, claim, world, pressing, single, troubled,
                 events, history>>

EndPress ==
  /\ pressing /\ \A f \in Feeds : leg[f] = "none"
  /\ pressing' = FALSE
  /\ UNCHANGED <<task, feeds, seats, control, reported, claim, world, leg, single, troubled,
                 events, history>>

(* POST /pull/spot and recovery_spot: one seat, or a refusal; it leaves     *)
(* nothing behind, or a month its census counts.                           *)
BeginSingle(f) ==
  /\ An /\ ~single[f] /\ Take(f)
  /\ single' = [single EXCEPT ![f] = TRUE]
  /\ UNCHANGED <<task, feeds, control, reported, claim, world, pressing, leg, troubled, history>>

EndSingle(f) ==
  /\ single[f] /\ seats' = seats \ {f}
  /\ single' = [single EXCEPT ![f] = FALSE]
  /\ \/ UNCHANGED held
     \/ census[f] = "held" /\ \E r \in Rungs, m \in 1..today : held' = [held EXCEPT ![f][r][m] = Held]
  /\ UNCHANGED <<task, feeds, control, reported, claim, census, today, pressing, leg, troubled,
                 events, history>>

(* The two controls.  admit_resume refuses when every reported feed is     *)
(* halted.                                                                 *)
Pause ==
  /\ An
  /\ paused' = TRUE /\ epoch' = epoch + 1 /\ claim' = FALSE
  /\ UNCHANGED <<task, feeds, seats, reported, world, hands, troubled, history>>

Resume ==
  /\ paused /\ reported # Feeds
  /\ paused' = FALSE
  /\ UNCHANGED <<task, feeds, seats, epoch, reported, claim, world, hands, troubled, events,
                 history>>

(* A manifest that no longer loads, is repaired, or is taken away.         *)
CensusTurns(f) ==
  /\ \/ An /\ census[f] = "held" /\ census' = [census EXCEPT ![f] = "unreadable"] /\ UNCHANGED held
     \/ census[f] = "unreadable" /\ census' = [census EXCEPT ![f] = "held"] /\ UNCHANGED <<held, events>>
     \/ /\ census[f] = "unreadable" /\ census' = [census EXCEPT ![f] = "absent"]
        /\ UNCHANGED events
        /\ held' = [held EXCEPT ![f] = [r \in Rungs |-> [m \in Months |-> Missing]]]
  /\ UNCHANGED <<task, feeds, seats, control, reported, claim, today, hands, troubled, history>>

(* A day ends in the month, or a month does.                               *)
DayEnds ==
  /\ An
  /\ held' = [f \in Feeds |-> [r \in Rungs |->
                [held[f][r] EXCEPT ![today] = IF @ = Held THEN Short ELSE @]]]
  /\ sweep' = [sweep EXCEPT !.late = @ \/ (pc = "sweep" /\ unit.month = today)]
  /\ UNCHANGED <<pc, rung, unit, at, feeds, seats, control, reported, claim, census, today,
                 hands, troubled, history>>

MonthEnds ==
  /\ An /\ today < LastMonth /\ today' = today + 1
  /\ UNCHANGED <<task, feeds, seats, control, reported, claim, held, census, hands, troubled,
                 history>>

(* STALL_RECHECK_SECS pass for a stall that has been stamped.              *)
StallComesDue ==
  /\ An
  /\ \E f \in Feeds : \E n \in DOMAIN feeds[f].stalls :
       /\ feeds[f].stalls[n].age = "waiting"
       /\ feeds' = [feeds EXCEPT ![f].stalls = Restalled(@, n, [@[n] EXCEPT !.age = "due"])]
  /\ UNCHANGED <<task, seats, control, reported, claim, world, hands, troubled, history>>

World == Pause \/ Resume \/ DayEnds \/ MonthEnds \/ StallComesDue \/
         \E f \in Feeds : CensusTurns(f)
Hands == Press \/ EndPress \/
         \E f \in Feeds : TakeLegSeat(f) \/ EndLeg(f) \/ BeginSingle(f) \/ EndSingle(f)

Next == Fly \/ World \/ Hands
Spec == Init /\ [][Next]_vars

(* Fairness: the task runs on, a pull ends, and the conductor sends a      *)
(* refused leg again; nobody owes a press, a pause, a resume or a repair.  *)
FairSpec ==
  /\ Spec /\ WF_vars(Fly) /\ WF_vars(EndPress)
  /\ \A f \in Feeds : WF_vars(TakeLegSeat(f)) /\ WF_vars(EndLeg(f)) /\ WF_vars(EndSingle(f))

-----------------------------------------------------------------------------
(* Properties.                                                             *)

InRound == pc \in {"ask", "sweep"}

(* A feed is pulled by one at a time: the round that holds every seat, a   *)
(* leg of a press or a single pull; and a seat that nobody pulls under is  *)
(* free (take_seat, take_every_seat and their drops over one mask).        *)
OnePullPerFeed ==
  \A f \in Feeds :
    LET pulls == {w \in {"round", "leg", "single"} :
                    CASE w = "round" -> InRound [] w = "leg" -> leg[f] = "pulls"
                      [] OTHER -> single[f]}
    IN  Cardinality(pulls) <= 1 /\ (f \in seats <=> pulls # {})

(* A press that has begun meets at most one round: the one that had looked *)
(* for a press before it came (round reads site.run first because a press  *)
(* leaves its seats between legs).                                         *)
OneRoundPerPress == blind <= 1

(* A feed whose every instrument answers that the credential is dead is    *)
(* asked Rereads times more and then no more, whatever dry rounds, stops,  *)
(* other rungs and passed months lie between (observe's first arm).        *)
DeadTokenIsReread == \A f \in Feeds : pleas[f] <= Rereads + 1

(* What a credential halted stays as it is for the life of the process: no *)
(* survey, probe, repaired census, reconsideration or resume brings it     *)
(* back or asks it for anything.                                           *)
DeadFeedRests ==
  [][\A f \in Feeds : feeds[f].halt = "Credential" =>
       /\ [feeds'[f] EXCEPT !.stalls = <<>>] = [feeds[f] EXCEPT !.stalls = <<>>]
       /\ pc' = "sweep" => unit'.feed # f]_vars

(* The frontier of a feed goes back only to a month it stalled on, by one  *)
(* feed at a time, and only when no feed that can be asked owes anything   *)
(* from its own frontier on (reconsider is reached from the idle branch).  *)
BackOnlyWhenIdle ==
  [][\A f \in Feeds : feeds'[f].frontier < feeds[f].frontier =>
       /\ \E n \in DOMAIN feeds[f].stalls : feeds[f].stalls[n].month = feeds'[f].frontier
       /\ \A g \in Feeds \ {f} :
            /\ feeds'[g].frontier >= feeds[g].frontier
            /\ feeds'[g].halt = "none" => \A m \in feeds[g].frontier..today : ~Owes(g, rung, m)]_vars

(* The ladder comes to its end: unless the task is left paused, in the end *)
(* every feed is halted or owes nothing from its frontier on at either     *)
(* rung, so that no retry, dry round, refusal of the pull order or         *)
(* reconsideration goes round for ever.                                    *)
LadderEnds ==
  <>[](paused \/ \A f \in Feeds : feeds[f].halt # "none" \/
         \A r \in Rungs, m \in Months : m >= feeds[f].frontier => ~Owes(f, r, m))

(* What the page says when nothing is chosen (Settled::say): "nothing is   *)
(* missing that any feed can still be asked for ... The store is complete  *)
(* through the newest finished day".  The code does not keep it.           *)
IdleIsComplete == owed = {}
=============================================================================
