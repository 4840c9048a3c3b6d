------------------------------ MODULE PullRun ------------------------------
(***************************************************************************)
(* A pull run (api/src/pullrun.rs): one press starts a conductor that asks *)
(* every leg of every feed again, pass after pass, until the operator      *)
(* stops it, every feed is refused for good, the passes run out, or enough *)
(* clean passes in a row added nothing.  The feeds of a pass run side by   *)
(* side, the legs of a feed in turn.  slot is site.run, which pull_run and *)
(* pull_run_stop (server.rs) share with every conductor.                   *)
(*                                                                         *)
(* Whether a pass grew the store is a choice: the legs, other writers and  *)
(* vendors decide it.  failed, since, seen, lost and observed are history. *)
(***************************************************************************)
EXTENDS Naturals, Sequences, FiniteSets

CONSTANTS
  Runs,             \* presses of POST /pull/run
  Feeds,            \* vendors
  Legs,             \* the legs of a press, in the order they were ticked
  MaxPasses,        \* MAX_PASSES
  CleanEmptyPasses, \* CLEAN_EMPTY_PASSES
  MaxPanics         \* bound: chains and conductors that panic

Routes == {"spot", "fno"}
Ranks == 0..5       \* ladder_rank: 1day, 1min, 1s, futures, options, unknown

ASSUME PullRunAssumption ==
  /\ Legs \in Seq([feed : Feeds, rank : Ranks, route : Routes])
  /\ Feeds = {Legs[i].feed : i \in DOMAIN Legs}
  /\ MaxPasses \in Nat \ {0} /\ CleanEmptyPasses \in Nat \ {0} /\ MaxPanics \in Nat

VARIABLES
  slot,        \* site.run
  con,         \* the conductors
  chain,       \* the chains they spawned, for each feed
  marks,       \* checkpoints: legs with a clean receipt
  failed,      \* legs whose last answer was not clean
  since,       \* legs answered clean since the last pass of everything began
  seen,        \* legs answered clean in this pass
  lost,        \* feeds whose chain died in a request of this pass
  observed,    \* passes in a row that saw everything clean and added nothing
  panics

history == <<failed, since, seen, lost, observed>>
vars == <<slot, con, chain, marks, history, panics>>

(* by_feed: the legs of a feed, sorted by rung and as ticked within one;   *)
(* the n-th is the one with n - 1 before it.                               *)
Ticked(f) == {i \in DOMAIN Legs : Legs[i].feed = f}
Before(i, j) == Legs[i].rank < Legs[j].rank \/ (Legs[i].rank = Legs[j].rank /\ i < j)
Preceding(f, i) == {j \in Ticked(f) : Before(j, i)}

Group == [f \in Feeds |->
  [n \in 1..Cardinality(Ticked(f)) |->
     Legs[CHOOSE i \in Ticked(f) : Cardinality(Preceding(f, i)) = n - 1]]]

Passing == {"Clean", "Retry", "Halted"}
Outcomes == {"Stored", "Empty", "Retry", "Permanent", "Credential"}
Terminal == {"Permanent", "Credential"}
Answers == [status : {200, 400, 401, 403, 404, 409, 422, 500},
            badge : {"STORED", "EMPTY", "REFUSED", "other"}, fault : BOOLEAN]

(* leg_outcome, on the status, the first badge and whether the page speaks *)
(* of a credential.                                                        *)
LegOutcome(answer) ==
  LET good == answer.status = 200
      permanent == \/ answer.status \in {404, 422}
                   \/ answer.status = 400 /\ answer.badge = "REFUSED"
  IN  IF answer.status \in {401, 403} \/ (~good /\ answer.fault) THEN "Credential"
      ELSE IF permanent THEN "Permanent"
      ELSE IF good /\ answer.badge = "STORED" THEN "Stored"
      ELSE IF good /\ answer.badge = "EMPTY" THEN "Empty"
      ELSE IF answer.fault THEN "Credential" ELSE "Retry"

Report == [dead |-> FALSE, done |-> 0, skipped |-> 0, finished |-> FALSE]
Claimed == [running |-> TRUE, stopping |-> FALSE, feeds |-> [f \in {} |-> Report]]
NeverRan == [Claimed EXCEPT !.running = FALSE]

Quiet == [place |-> "none", at |-> 1, rank |-> {}, result |-> "Clean", attempted |-> 0]
Waiting == [place |-> "new", outcomes |-> [f \in Feeds |-> "Clean"], passes |-> 0,
            clean_empty |-> 0, repairing |-> FALSE]
Unmarked == [f \in Feeds |-> {}]

(* with_progress: an edit of one feed's report, if the slot has one.       *)
Edit(f, report) ==
  slot' = IF f \in DOMAIN slot.feeds THEN [slot EXCEPT !.feeds[f] = report] ELSE slot

Init ==
  /\ slot = NeverRan
  /\ con = [r \in Runs |-> Waiting]
  /\ chain = [r \in Runs |-> [f \in Feeds |-> Quiet]]
  /\ marks = [r \in Runs |-> Unmarked]
  /\ failed = [r \in Runs |-> Unmarked] /\ since = [r \in Runs |-> Unmarked]
  /\ seen = [r \in Runs |-> Unmarked]
  /\ lost = [r \in Runs |-> {}]
  /\ observed = [r \in Runs |-> 0]
  /\ panics = 0

-----------------------------------------------------------------------------
(* The operator                                                            *)

(* pull_run: checked and claimed under one take of the lock.               *)
Press(r) ==
  /\ con[r].place = "new" /\ ~slot.running
  /\ slot' = Claimed
  /\ con' = [con EXCEPT ![r].place = "claimed"]
  /\ UNCHANGED <<chain, marks, history, panics>>

(* pull_run_stop, for a run that is no recovery.                           *)
Stop ==
  /\ slot.running /\ ~slot.stopping
  /\ slot' = [slot EXCEPT !.stopping = TRUE]
  /\ UNCHANGED <<con, chain, marks, history, panics>>

-----------------------------------------------------------------------------
(* conduct_with                                                            *)

Begin(r) ==
  /\ con[r].place = "claimed"
  /\ slot' = [slot EXCEPT !.feeds = [f \in Feeds |-> Report]]
  /\ con' = [con EXCEPT ![r].place = "head"]
  /\ UNCHANGED <<chain, marks, history, panics>>

(* Mutant: a pass that only repaired counts as an observation.             *)
MutDecide(r) ==
  LET goes == con[r].passes < MaxPasses /\ ~slot.stopping
  IN  /\ con[r].place = "head"
      /\ con' = [con EXCEPT ![r].place = IF goes THEN "pass" ELSE "close"]
      /\ UNCHANGED <<slot, chain, marks, history, panics>>

Decide(r) ==
  LET goes == con[r].passes < MaxPasses /\ ~slot.stopping
      repairing == \E f \in Feeds : con[r].outcomes[f] = "Retry"
  IN  /\ con[r].place = "head"
      /\ con' = [con EXCEPT ![r].place = IF goes THEN "pass" ELSE "close",
                            ![r].repairing = repairing]
      /\ UNCHANGED <<slot, chain, marks, history, panics>>

Dead(f) == f \in DOMAIN slot.feeds /\ slot.feeds[f].dead

(* Mutant: a feed that recovered is reopened while others still retry.     *)
MutReopened(r, f) == con[r].outcomes[f] # "Retry"

(* Clean legs are asked again once no feed is left to retry.               *)
Reopened(r, f) == \A g \in Feeds : con[r].outcomes[g] # "Retry"

(* run_pass, its stop check and its spawn loop.                            *)
OpenPass(r) ==
  LET flies == {f \in Feeds : con[r].outcomes[f] # "Halted" /\ ~Dead(f)}
      reopened == {f \in flies : Reopened(r, f)}
      all == \A f \in Feeds : con[r].outcomes[f] # "Retry"
  IN  /\ con[r].place = "pass"
      /\ \/ /\ slot.stopping
            /\ con' = [con EXCEPT ![r].place = "judge"]
            /\ UNCHANGED <<slot, chain, marks, since, seen, lost>>
         \/ /\ ~slot.stopping
            /\ con' = [con EXCEPT ![r].place = "flying",
                 ![r].outcomes = [f \in Feeds |-> IF f \in flies THEN @[f] ELSE "Halted"]]
            /\ marks' = [marks EXCEPT ![r] =
                 [f \in Feeds |-> IF f \in reopened THEN {} ELSE @[f]]]
            /\ slot' = [slot EXCEPT !.feeds =
                 [f \in DOMAIN @ |-> IF f \in flies THEN Report ELSE @[f]]]
            /\ chain' = [chain EXCEPT ![r] =
                 [f \in Feeds |-> IF f \in flies THEN [Quiet EXCEPT !.place = "next"] ELSE Quiet]]
            /\ seen' = [seen EXCEPT ![r] = Unmarked]
            /\ lost' = [lost EXCEPT ![r] = @ \ flies]
            /\ since' = [since EXCEPT ![r] = IF all THEN Unmarked ELSE @]
      /\ UNCHANGED <<failed, observed, panics>>

(* What an await of a chain gives: a chain that panicked is to be retried. *)
Joined(r, f) ==
  CASE chain[r][f].place = "ended" -> chain[r][f].result
    [] chain[r][f].place = "dead" -> "Retry"
    [] OTHER -> con[r].outcomes[f]

(* Mutant: the request a chain died in counts as skipped.                  *)
MutAutopsy(r, f) ==
  [slot.feeds[f] EXCEPT !.skipped = Len(Group[f]) - slot.feeds[f].done, !.finished = TRUE]

(* note_dead_chain counts the legs the chain never came to; the request it *)
(* died in is neither done nor skipped.                                    *)
Autopsy(r, f) ==
  LET report == slot.feeds[f]
      interrupted == IF chain[r][f].attempted > report.done THEN 1 ELSE 0
  IN  [report EXCEPT !.skipped = Len(Group[f]) - (report.done + interrupted),
                     !.finished = TRUE]

JoinPass(r) ==
  /\ con[r].place = "flying"
  /\ \A f \in Feeds : chain[r][f].place \in {"none", "ended", "dead"}
  /\ con' = [con EXCEPT ![r].place = "judge",
                        ![r].outcomes = [f \in Feeds |-> Joined(r, f)]]
  /\ slot' = [slot EXCEPT !.feeds =
       [f \in DOMAIN @ |-> IF chain[r][f].place = "dead" THEN Autopsy(r, f) ELSE @[f]]]
  /\ chain' = [chain EXCEPT ![r] = [f \in Feeds |-> Quiet]]
  /\ UNCHANGED <<marks, history, panics>>

Complete(r, f) == con[r].outcomes[f] = "Halted" \/ seen[r][f] = DOMAIN Group[f]

(* The end of a pass: stop, everyone halted, growth, failures, a repair,   *)
(* and only then an idle pass.                                             *)
Judge(r) ==
  LET c == con[r]
      over == slot.stopping \/ \A f \in Feeds : c.outcomes[f] = "Halted"
      retrying == \E f \in Feeds : c.outcomes[f] = "Retry"
      Go(place, n) == con' = [con EXCEPT ![r].place = place, ![r].passes = @ + 1,
                                         ![r].clean_empty = n]
  IN  /\ c.place = "judge"
      /\ \E grew \in BOOLEAN :
           /\ CASE over -> Go("close", c.clean_empty)
                [] ~over /\ (grew \/ retrying \/ c.repairing) -> Go("head", 0)
                [] OTHER -> Go(IF c.clean_empty + 1 >= CleanEmptyPasses THEN "close" ELSE "head",
                               c.clean_empty + 1)
           /\ observed' = [observed EXCEPT ![r] =
                IF ~grew /\ \A f \in Feeds : Complete(r, f) THEN @ + 1 ELSE 0]
      /\ UNCHANGED <<slot, chain, marks, failed, since, seen, lost, panics>>

(* The summary is written and the lock let go; the Finisher drops after it.*)
Close(r) ==
  /\ con[r].place = "close"
  /\ slot' = [slot EXCEPT !.running = FALSE]
  /\ con' = [con EXCEPT ![r].place = "drop"]
  /\ UNCHANGED <<chain, marks, history, panics>>

(* Mutant: the Finisher leaves the slot to the summary.                    *)
MutDropFinisher(r) ==
  /\ con[r].place = "drop"
  /\ con' = [con EXCEPT ![r].place = "done"]
  /\ UNCHANGED <<slot, chain, marks, history, panics>>

(* Finisher: whatever run holds the slot by then is marked finished.       *)
DropFinisher(r) ==
  /\ con[r].place = "drop"
  /\ slot' = [slot EXCEPT !.running = FALSE]
  /\ con' = [con EXCEPT ![r].place = "done"]
  /\ UNCHANGED <<chain, marks, history, panics>>

-----------------------------------------------------------------------------
(* run_chain                                                               *)

Here(r, f) == Group[f][chain[r][f].at]

(* Mutant: a failed rung holds back the options only.                      *)
MutHeldBack(r, f) == chain[r][f].rank # {} /\ Here(r, f).route = "fno"

HeldBack(r, f) ==
  \E rank \in chain[r][f].rank : Here(r, f).route = "fno" \/ Here(r, f).rank > rank

Step(r, f, edit) == chain' = [chain EXCEPT ![r][f] = edit]

(* The loop ends at the end of the legs, on a stop, or on a refusal.       *)
EndChain(r, f) ==
  LET c == chain[r][f]
  IN  /\ \/ c.place = "next" /\ (c.at > Len(Group[f]) \/ slot.stopping)
         \/ c.place = "break"
      /\ Step(r, f, [c EXCEPT !.place = "ended"])
      /\ IF f \in DOMAIN slot.feeds
         THEN Edit(f, [slot.feeds[f] EXCEPT !.skipped = Len(Group[f]) - slot.feeds[f].done,
                                            !.finished = TRUE])
         ELSE UNCHANGED slot
      /\ UNCHANGED <<con, marks, history, panics>>

Stepping(r, f) ==
  chain[r][f].place = "next" /\ chain[r][f].at <= Len(Group[f]) /\ ~slot.stopping

PassOver(r, f) ==
  /\ Stepping(r, f)
  /\ chain[r][f].at \in marks[r][f] \/ HeldBack(r, f)
  /\ Step(r, f, [chain[r][f] EXCEPT !.at = @ + 1])
  /\ UNCHANGED <<slot, con, marks, history, panics>>

Take(r, f) ==
  /\ Stepping(r, f)
  /\ chain[r][f].at \notin marks[r][f] /\ ~HeldBack(r, f)
  /\ Step(r, f, [chain[r][f] EXCEPT !.place = "send", !.attempted = @ + 1])
  /\ UNCHANGED <<slot, con, marks, history, panics>>

Send(r, f) ==
  /\ chain[r][f].place = "send"
  /\ Step(r, f, [chain[r][f] EXCEPT !.place = "asked"])
  /\ UNCHANGED <<slot, con, marks, history, panics>>

(* Where a chain goes with an outcome.                                     *)
After(c, leg, outcome) ==
  LET noted == [c EXCEPT !.rank = IF leg.route = "spot" THEN {leg.rank} ELSE @]
  IN  CASE outcome \in {"Stored", "Empty"} -> [c EXCEPT !.place = "next", !.at = @ + 1]
        [] outcome \in Terminal -> [noted EXCEPT !.place = "break", !.result = "Halted"]
        [] OTHER -> [noted EXCEPT !.place = "next", !.at = @ + 1, !.result = "Retry"]

(* An answer: counted, checkpointed when clean, noted when not.            *)
Answer(r, f) ==
  LET c == chain[r][f]
      at == c.at
  IN  /\ c.place = "asked"
      /\ \E outcome \in {LegOutcome(answer) : answer \in Answers} :
           LET clean == outcome \in {"Stored", "Empty"}
               Put(legs, yes) == IF yes THEN legs \cup {at} ELSE legs \ {at}
           IN  /\ Step(r, f, After(c, Here(r, f), outcome))
               /\ IF f \in DOMAIN slot.feeds
                  THEN Edit(f, [slot.feeds[f] EXCEPT
                                  !.done = @ + 1, !.dead = @ \/ outcome = "Credential"])
                  ELSE UNCHANGED slot
               /\ marks' = IF clean THEN [marks EXCEPT ![r][f] = @ \cup {at}] ELSE marks
               /\ failed' = [failed EXCEPT ![r][f] = Put(@, ~clean)]
               /\ since' = [since EXCEPT ![r][f] = Put(@, clean)]
               /\ seen' = [seen EXCEPT ![r][f] = Put(@, clean)]
      /\ UNCHANGED <<con, lost, observed, panics>>

-----------------------------------------------------------------------------
(* What may go wrong                                                       *)

(* A request panics under its chain.                                       *)
ChainPanics(r, f) ==
  /\ chain[r][f].place = "asked" /\ panics < MaxPanics
  /\ panics' = panics + 1
  /\ Step(r, f, [chain[r][f] EXCEPT !.place = "dead"])
  /\ lost' = [lost EXCEPT ![r] = @ \cup {f}]
  /\ UNCHANGED <<slot, con, marks, failed, since, seen, observed>>

(* The conductor panics while it counts rows, no chain being in flight.    *)
ConductorPanics(r) ==
  /\ con[r].place \in {"claimed", "pass", "judge", "close"} /\ panics < MaxPanics
  /\ panics' = panics + 1
  /\ con' = [con EXCEPT ![r].place = "drop"]
  /\ UNCHANGED <<slot, chain, marks, history>>

-----------------------------------------------------------------------------
Conduct(r) ==
  \/ Begin(r) \/ Decide(r) \/ OpenPass(r) \/ JoinPass(r) \/ Judge(r) \/ Close(r) \/ DropFinisher(r)

Run(r, f) == EndChain(r, f) \/ PassOver(r, f) \/ Take(r, f) \/ Send(r, f) \/ Answer(r, f)

Panic == \E r \in Runs : ConductorPanics(r) \/ \E f \in Feeds : ChainPanics(r, f)

Work == \E r \in Runs : Conduct(r) \/ \E f \in Feeds : Run(r, f)

Next == (\E r \in Runs : Press(r)) \/ Stop \/ Work \/ Panic

Spec == Init /\ [][Next]_vars

(* The runtime polls every task, and every request is answered: the pull   *)
(* handlers carry timeouts of their own.                                   *)
FairSpec == Spec /\ WF_vars(Work)

-----------------------------------------------------------------------------
Asks(r, f) == chain[r][f].place = "send" /\ chain'[r][f].place = "asked"

(* A healthy sibling is not pulled again because another feed failed: as   *)
(* long as one retries, a leg answered clean is left alone, even when its  *)
(* chain died after it.                                                    *)
CleanLegsRest ==
  [][\A r \in Runs, f \in Feeds : Asks(r, f) => chain[r][f].at \notin since[r][f]]_vars

(* No rung is asked over a lower spot rung of its feed that failed last,   *)
(* and no derivative over any spot rung below it that did.                 *)
LadderHolds ==
  [][\A r \in Runs, f \in Feeds : Asks(r, f) =>
       \A i \in failed[r][f] :
         Group[f][i].route = "spot" => Group[f][i].rank >= Here(r, f).rank]_vars

(* A run ends of itself only after so many passes in a row each of which   *)
(* had a clean answer for every leg of every feed still in it, and added   *)
(* nothing to the store.                                                   *)
IdleIsObserved ==
  \A r \in Runs :
    con[r].place = "close" =>
      \/ observed[r] >= CleanEmptyPasses
      \/ slot.stopping \/ con[r].passes = MaxPasses
      \/ \A f \in Feeds : con[r].outcomes[f] = "Halted"

(* Once a feed's pass is reported over, every leg of it is accounted for:  *)
(* answered, skipped, or lost in a request that panicked.                  *)
LegsAddUp ==
  \A r \in Runs : con[r].place = "judge" =>
    \A f \in DOMAIN slot.feeds :
      slot.feeds[f].finished =>
        slot.feeds[f].done + slot.feeds[f].skipped + (IF f \in lost[r] THEN 1 ELSE 0)
          = Len(Group[f])

(* The slot is given back however the run's tasks end.                     *)
RunEnds == slot.running ~> ~slot.running
=============================================================================
