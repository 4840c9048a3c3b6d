# brutex: models, checks and proofs

TLA+ models of the parts of brutex whose correctness rests on the order of
steps: what survives a crash, what two processes may do to one file, what a
vendor is asked and how often.  Each module names, in the `map` of
PROJECT.json, the source lines every definition stands for.

## 1. The system

brutex pulls market bars from vendors, keeps them in an append-only store,
computes conditions over them, searches combinations of conditions, simulates
trades and serves what it found.  Thirteen crates and a web page.

| component | state it keeps | operations | hard behaviour | correct when |
|---|---|---|---|---|
| store, month file (`file.rs`, `header.rs`, `layout.rs`, `block.rs`, `flock.rs`) | a bar file with two header slots, a checksum sidecar, a lock file; a `BarFile` per opener | open or create, open existing, append, read a record, locate a batch | crashes between writes and syncs, two writers, torn slots, rot, re-offered batches | what was acknowledged survives; the month is an append-only log; nothing rotted is re-sealed |
| store, revisions and audited reads (`repair.rs`, `checksum_audit.rs`) | a reservation, a month and a receipt per ordinal | publish, open a revision, read under a receipt | a death or a loss of power anywhere in the order; a file appended to under the reader | what was answered is read ever after, an ordinal never has two contents |
| pull, rate governor (`rate.rs`) | three token buckets and their allowances, a forward-only cursor | admit, record a success, record a throttle | several chains on one governor, a clock that steps back, refusals that overtake answers | the published ceiling bounds every interval; a wait is exact; a refused feed recovers |
| pull, retries and transport (`http.rs`, `refusal.rs`) | attempts and server errors of one request | ask, wait, retry, halt | a dead credential among throttles | a rate refusal is retried, a dead credential never |
| pull, census (`manifest.rs`) | entry table with a two-slot header | record, load | crash between a month's append and its row | the census never counts what the store does not hold |
| pull, ingest and caches (`ingest.rs`, `capture.rs`, `cash_session_cache.rs`, `fold.rs`) | a run's counters; receipt-last caches | fetch, fold, write, count | partial failure of many members | a run's receipt balances |
| api, gap recovery (`recovery*.rs`) | a plan journal, a shared attempt journal, a stop journal, the active plan | start, prepare, resume at boot, retry a day, stop | restarts with a request in flight, overlapping plans, a stop racing the end | no day is asked for more than three times, ever; an answered stop holds across restarts |
| api, pull run and autopilot (`pullrun.rs`, `autopilot.rs`) | the run slot, a report and checkpoints per feed; a `FeedState` per feed | start, stop, pass, halt, revive | panics, stops, feeds that fail alone | one run at a time; the slot always released; a feed gives up only for the reasons named |
| api, sweep runs (`sweeprun.rs`) | the sweep slot, the lease, the audit attempt | start, finish, unwind, observe another process | a task that panics or is cancelled | no report is published whose terminal audit is unconfirmed |
| telemetry (`sink.rs`, `tail.rs`) | the current file and its rolled ones, the sequence, the run key | emit, roll, reopen, tail | the roll under a reader, torn last lines | no record twice, none skipped, sequences rise |
| cli, lease, checkpoints and ledgers | one OS lock per store, numbered checkpoint directories, fixed-stride ledgers | acquire, publish, append, reopen | death between payload and marker, several appenders | a marker names a whole payload; an identity is recorded once |
| engine (`lib.rs`, `keep.rs`, `resume.rs`) | frontier, pairs, survivors | join, prune, count, checkpoint | resumed walks, halts at a budget | exactly the frequent itemsets; a resumed walk is the same walk |
| runner (`trade.rs`, `grid.rs`, ...) | one position | signal, fill, stop, square off | same-bar stop and target, gaps, the deadline | one position at a time, next-bar fills |
| core, vocab, greeks, costs, indicators, lake | none that outlives a call | numerical and parsing functions | numeric edges | reference values |
| web | none | polls status documents | | |

How they interact: a browser or the CLI starts a run in `api`; the run's
chains ask a vendor through `pull`, each request withdrawn from the feed's one
governor; `ingest` folds an answer into bars, appends them to a month file of
`store` and records the month in the census; sweeps read months through `lake`
and `store`, walk the ladder of `engine`, score with `runner` and `costs`, and
append receipts to ledgers under the store's execution lease.  Everything
reports to `telemetry`.

## 2. Modules

| module | models | code |
|---|---|---|
| `MonthRows` | the arithmetic of a month: blocks, seals, verification, the bisection, the decision `append` takes | `file.rs`, `block.rs`, `layout.rs`, `header.rs` |
| `MonthFile` | one month on disk and the processes that open, append to and read it | `file.rs`, `header.rs`, `flock.rs` |
| `MonthLog` | the abstract promise: an append-only log that a crash cuts back at most to what was acknowledged | (specification) |
| `Revision` | one ordinal of one month: publishers, retries and readers of it, beside the writer of the month it corrects | `repair.rs` |
| `Rate` | the arithmetic of one vendor's windows: earn, charge, the wait, a step up, a step down | `rate.rs` |
| `Governor` | the governor as its callers share it, under time and a clock that may lag | `rate.rs` |
| `Ladder` | one feed's chain of requests over that arithmetic: the budget wait, the transport's feedback, the retry policy | `server.rs`, `http.rs`, `refusal.rs` |
| `Recovery` | gap recovery: the worker of a plan, the shared attempt journal, the activation journal, the durable STOP, the boot | `recovery.rs`, `recovery_journal.rs`, `recovery_control.rs`, `server.rs` |
| `DayBudget` | the abstract promise to a vendor: a request only out of a durable reservation, none given back | (specification) |
| `PullRun` | a press: its conductor, the chains of its feeds, the run slot and the report | `pullrun.rs`, `server.rs` |
| `Autopilot` | the automatic backfill: rounds, surveys, what a tick leaves of a feed, seats shared with presses and single pulls, pause and resume | `autopilot.rs`, `server.rs` |
| `Log` | the event log: the sink that appends, tears, rolls and resumes, and a reader that walks it meanwhile | `sink.rs`, `tail.rs` |
| `MC...` | one per specification: values of the constants, symmetry and refinement mappings for TLC | |
| `MonthFile_proofs`, `MonthRows_proofs`, `Rate_proofs`, `Recovery_proofs`, `Revision_proofs`, `PullRun_proofs`, `Autopilot_proofs`, `Log_proofs` | theorems | |

`MonthFile` extends `MonthRows` and is refined to `MonthLog`; `Governor` and
`Ladder` both extend `Rate`, so that the chain is governed by the very
operators the theorems speak of; `Recovery` is refined to `DayBudget`.
`Revision` takes the month file at the word `MonthFile` gives of it.

### MonthFile in the code's terms

Every file has two contents.  `recs`, `slots`, `sums` and `names` are what
running processes see (the page cache); `recsD`, `slotsD`, `sumsD`, `namesD`
are what the disk holds.  A write changes the first, a `sync_all` or
`fsync_dir` copies one to the other, `Writeback` copies any single piece at
any moment, `PowerLoss` replaces the first by the second (and may tear a
header slot on its way when `Faults` has `"torn_slot"`).  A process that dies
(`Die`) releases its lock and leaves the cache as it is.

| action | code |
|---|---|
| `TakeLock`, `OpenBars`, `Initialise`, `SyncInitialise`, `SyncDir`, `Validate`, `SyncSidecarName` | `BarFile::open_or_create`, `initialise`, `fsync_dir`, `validated`, in their order, one action per write or sync another process or a crash can fall between |
| `OpenExisting`, `ReadRow` | `open_existing` under the shared lock (or with no lock file), `read_record` through `verify_block_of` and its one-block memory |
| `StartAppend` | `append` up to its first write: `survey`, `Header::advance`, `already_stored`, `suffix_that_follows`, `verify_old_tail_before_reseal`, the retry with the suffix |
| `WriteRecord`, `SyncRecords`, `SealBlock`, `SyncSums`, `WriteSlot`, `SyncSlot` | the rest of `append`: records, sync, seal of each block touched, sidecar sync, header slot, sync |
| `Drop`, `Die` | `Flock`'s explicit unlock; the kernel's at process death |
| `Writeback`, `PowerLoss`, `Rot` | the environment |

A header is its generation, its counter and its last timestamp; the other
fields never change or are derived.  A CRC-32C is the content it covers, so
collisions are outside the model.  A bar is a timestamp and one more value,
so that a restated bar differs from the bar it restates.  Records and blocks
count from 1.

### Governor in the code's terms

`gov` is `Governor::windows`: a record of `permitted`, `credit` and `earned`
for each span the vendor bounds; a span it does not bound is not in `Spans`.
`cursor` is `cursor_micros`.  The code's callers hold the governor's mutex for
the whole of a call, so a call is one step: `Admit` and `Deny` are the two
outcomes of `admit` (both earn what has elapsed first), `Succeed` is
`record_success`, `Throttle` is `record_throttled`.  `Tick` and `StepClock`
are time and the clock a caller reads, which may lag behind time by up to
`MaxSkew` and come back; `advance_to` never moves the cursor back.  Five more
variables are history for the properties (`open`, `drained`, `clean`, `told`,
`throttledAt`); no guard reads them, and `OpenInterval` only picks the instant
from which `open` counts.

### Ladder in the code's terms

| action | code |
|---|---|
| `StartChunk` | `fetch_chunks` turns to the next window, a discovery walk to its next document |
| `Granted`, `Denied`, `Doze` | `await_budget`: one `admit` per turn, the lock dropped before the sleep, a millisecond more than the wait named, up to `MaxAdmissionWaits` turns |
| `Abandon` | `broker_window` gives up behind its first permit: the credential, the vendor's id of the instrument, the clamp and the split of the window |
| `Refuse` | `window_async` refuses before the socket; `with_retry` takes it for a blip |
| `Send`, `Receive` | `HttpSource`: the request, the vendor's answer, and the feedback on the shared governor (`window_async` and `weigh_answered_body` for bars; `get` and `post_json` read the status alone) |
| `Finish` | the answer ends the chunk without the retry policy: served, or a body that does not decode |
| `Judge` | `step` with its three ladders, the second decrease `with_retry` takes, the sleep, the next attempt |

A vendor's answer is its status class, the name its body gives the refusal,
whether the body carries the `Invalid_Authentication` marker, and whether the
body arrives whole, cut or undecodable.  `lag` is the time since the
governor's cursor; past `Longest` every bucket is full, so it is cut there and
needs no clock.  `spells` says whether the chunk's request can be built: only the
descriptor and the chunk decide that, so it is chosen once for all its
attempts, and only the bars path builds behind its permit.  A feed has one chain: `Control::take_seat` admits one run per
feed, and its instruments' chunks follow one another.

### Revision in the code's terms

| action | code |
|---|---|
| `Publish`, `Look`, `Open` | `publish` down to the look at the reservation; `RevisionReader::open` |
| `ReadReceipt`, `OpenMonth`, `Serve` | `RevisionReader::open`: the receipt, then the shared lock and the header it names; what a reader is given |
| `Compare`, `SyncFiles`, `Reuse` | the path of a retry: same source and rows, `sync_revision`, `Reused` |
| `LockSource`, `Reserve`, `Check` | the shared lock of the source and its checks, `create_new` of the reservation, no leftovers under the ordinal |
| `CreateFiles`, `AppendRows`, `SyncRows`, `Root` | `write_revision`: `open_or_create`, `append`, the sync of the directory and all above it |
| `CreateReceipt`, `WriteReceipt`, `SyncReceipt`, `Created` | the receipt and the answer |
| `Fail` | any of these ends early, by an error or a death |
| `AppendSource`, `PowerLoss` | the ordinary writer, which the shared lock keeps out; the environment |

A power loss keeps of the directory any names between those synced and those
present, and may take all of it while an ancestor was not synced; an unsynced
file keeps its bytes or loses them.  One ordinal is modelled; the ancestors
are one flag; size limits and unsealed headers, which only refuse, are left
out.  A process death within the three creations of `open_or_create` leaves
what `PowerLoss` may leave there.  Every sync is honest.

### Recovery in the code's terms

`file` and `disk` are the journals as a running process reads them and as the
disk holds them; a journal is the index its replay gives.  `slot` is
`site.run`, `active` is `site.recovery_active`, and `run` is the worker, from
the claim of its slot to the end of `drive`.

| action | code |
|---|---|
| `Preflight`, `Prepare`, `ClearStop`, `Claim`, `Refuse` | `preflight_submission`, `prepare_successor`, `claim` with `persist`, the refusals of a start |
| `Boot` | `resume`, before the server answers anyone |
| `SeedPlan` to `Seeded`, `AbortWrite`, `AbortSync` | `seeded`: plan, seal, shared budget, activation pointer, `activate_durable`; the STOP of its own that a start that is not driven records |
| `Drive`, `Reconcile`, `Reconciled` | the worker opens the shared journal and `reconcile_pending` |
| `ScanWindow`, `ScanDone`, `Retry`, `RetryDone` | `execute`: the audit of a window, `retry_day`, the audit after |
| `Reserve`, `Ask`, `Settle`, `AppendAttempt`, `AttemptSync` | `reserve`, `recovery_spot`, `receipt_state`, `append_attempt` |
| `Close`, `CloseSync`, `Idle`, `Finish` | the seal, and the end of a run in the two steps of `drive` |
| `StopWrite`, `StopSync`, `StopAgain`, `StopRefused` | `pull_run_stop` for a recovery |
| `Die`, `PowerLoss`, `AppendFails`, `StopFails`, `Panic`, `Lose`, `SourceChanges` | the environment |

The rows of months and days in a plan's own journal are read by the status
page alone and are left out, but appending them may fail.  `Lose` takes any
one journal, not the budget and the activations both: then nothing is left
that tells a first start from a later one.  A journal that tears stays
refused, as in the code, and so does a start after a death between the
creation of active.bin and its first pointer.

### PullRun in the code's terms

`slot` is `site.run` with the report of each feed; `con` is the conductor of a
press (`conduct_with`), `chain` the tasks it spawns (`run_chain`), `marks` the
checkpoints of legs answered clean.

| action | code |
|---|---|
| `Press`, `Stop` | `pull_run`, `pull_run_stop` |
| `Begin`, `Decide`, `Judge`, `Close`, `DropFinisher` | `conduct_with`: the report, the head of its loop, the end of a pass, the summary, the `Finisher` |
| `OpenPass`, `JoinPass` | `run_pass`: the spawn loop, the awaits with `note_dead_chain` |
| `Take`, `Send`, `Answer`, `PassOver`, `EndChain` | `run_chain`: a leg is taken, sent, weighed by `leg_outcome`, or passed over by a checkpoint or by `held_back` |
| `ChainPanics`, `ConductorPanics` | a panic under a request; a panic of the conductor |

Retry counters and labels, which only the page reads, are left out.  Whether a
pass grew the store is a choice: the legs, other writers and vendors decide it.

### Autopilot in the code's terms

| action | code |
|---|---|
| `Begin`, `StandOff`, `Survey` | `fly`, `round`: the press checked first, `take_every_seat`, `probe_store_halts`, `survey`, the choice of the oldest owed month, `reconsider` |
| `Ask`, `AskInstrument`, `EndSweep` | `broker_run`: the pull order, each instrument, the breaker; then `settle` with `observe` |
| `Press`, `TakeLegSeat`, `EndLeg`, `EndPress`, `BeginSingle`, `EndSingle` | what else takes seats: the legs of a press, single pulls and recovery requests |
| `Pause`, `Resume` | the two controls, `admit_resume` |
| `CensusTurns`, `DayEnds`, `MonthEnds`, `StallComesDue` | the world: manifests, the calendar, the clock |

The store is, for each feed, rung and month, what its census counts of it:
nothing, something, or everything up to the last finished day.  How long the
task waits is left out, so that whatever falls due may fall due at any moment.
Bars that a leg of a press stores are those a single pull may store.  A
credential once refused may stay dead beyond `MaxTroubled`.

### Log in the code's terms

| action | code |
|---|---|
| `OpenSink` | `Sink::open`: `resume_seq`, `terminate_torn_tail` |
| `Emit`, `AppendEvent`, `EndFragment` | `emit_for_run` under the mutex: the stamp and the number, the append or the part of it that was written, the newline after a fragment |
| `RemoveOldest`, `Shift`, `MoveCurrent`, `Reopen` | `roll`, a filesystem call at a time; a call that fails ends the roll for good (`broken`) |
| `Ask`, `Walk`, `Answer` | `tail`: one path at a time, told by inode; `take_line`, the page's limit, the scan cap, the reading of one more file for `reached` |
| `Die` | the process is killed |

A file is a sequence of lines, an event a number; times are what the clock
reads and may step back.  Only kills are modelled: the log promises nothing
over a loss of power.  Inode numbers are not used again.

## 3. Runs

| run | question | bounds |
|---|---|---|
| `crash` | two processes, one that appends and one that only reads, die and lose power: acknowledged records survive, handles are current, honest crashes are not refused, every committed record verifies, and (liveness) who keeps offering the month completes it | 4 records, blocks of 2, 3 deaths or power losses |
| `restated` | a feed that skips and restates bars, two writers, torn slots: the file refines `MonthLog` | 3 records of 2 values, 2 crashes |
| `rot` | a committed record rots: no append re-seals it | 3 records, 2 crashes |
| `rows` | the decision of `append`, for every ordered month and every batch | months up to 4 records, batches up to 3, 2 values |
| `governor` | under every order of calls and answers, on a clock that may lag and catch up: no interval exceeds a burst, the rate and the lag, no burst survives a refusal, a wait is exact and sufficient, a rise is earned | spans of 2 and 5 units, ceilings 2 and 4, 7 units of time, lag up to 2 |
| `ladder` | every sequence of answers, both transports, permits spent without a request included: each request has a permit of its own and an attempt takes one at most, a rate refusal is felt before the chunk is asked again, a vendor is called down on its own answers, one wait is enough | the code's 6 attempts and 5 backend errors, `MaxAdmissionWaits` 3 |
| `recovery` | restarts, stops, deaths, power losses, panics, torn and lost journals: the budget (refinement of `DayBudget`), no plan sealed as verified with a request of its scope unsettled, a recorded stop holds, a stop takes one request, the slot is taken exactly while a run carries it | one day, a plan and its successor, budget 2, 1 fault, 1 lost journal |
| `pullrun` | a press over two feeds with a ladder of rungs, a panic, a stop at any moment: the report adds up, clean legs rest while others retry, an underlying precedes its derivative, a run that ends of itself has seen everything clean, and (liveness) it ends | five legs on two feeds, 4 passes, 2 idle passes, 1 panic |
| `autopilot` | two feeds beside presses and single pulls: one pull per feed, a press holds off every round but one, a dead credential is re-read once and then rests, stalled months come back only when nothing is left to ask, and (liveness) no month is asked for ever | 2 feeds, 2 months, 2 rungs, 2 instruments, 2 troubled sweeps, 1 event of the operator or the world |
| `log` | the log rolls, fails, tears and is killed under a reader: no event twice, none left out of a page, history lost from its old end, nothing answered Written that cannot be read | three files of a line, 4 events, 5 files, 1 kill, 1 failing call |
| `revision` | two processes publish, retry and read one ordinal under failing calls and power losses while the source grows: what was answered is read ever after, the ordinal never has two contents | 4 calls, 2 failing, 2 power losses, 4 offers that differ in the rows added, in a row lost, in the source |
| `idle` | a claim of the autopilot's page that the code does not keep (section 5) | 1 feed, 1 month, 1 instrument |

Each property of a passing run has a mutant of the code in PROJECT.json that
makes the run report it.

Why the bounds are enough.  For the month file: with blocks of two records,
three or four records give a full block, a partial one, a batch that crosses a
block boundary and a header slot written a second time (generations 0, 1, 2
and, in `crash`, up to 4).  Two crashes give a recovery that is itself
interrupted; `crash` allows a third.  Two processes give every race for the
lock.  In `crash` the second process only reads, which liveness needs; the
race of two writers is in `restated`, and the safety theorems hold for any
number of both.

For a revision: two processes give the race for the ordinal, a reader beside a
writer and a retry beside either; two failures and two losses interrupt a
publisher, its retry and what a loss left; four calls let a fourth reader see
what three publishers did.

For the governor: two spans are needed so that either can bind and the wait
of one can be too short for the other.  The short ceiling moves by one permit
a step and the long one by two, as 5 a second and 100,000 a day move by one
and by 3,125.  Seven units of time are more than the longest span, so a bucket
empties and refills and a window of it slides.  `SuccessesPerStep` and
`BackoffSteps` are 2 where the code has 32: a bank that has to be filled, and
emptied by a refusal half way.  For the ladder the unit of time is a
quarter of a second, so the code's waits (250 ms, one second) are 1 and 4,
and its attempt limits are the real ones.  `MaxAdmissionWaits` is 3 where the
code has 64: a second wait would violate `OneWaitIsEnough` already.

For recovery: one day is shared by two plans, one of which replaces the other
once its journal is lost, so a request of one plan is found by the other; one
fault and one lost journal, at any step, with any number of stops and starts
between.  The theorems have no bound.

For a pull run: the first feed has every case of the order (two legs of one
rung, a rung above, a derivative, ticked in another order), the second keeps a
pass open beside it.  A clean pass, a failed one, a repair and two idle passes
need `MaxPasses` 4.

For the autopilot: every counter of a feed is at 1 or 2, so that each is met,
spent and reset within two months; a stall, its return, and a halt fall into
one behaviour.  One event is one pause, one press, one single pull, one day or
one lost census; two at once are out of TLC's reach in the time the run has.

For the log: three files are the fewest with a middle one that is shifted; a
line a file makes every append but the first of a life a roll, and five files
let two rolls fall into one walk.

**Fairness.**  `crash`, `pullrun` and `autopilot` assume some.  In `crash`
(`RetrySpec`) a process the kernel schedules finishes the open or append it has begun
and drops its handle, because a `BarFile` is a local of every caller
(`write_and_count` in ingest.rs): weak fairness.  A caller comes back until
the non-blocking lock lets it in and then offers the batch before it drops the
handle: strong fairness of `TakeLock` and `StartAppend`.  Only one of the
processes writes there: readers whose shared locks overlap for ever may keep a
non-blocking writer out for ever, in the code as in the model.  `PullRun`
assumes that the runtime polls every task and that every request is answered
(the pull handlers carry timeouts of their own); nobody owes a press or a
stop.  `Autopilot` assumes that the task runs on, that a pull which holds a
seat ends, and that a press sends a refused leg again; nobody owes a press, a
pause, a resume or a repair.

**Assumptions of the properties.**  `CommittedVerifies` is checked with a feed
that offers the same bars again after a crash.  With another batch, a second
crash in the rewritten tail leaves a block that does not verify: the
repository's docs/04-invariants.md (AF-42) and docs/06-limits.md say so, and
the model agrees.  `RotNeverLaundered` lets a record rot while no append is
between its check of the old tail and its seal: the code reads the bytes
twice, and a change between the two reads is outside what it claims.
`RecordedStopHolds` speaks of STOPs that were recorded: one that meets a
recovery already routed away is answered and not recorded (section 5).
`PageIsWhole` speaks of walks with at most one roll during them; with two the
code may put newer events after older ones (section 5).  `SinceIsComplete`
needs no such premise: it speaks of the events of the process that is up, whose
stamps the sink never lets step back.

## 4. Proofs

`MonthFile_proofs` proves `TypeCorrect`: `Spec => []TypeOK` for every number
of processes, records, blocks and batches and under every fault.  The
strengthening is that a handle which is writing has a batch that fits
(`Fits`): `append` refuses a batch past the model's end before it writes, so
that positions stay in range.  `HighestMember` and `HeldCovers` state what
`Held` returns; `ChosenIsNewest` that `Chosen` is a supported header of the
region.

Its other theorems take one of two hypotheses on `Faults`.  `KnownTree`: the
month's directory exists (what a power loss does to a fresh one is in section
5); records may rot and header slots tear.  `HonestDisk`: besides, no record
rots.  `HandlesAreCurrent` and `CrashesAreNotRefused` hold under the first,
`AckedRecordsSurvive` under the second, since what rots is gone.  None of the
three is inductive.  The invariant `Inv` has four parts.  What they say of the
contents of the records, and not of their being there, is claimed under
`NoRot` alone.

- `LockInv`: at most one handle is exclusive, and then nobody reads.  Needed
  because every other part speaks of *the* writer.
- `FileInv`: both regions, cache and disk, are regions of the protocol
  (`RegionOK`: slot generations are adjacent, the newer one claims no fewer
  records); the disk's slots are the cache's or the older ones (`Durable`,
  `Backed`); every record a slot on the disk claims is on the disk, and what
  differs between cache and disk lies past the commit (`DirtyInv`); what is
  acknowledged is a prefix of what the disk's best slot claims (`AckInv`).
- `HandleInv`: what a handle believes is what the region says, step by step
  along the open and the append (`Current`, `HandleOK`).
- `NamesInv`: which names are durable by the time a record is committed.

`SafeNext` has one lemma per action; `Invariance` combines them.

**The log.**  On an honest disk the month file implements its promise: `MonthImplementsLog`, `Spec => LogSpec`, for any
number of writers and readers, any feed and any bound.  The mapping takes
`Month(slots, recs)`, what a reader of the cached file makes of it, for the
log.  `Inv` says which header counts and that its records are there, not that
they are in time order, so the proof adds `RowsInv`: the records every header
counts, on the disk and in the cache, rise in time and end at the header's
`last`; what a handle is appending rises too and starts after it.  The second
half rests on `PlanContinues`, a lemma on the decision of `append`: the part
of an overlapping batch that is taken is rising and later than the last bar
(`SuffixIsLater` counts the bars at or before it).  Then `WriteSlot` is the
abstract `Publish`, `SyncSlot` is `Acknowledge`, `PowerLoss` is `Lose`, and
every other step stutters: `WriteRecord` because it writes past every header
(`WritingIsUnseen`), `Initialise` because the genesis header counts nothing.
The publication is thus the single write of the slot, and not the sync that
follows it: a reader may see bars that a power loss takes back, but never one
that has been reported committed.

**Verification.**  `CommittedRecordsVerify` proves, on an honest disk and for a
feed that is `Steady` (all its batches are beginnings of one rising sequence of
bars, as the `crash` run's are), that a committed record verifies through its
block's checksum, in the cache and in what a power loss would leave.  The
hypothesis is the code's own limit (AF-42, section 3): without it the property
is false.  A sidecar may be newer or older than the header, so `SteadyInv`
does not say that it is the checksum of the header's records but that it
`Vouches` for them: it is the checksum of the feed's bars up to *some* count no
lower than the header's, and both contents of the file hold those bars.  Every
header's records are the feed's, and vouched for by both sidecars
(`HeadersVouched`); so are the blocks an appender has sealed (`SealingOK`).
A rewrite of a sealed tail then only restates what was vouched for.

**Rot.**  `RotIsNeverLaundered` proves in a known tree, for any feed, that a
committed record whose block verifies is the one that was committed.  It needs
to know what every checksum was taken of.  `Truth(acked, recs, i)` is the bar
committed at a place, or what is written there now if nothing has been;
`RotInv` says that both sidecars remember the truth of every place any header
counts (`HeadersRemembered`), and of an appender (`TailOK`) that the records
sharing a block with its batch have not changed since it verified them, that
the blocks it has sealed remember the truth, and that at the end all do.  That
the two readings of the old tail see the same bytes is the model's premise
(section 3); that the truth of a place survives the append and the power loss
is the proof's work (`TruthStands`).

`Rate_proofs` proves every property of `governor` for any set of spans,
any ceilings, any step constants and any lag of the clock: `GovernorTypes`,
`CeilingHolds`, `RefusalsAreObeyed`, `WaitsAreExact`, `WaitsSuffice` and
`RisesAreEarned`.  Its assumptions are
`RateAssumption` (a span is at least one unit and at most the longest, a
ceiling at least one permit: what `Window::new` checks) and
`GovernorAssumption`.

- The ceiling is a conservation law.  `NeverOverCeiling` is not inductive: it
  does not say what is still banked.  `Conserved` adds it: permits given since
  the interval opened, plus the credit in the bucket, are at most a full
  bucket plus what the rate earns up to the cursor.  Earning raises both sides
  alike (`YieldGrows`), charging moves a permit from bank to given
  (`AdmitConserves`), a step of the allowance leaves or empties the bank.
  Until the first permit of the interval the cursor may lie before it, and
  only the bucket's capacity bounds the bank; hence the premise of `Conserved`.
- `DrainedInv` is the same law without the full bucket, because a refusal
  leaves the bucket empty; `BankInv` bounds a window's banked answers by the
  clean ones since the refusal; `PaidInv` says what the wait still to come
  will have earned.
- The wait rests on `CeilDivIsExact` (a rounded-up quotient covers, one less
  does not), `BindingWaitsLongest` (the `CHOOSE` of a denial exists even for
  infinitely many spans, as their lengths are bounded) and `PaidIsEnough`.

The facts about the arithmetic come first in the module and serve both
specifications: every operation keeps a governor good, and the wait a denial
names is the shortest that pays.  `Ladder` names its variables and its
specification apart from `Governor`'s (`windows`, `LadderSpec`), so that one
module can speak of both.

`Rate_proofs` also proves every property of `ladder` for any governor, any retry
caps and any durations: `RequestsArePaid`, `RefusalsAreFelt`,
`DownsAreMeasured` and `WaitsAreEnough`.  Its assumptions are `RateAssumption`
and `LadderAssumption`: the 5xx cap is below the attempt cap, a chain may wait
at least twice before it gives up, the two pauses of the policy are positive,
and `2^(n - 1)` is a number for every attempt `n`, which is true and which the
provers cannot compute.  The invariant is `LadderInv`:

- `Ordinals` ties the attempt's ordinal and the counter of server errors, which
  the code keeps apart, to what was paid for, sent and answered; the answer in
  hand counts before the policy has judged it (`Unjudged`).  The ordinal counts
  the permits; it counts the requests too while they can be built, and there
  are none when they cannot.  `RequestsArePaid` is therefore an inequality, with
  equality but for the permit in hand once something went out.
- `Feeling` says which answer a step down of the governor belongs to, so that
  none is felt twice and none is forgotten when the chunk is asked again.
- `Waiting` says that a chain which has waited finds its permit earned, which
  is what the facts of `Rate_proofs` about a denial come to.

The retry policy (`step` and `laddered`) enters the proof only through
`StepFacts`, what a verdict implies of the two counters.

`Autopilot_proofs` proves the safety of the automatic backfill, all but its
liveness, for any feeds, months, instruments, limits and events:
`SeatsAreExclusive`, `PressesMeetOneRound`, `DeadTokensAreReread`,
`DeadFeedsRest` and `FrontiersGoBackWhenIdle`.  Its only assumption is
`AutopilotAssumption` (the limits are numbers, and there is at least one feed,
month, instrument and attempt).  The invariant `AutopilotInv` has four parts
beside the types:

- `Seating`: the seats are exactly those of who pulls, all of them in a round,
  else one for each leg and single pull; and legs exist only during a press.
- `Boarding`: a round that has looked for a press has met none that is older.
- `Choosing`: a round asks a feed that still flies for a month its store does
  not hold.  Without it a feed could be given its rereads back by a month that
  somebody else completed; the seats are what rules that out.
- `Pleading`: how often a feed has been refused and how often it may still be
  asked again add up to at most `Rereads`, until it halts.

`Observing`, `Surveying` and `Settling` say what a tick, a survey and the end
of a round leave of one feed, `SurveyEffects` what a survey leaves of all.
That the scan of the calendar and the choice of a feed or of a stall find
something rests on the least number of a set (`MinFacts`).

`Recovery_proofs` proves for any days, plans, windows, successors and budget
and any number of faults and lost journals that Recovery implements
`DayBudget` (`RecoveryKeepsBudget`), that the slot is taken exactly as long as
a worker carries it (`SlotIsHeld`), that no boot resumes a plan whose STOP was
recorded and answered (`RecordedStopIsKept`), that a STOP takes at most the
request under way (`StopTakesOneRequest`), and the type invariant
(`RecoveryTypes`).  Its only assumption is `RecoveryAssumption`.

- `Shapes` is inductive by itself: the types, `Registers` (what the worker's
  place says of its day, window and plan), `SlotIsHeldByRun`, and `Headroom`,
  that a request being charged is below the limit.
- The budget needs `Charged`: what was asked is on the disk and what is on the
  disk is in the file (`Ordered`); a request about to be sent has its
  reservation, in the file while it is synced and on the disk after (`Paid`);
  a budget that may still be created has nothing in it (`Unborn`), and past
  its opening one of the two journals that tell so is there (`Born`), which is
  why the two are not lost together.
- A plan is sealed as verified only when no day of its scope is in flight
  (`SealsAreSettled`).  An earlier form of `FinishedIsSettled`, that a plan
  with such a seal on the disk has no day in flight, failed here and is false:
  two plans may share a day, and power lost before the next seal's sync brings
  back the older seal of the one while the other has left the day in flight
  (TLC finds it with two plans at the start).  The property now speaks of the
  step that seals.
- `Routed` says that an answered STOP is recorded, in the file and on the
  disk, that the one being made durable is in the file, and that only the
  plan that runs is routed to; `Prompt` that after the one request a STOP
  allows no other is being prepared until the run is over.

`Revision_proofs` proves both properties of `revision` for any processes,
offers, calls, failures and losses of power (`Survives`, `Immutable`), from
`RevisionAssumption` (an offer is its source and its rows).  Neither is
inductive.  The invariant `IInv` says:

- `Sole`: one process at most is past the reservation, and it is reserved.
- `Fits`: how far that process has come tells what is in the directory and
  what of it is on the disk (`Stage`); what a reader has seen is still there
  and nobody writes any more (`Reads`).
- `Receipted`: a receipt stands only on names that no power loss takes, and a
  whole one on rows that none takes.  This is why the ancestors are synced
  before the receipt is created, not after.
- `Settled`: once anyone was answered or served nobody writes, or ever can
  again, and all were given the same; `Lasting`: after an answer, not even the
  receipt can go.  `Settled` holds even though a served receipt may still be
  lost: then the ordinal is served to nobody again.

The lemmas `Still`, `Works` and `Leaves` do the steps that leave the disk
alone, that write under `Sole`, and that end a call; each action is one lemma.

`PullRun_proofs` proves the safety of a pull run for any legs, feeds, passes,
panics and any number of presses, from `PullRunAssumption`.  The order of a
feed's legs (`Group`) is stated by counting: the n-th leg is the ticked one
with n - 1 before it.  The lemmas on it, that each ticked leg has one place and
that places follow the ranks, rest on `FiniteSetTheorems` alone.

- `CleanLegsAreLeft` and `TheLadderHolds` hold for overlapping runs too,
  because marks, ranks and cursors belong to a run.  `LadderInv` says, chain by
  chain: the leg being asked is unmarked and no higher than the rank that
  failed last; a failed spot leg behind the cursor is at or above that rank;
  marks and failures are apart; what was clean since the last pass of
  everything is marked.
- `ReportsAddUp` and `RunsEndIdle` are stated under `[]OneConductor`: between
  its claim of the slot and its last edit of it a run is alone.  The report is
  in the slot, and the `Finisher` of a run frees the slot whatever run has it
  (section 5), so with three presses two runs edit one report and neither
  theorem holds.  `TwoPressesOneConductor` proves that with at most two presses
  the hypothesis holds: a press that overtakes the drop of the one before it
  is marked finished too early, and only another press could come in beside it.
- `CountOf` says that a report in flight counts what the chain has attempted,
  less the leg it is asking for; a chain that died has lost exactly one.
  `IdleOf` follows a pass from its claim to its judgement: a chain that is
  still clean has seen every leg its marks excused or its cursor passed, so a
  pass judged clean saw them all, and the conductor's count of idle passes is
  at most the number observed.

`MonthRows_proofs` proves `AppendDecidesRight`: for every month, every batch and
every set of rotten blocks, `append` decides what the bars say.  The bisection is
a function defined by recursion on a gap between two positions, and nothing is
assumed of it: that such a function exists, and that it finds the place of the
batch and reads only records inside the gap, are shown by a least counterexample,
the shortest gap for which they fail (`LeastNumber`, `Middle`, `HalvedAlike`).
The only assumptions are those on the constants of `MonthRows` and `MCMonthRows`.

`Log_proofs` proves every property of `log` for any number of files, lines,
events, deaths and failed calls, from `LogAssumption` alone.  The names of files
are followed through every step of a roll, done or failed.

- `LogIsOrdered` is the ground: types, no file at two paths, and events that get
  older from path to path and newer from line to line (`EventInv`).  From it
  `OldestLeaveFirst` follows step by step: only the file at the last path can
  leave, and a rename moves a file onto a path that is free.
- `WrittenStaysReadable` rests on `FuseInv`: a line that holds two things is
  counted by a newline that failed.
- `NoEventShownTwice` rests on `PageInv`: what the walk has shown lies in files
  it has read, and it opens none of these again.
- `PageLeavesNothingOut` needs three more.  `OrderInv`: as long as no second
  roll can overtake the walk, all that a file still to be read holds is older
  than all that was read.  `LateInv`: a line that is still being written is newer
  than the walk.  `WholeInv`: every event of the set is on the page, in a file
  the walk has yet to reach, older than the page when it was cut short, or newer
  than its start.
- `SinceGivesAll` needs `ClockInv` (stamps of one process never step back),
  `JunkInv` (a line that does not decode carries nothing of an event) and
  `SinceInv` (what the walk was asked for is on the page or still ahead of it,
  until it meets the first event that is too old).  The property was first
  checked for one roll during the walk; the proof needs no bound on them, and
  the run now checks it without one.

**Model-checked only.**  `MonthIsCompleted`, `RunEnds` and `LadderEnds` are
liveness under fairness, which the prover does not reach.  `IdleIsComplete` is
the property a run refutes (section 5).  Every other property of a run is a
theorem.

## 5. Where the code and its words differ

Found by a run:

- `idle`: the autopilot keeps one frontier per feed for both rungs.  `survey`
  and `settle` move it past a month as soon as one rung needs nothing there,
  and `next_window` scans from it, so the minute rung of a month the day rung
  completed is never asked; a round with nothing to do then publishes that
  nothing is missing.

Read in the code while modelling, and not checked by a run:

- The module comment of file.rs lists `AlreadyPresent` among the answers after
  which the bars are durable.  It is answered from the page cache about a slot
  another process wrote and never synced.
- `open_or_create` makes the directories of a new month and syncs only the
  last one's entries (file.rs:993); a power loss can take the directory with
  acknowledged bars in it.
- A process that dies between writing the genesis header and its sync leaves a
  header the next writer takes as committed and never syncs; if its records
  reach the disk first and power is lost, the month opens for nobody.
  docs/04-invariants.md (S-04) says such a crash corrupts nothing.
- docs/02-store-format.md says a header that outran its data loses the tail,
  not the file.  `validated` refuses the file whenever any slot that decodes
  claims more than the header chosen, which needs a disk whose sync lies.
- A handle remembers the block it verified last and serves later reads of it
  without reading the checksum again (file.rs:2090).
- with_retry's comment says the decrease is taken for the set of rate refusals
  the transport misses.  A refusal named in the body of a 2xx answer is
  narrowed by `weigh_answered_body` and by with_retry: two steps down.
- A backend fault named under a status that is not 5xx is counted as no server
  error: it is asked again with a wait of zero, six times, and the report says
  the vendor failed 0 times.
- The comment on `Window::relax` says a refusal must not leave credit to spend
  "immediately after".  The credit is zeroed, but the cursor stays where the
  last `admit` left it, so the next call credits the time the refused request
  was in flight.  `RefusalIsObeyed` therefore counts from that cursor.
- A rate refusal named under another status than 429 on the last attempt
  narrows nothing: the arm of an exhausted ladder takes no decrease.
  `RateRefusalIsFelt` therefore speaks of chunks that are asked again.
- A permit may be spent without a request: `broker_window` withdraws the first
  one (server.rs:9907) before it reads the credential (9942), looks up the
  instrument's id (9986) and clamps and splits the window (8565-8568), any of
  which may refuse; and a request that `window_async` cannot build
  (http.rs:2530-2575) is taken for a blip and tried again, on a new permit each
  time.  The comment of `await_budget` (server.rs:8191-8197) calls a permit
  thrown away a leak; these lose one an instrument, or one a blip.
- `MAX_CHUNK_BACKOFF_MS` (31 s) is the sum of the rate ladder alone.  Four
  backend errors followed by a rate refusal on the fifth attempt sleep 46 s.
- A STOP that comes between the two steps that end `drive` (recovery.rs:816)
  finds no recovery routed: it is answered as a stop and recorded nowhere.
  recovery_control.rs:16-17 and :34, docs/02-store-format.md:1552-1553 and
  docs/04-invariants.md:4278 say an answered STOP is durable.  No property
  would catch it: `RecordedStopHolds` and `StopIsPrompt` speak of a STOP that
  reaches its plan.
- The `Finisher` of a pull run marks the slot finished whatever run holds it
  (pullrun.rs:567): a press that claims it between the summary and that drop
  is painted finished while it runs, and a third may start beside it.
  server.rs:10521-10526 and pullrun.rs:557-558 say one run at a time.
  `Runs` is one press in `pullrun` for this reason.
- The conductor's panic leaves the ticker of the page running.
- Autopilot: a month that stalls again is pushed with its retry count at 0
  (autopilot.rs:1234), so the bound on its retries does not bind; a pause between the look at `is_paused` and the capture of
  the epoch (server.rs:7512) is not obeyed in that round; a pause with every
  reported feed halted can never be resumed (autopilot.rs:3429 answers 409);
  `survey` moves a frontier without `clear_month`.
- The breaker of `broker_run` counts refusals that begin with the mark
  `VENDOR_DOWN`, which only `laddered` writes (server.rs:8158).  Bars are asked
  through `with_retry`, whose own verdict on a failing vendor (server.rs:9373)
  carries no mark, so on that path the breaker never trips, though the comments
  at server.rs:8899 and 9618-9624 count on it.  `Autopilot` lets it trip (its
  answer `down`): the code's runs are among the model's.  Had it tripped, it
  would report itself as the operator's stop and cost no attempt
  (server.rs:7622).
- Log: two rolls in one walk put newer events after older ones, and
  `saturating_sub` hides them from `missing` (the comment in tail.rs says the
  answer "stays complete as well as contiguous").  A kill between the move of
  the current file and the first append leaves nothing for `resume_seq` to
  read, so numbers and reserved run ids begin again, against "strictly above
  every id still present in the log".  The number of a last event that was
  dropped or torn before a restart is used again.  When the newline after a
  fragment cannot be written, the next event fuses with the fragment: it is
  answered Written and cannot be read (`WrittenIsReadable` counts these).
  `last_at` is 0 after a reopening, so a clock that stepped back breaks the
  order over a restart.

The properties leave these out by their premises: `AckedSurvive` counts
`Committed` answers only, `HonestCrashIsNotRefused` asks for a slot that
decodes, the month's directory exists in every run, `RateRefusalIsFelt` asks
for at least one decrease.

## 6. Not modelled

PROJECT.json lists every component with its reason.  In short: parsers,
formats, tables and numerical code have no protocol; the web page owns no
run; the statistics of `runner` are numbers.  Of the parts modelled,
`checksum_audit.rs`, the status page's rows of a recovery plan, the labels
and counters of a pull run's report and the filters of the log's reader are
left out.  What has a protocol and is not modelled is in the plan.

## 7. Plan

The month file, revisions, the governor, the retry ladder, gap recovery, the
pull run, the autopilot and the log are done.  Next, in order of how much
rests on them:

1. `SweepRun` (api/sweeprun.rs with cli/execution_lease.rs): the slot, the
   lease and the terminal audit; no report is published whose audit is
   unconfirmed.
2. `Ledger` (cli/results.rs, search_checkpoint.rs): the receipt-last shape and
   several appenders; a marker names a whole payload.
3. `Census` (pull/manifest.rs) composed with `MonthFile`: the census never
   counts what the store does not hold.
4. `Walk` and `Trades` (engine/resume.rs, runner/trade.rs): pure algorithms
   against their definitions.
