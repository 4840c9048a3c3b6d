------------------------------- MODULE Ladder -------------------------------
(***************************************************************************)
(* One feed's chain of vendor requests over its rate governor: every       *)
(* attempt waits for a permit (api/src/server.rs await_budget), sends one  *)
(* request, the transport reads the answer and teaches the governor        *)
(* (pull/src/http.rs), and the retry policy decides whether to ask again   *)
(* (with_retry for bars, laddered for discovery and rolling requests, both *)
(* over step).  A chunk is one window of one instrument; a feed's seat     *)
(* (Control::take_seat) admits one chain, so chunks follow one another.    *)
(*                                                                         *)
(* Time is what has elapsed since the governor's cursor, cut at Longest:   *)
(* that much refills every bucket, so a longer wait says no more.          *)
(* permits, requests, felt and fives are history.  A request is one that   *)
(* is handed to the socket; whether the vendor is reached is its answer.   *)
(***************************************************************************)
EXTENDS Rate

CONSTANTS
  ThrottleAttempts,      \* THROTTLE_ATTEMPTS
  ServerErrorAttempts,   \* SERVER_ERROR_ATTEMPTS
  MaxAdmissionWaits,     \* MAX_ADMISSION_WAITS
  Blip,                  \* 250 ms, the unit of the transport backoff
  Pause,                 \* 1,000 ms, the unit of the other two ladders
  Slack                  \* the millisecond await_budget adds to a wait

ASSUME LadderAssumption ==
  /\ ThrottleAttempts \in Nat \ {0}
  /\ ServerErrorAttempts \in 1..(ThrottleAttempts - 1)
  /\ MaxAdmissionWaits \in Nat \ {0, 1}
  /\ Slack \in Nat
  /\ {Blip, Pause} \subseteq Nat \ {0}
  /\ \A n \in 1..ThrottleAttempts : 2^(n - 1) \in Nat   \* arithmetic the provers lack

VARIABLES
  windows,        \* the governor of the feed
  lag,        \* time elapsed since its cursor
  pc,         \* where the chain is
  path,       \* which transport it drives
  spells,     \* whether the descriptor can spell the chunk's request
  attempt,    \* ordinal of the attempt within the chunk
  errors,     \* server_errors, the 5xx answers of the chunk
  waits,      \* waits await_budget has taken for this attempt
  answer,     \* the answer being judged
  verdict,    \* how the last chunk ended
  permits,    \* permits withdrawn for the chunk
  requests,   \* requests sent for the chunk
  felt,       \* how often the governor was narrowed by the last answer
  fives       \* answers with a 5xx status

governor == <<windows, lag>>
chunk == <<path, spells, attempt, errors>>
history == <<permits, requests, felt, fives>>
ladder == <<governor, pc, chunk, waits, answer, verdict, history>>

Paths == {"bars", "discovery"}
Dispositions == {"NotEntitled", "SessionDead", "RequestWrong", "ReasonGiven",
                 "Throttled", "RetryBounded"}
Unnamed == "unnamed"

\* Statuses stand for their classes: 0 is no answer at all, 400 any other
\* refusal, 401 both 401 and 403, 500 every 5xx.
Statuses == {0, 200, 400, 401, 429, 500}
Answer == [status : Statuses, named : Dispositions \cup {Unnamed},
           marker : BOOLEAN, body : {"whole", "cut", "strange"}]

\* The answers told apart: a success whose body arrives whole, is cut short or
\* is not what the descriptor says; a body may name a reason, and the
\* Invalid_Authentication marker is looked for in what no name explains.
Answers == {a \in Answer :
  /\ a.status = 0 => a.named = Unnamed
  /\ a.marker => a.named = Unnamed /\ a.status \in {400, 500}
  /\ a.body # "whole" => a.status = 200 /\ a.named = Unnamed}

None == [status |-> 0, named |-> Unnamed, marker |-> FALSE, body |-> "whole"]

LadderInit ==
  /\ windows = Fresh
  /\ lag = 0
  /\ pc = "idle"
  /\ path \in Paths /\ spells = TRUE
  /\ attempt = 1 /\ errors = 0 /\ waits = 0
  /\ answer = None
  /\ verdict = "none"
  /\ permits = 0 /\ requests = 0 /\ felt = 0 /\ fives = 0

Later(delay) == Least(Longest, lag + delay)

\* The chain turns to the next chunk: an instrument's next window, a walk's
\* next document.  Landing the last one took some time.  Only a bars request
\* is built behind the permit, from the chunk and the descriptor alone: every
\* attempt of the chunk builds the same one, or is refused the same way.
StartChunk ==
  /\ pc = "idle"
  /\ path' \in Paths
  /\ spells' \in BOOLEAN /\ (path' = "discovery" => spells')
  /\ pc' = "budget"
  /\ attempt' = 1 /\ errors' = 0 /\ waits' = 0
  /\ answer' = None
  /\ verdict' = "none"
  /\ permits' = 0 /\ requests' = 0 /\ felt' = 0 /\ fives' = 0
  /\ \E delay \in 0..Longest : lag' = Later(delay)
  /\ UNCHANGED windows

-----------------------------------------------------------------------------
(* await_budget: one admit per turn, the lock dropped before the sleep. *)

Granted ==
  /\ pc = "budget"
  /\ Short(Earn(windows, lag)) = {}
  /\ windows' = Charge(Earn(windows, lag))
  /\ lag' = 0
  /\ pc' = "ready"
  /\ permits' = permits + 1
  /\ UNCHANGED <<chunk, waits, answer, verdict, requests, felt, fives>>

Denied ==
  /\ pc = "budget"
  /\ Short(Earn(windows, lag)) # {}
  /\ windows' = Earn(windows, lag)
  /\ lag' = 0
  /\ pc' = "dozing"
  /\ waits' = waits + 1
  /\ UNCHANGED <<chunk, answer, verdict, history>>

\* The wait the denial named and a millisecond; a sleep may run over.
Doze ==
  /\ pc = "dozing"
  /\ \E over \in 0..Longest :
       lag' = Later(WaitOf(windows, Binding(windows)) + Slack + over)
  /\ IF waits < MaxAdmissionWaits
     THEN pc' = "budget" /\ UNCHANGED verdict
     ELSE pc' = "idle" /\ verdict' = "halted"
  /\ UNCHANGED <<windows, chunk, waits, answer, history>>

-----------------------------------------------------------------------------
(* HttpSource: one request, and the feedback its answer gives the governor. *)

\* The first chunk of an instrument takes its permit before the credential is
\* read, the instrument's id is looked up and the window is clamped and split
\* (broker_window, fetch_chunks): any of them may refuse, and nothing is sent.
Abandon ==
  /\ pc = "ready" /\ path = "bars" /\ attempt = 1
  /\ pc' = "idle"
  /\ verdict' = "unsent"
  /\ \E delay \in 0..Longest : lag' = Later(delay)
  /\ UNCHANGED <<windows, chunk, waits, answer, history>>

\* window_async refuses before the socket: no wire word for the rung or the
\* listing, no end for the window.  The policy is told of no status.
Refuse ==
  /\ pc = "ready" /\ ~spells
  /\ pc' = "judging"
  /\ answer' = None
  /\ felt' = 0
  /\ UNCHANGED <<governor, chunk, waits, verdict, permits, requests, fives>>

Send ==
  /\ pc = "ready" /\ spells
  /\ pc' = "flight"
  /\ requests' = requests + 1
  /\ UNCHANGED <<governor, chunk, waits, answer, verdict, permits, felt, fives>>

IsSuccess(a) == a.status = 200

\* weigh_answered_body: on the bars path a 2xx body that names a refusal is
\* one; discovery and rolling requests read the status alone.
BodyRefuses(p, a) == p = "bars" /\ IsSuccess(a) /\ a.named # Unnamed

Narrows(p, a) == a.status = 429 \/ (BodyRefuses(p, a) /\ a.named = "Throttled")

\* On the bars path a success is one only once its body has been read.
Widens(p, a) ==
  IsSuccess(a) /\ (p = "bars" => a.body # "cut" /\ ~BodyRefuses(p, a))

Feedback(p, a) ==
  IF Narrows(p, a) THEN RecordThrottled(windows)
  ELSE IF Widens(p, a) THEN RecordSuccess(windows)
  ELSE windows

IsServerError(a) == a.status = 500

Receive ==
  /\ pc = "flight"
  /\ \E a \in Answers :
       /\ answer' = a
       /\ windows' = Feedback(path, a)
       /\ felt' = IF Narrows(path, a) THEN 1 ELSE 0
       /\ fives' = fives + (IF IsServerError(a) THEN 1 ELSE 0)
  /\ \E flight \in 0..Longest : lag' = Later(flight)
  /\ pc' = "judging"
  /\ UNCHANGED <<chunk, waits, verdict, permits, requests>>

-----------------------------------------------------------------------------
(* step: the whole retry policy, on the attempt's ordinal and the 5xx       *)
(* answers so far, the one being judged included.                           *)

End(how) == [end |-> how, wait |-> 0, throttled |-> FALSE]
Again(wait, throttled) == [end |-> "none", wait |-> wait, throttled |-> throttled]

ThrottleLadder(n) ==
  IF n >= ThrottleAttempts THEN End("exhausted")
  ELSE Again(Pause * 2^(n - 1), TRUE)

\* Slip: the cap reads the shared ordinal of the attempt.
MutServerLadder(n, e) ==
  IF n >= ServerErrorAttempts THEN End("server_down")
  ELSE Again(Pause * n * n, FALSE)

ServerLadder(n, e) ==
  IF e >= ServerErrorAttempts \/ n >= ThrottleAttempts THEN End("server_down")
  ELSE Again(Pause * e * e, FALSE)

BlipLadder(n) ==
  IF n >= ThrottleAttempts THEN End("exhausted") ELSE Again(Blip * n * n, FALSE)

OnName(named, n, e) ==
  CASE named = "NotEntitled" -> End("not_entitled")
    [] named = "SessionDead" -> End("session_dead")
    [] named \in {"RequestWrong", "ReasonGiven"} -> End("answered")
    [] named = "Throttled" -> ThrottleLadder(n)
    [] named = "RetryBounded" -> ServerLadder(n, e)

\* A body cut short is a failure of the transport: it carries no status.
StatusRead(a) == IF a.body = "cut" THEN 0 ELSE a.status

OnStatus(status, n, e) ==
  CASE status = 401 -> End("session_dead")
    [] status = 429 -> ThrottleLadder(n)
    [] status = 500 -> ServerLadder(n, e)
    [] status = 0 -> BlipLadder(n)
    [] OTHER -> End("answered")

\* What the policy is told: laddered passes no name.
NameRead(p, a) == IF p = "bars" THEN a.named ELSE Unnamed

Step(p, a, n, e) ==
  IF NameRead(p, a) # Unnamed THEN OnName(a.named, n, e)
  ELSE IF a.marker THEN End("session_dead")
  ELSE OnStatus(StatusRead(a), n, e)

Tallied(a, e) == e + (IF IsServerError(a) THEN 1 ELSE 0)

\* The chunk ends without the policy being asked: it was served, or on the
\* bars path its body does not decode and asking again brings the same bytes.
Served(p, a) == IsSuccess(a) /\ a.body = "whole" /\ ~BodyRefuses(p, a)
Undecoded(p, a) == p = "bars" /\ IsSuccess(a) /\ a.body = "strange"

Finish ==
  /\ pc = "judging"
  /\ \/ Served(path, answer) /\ verdict' = "ok"
     \/ Undecoded(path, answer) /\ verdict' = "unreadable"
  /\ pc' = "idle"
  /\ UNCHANGED <<governor, chunk, waits, answer, history>>

\* Slip: the wrapper takes the decrease for a 429 as well.
MutNarrowsAgain(p, a, step) == p = "bars" /\ step.throttled

\* with_retry narrows the governor itself for a rate refusal that is named
\* under another status than 429; laddered leaves it to the transport.
NarrowsAgain(p, a, step) == p = "bars" /\ step.throttled /\ a.status # 429

\* Slip: a retry goes straight to the socket on the chunk's one permit.
MutNextAttempt == "ready"
NextAttempt == "budget"

Judge ==
  /\ pc = "judging"
  /\ ~Served(path, answer) /\ ~Undecoded(path, answer)
  /\ LET e == Tallied(answer, errors)
         step == Step(path, answer, attempt, e)
         again == NarrowsAgain(path, answer, step)
     IN  /\ errors' = e
         /\ windows' = IF again THEN RecordThrottled(windows) ELSE windows
         /\ felt' = felt + (IF again THEN 1 ELSE 0)
         /\ verdict' = step.end
         /\ pc' = IF step.end = "none" THEN NextAttempt ELSE "idle"
         /\ attempt' = attempt + (IF step.end = "none" THEN 1 ELSE 0)
         /\ lag' = Later(step.wait)
  /\ waits' = 0
  /\ UNCHANGED <<path, spells, answer, permits, requests, fives>>

LadderNext ==
  \/ StartChunk \/ Granted \/ Denied \/ Doze
  \/ Abandon \/ Refuse \/ Send \/ Receive
  \/ Finish \/ Judge

LadderSpec == LadderInit /\ [][LadderNext]_ladder

-----------------------------------------------------------------------------
(* What the chain promises. *)

\* A refusal for rate, as the vendor says it: by its status, or by the name the
\* bars path reads.
RateRefusal(p, a) == a.status = 429 \/ NameRead(p, a) = "Throttled"

Reasking == pc = NextAttempt /\ attempt > 1

\* http.rs:299 (charged_by_caller), server.rs:9236 and :8191: a request costs
\* one permit, the retry's as well as the first, and however often an attempt
\* waits it withdraws one at most.  Permits are lost only by a chunk of which
\* nothing goes out: once a request was sent, each permit has bought its own.
EveryRequestIsPaid ==
  /\ requests <= permits /\ permits <= attempt
  /\ requests > 0 => permits = requests + (IF pc = "ready" THEN 1 ELSE 0)

\* server.rs:9382-9412: before a chunk is asked again, a refusal for rate has
\* narrowed the governor, and once only unless it came under a 2xx; no other
\* answer narrows it (http.rs:2620), or a dead credential would hide behind an
\* ever slower run.
RateRefusalIsFelt ==
  /\ (Reasking /\ RateRefusal(path, answer)) =>
       felt >= 1 /\ (IsSuccess(answer) \/ felt = 1)
  /\ felt > 0 => RateRefusal(path, answer)

\* server.rs:9110: a vendor is reported down for its own 5xx answers or a
\* spent ladder, never because blips came before its first 5xx.
DownIsMeasured == verdict = "server_down" =>
  fives >= ServerErrorAttempts \/ requests = ThrottleAttempts

\* server.rs:8248: the wait the governor named clears it, so the 64 turns of
\* await_budget are never needed and the chain is never told to give up.
OneWaitIsEnough == waits <= 1 /\ verdict # "halted"
=============================================================================
