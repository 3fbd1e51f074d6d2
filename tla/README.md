# A TLA+ model of the stadium congestion forecaster

The program (`src/src/`, TypeScript) is one Node process: HTTP requests bring
signals, a forecaster turns the signals of each gate into a congestion score,
and each score may raise alerts, replace the recommended actions of the gate,
recommend shuttle redirections and nudge fans. This directory models the parts
of it whose order of events matters, checks them with TLC and proves the
central results with TLAPS. Paths below are relative to `src/src/` unless they
start with `.kiro/`.

## The system

| Component | State | Operations | Correct when |
|---|---|---|---|
| Event bus (`infra/event-bus.ts`) | subscribers | `publish` calls them synchronously; a failing one is logged | a failure in one subscriber reaches no other |
| Pipeline (`pipeline.ts`) | signal window, fans, live forecast and previous risk level per gate | subscribers of `signal-events` and `congestion-scores`, worker and data-quality timers, `stop` | what it decides is what the latest score calls for |
| Forecaster (`congestion-forecaster/`) | none of its own; last-known score in Redis | recompute on a signal or a timer, `computeForecast` | scores in bounds, never older data over newer |
| Recommendation engine | active actions per gate, and a second list for the dashboard | regenerate, execute | the list belongs to the latest score; both lists agree |
| Shuttle redirection advisor | recommendations, recent rejections | generate, accept, reject | no rejected pair again for five minutes; decisions last |
| Fan notification system | cooldown keys in Redis, queue of nudges | generate per fan, worker delivers or cancels | one nudge per fan, gate and cooldown; one outcome each, and audited |
| Ops dashboard | alerts, scores, data-quality flags, sockets | risk-level and data-quality alerts, broadcast, connect, acknowledge, snapshot | exactly one alert per transition to HIGH or CRITICAL; connected clients stay current |
| Signal ingestion | source timers in Redis; an intake queue nothing uses yet | `POST /v1/signals`, status check; enqueue, dequeue, drain | recorded exactly once; degraded only after silence; riskier gates first under overload |
| Audit log | rows | one writer per topic | the last row is the truth |
| Server (`server.ts`) | the in-memory stores | routes, web socket, lifecycle | - |
| Authentication (`infra/auth.ts`) | table of keys and roles, read once | verify a key, require a role | the last valid entry of a key decides alone |
| Kafka topics, SQL migrations | - | - | not modelled: not used by the running code |

### What makes it hard

Everything runs on one event loop. Code between two awaits runs alone;
continuations of settled promises run first in, first out; timers, requests and
network data wait until none is left. So the interleavings are those at an
`await` that leaves the process, that is, at Redis: saving the score
(`fallback.ts:46`), reading and setting a fan's cooldown (`service.ts:33,42`),
recording a rejection (`suppression.ts:17`), refreshing and reading the timer of a
source (`redis-client.ts:76,94`). Commands of all callers share one
connection, so replies come in the order of the commands, but one chunk of data
may carry several, and then the handlers they resume run intertwined, microtask
by microtask.

`server.ts` wires a mock of Redis that answers at once. With it, no handler is
ever interrupted by another, and the conditional properties below hold without
their conditions (`overlapped` stays empty). The models take the class the code
is written against, `RedisClientWrapper` over a real connection, which may also
fail.

## The modules

`RiskLevels` has the pure functions the others share: `deriveRiskLevel`, the order of
levels, `pickAlternativeGate`. A forecast is the score of its first point.

`ScorePipeline` is the core. A *job* is one recompute and the handler it ends in.
`pc[j]` is the await it is suspended at, `microtasks` the queue of
continuations, `commands` the queue of Redis commands. Each action is the code
from one await to the next:

| Action | Code |
|---|---|
| `OnSignalEvent`, `ScheduledTick` | append to the window, read it, compute, send the command (`pipeline.ts:216-232`, `scheduler.ts`, `fallback.ts`) |
| `SaveReplies` | a chunk of replies, some of them errors |
| `SaveFailed`, `UnhandledRejection`, `Stop` | the bus logs (signal path) or the process shuts down (timer path, signals) |
| `PublishForecast` | stores, synchronous publication, first segment of the handler, score audit row |
| `PublishToNobody` | the same after shutdown: stores only |
| `AlertPublished` | one more microtask for a handler that raised an alert |
| `RecordRiskLevel`, `StoreActions`, `PublishActions` | the rest, one await each |
| `ExecuteAction` | the execute route |

`ScorePipelineProofs` and `ScoreOrderProofs` hold the theorems about it.

`FanNudges` is the end of the same handler: the loop over fans with its two
Redis commands per fan, the keys with their TTL, the delivery worker, both
audit stores and the clock. `FanNudgesProofs` holds the theorems about it.

`ShuttleRedirections` is what lies between: recommendations made by each score,
decisions of dispatchers, the list of rejections that is filled only after Redis
has answered.

| Action | Code |
|---|---|
| `ScoreUpdate` | the handler starts: its `now`, and the forecast it stores (`pipeline.ts:248-254`) |
| `GenerateRedirections` | after its awaits: the list of recent rejections, the recommendations, the store (`pipeline.ts:266-271`) |
| `AcceptRedirection`, `RejectRedirection` | the requests, up to the command that a rejection sends (`shuttle-redirection-advisor/api.ts`) |
| `RejectionRecorded`, `RejectionFails` | the reply: the route adds to the list and answers 200, or answers 503 (`server.ts:697-713`) |
| `Tick` | the clock |

Between its two steps a handler waits for microtasks only, so requests find no
handler between them; other handlers and replies of the same chunk do, and the clock
may go on. The two steps read the clock separately: the handler's time is
`generatedAt` and what `isSuppressed` compares with, while `getRecentRejections`
filters by the time of the second step. The field `made` of a record is that time,
which the code does not keep; only properties read it.
`ShuttleRedirectionsProofs` holds the theorems about the module.

`Forecasting` is the arithmetic of `computeForecast` (weights, growth, clamps,
rounding) and of the ranking of actions, over integers: scores are
rounded fractions, growth counts in hundredths and impact in tenths, where the
code computes with doubles.

`SignalIngestion` is what a request to `POST /v1/signals` does, built on
`Forecasting`. A body is which of its fields are absent or malformed, its source,
count and age; what the schema says of it is its first offending field.

| Action | Code |
|---|---|
| `PostSignal` | defaults, schema, timing flags, publication (window, forecast, audit row), then the SET of the source timer is sent (`signal-ingestion/service.ts:48-84`) |
| `PostMalformed` | a dead letter and 400 |
| `TouchServed`, `TouchFails` | Redis serves the SET, or fails it, applied or not: 202 or 503 |
| `CheckDataQuality`, `StatusesRead`, `AllDegradedRead` | the interval, and the two reads of the timers it makes one after the other (`pipeline.ts:324-333`); the first decides the alert, the second the flag |
| `StatusReadFails`, `Stop` | the rejection nobody catches, and shutdown; requests are still served afterwards |
| `ScheduledTick`, `Tick` | the forecast is recomputed from what the window holds; the clock |

`Access` is the key table and the roles of the routes. `LiveDashboard` composes
`ScorePipeline` with the dashboard that watches it: each action of the pipeline
is an action of the composition, three of them with the broadcast the handler
makes, and clients connect, drop, load snapshots, execute actions and acknowledge
alerts in between. `told[c]` is what the server has last sent to client c; `current`
says that the client loaded the snapshot while connected. The order is the server's
order of sending: a snapshot travels on a connection of its own, and may reach the
browser after a message of the stream that was sent later. Of an acknowledgement the
module keeps that it was made; the user id stored with it is whatever the body of the
request says. That the pipeline does not notice
(`ImplementsPipeline`) is checked as a refinement and proved.

`SignalIngestionProofs`, `ForecastProofs` (the values of forecast and ranks) and
`LiveDashboardProofs` hold the theorems about the two.

`PriorityIntakeQueue` is the bounded queue of `priority-queue.ts`, shown to
implement `IntakePolicy`, which says in terms of a plain set what its comments
promise. `PriorityIntakeQueueProofs` holds the theorems about it, that one included.

`MC*` modules give TLC its constants.

## The runs

| Run | Shows | Bounds |
|---|---|---|
| `score_pipeline` | alerts, live forecast and actions are consistent | 2 gates, 2 jobs in flight, 3 recomputes, 1 signal per gate, a LOW, a MODERATE and a CRITICAL score |
| `fan_nudges` | cooldown, queue and audit agree; every nudge gets an outcome | 1 gate, 2 fans, 2 handlers, 2 scores, clock 0..3 with a cooldown of 2 |
| `shuttle_redirections` | acknowledged rejections hold, decisions last | 3 gates, 2 routes, 3 score handlers, 2 decisions, clock 0..3 with a period of 2 |
| `signal_ingestion` | audit log, window, forecast, ranks, timers and data-quality alerts are consistent | 1 gate, 2 requests of 6 kinds, 2 commands in flight, clock 0..3, capacity 5 |
| `live_dashboard` | clients stay current, get every alert; the pipeline is unaffected | 1 gate, 2 jobs, 2 recomputes, a LOW and a CRITICAL score, 3 clients, 6 key entries |
| `intake_queue` | the buffers implement the policy | capacity 3, 5 arrivals of any level |

Two jobs are enough for two handlers to overtake one another, and a third
recompute shows what they leave behind. Two gates show that gates do not
disturb each other. One gate is enough for fans, whose keys and nudges never
refer to another gate, and the clock passes the end of a cooldown. Three gates
let the best alternative change while a rejection is in force. Three score handlers are
one that recommends, one for the safer gate, one that would recommend again, and the clock
lets the last start inside a period and end after it. Timers of sources are
per gate, so one gate is enough for ingestion; its clock passes the shortest timeout, the
retention of the window and the stale threshold. Two commands let a SET fall
between the two reads of a check, or two checks overlap. The three clients are staff whose key
was given other roles before, an auditor, and a device that may not stream. Capacity 3 with
five arrivals sheds twice, at different levels. No deadlock is checked, since
every counter is bounded and the system may simply stop.

What the pass runs say, in words:

* `AlertsExactUnlessOverlapped`: as long as handlers of a gate never overlapped,
  the alerts raised are exactly those a reference definition finds in its audit log.
* `ActionsFollowForecast`: then, too, both lists of actions belong to the latest score.
* `LiveForecastIsStored`: decisions use the forecast that is shown, until shutdown unsubscribes
  the handler that writes the live map.
* `DashboardOffersActiveActions`: even when handlers overtake one another, the two lists end alike.
* `ForecastNeverGoesBack`: no forecast is replaced by one of fewer signals.
* `ScoresGetActions` (liveness): each published score, or a later one, gets its list.
* `CooldownKeptUnlessRaced`: one nudge per fan, gate and cooldown, unless handlers overlapped or one outlived a tick of the clock.
* `KeysMatchNudges`: the cooldown clock stands for a nudge and nothing resets it; a key may be older
  than its nudge only if a handler of an earlier tick set it late. That takes three handlers (one
  of a later tick overtakes by skipping a fan in a calm moment), one more than the run has; the
  theorem is about any number of them.
* `AuditKeepsOutcomeUnlessEarly`, `OneOutcomePerNudge`, `EveryNudgeSettles` (liveness): a nudge gets one outcome, and the audit log ends with it
  unless the worker came before the handler's own audit row.
* `AcknowledgedRejectionHolds`: after a rejection was answered 200, its pair is not recommended before its period is over,
  by the time the recommendation is made.
* `DecisionsLast`: a decision taken in a later millisecond than that of the recommendation is never undone by a
  later score. Dispatchers may decide again, since the routes do not look at the status.
* `WindowLosesNothing`: pruning the window, by one constant, never changes the forecast, which filters by another.
* `SignalsNeverLowerForecast`: a signal, which also prunes, lowers no point of the forecast.
* `RanksArePermutation`: no action is ranked above one of more impact. (That ranks are 1, 2, 3, ... says that the comparator
  is a total order: a rank is one more than the number of types before.)
* `SignalsRecordedOnce`: whatever Redis does, a conforming signal is one audit row, any other one dead letter; only a shutdown loses some. A client
  that repeats a request answered 503 makes a second event, which nothing in the code recognises.
* `AlertsOnlyAfterSilence`, `AlertsFlaggedUnlessHeard`, `SilenceShows` (liveness): a data-quality alert means silence, agrees with the flag unless a signal came between the two reads, and silence shows in the end.
* `StreamKeepsClientsCurrent`: whoever loads the snapshot while connected has been sent, whenever the loop turns, what a new snapshot would show; for scores unless handlers overlapped.
* `AlertsReachClients`, `HubHoldsLiveStaff`, `ImplementsPipeline`: risk-level alerts reach everyone connected (DATA_QUALITY alerts, which
  `SignalIngestion` raises, are not followed to clients), the hub holds exactly them, and the pipeline is what it is without them.
* `SizeCountsWaiting`, `LossesSpareRiskier`, `ImplementsPolicy`: the queue never loses count, overload falls on the least risky gates, order is by level, then arrival.

Where the code does not do what a comment or document says, a run has TLC find
the counterexample:

| Run | Disagreement |
|---|---|
| `missed_alerts` | the previous level is read before an await and written after it: an alert missed or doubled |
| `hidden_executions` | executing an action never reaches the dashboard's list (no race needed) |
| `cooldown_race` | two handlers read the cooldown key before either sets it |
| `nudge_audit_regress` | the worker settles a nudge before its handler publishes it as QUEUED, and the audit log keeps that |
| `rejection_gap` | a score between a rejection and Redis's reply, or after Redis failed, recommends the rejected pair |
| `prior_score_lost` | when all signals have aged out, the next recompute stores and publishes 0 over the prior score |

Except for `hidden_executions` and `prior_score_lost` these need a Redis that answers
asynchronously. Divergences no run is spent on:

* `ScorePipeline` states `NoActionsWhenLow` and `ScoreAuditNamesItsSignals`
  (Property 41 of `design.md`), which TLC finds violated: an overtaken
  handler puts its actions back, and the score audit lists the window as it is
  when the score is published (`pipeline.ts:287`), not when it was read.
* `priority-queue.ts:53` says that the event shed is returned; `enqueue` returns
  the incoming event if that is dropped, and nothing if another one is shed.
* The heartbeat of the hub exists so that dashboards refresh every 30 seconds
  (`websocket.ts:21-27`), but `server.ts:469` gives it no events to send. A client
  that loaded its snapshot before it connected stays stale until the next score;
  hence the condition of `StreamKeepsClientsCurrent`.
* Property 37 asks for an indicator as soon as one source is degraded;
  `allSourcesDegraded` asks for all three. Property 38 asks for low
  confidence as soon as a stale event is in the window; `forecast.ts:94` asks for no
  usable event at all.
* Property 26 counts the five minutes once. The code measures them twice
  (`redirections.ts:35`, `server.ts:486`): a handler that starts inside the period and asks
  for the list after its end makes a recommendation whose `generatedAt` is inside. Hence
  `AcknowledgedRejectionHolds` is about the time when a recommendation is made.
* Property 36 has the acknowledging user's identity in the record; the route
  takes the user id from the body of the request.

## Fairness

`ScorePipeline`: weak fairness of every job's continuation (Node runs all
microtasks), of the unhandled-rejection event, and of the replies of Redis
(the client answers or, with `maxRetriesPerRequest: 1`, fails every command).
None of signals, timers, requests or shutdown. `FanNudges`: replies as above,
and the worker, whose interval keeps firing.
`SignalIngestion`: the interval of the data-quality check, and the replies. The forced exit five seconds after
shutdown is not modelled; the liveness properties are about a process that lives.

## The proofs

`ScorePipelineProofs` proves, for any set of gates, number of jobs, scores and
bounds, from the named assumptions of `ScorePipeline` (gates, scores and action
types not empty, scores within 0..100, bounds natural numbers):

* `TypeCorrect`: `Spec => []TypeOK`;
* `HandlersFollowScores`: the inductive invariant;
* `AlertsExact`, `ActionsAreCurrent`, `LiveForecastShown`: the three
  properties of the same meaning that the run checks.

None of the three is inductive. That alerts are exact when a score is published
needs `previousRiskLevel` to be the level of the last audited score, which is
false while a handler is between `PublishForecast` and `RecordRiskLevel`; that
the lists are current needs each list to be that of the latest score once the
handler in flight has passed the step that writes it. `HandlerInv` says so for each
value of `pc`, for a gate that has not overlapped, together with the fact that
at most one of its jobs is then a handler and that this job holds the latest row.
`CommandsInv` says who waits in which queue, so that a reply resumes a
job that is saving, and is alone in doing so. `TypeOK`, `CommandsInv` and
`HandlerInv` together are inductive; each action that writes a gate's state is one
lemma (`PublishStep`, `SegmentStep`, ...), and `OtherGate` disposes of the gates
it does not touch.

`SignalIngestionProofs` proves `WindowLosesNothing`, `AlertsOnlyAfterSilence`,
`AlertsFlaggedUnlessHeard` and `SignalsRecordedOnce` for any bodies, timeouts, thresholds
and bounds; the one relation between constants it needs is that the retention is no
shorter than the span a forecast looks at (`RetentionAssumption`). That a dropped event
would not count needs to be remembered of every one dropped (`DroppedIsOld`).
That an alert means silence needs three facts: a timer runs at least a timeout past
whatever was heard of its source (`HeardKeepsTimer`); a check in flight carries
statuses that were right when they were read, and are still right unless something was heard since
(`StatusesWereRight`); and no alert is dated in the future (`AlertIsPast`). The count of
signals rests on lemmas about how many touches a queue holds after `Append` and `Tail`.

`LiveDashboardProofs` proves all five properties of its run. Each step of the
composition is a step of the pipeline or leaves its variables alone
(`StepsOfPipeline`), which is the refinement, and lets the lemmas of
`ScorePipelineProofs` be used as they are. The alerts a client has seen are those raised
since it connected, because what it missed was there before (`SinceIsPast`) and
open sockets are in the hub. That the stream is sound needs two more invariants of the
pipeline: a handler that still has to write is in the queue of microtasks
(`HandlersQueued`), so that none is left when the loop turns; and the score stored is the
one audited last (`StoredIsLatest`), so that the only handler of a gate announces what
the snapshot shows (`ToldInv`).

`ShuttleRedirectionsProofs` proves the three properties of its run for any gates,
routes, scores, period and number of handlers in flight. A handler compares a new record with
the list of the reject route, so an acknowledged rejection holds because it is in that list
(`AcknowledgedAreKept`), and whichever of the two readings of the clock lets a record
through, the period is over by the later one, since no handler is ahead of the clock
(`NotAhead`). That a decision is not replaced needs every decision to be no later than
the time of any handler in flight (`DecidedBefore`): requests are served when there is none,
and the id of a record contains the time of its handler. `AlternativeIsUnique` says of the helper that
redirections and nudges share that it picks exactly one gate when any is safer.

`ScoreOrderProofs` proves the remaining invariant and the action property of the core.
Neither is excused by an overlap, so neither follows from `HandlerInv`, which says
nothing once handlers have overlapped. What stays true then is the order:
put the microtasks in front of the Redis commands, and every job in flight has
exactly one place in that `Queue` (`PlacesInv`); a reply leaves it as it is, a
recompute joins at the end, and a continuation leaves the front, at most to rejoin behind the
microtasks. So jobs that wait for Redis stand in the order in which they read
their windows (`OrderInv`), which is `ForecastNeverGoesBack`; and the handlers that have stored a
list and not yet published it stand in the order in which they stored it, the
last of them with the list that is stored now (`ListsInv`), so that the lists are equal
when none is left.

`FanNudgesProofs` proves the five invariants of its run for any gates, fans, scores,
cooldown and number of handlers, from the assumptions of `FanNudges` (there is a gate, scores
within 0..100, a cooldown of at least one tick). That the cooldown is kept needs
that a handler about to set a key found its fan out of cooldown
and still would (`NudgeStillDue`), which needs that it is alone at its gate and of this tick
(`HandlersInv`), and that no nudge is later than the handler (`NudgesArePast`). That nothing resets the
clock is that the key outlives the cooldown of every nudge of its fan
(`KeysOutlast`) and, while it lives, stands for one (`KeysStandForNudges`). That the audit log
ends with the outcome needs of every nudge a handler has still to publish that it
is not settled, or was settled early (`GeneratedAreQueued`).

`PriorityIntakeQueueProofs` proves the three invariants of its run and
`ImplementsPolicy`, for any capacity and number of arrivals. All of it rests on each buffer
being sorted by arrival (`SortedByArrival`): the head of the
first non-empty buffer is then the policy's first event, the head of the last one
what the policy sheds, and the heads are removed from a set of distinct events
(`SizeCountsWaiting`). Drain is a recursive function over the buffers; a least counterexample
(`WFMin`) takes the place of induction.

`ForecastProofs` proves the rest of `SignalIngestion`. The incoming people
are a fold over the window, which takes elements in an order the fold chooses: the module shows that it is
defined for every finite set (`SumsExist`), that any element may come first
(`SumTakesAny`), hence that one more event adds its people (`TotalOfMore`); each
time by the smallest set for which the claim would fail. Rounding, growth and both clamps keep the score in
bounds and never decrease (`PredictedGrows`), so the forecast
is typed. A signal also prunes, but by `DroppedIsOld` the window may be replaced by all
events of the gate, of which the signal adds at most one: that is
`SignalsNeverLowerForecast`. Ranks have no ties or gaps because the comparator is a strict total order of
four types (`OutranksIsOrder`).

Only model-checked: the liveness properties `ScoresGetActions`, `EveryNudgeSettles` and
`SilenceShows`, which are out of the prover's reach. Every other property of a passing run is
a theorem.

## Not modelled, and why

Explanations and message texts; doubles (scores, growth and impacts are exact
integers here); the TIMEOUT branch of `fallback.ts`, since a computation of one
microtask always beats a timer; routes that only read; the broadcasts of
redirections; timers of routes, which nothing but one GET route reads; Kafka topics, topology and SQL,
which the running code does not use. Of authentication, the two headers a key may come in,
the limit on its length and the comparison in constant time. The forced exit five
seconds after shutdown. Restarts lose all in-memory state, so there is nothing
to recover; the previous level then starts at LOW.

## Plan

1. `GateHandlers`: score path, redirections and fan loop composed on one event loop,
   to replace the assumption that the parts before a module run in one turn.
2. The data-quality flag in the dashboard's snapshot, composed with the stream.
3. Theorems about the composition of 1, from `HandlerInv` and `QueueInv`.
