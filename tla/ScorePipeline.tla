---------------------------- MODULE ScorePipeline ----------------------------
(***************************************************************************)
(* The path of a congestion score: a signal or a timer starts a recompute  *)
(* (congestion-forecaster/scheduler.ts, fallback.ts), the forecast is      *)
(* published on the in-memory bus, and the congestion-scores handler of    *)
(* pipeline.ts raises alerts and replaces the recommended actions of the   *)
(* gate, which staff then execute (recommendation-engine/api.ts).          *)
(*                                                                         *)
(* The program is one event loop.  Between two awaits code runs alone; the *)
(* continuations of settled promises wait in the FIFO queue `microtasks`,  *)
(* and a timer, a request or data from Redis is served only when that      *)
(* queue is empty.  The one await of this path that leaves the process is  *)
(* redis.setLastKnownScore: commands are pipelined on one connection, so   *)
(* replies come back in order, and one chunk of data may carry several.    *)
(* All the stores are the in-memory ones of server.ts.                     *)
(*                                                                         *)
(* Out of this module: the rest of the congestion-scores handler, which    *)
(* makes shuttle recommendations and fan nudges and writes none of these   *)
(* variables; the arithmetic of computeForecast (any score may come out    *)
(* of a window, as signals age between two reads); the TIMEOUT branch of   *)
(* the fallback, which a computation made of one microtask cannot reach.   *)
(***************************************************************************)
EXTENDS Naturals, Sequences, FiniteSets, RiskLevels

CONSTANTS
    Gates,        \* the gates the pipeline is wired for
    Jobs,         \* slots for recomputes in flight, of all gates together
    Scores,       \* the scores computeForecast may return
    ActionTypes,  \* CANDIDATE_ACTION_TYPES
    MaxSignals,   \* bound: signals received per gate
    MaxRuns       \* bound: recomputes started

ASSUME GatesAssumption == Gates # {}
ASSUME ScoresAssumption == Scores # {} /\ Scores \subseteq Score
ASSUME ActionTypesAssumption == ActionTypes # {}
ASSUME BoundsAssumption == MaxSignals \in Nat /\ MaxRuns \in Nat

VARIABLES
    up,                 \* the pipeline is wired: ticks run, the bus has subscribers
    window,             \* signalWindowByGate: how many signals have been appended
    runs,               \* recomputes started so far (bounded by MaxRuns)
    microtasks,         \* continuations ready to run, first one first
    commands,           \* jobs whose Redis command awaits its reply, oldest first
    pc,                 \* where the job of each slot is suspended
    job,                \* the local variables of that job
    forecastStore,      \* forecastStore and gateScoreSource, written together
    forecastsByGate,    \* the live map read by redirections, nudges and deliveries
    previousRiskLevel,  \* previousRiskLevelByGate
    scoreAudit,         \* the congestion-scores rows of the audit log, per gate
    alerts,             \* positions in scoreAudit for which an alert was raised
    activeActions,      \* activeActionsStore: what staff list and execute
    dashboardActions,   \* activeActionsSource: what the dashboard snapshot shows
    overlapped          \* history: two handlers of the gate have been in flight

vars == <<up, window, runs, microtasks, commands, pc, job, forecastStore,
          forecastsByGate, previousRiskLevel, scoreAudit, alerts,
          activeActions, dashboardActions, overlapped>>

eventLoop == <<microtasks, commands, pc, job>>
published == <<forecastStore, forecastsByGate, scoreAudit, alerts, overlapped>>
actionLists == <<activeActions, dashboardActions>>

(* The points at which a job waits.                                        *)
Suspended ==
    {"idle",      \* free slot
     "saving",    \* for the reply of redis.setLastKnownScore
     "saved",     \* reply received, forecast not yet published
     "failed",    \* the command failed
     "rejected",  \* nobody has caught that (timer path)
     "alerting",  \* in raiseRiskLevelAlertIfTransitioned, alert published
     "alerted",   \* risk-level check returned
     "windowed",  \* RecommendationEngineService has asked for the window
     "stored"}    \* activeActionsStore.setActiveActions called

(* The part of a handler's life during which it still has to write.        *)
Handling == {"alerting", "alerted", "windowed", "stored"}

Forecast == [score : Scores, used : 0 .. MaxSignals]
NoForecast == [score |-> 0, used |-> 0]

(* A row of the audit log; `used`, the signals the score was computed from,*)
(* is history, `named` is what contributingSignalIds lists.                *)
AuditRow == [score : Scores, used : 0 .. MaxSignals, named : 0 .. MaxSignals]

(* A list of actions: the forecast it was generated for (its position in   *)
(* scoreAudit), the types offered, the types marked executed.  The ranking *)
(* of the list is a function of the same data and is left out.             *)
ActionList == [of : Nat, offered : SUBSET ActionTypes,
               executed : SUBSET ActionTypes]
EmptyList == [of |-> 0, offered |-> {}, executed |-> {}]

JobRecord == [gate : Gates, tick : BOOLEAN, used : 0 .. MaxSignals,
              score : Scores, row : Nat]
NoJob == [gate |-> CHOOSE g \in Gates : TRUE, tick |-> FALSE, used |-> 0,
          score |-> CHOOSE s \in Scores : TRUE, row |-> 0]

Init ==
    /\ up = TRUE
    /\ window = [g \in Gates |-> 0]
    /\ runs = 0
    /\ microtasks = <<>>
    /\ commands = <<>>
    /\ pc = [j \in Jobs |-> "idle"]
    /\ job = [j \in Jobs |-> NoJob]
    /\ forecastStore = [g \in Gates |-> NoForecast]
    /\ forecastsByGate = [g \in Gates |-> NoForecast]
    /\ previousRiskLevel = [g \in Gates |-> "LOW"]
    /\ scoreAudit = [g \in Gates |-> <<>>]
    /\ alerts = [g \in Gates |-> {}]
    /\ activeActions = [g \in Gates |-> EmptyList]
    /\ dashboardActions = [g \in Gates |-> EmptyList]
    /\ overlapped = [g \in Gates |-> FALSE]
-----------------------------------------------------------------------------
(* The event loop serves a new timer, request or chunk of data only when   *)
(* every microtask has run and no unhandled rejection is pending.          *)
Turn == microtasks = <<>> /\ \A j \in Jobs : pc[j] # "rejected"

(* The job whose continuation runs next.                                   *)
Running(j, at) ==
    microtasks # <<>> /\ j = Head(microtasks) /\ pc[j] = at

(* It awaits again, to be resumed behind the continuations already queued. *)
Await(j, at) ==
    /\ pc' = [pc EXCEPT ![j] = at]
    /\ microtasks' = Append(Tail(microtasks), j)
    /\ UNCHANGED commands

(* It is done with this module's state.                                    *)
Return(j) ==
    /\ pc' = [pc EXCEPT ![j] = "idle"]
    /\ job' = [job EXCEPT ![j] = NoJob]
    /\ microtasks' = Tail(microtasks)
    /\ UNCHANGED commands

(* The scores computeForecast may return for a window.                     *)
UnclampedForecast == Scores \cup {130}
ComputeForecast == Scores

(***************************************************************************)
(* ForecastScheduler.recompute up to its Redis command: the window is read *)
(* and the score computed in the microtasks that follow the event, and the *)
(* point is sent to Redis.                                                 *)
(***************************************************************************)
Recompute(j, g, isTick, used) ==
    /\ pc[j] = "idle"
    /\ runs < MaxRuns
    /\ runs' = runs + 1
    /\ \E s \in ComputeForecast :
          job' = [job EXCEPT ![j] = [gate |-> g, tick |-> isTick, used |-> used,
                                     score |-> s, row |-> 0]]
    /\ pc' = [pc EXCEPT ![j] = "saving"]
    /\ commands' = Append(commands, j)
    /\ UNCHANGED microtasks

(* The signal-events subscriber, for an event of a known gate.             *)
OnSignalEvent(j, g) ==
    /\ Turn
    /\ up
    /\ window[g] < MaxSignals
    /\ window' = [window EXCEPT ![g] = @ + 1]
    /\ Recompute(j, g, FALSE, window[g] + 1)
    /\ UNCHANGED <<up, previousRiskLevel, published, actionLists>>

(* The interval of startScheduledTicks; nobody awaits or catches it.       *)
TickOnFirstWindow(j, g) ==
    /\ Turn
    /\ up
    /\ Recompute(j, g, TRUE, 0)
    /\ UNCHANGED <<up, window, previousRiskLevel, published, actionLists>>

ScheduledTick(j, g) ==
    /\ Turn
    /\ up
    /\ Recompute(j, g, TRUE, window[g])
    /\ UNCHANGED <<up, window, previousRiskLevel, published, actionLists>>

(***************************************************************************)
(* One chunk of data from Redis: the first n replies, in order, those of   *)
(* the jobs in `failed` errors.                                            *)
(***************************************************************************)
SaveReplies(n, failed) ==
    LET answered == {commands[i] : i \in 1 .. n}
    IN  /\ Turn
        /\ failed \subseteq answered
        /\ microtasks' = SubSeq(commands, 1, n)
        /\ commands' = SubSeq(commands, n + 1, Len(commands))
        /\ pc' = [j \in Jobs |-> IF j \in failed THEN "failed"
                                 ELSE IF j \in answered THEN "saved" ELSE pc[j]]
        /\ UNCHANGED <<up, window, runs, job, previousRiskLevel, published, actionLists>>

(* A failed command rejects recompute and the forecast is lost.  On the    *)
(* signal path the bus catches and logs it, on the timer path nobody does. *)
SaveFailed(j) ==
    /\ Running(j, "failed")
    /\ IF job[j].tick
       THEN /\ pc' = [pc EXCEPT ![j] = "rejected"]
            /\ microtasks' = Tail(microtasks)
            /\ UNCHANGED <<commands, job>>
       ELSE Return(j)
    /\ UNCHANGED <<up, window, runs, previousRiskLevel, published, actionLists>>

(* process.on("unhandledRejection"): shutdownServer stops the pipeline.    *)
UnhandledRejection(j) ==
    /\ microtasks = <<>>
    /\ pc[j] = "rejected"
    /\ pc' = [pc EXCEPT ![j] = "idle"]
    /\ job' = [job EXCEPT ![j] = NoJob]
    /\ up' = FALSE
    /\ UNCHANGED <<window, runs, microtasks, commands, previousRiskLevel,
                   published, actionLists>>

(* SIGINT or SIGTERM: the same shutdownServer.                             *)
Stop ==
    /\ Turn
    /\ up
    /\ up' = FALSE
    /\ UNCHANGED <<window, runs, eventLoop, previousRiskLevel, published, actionLists>>

-----------------------------------------------------------------------------
(***************************************************************************)
(* publishForecast and, on the bus, the first segment of the               *)
(* congestion-scores handler up to its first await, then the score audit.  *)
(* The previous risk level is read here and written two awaits later.      *)
(***************************************************************************)
AlertWheneverSevere(previous, score) == Severe(score)
RaisesAlert(previous, score) == previous \notin HighOrCritical /\ Severe(score)

SetLiveForecastIfRaised(g, point) ==
    forecastsByGate' = IF Severe(point.score) THEN [forecastsByGate EXCEPT ![g] = point]
                                              ELSE forecastsByGate
SetLiveForecast(g, point) ==
    forecastsByGate' = [forecastsByGate EXCEPT ![g] = point]

PublishForecast(j) ==
    LET g == job[j].gate
        point == [score |-> job[j].score, used |-> job[j].used]
        row == Len(scoreAudit[g]) + 1
        raised == RaisesAlert(previousRiskLevel[g], job[j].score)
    IN  /\ Running(j, "saved")
        /\ up
        /\ forecastStore' = [forecastStore EXCEPT ![g] = point]
        /\ SetLiveForecast(g, point)
        /\ alerts' = IF raised THEN [alerts EXCEPT ![g] = @ \cup {row}] ELSE alerts
        /\ scoreAudit' = [scoreAudit EXCEPT ![g] =
              Append(@, [score |-> job[j].score, used |-> job[j].used, named |-> window[g]])]
        /\ job' = [job EXCEPT ![j].row = row]
        /\ overlapped' = [overlapped EXCEPT ![g] =
              @ \/ \E k \in Jobs \ {j} : pc[k] \in Handling /\ job[k].gate = g]
        /\ Await(j, IF raised THEN "alerting" ELSE "alerted")
        /\ UNCHANGED <<up, window, runs, previousRiskLevel, actionLists>>

(* After stop() the stores are still written, but nobody hears the bus.    *)
PublishToNobody(j) ==
    LET g == job[j].gate
    IN  /\ Running(j, "saved")
        /\ ~up
        /\ forecastStore' = [forecastStore EXCEPT ![g] =
              [score |-> job[j].score, used |-> job[j].used]]
        /\ Return(j)
        /\ UNCHANGED <<up, window, runs, forecastsByGate, previousRiskLevel,
                       scoreAudit, alerts, overlapped, actionLists>>

(* publishAlert has returned inside raiseRiskLevelAlertIfTransitioned: the *)
(* handler that raised an alert is one microtask behind one that did not.  *)
AlertEndsHandler(j) ==
    /\ Running(j, "alerting")
    /\ Return(j)
    /\ UNCHANGED <<up, window, runs, previousRiskLevel, published, actionLists>>

AlertPublished(j) ==
    /\ Running(j, "alerting")
    /\ Await(j, "alerted")
    /\ UNCHANGED <<up, window, runs, job, previousRiskLevel, published, actionLists>>

(* The handler resumes: the level becomes the previous one, then           *)
(* RecommendationEngineService.onScoreUpdate asks for the signal window.   *)
RecordRiskLevel(j) ==
    /\ Running(j, "alerted")
    /\ previousRiskLevel' =
          [previousRiskLevel EXCEPT ![job[j].gate] = DeriveRiskLevel(job[j].score)]
    /\ Await(j, "windowed")
    /\ UNCHANGED <<up, window, runs, job, published, actionLists>>

(* generateRecommendations: nothing below MODERATE, else every candidate.  *)
GenerateRecommendations(row, score) ==
    [of |-> row,
     offered |-> IF DeriveRiskLevel(score) = "LOW" THEN {} ELSE ActionTypes,
     executed |-> {}]

StoreActionsIfAny(j) ==
    LET list == GenerateRecommendations(job[j].row, job[j].score)
        g == job[j].gate
    IN  /\ Running(j, "windowed")
        /\ activeActions' = IF list.offered = {} THEN activeActions
                            ELSE [activeActions EXCEPT ![g] = list]
        /\ Await(j, "stored")
        /\ UNCHANGED <<up, window, runs, job, previousRiskLevel, published, dashboardActions>>

StoreActions(j) ==
    /\ Running(j, "windowed")
    /\ activeActions' = [activeActions EXCEPT ![job[j].gate] =
          GenerateRecommendations(job[j].row, job[j].score)]
    /\ Await(j, "stored")
    /\ UNCHANGED <<up, window, runs, job, previousRiskLevel, published, dashboardActions>>

(* publishActions: the list computed above, not the one in the store.      *)
PublishActionsIfAny(j) ==
    LET list == GenerateRecommendations(job[j].row, job[j].score)
        g == job[j].gate
    IN  /\ Running(j, "stored")
        /\ dashboardActions' = IF list.offered = {} THEN dashboardActions
                               ELSE [dashboardActions EXCEPT ![g] = list]
        /\ Return(j)
        /\ UNCHANGED <<up, window, runs, previousRiskLevel, published, activeActions>>

PublishActions(j) ==
    /\ Running(j, "stored")
    /\ dashboardActions' = [dashboardActions EXCEPT ![job[j].gate] =
          GenerateRecommendations(job[j].row, job[j].score)]
    /\ Return(j)
    /\ UNCHANGED <<up, window, runs, previousRiskLevel, published, activeActions>>

(* POST .../actions/{id}/execute: both awaits are on the in-memory store,  *)
(* so the request reads and writes the list in one turn of the loop.  An   *)
(* action id that is no longer listed is answered 404 and changes nothing. *)
ExecuteAction(g, t) ==
    /\ Turn
    /\ t \in activeActions[g].offered
    /\ activeActions' = [activeActions EXCEPT ![g].executed = @ \cup {t}]
    /\ UNCHANGED <<up, window, runs, eventLoop, previousRiskLevel, published,
                   dashboardActions>>

-----------------------------------------------------------------------------
Continue(j) ==
    \/ SaveFailed(j)
    \/ PublishForecast(j)
    \/ PublishToNobody(j)
    \/ AlertPublished(j)
    \/ RecordRiskLevel(j)
    \/ StoreActions(j)
    \/ PublishActions(j)

RedisAnswers ==
    \E n \in 1 .. Len(commands), failed \in SUBSET Jobs : SaveReplies(n, failed)

Next ==
    \/ \E j \in Jobs, g \in Gates : OnSignalEvent(j, g) \/ ScheduledTick(j, g)
    \/ RedisAnswers
    \/ \E j \in Jobs : UnhandledRejection(j) \/ Continue(j)
    \/ \E g \in Gates, t \in ActionTypes : ExecuteAction(g, t)
    \/ Stop

(* Node runs every queued microtask and every unhandled-rejection event;   *)
(* ioredis answers or, after its one retry, fails every command.           *)
Fairness ==
    /\ \A j \in Jobs : WF_vars(Continue(j)) /\ WF_vars(UnhandledRejection(j))
    /\ WF_vars(RedisAnswers)

Spec == Init /\ [][Next]_vars /\ Fairness

-----------------------------------------------------------------------------
TypeOK ==
    /\ up \in BOOLEAN
    /\ window \in [Gates -> 0 .. MaxSignals]
    /\ runs \in 0 .. MaxRuns
    /\ microtasks \in Seq(Jobs)
    /\ commands \in Seq(Jobs)
    /\ pc \in [Jobs -> Suspended]
    /\ job \in [Jobs -> JobRecord]
    /\ forecastStore \in [Gates -> Forecast \cup {NoForecast}]
    /\ forecastsByGate \in [Gates -> Forecast \cup {NoForecast}]
    /\ previousRiskLevel \in [Gates -> RiskLevel]
    /\ scoreAudit \in [Gates -> Seq(AuditRow)]
    /\ alerts \in [Gates -> SUBSET Nat]
    /\ activeActions \in [Gates -> ActionList]
    /\ dashboardActions \in [Gates -> ActionList]
    /\ overlapped \in [Gates -> BOOLEAN]

(* Reference definition of the alerts a gate is due: one per audited score *)
(* that is HIGH or CRITICAL and whose predecessor is not (Req 10.2).       *)
AlertsDue(g) ==
    {i \in 1 .. Len(scoreAudit[g]) :
        /\ Severe(scoreAudit[g][i].score)
        /\ i = 1 \/ ~Severe(scoreAudit[g][i - 1].score)}

HandlerInFlight(g) == \E j \in Jobs : pc[j] \in Handling /\ job[j].gate = g

LatestScore(g) == IF scoreAudit[g] = <<>> THEN 0
                  ELSE scoreAudit[g][Len(scoreAudit[g])].score

(* As long as the handlers of a gate never overlapped, its alerts are      *)
(* exactly those due, at every moment: none twice, none missed, although   *)
(* the previous level is written only after an await (pipeline.ts:252-257).*)
AlertsExactUnlessOverlapped ==
    \A g \in Gates : ~overlapped[g] => alerts[g] = AlertsDue(g)

(* Under the same condition, when no handler is in flight both lists of    *)
(* actions belong to the latest score, and are empty when it is LOW        *)
(* (Req 6.4), whatever was offered or executed before (service.ts:37-47).  *)
ActionsFollowForecast ==
    \A g \in Gates : ~overlapped[g] /\ ~HandlerInFlight(g) =>
        \A list \in {activeActions[g], dashboardActions[g]} :
            /\ list.of = Len(scoreAudit[g])
            /\ list.offered = {} <=> DeriveRiskLevel(LatestScore(g)) = "LOW"

(* Redirections, nudges and deliveries decide on the very forecast the     *)
(* forecast API and the dashboard show (pipeline.ts:180-185 and :254).     *)
(* After shutdown the handler of :254 is unsubscribed, and the map stays   *)
(* behind: that is what `up' excludes.                                     *)
LiveForecastIsStored == up => forecastsByGate = forecastStore

(* Whenever the event loop turns, the dashboard offers the actions staff   *)
(* can execute, even if handlers overlapped and overtook one another: the  *)
(* two lists are written one await apart (service.ts:45-46).               *)
DashboardOffersActiveActions ==
    Turn => \A g \in Gates : /\ dashboardActions[g].of = activeActions[g].of
                             /\ dashboardActions[g].offered = activeActions[g].offered

(* A gate's forecast is never replaced by one computed from fewer signals: *)
(* recomputes run concurrently, but Redis answers them in order.           *)
ForecastNeverGoesBack ==
    [][\A g \in Gates : forecastStore[g].used <= forecastStore'[g].used]_vars

(* Every audited score, or a later one, gets its list of actions (Req 5.6) *)
(* for good, although the handler suspends two or three times before it    *)
(* stores the list, unless handlers of the gate overlap.                   *)
ScoresGetActions ==
    \A g \in Gates, n \in 1 .. MaxRuns :
        Len(scoreAudit[g]) >= n ~> activeActions[g].of >= n \/ overlapped[g]

-----------------------------------------------------------------------------
(* What the sources claim and the code does not do; the first two need     *)
(* overlapping handlers, the last two do not.                              *)

(* alerts.ts:20, an alert whenever the level goes from LOW or MODERATE to  *)
(* HIGH or CRITICAL: overlapping handlers miss one or raise it twice.      *)
AlertsMatchTransitions == \A g \in Gates : alerts[g] = AlertsDue(g)

(* service.ts:23, a gate that dropped below MODERATE keeps no actions: an  *)
(* overtaken handler puts its own list back.                               *)
NoActionsWhenLow ==
    \A g \in Gates : ~HandlerInFlight(g) /\ DeriveRiskLevel(LatestScore(g)) = "LOW"
                        => activeActions[g].offered = {}

(* design.md Property 34, the dashboard shows each action's execution      *)
(* status: executions are only written to the other store.                 *)
DashboardShowsExecution ==
    Turn => \A g \in Gates : dashboardActions[g].executed = activeActions[g].executed

(* design.md Property 41, a score's audit row lists its contributing       *)
(* signals: it lists those of the window when the score is published.      *)
ScoreAuditNamesItsSignals ==
    \A g \in Gates : \A i \in 1 .. Len(scoreAudit[g]) :
        scoreAudit[g][i].named = scoreAudit[g][i].used

=============================================================================
