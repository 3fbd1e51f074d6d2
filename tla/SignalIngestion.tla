---------------------------- MODULE SignalIngestion ----------------------------
(***************************************************************************)
(* What POST /v1/signals does (signal-ingestion/service.ts): parse,        *)
(* classify, publish on the bus, refresh the timer of the source in Redis, *)
(* answer; what the pipeline makes of it (the signal window of a gate, its *)
(* forecast, the audit log); and the periodic data-quality check that      *)
(* reads the timers back (signal-ingestion/status.ts, pipeline.ts).        *)
(*                                                                         *)
(* One gate stands for all: gates have timers and windows of their own.    *)
(* Timers of routes are touched likewise and read by nobody but            *)
(* GET /v1/sources/{id}/status.  A client that retries after a 503 posts a *)
(* signal like any other: nothing recognises it.                           *)
(*                                                                         *)
(* The process has one connection to Redis, which serves commands in order.*)
(* The three GETs of one getStatus are adjacent in it, and no SET can come *)
(* between them: they are one command here.  How a forecast travels from   *)
(* here to the stores is the subject of ScorePipeline.                     *)
(***************************************************************************)
EXTENDS Forecasting, Sequences, FiniteSetsExt

CONSTANTS
    Bodies,          \* what clients may post
    SourceTimeout,   \* SOURCE_TIMEOUT_MS
    StaleThreshold,  \* staleThresholdMs
    LateThreshold,   \* lateArrivalThresholdMs
    Retention,       \* SIGNAL_WINDOW_RETENTION_MS
    MaxPosts,        \* bound: requests
    MaxCommands,     \* bound: commands in flight to Redis
    MaxTime          \* bound: the clock

(* The fields of a body, in the order the schema checks them; of those the *)
(* intake layer supplies, a null counts as malformed, not as absent.       *)
Field == {"signalId", "gateId", "routeId", "timestamp", "receivedAt", "isStale",
          "lateArrivalFlag", "source", "payload"}
FieldOrder == [signalId |-> 1, gateId |-> 2, routeId |-> 3, timestamp |-> 4,
               receivedAt |-> 5, isStale |-> 6, lateArrivalFlag |-> 7,
               source |-> 8, payload |-> 9]
Optional == {"gateId", "routeId"}

(* `delay` and `transit` give the timestamp and the client's receivedAt as *)
(* offsets from the clock of the server.                                   *)
Body == [source : Source, absent : SUBSET Field, malformed : SUBSET Field,
         delay : Int, transit : Int, count : Nat]

ASSUME BodiesAssumption == Bodies \subseteq Body
ASSUME TimeoutAssumption == SourceTimeout \in [Source -> Nat \ {0}]
ASSUME ThresholdsAssumption == {StaleThreshold, LateThreshold} \subseteq Nat
ASSUME RetentionAssumption == Retention \in Nat /\ RecentWindow <= Retention
ASSUME BoundsAssumption == {MaxPosts, MaxCommands, MaxTime} \subseteq Nat

VARIABLES
    now,        \* the clock
    up,         \* the pipeline is wired
    received,   \* the signal-events rows of the audit log
    dlq,        \* its signal-events.dlq rows
    window,     \* signalWindowByGate of the gate: positions in received
    forecast,   \* current point of the last forecast computed
    timers,     \* degraded-source keys of the gate: when each expires
    commands,   \* in flight to Redis, oldest first
    answers,    \* how many requests were answered with each status
    degraded,   \* the gate is in dataQualitySource
    alert,      \* the DATA_QUALITY alert of the last check, if it raised one
    unheard,    \* history: events published after the pipeline was stopped
    heard       \* history: when a timer was set

vars == <<now, up, received, dlq, window, forecast, timers, commands, answers,
          degraded, alert, unheard, heard>>

intake == <<received, dlq, window, forecast, answers, unheard>>
sourceHealth == <<timers, degraded, alert, heard>>

Time == 0 .. MaxTime
Event == [source : Source, atGate : BOOLEAN, timestamp : Int, isStale : BOOLEAN,
          lateArrivalFlag : BOOLEAN, count : Nat]
ValidationError == [source : Source \cup {"UNKNOWN"}, offendingField : Field]
Command ==
    [kind : {"touch"}, source : Source, atGate : BOOLEAN]
    \cup [kind : {"statuses"}]
    \cup [kind : {"allDegraded"}, statuses : SUBSET Source, readAt : Time]

Init ==
    /\ now = 0
    /\ up = TRUE
    /\ received = <<>>
    /\ dlq = <<>>
    /\ window = {}
    /\ forecast = [score |-> 0, lowConfidence |-> FALSE]
    /\ timers = [s \in Source |-> 0]
    /\ commands = <<>>
    /\ answers = [accepted |-> 0, rejected |-> 0, unavailable |-> 0]
    /\ degraded = FALSE
    /\ alert = {}
    /\ unheard = 0
    /\ heard = {}
-----------------------------------------------------------------------------
(* applyIntakeDefaults, then the schema: what is wrong with a body.        *)
AssignedByIntake == {"signalId", "receivedAt", "isStale", "lateArrivalFlag"}
Issues(body) == body.malformed \cup (body.absent \ (AssignedByIntake \cup Optional))

(* The first issue is reported, but a discriminated union looks at the     *)
(* source before anything else.                                            *)
OffendingField(body) ==
    IF "source" \in Issues(body) THEN "source"
    ELSE CHOOSE f \in Issues(body) :
            \A g \in Issues(body) : FieldOrder[f] <= FieldOrder[g]
ParseError(body) ==
    [source |-> IF "source" \in Issues(body) THEN "UNKNOWN" ELSE body.source,
     offendingField |-> OffendingField(body)]

(* classifyTiming; an absent receivedAt is the server's clock.             *)
Classified(body) ==
    LET timestamp == now - body.delay
        receivedAt == IF "receivedAt" \in body.absent THEN now ELSE now - body.transit
    IN  [source |-> body.source,
         atGate |-> "gateId" \notin body.absent,
         timestamp |-> timestamp,
         isStale |-> now - timestamp >= StaleThreshold,
         lateArrivalFlag |-> receivedAt - timestamp >= LateThreshold,
         count |-> body.count]

(* The timer to refresh: gateId ?? routeId.                                *)
HasTarget(body) == ~({"gateId", "routeId"} \subseteq body.absent)
Touch(body) ==
    [kind |-> "touch", source |-> body.source, atGate |-> "gateId" \notin body.absent]
-----------------------------------------------------------------------------
(* appendToWindow: what is older than the retention goes, the new event,   *)
(* whatever its age, comes.                                                *)
PrunedTooFar(log, positions) ==
    {i \in positions : log[i].timestamp > now - Retention}
Pruned(log, positions) ==
    {i \in positions : log[i].timestamp >= now - Retention}

(* The incoming people of a set of positions, and the forecast from them.  *)
Counted(log, positions, time) == {i \in positions : Counts(log[i], time)}
MeanIncoming(log, positions) ==
    IF positions = {} THEN 0
    ELSE MapThenSumSet(LAMBDA i : IncomingCount(log[i]), positions) \div Cardinality(positions)
TotalIncoming(log, positions) ==
    MapThenSumSet(LAMBDA i : IncomingCount(log[i]), positions)
ComputeForecast(log, positions, time) ==
    LET counted == Counted(log, positions, time)
    IN  [score |-> PredictedScore(TotalIncoming(log, counted), 0),
         lowConfidence |-> counted = {}]

(* The signal-events subscribers, in order: window and forecast, audit.    *)
OnSignalEventOfGate(event) ==
    LET log == IF event.atGate THEN Append(received, event) ELSE received
    IN  /\ received' = log
        /\ window' = IF event.atGate THEN Pruned(log, window) \cup {Len(log)} ELSE window
        /\ forecast' = IF event.atGate THEN ComputeForecast(log, window', now) ELSE forecast
        /\ UNCHANGED unheard
OnSignalEvent(event) ==
    LET log == Append(received, event)
    IN  /\ received' = log
        /\ window' = IF event.atGate THEN Pruned(log, window) \cup {Len(log)} ELSE window
        /\ forecast' = IF event.atGate THEN ComputeForecast(log, window', now) ELSE forecast
        /\ UNCHANGED unheard

(* After stop() the event is published to nobody.                          *)
OnNobody ==
    /\ unheard' = unheard + 1
    /\ UNCHANGED <<received, window, forecast>>

(* A conforming signal is published, then its SET is sent; one that names  *)
(* neither gate nor route is answered at once.                             *)
Posts == answers.accepted + answers.rejected + answers.unavailable
         + Cardinality({i \in DOMAIN commands : commands[i].kind = "touch"})

PostSignal(body) ==
    /\ Posts < MaxPosts
    /\ Len(commands) < MaxCommands
    /\ Issues(body) = {}
    /\ IF up THEN OnSignalEvent(Classified(body)) ELSE OnNobody
    /\ commands' = IF HasTarget(body) THEN Append(commands, Touch(body)) ELSE commands
    /\ answers' = IF HasTarget(body) THEN answers ELSE [answers EXCEPT !.accepted = @ + 1]
    /\ UNCHANGED <<now, up, dlq, sourceHealth>>

(* Any other one goes to the dead-letter queue and is answered 400.        *)
PostMalformed(body) ==
    /\ Posts < MaxPosts
    /\ Issues(body) # {}
    /\ dlq' = IF up THEN Append(dlq, ParseError(body)) ELSE dlq
    /\ answers' = [answers EXCEPT !.rejected = @ + 1]
    /\ UNCHANGED <<now, up, received, window, forecast, commands, unheard, sourceHealth>>

(* The scheduled recompute: the window is read, not pruned.                *)
ScheduledTick ==
    /\ up
    /\ forecast' = ComputeForecast(received, window, now)
    /\ UNCHANGED <<now, up, received, dlq, window, commands, answers, unheard, sourceHealth>>

(* The interval of the data-quality check, which asks for the statuses.    *)
CheckDataQuality ==
    /\ up
    /\ Len(commands) < MaxCommands
    /\ commands' = Append(commands, [kind |-> "statuses"])
    /\ UNCHANGED <<now, up, intake, sourceHealth>>
-----------------------------------------------------------------------------
Serving(kind) == commands # <<>> /\ Head(commands).kind = kind

(* touchSource: SET with the timeout of the source as its TTL.             *)
RefreshedForGood(source) ==
    /\ timers' = [timers EXCEPT ![source] = MaxTime + 1]
    /\ heard' = heard \cup {[source |-> source, at |-> now]}
Refreshed(source) ==
    /\ timers' = [timers EXCEPT ![source] = now + SourceTimeout[source]]
    /\ heard' = heard \cup {[source |-> source, at |-> now]}

(* The SET of a touch is served and the request answered 202.              *)
TouchServed ==
    LET touch == Head(commands)
    IN  /\ Serving("touch")
        /\ IF touch.atGate THEN Refreshed(touch.source) ELSE UNCHANGED <<timers, heard>>
        /\ answers' = [answers EXCEPT !.accepted = @ + 1]
        /\ commands' = Tail(commands)
        /\ UNCHANGED <<now, up, received, dlq, window, forecast, unheard, degraded, alert>>

(* It fails, applied or not: 503, although the event has been published.   *)
TouchFails ==
    LET touch == Head(commands)
    IN  /\ Serving("touch")
        /\ \/ UNCHANGED <<timers, heard>>
           \/ touch.atGate /\ Refreshed(touch.source)
        /\ answers' = [answers EXCEPT !.unavailable = @ + 1]
        /\ commands' = Tail(commands)
        /\ UNCHANGED <<now, up, received, dlq, window, forecast, unheard, degraded, alert>>

DegradedSources == {s \in Source : timers[s] <= now}

(* getStatus returns, and allSourcesDegraded reads the timers once more.   *)
StatusesReadSliding ==
    /\ Serving("statuses")
    /\ commands' = Append(Tail(commands),
          [kind |-> "allDegraded", statuses |-> DegradedSources, readAt |-> now])
    /\ timers' = [s \in Source |-> now + SourceTimeout[s]]
    /\ UNCHANGED <<now, up, intake, degraded, alert, heard>>
StatusesRead ==
    /\ Serving("statuses")
    /\ commands' = Append(Tail(commands),
          [kind |-> "allDegraded", statuses |-> DegradedSources, readAt |-> now])
    /\ UNCHANGED <<now, up, intake, sourceHealth>>

(* The second answer decides the flag, the first one the alert.            *)
FlagFrom(sources) == sources = Source
AlertFromAny(sources) == sources # {}
AlertFrom(sources) == sources = Source

AllDegradedRead ==
    LET check == Head(commands)
    IN  /\ Serving("allDegraded")
        /\ degraded' = FlagFrom(DegradedSources)
        /\ alert' = IF AlertFrom(check.statuses)
                     THEN {[readAt |-> check.readAt, raisedAt |-> now]}
                     ELSE {}
        /\ commands' = Tail(commands)
        /\ UNCHANGED <<now, up, intake, timers, heard>>

(* A failing GET rejects a promise nobody catches: shutdownServer.         *)
StatusReadFails ==
    /\ Serving("statuses") \/ Serving("allDegraded")
    /\ up' = FALSE
    /\ commands' = Tail(commands)
    /\ UNCHANGED <<now, intake, sourceHealth>>

Stop ==
    /\ up
    /\ up' = FALSE
    /\ UNCHANGED <<now, commands, intake, sourceHealth>>

Tick ==
    /\ now < MaxTime
    /\ now' = now + 1
    /\ UNCHANGED <<up, commands, intake, sourceHealth>>

RedisAnswers ==
    TouchServed \/ TouchFails \/ StatusesRead \/ AllDegradedRead \/ StatusReadFails

Next ==
    \/ \E body \in Bodies : PostSignal(body) \/ PostMalformed(body)
    \/ ScheduledTick
    \/ CheckDataQuality
    \/ RedisAnswers
    \/ Stop
    \/ Tick

(* The interval fires for as long as it is set, Redis answers or fails.    *)
Fairness == WF_vars(CheckDataQuality) /\ WF_vars(RedisAnswers)

Spec == Init /\ [][Next]_vars /\ Fairness
-----------------------------------------------------------------------------
TypeOK ==
    /\ now \in Time
    /\ up \in BOOLEAN
    /\ received \in Seq(Event)
    /\ dlq \in Seq(ValidationError)
    /\ window \subseteq DOMAIN received
    /\ forecast \in [score : Score, lowConfidence : BOOLEAN]
    /\ timers \in [Source -> Nat]
    /\ commands \in Seq(Command)
    /\ answers \in [accepted : Nat, rejected : Nat, unavailable : Nat]
    /\ degraded \in BOOLEAN
    /\ alert \subseteq [readAt : Time, raisedAt : Time]
    /\ unheard \in Nat
    /\ heard \subseteq [source : Source, at : Time]

(***************************************************************************)
(* Pruning never shows: the window, which drops events whenever one comes, *)
(* yields the forecast that every event of the gate ever received would    *)
(* (pipeline.ts:133 against forecast.ts:91; their 10 minutes are two       *)
(* constants of two files).                                                *)
(***************************************************************************)
OfGate == {i \in DOMAIN received : received[i].atGate}
WindowLosesNothing ==
    Counted(received, window, now) = Counted(received, OfGate, now)

(***************************************************************************)
(* More signals never mean less congestion (Req 4.2), although each of     *)
(* them prunes the window and a stale or old one is not counted: at every  *)
(* offset the forecast is no lower after a signal than just before it.     *)
(***************************************************************************)
PredictedNow(offset) ==
    PredictedScore(TotalIncoming(received, Counted(received, window, now)), offset)
SignalsNeverLowerForecast ==
    [][window' # window => \A o \in Offsets : PredictedNow(o)' >= PredictedNow(o)]_vars

(***************************************************************************)
(* The recommendations made from the forecast and the window, whose events *)
(* may count no more, are never ranked against their impact                *)
(* (recommendations.ts:103-108).  That the ranks are 1, 2, 3, ... says     *)
(* that the number of types before a type is its index in the sorted list, *)
(* to which the code adds 1 (recommendations.ts:114): the comparator is a  *)
(* total order, whatever impacts are equal.                                *)
(***************************************************************************)
Seen == [s \in Source |-> Cardinality({i \in window : received[i].source = s})]
RanksArePermutation ==
    LET ranks == ActionRanks(forecast.score, Seen)
        types == DOMAIN ranks
    IN  /\ {ranks[a] : a \in types} = 1 .. Cardinality(types)
        /\ \A a, b \in types :
              ranks[a] < ranks[b]
              => Impact(a, forecast.score, Seen) >= Impact(b, forecast.score, Seen)

(***************************************************************************)
(* Whatever Redis does to the SET that follows the publication, each       *)
(* conforming signal is recorded exactly once, each other one becomes one  *)
(* row of the dead-letter queue; what is lost is lost to a shutdown.       *)
(***************************************************************************)
Touching == {i \in DOMAIN commands : commands[i].kind = "touch"}
SignalsRecordedOnce ==
    /\ Len(received) + unheard
       = answers.accepted + answers.unavailable + Cardinality(Touching)
    /\ up => unheard = 0 /\ Len(dlq) = answers.rejected
    /\ Len(dlq) <= answers.rejected

(***************************************************************************)
(* A DATA_QUALITY alert says that no source was heard for its timeout when *)
(* the statuses were read, which is some time before the alert is raised.  *)
(***************************************************************************)
AlertsOnlyAfterSilence ==
    \A a \in alert, h \in heard :
        h.at < a.readAt => h.at + SourceTimeout[h.source] <= a.readAt

(***************************************************************************)
(* The alert and the data-quality flag of one check come from two reads of *)
(* the timers; they contradict each other only if a signal was heard       *)
(* between the two.                                                        *)
(***************************************************************************)
AlertsFlaggedUnlessHeard ==
    \A a \in alert :
        degraded \/ \E h \in heard : h.at \in a.readAt .. a.raisedAt

(***************************************************************************)
(* A gate all sources of which have been silent for their timeouts, and    *)
(* stay silent, is eventually shown as degraded, unless the process stops  *)
(* (a failing read of the timers included).                                *)
(***************************************************************************)
Silent == \A h \in heard : h.at + SourceTimeout[h.source] <= now
SilenceShows == (up /\ Silent) ~> (degraded \/ ~up \/ ~Silent)

(***************************************************************************)
(* "SHALL retain (not discard) the prior Congestion_Score" (design.md:432, *)
(* Property 14): a forecast without recent signals keeps the score shown   *)
(* before.  forecast.ts:73-79 leaves that to fallback.ts, which stores and *)
(* publishes the 0 it is given.                                            *)
(***************************************************************************)
PriorScoreRetained ==
    [][forecast'.lowConfidence => forecast'.score = forecast.score]_vars
=============================================================================
