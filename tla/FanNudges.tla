------------------------------ MODULE FanNudges ------------------------------
(***************************************************************************)
(* Fan notifications: FanNotificationService.onScoreUpdate, run at the end *)
(* of the congestion-scores handler (pipeline.ts:273-278), the cooldown    *)
(* keys it keeps in Redis, the queue of nudges, the delivery worker on its *)
(* timer and the nudge rows of the audit log.                              *)
(*                                                                         *)
(* The loop over the fans awaits two Redis commands per nudged fan; those  *)
(* are the moments other handlers, the worker and the clock can get in     *)
(* between.  Commands of all handlers share one connection, so they are    *)
(* executed and answered in the order sent: the model executes a command   *)
(* when its reply is handled.  The queue and the audit log are in memory,  *)
(* so the worker goes through the whole queue in one turn of the loop.     *)
(*                                                                         *)
(* A score update sets the live forecast of its gate and reaches the loop  *)
(* in the same turn; what happens in between is in ScorePipeline and       *)
(* ShuttleRedirections.  The text of a nudge and the alternative it offers *)
(* are left out.  Time counts in units of a fraction of Cooldown.          *)
(***************************************************************************)
EXTENDS Naturals, Sequences, FiniteSets, RiskLevels

CONSTANTS
    Gates,       \* gates with fans
    Fans,        \* fan ids
    Handlers,    \* slots for congestion-scores handlers in flight
    Scores,      \* scores of forecasts
    Cooldown,    \* COOLDOWN_PERIOD_MS, also the TTL of the keys
    MaxUpdates,  \* bound: score updates
    MaxTime      \* bound: the clock

ASSUME GatesAssumption == Gates # {}
ASSUME ScoresAssumption == Scores \subseteq Score
ASSUME CooldownAssumption == Cooldown \in Nat \ {0}
ASSUME BoundsAssumption == MaxUpdates \in Nat /\ MaxTime \in Nat

VARIABLES
    now,              \* the clock
    updates,          \* score updates so far (bounded by MaxUpdates)
    forecastsByGate,  \* current score of each gate, 0 if it has no forecast
    fansByGate,       \* fans tracked per gate, in insertion order, never forgotten
    commands,         \* handlers whose Redis command awaits its reply, oldest first
    pc,               \* what the handler of each slot awaits
    handler,          \* its local variables
    cooldownKeys,     \* Redis: last nudge per gate and fan
    queue,            \* queuedNudgeStore: status per nudge id
    audit,            \* nudge rows of the audit log: status per nudge id
    outcomes,         \* rows of the operators' nudge view, per nudge id
    overlapped,       \* history: gates two of whose handlers were in flight together
    late,             \* history: gates whose handler outlived a clock tick
    early,            \* history: nudges settled while their handler was in flight
    lost              \* history: keys whose SET was answered with an error

vars == <<now, updates, forecastsByGate, fansByGate, commands, pc, handler,
          cooldownKeys, queue, audit, outcomes, overlapped, late, early, lost>>

store == <<cooldownKeys, queue, audit, outcomes>>
history == <<overlapped, late, early, lost>>

Time == 0 .. MaxTime

(* nudgeId: fan, origin gate and the time its handler started.             *)
NudgeId == [fan : Fans, gate : Gates, at : Time]

Final == {"CANCELLED", "SIMULATED_DELIVERED"}
Status == {"QUEUED"} \cup Final
NoNudge == "NONE"

(* A key holds the time of the nudge and expires by itself.                *)
Key == [at : Time, expires : Nat]
NoKey == [at |-> 0, expires |-> 0]

Local == [gate : Gates, now : Time, fans : Seq(Fans), generated : SUBSET NudgeId]
NoLocal == [gate |-> CHOOSE g \in Gates : TRUE, now |-> 0, fans |-> <<>>, generated |-> {}]

Init ==
    /\ now = 0
    /\ updates = 0
    /\ forecastsByGate = [g \in Gates |-> 0]
    /\ fansByGate = [g \in Gates |-> <<>>]
    /\ commands = <<>>
    /\ pc = [h \in Handlers |-> "idle"]
    /\ handler = [h \in Handlers |-> NoLocal]
    /\ cooldownKeys = [g \in Gates |-> [f \in Fans |-> NoKey]]
    /\ queue = [n \in NudgeId |-> NoNudge]
    /\ audit = [n \in NudgeId |-> NoNudge]
    /\ outcomes = [n \in NudgeId |-> 0]
    /\ overlapped = {}
    /\ late = {}
    /\ early = {}
    /\ lost = {}
-----------------------------------------------------------------------------
InFlight == {h \in Handlers : pc[h] # "idle"}
BusyGates == {handler[h].gate : h \in InFlight}

(* trackFansForEvent, for a ticket scan or a transit arrival of the fan.   *)
TrackFan(f, g) ==
    /\ \A i \in 1 .. Len(fansByGate[g]) : fansByGate[g][i] # f
    /\ fansByGate' = [fansByGate EXCEPT ![g] = Append(@, f)]
    /\ UNCHANGED <<now, updates, forecastsByGate, commands, pc, handler, store, history>>

(* The handler sends its next GET, or publishes its nudges on the bus and  *)
(* is done; the audit log stores each as it was when it was generated.     *)
Continue(h, fans, generated, others) ==
    IF fans # <<>>
    THEN /\ pc' = [pc EXCEPT ![h] = "reading"]
         /\ handler' = [handler EXCEPT ![h].fans = fans, ![h].generated = generated]
         /\ commands' = Append(others, h)
         /\ UNCHANGED audit
    ELSE /\ pc' = [pc EXCEPT ![h] = "idle"]
         /\ handler' = [handler EXCEPT ![h] = NoLocal]
         /\ commands' = others
         /\ audit' = [n \in NudgeId |-> IF n \in generated THEN "QUEUED" ELSE audit[n]]

(* A score update of gate g: the loop starts on a snapshot of its fans.    *)
ScoreUpdate(h, g, score) ==
    /\ pc[h] = "idle"
    /\ updates < MaxUpdates
    /\ updates' = updates + 1
    /\ forecastsByGate' = [forecastsByGate EXCEPT ![g] = score]
    /\ IF fansByGate[g] = <<>>
       THEN UNCHANGED <<pc, handler, commands, overlapped>>
       ELSE /\ pc' = [pc EXCEPT ![h] = "reading"]
            /\ handler' = [handler EXCEPT ![h] =
                  [gate |-> g, now |-> now, fans |-> fansByGate[g], generated |-> {}]]
            /\ commands' = Append(commands, h)
            /\ overlapped' = IF g \in BusyGates THEN overlapped \cup {g} ELSE overlapped
    /\ UNCHANGED <<now, fansByGate, store, late, early, lost>>

(* What getLastNudgeAt returns: {} when there is no key or it has expired. *)
LastNudgeAt(g, f) ==
    IF now < cooldownKeys[g][f].expires THEN {cooldownKeys[g][f].at} ELSE {}

(* generateFanNudge: a nudge unless the fan is in cooldown at the time the *)
(* handler started or the gate, by now, is neither HIGH nor CRITICAL.      *)
NudgeDueAnyTime(g, lastNudgeAt, started) ==
    Severe(forecastsByGate[g])
NudgeDue(g, lastNudgeAt, started) ==
    /\ \A at \in lastNudgeAt : ~(started < at + Cooldown)
    /\ Severe(forecastsByGate[g])

(* The reply of GET: skip the fan, or send SET for the nudge.              *)
ReadReply(h) ==
    LET g == handler[h].gate
        f == Head(handler[h].fans)
    IN  /\ commands # <<>> /\ h = Head(commands)
        /\ pc[h] = "reading"
        /\ IF NudgeDue(g, LastNudgeAt(g, f), handler[h].now)
           THEN /\ pc' = [pc EXCEPT ![h] = "writing"]
                /\ commands' = Append(Tail(commands), h)
                /\ UNCHANGED <<handler, audit>>
           ELSE Continue(h, Tail(handler[h].fans), handler[h].generated, Tail(commands))
        /\ UNCHANGED <<now, updates, forecastsByGate, fansByGate, cooldownKeys, queue,
                       outcomes, history>>

(* setLastNudgeAt: the handler's start as value, the TTL from now on.      *)
SetKeyToEnd(h) ==
    cooldownKeys' = [cooldownKeys EXCEPT ![handler[h].gate][Head(handler[h].fans)] =
        [at |-> now + Cooldown, expires |-> now + Cooldown]]
SetKeyToPresent(h) ==
    cooldownKeys' = [cooldownKeys EXCEPT ![handler[h].gate][Head(handler[h].fans)] =
        [at |-> now, expires |-> now + Cooldown]]
SetKey(h) ==
    cooldownKeys' = [cooldownKeys EXCEPT ![handler[h].gate][Head(handler[h].fans)] =
        [at |-> handler[h].now, expires |-> now + Cooldown]]

(* The reply of SET: the key is set, the nudge queued, on to the next fan. *)
WriteReply(h) ==
    LET id == [fan |-> Head(handler[h].fans), gate |-> handler[h].gate,
               at |-> handler[h].now]
    IN  /\ commands # <<>> /\ h = Head(commands)
        /\ pc[h] = "writing"
        /\ SetKey(h)
        /\ queue' = [queue EXCEPT ![id] = "QUEUED"]
        /\ Continue(h, Tail(handler[h].fans), handler[h].generated \cup {id}, Tail(commands))
        /\ UNCHANGED <<now, updates, forecastsByGate, fansByGate, outcomes, history>>

(* A command fails: onScoreUpdate rejects and the bus logs it.  The fans   *)
(* left are skipped and the nudges already queued are never published.  A  *)
(* SET may have been executed although its reply is an error.              *)
CommandFails(h) ==
    /\ commands # <<>> /\ h = Head(commands)
    /\ \/ pc[h] = "reading" /\ UNCHANGED <<cooldownKeys, lost>>
       \/ /\ pc[h] = "writing"
          /\ SetKey(h) \/ UNCHANGED cooldownKeys
          /\ lost' = lost \cup {<<handler[h].gate, Head(handler[h].fans)>>}
    /\ pc' = [pc EXCEPT ![h] = "idle"]
    /\ handler' = [handler EXCEPT ![h] = NoLocal]
    /\ commands' = Tail(commands)
    /\ UNCHANGED <<now, updates, forecastsByGate, fansByGate, queue, audit, outcomes,
                   overlapped, late, early>>

(* processQueue: each queued nudge is delivered, or cancelled if its gate  *)
(* has calmed down, and the outcome recorded: a row of the operators' view *)
(* and the row of the audit log.                                           *)
EveryNudge == {n \in NudgeId : queue[n] # NoNudge}
PendingOfSevereGates ==
    {n \in NudgeId : queue[n] = "QUEUED" /\ Severe(forecastsByGate[n.gate])}
Pending == {n \in NudgeId : queue[n] = "QUEUED"}

Outcome(n) ==
    IF Severe(forecastsByGate[n.gate]) THEN "SIMULATED_DELIVERED" ELSE "CANCELLED"

AuditDelivered(settled) ==
    audit' = [n \in NudgeId |-> IF n \in settled /\ Outcome(n) # "CANCELLED"
                                THEN Outcome(n) ELSE audit[n]]
AuditOutcomes(settled) ==
    audit' = [n \in NudgeId |-> IF n \in settled THEN Outcome(n) ELSE audit[n]]

ProcessQueue ==
    /\ Pending # {}
    /\ queue' = [n \in NudgeId |-> IF n \in Pending THEN Outcome(n) ELSE queue[n]]
    /\ AuditOutcomes(Pending)
    /\ outcomes' = [n \in NudgeId |-> outcomes[n] + IF n \in Pending THEN 1 ELSE 0]
    /\ early' = early \cup
           {n \in Pending : \E h \in InFlight : n \in handler[h].generated}
    /\ UNCHANGED <<now, updates, forecastsByGate, fansByGate, commands, pc, handler,
                   cooldownKeys, overlapped, late, lost>>

(* Time passes, possibly while handlers wait for Redis.                    *)
Tick ==
    /\ now < MaxTime
    /\ now' = now + 1
    /\ late' = late \cup BusyGates
    /\ UNCHANGED <<updates, forecastsByGate, fansByGate, commands, pc, handler, store,
                   overlapped, early, lost>>

RedisReply == \E h \in Handlers : ReadReply(h) \/ WriteReply(h) \/ CommandFails(h)

Next ==
    \/ \E f \in Fans, g \in Gates : TrackFan(f, g)
    \/ \E h \in Handlers, g \in Gates, s \in Scores : ScoreUpdate(h, g, s)
    \/ RedisReply
    \/ ProcessQueue
    \/ Tick

(* Redis answers or fails every command; the worker's timer keeps firing.  *)
Spec == Init /\ [][Next]_vars /\ WF_vars(RedisReply) /\ WF_vars(ProcessQueue)
-----------------------------------------------------------------------------
TypeOK ==
    /\ now \in Time
    /\ updates \in 0 .. MaxUpdates
    /\ forecastsByGate \in [Gates -> Score]
    /\ fansByGate \in [Gates -> Seq(Fans)]
    /\ commands \in Seq(Handlers)
    /\ pc \in [Handlers -> {"idle", "reading", "writing"}]
    /\ handler \in [Handlers -> Local]
    /\ cooldownKeys \in [Gates -> [Fans -> Key]]
    /\ queue \in [NudgeId -> Status \cup {NoNudge}]
    /\ audit \in [NudgeId -> Status \cup {NoNudge}]
    /\ outcomes \in [NudgeId -> Nat]
    /\ overlapped \subseteq Gates /\ late \subseteq Gates
    /\ early \subseteq NudgeId /\ lost \subseteq Gates \X Fans

(* Two nudges of one fan for one gate, the second within the cooldown.     *)
TooSoon(m, n) ==
    /\ m # n /\ m.fan = n.fan /\ m.gate = n.gate
    /\ m.at <= n.at /\ n.at < m.at + Cooldown

(***************************************************************************)
(* A fan is nudged for a gate at most once per cooldown, as long as no two *)
(* handlers of the gate are in flight together (both would read the key    *)
(* before either sets it) and none outlives a clock tick (its start is     *)
(* what it compares, and the key may expire meanwhile).                    *)
(***************************************************************************)
CooldownKeptUnlessRaced ==
    \A m, n \in EveryNudge :
        TooSoon(m, n) => m.gate \in overlapped \cup late

(* The same without a condition, as requirement 9.1 states it.             *)
CooldownRespected == \A m, n \in EveryNudge : ~TooSoon(m, n)

(***************************************************************************)
(* The cooldown clock starts with the nudge and is not reset by anything   *)
(* that happens to it: a key stands for a nudge generated at its time      *)
(* (unless its SET was answered with an error) and, until the cooldown is  *)
(* over, a nudge has a key, cancelled or not.  The key is at least as      *)
(* recent as the nudge, unless a handler of an earlier tick was in flight  *)
(* and set it later than one of a later tick, which may have overtaken it  *)
(* by skipping a fan in a calm moment.                                     *)
(***************************************************************************)
KeysMatchNudges ==
    /\ \A g \in Gates, f \in Fans : \A at \in LastNudgeAt(g, f) :
           <<g, f>> \notin lost => [fan |-> f, gate |-> g, at |-> at] \in EveryNudge
    /\ \A n \in EveryNudge : now < n.at + Cooldown =>
           \E at \in LastNudgeAt(n.gate, n.fan) :
               n.at <= at \/ n.gate \in overlapped \cap late

(***************************************************************************)
(* The audit log ends with the outcome of a nudge, as long as the worker   *)
(* did not settle it before its handler published it.                      *)
(***************************************************************************)
AuditKeepsOutcomeUnlessEarly ==
    \A n \in EveryNudge :
        queue[n] \in Final /\ n \notin early => audit[n] = queue[n]

(* Once a nudge is settled and its handler is done, the audit log says so. *)
AuditKeepsOutcome ==
    \A n \in EveryNudge :
        queue[n] \in Final /\ (\A h \in InFlight : n \notin handler[h].generated)
            => audit[n] = queue[n]

(***************************************************************************)
(* Operators see at most one outcome per nudge: the worker, run again and  *)
(* again over a queue nothing is removed from, settles a nudge once.  (In  *)
(* the races above two handlers that started in one tick may queue the     *)
(* same id twice.)                                                         *)
(***************************************************************************)
OneOutcomePerNudge ==
    \A n \in EveryNudge : n.gate \notin overlapped \cup late =>
        outcomes[n] = IF queue[n] = "QUEUED" THEN 0 ELSE 1

(* Every queued nudge gets an outcome, whatever happens to its handler.    *)
EveryNudgeSettles ==
    \A n \in NudgeId : queue[n] = "QUEUED" ~> queue[n] \in Final
=============================================================================
