------------------------- MODULE ShuttleRedirections -------------------------
(***************************************************************************)
(* Shuttle redirections: every congestion score may recommend that the     *)
(* routes of its gate go to a safer one (redirections.ts, pipeline.ts      *)
(* 266-271), dispatchers accept or reject a recommendation (api.ts), and a *)
(* rejection keeps its route and alternative from being recommended again  *)
(* for a while.                                                            *)
(*                                                                         *)
(* The list of recent rejections is kept by the reject route of server.ts, *)
(* which adds to it after Redis has recorded the rejection; the key it     *)
(* wrote there is read by nobody and left out.                             *)
(*                                                                         *)
(* A score update is two steps: the handler reads the clock and stores the *)
(* forecast, and after its awaits, none of which waits for Redis or a      *)
(* timer, it generates the redirections.  Meanwhile the event loop does    *)
(* not turn: there are no requests, but other handlers and rejections      *)
(* whose replies came in the same chunk run too, and the clock goes on.    *)
(* The clock is read twice: the handler's time is the time of its records  *)
(* and the `now' of isSuppressed, while getRecentRejections filters by the *)
(* time at which the redirections are made.  Explanations and dispatchers  *)
(* are left out.                                                           *)
(***************************************************************************)
EXTENDS Naturals, Sequences, FiniteSets, RiskLevels

CONSTANTS
    Gates,         \* gate ids, numbers in the order of the names
    Routes,        \* shuttle routes
    AssignedTo,    \* assignedRouteIds of each gate
    Scores,        \* scores of forecasts
    Suppression,   \* REJECTION_SUPPRESSION_MS
    MaxUpdates,    \* bound: score updates
    MaxDecisions,  \* bound: requests of dispatchers
    MaxTime        \* bound: the clock

ASSUME GatesAssumption == Gates \subseteq Nat
ASSUME RoutesAssumption == AssignedTo \in [Gates -> SUBSET Routes]
ASSUME ScoresAssumption == Scores \subseteq Score
ASSUME SuppressionAssumption == Suppression \in Nat \ {0}
ASSUME BoundsAssumption == {MaxUpdates, MaxDecisions, MaxTime} \subseteq Nat

VARIABLES
    now,               \* the clock
    updates,           \* score updates so far
    decisions,         \* accepts and rejects so far
    forecastsByGate,   \* score of each gate that has a forecast
    handling,          \* score handlers that have not made their redirections
    recommendations,   \* redirectionStore: one record per id, never removed
    recording,         \* rejections awaiting the reply of Redis, oldest first
    recentRejections,  \* the list of server.ts
    rejections,        \* history: every rejection requested
    acknowledged       \* history: those answered 200, and when

vars == <<now, updates, decisions, forecastsByGate, handling, recommendations,
          recording, recentRejections, rejections, acknowledged>>

Time == 0 .. MaxTime

(* A handler: the number of its update, its gate and its `now'.            *)
Handler == [id : 1 .. MaxUpdates, gate : Gates, at : Time]

(* `at' is generatedAt, `decidedAt' the latest of acceptedAt and rejectedAt *)
(* (0 before); `made' is history: the time when it was really generated.    *)
Recommendation == [route : Routes, origin : Gates, alternative : Gates, at : Time,
                   made : Time, status : {"PENDING", "ACCEPTED", "REJECTED"},
                   decidedAt : Time]

(* Two records with one recommendationId: route, origin gate and time.     *)
SameRouteAndOrigin(r, s) == r.route = s.route /\ r.origin = s.origin
SameId(r, s) == r.route = s.route /\ r.origin = s.origin /\ r.at = s.at

Rejection == [route : Routes, alternative : Gates, at : Time]

Concerns(j, r) == j.route = r.route /\ j.alternative = r.alternative

Init ==
    /\ now = 0
    /\ updates = 0
    /\ decisions = 0
    /\ forecastsByGate = [g \in {} |-> 0]
    /\ handling = {}
    /\ recommendations = {}
    /\ recording = <<>>
    /\ recentRejections = {}
    /\ rejections = {}
    /\ acknowledged = {}
-----------------------------------------------------------------------------
(* updateRecommendation: replace the record of that id or add one.         *)
Updated(new) ==
    {r \in recommendations : ~\E n \in new : SameId(n, r)} \cup new

(* getRecentRejections, by the clock, and isSuppressed, by the handler's   *)
(* time: a rejection still in its period for the handler may be filtered   *)
(* out already.                                                            *)
RecentRejections == {j \in recentRejections : j.at + Suppression >= now}
SuppressedByOrigin(r) ==
    \E j \in RecentRejections :
        j.route = r.route /\ j.alternative = r.origin /\ r.at < j.at + Suppression
Suppressed(r) ==
    \E j \in RecentRejections : Concerns(j, r) /\ r.at < j.at + Suppression

(***************************************************************************)
(* generateRedirections: nothing unless the gate is HIGH or CRITICAL; for  *)
(* each of its routes the best of the safer gates, unless that very pair   *)
(* was rejected (the next best is not tried).                              *)
(***************************************************************************)
RedirectionsAnyway(h) ==
    {[route |-> t, origin |-> h.gate, at |-> h.at, made |-> now,
      status |-> "PENDING", decidedAt |-> 0,
      alternative |-> IF PickAlternativeGate(h.gate, forecastsByGate) = {} THEN 0
                      ELSE CHOOSE g \in PickAlternativeGate(h.gate, forecastsByGate) : TRUE]
        : t \in IF Severe(forecastsByGate[h.gate]) THEN AssignedTo[h.gate] ELSE {}}
Redirections(h) ==
    {r \in [route : AssignedTo[h.gate], origin : {h.gate},
            alternative : PickAlternativeGate(h.gate, forecastsByGate), at : {h.at},
            made : {now}, status : {"PENDING"}, decidedAt : {0}] :
        Severe(forecastsByGate[h.gate]) /\ ~Suppressed(r)}

(* The handler of a score starts: its time, and the forecast it stores.    *)
ScoreUpdate(g, score) ==
    /\ updates < MaxUpdates
    /\ updates' = updates + 1
    /\ forecastsByGate' = [h \in DOMAIN forecastsByGate \cup {g} |->
                              IF h = g THEN score ELSE forecastsByGate[h]]
    /\ handling' = handling \cup {[id |-> updates', gate |-> g, at |-> now]}
    /\ UNCHANGED <<now, decisions, recommendations, recording, recentRejections,
                   rejections, acknowledged>>

(* It makes its redirections, of the forecasts there are by then, and      *)
(* stores them; their awaits let nobody else read the store in between.    *)
GenerateRedirections(h) ==
    /\ handling' = handling \ {h}
    /\ recommendations' = Updated(Redirections(h))
    /\ UNCHANGED <<now, updates, decisions, forecastsByGate, recording,
                   recentRejections, rejections, acknowledged>>

(* A request, in a turn of its own; the status is not looked at.           *)
Decide(r, status) ==
    /\ handling = {}
    /\ decisions < MaxDecisions
    /\ decisions' = decisions + 1
    /\ recommendations' = Updated({[r EXCEPT !.status = status, !.decidedAt = now]})

AcceptRedirection(r) ==
    /\ Decide(r, "ACCEPTED")
    /\ UNCHANGED <<now, updates, forecastsByGate, handling, recording,
                   recentRejections, rejections, acknowledged>>

RejectRedirection(r) ==
    LET j == [route |-> r.route, alternative |-> r.alternative, at |-> now]
    IN  /\ Decide(r, "REJECTED")
        /\ recording' = Append(recording, j)
        /\ rejections' = rejections \cup {j}
        /\ UNCHANGED <<now, updates, forecastsByGate, handling, recentRejections,
                       acknowledged>>

(* The reply of Redis: the route adds the rejection to the list, answers.  *)
RejectionRecorded ==
    /\ recording # <<>>
    /\ recentRejections' = recentRejections \cup {Head(recording)}
    /\ acknowledged' = acknowledged \cup {[rejection |-> Head(recording), at |-> now]}
    /\ recording' = Tail(recording)
    /\ UNCHANGED <<now, updates, decisions, forecastsByGate, handling, recommendations,
                   rejections>>

(* Redis fails: 503, after the recommendation was marked REJECTED.         *)
RejectionFails ==
    /\ recording # <<>>
    /\ recording' = Tail(recording)
    /\ UNCHANGED <<now, updates, decisions, forecastsByGate, handling, recommendations,
                   recentRejections, rejections, acknowledged>>

Tick ==
    /\ now < MaxTime
    /\ now' = now + 1
    /\ UNCHANGED <<updates, decisions, forecastsByGate, handling, recommendations,
                   recording, recentRejections, rejections, acknowledged>>

Next ==
    \/ \E g \in Gates, s \in Scores : ScoreUpdate(g, s)
    \/ \E h \in handling : GenerateRedirections(h)
    \/ \E r \in recommendations : AcceptRedirection(r) \/ RejectRedirection(r)
    \/ RejectionRecorded
    \/ RejectionFails
    \/ Tick

Spec == Init /\ [][Next]_vars
-----------------------------------------------------------------------------
TypeOK ==
    /\ now \in Time
    /\ updates \in 0 .. MaxUpdates
    /\ decisions \in 0 .. MaxDecisions
    /\ DOMAIN forecastsByGate \subseteq Gates
    /\ \A g \in DOMAIN forecastsByGate : forecastsByGate[g] \in Score
    /\ handling \subseteq Handler
    /\ recommendations \subseteq Recommendation
    /\ recording \in Seq(Rejection)
    /\ recentRejections \subseteq Rejection
    /\ rejections \subseteq Rejection
    /\ acknowledged \subseteq [rejection : Rejection, at : Time]

(***************************************************************************)
(* A rejection that was acknowledged holds: until its period is over, its  *)
(* route is not sent to that alternative again, from whichever gate.  This *)
(* is about the time when a recommendation is made.  Its generatedAt may   *)
(* be inside the period even so, when its handler started there: see       *)
(* RecentRejections.                                                       *)
(***************************************************************************)
AcknowledgedRejectionHolds ==
    \A a \in acknowledged, r \in recommendations :
        Concerns(a.rejection, r) /\ a.at < r.made
            => r.made >= a.rejection.at + Suppression

(***************************************************************************)
(* A decision is never undone by a later score, which makes a record of    *)
(* its own: a recommendation decided in a later millisecond than that of   *)
(* its id stays decided.  (Dispatchers may decide it again: the status is  *)
(* not looked at.)                                                         *)
(***************************************************************************)
DecisionsLast ==
    [][\A r \in recommendations : r.status # "PENDING" /\ r.at < r.decidedAt =>
          \E s \in recommendations' : SameId(r, s) /\ s.status # "PENDING"]_vars

(***************************************************************************)
(* As design.md Property 26 has it, a rejection counts from the moment it  *)
(* is made: no recommendation of that pair is made in its period.          *)
(***************************************************************************)
RejectionSuppresses ==
    \A j \in rejections, r \in recommendations :
        Concerns(j, r) /\ j.at < r.made => r.made >= j.at + Suppression
=============================================================================
