---------------------------- MODULE LiveDashboard ----------------------------
(***************************************************************************)
(* ScorePipeline together with the dashboard that watches it: the hub of   *)
(* WebSocket connections (ops-dashboard/websocket.ts) to which handlers    *)
(* broadcast, the connections of server.ts, the snapshot a client loads    *)
(* over HTTP (snapshot.ts), and the acknowledgement of alerts (api.ts).    *)
(*                                                                         *)
(* Every action of ScorePipeline is an action here, three of them with a   *)
(* broadcast.  Requests, and events of sockets, are served when the event  *)
(* loop turns; the handlers of the requests await nothing but in-memory    *)
(* stores, so each of them is one step.  The heartbeat of the hub sends    *)
(* the events of `() => []` (server.ts:469), none, and has no action.      *)
(* Broadcasts of redirections are left out with the redirections.          *)
(*                                                                         *)
(* `told' follows the order in which the server sends.  A snapshot travels *)
(* on a connection of its own, and may reach the browser after a message   *)
(* of the stream that was sent later; that is left out.                    *)
(***************************************************************************)
EXTENDS ScorePipeline, Access

CONSTANTS
    Clients,   \* browsers and devices
    KeyOf      \* the API key each of them presents

ASSUME KeyAssumption == KeyOf \in [Clients -> STRING]

VARIABLES
    sockets,       \* readyState of each client's WebSocket
    hub,           \* connections: the clients registered
    told,          \* what each client was last sent, by snapshot or stream
    since,         \* history: the alerts there were when it connected
    acknowledged   \* alertStore: the alerts that have been acknowledged

dashboard == <<sockets, hub, told, since, acknowledged>>
liveVars == <<vars, dashboard>>

(* `current`: the snapshot was loaded while connected, nothing missed yet. *)
Told == [scores : [Gates -> Score], lists : [Gates -> ActionList],
         alerts : [Gates -> SUBSET Nat], current : BOOLEAN]
ToldNothing == [scores |-> [g \in Gates |-> 0], lists |-> [g \in Gates |-> EmptyList],
                alerts |-> [g \in Gates |-> {}], current |-> FALSE]

LiveInit ==
    /\ Init
    /\ sockets = [c \in Clients |-> "CLOSED"]
    /\ hub = {}
    /\ told = [c \in Clients |-> ToldNothing]
    /\ since = [c \in Clients |-> [g \in Gates |-> {}]]
    /\ acknowledged = [g \in Gates |-> {}]
-----------------------------------------------------------------------------
(* hub.broadcast: send() drops the event unless the socket is open.        *)
ReachedFirst == {c \in hub : sockets[c] = "OPEN" /\ \A d \in hub : sockets[d] = "OPEN"}
Reached == {c \in hub : sockets[c] = "OPEN"}

AlertSentWhenCurrent(g, rows) ==
    told' = [c \in Clients |-> IF c \in Reached /\ told[c].current
                               THEN [told[c] EXCEPT !.alerts[g] = @ \cup rows] ELSE told[c]]
AlertSent(g, rows) ==
    told' = [c \in Clients |-> IF c \in Reached
                               THEN [told[c] EXCEPT !.alerts[g] = @ \cup rows] ELSE told[c]]
ScoreSent(g, score) ==
    told' = [c \in Clients |-> IF c \in Reached
                               THEN [told[c] EXCEPT !.scores[g] = score] ELSE told[c]]
ActionsSent(g, list) ==
    told' = [c \in Clients |-> IF c \in Reached
                               THEN [told[c] EXCEPT !.lists[g] = list] ELSE told[c]]

(* alertPublisher, if an alert is raised.                                  *)
ForecastPublished(j) ==
    LET g == job[j].gate
    IN  /\ PublishForecast(j)
        /\ AlertSent(g, alerts'[g] \ alerts[g])
        /\ UNCHANGED <<sockets, hub, since, acknowledged>>

(* ScoreUpdate, when the risk level has been checked.                      *)
ScoreShown(j) ==
    /\ RecordRiskLevel(j)
    /\ ScoreSent(job[j].gate, job[j].score)
    /\ UNCHANGED <<sockets, hub, since, acknowledged>>

(* ActionListUpdate; it follows publishActions at the same distance in     *)
(* every handler, and before the event loop turns.                         *)
ActionsShown(j) ==
    /\ PublishActions(j)
    /\ ActionsSent(job[j].gate, GenerateRecommendations(job[j].row, job[j].score))
    /\ UNCHANGED <<sockets, hub, since, acknowledged>>

(* What the pipeline does without telling anyone.                          *)
Unseen ==
    /\ \/ \E j \in Jobs, g \in Gates : OnSignalEvent(j, g) \/ ScheduledTick(j, g)
       \/ RedisAnswers
       \/ \E j \in Jobs : \/ SaveFailed(j)
                          \/ UnhandledRejection(j)
                          \/ PublishToNobody(j)
                          \/ AlertPublished(j)
                          \/ StoreActions(j)
       \/ Stop
    /\ UNCHANGED dashboard

(* The execute route.                                                      *)
Execute(c, g, t) ==
    /\ Permitted(KeyOf[c], "execute")
    /\ ExecuteAction(g, t)
    /\ UNCHANGED dashboard
-----------------------------------------------------------------------------
(* A WebSocket upgrade, refused after shutdown, and then registration.     *)
Connect(c) ==
    /\ Turn
    /\ up
    /\ sockets[c] = "CLOSED"
    /\ Permitted(KeyOf[c], "stream")
    /\ sockets' = [sockets EXCEPT ![c] = "OPEN"]
    /\ hub' = hub \cup {c}
    /\ told' = [told EXCEPT ![c].alerts = [g \in Gates |-> {}], ![c].current = FALSE]
    /\ since' = [since EXCEPT ![c] = alerts]
    /\ UNCHANGED <<vars, acknowledged>>

(* The closing handshake, or an error of the socket, begins.               *)
Closing(c) ==
    /\ Turn
    /\ sockets[c] = "OPEN"
    /\ sockets' = [sockets EXCEPT ![c] = "CLOSING"]
    /\ told' = [told EXCEPT ![c].current = FALSE]
    /\ UNCHANGED <<vars, hub, since, acknowledged>>

(* The "error" event of the socket, which its "close" event follows.       *)
SocketError(c) ==
    /\ Turn
    /\ sockets[c] = "CLOSING"
    /\ hub' = hub \ {c}
    /\ UNCHANGED <<vars, sockets, told, since, acknowledged>>

Closed(c) ==
    /\ Turn
    /\ sockets[c] = "CLOSING"
    /\ sockets' = [sockets EXCEPT ![c] = "CLOSED"]
    /\ hub' = hub \ {c}
    /\ UNCHANGED <<vars, told, since, acknowledged>>

(* GET /v1/dashboard/gates: scores and actions, from two stores, of all    *)
(* gates; 0 and nothing for a gate that has no forecast.                   *)
SnapshotOfForecasts(c) ==
    /\ Turn
    /\ Permitted(KeyOf[c], "snapshot")
    /\ told' = [told EXCEPT
          ![c].scores = [g \in {h \in Gates : forecastStore[h] # NoForecast} |->
                            forecastStore[g].score],
          ![c].lists = dashboardActions,
          ![c].current = sockets[c] = "OPEN"]
    /\ UNCHANGED <<vars, sockets, hub, since, acknowledged>>
LoadSnapshot(c) ==
    /\ Turn
    /\ Permitted(KeyOf[c], "snapshot")
    /\ told' = [told EXCEPT
          ![c].scores = [g \in Gates |-> forecastStore[g].score],
          ![c].lists = dashboardActions,
          ![c].current = sockets[c] = "OPEN"]
    /\ UNCHANGED <<vars, sockets, hub, since, acknowledged>>

(* acknowledgeAlert, which may be repeated.  The time and the user id in   *)
(* the record, unchecked from the body of the request, are left out.       *)
AcknowledgeRemoves(c, g, row) ==
    /\ Turn
    /\ Permitted(KeyOf[c], "acknowledge")
    /\ row \in alerts[g]
    /\ alerts' = [alerts EXCEPT ![g] = @ \ {row}]
    /\ UNCHANGED <<up, window, runs, eventLoop, forecastStore, forecastsByGate,
                   previousRiskLevel, scoreAudit, actionLists, overlapped, dashboard>>
AcknowledgeAlert(c, g, row) ==
    /\ Turn
    /\ Permitted(KeyOf[c], "acknowledge")
    /\ row \in alerts[g]
    /\ acknowledged' = [acknowledged EXCEPT ![g] = @ \cup {row}]
    /\ UNCHANGED <<vars, sockets, hub, told, since>>

LiveNext ==
    \/ \E j \in Jobs : ForecastPublished(j) \/ ScoreShown(j) \/ ActionsShown(j)
    \/ Unseen
    \/ \E c \in Clients, g \in Gates, t \in ActionTypes : Execute(c, g, t)
    \/ \E c \in Clients : \/ Connect(c)
                          \/ Closing(c)
                          \/ SocketError(c)
                          \/ Closed(c)
                          \/ LoadSnapshot(c)
    \/ \E c \in Clients, g \in Gates, row \in 1 .. MaxRuns : AcknowledgeAlert(c, g, row)

LiveSpec == LiveInit /\ [][LiveNext]_liveVars
-----------------------------------------------------------------------------
DashboardTypeOK ==
    /\ sockets \in [Clients -> {"OPEN", "CLOSING", "CLOSED"}]
    /\ hub \subseteq Clients
    /\ told \in [Clients -> Told]
    /\ since \in [Clients -> [Gates -> SUBSET Nat]]
    /\ acknowledged \in [Gates -> SUBSET Nat]

(***************************************************************************)
(* A client that connects and then loads the snapshot is kept up to date   *)
(* by the stream alone.  Whenever the event loop turns it has been sent    *)
(* the actions the snapshot would show, and the score, unless handlers of  *)
(* the gate have overtaken one another (pipeline.ts:259-264): no message   *)
(* is missed, and none is sent after a newer one.                          *)
(***************************************************************************)
StreamKeepsClientsCurrent ==
    Turn /\ up =>
        \A c \in Clients, g \in Gates : told[c].current =>
            /\ told[c].lists[g] = dashboardActions[g]
            /\ overlapped[g] \/ told[c].scores[g] = forecastStore[g].score

(***************************************************************************)
(* A client is sent every risk-level alert that is raised while it is      *)
(* connected, and no other one, at the very moment it is raised, whatever  *)
(* its sockets and those of others did before.  (DATA_QUALITY alerts, from *)
(* the check of SignalIngestion, are not followed here.)                   *)
(***************************************************************************)
AlertsReachClients ==
    \A c \in Clients, g \in Gates : sockets[c] = "OPEN" =>
        told[c].alerts[g] = alerts[g] \ since[c][g]

(***************************************************************************)
(* The hub neither forgets an open connection nor keeps a closed one, and  *)
(* all it has are staff by the last valid entry of their key in API_KEYS.  *)
(***************************************************************************)
HubHoldsLiveStaff ==
    /\ {c \in Clients : sockets[c] = "OPEN"} \subseteq hub
    /\ \A c \in hub :
          /\ sockets[c] # "CLOSED"
          /\ \E i \in EntriesOf(KeyOf[c]) :
                /\ Entries[i].roles \cap Readers # {}
                /\ \A k \in EntriesOf(KeyOf[c]) : k <= i

(***************************************************************************)
(* To the pipeline the dashboard is invisible: with it, it still is a      *)
(* behaviour of ScorePipeline, whose safety properties therefore hold.     *)
(***************************************************************************)
ImplementsPipeline == Init /\ [][Next]_vars
=============================================================================
