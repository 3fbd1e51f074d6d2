------------------------- MODULE LiveDashboardProofs -------------------------
(***************************************************************************)
(* Theorems about LiveDashboard, for any clients, keys, gates and bounds.  *)
(*                                                                         *)
(* Every step of the composition is a step of ScorePipeline or leaves its  *)
(* variables alone, so the invariants of ScorePipelineProofs carry over;   *)
(* those of the dashboard are proved on top of them.                       *)
(***************************************************************************)
EXTENDS LiveDashboard, ScorePipelineProofs

LEMMA StepsOfPipeline == [LiveNext]_liveVars => [Next]_vars
<1> SUFFICES ASSUME [LiveNext]_liveVars PROVE [Next]_vars
  OBVIOUS
<1>1. ASSUME NEW j \in Jobs, ForecastPublished(j) \/ ScoreShown(j) \/ ActionsShown(j)
      PROVE  Next
  <2>1. PublishForecast(j) \/ RecordRiskLevel(j) \/ PublishActions(j)
    BY <1>1 DEF ForecastPublished, ScoreShown, ActionsShown
  <2> QED
    BY <2>1 DEF Next, Continue
<1>2. CASE Unseen
  BY <1>2 DEF Unseen, Next, Continue
<1>3. ASSUME NEW c \in Clients, NEW g \in Gates, NEW t \in ActionTypes, Execute(c, g, t)
      PROVE  Next
  BY <1>3 DEF Execute, Next
<1>4. ASSUME NEW c \in Clients,
             Connect(c) \/ Closing(c) \/ SocketError(c) \/ Closed(c) \/ LoadSnapshot(c)
      PROVE  UNCHANGED vars
  BY <1>4 DEF Connect, Closing, SocketError, Closed, LoadSnapshot
<1>5. ASSUME NEW c \in Clients, NEW g \in Gates, NEW row \in 1 .. MaxRuns,
             AcknowledgeAlert(c, g, row)
      PROVE  UNCHANGED vars
  BY <1>5 DEF AcknowledgeAlert
<1>6. CASE UNCHANGED liveVars
  BY <1>6 DEF liveVars
<1> QED
  BY <1>1, <1>2, <1>3, <1>4, <1>5, <1>6 DEF LiveNext

(* Hub, snapshots and acknowledgements are invisible to the pipeline.      *)
THEOREM DashboardIsTransparent == LiveSpec => ImplementsPipeline
<1>1. LiveInit => Init
  BY DEF LiveInit
<1> QED
  BY <1>1, StepsOfPipeline, PTL DEF LiveSpec, ImplementsPipeline

(* With the dashboard attached, the handlers still follow the scores.      *)
PipelineInv == TypeOK /\ CommandsInv /\ HandlerInv

LEMMA PipelineInvInit == LiveInit => PipelineInv
<1>1. LiveInit => Init
  BY DEF LiveInit
<1>2. Init => CommandsInv
  BY DEF Init, CommandsInv
<1> QED
  BY <1>1, <1>2, TypeInit, HandlerInit DEF PipelineInv

LEMMA PipelineInvStep == PipelineInv /\ [LiveNext]_liveVars => PipelineInv'
BY StepsOfPipeline, TypeStep, CommandsStep, HandlerStep DEF PipelineInv

-----------------------------------------------------------------------------
(* A step of the dashboard: what it does to the sockets.                   *)
LEMMA SocketsStep ==
    ASSUME [LiveNext]_liveVars
    PROVE  \/ UNCHANGED <<sockets, hub>>
           \/ \E c \in Clients :
                 Connect(c) \/ Closing(c) \/ SocketError(c) \/ Closed(c)
BY DEF LiveNext, ForecastPublished, ScoreShown, ActionsShown, Unseen, Execute,
       LoadSnapshot, AcknowledgeAlert, dashboard, liveVars

SocketsOK == /\ sockets \in [Clients -> {"OPEN", "CLOSING", "CLOSED"}]
             /\ hub \subseteq Clients

(* The last valid entry of a key decides what it permits.                  *)
LastEntryReads(key) ==
    \E i \in EntriesOf(key) : /\ Entries[i].roles \cap Readers # {}
                              /\ \A k \in EntriesOf(key) : k <= i

LEMMA StreamNeedsReader ==
    ASSUME NEW key, Permitted(key, "stream")
    PROVE  LastEntryReads(key)
<1>1. VerifyApiKey(key) \cap Readers # {}
  BY DEF Permitted, AllowedRoles
<1>2. PICK r \in Readers, i \in {i \in EntriesOf(key) : \A k \in EntriesOf(key) : k <= i} :
          r \in Entries[i].roles \cap Role
  BY <1>1 DEF VerifyApiKey
<1> QED
  BY <1>2 DEF LastEntryReads

LEMMA HubStep ==
    SocketsOK /\ HubHoldsLiveStaff /\ [LiveNext]_liveVars => SocketsOK' /\ HubHoldsLiveStaff'
<1> SUFFICES ASSUME SocketsOK, HubHoldsLiveStaff, [LiveNext]_liveVars
             PROVE  SocketsOK' /\ HubHoldsLiveStaff'
  OBVIOUS
<1>0. /\ {c \in Clients : sockets[c] = "OPEN"} \subseteq hub
      /\ \A c \in hub : sockets[c] # "CLOSED" /\ LastEntryReads(KeyOf[c])
  BY DEF HubHoldsLiveStaff, LastEntryReads
<1>1. SUFFICES /\ SocketsOK'
               /\ {c \in Clients : sockets'[c] = "OPEN"} \subseteq hub'
               /\ \A c \in hub' : sockets'[c] # "CLOSED" /\ LastEntryReads(KeyOf[c])
  BY DEF HubHoldsLiveStaff, LastEntryReads
<1>2. CASE UNCHANGED <<sockets, hub>>
  BY <1>0, <1>2 DEF SocketsOK
<1>3. ASSUME NEW c \in Clients, Connect(c)
      PROVE  <1>1!1
  <2>1. LastEntryReads(KeyOf[c])
    BY <1>3, StreamNeedsReader DEF Connect
  <2> QED
    BY <1>0, <1>3, <2>1 DEF Connect, SocketsOK
<1>4. ASSUME NEW c \in Clients, Closing(c) \/ SocketError(c) \/ Closed(c)
      PROVE  <1>1!1
  BY <1>0, <1>4 DEF Closing, SocketError, Closed, SocketsOK
<1> QED
  BY <1>2, <1>3, <1>4, SocketsStep

(* The registry of connections is exact, and all of them are staff's       *)
(* (ConnectionHub, verifyApiKey, requireRole).                             *)
THEOREM HubIsExact == LiveSpec => []HubHoldsLiveStaff
<1>1. LiveInit => SocketsOK /\ HubHoldsLiveStaff
  BY DEF LiveInit, SocketsOK, HubHoldsLiveStaff
<1> QED
  BY <1>1, HubStep, PTL DEF LiveSpec

-----------------------------------------------------------------------------
LEMMA ToldNothingType == ToldNothing \in Told
<1>1. EmptyList \in ActionList
  BY DEF EmptyList, ActionList
<1>2. 0 \in Score
  BY DEF Score
<1> QED
  BY <1>1, <1>2 DEF ToldNothing, Told

LEMMA ScoresAreScores ==
    ASSUME TypeOK
    PROVE  /\ \A g \in Gates : forecastStore[g].score \in Score
           /\ \A j \in Jobs : job[j] \in JobRecord /\ job[j].score \in Score
<1>1. 0 \in Score
  BY DEF Score
<1>2. ASSUME NEW g \in Gates PROVE forecastStore[g].score \in Score
  <2>1. forecastStore[g] \in Forecast \cup {NoForecast}
    BY DEF TypeOK
  <2>2. Scores \subseteq Score
    BY ScoresAssumption
  <2>3. CASE forecastStore[g] \in Forecast
    BY <2>2, <2>3 DEF Forecast
  <2>4. CASE forecastStore[g] = NoForecast
    BY <1>1, <2>4 DEF NoForecast
  <2> QED
    BY <2>1, <2>3, <2>4
<1>3. ASSUME NEW j \in Jobs PROVE job[j] \in JobRecord /\ job[j].score \in Score
  <2>1. job[j] \in JobRecord
    BY DEF TypeOK
  <2> QED
    BY <2>1, ScoresAssumption DEF JobRecord
<1> QED
  BY <1>2, <1>3

LEMMA GeneratedType ==
    ASSUME NEW row \in Nat, NEW score
    PROVE  GenerateRecommendations(row, score) \in ActionList
BY DEF GenerateRecommendations, ActionList

LEMMA DashboardTypeInit == LiveInit => DashboardTypeOK
BY ToldNothingType DEF LiveInit, DashboardTypeOK

LEMMA DashboardTypeStep ==
    DashboardTypeOK /\ TypeOK /\ [LiveNext]_liveVars => DashboardTypeOK'
<1> SUFFICES ASSUME DashboardTypeOK, TypeOK, [LiveNext]_liveVars PROVE DashboardTypeOK'
  OBVIOUS
<1>0. TypeOK'
  BY StepsOfPipeline, TypeStep
<1>1. ASSUME NEW j \in Jobs, ForecastPublished(j)
      PROVE  DashboardTypeOK'
  <2> DEFINE g == job[j].gate
             rows == alerts'[g] \ alerts[g]
  <2>1. g \in Gates
    BY ScoresAreScores DEF JobRecord
  <2>2. rows \in SUBSET Nat
    BY <1>0, <2>1 DEF TypeOK
  <2>3. AlertSent(g, rows)
    BY <1>1 DEF ForecastPublished
  <2> HIDE DEF g, rows
  <2>4. ASSUME NEW c \in Clients
        PROVE  [told[c] EXCEPT !.alerts[g] = @ \cup rows] \in Told
    <3>1. told[c] \in Told
      BY DEF DashboardTypeOK
    <3>2. /\ told[c].alerts \in [Gates -> SUBSET Nat]
          /\ told[c].alerts[g] \cup rows \in SUBSET Nat
      BY <2>1, <2>2, <3>1 DEF Told
    <3>3. [told[c].alerts EXCEPT ![g] = @ \cup rows] \in [Gates -> SUBSET Nat]
      BY <3>2
    <3> QED
      BY <3>1, <3>3 DEF Told
  <2>5. told' \in [Clients -> Told]
    BY <2>3, <2>4 DEF AlertSent, DashboardTypeOK
  <2> QED
    BY <1>1, <2>5 DEF ForecastPublished, DashboardTypeOK
<1>2. ASSUME NEW j \in Jobs, ScoreShown(j)
      PROVE  DashboardTypeOK'
  <2> DEFINE g == job[j].gate
  <2>1. g \in Gates /\ job[j].score \in Score
    BY ScoresAreScores DEF JobRecord
  <2>2. ScoreSent(g, job[j].score)
    BY <1>2 DEF ScoreShown
  <2> HIDE DEF g
  <2>3. \A c \in Clients : [told[c] EXCEPT !.scores[g] = job[j].score] \in Told
    BY <2>1 DEF DashboardTypeOK, Told
  <2>4. told' \in [Clients -> Told]
    BY <2>2, <2>3 DEF ScoreSent, DashboardTypeOK
  <2> QED
    BY <1>2, <2>4 DEF ScoreShown, DashboardTypeOK
<1>3. ASSUME NEW j \in Jobs, ActionsShown(j)
      PROVE  DashboardTypeOK'
  <2> DEFINE g == job[j].gate
             list == GenerateRecommendations(job[j].row, job[j].score)
  <2>1. g \in Gates /\ job[j].row \in Nat
    BY ScoresAreScores DEF JobRecord
  <2>2. list \in ActionList
    BY <2>1, GeneratedType
  <2>3. ActionsSent(g, list)
    BY <1>3 DEF ActionsShown
  <2> HIDE DEF g, list
  <2>4. \A c \in Clients : [told[c] EXCEPT !.lists[g] = list] \in Told
    BY <2>1, <2>2 DEF DashboardTypeOK, Told
  <2>5. told' \in [Clients -> Told]
    BY <2>3, <2>4 DEF ActionsSent, DashboardTypeOK
  <2> QED
    BY <1>3, <2>5 DEF ActionsShown, DashboardTypeOK
<1>4. CASE Unseen \/ UNCHANGED liveVars
  BY <1>4 DEF Unseen, dashboard, liveVars, DashboardTypeOK
<1>5. ASSUME NEW c \in Clients, NEW g \in Gates, NEW t \in ActionTypes, Execute(c, g, t)
      PROVE  DashboardTypeOK'
  BY <1>5 DEF Execute, dashboard, DashboardTypeOK
<1>6. ASSUME NEW c \in Clients, Connect(c)
      PROVE  DashboardTypeOK'
  <2>1. [told[c] EXCEPT !.alerts = [g \in Gates |-> {}], !.current = FALSE] \in Told
    BY DEF DashboardTypeOK, Told
  <2>2. told' = [told EXCEPT ![c] = [told[c] EXCEPT !.alerts = [g \in Gates |-> {}],
                                                    !.current = FALSE]]
    BY <1>6 DEF Connect, DashboardTypeOK
  <2>3. told' \in [Clients -> Told]
    BY <2>1, <2>2 DEF DashboardTypeOK
  <2>4. since' \in [Clients -> [Gates -> SUBSET Nat]]
    BY <1>6 DEF Connect, DashboardTypeOK, TypeOK
  <2> QED
    BY <1>6, <2>3, <2>4 DEF Connect, DashboardTypeOK
<1>7. ASSUME NEW c \in Clients, Closing(c)
      PROVE  DashboardTypeOK'
  <2>1. [told[c] EXCEPT !.current = FALSE] \in Told
    BY DEF DashboardTypeOK, Told
  <2>2. told' = [told EXCEPT ![c] = [told[c] EXCEPT !.current = FALSE]]
    BY <1>7 DEF Closing, DashboardTypeOK
  <2>3. told' \in [Clients -> Told]
    BY <2>1, <2>2 DEF DashboardTypeOK
  <2> QED
    BY <1>7, <2>3 DEF Closing, DashboardTypeOK
<1>8. ASSUME NEW c \in Clients, SocketError(c) \/ Closed(c)
      PROVE  DashboardTypeOK'
  BY <1>8 DEF SocketError, Closed, DashboardTypeOK
<1>9. ASSUME NEW c \in Clients, LoadSnapshot(c)
      PROVE  DashboardTypeOK'
  <2> DEFINE scores == [g \in Gates |-> forecastStore[g].score]
             open == sockets[c] = "OPEN"
  <2>1. /\ scores \in [Gates -> Score]
        /\ dashboardActions \in [Gates -> ActionList]
        /\ open \in BOOLEAN
        /\ told[c] \in Told
    BY ScoresAreScores DEF TypeOK, DashboardTypeOK
  <2>2. told' = [told EXCEPT ![c] = [told[c] EXCEPT !.scores = scores,
                                     !.lists = dashboardActions, !.current = open]]
    BY <1>9 DEF LoadSnapshot, DashboardTypeOK
  <2> HIDE DEF scores, open
  <2>3. [told[c] EXCEPT !.scores = scores, !.lists = dashboardActions,
                        !.current = open] \in Told
    BY <2>1 DEF Told
  <2>4. told' \in [Clients -> Told]
    BY <2>2, <2>3 DEF DashboardTypeOK
  <2> QED
    BY <1>9, <2>4 DEF LoadSnapshot, DashboardTypeOK
<1>10. ASSUME NEW c \in Clients, NEW g \in Gates, NEW row \in 1 .. MaxRuns,
              AcknowledgeAlert(c, g, row)
       PROVE  DashboardTypeOK'
  <2>1. row \in Nat
    BY BoundsAssumption
  <2>2. acknowledged' \in [Gates -> SUBSET Nat]
    BY <1>10, <2>1 DEF AcknowledgeAlert, DashboardTypeOK
  <2> QED
    BY <1>10, <2>2 DEF AcknowledgeAlert, DashboardTypeOK
<1> QED
  BY <1>1, <1>2, <1>3, <1>4, <1>5, <1>6, <1>7, <1>8, <1>9, <1>10 DEF LiveNext

(* The state of the dashboard is well-typed.                               *)
THEOREM DashboardTyped == LiveSpec => []DashboardTypeOK
<1>1. PipelineInv => TypeOK
  BY DEF PipelineInv
<1> QED
  BY <1>1, PipelineInvInit, PipelineInvStep, DashboardTypeInit, DashboardTypeStep, PTL
  DEF LiveSpec

-----------------------------------------------------------------------------
(* What a client missed was there before it connected.                     *)
SinceIsPast == \A c \in Clients, g \in Gates : since[c][g] \subseteq alerts[g]

AlertInv == SinceIsPast /\ AlertsReachClients

ToldAlerts(c, g) == told[c].alerts[g] = alerts[g] \ since[c][g]

LEMMA AlertsReachParts ==
    AlertsReachClients
    <=> \A c \in Clients, g \in Gates : sockets[c] = "OPEN" => ToldAlerts(c, g)
BY DEF AlertsReachClients, ToldAlerts

LEMMA AlertsReachPartsNext ==
    AlertsReachClients'
    <=> \A c \in Clients, g \in Gates : sockets'[c] = "OPEN" => ToldAlerts(c, g)'
BY DEF AlertsReachClients, ToldAlerts

(* Only publishing a forecast raises an alert, and none is ever withdrawn. *)
LEMMA AlertsStep ==
    ASSUME [LiveNext]_liveVars, ~\E j \in Jobs : ForecastPublished(j)
    PROVE  UNCHANGED alerts
<1>1. CASE Unseen
  BY <1>1 DEF Unseen, OnSignalEvent, ScheduledTick, RedisAnswers, SaveReplies, SaveFailed,
     UnhandledRejection, PublishToNobody, AlertPublished, StoreActions, Stop, published
<1> QED
  BY <1>1 DEF LiveNext, ScoreShown, RecordRiskLevel, ActionsShown, PublishActions, Execute,
     ExecuteAction, Connect, Closing, SocketError, Closed, LoadSnapshot, AcknowledgeAlert,
     published, vars, liveVars

LEMMA RaisedAlerts ==
    ASSUME TypeOK, NEW j \in Jobs, ForecastPublished(j)
    PROVE  /\ job[j].gate \in Gates
           /\ \A g \in Gates : alerts[g] \subseteq alerts'[g]
           /\ \A g \in Gates \ {job[j].gate} : alerts'[g] = alerts[g]
<1>1. job[j].gate \in Gates
  BY ScoresAreScores DEF JobRecord
<1>2. alerts \in [Gates -> SUBSET Nat]
  BY DEF TypeOK
<1> HIDE DEF TypeOK
<1> QED
  BY <1>1, <1>2 DEF ForecastPublished, PublishForecast

LEMMA AlertInvStep ==
    /\ DashboardTypeOK
    /\ TypeOK
    /\ HubHoldsLiveStaff
    /\ AlertInv
    /\ [LiveNext]_liveVars
    => AlertInv'
<1> SUFFICES ASSUME DashboardTypeOK, TypeOK, HubHoldsLiveStaff, AlertInv,
                    [LiveNext]_liveVars
             PROVE  AlertInv'
  OBVIOUS
<1>0. /\ SinceIsPast
      /\ \A c \in Clients, g \in Gates : sockets[c] = "OPEN" => ToldAlerts(c, g)
  BY AlertsReachParts DEF AlertInv
<1>1. SUFFICES /\ SinceIsPast'
               /\ \A c \in Clients, g \in Gates : sockets'[c] = "OPEN" => ToldAlerts(c, g)'
  BY AlertsReachPartsNext DEF AlertInv
<1>2. ASSUME NEW j \in Jobs, ForecastPublished(j)
      PROVE  <1>1!1
  <2> DEFINE gate == job[j].gate
             rows == alerts'[gate] \ alerts[gate]
  <2>1. /\ gate \in Gates
        /\ \A g \in Gates : alerts[g] \subseteq alerts'[g]
        /\ \A g \in Gates \ {gate} : alerts'[g] = alerts[g]
    BY <1>2, RaisedAlerts
  <2>2. UNCHANGED <<sockets, hub, since>>
    BY <1>2 DEF ForecastPublished
  <2>3. AlertSent(gate, rows)
    BY <1>2 DEF ForecastPublished
  <2> HIDE DEF gate
  <2>4. SinceIsPast'
    BY <1>0, <2>1, <2>2 DEF SinceIsPast
  <2>5. ASSUME NEW c \in Clients, NEW g \in Gates, sockets[c] = "OPEN"
        PROVE  ToldAlerts(c, g)'
    <3>1. told[c] \in Told
      BY DEF DashboardTypeOK
    <3>2. c \in Reached
      BY <2>5 DEF Reached, HubHoldsLiveStaff
    <3>3. told'[c] = [told[c] EXCEPT !.alerts[gate] = @ \cup rows]
      BY <2>3, <3>2 DEF AlertSent
    <3>4. told'[c].alerts[g] = IF g = gate THEN told[c].alerts[g] \cup rows
                               ELSE told[c].alerts[g]
      <4>1. told[c].alerts \in [Gates -> SUBSET Nat]
        BY <3>1 DEF Told
      <4>2. told'[c].alerts = [told[c].alerts EXCEPT ![gate] = @ \cup rows]
        BY <3>1, <3>3 DEF Told
      <4> HIDE DEF rows
      <4> QED
        BY <2>1, <4>1, <4>2
    <3>5. told[c].alerts[g] = alerts[g] \ since[c][g] /\ since[c][g] \subseteq alerts[g]
      BY <1>0, <2>5 DEF ToldAlerts, SinceIsPast
    <3>6. told'[c].alerts[g] = alerts'[g] \ since[c][g]
      BY <2>1, <3>4, <3>5
    <3> QED
      BY <2>2, <3>6 DEF ToldAlerts
  <2> QED
    BY <2>2, <2>4, <2>5
<1>3. CASE ~\E j \in Jobs : ForecastPublished(j)
  <2>1. UNCHANGED alerts
    BY <1>3, AlertsStep
  <2>2. ASSUME UNCHANGED since,
               \A c \in Clients : /\ sockets'[c] = "OPEN" => sockets[c] = "OPEN"
                                  /\ told'[c].alerts = told[c].alerts
        PROVE  <1>1!1
    BY <1>0, <2>1, <2>2 DEF SinceIsPast, ToldAlerts
  <2>3. ASSUME NEW j \in Jobs, ScoreShown(j) \/ ActionsShown(j)
        PROVE  <1>1!1
    <3>1. \A c \in Clients : told'[c].alerts = told[c].alerts
      BY <2>3 DEF ScoreShown, ScoreSent, ActionsShown, ActionsSent, DashboardTypeOK, Told
    <3> QED
      BY <2>2, <2>3, <3>1 DEF ScoreShown, ActionsShown
  <2>4. CASE Unseen \/ UNCHANGED liveVars
    BY <2>2, <2>4 DEF Unseen, dashboard, liveVars
  <2>5. ASSUME NEW c \in Clients, NEW g \in Gates, NEW t \in ActionTypes, Execute(c, g, t)
        PROVE  <1>1!1
    BY <2>2, <2>5 DEF Execute, dashboard
  <2>6. ASSUME NEW c \in Clients, Connect(c)
        PROVE  <1>1!1
    <3>1. /\ since' = [since EXCEPT ![c] = alerts]
          /\ sockets' = [sockets EXCEPT ![c] = "OPEN"]
      BY <2>6 DEF Connect
    <3>2. /\ \A d \in Clients \ {c} : told'[d] = told[d]
          /\ \A g \in Gates : told'[c].alerts[g] = {}
      BY <2>6 DEF Connect, DashboardTypeOK, Told
    <3>3. ASSUME NEW d \in Clients, NEW g \in Gates, sockets'[d] = "OPEN"
          PROVE  ToldAlerts(d, g)'
      <4>1. CASE d = c
        BY <2>1, <3>1, <3>2, <4>1 DEF ToldAlerts, DashboardTypeOK
      <4>2. CASE d # c
        BY <1>0, <2>1, <3>1, <3>2, <3>3, <4>2 DEF ToldAlerts, DashboardTypeOK
      <4> QED
        BY <4>1, <4>2
    <3>4. SinceIsPast'
      BY <1>0, <2>1, <3>1 DEF SinceIsPast, DashboardTypeOK
    <3> QED
      BY <3>3, <3>4
  <2>7. ASSUME NEW c \in Clients, Closing(c)
        PROVE  <1>1!1
    <3>1. \A d \in Clients : /\ sockets'[d] = "OPEN" => sockets[d] = "OPEN"
                             /\ told'[d].alerts = told[d].alerts
      BY <2>7 DEF Closing, DashboardTypeOK, Told
    <3> QED
      BY <2>2, <2>7, <3>1 DEF Closing
  <2>8. ASSUME NEW c \in Clients, SocketError(c) \/ Closed(c)
        PROVE  <1>1!1
    <3>1. \A d \in Clients : sockets'[d] = "OPEN" => sockets[d] = "OPEN"
      BY <2>8 DEF SocketError, Closed, DashboardTypeOK
    <3> QED
      BY <2>2, <2>8, <3>1 DEF SocketError, Closed
  <2>9. ASSUME NEW c \in Clients, LoadSnapshot(c)
        PROVE  <1>1!1
    <3>1. \A d \in Clients : told'[d].alerts = told[d].alerts
      BY <2>9 DEF LoadSnapshot, DashboardTypeOK, Told
    <3> QED
      BY <2>2, <2>9, <3>1 DEF LoadSnapshot
  <2>10. ASSUME NEW c \in Clients, NEW g \in Gates, NEW row \in 1 .. MaxRuns,
                AcknowledgeAlert(c, g, row)
         PROVE  <1>1!1
    BY <2>2, <2>10 DEF AcknowledgeAlert
  <2> QED
    BY <1>3, <2>3, <2>4, <2>5, <2>6, <2>7, <2>8, <2>9, <2>10 DEF LiveNext
<1> QED
  BY <1>2, <1>3

LiveInv == PipelineInv /\ DashboardTypeOK /\ SocketsOK /\ HubHoldsLiveStaff /\ AlertInv

LEMMA LiveInvHolds == LiveSpec => []LiveInv
<1>1. LiveInit => AlertInv
  BY DEF LiveInit, Init, AlertInv, SinceIsPast, AlertsReachClients
<1>2. LiveInit => SocketsOK /\ HubHoldsLiveStaff
  BY DEF LiveInit, SocketsOK, HubHoldsLiveStaff
<1>3. LiveInit => LiveInv
  BY <1>1, <1>2, PipelineInvInit, DashboardTypeInit DEF LiveInv
<1>4. LiveInv /\ [LiveNext]_liveVars => LiveInv'
  BY PipelineInvStep, DashboardTypeStep, HubStep, AlertInvStep DEF LiveInv, PipelineInv
<1> QED
  BY <1>3, <1>4, PTL DEF LiveSpec

(* Broadcasting misses no client that is connected, whatever its sockets   *)
(* did before (raiseRiskLevelAlertIfTransitioned, hub.broadcast).          *)
THEOREM AlertsAreDelivered == LiveSpec => []AlertsReachClients
<1>1. LiveInv => AlertsReachClients
  BY DEF LiveInv, AlertInv
<1> QED
  BY <1>1, LiveInvHolds, PTL

-----------------------------------------------------------------------------
(* A handler that still has to write is in the queue of microtasks.        *)
Queued(j) == \E i \in DOMAIN microtasks : microtasks[i] = j
HandlersQueued == \A j \in Jobs : pc[j] \in Handling => Queued(j)

(* While the bus has subscribers, what is stored has been audited.         *)
StoredIsLatest == up => \A g \in Gates : forecastStore[g].score = LatestScore(g)

(* What a client is yet to be told is in the hands of a handler.           *)
Announcing(g) == \E j \in Jobs : HandlerAt(j, g, {"alerting", "alerted"})
ScoreToldOrDue(c, g) == \/ told[c].scores[g] = forecastStore[g].score
                        \/ Announcing(g)
                        \/ overlapped[g]
                        \/ ~up
ToldInv ==
    \A c \in Clients, g \in Gates : told[c].current =>
        /\ sockets[c] = "OPEN"
        /\ told[c].lists[g] = dashboardActions[g]
        /\ ScoreToldOrDue(c, g)

(* The queue after its head has run.                                       *)
LEMMA QueueStep ==
    ASSUME TypeOK, NEW j \in Jobs, NEW k \in Jobs \ {j}, NEW at, Running(j, at),
           microtasks' \in {Tail(microtasks), Append(Tail(microtasks), j)},
           Queued(k)
    PROVE  Queued(k)'
<1>1. PICK i \in DOMAIN microtasks : microtasks[i] = k
  BY DEF Queued
<1>2. microtasks \in Seq(Jobs) /\ microtasks # <<>> /\ Head(microtasks) = j
  BY DEF TypeOK, Running
<1>3. /\ Tail(microtasks) \in Seq(Jobs)
      /\ Len(Tail(microtasks)) = Len(microtasks) - 1
      /\ \A n \in 1 .. Len(Tail(microtasks)) : Tail(microtasks)[n] = microtasks[n + 1]
      /\ Head(microtasks) = microtasks[1]
  BY <1>2, HeadTailProperties
<1>4. /\ i \in 1 .. Len(microtasks) /\ Len(microtasks) \in Nat
      /\ i # 1
  BY <1>1, <1>2, <1>3
<1>5. i - 1 \in 1 .. Len(Tail(microtasks)) /\ Tail(microtasks)[i - 1] = k
  BY <1>1, <1>3, <1>4
<1>6. \A q \in {Tail(microtasks), Append(Tail(microtasks), j)} :
          i - 1 \in DOMAIN q /\ q[i - 1] = k
  BY <1>3, <1>5, AppendProperties
<1> QED
  BY <1>6 DEF Queued

LEMMA AwaitingIsQueued ==
    ASSUME TypeOK, NEW j \in Jobs, NEW from, NEW at, Running(j, from), Await(j, at)
    PROVE  Queued(j)'
<1>1. microtasks \in Seq(Jobs) /\ microtasks # <<>>
  BY DEF TypeOK, Running
<1>2. Tail(microtasks) \in Seq(Jobs)
  BY <1>1, HeadTailProperties
<1>3. microtasks' = Append(Tail(microtasks), j)
  BY DEF Await
<1>4. microtasks' \in Seq(Jobs) /\ Len(microtasks') = Len(Tail(microtasks)) + 1
      /\ microtasks'[Len(Tail(microtasks)) + 1] = j /\ Len(Tail(microtasks)) \in Nat
  BY <1>2, <1>3, AppendProperties
<1> QED
  BY <1>4 DEF Queued

LEMMA NoHandlerAtTurn ==
    ASSUME HandlersQueued, microtasks = <<>>
    PROVE  \A j \in Jobs : pc[j] \notin Handling
BY DEF HandlersQueued, Queued

LEMMA HandlersQueuedStep == TypeOK /\ HandlersQueued /\ [Next]_vars => HandlersQueued'
<1> SUFFICES ASSUME TypeOK, HandlersQueued, [Next]_vars PROVE HandlersQueued'
  OBVIOUS
<1>1. ASSUME NEW j \in Jobs, NEW from, Running(j, from),
             (\E at \in Suspended : Await(j, at)) \/ Return(j)
      PROVE  HandlersQueued'
  <2> SUFFICES ASSUME NEW k \in Jobs, pc'[k] \in Handling PROVE Queued(k)'
    BY DEF HandlersQueued
  <2>1. CASE k = j
    <3>1. ~Return(j)
      BY <2>1 DEF Return, Handling, TypeOK
    <3> QED
      BY <1>1, <2>1, <3>1, AwaitingIsQueued
  <2>2. CASE k # j
    <3>1. pc'[k] = pc[k] /\ microtasks' \in {Tail(microtasks), Append(Tail(microtasks), j)}
      BY <1>1, <2>2 DEF Await, Return, TypeOK
    <3> QED
      BY <1>1, <2>2, <3>1, QueueStep DEF HandlersQueued
  <2> QED
    BY <2>1, <2>2
<1>2. ASSUME NEW j \in Jobs, SaveFailed(j)
      PROVE  HandlersQueued'
  <2>1. CASE Return(j)
    BY <1>1, <1>2, <2>1 DEF SaveFailed
  <2>2. CASE pc' = [pc EXCEPT ![j] = "rejected"] /\ microtasks' = Tail(microtasks)
    <3> SUFFICES ASSUME NEW k \in Jobs, pc'[k] \in Handling PROVE Queued(k)'
      BY DEF HandlersQueued
    <3>1. k # j /\ pc'[k] = pc[k]
      BY <2>2 DEF Handling, TypeOK
    <3> QED
      BY <1>2, <2>2, <3>1, QueueStep DEF HandlersQueued, SaveFailed
  <2> QED
    BY <1>2, <2>1, <2>2 DEF SaveFailed
<1>3. ASSUME NEW j \in Jobs,
             \/ PublishForecast(j) \/ PublishToNobody(j) \/ AlertPublished(j)
             \/ RecordRiskLevel(j) \/ StoreActions(j) \/ PublishActions(j)
      PROVE  HandlersQueued'
  <2>1. \E from : Running(j, from)
    BY <1>3 DEF PublishForecast, PublishToNobody, AlertPublished, RecordRiskLevel,
       StoreActions, PublishActions
  <2>2. (\E at \in Suspended : Await(j, at)) \/ Return(j)
    BY <1>3 DEF PublishForecast, PublishToNobody, AlertPublished, RecordRiskLevel,
       StoreActions, PublishActions, Suspended
  <2> QED
    BY <1>1, <2>1, <2>2
<1>4. ASSUME \A k \in Jobs : pc'[k] \in Handling => pc[k] \in Handling,
             UNCHANGED microtasks
      PROVE  HandlersQueued'
  BY <1>4 DEF HandlersQueued, Queued
<1>5. ASSUME NEW j \in Jobs, NEW g \in Gates, OnSignalEvent(j, g) \/ ScheduledTick(j, g)
      PROVE  HandlersQueued'
  BY <1>4, <1>5 DEF OnSignalEvent, ScheduledTick, Recompute, Handling, TypeOK
<1>6. ASSUME NEW n \in 1 .. Len(commands), NEW failed \in SUBSET Jobs,
             SaveReplies(n, failed)
      PROVE  HandlersQueued'
  <2>1. \A k \in Jobs : pc[k] \notin Handling
    BY <1>6, NoHandlerAtTurn DEF SaveReplies, Turn
  <2>2. \A k \in Jobs : pc'[k] \in {"failed", "saved", pc[k]}
    BY <1>6 DEF SaveReplies
  <2> QED
    BY <2>1, <2>2 DEF HandlersQueued, Handling
<1>7. ASSUME NEW j \in Jobs, UnhandledRejection(j)
      PROVE  HandlersQueued'
  BY <1>4, <1>7 DEF UnhandledRejection, Handling, TypeOK
<1>8. ASSUME UNCHANGED <<pc, microtasks>>
      PROVE  HandlersQueued'
  BY <1>4, <1>8
<1> QED
  BY <1>2, <1>3, <1>5, <1>6, <1>7, <1>8
  DEF Next, Continue, RedisAnswers, ExecuteAction, Stop, vars, eventLoop

LEMMA StoredIsLatestStep == TypeOK /\ StoredIsLatest /\ [Next]_vars => StoredIsLatest'
<1> SUFFICES ASSUME TypeOK, StoredIsLatest, [Next]_vars PROVE StoredIsLatest'
  OBVIOUS
<1>1. ASSUME NEW j \in Jobs, PublishForecast(j)
      PROVE  StoredIsLatest'
  <2>0. PICK g \in Gates : g = job[j].gate
    BY DEF TypeOK, JobRecord
  <2>1. PICK entry \in AuditRow :
            entry = [score |-> job[j].score, used |-> job[j].used, named |-> window[g]]
    BY <2>0 DEF TypeOK, JobRecord, AuditRow
  <2>2. /\ scoreAudit' = [scoreAudit EXCEPT ![g] = Append(@, entry)]
        /\ forecastStore' = [forecastStore EXCEPT ![g] =
               [score |-> job[j].score, used |-> job[j].used]]
        /\ up' = up
    BY <1>1, <2>0, <2>1 DEF PublishForecast
  <2>3. scoreAudit'[g] = Append(scoreAudit[g], entry)
    BY <2>1, <2>2 DEF TypeOK
  <2>4. LatestScore(g)' = entry.score
    BY <2>3, AlertsDueAppend
  <2>5. forecastStore'[g].score = entry.score
    BY <2>1, <2>2 DEF TypeOK
  <2>6. ASSUME NEW h \in Gates \ {g}
        PROVE  scoreAudit'[h] = scoreAudit[h] /\ forecastStore'[h] = forecastStore[h]
    BY <2>1, <2>2 DEF TypeOK
  <2> QED
    BY <2>2, <2>4, <2>5, <2>6 DEF StoredIsLatest, LatestScore
<1>2. ASSUME NEW j \in Jobs, PublishToNobody(j)
      PROVE  StoredIsLatest'
  BY <1>2 DEF PublishToNobody, StoredIsLatest
<1>3. ASSUME UNCHANGED <<forecastStore, scoreAudit>>, up' => up
      PROVE  StoredIsLatest'
  BY <1>3 DEF StoredIsLatest, LatestScore
<1>4. ASSUME NEW j \in Jobs,
             \/ SaveFailed(j) \/ AlertPublished(j) \/ RecordRiskLevel(j)
             \/ StoreActions(j) \/ PublishActions(j) \/ UnhandledRejection(j)
      PROVE  StoredIsLatest'
  BY <1>3, <1>4 DEF SaveFailed, AlertPublished, RecordRiskLevel, StoreActions,
     PublishActions, UnhandledRejection, published
<1>5. ASSUME NEW j \in Jobs, NEW g \in Gates, OnSignalEvent(j, g) \/ ScheduledTick(j, g)
      PROVE  StoredIsLatest'
  BY <1>3, <1>5 DEF OnSignalEvent, ScheduledTick, published
<1>6. ASSUME NEW n \in 1 .. Len(commands), NEW failed \in SUBSET Jobs,
             SaveReplies(n, failed)
      PROVE  StoredIsLatest'
  BY <1>3, <1>6 DEF SaveReplies, published
<1>7. ASSUME NEW g \in Gates, NEW t \in ActionTypes, ExecuteAction(g, t)
      PROVE  StoredIsLatest'
  BY <1>3, <1>7 DEF ExecuteAction, published
<1>8. CASE Stop \/ UNCHANGED vars
  BY <1>3, <1>8 DEF Stop, published, vars
<1> QED
  BY <1>1, <1>2, <1>4, <1>5, <1>6, <1>7, <1>8 DEF Next, Continue, RedisAnswers

(* Whose turn it is changes nothing a client is told or shown.             *)
LEMMA QuietStep ==
    ASSUME ToldInv,
           UNCHANGED <<told, sockets, dashboardActions, overlapped>>,
           up' => up /\ forecastStore' = forecastStore,
           \A j \in Jobs, g \in Gates :
               HandlerAt(j, g, {"alerting", "alerted"})
               => HandlerAt(j, g, {"alerting", "alerted"})'
    PROVE  ToldInv'
<1> SUFFICES ASSUME NEW c \in Clients, NEW g \in Gates, told[c].current
             PROVE  /\ sockets[c] = "OPEN"
                    /\ told[c].lists[g] = dashboardActions[g]
                    /\ ScoreToldOrDue(c, g)'
  BY DEF ToldInv
<1>1. /\ sockets[c] = "OPEN"
      /\ told[c].lists[g] = dashboardActions[g]
      /\ ScoreToldOrDue(c, g)
  BY DEF ToldInv
<1>2. Announcing(g) => Announcing(g)'
  BY DEF Announcing
<1> QED
  BY <1>1, <1>2 DEF ScoreToldOrDue

(* Publishing starts a handler that will tell.                             *)
LEMMA ToldByPublishing ==
    ASSUME TypeOK, DashboardTypeOK, ToldInv, NEW j \in Jobs, ForecastPublished(j)
    PROVE  ToldInv'
<1>0. PICK gate \in Gates : gate = job[j].gate
  BY ScoresAreScores DEF JobRecord
<1>1. PublishForecast(j)
  BY DEF ForecastPublished
<1>2. /\ pc[j] = "saved"
      /\ pc'[j] \in {"alerting", "alerted"}
      /\ job'[j].gate = gate
      /\ \A k \in Jobs \ {j} : pc'[k] = pc[k] /\ job'[k] = job[k]
      /\ UNCHANGED dashboardActions
  BY <1>0, <1>1, ScoresAreScores
  DEF PublishForecast, Running, Await, TypeOK, JobRecord, actionLists
<1>3. /\ \A g \in Gates \ {gate} : forecastStore'[g] = forecastStore[g]
      /\ \A g \in Gates \ {gate} : overlapped'[g] = overlapped[g]
      /\ up' = up
  BY <1>0, <1>1 DEF PublishForecast, TypeOK
<1>4. \A c \in Clients : /\ told'[c].scores = told[c].scores
                         /\ told'[c].lists = told[c].lists
                         /\ told'[c].current = told[c].current
  BY DEF ForecastPublished, AlertSent, DashboardTypeOK, Told
<1>5. ASSUME NEW c \in Clients, NEW g \in Gates, told'[c].current
      PROVE  ScoreToldOrDue(c, g)'
  <2>1. CASE g = gate
    BY <1>2, <2>1 DEF ScoreToldOrDue, Announcing, HandlerAt
  <2>2. CASE g # gate
    <3>1. Announcing(g) => Announcing(g)'
      BY <1>2 DEF Announcing, HandlerAt
    <3>2. ScoreToldOrDue(c, g)
      BY <1>4, <1>5 DEF ToldInv
    <3> QED
      BY <1>3, <1>4, <2>2, <3>1, <3>2 DEF ScoreToldOrDue
  <2> QED
    BY <2>1, <2>2
<1>6. UNCHANGED sockets
  BY DEF ForecastPublished
<1> QED
  BY <1>2, <1>4, <1>5, <1>6 DEF ToldInv

(* The handler tells the score that is stored, if it is the only one.      *)
LEMMA ToldByHandler ==
    ASSUME TypeOK, HandlerInv, StoredIsLatest, DashboardTypeOK, HubHoldsLiveStaff,
           ToldInv, NEW j \in Jobs, ScoreShown(j)
    PROVE  ToldInv'
<1>0. PICK gate \in Gates : gate = job[j].gate
  BY ScoresAreScores DEF JobRecord
<1>1. /\ pc[j] = "alerted"
      /\ \A k \in Jobs \ {j} : pc'[k] = pc[k]
      /\ UNCHANGED <<job, dashboardActions, forecastStore, overlapped, up, sockets>>
  BY DEF ScoreShown, RecordRiskLevel, Running, Await, TypeOK, published, actionLists
<1>2. \A c \in Clients : /\ told'[c].lists = told[c].lists
                         /\ told'[c].current = told[c].current
                         /\ \A g \in Gates \ {gate} : told'[c].scores[g] = told[c].scores[g]
  BY <1>0 DEF ScoreShown, ScoreSent, DashboardTypeOK, Told
<1>3. ASSUME NEW c \in Clients, told[c].current
      PROVE  told'[c].scores[gate] = job[j].score
  <2>1. c \in Reached
    BY <1>0, <1>3 DEF ToldInv, HubHoldsLiveStaff, Reached
  <2>2. told'[c] = [told[c] EXCEPT !.scores[gate] = job[j].score]
    BY <1>0, <2>1 DEF ScoreShown, ScoreSent
  <2>3. told[c] \in Told
    BY DEF DashboardTypeOK
  <2> QED
    BY <2>2, <2>3 DEF Told
<1>4. ASSUME up, ~overlapped[gate]
      PROVE  forecastStore[gate].score = job[j].score
  <2>1. HandlesLatest(gate)
    BY <1>4 DEF HandlerInv, GateInv
  <2>2. HandlerAt(j, gate, Handling)
    BY <1>0, <1>1 DEF HandlerAt, Handling
  <2> QED
    BY <1>4, <2>1, <2>2 DEF HandlesLatest, StoredIsLatest
<1>5. ASSUME NEW c \in Clients, NEW g \in Gates, told[c].current
      PROVE  ScoreToldOrDue(c, g)'
  <2>1. CASE g = gate
    BY <1>1, <1>3, <1>4, <1>5, <2>1 DEF ScoreToldOrDue
  <2>2. CASE g # gate
    <3>1. Announcing(g) => Announcing(g)'
      BY <1>0, <1>1, <2>2 DEF Announcing, HandlerAt
    <3>2. ScoreToldOrDue(c, g)
      BY <1>5 DEF ToldInv
    <3> QED
      BY <1>1, <1>2, <2>2, <3>1, <3>2 DEF ScoreToldOrDue
  <2> QED
    BY <2>1, <2>2
<1> QED
  BY <1>1, <1>2, <1>5 DEF ToldInv

(* The actions that are published are the actions that are told.           *)
LEMMA ToldOfActions ==
    ASSUME TypeOK, DashboardTypeOK, HubHoldsLiveStaff, ToldInv, NEW j \in Jobs,
           ActionsShown(j)
    PROVE  ToldInv'
<1> DEFINE list == GenerateRecommendations(job[j].row, job[j].score)
<1>0. PICK gate \in Gates : gate = job[j].gate
  BY ScoresAreScores DEF JobRecord
<1>1. /\ pc[j] = "stored"
      /\ \A k \in Jobs \ {j} : pc'[k] = pc[k] /\ job'[k] = job[k]
      /\ UNCHANGED <<forecastStore, overlapped, up, sockets>>
      /\ dashboardActions' = [dashboardActions EXCEPT ![gate] = list]
      /\ ActionsSent(gate, list)
  BY <1>0 DEF ActionsShown, PublishActions, Running, Return, TypeOK, published
<1> HIDE DEF list
<1>2. \A c \in Clients : /\ told'[c].scores = told[c].scores
                         /\ told'[c].current = told[c].current
  BY <1>1 DEF ActionsSent, DashboardTypeOK, Told
<1>3. ASSUME NEW c \in Clients, NEW g \in Gates, told[c].current
      PROVE  told'[c].lists[g] = dashboardActions'[g]
  <2>1. c \in Reached
    BY <1>3 DEF ToldInv, HubHoldsLiveStaff, Reached
  <2>2. told'[c] = [told[c] EXCEPT !.lists[gate] = list]
    BY <1>1, <2>1 DEF ActionsSent
  <2>3. told[c] \in Told /\ dashboardActions \in [Gates -> ActionList]
    BY DEF DashboardTypeOK, TypeOK
  <2>4. told[c].lists[g] = dashboardActions[g]
    BY <1>3 DEF ToldInv
  <2> QED
    BY <1>1, <2>2, <2>3, <2>4 DEF Told
<1>4. ASSUME NEW c \in Clients, NEW g \in Gates, told[c].current
      PROVE  ScoreToldOrDue(c, g)'
  <2>1. Announcing(g) => Announcing(g)'
    BY <1>1 DEF Announcing, HandlerAt
  <2>2. ScoreToldOrDue(c, g)
    BY <1>4 DEF ToldInv
  <2> QED
    BY <1>1, <1>2, <2>1, <2>2 DEF ScoreToldOrDue
<1> QED
  BY <1>1, <1>2, <1>3, <1>4 DEF ToldInv

LEMMA ToldInvStep ==
    /\ TypeOK
    /\ HandlerInv
    /\ HandlersQueued
    /\ StoredIsLatest
    /\ DashboardTypeOK
    /\ HubHoldsLiveStaff
    /\ ToldInv
    /\ [LiveNext]_liveVars
    => ToldInv'
<1> SUFFICES ASSUME TypeOK, HandlerInv, HandlersQueued, StoredIsLatest, DashboardTypeOK,
                    HubHoldsLiveStaff, ToldInv, [LiveNext]_liveVars
             PROVE  ToldInv'
  OBVIOUS
<1> DEFINE HandlersStay ==
        \A j \in Jobs, g \in Gates :
            HandlerAt(j, g, {"alerting", "alerted"})
            => HandlerAt(j, g, {"alerting", "alerted"})'
<1>1. ASSUME HandlersStay, UNCHANGED <<told, sockets, dashboardActions, overlapped>>,
             up' => up /\ forecastStore' = forecastStore
      PROVE  ToldInv'
  BY <1>1, QuietStep
<1>2. CASE Unseen
  <2>1. ASSUME NEW j \in Jobs, NEW g \in Gates, OnSignalEvent(j, g) \/ ScheduledTick(j, g)
        PROVE  ToldInv'
    <3>1. HandlersStay
      BY <2>1 DEF OnSignalEvent, ScheduledTick, Recompute, HandlerAt, TypeOK
    <3> QED
      BY <1>1, <1>2, <2>1, <3>1
      DEF OnSignalEvent, ScheduledTick, Unseen, dashboard, published, actionLists
  <2>2. ASSUME NEW n \in 1 .. Len(commands), NEW failed \in SUBSET Jobs,
               SaveReplies(n, failed)
        PROVE  ToldInv'
    <3>1. HandlersStay
      BY <2>2, NoHandlerAtTurn DEF SaveReplies, Turn, HandlerAt, Handling
    <3> QED
      BY <1>1, <1>2, <2>2, <3>1 DEF SaveReplies, Unseen, dashboard, published, actionLists
  <2>3. ASSUME NEW j \in Jobs,
               \/ SaveFailed(j) \/ UnhandledRejection(j) \/ PublishToNobody(j)
               \/ AlertPublished(j) \/ StoreActions(j)
        PROVE  ToldInv'
    <3>1. HandlersStay
      BY <2>3 DEF SaveFailed, UnhandledRejection, PublishToNobody, AlertPublished,
         StoreActions, Running, Await, Return, HandlerAt, TypeOK
    <3>2. UNCHANGED <<dashboardActions, overlapped>>
      BY <2>3 DEF SaveFailed, UnhandledRejection, PublishToNobody, AlertPublished,
         StoreActions, published, actionLists
    <3>3. up' => up /\ forecastStore' = forecastStore
      BY <2>3 DEF SaveFailed, UnhandledRejection, PublishToNobody, AlertPublished,
         StoreActions, published, actionLists
    <3> QED
      BY <1>1, <1>2, <3>1, <3>2, <3>3 DEF Unseen, dashboard
  <2>4. CASE Stop
    <3>1. HandlersStay
      BY <2>4 DEF Stop, eventLoop, HandlerAt
    <3> QED
      BY <1>1, <1>2, <2>4, <3>1 DEF Stop, Unseen, dashboard, published, actionLists
  <2> QED
    BY <1>2, <2>1, <2>2, <2>3, <2>4 DEF Unseen, RedisAnswers
<1>3. ASSUME UNCHANGED <<eventLoop, dashboardActions, published, up>>
      PROVE  HandlersStay
  BY <1>3 DEF HandlerAt, eventLoop
<1>4. ASSUME NEW c \in Clients, NEW g \in Gates, NEW t \in ActionTypes, Execute(c, g, t)
      PROVE  ToldInv'
  BY <1>1, <1>3, <1>4 DEF Execute, ExecuteAction, dashboard, published
<1>5. CASE UNCHANGED liveVars
  BY <1>1, <1>3, <1>5 DEF liveVars, vars, dashboard, eventLoop, published
<1>6. ASSUME NEW c \in Clients, NEW g \in Gates, NEW row \in 1 .. MaxRuns,
             AcknowledgeAlert(c, g, row)
      PROVE  ToldInv'
  BY <1>1, <1>3, <1>6 DEF AcknowledgeAlert, vars, eventLoop, published
<1> HIDE DEF HandlersStay
<1>7. ASSUME NEW c \in Clients, UNCHANGED vars,
             \A d \in Clients \ {c} : told'[d] = told[d] /\ sockets'[d] = sockets[d],
             told'[c].current =>
                 /\ sockets'[c] = "OPEN"
                 /\ \A g \in Gates : /\ told'[c].lists[g] = dashboardActions[g]
                                     /\ \/ told'[c].scores[g] = forecastStore[g].score
                                        \/ told[c].current
                                           /\ told'[c].scores[g] = told[c].scores[g]
      PROVE  ToldInv'
  <2>1. \A g \in Gates : Announcing(g)' <=> Announcing(g)
    BY <1>7 DEF Announcing, HandlerAt, vars
  <2> SUFFICES ASSUME NEW d \in Clients, NEW g \in Gates, told'[d].current
               PROVE  /\ sockets'[d] = "OPEN"
                      /\ told'[d].lists[g] = dashboardActions'[g]
                      /\ ScoreToldOrDue(d, g)'
    BY DEF ToldInv
  <2>2. CASE d = c
    BY <1>7, <2>1, <2>2 DEF ToldInv, ScoreToldOrDue, vars
  <2>3. CASE d # c
    BY <1>7, <2>1, <2>3 DEF ToldInv, ScoreToldOrDue, vars
  <2> QED
    BY <2>2, <2>3
<1>8. ASSUME NEW c \in Clients, Connect(c) \/ Closing(c)
      PROVE  ToldInv'
  <2>1. ~told'[c].current
    BY <1>8 DEF Connect, Closing, DashboardTypeOK, Told
  <2> QED
    BY <1>7, <1>8, <2>1 DEF Connect, Closing, DashboardTypeOK
<1>9. ASSUME NEW c \in Clients, SocketError(c) \/ Closed(c)
      PROVE  ToldInv'
  <2>1. ~told[c].current
    BY <1>9, GatesAssumption DEF SocketError, Closed, ToldInv
  <2> QED
    BY <1>7, <1>9, <2>1 DEF SocketError, Closed, DashboardTypeOK
<1>10. ASSUME NEW c \in Clients, LoadSnapshot(c)
       PROVE  ToldInv'
  <2>1. /\ told'[c].current = (sockets[c] = "OPEN")
        /\ told'[c].lists = dashboardActions
        /\ \A g \in Gates : told'[c].scores[g] = forecastStore[g].score
    BY <1>10 DEF LoadSnapshot, DashboardTypeOK, Told
  <2>2. /\ UNCHANGED <<vars, sockets>>
        /\ \A d \in Clients \ {c} : told'[d] = told[d]
    BY <1>10 DEF LoadSnapshot, DashboardTypeOK
  <2> QED
    BY <1>7, <2>1, <2>2
<1> QED
  BY <1>2, <1>4, <1>5, <1>6, <1>8, <1>9, <1>10, ToldByPublishing, ToldByHandler, ToldOfActions
  DEF LiveNext

(* Snapshot and stream together keep a client up to date: the handler that *)
(* changes a score or a list is the one that tells it (pipeline.ts:252-    *)
(* 264), and it does so before the event loop turns.                       *)
THEOREM StreamIsSound == LiveSpec => []StreamKeepsClientsCurrent
<1> DEFINE Inv == LiveInv /\ HandlersQueued /\ StoredIsLatest /\ ToldInv
<1>1. LiveInit => HandlersQueued /\ StoredIsLatest /\ ToldInv
  <2> SUFFICES ASSUME LiveInit PROVE HandlersQueued /\ StoredIsLatest /\ ToldInv
    OBVIOUS
  <2>1. HandlersQueued
    BY DEF LiveInit, Init, HandlersQueued, Handling
  <2>2. StoredIsLatest
    BY DEF LiveInit, Init, StoredIsLatest, LatestScore, NoForecast
  <2>3. ToldInv
    BY DEF LiveInit, ToldNothing, ToldInv
  <2> QED
    BY <2>1, <2>2, <2>3
<1>2. /\ LiveInv /\ HandlersQueued /\ StoredIsLatest /\ ToldInv
      /\ [LiveNext]_liveVars
      => HandlersQueued' /\ StoredIsLatest' /\ ToldInv'
  BY StepsOfPipeline, HandlersQueuedStep, StoredIsLatestStep, ToldInvStep
  DEF LiveInv, PipelineInv
<1>3. HandlersQueued /\ ToldInv => StreamKeepsClientsCurrent
  <2> SUFFICES ASSUME HandlersQueued, ToldInv, Turn, up,
                      NEW c \in Clients, NEW g \in Gates, told[c].current
               PROVE  /\ told[c].lists[g] = dashboardActions[g]
                      /\ overlapped[g] \/ told[c].scores[g] = forecastStore[g].score
    BY DEF StreamKeepsClientsCurrent
  <2>1. ~Announcing(g)
    BY NoHandlerAtTurn DEF Turn, Announcing, HandlerAt, Handling
  <2> QED
    BY <2>1 DEF ToldInv, ScoreToldOrDue
<1> QED
  BY <1>1, <1>2, <1>3, LiveInvHolds, PTL DEF LiveSpec
=============================================================================
