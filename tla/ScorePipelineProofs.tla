------------------------- MODULE ScorePipelineProofs -------------------------
(***************************************************************************)
(* Theorems about ScorePipeline, for any gates, number of recomputes in    *)
(* flight, scores, action types and bounds.                                *)
(*                                                                         *)
(* AlertsExactUnlessOverlapped and ActionsFollowForecast are not inductive *)
(* by themselves: what a handler writes depends on what it read one or     *)
(* more awaits earlier.  HandlerInv adds what ties the two together: while *)
(* the handlers of a gate have not overlapped there is at most one, it     *)
(* works on the last audited score, and each thing it is still to write is *)
(* the only thing that may be out of date.                                 *)
(***************************************************************************)
EXTENDS ScorePipeline, SequenceTheorems, TLAPS

(* A list of actions is the one due for the latest score of its gate.      *)
ListIsCurrent(list, g) ==
    /\ list.of = Len(scoreAudit[g])
    /\ list.offered = {} <=> DeriveRiskLevel(LatestScore(g)) = "LOW"

(* Job j is a handler of gate g suspended at one of the points `at`.       *)
HandlerAt(j, g, at) == pc[j] \in at /\ job[j].gate = g

OneHandler(g) ==
    \A j, k \in Jobs : HandlerAt(j, g, Handling) /\ HandlerAt(k, g, Handling) => j = k

HandlesLatest(g) ==
    \A j \in Jobs : HandlerAt(j, g, Handling) =>
        /\ scoreAudit[g] # <<>>
        /\ job[j].row = Len(scoreAudit[g])
        /\ job[j].score = LatestScore(g)

LevelRecorded(g) ==
    \/ \E j \in Jobs : HandlerAt(j, g, {"alerting", "alerted"})
    \/ previousRiskLevel[g] = DeriveRiskLevel(LatestScore(g))

ActionsStored(g) ==
    \/ \E j \in Jobs : HandlerAt(j, g, {"alerting", "alerted", "windowed"})
    \/ ListIsCurrent(activeActions[g], g)

ActionsPublished(g) ==
    \/ \E j \in Jobs : HandlerAt(j, g, Handling)
    \/ ListIsCurrent(dashboardActions[g], g)

GateInv(g) ==
    /\ alerts[g] = AlertsDue(g)
    /\ OneHandler(g)
    /\ HandlesLatest(g)
    /\ LevelRecorded(g)
    /\ ActionsStored(g)
    /\ ActionsPublished(g)

(* Exactly the jobs waiting for Redis have a command in flight, one each.  *)
CommandsInv ==
    /\ \A i \in 1 .. Len(commands) : pc[commands[i]] = "saving"
    /\ \A i, k \in 1 .. Len(commands) : commands[i] = commands[k] => i = k

HandlerInv == \A g \in Gates : ~overlapped[g] => GateInv(g)

-----------------------------------------------------------------------------
(* deriveRiskLevel is defined on every score the clamp lets through.       *)
LEMMA RiskLevelType == \A s \in Score : DeriveRiskLevel(s) \in RiskLevel
BY DEF Score, DeriveRiskLevel, RiskLevel

(* The default record of a free slot is a job record.                      *)
LEMMA NoJobType == NoJob \in JobRecord
<1>1. (CHOOSE g \in Gates : TRUE) \in Gates
  BY GatesAssumption
<1>2. (CHOOSE s \in Scores : TRUE) \in Scores
  BY ScoresAssumption
<1>3. 0 \in 0 .. MaxSignals
  BY BoundsAssumption
<1> QED  BY <1>1, <1>2, <1>3 DEF NoJob, JobRecord

(* The three ways a continuation leaves the queue keep its state typed.    *)
LEMMA LoopType ==
    ASSUME TypeOK, NEW j \in Jobs, NEW from, Running(j, from),
           \/ (\E at \in Suspended : Await(j, at)) /\ job' \in [Jobs -> JobRecord]
           \/ Return(j)
    PROVE  /\ microtasks' \in Seq(Jobs)
           /\ commands' \in Seq(Jobs)
           /\ pc' \in [Jobs -> Suspended]
           /\ job' \in [Jobs -> JobRecord]
<1>1. Tail(microtasks) \in Seq(Jobs)
  BY DEF TypeOK, Running
<1>2. CASE Return(j)
  BY <1>1, <1>2, NoJobType DEF TypeOK, Return, Suspended
<1>3. CASE (\E at \in Suspended : Await(j, at)) /\ job' \in [Jobs -> JobRecord]
  <2>1. PICK at \in Suspended : Await(j, at)
    BY <1>3
  <2>2. Append(Tail(microtasks), j) \in Seq(Jobs)
    BY <1>1
  <2> QED  BY <1>3, <2>1, <2>2 DEF TypeOK, Await
<1> QED  BY <1>2, <1>3

(* The initial state is typed.                                             *)
LEMMA TypeInit == Init => TypeOK
<1> SUFFICES ASSUME Init PROVE TypeOK
  OBVIOUS
<1>1. 0 \in 0 .. MaxSignals /\ 0 \in 0 .. MaxRuns
  BY BoundsAssumption
<1>2. EmptyList \in ActionList
  BY DEF EmptyList, ActionList
<1>3. job \in [Jobs -> JobRecord]
  BY NoJobType DEF Init
<1>4. "LOW" \in RiskLevel /\ "idle" \in Suspended
  BY DEF RiskLevel, Suspended
<1> QED  BY <1>1, <1>2, <1>3, <1>4 DEF Init, TypeOK

(* Every step keeps the state typed, one step of the proof per action.     *)
LEMMA TypeStep == TypeOK /\ [Next]_vars => TypeOK'
<1> SUFFICES ASSUME TypeOK, [Next]_vars PROVE TypeOK'
  OBVIOUS
<1> USE DEF published, actionLists, eventLoop
<1>1. ASSUME NEW j \in Jobs, NEW g \in Gates, OnSignalEvent(j, g) PROVE TypeOK'
  <2>1. window[g] + 1 \in 0 .. MaxSignals /\ runs + 1 \in 0 .. MaxRuns
    BY <1>1, BoundsAssumption DEF OnSignalEvent, Recompute, TypeOK
  <2>2. job' \in [Jobs -> JobRecord]
    BY <1>1, <2>1 DEF OnSignalEvent, Recompute, ComputeForecast, TypeOK, JobRecord
  <2>3. commands' \in Seq(Jobs)
    BY <1>1 DEF OnSignalEvent, Recompute, TypeOK
  <2> QED  BY <1>1, <2>1, <2>2, <2>3 DEF OnSignalEvent, Recompute, TypeOK, Suspended
<1>2. ASSUME NEW j \in Jobs, NEW g \in Gates, ScheduledTick(j, g) PROVE TypeOK'
  <2>1. window[g] \in 0 .. MaxSignals /\ runs + 1 \in 0 .. MaxRuns
    BY <1>2, BoundsAssumption DEF ScheduledTick, Recompute, TypeOK
  <2>2. job' \in [Jobs -> JobRecord]
    BY <1>2, <2>1 DEF ScheduledTick, Recompute, ComputeForecast, TypeOK, JobRecord
  <2>3. commands' \in Seq(Jobs)
    BY <1>2 DEF ScheduledTick, Recompute, TypeOK
  <2> QED  BY <1>2, <2>1, <2>2, <2>3 DEF ScheduledTick, Recompute, TypeOK, Suspended
<1>3. ASSUME NEW n \in 1 .. Len(commands), NEW failed \in SUBSET Jobs,
             SaveReplies(n, failed)
      PROVE  TypeOK'
  <2>1. n + 1 \in Nat \ {0} /\ n \in Nat /\ Len(commands) \in Nat
    BY DEF TypeOK
  <2>2. SubSeq(commands, 1, n) \in Seq(Jobs)
    BY <2>1, SubSeqProperties DEF TypeOK
  <2>3. SubSeq(commands, n + 1, Len(commands)) \in Seq(Jobs)
    BY <2>1, SubSeqProperties DEF TypeOK
  <2> QED  BY <1>3, <2>2, <2>3 DEF SaveReplies, TypeOK, Suspended
<1>4. ASSUME NEW j \in Jobs, UnhandledRejection(j) PROVE TypeOK'
  BY <1>4, NoJobType DEF UnhandledRejection, TypeOK, Suspended
<1>5. ASSUME NEW j \in Jobs, SaveFailed(j) PROVE TypeOK'
  <2>1. Tail(microtasks) \in Seq(Jobs)
    BY <1>5 DEF SaveFailed, Running, TypeOK
  <2>2. CASE job[j].tick
    BY <1>5, <2>1, <2>2 DEF SaveFailed, TypeOK, Suspended
  <2>3. CASE ~job[j].tick
    <3>1. Running(j, "failed") /\ Return(j)
      BY <1>5, <2>3 DEF SaveFailed
    <3> QED  BY <1>5, <3>1, LoopType DEF SaveFailed, TypeOK
  <2> QED  BY <2>2, <2>3
<1>6. ASSUME NEW j \in Jobs, PublishForecast(j) PROVE TypeOK'
  <2> DEFINE g == job[j].gate
             row == Len(scoreAudit[g]) + 1
  <2>1. g \in Gates /\ job[j] \in JobRecord /\ row \in Nat
    BY DEF TypeOK, JobRecord
  <2>2. job' \in [Jobs -> JobRecord]
    BY <1>6, <2>1 DEF PublishForecast, TypeOK, JobRecord
  <2>3. Running(j, "saved") /\ \E at \in Suspended : Await(j, at)
    BY <1>6 DEF PublishForecast, Suspended
  <2>4. /\ microtasks' \in Seq(Jobs) /\ commands' \in Seq(Jobs)
        /\ pc' \in [Jobs -> Suspended]
    BY <2>2, <2>3, LoopType
  <2>5. /\ forecastStore' \in [Gates -> Forecast \cup {NoForecast}]
        /\ forecastsByGate' \in [Gates -> Forecast \cup {NoForecast}]
    BY <1>6, <2>1 DEF PublishForecast, SetLiveForecast, TypeOK, Forecast, JobRecord
  <2>6. scoreAudit' \in [Gates -> Seq(AuditRow)]
    <3>1. [score |-> job[j].score, used |-> job[j].used, named |-> window[g]] \in AuditRow
      BY <2>1 DEF TypeOK, AuditRow, JobRecord
    <3> QED  BY <1>6, <2>1, <3>1 DEF PublishForecast, TypeOK
  <2>7. alerts' \in [Gates -> SUBSET Nat] /\ overlapped' \in [Gates -> BOOLEAN]
    <3>1. alerts' \in [Gates -> SUBSET Nat]
      BY <1>6, <2>1 DEF PublishForecast, TypeOK
    <3>2. overlapped[g] \/ (\E k \in Jobs \ {j} : pc[k] \in Handling /\ job[k].gate = g)
            \in BOOLEAN
      BY <2>1 DEF TypeOK
    <3>3. overlapped' \in [Gates -> BOOLEAN]
      BY <1>6, <2>1, <3>2 DEF PublishForecast, TypeOK
    <3> QED  BY <3>1, <3>3
  <2> QED  BY <1>6, <2>2, <2>4, <2>5, <2>6, <2>7 DEF PublishForecast, TypeOK
<1>7. ASSUME NEW j \in Jobs, PublishToNobody(j) PROVE TypeOK'
  <2>1. job[j] \in JobRecord
    BY DEF TypeOK
  <2>2. forecastStore' \in [Gates -> Forecast \cup {NoForecast}]
    BY <1>7, <2>1 DEF PublishToNobody, TypeOK, Forecast, JobRecord
  <2>3. Running(j, "saved") /\ Return(j)
    BY <1>7 DEF PublishToNobody
  <2> QED  BY <1>7, <2>2, <2>3, LoopType DEF PublishToNobody, TypeOK
<1>8. ASSUME NEW j \in Jobs, AlertPublished(j) PROVE TypeOK'
  <2>1. Running(j, "alerting") /\ Await(j, "alerted") /\ "alerted" \in Suspended
        /\ job' \in [Jobs -> JobRecord]
    BY <1>8 DEF AlertPublished, Suspended, TypeOK
  <2> QED  BY <1>8, <2>1, LoopType DEF AlertPublished, TypeOK
<1>9. ASSUME NEW j \in Jobs, RecordRiskLevel(j) PROVE TypeOK'
  <2>1. Running(j, "alerted") /\ Await(j, "windowed") /\ "windowed" \in Suspended
        /\ job' \in [Jobs -> JobRecord]
    BY <1>9 DEF RecordRiskLevel, Suspended, TypeOK
  <2>2. DeriveRiskLevel(job[j].score) \in RiskLevel
    BY RiskLevelType, ScoresAssumption DEF TypeOK, JobRecord
  <2> QED  BY <1>9, <2>1, <2>2, LoopType DEF RecordRiskLevel, TypeOK
<1>10. ASSUME NEW j \in Jobs, StoreActions(j) PROVE TypeOK'
  <2>1. Running(j, "windowed") /\ Await(j, "stored") /\ "stored" \in Suspended
        /\ job' \in [Jobs -> JobRecord]
    BY <1>10 DEF StoreActions, Suspended, TypeOK
  <2>2. GenerateRecommendations(job[j].row, job[j].score) \in ActionList
    BY DEF GenerateRecommendations, ActionList, TypeOK, JobRecord
  <2> QED  BY <1>10, <2>1, <2>2, LoopType DEF StoreActions, TypeOK
<1>11. ASSUME NEW j \in Jobs, PublishActions(j) PROVE TypeOK'
  <2>1. Running(j, "stored") /\ Return(j)
    BY <1>11 DEF PublishActions
  <2>2. GenerateRecommendations(job[j].row, job[j].score) \in ActionList
    BY DEF GenerateRecommendations, ActionList, TypeOK, JobRecord
  <2> QED  BY <1>11, <2>1, <2>2, LoopType DEF PublishActions, TypeOK
<1>12. ASSUME NEW g \in Gates, NEW t \in ActionTypes, ExecuteAction(g, t) PROVE TypeOK'
  <2> DEFINE list == activeActions[g]
             executed == [list EXCEPT !.executed = @ \cup {t}]
  <2>1. list \in ActionList
    BY DEF TypeOK
  <2>2. executed \in ActionList
    BY <2>1 DEF ActionList
  <2>3. activeActions' = [activeActions EXCEPT ![g] = executed]
    BY <1>12 DEF ExecuteAction
  <2> HIDE DEF list, executed
  <2>4. activeActions' \in [Gates -> ActionList]
    BY <2>2, <2>3 DEF TypeOK
  <2> QED
    BY <1>12, <2>4 DEF ExecuteAction, TypeOK
<1>13. CASE Stop
  BY <1>13 DEF Stop, TypeOK
<1>14. CASE UNCHANGED vars
  BY <1>14 DEF vars, TypeOK
<1> QED
  BY <1>1, <1>2, <1>3, <1>4, <1>5, <1>6, <1>7, <1>8, <1>9, <1>10, <1>11, <1>12,
     <1>13, <1>14
  DEF Next, Continue, RedisAnswers

(* Every reachable state is typed, whatever the constants.                 *)
THEOREM TypeCorrect == Spec => []TypeOK
BY TypeInit, TypeStep, PTL DEF Spec

-----------------------------------------------------------------------------
(* Nothing that GateInv(g) speaks of is changed by a step: neither the     *)
(* gate's own data nor a handler of the gate.                              *)
Untouched(g) ==
    /\ alerts'[g] = alerts[g]
    /\ scoreAudit'[g] = scoreAudit[g]
    /\ previousRiskLevel'[g] = previousRiskLevel[g]
    /\ activeActions'[g].of = activeActions[g].of
    /\ activeActions'[g].offered = activeActions[g].offered
    /\ dashboardActions'[g] = dashboardActions[g]
    /\ \A k \in Jobs :
          \/ pc[k] \in Handling /\ job[k].gate = g
          \/ pc'[k] \in Handling /\ job'[k].gate = g
          => pc'[k] = pc[k] /\ job'[k] = job[k]

(* Such a step keeps the invariant of the gate.                            *)
LEMMA UntouchedStep ==
    ASSUME NEW g \in Gates, GateInv(g), Untouched(g)
    PROVE  GateInv(g)'
<1>1. AlertsDue(g)' = AlertsDue(g) /\ LatestScore(g)' = LatestScore(g)
  BY DEF Untouched, AlertsDue, LatestScore
<1>2. \A at \in SUBSET Handling : \A k \in Jobs : HandlerAt(k, g, at)' <=> HandlerAt(k, g, at)
  BY DEF Untouched, HandlerAt
<1>3. /\ Handling \in SUBSET Handling
      /\ {"alerting", "alerted"} \in SUBSET Handling
      /\ {"alerting", "alerted", "windowed"} \in SUBSET Handling
  BY DEF Handling
<1>4. alerts'[g] = AlertsDue(g)'
  BY <1>1 DEF GateInv, Untouched
<1>5. OneHandler(g)'
  BY <1>2, <1>3 DEF GateInv, OneHandler
<1>6. HandlesLatest(g)'
  BY <1>1, <1>2, <1>3 DEF GateInv, HandlesLatest, Untouched, HandlerAt
<1>7. LevelRecorded(g)'
  BY <1>1, <1>2, <1>3 DEF GateInv, LevelRecorded, Untouched
<1>8. ActionsStored(g)'
  BY <1>1, <1>2, <1>3 DEF GateInv, ActionsStored, ListIsCurrent, Untouched
<1>9. ActionsPublished(g)'
  BY <1>1, <1>2, <1>3 DEF GateInv, ActionsPublished, ListIsCurrent, Untouched
<1> QED  BY <1>4, <1>5, <1>6, <1>7, <1>8, <1>9 DEF GateInv

(* Auditing one more score adds an alert that is due exactly when the      *)
(* score is severe and the latest one was not.                             *)
LEMMA AlertsDueAppend ==
    ASSUME TypeOK, NEW g \in Gates, NEW row \in AuditRow,
           scoreAudit'[g] = Append(scoreAudit[g], row)
    PROVE  /\ LatestScore(g)' = row.score
           /\ Len(scoreAudit'[g]) = Len(scoreAudit[g]) + 1
           /\ scoreAudit'[g] # <<>>
           /\ AlertsDue(g)' = AlertsDue(g) \cup
                (IF Severe(row.score) /\ ~Severe(LatestScore(g))
                 THEN {Len(scoreAudit[g]) + 1} ELSE {})
<1> DEFINE s == scoreAudit[g]
           n == Len(s)
<1>1. s \in Seq(AuditRow) /\ n \in Nat
  BY DEF TypeOK
<1>2. /\ Len(Append(s, row)) = n + 1
      /\ Append(s, row)[n + 1] = row
      /\ \A i \in 1 .. n : Append(s, row)[i] = s[i]
      /\ Append(s, row) # <<>>
  BY <1>1
<1>3. LatestScore(g)' = row.score
  BY <1>2 DEF LatestScore
<1>4. ~Severe(0)
  BY DEF Severe, DeriveRiskLevel, HighOrCritical
<1>5. n # 0 => LatestScore(g) = s[n].score
  BY <1>1 DEF LatestScore
<1>6. n = 0 => LatestScore(g) = 0
  BY <1>1 DEF LatestScore
<1>7. AlertsDue(g)' =
        {i \in 1 .. n + 1 : /\ Severe(Append(s, row)[i].score)
                            /\ i = 1 \/ ~Severe(Append(s, row)[i - 1].score)}
  BY <1>2 DEF AlertsDue
<1>8. \A i \in 1 .. n : i \in AlertsDue(g)' <=> i \in AlertsDue(g)
  BY <1>1, <1>2, <1>7 DEF AlertsDue
<1>9. n + 1 \in AlertsDue(g)' <=> Severe(row.score) /\ ~Severe(LatestScore(g))
  BY <1>1, <1>2, <1>4, <1>5, <1>6, <1>7
<1>10. AlertsDue(g) \subseteq 1 .. n /\ AlertsDue(g)' \subseteq 1 .. n + 1
  BY <1>7 DEF AlertsDue
<1>11. AlertsDue(g)' = AlertsDue(g) \cup
                (IF Severe(row.score) /\ ~Severe(LatestScore(g)) THEN {n + 1} ELSE {})
  BY <1>1, <1>8, <1>9, <1>10
<1> QED  BY <1>2, <1>3, <1>11

-----------------------------------------------------------------------------
(* No handler runs and nothing was audited in the initial state.           *)
LEMMA HandlerInit == Init => HandlerInv
<1> SUFFICES ASSUME Init, NEW g \in Gates PROVE GateInv(g)
  BY DEF HandlerInv
<1>1. \A j \in Jobs : pc[j] \notin Handling
  BY DEF Init, Handling
<1>2. AlertsDue(g) = {} /\ LatestScore(g) = 0 /\ Len(scoreAudit[g]) = 0
  BY DEF Init, AlertsDue, LatestScore
<1>3. DeriveRiskLevel(0) = "LOW"
  BY DEF DeriveRiskLevel
<1>4. ListIsCurrent(activeActions[g], g) /\ ListIsCurrent(dashboardActions[g], g)
  BY <1>2, <1>3 DEF ListIsCurrent, Init, EmptyList
<1> QED
  BY <1>1, <1>2, <1>3, <1>4
  DEF GateInv, OneHandler, HandlesLatest, HandlerAt, LevelRecorded, ActionsStored,
      ActionsPublished, Init

(* A step of the event loop outside the handlers leaves every gate alone.  *)
LEMMA OutsideHandlers ==
    ASSUME TypeOK, HandlerInv, overlapped' = overlapped,
           \A g \in Gates : GateInv(g) => Untouched(g)
    PROVE  HandlerInv'
BY UntouchedStep DEF HandlerInv

(* The handler of one gate leaves every other gate alone.                  *)
LEMMA OtherGate ==
    ASSUME TypeOK, NEW j \in Jobs, NEW g \in Gates, g # job[j].gate,
           \A k \in Jobs \ {j} : pc'[k] = pc[k] /\ job'[k] = job[k],
           pc'[j] \in Handling => job'[j].gate = job[j].gate,
           alerts'[g] = alerts[g], scoreAudit'[g] = scoreAudit[g],
           previousRiskLevel'[g] = previousRiskLevel[g],
           activeActions'[g] = activeActions[g],
           dashboardActions'[g] = dashboardActions[g]
    PROVE  Untouched(g)
BY DEF Untouched

(* Publishing a score starts the one handler of its gate, or records that  *)
(* it overlaps another.                                                    *)
LEMMA PublishStep ==
    ASSUME TypeOK, HandlerInv, NEW j \in Jobs, PublishForecast(j)
    PROVE  HandlerInv'
<1>0. PICK g \in Gates : g = job[j].gate
  BY DEF TypeOK, JobRecord
<1> DEFINE at == IF RaisesAlert(previousRiskLevel[g], job[j].score)
                 THEN "alerting" ELSE "alerted"
           entry == [score |-> job[j].score, used |-> job[j].used, named |-> window[g]]
<1>1. g \in Gates /\ job[j] \in JobRecord /\ entry \in AuditRow
  BY <1>0 DEF TypeOK, JobRecord, AuditRow
<1>2. /\ pc[j] = "saved"
      /\ pc' = [pc EXCEPT ![j] = at]
      /\ job' = [job EXCEPT ![j].row = Len(scoreAudit[g]) + 1]
      /\ scoreAudit' = [scoreAudit EXCEPT ![g] = Append(@, entry)]
      /\ UNCHANGED <<previousRiskLevel, activeActions, dashboardActions>>
  BY <1>0 DEF PublishForecast, Await, Running, actionLists
<1>3. /\ job'[j].gate = g /\ job'[j].score = job[j].score
      /\ job'[j].row = Len(scoreAudit[g]) + 1
      /\ pc'[j] = at /\ scoreAudit'[g] = Append(scoreAudit[g], entry)
      /\ \A k \in Jobs \ {j} : pc'[k] = pc[k] /\ job'[k] = job[k]
  BY <1>0, <1>1, <1>2 DEF TypeOK, JobRecord
<1>4. ASSUME NEW h \in Gates, h # g, ~overlapped'[h] PROVE GateInv(h)'
  <2>1. ~overlapped[h] /\ alerts'[h] = alerts[h]
    BY <1>0, <1>1, <1>4 DEF PublishForecast, TypeOK
  <2>2. Untouched(h)
    BY <1>0, <1>1, <1>2, <1>3, <1>4, <2>1, OtherGate DEF TypeOK
  <2> QED  BY <2>1, <2>2, UntouchedStep DEF HandlerInv
<1>5. ASSUME ~overlapped'[g] PROVE GateInv(g)'
  <2>1. /\ ~overlapped[g]
        /\ \A k \in Jobs \ {j} : ~(pc[k] \in Handling /\ job[k].gate = g)
    BY <1>0, <1>1, <1>5 DEF PublishForecast, TypeOK
  <2>2. GateInv(g)
    BY <1>1, <2>1 DEF HandlerInv
  <2>3. \A k \in Jobs : pc[k] \in Handling => job[k].gate # g
    BY <1>2, <2>1 DEF Handling
  <2>4. previousRiskLevel[g] = DeriveRiskLevel(LatestScore(g))
    BY <2>2, <2>3 DEF GateInv, LevelRecorded, HandlerAt, Handling
  <2>5. /\ LatestScore(g)' = job[j].score
        /\ Len(scoreAudit'[g]) = Len(scoreAudit[g]) + 1
        /\ scoreAudit'[g] # <<>>
        /\ AlertsDue(g)' = AlertsDue(g) \cup
                (IF Severe(job[j].score) /\ ~Severe(LatestScore(g))
                 THEN {Len(scoreAudit[g]) + 1} ELSE {})
    BY <1>1, <1>3, AlertsDueAppend
  <2>6. RaisesAlert(previousRiskLevel[g], job[j].score)
          <=> Severe(job[j].score) /\ ~Severe(LatestScore(g))
    BY <2>4 DEF RaisesAlert, Severe
  <2>7. alerts'[g] = AlertsDue(g)'
    <3>1. alerts'[g] = IF RaisesAlert(previousRiskLevel[g], job[j].score)
                       THEN alerts[g] \cup {Len(scoreAudit[g]) + 1} ELSE alerts[g]
      BY <1>0, <1>1 DEF PublishForecast, TypeOK
    <3> QED  BY <2>2, <2>5, <2>6, <3>1 DEF GateInv
  <2>8. at \in {"alerting", "alerted"} /\ at \in Handling
    BY DEF Handling
  <2>9. \A k \in Jobs : HandlerAt(k, g, Handling)' => k = j
    BY <1>3, <2>3 DEF HandlerAt
  <2>10. HandlerAt(j, g, {"alerting", "alerted"})'
         /\ HandlerAt(j, g, {"alerting", "alerted", "windowed"})'
         /\ HandlerAt(j, g, Handling)'
    BY <1>3, <2>8 DEF HandlerAt
  <2>11. OneHandler(g)' /\ HandlesLatest(g)'
    BY <1>3, <2>5, <2>9 DEF OneHandler, HandlesLatest
  <2> QED
    BY <2>7, <2>10, <2>11 DEF GateInv, LevelRecorded, ActionsStored, ActionsPublished
<1> QED  BY <1>4, <1>5 DEF HandlerInv

(* Each later segment of a handler writes one thing and moves past it.     *)
LEMMA SegmentStep ==
    ASSUME TypeOK, HandlerInv, NEW j \in Jobs,
           \/ AlertPublished(j) \/ RecordRiskLevel(j)
           \/ StoreActions(j) \/ PublishActions(j)
    PROVE  HandlerInv'
<1>0. PICK g \in Gates : g = job[j].gate
  BY DEF TypeOK, JobRecord
<1>1. /\ pc[j] \in Handling /\ UNCHANGED <<alerts, scoreAudit, overlapped>>
      /\ \A k \in Jobs \ {j} : pc'[k] = pc[k] /\ job'[k] = job[k]
      /\ pc'[j] \in Handling => job'[j] = job[j]
  BY DEF AlertPublished, RecordRiskLevel, StoreActions, PublishActions, Running, Await,
         Return, Handling, published, TypeOK
<1>2. ASSUME NEW h \in Gates, h # g, ~overlapped'[h] PROVE GateInv(h)'
  <2>1. /\ previousRiskLevel'[h] = previousRiskLevel[h]
        /\ activeActions'[h] = activeActions[h]
        /\ dashboardActions'[h] = dashboardActions[h]
    BY <1>0, <1>2 DEF AlertPublished, RecordRiskLevel, StoreActions, PublishActions,
       actionLists, TypeOK
  <2>2. Untouched(h)
    BY <1>0, <1>1, <1>2, <2>1 DEF Untouched
  <2> QED  BY <1>1, <1>2, <2>2, UntouchedStep DEF HandlerInv
<1>3. ASSUME ~overlapped'[g] PROVE GateInv(g)'
  <2>1. GateInv(g)
    BY <1>1, <1>3 DEF HandlerInv
  <2>2. \A k \in Jobs : HandlerAt(k, g, Handling) => k = j
    BY <1>0, <1>1, <2>1 DEF GateInv, OneHandler, HandlerAt
  <2>3. \A k \in Jobs : HandlerAt(k, g, Handling)' => k = j /\ HandlerAt(j, g, Handling)
    BY <1>0, <1>1, <2>2 DEF HandlerAt
  <2>4. /\ AlertsDue(g)' = AlertsDue(g) /\ LatestScore(g)' = LatestScore(g)
        /\ scoreAudit' = scoreAudit
    BY <1>1 DEF AlertsDue, LatestScore
  <2>5. /\ job[j].row = Len(scoreAudit[g]) /\ job[j].score = LatestScore(g)
        /\ scoreAudit[g] # <<>>
    BY <1>0, <1>1, <2>1 DEF GateInv, HandlesLatest, HandlerAt
  <2>6. alerts'[g] = AlertsDue(g)' /\ OneHandler(g)'
    BY <1>1, <2>1, <2>3, <2>4 DEF GateInv, OneHandler
  <2>7. HandlesLatest(g)'
    BY <1>1, <2>3, <2>4, <2>5 DEF HandlesLatest, HandlerAt
  <2>8. LET list == GenerateRecommendations(job[j].row, job[j].score)
        IN  /\ list.of = Len(scoreAudit[g])
            /\ list.offered = {} <=> DeriveRiskLevel(LatestScore(g)) = "LOW"
    BY <2>5, ActionTypesAssumption DEF GenerateRecommendations
  <2>9. /\ LevelRecorded(g)'
        /\ ActionsStored(g)'
        /\ ActionsPublished(g)'
    <3>1. CASE AlertPublished(j)
      <4>1. HandlerAt(j, g, {"alerting", "alerted"})'
            /\ HandlerAt(j, g, {"alerting", "alerted", "windowed"})'
            /\ HandlerAt(j, g, Handling)'
        BY <1>0, <3>1 DEF AlertPublished, Await, HandlerAt, Handling, TypeOK
      <4> QED  BY <4>1 DEF LevelRecorded, ActionsStored, ActionsPublished
    <3>2. CASE RecordRiskLevel(j)
      <4>1. HandlerAt(j, g, {"alerting", "alerted", "windowed"})'
            /\ HandlerAt(j, g, Handling)'
        BY <1>0, <3>2 DEF RecordRiskLevel, Await, HandlerAt, Handling, TypeOK
      <4>2. previousRiskLevel'[g] = DeriveRiskLevel(LatestScore(g))
        BY <1>0, <3>2, <2>5 DEF RecordRiskLevel, TypeOK
      <4> QED  BY <4>1, <4>2, <2>4 DEF LevelRecorded, ActionsStored, ActionsPublished
    <3>3. CASE StoreActions(j)
      <4>1. pc[j] = "windowed" /\ HandlerAt(j, g, Handling)'
        BY <1>0, <3>3 DEF StoreActions, Running, Await, HandlerAt, Handling, TypeOK
      <4>2. previousRiskLevel'[g] = DeriveRiskLevel(LatestScore(g))
        BY <3>3, <4>1, <2>1, <2>2
        DEF StoreActions, GateInv, LevelRecorded, HandlerAt, Handling
      <4>3. ListIsCurrent(activeActions[g], g)'
        BY <1>0, <3>3, <2>4, <2>8 DEF StoreActions, ListIsCurrent, TypeOK
      <4> QED  BY <4>1, <4>2, <4>3, <2>4 DEF LevelRecorded, ActionsStored, ActionsPublished
    <3>4. CASE PublishActions(j)
      <4>1. pc[j] = "stored"
        BY <3>4 DEF PublishActions, Running
      <4>2. previousRiskLevel'[g] = DeriveRiskLevel(LatestScore(g))
        BY <3>4, <4>1, <2>1, <2>2
        DEF PublishActions, GateInv, LevelRecorded, HandlerAt, Handling
      <4>3. ListIsCurrent(activeActions[g], g)'
        BY <3>4, <4>1, <2>1, <2>2, <2>4
        DEF PublishActions, GateInv, ActionsStored, ListIsCurrent, HandlerAt, Handling
      <4>4. ListIsCurrent(dashboardActions[g], g)'
        BY <1>0, <3>4, <2>4, <2>8 DEF PublishActions, ListIsCurrent, TypeOK
      <4> QED  BY <4>2, <4>3, <4>4, <2>4 DEF LevelRecorded, ActionsStored, ActionsPublished
    <3> QED  BY <3>1, <3>2, <3>3, <3>4
  <2> QED  BY <2>6, <2>7, <2>9 DEF GateInv
<1> QED  BY <1>2, <1>3 DEF HandlerInv

(* The bookkeeping of Redis commands.                                      *)
LEMMA CommandsStep == TypeOK /\ CommandsInv /\ [Next]_vars => CommandsInv'
<1> SUFFICES ASSUME TypeOK, CommandsInv, [Next]_vars PROVE CommandsInv'
  OBVIOUS
<1>0. Len(commands) \in Nat /\ \A i \in 1 .. Len(commands) : commands[i] \in Jobs
  BY DEF TypeOK
<1>1. ASSUME NEW j \in Jobs, pc[j] = "idle", commands' = Append(commands, j),
             pc' = [pc EXCEPT ![j] = "saving"]
      PROVE  CommandsInv'
  <2>1. Len(commands') = Len(commands) + 1 /\ commands'[Len(commands) + 1] = j
        /\ \A i \in 1 .. Len(commands) : commands'[i] = commands[i] /\ commands[i] # j
    BY <1>1, <1>0 DEF TypeOK, CommandsInv
  <2>2. pc'[j] = "saving" /\ \A i \in 1 .. Len(commands) : pc'[commands[i]] = "saving"
    BY <1>0, <1>1, <2>1 DEF TypeOK, CommandsInv
  <2>3. \A i \in 1 .. Len(commands') : i \in 1 .. Len(commands) \/ i = Len(commands) + 1
    BY <1>0, <2>1
  <2>4. \A i \in 1 .. Len(commands') : pc'[commands'[i]] = "saving"
    BY <2>1, <2>2, <2>3
  <2>5. \A i, k \in 1 .. Len(commands') : commands'[i] = commands'[k] => i = k
    BY <2>1, <2>3 DEF CommandsInv
  <2> QED  BY <2>4, <2>5 DEF CommandsInv
<1>2. ASSUME NEW n \in 1 .. Len(commands), NEW failed \in SUBSET Jobs,
             SaveReplies(n, failed)
      PROVE  CommandsInv'
  <2>1. /\ Len(commands') = Len(commands) - n
        /\ \A i \in 1 .. Len(commands) - n : commands'[i] = commands[n + i]
    <3>1. n + 1 \in Nat \ {0} /\ n + 1 \in 1 .. Len(commands) + 1
      BY <1>0
    <3>2. commands' = SubSeq(commands, n + 1, Len(commands))
      BY <1>2 DEF SaveReplies
    <3> QED  BY <1>0, <3>1, <3>2, SubSeqProperties DEF TypeOK
  <2>2. \A i \in 1 .. Len(commands) - n : pc'[commands[n + i]] = pc[commands[n + i]]
    <3> SUFFICES ASSUME NEW i \in 1 .. Len(commands) - n
                 PROVE  pc'[commands[n + i]] = pc[commands[n + i]]
      OBVIOUS
    <3>1. n + i \in 1 .. Len(commands) /\ \A k \in 1 .. n : k # n + i
      BY <1>0
    <3>2. commands[n + i] \notin {commands[k] : k \in 1 .. n}
      BY <1>0, <3>1 DEF CommandsInv
    <3> QED  BY <1>0, <1>2, <3>1, <3>2 DEF SaveReplies
  <2>3. \A i \in 1 .. Len(commands') :
            i \in 1 .. Len(commands) - n /\ n + i \in 1 .. Len(commands)
    BY <1>0, <2>1
  <2>4. \A i \in 1 .. Len(commands') : pc'[commands'[i]] = "saving"
    BY <2>1, <2>2, <2>3 DEF CommandsInv
  <2>5. \A i, k \in 1 .. Len(commands') : commands'[i] = commands'[k] => n + i = n + k
    BY <2>1, <2>3 DEF CommandsInv
  <2>6. \A i, k \in 1 .. Len(commands') : n + i = n + k => i = k
    BY <1>0, <2>1
  <2> QED  BY <2>4, <2>5, <2>6 DEF CommandsInv
<1>3. ASSUME NEW j \in Jobs, pc[j] # "saving", commands' = commands,
             \A k \in Jobs \ {j} : pc'[k] = pc[k]
      PROVE  CommandsInv'
  BY <1>0, <1>3 DEF CommandsInv
<1>4. ASSUME NEW j \in Jobs, NEW g \in Gates, OnSignalEvent(j, g) \/ ScheduledTick(j, g)
      PROVE  CommandsInv'
  BY <1>1, <1>4 DEF OnSignalEvent, ScheduledTick, Recompute
<1>5. ASSUME NEW j \in Jobs, UnhandledRejection(j) \/ Continue(j) PROVE CommandsInv'
  BY <1>3, <1>5 DEF UnhandledRejection, Continue, SaveFailed, PublishForecast, PublishToNobody,
     AlertPublished, RecordRiskLevel, StoreActions, PublishActions, Running, Await, Return, TypeOK
<1>6. ASSUME UNCHANGED <<commands, pc>> PROVE CommandsInv'
  BY <1>6 DEF CommandsInv
<1> QED
  BY <1>2, <1>4, <1>5, <1>6
  DEF Next, RedisAnswers, ExecuteAction, Stop, vars, eventLoop

(* Every step keeps the handler invariant.                                 *)
LEMMA HandlerStep == TypeOK /\ CommandsInv /\ HandlerInv /\ [Next]_vars => HandlerInv'
<1> SUFFICES ASSUME TypeOK, CommandsInv, HandlerInv, [Next]_vars PROVE HandlerInv'
  OBVIOUS
<1> USE DEF published, actionLists, eventLoop
<1>1. ASSUME NEW j \in Jobs, NEW g \in Gates, OnSignalEvent(j, g) PROVE HandlerInv'
  <2>1. \A h \in Gates : Untouched(h)
    BY <1>1 DEF OnSignalEvent, Recompute, Untouched, Handling, TypeOK
  <2> QED  BY <1>1, <2>1, OutsideHandlers DEF OnSignalEvent
<1>2. ASSUME NEW j \in Jobs, NEW g \in Gates, ScheduledTick(j, g) PROVE HandlerInv'
  <2>1. \A h \in Gates : Untouched(h)
    BY <1>2 DEF ScheduledTick, Recompute, Untouched, Handling, TypeOK
  <2> QED  BY <1>2, <2>1, OutsideHandlers DEF ScheduledTick
<1>3. ASSUME NEW n \in 1 .. Len(commands), NEW failed \in SUBSET Jobs,
             SaveReplies(n, failed)
      PROVE  HandlerInv'
  <2>1. Len(commands) \in Nat
    BY DEF TypeOK
  <2>2. \A i \in 1 .. n : pc[commands[i]] = "saving"
    BY <2>1 DEF CommandsInv
  <2>3. \A k \in Jobs : \/ pc'[k] = pc[k]
                        \/ pc[k] = "saving" /\ pc'[k] \in {"failed", "saved"}
    <3> TAKE k \in Jobs
    <3> DEFINE answered == {commands[i] : i \in 1 .. n}
    <3>1. /\ failed \subseteq answered
          /\ pc'[k] = IF k \in failed THEN "failed"
                      ELSE IF k \in answered THEN "saved" ELSE pc[k]
      BY <1>3 DEF SaveReplies
    <3>2. \A i \in answered : pc[i] = "saving"
      BY <2>2
    <3> HIDE DEF answered
    <3> QED
      BY <3>1, <3>2
  <2>4. UNCHANGED <<job, previousRiskLevel, published, actionLists>>
    BY <1>3 DEF SaveReplies
  <2>5. \A h \in Gates : Untouched(h)
    BY <2>3, <2>4 DEF Untouched, Handling
  <2> QED  BY <1>3, <2>5, OutsideHandlers DEF SaveReplies
<1>4. ASSUME NEW j \in Jobs, UnhandledRejection(j) PROVE HandlerInv'
  <2>1. \A h \in Gates : Untouched(h)
    BY <1>4 DEF UnhandledRejection, Untouched, Handling, TypeOK
  <2> QED  BY <1>4, <2>1, OutsideHandlers DEF UnhandledRejection
<1>5. ASSUME NEW j \in Jobs, SaveFailed(j) PROVE HandlerInv'
  <2>1. \A h \in Gates : Untouched(h)
    BY <1>5 DEF SaveFailed, Running, Return, Untouched, Handling, TypeOK
  <2> QED  BY <1>5, <2>1, OutsideHandlers DEF SaveFailed
<1>6. ASSUME NEW j \in Jobs, PublishForecast(j) PROVE HandlerInv'
  BY <1>6, PublishStep
<1>7. ASSUME NEW j \in Jobs, PublishToNobody(j) PROVE HandlerInv'
  <2>1. \A h \in Gates : Untouched(h)
    BY <1>7 DEF PublishToNobody, Running, Return, Untouched, Handling, TypeOK
  <2> QED  BY <1>7, <2>1, OutsideHandlers DEF PublishToNobody
<1>8. ASSUME NEW j \in Jobs,
             \/ AlertPublished(j) \/ RecordRiskLevel(j)
             \/ StoreActions(j) \/ PublishActions(j)
      PROVE  HandlerInv'
  BY <1>8, SegmentStep
<1>12. ASSUME NEW g \in Gates, NEW t \in ActionTypes, ExecuteAction(g, t) PROVE HandlerInv'
  <2>1. \A h \in Gates : /\ activeActions'[h].of = activeActions[h].of
                         /\ activeActions'[h].offered = activeActions[h].offered
    BY <1>12 DEF ExecuteAction, TypeOK, ActionList
  <2>2. \A h \in Gates : Untouched(h)
    BY <1>12, <2>1 DEF ExecuteAction, Untouched
  <2> QED  BY <1>12, <2>2, OutsideHandlers DEF ExecuteAction
<1>13. CASE Stop
  <2>1. \A h \in Gates : Untouched(h)
    BY <1>13 DEF Stop, Untouched
  <2> QED  BY <1>13, <2>1, OutsideHandlers DEF Stop
<1>14. CASE UNCHANGED vars
  <2>1. \A h \in Gates : Untouched(h)
    BY <1>14 DEF vars, Untouched
  <2> QED  BY <1>14, <2>1, OutsideHandlers DEF vars
<1> QED
  BY <1>1, <1>2, <1>3, <1>4, <1>5, <1>6, <1>7, <1>8, <1>12, <1>13, <1>14
  DEF Next, Continue, RedisAnswers

-----------------------------------------------------------------------------
(* The inductive invariant.                                                *)
THEOREM HandlersFollowScores == Spec => [](TypeOK /\ CommandsInv /\ HandlerInv)
<1>1. Init => CommandsInv
  BY DEF Init, CommandsInv
<1> QED
  BY <1>1, TypeInit, TypeStep, CommandsStep, HandlerInit, HandlerStep, PTL DEF Spec

(* As long as the handlers of a gate have not overlapped, an alert is      *)
(* raised for exactly the scores that reach HIGH or CRITICAL from below.   *)
THEOREM AlertsExact == Spec => []AlertsExactUnlessOverlapped
<1>1. HandlerInv => AlertsExactUnlessOverlapped
  BY DEF HandlerInv, GateInv, AlertsExactUnlessOverlapped
<1> QED  BY <1>1, HandlersFollowScores, PTL

(* Under the same condition, between handlers the actions staff can        *)
(* execute and those on the dashboard are the ones due for the latest      *)
(* score, none if it is LOW.                                               *)
THEOREM ActionsAreCurrent == Spec => []ActionsFollowForecast
<1>1. HandlerInv => ActionsFollowForecast
  <2> SUFFICES ASSUME HandlerInv, NEW g \in Gates, ~overlapped[g], ~HandlerInFlight(g)
               PROVE  /\ ListIsCurrent(activeActions[g], g)
                      /\ ListIsCurrent(dashboardActions[g], g)
    BY DEF ActionsFollowForecast, ListIsCurrent
  <2>1. \A j \in Jobs : \A at \in SUBSET Handling : ~HandlerAt(j, g, at)
    BY DEF HandlerInFlight, HandlerAt
  <2>2. Handling \in SUBSET Handling /\ {"alerting", "alerted", "windowed"} \in SUBSET Handling
    BY DEF Handling
  <2> QED  BY <2>1, <2>2 DEF HandlerInv, GateInv, ActionsStored, ActionsPublished
<1> QED  BY <1>1, HandlersFollowScores, PTL

(* While the pipeline is wired, what redirections, nudges and deliveries   *)
(* decide on is what the forecast API and the dashboard show.              *)
THEOREM LiveForecastShown == Spec => []LiveForecastIsStored
<1>1. Init => LiveForecastIsStored
  BY DEF Init, LiveForecastIsStored
<1>2. LiveForecastIsStored /\ [Next]_vars => LiveForecastIsStored'
  <2> SUFFICES ASSUME LiveForecastIsStored, [Next]_vars PROVE LiveForecastIsStored'
    OBVIOUS
  <2>1. ASSUME NEW j \in Jobs, PublishForecast(j) PROVE LiveForecastIsStored'
    BY <2>1 DEF PublishForecast, SetLiveForecast, LiveForecastIsStored
  <2>2. ASSUME NEW j \in Jobs, PublishToNobody(j) PROVE LiveForecastIsStored'
    BY <2>2 DEF PublishToNobody, LiveForecastIsStored
  <2>3. ASSUME UNCHANGED <<forecastStore, forecastsByGate>>, up' => up
        PROVE  LiveForecastIsStored'
    BY <2>3 DEF LiveForecastIsStored
  <2>4. ASSUME NEW j \in Jobs, NEW g \in Gates, OnSignalEvent(j, g) \/ ScheduledTick(j, g)
        PROVE  LiveForecastIsStored'
    BY <2>3, <2>4 DEF OnSignalEvent, ScheduledTick, published
  <2>5. ASSUME NEW n \in 1 .. Len(commands), NEW failed \in SUBSET Jobs,
               SaveReplies(n, failed)
        PROVE  LiveForecastIsStored'
    BY <2>3, <2>5 DEF SaveReplies, published
  <2>6. ASSUME NEW j \in Jobs,
               \/ UnhandledRejection(j) \/ SaveFailed(j) \/ AlertPublished(j)
               \/ RecordRiskLevel(j) \/ StoreActions(j) \/ PublishActions(j)
        PROVE  LiveForecastIsStored'
    BY <2>3, <2>6 DEF UnhandledRejection, SaveFailed, AlertPublished, RecordRiskLevel,
       StoreActions, PublishActions, published
  <2>7. ASSUME NEW g \in Gates, NEW t \in ActionTypes, ExecuteAction(g, t)
        PROVE  LiveForecastIsStored'
    BY <2>3, <2>7 DEF ExecuteAction, published
  <2>8. CASE Stop \/ UNCHANGED vars
    BY <2>3, <2>8 DEF Stop, vars, published
  <2> QED
    BY <2>1, <2>2, <2>4, <2>5, <2>6, <2>7, <2>8 DEF Next, Continue, RedisAnswers
<1> QED  BY <1>1, <1>2, PTL DEF Spec
=============================================================================
