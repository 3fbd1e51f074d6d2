--------------------------- MODULE FanNudgesProofs ---------------------------
(***************************************************************************)
(* Theorems about FanNudges, for any gates, fans, scores and cooldown and  *)
(* for any number of handlers in flight.                                   *)
(***************************************************************************)
EXTENDS FanNudges, SequenceTheorems, TLAPS

(* What a handler in flight holds.  It started in the past, at this very   *)
(* time unless the clock has ticked meanwhile, and is the only one of its  *)
(* gate unless two have overlapped.                                        *)
HandlersInv ==
    /\ \A h \in InFlight : handler[h].fans # <<>>
    /\ \A h \in Handlers : handler[h].now <= now
    /\ \A h \in InFlight : handler[h].gate \notin late => handler[h].now = now
    /\ \A h, k \in InFlight :
          handler[h].gate = handler[k].gate /\ handler[h].gate \notin overlapped => h = k

(* Nudges are of the past, and of no later time than a handler that is     *)
(* alone with their gate.                                                  *)
NudgesArePast ==
    /\ \A n \in EveryNudge : n.at <= now
    /\ \A h \in InFlight, n \in EveryNudge :
          n.gate = handler[h].gate /\ n.gate \notin overlapped => n.at <= handler[h].now

(* The key of a nudge outlives its cooldown and is at least as recent.     *)
KeysOutlast ==
    \A n \in EveryNudge :
        /\ n.at + Cooldown <= cooldownKeys[n.gate][n.fan].expires
        /\ n.gate \notin overlapped \cap late => n.at <= cooldownKeys[n.gate][n.fan].at

KeysStandForNudges ==
    \A g \in Gates, f \in Fans :
        now < cooldownKeys[g][f].expires /\ <<g, f>> \notin lost
            => [fan |-> f, gate |-> g, at |-> cooldownKeys[g][f].at] \in EveryNudge

(* A handler that has decided to nudge a fan found it out of cooldown, and *)
(* it still is when the handler goes on.                                   *)
NudgeStillDue ==
    \A h \in Handlers :
        pc[h] = "writing" /\ handler[h].gate \notin overlapped \cup late =>
            \A n \in EveryNudge :
                n.gate = handler[h].gate /\ n.fan = Head(handler[h].fans)
                    => n.at + Cooldown <= handler[h].now

(* What a handler will publish is queued, or settled early.                *)
GeneratedAreQueued ==
    \A h \in InFlight : \A n \in handler[h].generated :
        n \in EveryNudge /\ (queue[n] \in Final => n \in early)

NoOutcomeBefore == \A n \in NudgeId \ EveryNudge : outcomes[n] = 0

IInv ==
    /\ TypeOK
    /\ HandlersInv
    /\ NudgesArePast
    /\ KeysOutlast
    /\ KeysStandForNudges
    /\ NudgeStillDue
    /\ CooldownKeptUnlessRaced
    /\ GeneratedAreQueued
    /\ AuditKeepsOutcomeUnlessEarly
    /\ NoOutcomeBefore
    /\ OneOutcomePerNudge

-----------------------------------------------------------------------------
LEMMA NoLocalType == NoLocal \in Local /\ NoLocal.now = 0
  <1>1. (CHOOSE g \in Gates : TRUE) \in Gates
    BY GatesAssumption
  <1>2. 0 \in Time
    BY BoundsAssumption DEF Time
  <1>3. <<>> \in Seq(Fans)
    BY EmptySeq
  <1> QED
    BY <1>1, <1>2, <1>3 DEF NoLocal, Local

LEMMA InitTypes == Init => TypeOK
  <1> SUFFICES ASSUME Init PROVE TypeOK
    OBVIOUS
  <1>1. now \in Time /\ updates \in 0 .. MaxUpdates
    BY BoundsAssumption DEF Init, Time
  <1>2. forecastsByGate \in [Gates -> Score]
    BY DEF Init, Score
  <1>3. fansByGate \in [Gates -> Seq(Fans)] /\ commands \in Seq(Handlers)
    BY EmptySeq DEF Init
  <1>4. pc \in [Handlers -> {"idle", "reading", "writing"}] /\ handler \in [Handlers -> Local]
    BY NoLocalType DEF Init
  <1>5. cooldownKeys \in [Gates -> [Fans -> Key]]
    <2>1. NoKey \in Key
      BY BoundsAssumption DEF NoKey, Key, Time
    <2> QED
      BY <2>1 DEF Init
  <1>6. /\ queue \in [NudgeId -> Status \cup {NoNudge}]
        /\ audit \in [NudgeId -> Status \cup {NoNudge}]
        /\ outcomes \in [NudgeId -> Nat]
    BY DEF Init
  <1>7. /\ overlapped \subseteq Gates /\ late \subseteq Gates
        /\ early \subseteq NudgeId /\ lost \subseteq Gates \X Fans
    BY DEF Init
  <1> QED
    BY <1>1, <1>2, <1>3, <1>4, <1>5, <1>6, <1>7 DEF TypeOK

LEMMA InitInv == Init => IInv
  <1> SUFFICES ASSUME Init PROVE IInv
    OBVIOUS
  <1>1. TypeOK
    BY InitTypes
  <1>2. EveryNudge = {} /\ InFlight = {} /\ \A h \in Handlers : handler[h].now = 0 /\ pc[h] = "idle"
    BY NoLocalType DEF Init, EveryNudge, InFlight
  <1>3. HandlersInv
    BY <1>2 DEF HandlersInv, Init
  <1>4. NudgesArePast /\ KeysOutlast /\ CooldownKeptUnlessRaced /\ AuditKeepsOutcomeUnlessEarly
    BY <1>2 DEF NudgesArePast, KeysOutlast, CooldownKeptUnlessRaced,
                AuditKeepsOutcomeUnlessEarly
  <1>5. KeysStandForNudges
    <2>1. \A g \in Gates, f \in Fans : cooldownKeys[g][f].expires = 0 /\ now = 0
      BY DEF Init, NoKey
    <2> QED
      BY <2>1 DEF KeysStandForNudges
  <1>6. NudgeStillDue /\ GeneratedAreQueued
    BY <1>2 DEF NudgeStillDue, GeneratedAreQueued
  <1>7. NoOutcomeBefore /\ OneOutcomePerNudge
    BY <1>2 DEF NoOutcomeBefore, OneOutcomePerNudge, Init
  <1> QED
    BY <1>1, <1>3, <1>4, <1>5, <1>6, <1>7 DEF IInv

-----------------------------------------------------------------------------
(* A handler in flight and the nudge it is about to make are typed.        *)
LEMMA InFlightTypes ==
    ASSUME TypeOK, HandlersInv, NEW h \in Handlers, pc[h] # "idle"
    PROVE  /\ handler[h] \in Local
           /\ handler[h].gate \in Gates
           /\ handler[h].now \in Time
           /\ Head(handler[h].fans) \in Fans
           /\ Tail(handler[h].fans) \in Seq(Fans)
           /\ handler[h].generated \subseteq NudgeId
           /\ [fan |-> Head(handler[h].fans), gate |-> handler[h].gate,
               at |-> handler[h].now] \in NudgeId
  <1>1. handler[h] \in Local
    BY DEF TypeOK
  <1>2. /\ handler[h].gate \in Gates
        /\ handler[h].now \in Time
        /\ handler[h].fans \in Seq(Fans)
        /\ handler[h].generated \subseteq NudgeId
    BY <1>1 DEF Local
  <1>3. handler[h].fans # <<>>
    BY DEF HandlersInv, InFlight
  <1>4. Head(handler[h].fans) \in Fans /\ Tail(handler[h].fans) \in Seq(Fans)
    BY <1>2, <1>3, HeadTailProperties
  <1> QED
    BY <1>1, <1>2, <1>4 DEF NudgeId

(* All times are numbers.                                                  *)
LEMMA TimesAreNumbers ==
    ASSUME TypeOK
    PROVE  /\ now \in Nat
           /\ \A h \in Handlers : handler[h].now \in Nat
           /\ \A n \in NudgeId : n.at \in Nat
           /\ \A g \in Gates, f \in Fans : /\ cooldownKeys[g][f].at \in Nat
                                           /\ cooldownKeys[g][f].expires \in Nat
  <1>1. Time \subseteq Nat
    BY DEF Time
  <1>2. \A h \in Handlers : handler[h].now \in Time
    BY DEF TypeOK, Local
  <1>3. \A n \in NudgeId : n.at \in Time
    BY DEF NudgeId
  <1>4. \A g \in Gates, f \in Fans : cooldownKeys[g][f] \in Key
    BY DEF TypeOK
  <1>5. \A k \in Key : k.at \in Nat /\ k.expires \in Nat
    BY <1>1 DEF Key
  <1> QED
    BY <1>1, <1>2, <1>3, <1>4, <1>5 DEF TypeOK

(* The next fan, or the end of the loop and the rows of its nudges.        *)
Continued(h, fans, generated) ==
    /\ pc' \in [Handlers -> {"idle", "reading", "writing"}]
    /\ handler' \in [Handlers -> Local]
    /\ commands' \in Seq(Handlers)
    /\ audit' \in [NudgeId -> Status \cup {NoNudge}]
    /\ \A k \in Handlers \ {h} : pc'[k] = pc[k] /\ handler'[k] = handler[k]
    /\ pc'[h] \in {"idle", "reading"}
    /\ \/ /\ pc'[h] = "idle" /\ handler'[h].now = 0
          /\ \A n \in NudgeId : audit'[n] = IF n \in generated THEN "QUEUED" ELSE audit[n]
       \/ /\ pc'[h] = "reading" /\ fans # <<>>
          /\ handler'[h].gate = handler[h].gate
          /\ handler'[h].now = handler[h].now
          /\ handler'[h].fans = fans
          /\ handler'[h].generated = generated
          /\ audit' = audit

LEMMA ContinueEffect ==
    ASSUME TypeOK, NEW h \in Handlers, NEW fans \in Seq(Fans),
           NEW generated \in SUBSET NudgeId, NEW others \in Seq(Handlers),
           Continue(h, fans, generated, others)
    PROVE  Continued(h, fans, generated)
  <1> USE DEF TypeOK
  <1>1. CASE fans # <<>>
    <2> DEFINE next == [handler[h] EXCEPT !.fans = fans, !.generated = generated]
    <2>1. /\ pc' = [pc EXCEPT ![h] = "reading"]
          /\ handler' = [handler EXCEPT ![h] = next]
          /\ commands' = Append(others, h)
          /\ audit' = audit
      BY <1>1 DEF Continue
    <2>2. /\ next \in Local
          /\ next.gate = handler[h].gate /\ next.now = handler[h].now
          /\ next.fans = fans /\ next.generated = generated
      <3>1. handler[h] \in Local
        OBVIOUS
      <3> QED
        BY <3>1 DEF Local
    <2>3. commands' \in Seq(Handlers)
      BY <2>1, AppendProperties
    <2> HIDE DEF next
    <2>4. pc' \in [Handlers -> {"idle", "reading", "writing"}] /\ handler' \in [Handlers -> Local]
      BY <2>1, <2>2
    <2>5. pc'[h] = "reading" /\ handler'[h] = next
      BY <2>1
    <2>6. \A k \in Handlers \ {h} : pc'[k] = pc[k] /\ handler'[k] = handler[k]
      BY <2>1
    <2> QED
      BY <1>1, <2>1, <2>2, <2>3, <2>4, <2>5, <2>6 DEF Continued
  <1>2. CASE fans = <<>>
    <2>1. /\ pc' = [pc EXCEPT ![h] = "idle"]
          /\ handler' = [handler EXCEPT ![h] = NoLocal]
          /\ commands' = others
          /\ audit' = [n \in NudgeId |-> IF n \in generated THEN "QUEUED" ELSE audit[n]]
      BY <1>2 DEF Continue
    <2>2. NoLocal \in Local /\ NoLocal.now = 0
      BY NoLocalType
    <2>3. pc' \in [Handlers -> {"idle", "reading", "writing"}] /\ handler' \in [Handlers -> Local]
      BY <2>1, <2>2
    <2>4. audit' \in [NudgeId -> Status \cup {NoNudge}]
      BY <2>1 DEF Status
    <2>5. pc'[h] = "idle" /\ handler'[h].now = 0
      BY <2>1, <2>2
    <2>6. \A k \in Handlers \ {h} : pc'[k] = pc[k] /\ handler'[k] = handler[k]
      BY <2>1
    <2> QED
      BY <2>1, <2>3, <2>4, <2>5, <2>6 DEF Continued
  <1> QED
    BY <1>1, <1>2

(* The reply to a SET, or to one that was executed and failed.             *)
LEMMA SetKeyEffect ==
    ASSUME TypeOK, HandlersInv, NEW h \in Handlers, pc[h] # "idle", SetKey(h)
    PROVE  /\ cooldownKeys' \in [Gates -> [Fans -> Key]]
           /\ \A g \in Gates, f \in Fans :
                 cooldownKeys'[g][f] =
                     IF g = handler[h].gate /\ f = Head(handler[h].fans)
                     THEN [at |-> handler[h].now, expires |-> now + Cooldown]
                     ELSE cooldownKeys[g][f]
  <1> DEFINE gate == handler[h].gate
             fan == Head(handler[h].fans)
             key == [at |-> handler[h].now, expires |-> now + Cooldown]
  <1>1. gate \in Gates /\ fan \in Fans /\ handler[h].now \in Time
    BY InFlightTypes
  <1>2. key \in Key
    <2>1. now + Cooldown \in Nat
      BY BoundsAssumption, CooldownAssumption DEF TypeOK, Time
    <2> QED
      BY <1>1, <2>1 DEF Key
  <1>3. cooldownKeys' = [cooldownKeys EXCEPT ![gate][fan] = key]
    BY DEF SetKey
  <1>4. cooldownKeys \in [Gates -> [Fans -> Key]]
    BY DEF TypeOK
  <1> HIDE DEF gate, fan, key
  <1>5. cooldownKeys' \in [Gates -> [Fans -> Key]]
    BY <1>1, <1>2, <1>3, <1>4
  <1>6. \A g \in Gates, f \in Fans :
           cooldownKeys'[g][f] = IF g = gate /\ f = fan THEN key ELSE cooldownKeys[g][f]
    BY <1>1, <1>3, <1>4
  <1> QED
    BY <1>5, <1>6 DEF gate, fan, key

-----------------------------------------------------------------------------
(* What happens to nobody's handler, key or nudge.                         *)
LEMMA Unaffected ==
    ASSUME IInv, TypeOK', UNCHANGED <<now, pc, handler, store, history>>
    PROVE  IInv'
  <1>1. EveryNudge' = EveryNudge /\ InFlight' = InFlight
    BY DEF EveryNudge, InFlight, store
  <1>2. HandlersInv' /\ NudgesArePast'
    BY <1>1 DEF IInv, HandlersInv, NudgesArePast, history
  <1>3. KeysOutlast' /\ KeysStandForNudges'
    BY <1>1 DEF IInv, KeysOutlast, KeysStandForNudges, store, history
  <1>4. NudgeStillDue' /\ CooldownKeptUnlessRaced'
    BY <1>1 DEF IInv, NudgeStillDue, CooldownKeptUnlessRaced, TooSoon, history
  <1>5. GeneratedAreQueued' /\ AuditKeepsOutcomeUnlessEarly'
    BY <1>1 DEF IInv, GeneratedAreQueued, AuditKeepsOutcomeUnlessEarly, store, history
  <1>6. NoOutcomeBefore' /\ OneOutcomePerNudge'
    BY <1>1 DEF IInv, NoOutcomeBefore, OneOutcomePerNudge, store, history
  <1> QED
    BY <1>2, <1>3, <1>4, <1>5, <1>6 DEF IInv

LEMMA TrackFanStep ==
    ASSUME IInv, NEW f \in Fans, NEW g \in Gates, TrackFan(f, g)
    PROVE  IInv'
  <1>1. TypeOK
    BY DEF IInv
  <1>2. Append(fansByGate[g], f) \in Seq(Fans)
    BY <1>1, AppendProperties DEF TypeOK
  <1>3. /\ fansByGate' = [fansByGate EXCEPT ![g] = Append(fansByGate[g], f)]
        /\ UNCHANGED <<now, updates, forecastsByGate, commands, pc, handler, store, history>>
    BY DEF TrackFan
  <1>4. fansByGate' \in [Gates -> Seq(Fans)]
    BY <1>1, <1>2, <1>3 DEF TypeOK
  <1>5. TypeOK'
    BY <1>1, <1>3, <1>4 DEF TypeOK, store, history
  <1> QED
    BY <1>3, <1>5, Unaffected

(* A handler starts: now, and overlapping any other one of its gate.       *)
LEMMA ScoreUpdateStep ==
    ASSUME IInv, NEW h \in Handlers, NEW g \in Gates, NEW score \in Scores,
           ScoreUpdate(h, g, score)
    PROVE  IInv'
  <1>1. TypeOK
    BY DEF IInv
  <1>2. /\ pc[h] = "idle"
        /\ updates < MaxUpdates
        /\ updates' = updates + 1
        /\ forecastsByGate' = [forecastsByGate EXCEPT ![g] = score]
        /\ UNCHANGED <<now, fansByGate, store, late, early, lost>>
    BY DEF ScoreUpdate
  <1>3. updates' \in 0 .. MaxUpdates /\ forecastsByGate' \in [Gates -> Score]
    BY <1>1, <1>2, BoundsAssumption, ScoresAssumption DEF TypeOK
  <1>4. CASE fansByGate[g] = <<>>
    <2>1. UNCHANGED <<pc, handler, commands, overlapped>>
      BY <1>4 DEF ScoreUpdate
    <2>2. TypeOK'
      BY <1>1, <1>2, <1>3, <2>1 DEF TypeOK, store
    <2> QED
      BY <1>2, <2>1, <2>2, Unaffected DEF history
  <1>5. CASE fansByGate[g] # <<>>
    <2> DEFINE local == [gate |-> g, now |-> now, fans |-> fansByGate[g], generated |-> {}]
    <2>1. /\ pc' = [pc EXCEPT ![h] = "reading"]
          /\ handler' = [handler EXCEPT ![h] = local]
          /\ commands' = Append(commands, h)
          /\ overlapped' = IF g \in BusyGates THEN overlapped \cup {g} ELSE overlapped
      BY <1>5 DEF ScoreUpdate
    <2>2. local \in Local
      BY <1>1 DEF TypeOK, Local
    <2>3. commands' \in Seq(Handlers)
      BY <1>1, <2>1, AppendProperties DEF TypeOK
    <2>4. /\ local.gate = g /\ local.now = now /\ local.generated = {}
          /\ local.fans # <<>>
      BY <1>5
    <2> HIDE DEF local
    <2>5. /\ pc' \in [Handlers -> {"idle", "reading", "writing"}]
          /\ handler' \in [Handlers -> Local]
          /\ overlapped' \subseteq Gates
      BY <1>1, <2>1, <2>2 DEF TypeOK
    <2>6. TypeOK'
      BY <1>1, <1>2, <1>3, <2>3, <2>5 DEF TypeOK, store
    <2>7. /\ pc'[h] = "reading" /\ handler'[h] = local
          /\ \A k \in Handlers \ {h} : pc'[k] = pc[k] /\ handler'[k] = handler[k]
          /\ overlapped \subseteq overlapped'
          /\ \A k \in InFlight : handler[k].gate = g => g \in overlapped'
          /\ EveryNudge' = EveryNudge
          /\ InFlight' = InFlight \cup {h}
          /\ h \notin InFlight
      BY <1>1, <1>2, <2>1 DEF TypeOK, InFlight, BusyGates, EveryNudge, store
    <2>8. HandlersInv'
      <3>1. \A k \in Handlers \ {h} : handler'[k].now <= now
        BY <2>7 DEF IInv, HandlersInv
      <3>2. handler'[h].now <= now
        BY <1>1, <2>4, <2>7, BoundsAssumption DEF TypeOK, Time
      <3>3. \A k \in InFlight' : /\ handler'[k].fans # <<>>
                                 /\ handler'[k].gate \notin late => handler'[k].now = now
        BY <2>4, <2>7 DEF IInv, HandlersInv, InFlight
      <3>4. ASSUME NEW k \in InFlight', NEW l \in InFlight',
                   handler'[k].gate = handler'[l].gate, handler'[k].gate \notin overlapped'
            PROVE  k = l
        <4>1. CASE k \in InFlight /\ l \in InFlight
          BY <2>7, <3>4, <4>1 DEF IInv, HandlersInv, InFlight
        <4>2. CASE k = h \/ l = h
          BY <2>4, <2>7, <3>4, <4>2 DEF InFlight
        <4> QED
          BY <2>7, <4>1, <4>2
      <3>5. now' = now /\ late' = late
        BY <1>2
      <3>6. \A k \in Handlers : handler'[k].now <= now'
        BY <3>1, <3>2, <3>5
      <3> QED
        BY <3>3, <3>4, <3>5, <3>6 DEF HandlersInv
    <2>9. NudgesArePast'
      <3>1. ASSUME NEW k \in InFlight', NEW n \in EveryNudge,
                   n.gate = handler'[k].gate, n.gate \notin overlapped'
            PROVE  n.at <= handler'[k].now
        <4>1. CASE k = h
          BY <2>4, <2>7, <4>1 DEF IInv, NudgesArePast
        <4>2. CASE k \in InFlight
          BY <2>7, <3>1, <4>2 DEF IInv, NudgesArePast, InFlight
        <4> QED
          BY <2>7, <4>1, <4>2
      <3> QED
        BY <1>2, <2>7, <3>1 DEF IInv, NudgesArePast
    <2>10. KeysOutlast' /\ KeysStandForNudges'
      BY <1>2, <2>7 DEF IInv, KeysOutlast, KeysStandForNudges, store
    <2>11. NudgeStillDue'
      BY <1>2, <2>7 DEF IInv, NudgeStillDue
    <2>12. CooldownKeptUnlessRaced'
      BY <1>2, <2>7 DEF IInv, CooldownKeptUnlessRaced, TooSoon
    <2>13. GeneratedAreQueued'
      BY <1>2, <2>4, <2>7 DEF IInv, GeneratedAreQueued, InFlight, store
    <2>14. AuditKeepsOutcomeUnlessEarly' /\ NoOutcomeBefore' /\ OneOutcomePerNudge'
      BY <1>2, <2>7 DEF IInv, AuditKeepsOutcomeUnlessEarly, NoOutcomeBefore,
                        OneOutcomePerNudge, store
    <2> QED
      BY <2>6, <2>8, <2>9, <2>10, <2>11, <2>12, <2>13, <2>14 DEF IInv
  <1> QED
    BY <1>4, <1>5

(* The worker settles every queued nudge, and only those.                  *)
LEMMA ProcessQueueStep ==
    ASSUME IInv, ProcessQueue
    PROVE  IInv'
  <1>1. TypeOK
    BY DEF IInv
  <1>2. /\ queue' = [n \in NudgeId |-> IF n \in Pending THEN Outcome(n) ELSE queue[n]]
        /\ audit' = [n \in NudgeId |-> IF n \in Pending THEN Outcome(n) ELSE audit[n]]
        /\ outcomes' = [n \in NudgeId |-> outcomes[n] + IF n \in Pending THEN 1 ELSE 0]
        /\ early' = early \cup
               {n \in Pending : \E h \in InFlight : n \in handler[h].generated}
        /\ UNCHANGED <<now, updates, forecastsByGate, fansByGate, commands, pc, handler,
                       cooldownKeys, overlapped, late, lost>>
    BY DEF ProcessQueue, AuditOutcomes
  <1>3. /\ \A n \in NudgeId : Outcome(n) \in Final
        /\ \A s \in Final : s # "QUEUED" /\ s # NoNudge
        /\ Pending \subseteq EveryNudge
        /\ EveryNudge \subseteq NudgeId
        /\ \A n \in NudgeId : n \in Pending <=> queue[n] = "QUEUED"
    BY DEF Outcome, Final, Pending, EveryNudge, NoNudge
  <1>4. EveryNudge' = EveryNudge
    BY <1>2, <1>3 DEF EveryNudge
  <1>5. TypeOK'
    <2>1. /\ queue' \in [NudgeId -> Status \cup {NoNudge}]
          /\ audit' \in [NudgeId -> Status \cup {NoNudge}]
      BY <1>1, <1>2, <1>3 DEF TypeOK, Status
    <2>2. outcomes' \in [NudgeId -> Nat]
      BY <1>1, <1>2 DEF TypeOK
    <2>3. early' \subseteq NudgeId
      BY <1>1, <1>2, <1>3 DEF TypeOK
    <2> QED
      BY <1>1, <1>2, <2>1, <2>2, <2>3 DEF TypeOK
  <1>6. InFlight' = InFlight
    BY <1>2 DEF InFlight
  <1>7. HandlersInv' /\ NudgesArePast'
    BY <1>2, <1>4, <1>6 DEF IInv, HandlersInv, NudgesArePast
  <1>8. KeysOutlast' /\ KeysStandForNudges'
    BY <1>2, <1>4 DEF IInv, KeysOutlast, KeysStandForNudges
  <1>9. NudgeStillDue' /\ CooldownKeptUnlessRaced'
    BY <1>2, <1>4 DEF IInv, NudgeStillDue, CooldownKeptUnlessRaced, TooSoon
  <1>10. GeneratedAreQueued'
    <2> SUFFICES ASSUME NEW h \in InFlight, NEW n \in handler[h].generated
                 PROVE  n \in EveryNudge /\ (queue'[n] \in Final => n \in early')
      BY <1>2, <1>4, <1>6 DEF GeneratedAreQueued
    <2>1. n \in EveryNudge /\ (queue[n] \in Final => n \in early)
      BY DEF IInv, GeneratedAreQueued
    <2> QED
      BY <1>2, <1>3, <2>1
  <1>11. AuditKeepsOutcomeUnlessEarly'
    BY <1>2, <1>3, <1>4 DEF IInv, AuditKeepsOutcomeUnlessEarly
  <1>12. NoOutcomeBefore'
    BY <1>1, <1>2, <1>3, <1>4 DEF IInv, NoOutcomeBefore, TypeOK
  <1>13. OneOutcomePerNudge'
    BY <1>1, <1>2, <1>3, <1>4 DEF IInv, OneOutcomePerNudge, TypeOK
  <1> QED
    BY <1>5, <1>7, <1>8, <1>9, <1>10, <1>11, <1>12, <1>13 DEF IInv

(* The clock ticks, and the gates of handlers in flight are late.          *)
LEMMA TickStep ==
    ASSUME IInv, Tick
    PROVE  IInv'
  <1>1. TypeOK
    BY DEF IInv
  <1>2. /\ now < MaxTime
        /\ now' = now + 1
        /\ late' = late \cup BusyGates
        /\ UNCHANGED <<updates, forecastsByGate, fansByGate, commands, pc, handler, store,
                       overlapped, early, lost>>
    BY DEF Tick
  <1>3. now \in Nat /\ now' \in Time
    BY <1>1, <1>2, BoundsAssumption DEF TypeOK, Time
  <1>4. /\ EveryNudge' = EveryNudge
        /\ InFlight' = InFlight
        /\ \A h \in InFlight : handler[h].gate \in late'
        /\ late' \subseteq Gates
    BY <1>1, <1>2 DEF EveryNudge, InFlight, BusyGates, store, TypeOK, Local
  <1>5. TypeOK'
    BY <1>1, <1>2, <1>3, <1>4 DEF TypeOK, store
  <1>6. /\ \A h \in Handlers : handler[h].now \in Nat
        /\ \A n \in EveryNudge : n.at \in Nat
        /\ \A g \in Gates, f \in Fans : cooldownKeys[g][f].expires \in Nat
    BY <1>1, TimesAreNumbers DEF EveryNudge
  <1>7. HandlersInv'
    BY <1>2, <1>3, <1>4, <1>6 DEF IInv, HandlersInv
  <1>8. NudgesArePast'
    BY <1>2, <1>3, <1>4, <1>6 DEF IInv, NudgesArePast
  <1>9. KeysOutlast'
    BY <1>2, <1>4 DEF IInv, KeysOutlast, store
  <1>10. KeysStandForNudges'
    BY <1>2, <1>3, <1>4, <1>6 DEF IInv, KeysStandForNudges, store
  <1>11. NudgeStillDue'
    BY <1>2, <1>4 DEF NudgeStillDue, InFlight
  <1>12. CooldownKeptUnlessRaced'
    BY <1>2, <1>4 DEF IInv, CooldownKeptUnlessRaced, TooSoon
  <1>13. GeneratedAreQueued' /\ AuditKeepsOutcomeUnlessEarly'
    BY <1>2, <1>4 DEF IInv, GeneratedAreQueued, AuditKeepsOutcomeUnlessEarly, store
  <1>14. NoOutcomeBefore' /\ OneOutcomePerNudge'
    BY <1>2, <1>4 DEF IInv, NoOutcomeBefore, OneOutcomePerNudge, store
  <1> QED
    BY <1>5, <1>7, <1>8, <1>9, <1>10, <1>11, <1>12, <1>13, <1>14 DEF IInv

-----------------------------------------------------------------------------
(* The nudge a handler is about to make.                                   *)
NextNudge(h) ==
    [fan |-> Head(handler[h].fans), gate |-> handler[h].gate, at |-> handler[h].now]

(* A handler goes on or ends, and no other one moves.                      *)
Moves(h) ==
    /\ pc[h] # "idle"
    /\ \A k \in Handlers \ {h} : pc'[k] = pc[k] /\ handler'[k] = handler[k]
    /\ \/ pc'[h] = "idle" /\ handler'[h].now = 0
       \/ /\ handler'[h].gate = handler[h].gate
          /\ handler'[h].now = handler[h].now
          /\ handler'[h].fans # <<>>
    /\ UNCHANGED <<now, overlapped, late>>

LEMMA MovesKeep ==
    ASSUME TypeOK, HandlersInv, NudgesArePast, NEW h \in Handlers, Moves(h),
           EveryNudge' \subseteq EveryNudge \cup {NextNudge(h)}
    PROVE  HandlersInv' /\ NudgesArePast'
  <1>1. /\ pc[h] # "idle"
        /\ \A k \in Handlers \ {h} : pc'[k] = pc[k] /\ handler'[k] = handler[k]
        /\ pc'[h] # "idle" => /\ handler'[h].gate = handler[h].gate
                              /\ handler'[h].now = handler[h].now
                              /\ handler'[h].fans # <<>>
        /\ handler'[h].now \in {0, handler[h].now}
        /\ UNCHANGED <<now, overlapped, late>>
    BY DEF Moves
  <1>2. h \in InFlight /\ InFlight' \subseteq InFlight
    BY <1>1 DEF InFlight
  <1>3. /\ \A k \in InFlight' : /\ handler'[k].gate = handler[k].gate
                                /\ handler'[k].now = handler[k].now
                                /\ handler'[k].fans # <<>>
        /\ \A k \in Handlers : handler'[k].now \in {0, handler[k].now}
    BY <1>1 DEF HandlersInv, InFlight
  <1>4. HandlersInv'
    <2>1. \A k \in Handlers : handler'[k].now <= now
      BY <1>3, TimesAreNumbers DEF HandlersInv
    <2> QED
      BY <1>1, <1>2, <1>3, <2>1 DEF HandlersInv
  <1>5. NextNudge(h).gate = handler[h].gate /\ NextNudge(h).at = handler[h].now
    BY DEF NextNudge
  <1>6. NudgesArePast'
    <2>1. \A n \in EveryNudge' : n.at <= now
      BY <1>5 DEF NudgesArePast, HandlersInv
    <2>2. ASSUME NEW k \in InFlight', NEW n \in EveryNudge',
                 n.gate = handler'[k].gate, n.gate \notin overlapped
          PROVE  n.at <= handler'[k].now
      <3>1. CASE n \in EveryNudge
        BY <1>2, <1>3, <2>2, <3>1 DEF NudgesArePast
      <3>2. CASE n = NextNudge(h)
        <4>1. k = h
          BY <1>2, <1>3, <1>5, <2>2, <3>2 DEF HandlersInv
        <4> QED
          BY <1>3, <1>5, <3>2, <4>1, TimesAreNumbers
      <3> QED
        BY <3>1, <3>2
    <2> QED
      BY <1>1, <2>1, <2>2 DEF NudgesArePast
  <1> QED
    BY <1>4, <1>6

(* A key that is set is recent enough for every nudge of its fan.          *)
LEMMA SetKeyKeepsKeys ==
    ASSUME IInv, NEW h \in Handlers, pc[h] # "idle", SetKey(h),
           UNCHANGED <<now, overlapped, late>>,
           EveryNudge' \subseteq EveryNudge \cup {NextNudge(h)}
    PROVE  KeysOutlast'
  <1> DEFINE gate == handler[h].gate
             fan == Head(handler[h].fans)
  <1>1. TypeOK /\ HandlersInv /\ NudgesArePast /\ KeysOutlast
    BY DEF IInv
  <1>2. /\ gate \in Gates /\ fan \in Fans
        /\ EveryNudge \subseteq NudgeId
        /\ NextNudge(h) \in NudgeId
        /\ NextNudge(h).gate = gate /\ NextNudge(h).fan = fan
        /\ NextNudge(h).at = handler[h].now
    BY <1>1, InFlightTypes DEF EveryNudge, NextNudge
  <1>3. /\ cooldownKeys'[gate][fan].at = handler[h].now
        /\ cooldownKeys'[gate][fan].expires = now + Cooldown
        /\ \A g \in Gates, f \in Fans :
              ~(g = gate /\ f = fan) => cooldownKeys'[g][f] = cooldownKeys[g][f]
    <2>1. \A g \in Gates, f \in Fans :
              cooldownKeys'[g][f] = IF g = gate /\ f = fan
                                    THEN [at |-> handler[h].now, expires |-> now + Cooldown]
                                    ELSE cooldownKeys[g][f]
      BY <1>1, SetKeyEffect
    <2>2. cooldownKeys'[gate][fan] = [at |-> handler[h].now, expires |-> now + Cooldown]
      BY <1>2, <2>1
    <2> QED
      BY <2>1, <2>2
  <1>4. /\ now \in Nat /\ Cooldown \in Nat /\ handler[h].now \in Nat
        /\ \A n \in NudgeId : n.at \in Nat /\ n.gate \in Gates /\ n.fan \in Fans
    BY <1>1, TimesAreNumbers, CooldownAssumption DEF NudgeId
  <1>5. h \in InFlight /\ handler[h].now <= now
    BY <1>1 DEF InFlight, HandlersInv
  <1> HIDE DEF gate, fan
  <1> SUFFICES ASSUME NEW n \in EveryNudge'
               PROVE  /\ n.at + Cooldown <= cooldownKeys'[n.gate][n.fan].expires
                      /\ n.gate \notin overlapped \cap late
                             => n.at <= cooldownKeys'[n.gate][n.fan].at
    BY DEF KeysOutlast
  <1>6. n \in NudgeId /\ n.at <= now
    BY <1>1, <1>2, <1>5 DEF NudgesArePast
  <1>7. CASE n.gate = gate /\ n.fan = fan
    <2>1. n.at + Cooldown <= cooldownKeys'[n.gate][n.fan].expires
      BY <1>3, <1>4, <1>6, <1>7
    <2>2. ASSUME n.gate \notin late
          PROVE  n.at <= handler[h].now
      BY <1>1, <1>5, <1>6, <1>7, <2>2 DEF HandlersInv, gate
    <2>3. ASSUME n.gate \notin overlapped
          PROVE  n.at <= handler[h].now
      <3>1. CASE n \in EveryNudge
        BY <1>1, <1>5, <1>7, <2>3, <3>1 DEF NudgesArePast, gate
      <3>2. CASE n = NextNudge(h)
        BY <1>2, <1>4, <3>2
      <3> QED
        BY <3>1, <3>2
    <2> QED
      BY <1>3, <1>6, <1>4, <1>7, <2>1, <2>2, <2>3
  <1>8. CASE ~(n.gate = gate /\ n.fan = fan)
    <2>1. n \in EveryNudge
      BY <1>2, <1>8
    <2>2. cooldownKeys'[n.gate][n.fan] = cooldownKeys[n.gate][n.fan]
      BY <1>3, <1>4, <1>6, <1>8
    <2> QED
      BY <1>1, <2>1, <2>2 DEF KeysOutlast
  <1> QED
    BY <1>7, <1>8


-----------------------------------------------------------------------------
(* The reply of GET: the next SET is sent only for a fan out of cooldown.  *)
LEMMA ReadReplyStep ==
    ASSUME IInv, NEW h \in Handlers, ReadReply(h)
    PROVE  IInv'
  <1> DEFINE gate == handler[h].gate
             fan == Head(handler[h].fans)
             due == NudgeDue(gate, LastNudgeAt(gate, fan), handler[h].now)
             fans == Tail(handler[h].fans)
             generated == handler[h].generated
  <1>1. TypeOK /\ HandlersInv /\ NudgesArePast /\ KeysOutlast
    BY DEF IInv
  <1>2. /\ commands # <<>>
        /\ pc[h] = "reading"
        /\ UNCHANGED <<now, updates, forecastsByGate, fansByGate, cooldownKeys, queue,
                       outcomes, history>>
    BY DEF ReadReply
  <1>3. /\ Tail(commands) \in Seq(Handlers)
        /\ gate \in Gates /\ fan \in Fans /\ fans \in Seq(Fans)
        /\ generated \in SUBSET NudgeId
        /\ h \in InFlight
    BY <1>1, <1>2, InFlightTypes, HeadTailProperties DEF TypeOK, InFlight
  <1>4. EveryNudge' = EveryNudge
    BY <1>2 DEF EveryNudge
  <1>5. KeysOutlast' /\ KeysStandForNudges' /\ CooldownKeptUnlessRaced'
    BY <1>2, <1>4 DEF IInv, KeysOutlast, KeysStandForNudges, CooldownKeptUnlessRaced, TooSoon,
                      history
  <1>6. NoOutcomeBefore' /\ OneOutcomePerNudge'
    BY <1>2, <1>4 DEF IInv, NoOutcomeBefore, OneOutcomePerNudge, history
  <1>7. CASE due
    <2>1. /\ pc' = [pc EXCEPT ![h] = "writing"]
          /\ commands' = Append(Tail(commands), h)
          /\ UNCHANGED <<handler, audit>>
      BY <1>7 DEF ReadReply
    <2>2. commands' \in Seq(Handlers) /\ pc' \in [Handlers -> {"idle", "reading", "writing"}]
      BY <1>1, <1>3, <2>1, AppendProperties DEF TypeOK
    <2>3. TypeOK'
      BY <1>1, <1>2, <2>1, <2>2 DEF TypeOK, history
    <2>4. /\ pc'[h] = "writing" /\ InFlight' = InFlight
          /\ \A k \in Handlers \ {h} : pc'[k] = pc[k]
      BY <1>1, <1>2, <2>1 DEF TypeOK, InFlight
    <2>5. Moves(h)
      BY <1>1, <1>2, <1>3, <2>1, <2>4 DEF Moves, HandlersInv, history
    <2>6. HandlersInv' /\ NudgesArePast'
      BY <1>1, <1>4, <2>5, MovesKeep
    <2>7. ASSUME gate \notin overlapped \cup late,
                 NEW n \in EveryNudge, n.gate = gate, n.fan = fan
          PROVE  n.at + Cooldown <= handler[h].now
      <3>1. /\ n.at + Cooldown <= cooldownKeys[gate][fan].expires
            /\ n.at <= cooldownKeys[gate][fan].at
        BY <1>1, <2>7 DEF KeysOutlast
      <3>2. handler[h].now = now
        BY <1>1, <1>3, <2>7 DEF HandlersInv
      <3>3. now < cooldownKeys[gate][fan].expires
                => ~(now < cooldownKeys[gate][fan].at + Cooldown)
        BY <1>7, <3>2 DEF NudgeDue, LastNudgeAt
      <3>4. /\ now \in Nat /\ n.at \in Nat /\ Cooldown \in Nat
            /\ cooldownKeys[gate][fan].at \in Nat /\ cooldownKeys[gate][fan].expires \in Nat
        BY <1>1, <1>3, TimesAreNumbers, CooldownAssumption DEF EveryNudge
      <3> HIDE DEF gate, fan, due
      <3> QED
        BY <3>1, <3>2, <3>3, <3>4
    <2>8. NudgeStillDue'
      <3> SUFFICES ASSUME NEW k \in Handlers, pc'[k] = "writing",
                          handler[k].gate \notin overlapped \cup late,
                          NEW n \in EveryNudge,
                          n.gate = handler[k].gate, n.fan = Head(handler[k].fans)
                   PROVE  n.at + Cooldown <= handler[k].now
        BY <1>2, <1>4, <2>1 DEF NudgeStillDue, history
      <3>1. CASE k = h
        BY <2>7, <3>1
      <3>2. CASE k # h
        BY <2>4, <3>2 DEF IInv, NudgeStillDue
      <3> QED
        BY <3>1, <3>2
    <2>9. GeneratedAreQueued' /\ AuditKeepsOutcomeUnlessEarly'
      BY <1>2, <1>4, <2>1, <2>4 DEF IInv, GeneratedAreQueued, AuditKeepsOutcomeUnlessEarly,
                                    history
    <2> QED
      BY <1>5, <1>6, <2>3, <2>6, <2>8, <2>9 DEF IInv
  <1>8. CASE ~due
    <2>1. Continue(h, fans, generated, Tail(commands))
      BY <1>8 DEF ReadReply
    <2> HIDE DEF gate, fan, due, fans, generated
    <2>2. Continued(h, fans, generated)
      BY <1>1, <1>3, <2>1, ContinueEffect, Zenon
    <2>3. TypeOK'
      BY <1>1, <1>2, <2>2 DEF TypeOK, Continued, history
    <2>4. Moves(h)
      BY <1>2, <2>2 DEF Moves, Continued, history
    <2>5. HandlersInv' /\ NudgesArePast'
      BY <1>1, <1>4, <2>4, MovesKeep
    <2>6. NudgeStillDue'
      BY <1>2, <1>4, <2>2 DEF IInv, NudgeStillDue, Continued, history
    <2>7. \A n \in generated : n \in EveryNudge /\ (queue[n] \in Final => n \in early)
      BY <1>3 DEF IInv, GeneratedAreQueued, generated
    <2>8. GeneratedAreQueued'
      <3> SUFFICES ASSUME NEW k \in Handlers, pc'[k] # "idle", NEW n \in handler'[k].generated
                   PROVE  n \in EveryNudge /\ (queue[n] \in Final => n \in early)
        BY <1>2, <1>4 DEF GeneratedAreQueued, InFlight, history
      <3>1. CASE k = h
        BY <2>2, <2>7, <3>1 DEF Continued
      <3>2. CASE k # h
        BY <2>2, <3>2 DEF Continued, IInv, GeneratedAreQueued, InFlight
      <3> QED
        BY <3>1, <3>2
    <2>9. AuditKeepsOutcomeUnlessEarly'
      <3> SUFFICES ASSUME NEW n \in EveryNudge, queue[n] \in Final, n \notin early
                   PROVE  audit'[n] = queue[n]
        BY <1>2, <1>4 DEF AuditKeepsOutcomeUnlessEarly, history
      <3>1. n \in NudgeId /\ n \notin generated
        BY <2>7 DEF EveryNudge
      <3>2. audit'[n] = audit[n]
        BY <2>2, <3>1 DEF Continued
      <3> QED
        BY <3>2 DEF IInv, AuditKeepsOutcomeUnlessEarly
    <2> QED
      BY <1>5, <1>6, <2>3, <2>5, <2>6, <2>8, <2>9 DEF IInv
  <1> QED
    BY <1>7, <1>8


(* The reply of SET: the key is set, the nudge queued.                     *)
LEMMA WriteReplyStep ==
    ASSUME IInv, NEW h \in Handlers, WriteReply(h)
    PROVE  IInv'
  <1> DEFINE id == NextNudge(h)
             fans == Tail(handler[h].fans)
             generated == handler[h].generated
             all == generated \cup {id}
  <1>1. TypeOK /\ HandlersInv /\ NudgesArePast /\ KeysOutlast
    BY DEF IInv
  <1>2. /\ commands # <<>>
        /\ pc[h] = "writing"
        /\ SetKey(h)
        /\ queue' = [queue EXCEPT ![id] = "QUEUED"]
        /\ Continue(h, fans, all, Tail(commands))
        /\ UNCHANGED <<now, updates, forecastsByGate, fansByGate, outcomes, history>>
    BY DEF WriteReply, NextNudge
  <1>3. /\ Tail(commands) \in Seq(Handlers)
        /\ fans \in Seq(Fans)
        /\ id \in NudgeId
        /\ generated \subseteq NudgeId
        /\ all \in SUBSET NudgeId
        /\ h \in InFlight
    BY <1>1, <1>2, InFlightTypes, HeadTailProperties DEF TypeOK, InFlight, NextNudge
  <1>4. /\ id.gate = handler[h].gate
        /\ id.fan = Head(handler[h].fans)
        /\ id.at = handler[h].now
    BY DEF NextNudge
  <1>5. \A n \in generated : n \in EveryNudge /\ (queue[n] \in Final => n \in early)
    BY <1>3 DEF IInv, GeneratedAreQueued
  <1>6. id.gate \notin overlapped \cup late =>
           \A n \in EveryNudge : n.gate = id.gate /\ n.fan = id.fan => n.at + Cooldown <= id.at
    BY <1>2, <1>4 DEF IInv, NudgeStillDue
  <1> HIDE DEF id, fans, generated, all
  <1>7. Continued(h, fans, all)
    BY <1>1, <1>2, <1>3, ContinueEffect, Zenon
  <1>8. /\ queue' \in [NudgeId -> Status \cup {NoNudge}]
        /\ queue'[id] = "QUEUED"
        /\ \A n \in NudgeId : n # id => queue'[n] = queue[n]
    BY <1>1, <1>2, <1>3 DEF TypeOK, Status
  <1>9. /\ EveryNudge' = EveryNudge \cup {id}
        /\ EveryNudge \subseteq NudgeId
        /\ "QUEUED" \notin Final
    BY <1>3, <1>8 DEF EveryNudge, NoNudge, Final
  <1>10. cooldownKeys' \in [Gates -> [Fans -> Key]]
    BY <1>1, <1>2, SetKeyEffect
  <1>11. TypeOK'
    BY <1>1, <1>2, <1>7, <1>8, <1>10 DEF TypeOK, Continued, history
  <1>12. Moves(h)
    BY <1>2, <1>7 DEF Moves, Continued, history
  <1>13. HandlersInv' /\ NudgesArePast'
    BY <1>1, <1>9, <1>12, MovesKeep DEF id
  <1>14. KeysOutlast'
    BY <1>2, <1>9, SetKeyKeepsKeys DEF id, history
  <1>15. KeysStandForNudges'
    <2> SUFFICES ASSUME NEW g \in Gates, NEW f \in Fans,
                        now < cooldownKeys'[g][f].expires, <<g, f>> \notin lost
                 PROVE  [fan |-> f, gate |-> g, at |-> cooldownKeys'[g][f].at] \in EveryNudge'
      BY <1>2 DEF KeysStandForNudges, history
    <2>1. cooldownKeys'[g][f] = IF g = id.gate /\ f = id.fan
                                THEN [at |-> id.at, expires |-> now + Cooldown]
                                ELSE cooldownKeys[g][f]
      BY <1>1, <1>2, <1>4, SetKeyEffect
    <2>2. CASE g = id.gate /\ f = id.fan
      <3>1. cooldownKeys'[g][f].at = id.at
        BY <2>1, <2>2
      <3>2. id = [fan |-> id.fan, gate |-> id.gate, at |-> id.at]
        BY <1>3 DEF NudgeId
      <3> QED
        BY <1>9, <2>2, <3>1, <3>2
    <2>3. CASE ~(g = id.gate /\ f = id.fan)
      <3>1. cooldownKeys'[g][f] = cooldownKeys[g][f]
        BY <2>1, <2>3
      <3> QED
        BY <1>9, <3>1 DEF IInv, KeysStandForNudges
    <2> QED
      BY <2>2, <2>3
  <1>16. NudgeStillDue'
    <2> SUFFICES ASSUME NEW k \in Handlers, pc'[k] = "writing",
                        handler'[k].gate \notin overlapped \cup late,
                        NEW n \in EveryNudge',
                        n.gate = handler'[k].gate, n.fan = Head(handler'[k].fans)
                 PROVE  n.at + Cooldown <= handler'[k].now
      BY <1>2 DEF NudgeStillDue, history
    <2>1. k # h /\ pc[k] = "writing" /\ handler'[k] = handler[k]
      BY <1>7 DEF Continued
    <2>2. n # id
      BY <1>1, <1>3, <1>4, <2>1 DEF HandlersInv, InFlight
    <2> QED
      BY <1>9, <2>1, <2>2 DEF IInv, NudgeStillDue
  <1>17. CooldownKeptUnlessRaced'
    <2> SUFFICES ASSUME NEW m \in EveryNudge', NEW n \in EveryNudge',
                        TooSoon(m, n), m.gate \notin overlapped \cup late
                 PROVE  FALSE
      BY <1>2 DEF CooldownKeptUnlessRaced, TooSoon, history
    <2>1. /\ m.at \in Nat /\ n.at \in Nat /\ id.at \in Nat /\ Cooldown \in Nat \ {0}
      BY <1>1, <1>3, <1>9, TimesAreNumbers, CooldownAssumption
    <2>2. CASE m \in EveryNudge /\ n \in EveryNudge
      BY <2>2 DEF IInv, CooldownKeptUnlessRaced
    <2>3. CASE m \in EveryNudge /\ n = id
      BY <1>6, <2>1, <2>3 DEF TooSoon
    <2>4. CASE m = id /\ n \in EveryNudge
      BY <1>6, <2>1, <2>4 DEF TooSoon
    <2>5. CASE m = id /\ n = id
      BY <2>5 DEF TooSoon
    <2> QED
      BY <1>9, <2>2, <2>3, <2>4, <2>5
  <1>18. GeneratedAreQueued'
    <2> SUFFICES ASSUME NEW k \in Handlers, pc'[k] # "idle", NEW n \in handler'[k].generated
                 PROVE  n \in EveryNudge' /\ (queue'[n] \in Final => n \in early)
      BY <1>2 DEF GeneratedAreQueued, InFlight, history
    <2>1. n = id \/ (n \in EveryNudge /\ (queue[n] \in Final => n \in early))
      <3>1. CASE k = h
        BY <1>5, <1>7, <3>1 DEF Continued, all
      <3>2. CASE k # h
        BY <1>7, <3>2 DEF Continued, IInv, GeneratedAreQueued, InFlight
      <3> QED
        BY <3>1, <3>2
    <2> QED
      BY <1>8, <1>9, <2>1
  <1>19. AuditKeepsOutcomeUnlessEarly'
    <2> SUFFICES ASSUME NEW n \in EveryNudge', queue'[n] \in Final, n \notin early
                 PROVE  audit'[n] = queue'[n]
      BY <1>2 DEF AuditKeepsOutcomeUnlessEarly, history
    <2>1. n # id /\ n \in EveryNudge /\ n \in NudgeId /\ queue'[n] = queue[n]
      BY <1>8, <1>9
    <2>2. n \notin all
      BY <1>5, <2>1 DEF all
    <2>3. audit'[n] = audit[n]
      BY <1>7, <2>1, <2>2 DEF Continued
    <2> QED
      BY <2>1, <2>3 DEF IInv, AuditKeepsOutcomeUnlessEarly
  <1>20. NoOutcomeBefore'
    BY <1>2, <1>9 DEF IInv, NoOutcomeBefore
  <1>21. OneOutcomePerNudge'
    <2> SUFFICES ASSUME NEW n \in EveryNudge', n.gate \notin overlapped \cup late
                 PROVE  outcomes[n] = IF queue'[n] = "QUEUED" THEN 0 ELSE 1
      BY <1>2 DEF OneOutcomePerNudge, history
    <2>1. CASE n # id
      BY <1>8, <1>9, <2>1 DEF IInv, OneOutcomePerNudge
    <2>2. CASE n = id
      <3>1. id \notin EveryNudge
        BY <1>1, <1>3, <1>6, <2>2, TimesAreNumbers, CooldownAssumption
      <3> QED
        BY <1>3, <1>8, <2>2, <3>1 DEF IInv, NoOutcomeBefore
    <2> QED
      BY <2>1, <2>2
  <1> QED
    BY <1>11, <1>13, <1>14, <1>15, <1>16, <1>17, <1>18, <1>19, <1>20, <1>21 DEF IInv

(* A command fails: the handler is done, and a key may be lost.            *)
LEMMA CommandFailsStep ==
    ASSUME IInv, NEW h \in Handlers, CommandFails(h)
    PROVE  IInv'
  <1> DEFINE pair == <<handler[h].gate, Head(handler[h].fans)>>
  <1>1. TypeOK /\ HandlersInv /\ NudgesArePast /\ KeysOutlast
    BY DEF IInv
  <1>2. /\ commands # <<>>
        /\ pc[h] # "idle"
        /\ pc' = [pc EXCEPT ![h] = "idle"]
        /\ handler' = [handler EXCEPT ![h] = NoLocal]
        /\ commands' = Tail(commands)
        /\ UNCHANGED <<now, updates, forecastsByGate, fansByGate, queue, audit, outcomes,
                       overlapped, late, early>>
    BY DEF CommandFails
  <1>3. \/ cooldownKeys' = cooldownKeys
        \/ SetKey(h) /\ lost' = lost \cup {pair}
    BY DEF CommandFails
  <1>4. lost' \in {lost, lost \cup {pair}}
    BY DEF CommandFails
  <1>5. handler[h].gate \in Gates /\ Head(handler[h].fans) \in Fans
    BY <1>1, <1>2, InFlightTypes
  <1>6. pair \in Gates \X Fans
    BY <1>5
  <1>7. cooldownKeys' \in [Gates -> [Fans -> Key]]
    BY <1>1, <1>2, <1>3, SetKeyEffect DEF TypeOK
  <1>8. commands' \in Seq(Handlers)
    BY <1>1, <1>2, HeadTailProperties DEF TypeOK
  <1>9. /\ pc' \in [Handlers -> {"idle", "reading", "writing"}]
        /\ handler' \in [Handlers -> Local]
        /\ pc'[h] = "idle" /\ handler'[h] = NoLocal
        /\ \A k \in Handlers \ {h} : pc'[k] = pc[k] /\ handler'[k] = handler[k]
    BY <1>1, <1>2, NoLocalType DEF TypeOK
  <1>10. TypeOK'
    BY <1>1, <1>2, <1>4, <1>6, <1>7, <1>8, <1>9 DEF TypeOK
  <1>11. EveryNudge' = EveryNudge
    BY <1>2 DEF EveryNudge
  <1>12. Moves(h)
    BY <1>2, <1>9, NoLocalType DEF Moves
  <1>13. HandlersInv' /\ NudgesArePast'
    BY <1>1, <1>11, <1>12, MovesKeep
  <1>14. KeysOutlast'
    <2>1. CASE cooldownKeys' = cooldownKeys
      BY <1>1, <1>2, <1>11, <2>1 DEF KeysOutlast
    <2>2. CASE SetKey(h)
      BY <1>2, <1>11, <2>2, SetKeyKeepsKeys
    <2> QED
      BY <1>3, <2>1, <2>2
  <1>15. KeysStandForNudges'
    <2> SUFFICES ASSUME NEW g \in Gates, NEW f \in Fans,
                        now < cooldownKeys'[g][f].expires, <<g, f>> \notin lost'
                 PROVE  [fan |-> f, gate |-> g, at |-> cooldownKeys'[g][f].at] \in EveryNudge
      BY <1>2, <1>11 DEF KeysStandForNudges
    <2>1. <<g, f>> \notin lost
      BY <1>4
    <2>2. CASE cooldownKeys' = cooldownKeys
      BY <2>1, <2>2 DEF IInv, KeysStandForNudges
    <2>3. CASE SetKey(h) /\ lost' = lost \cup {pair}
      <3>1. ~(g = handler[h].gate /\ f = Head(handler[h].fans))
        BY <2>3
      <3>2. cooldownKeys'[g][f] = cooldownKeys[g][f]
        BY <1>1, <1>2, <2>3, <3>1, SetKeyEffect
      <3> QED
        BY <2>1, <3>2 DEF IInv, KeysStandForNudges
    <2> QED
      BY <1>3, <2>2, <2>3
  <1>16. NudgeStillDue' /\ GeneratedAreQueued'
    BY <1>2, <1>9, <1>11 DEF IInv, NudgeStillDue, GeneratedAreQueued, InFlight
  <1>17. CooldownKeptUnlessRaced' /\ AuditKeepsOutcomeUnlessEarly'
    BY <1>2, <1>11 DEF IInv, CooldownKeptUnlessRaced, TooSoon, AuditKeepsOutcomeUnlessEarly
  <1>18. NoOutcomeBefore' /\ OneOutcomePerNudge'
    BY <1>2, <1>11 DEF IInv, NoOutcomeBefore, OneOutcomePerNudge
  <1> QED
    BY <1>10, <1>13, <1>14, <1>15, <1>16, <1>17, <1>18 DEF IInv

-----------------------------------------------------------------------------
LEMMA StutterStep == ASSUME IInv, UNCHANGED vars PROVE IInv'
  <1>1. TypeOK'
    BY DEF IInv, TypeOK, vars
  <1> QED
    BY <1>1, Unaffected DEF vars, store, history

(***************************************************************************)
(* The inductive invariant: what a handler holds between two commands, how *)
(* recent the key of a nudge is, and what has been queued, settled and     *)
(* published of it.                                                        *)
(***************************************************************************)
THEOREM FanNudgesInductive == Spec => []IInv
  <1>1. Init => IInv
    BY InitInv
  <1>2. IInv /\ [Next]_vars => IInv'
    <2> SUFFICES ASSUME IInv, [Next]_vars
                 PROVE  IInv'
      OBVIOUS
    <2>1. ASSUME NEW f \in Fans, NEW g \in Gates, TrackFan(f, g)
          PROVE  IInv'
      BY <2>1, TrackFanStep
    <2>2. ASSUME NEW h \in Handlers, NEW g \in Gates, NEW s \in Scores, ScoreUpdate(h, g, s)
          PROVE  IInv'
      BY <2>2, ScoreUpdateStep
    <2>3. ASSUME NEW h \in Handlers, ReadReply(h) \/ WriteReply(h) \/ CommandFails(h)
          PROVE  IInv'
      BY <2>3, ReadReplyStep, WriteReplyStep, CommandFailsStep
    <2>4. CASE ProcessQueue
      BY <2>4, ProcessQueueStep
    <2>5. CASE Tick
      BY <2>5, TickStep
    <2>6. CASE UNCHANGED vars
      BY <2>6, StutterStep
    <2> QED
      BY <2>1, <2>2, <2>3, <2>4, <2>5, <2>6 DEF Next, RedisReply
  <1> QED
    BY <1>1, <1>2, PTL DEF Spec

(* Every variable keeps its type.                                          *)
THEOREM FanTypes == Spec => []TypeOK
  <1>1. IInv => TypeOK
    BY DEF IInv
  <1> QED
    BY <1>1, FanNudgesInductive, PTL

(***************************************************************************)
(* generateFanNudge keeps the cooldown, for any number of handlers in      *)
(* flight, fans and gates: two nudges of a fan for a gate are a cooldown   *)
(* apart unless two handlers of the gate overlapped or one outlived a      *)
(* tick.                                                                   *)
(***************************************************************************)
THEOREM CooldownIsKept == Spec => []CooldownKeptUnlessRaced
  <1>1. IInv => CooldownKeptUnlessRaced
    BY DEF IInv
  <1> QED
    BY <1>1, FanNudgesInductive, PTL

(***************************************************************************)
(* The keys setLastNudgeAt leaves in Redis are those of the nudges queued, *)
(* whatever the worker did to them and however the handlers raced.         *)
(***************************************************************************)
THEOREM KeysAreOfNudges == Spec => []KeysMatchNudges
  <1>1. IInv => KeysMatchNudges
    <2> SUFFICES ASSUME IInv PROVE KeysMatchNudges
      OBVIOUS
    <2>1. ASSUME NEW g \in Gates, NEW f \in Fans, NEW at \in LastNudgeAt(g, f),
                 <<g, f>> \notin lost
          PROVE  [fan |-> f, gate |-> g, at |-> at] \in EveryNudge
      BY <2>1 DEF IInv, KeysStandForNudges, LastNudgeAt
    <2>2. ASSUME NEW n \in EveryNudge, now < n.at + Cooldown
          PROVE  \E at \in LastNudgeAt(n.gate, n.fan) :
                     n.at <= at \/ n.gate \in overlapped \cap late
      <3>1. /\ n.at + Cooldown <= cooldownKeys[n.gate][n.fan].expires
            /\ n.gate \notin overlapped \cap late => n.at <= cooldownKeys[n.gate][n.fan].at
        BY DEF IInv, KeysOutlast
      <3>2. /\ now \in Nat /\ n.at \in Nat /\ Cooldown \in Nat
            /\ cooldownKeys[n.gate][n.fan].expires \in Nat
        BY TimesAreNumbers, CooldownAssumption DEF IInv, EveryNudge, NudgeId
      <3>3. now < cooldownKeys[n.gate][n.fan].expires
        BY <2>2, <3>1, <3>2
      <3> QED
        BY <3>1, <3>3 DEF LastNudgeAt
    <2> QED
      BY <2>1, <2>2 DEF KeysMatchNudges
  <1> QED
    BY <1>1, FanNudgesInductive, PTL

(***************************************************************************)
(* The audit log ends with the outcome processQueue recorded, unless the   *)
(* worker settled the nudge before its handler published it: a handler     *)
(* that publishes later never writes over an outcome it did not race.      *)
(***************************************************************************)
THEOREM AuditEndsWithOutcome == Spec => []AuditKeepsOutcomeUnlessEarly
  <1>1. IInv => AuditKeepsOutcomeUnlessEarly
    BY DEF IInv
  <1> QED
    BY <1>1, FanNudgesInductive, PTL

(***************************************************************************)
(* However often processQueue runs over a queue nothing leaves, a nudge    *)
(* gets one outcome, and none while it is queued.                          *)
(***************************************************************************)
THEOREM OutcomesAreUnique == Spec => []OneOutcomePerNudge
  <1>1. IInv => OneOutcomePerNudge
    BY DEF IInv
  <1> QED
    BY <1>1, FanNudgesInductive, PTL
=============================================================================
