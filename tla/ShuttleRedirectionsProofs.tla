---------------------- MODULE ShuttleRedirectionsProofs ----------------------
(***************************************************************************)
(* Theorems about ShuttleRedirections, for any gates, routes, scores and   *)
(* period of suppression.                                                  *)
(***************************************************************************)
EXTENDS ShuttleRedirections, SequenceTheorems, WellFoundedInduction, TLAPS

(* What has been acknowledged is in the list that is consulted.            *)
AcknowledgedAreKept == \A a \in acknowledged : a.rejection \in recentRejections

(* No handler has started and nothing is recommended ahead of time.        *)
NotAhead == /\ \A h \in handling : h.at <= now
            /\ \A r \in recommendations : r.made <= now

(* What has been decided was decided before any handler of now started: a  *)
(* handler makes records of its own time, so if the decision was later     *)
(* than the record, none of them has its id.                               *)
DecidedBefore ==
    \A r \in recommendations : r.status # "PENDING" =>
        /\ r.decidedAt <= now
        /\ \A h \in handling : r.decidedAt <= h.at

Inv ==
    /\ TypeOK
    /\ AcknowledgedAreKept
    /\ NotAhead
    /\ DecidedBefore
    /\ AcknowledgedRejectionHolds

LEMMA InitInv == Init => Inv
  <1> SUFFICES ASSUME Init PROVE Inv
    OBVIOUS
  <1>1. recording \in Seq(Rejection)
    BY EmptySeq DEF Init
  <1>2. TypeOK
    BY <1>1, BoundsAssumption DEF Init, TypeOK, Time
  <1> QED
    BY <1>2 DEF Init, Inv, AcknowledgedAreKept, NotAhead, DecidedBefore,
                AcknowledgedRejectionHolds

(* Every time of a handler and of a record is a number.                    *)
LEMMA TimesAreNumbers ==
    ASSUME TypeOK
    PROVE  /\ now \in Nat
           /\ \A h \in handling : h.at \in Nat
           /\ \A r \in recommendations : /\ r.at \in Nat
                                         /\ r.made \in Nat
                                         /\ r.decidedAt \in Nat
           /\ \A j \in recentRejections : j.at \in Nat
  BY BoundsAssumption DEF TypeOK, Time, Handler, Recommendation, Rejection

(* What a handler recommends is well formed, of the handler's time, made   *)
(* now, pending, and of no pair rejected within the period: a rejection    *)
(* that was filtered out is too old by the clock, one that was not is too  *)
(* old by the handler's time, which is not ahead of it.                    *)
LEMMA RedirectionsAreSound ==
    ASSUME TypeOK, NotAhead,
           NEW h \in handling,
           NEW r \in Redirections(h)
    PROVE  /\ r \in Recommendation
           /\ r.at = h.at /\ r.made = now /\ r.status = "PENDING"
           /\ \A j \in recentRejections :
                 Concerns(j, r) => now >= j.at + Suppression
  <1>1. h.gate \in Gates /\ h.at \in Time /\ now \in Time
    BY DEF TypeOK, Handler
  <1>2. AssignedTo[h.gate] \subseteq Routes
    BY <1>1, RoutesAssumption
  <1>3. PickAlternativeGate(h.gate, forecastsByGate) \subseteq Gates
    BY DEF PickAlternativeGate, Alternatives, TypeOK
  <1>4. r \in [route : AssignedTo[h.gate], origin : {h.gate},
               alternative : PickAlternativeGate(h.gate, forecastsByGate), at : {h.at},
               made : {now}, status : {"PENDING"}, decidedAt : {0}]
    BY DEF Redirections
  <1>5. 0 \in Time
    BY BoundsAssumption DEF Time
  <1>6. r \in Recommendation
    BY <1>1, <1>2, <1>3, <1>4, <1>5 DEF Recommendation
  <1>7. r.at = h.at /\ r.made = now /\ r.status = "PENDING"
    BY <1>4
  <1>8. ~Suppressed(r)
    BY DEF Redirections
  <1>9. ASSUME NEW j \in recentRejections, Concerns(j, r)
        PROVE  now >= j.at + Suppression
    <2>1. now \in Nat /\ h.at \in Nat /\ j.at \in Nat /\ h.at <= now
      BY TimesAreNumbers DEF NotAhead
    <2>2. CASE j \in RecentRejections
      <3>1. ~(r.at < j.at + Suppression)
        BY <1>8, <1>9, <2>2 DEF Suppressed
      <3> QED
        BY <1>7, <2>1, <3>1, SuppressionAssumption
    <2>3. CASE j \notin RecentRejections
      <3>1. ~(j.at + Suppression >= now)
        BY <2>3 DEF RecentRejections
      <3> QED
        BY <2>1, <3>1, SuppressionAssumption
    <2> QED
      BY <2>2, <2>3
  <1> QED
    BY <1>6, <1>7, <1>9

LEMMA ScoreUpdateKeepsInv ==
    ASSUME Inv, NEW g \in Gates, NEW s \in Scores, ScoreUpdate(g, s)
    PROVE  Inv'
  <1> DEFINE forecasts == [h \in DOMAIN forecastsByGate \cup {g} |->
                              IF h = g THEN s ELSE forecastsByGate[h]]
             new == [id |-> updates', gate |-> g, at |-> now]
  <1>1. TypeOK /\ AcknowledgedAreKept /\ NotAhead /\ DecidedBefore /\ AcknowledgedRejectionHolds
    BY DEF Inv
  <1>2. /\ updates < MaxUpdates
        /\ updates' = updates + 1
        /\ forecastsByGate' = forecasts
        /\ handling' = handling \cup {new}
        /\ UNCHANGED <<now, decisions, recommendations, recording, recentRejections,
                       rejections, acknowledged>>
    BY DEF ScoreUpdate
  <1>3. /\ DOMAIN forecasts \subseteq Gates
        /\ \A h \in DOMAIN forecasts : forecasts[h] \in Score
    BY <1>1, ScoresAssumption DEF TypeOK
  <1>4. updates' \in 0 .. MaxUpdates /\ updates' \in 1 .. MaxUpdates
    BY <1>1, <1>2, BoundsAssumption DEF TypeOK
  <1>5. new \in Handler /\ new.at = now
    BY <1>1, <1>4 DEF TypeOK, Handler
  <1> HIDE DEF forecasts, new
  <1>6. TypeOK'
    BY <1>1, <1>2, <1>3, <1>4, <1>5 DEF TypeOK
  <1>7. NotAhead'
    <2>1. now \in Nat
      BY <1>1, TimesAreNumbers
    <2> QED
      BY <1>1, <1>2, <1>5, <2>1 DEF NotAhead
  <1>8. DecidedBefore'
    BY <1>1, <1>2, <1>5 DEF DecidedBefore
  <1> QED
    BY <1>1, <1>2, <1>6, <1>7, <1>8 DEF Inv, AcknowledgedAreKept, AcknowledgedRejectionHolds,
                                        Concerns

LEMMA GenerateKeepsInv ==
    ASSUME Inv, NEW h \in handling, GenerateRedirections(h)
    PROVE  Inv'
  <1> DEFINE new == Redirections(h)
  <1>1. TypeOK /\ AcknowledgedAreKept /\ NotAhead /\ DecidedBefore /\ AcknowledgedRejectionHolds
    BY DEF Inv
  <1>2. /\ handling' = handling \ {h}
        /\ recommendations' = Updated(new)
        /\ UNCHANGED <<now, updates, decisions, forecastsByGate, recording,
                       recentRejections, rejections, acknowledged>>
    BY DEF GenerateRedirections
  <1>3. \A r \in new : /\ r \in Recommendation
                       /\ r.made = now /\ r.status = "PENDING"
                       /\ \A j \in recentRejections :
                             Concerns(j, r) => now >= j.at + Suppression
    BY <1>1, RedirectionsAreSound
  <1> HIDE DEF new
  <1>4. recommendations' \subseteq recommendations \cup new
    BY <1>2 DEF Updated
  <1>5. TypeOK'
    <2>1. recommendations' \subseteq Recommendation
      BY <1>1, <1>3, <1>4 DEF TypeOK
    <2> QED
      BY <1>1, <1>2, <2>1 DEF TypeOK
  <1>6. AcknowledgedAreKept'
    BY <1>1, <1>2 DEF AcknowledgedAreKept
  <1>7. NotAhead'
    <2>1. now \in Nat
      BY <1>1, TimesAreNumbers
    <2> QED
      BY <1>1, <1>2, <1>3, <1>4, <2>1 DEF NotAhead
  <1>8. DecidedBefore'
    BY <1>1, <1>2, <1>3, <1>4 DEF DecidedBefore
  <1>9. AcknowledgedRejectionHolds'
    <2> SUFFICES ASSUME NEW a \in acknowledged, NEW r \in recommendations',
                        Concerns(a.rejection, r), a.at < r.made
                 PROVE  r.made >= a.rejection.at + Suppression
      BY <1>2 DEF AcknowledgedRejectionHolds, Concerns
    <2>1. CASE r \in recommendations
      BY <1>1, <2>1 DEF AcknowledgedRejectionHolds
    <2>2. CASE r \in new
      BY <1>1, <1>3, <2>2 DEF AcknowledgedAreKept
    <2> QED
      BY <1>4, <2>1, <2>2
  <1> QED
    BY <1>5, <1>6, <1>7, <1>8, <1>9 DEF Inv

(* A request changes what was decided of one record, and nothing else.     *)
LEMMA DecideKeeps ==
    ASSUME Inv, NEW r \in recommendations, NEW status \in {"ACCEPTED", "REJECTED"},
           Decide(r, status)
    PROVE  /\ handling = {}
           /\ decisions' \in 0 .. MaxDecisions
           /\ recommendations' \subseteq Recommendation
           /\ \A s \in recommendations' :
                 \/ s \in recommendations
                 \/ /\ s.made = r.made /\ s.decidedAt = now
                    /\ s.route = r.route /\ s.alternative = r.alternative
  <1> DEFINE d == [r EXCEPT !.status = status, !.decidedAt = now]
  <1>1. TypeOK
    BY DEF Inv
  <1>2. r \in Recommendation /\ now \in Time
    BY <1>1 DEF TypeOK
  <1>3. /\ d \in Recommendation
        /\ d.made = r.made /\ d.decidedAt = now
        /\ d.route = r.route /\ d.alternative = r.alternative
    BY <1>2 DEF Recommendation
  <1>4. /\ recommendations' \subseteq recommendations \cup {d}
        /\ handling = {}
        /\ decisions < MaxDecisions
        /\ decisions' = decisions + 1
    BY DEF Decide, Updated
  <1> HIDE DEF d
  <1>5. decisions' \in 0 .. MaxDecisions
    BY <1>1, <1>4, BoundsAssumption DEF TypeOK
  <1> QED
    BY <1>1, <1>3, <1>4, <1>5 DEF TypeOK

LEMMA DecideKeepsRest ==
    ASSUME Inv, NEW r \in recommendations, NEW status \in {"ACCEPTED", "REJECTED"},
           Decide(r, status),
           UNCHANGED <<now, handling, recentRejections, acknowledged>>
    PROVE  AcknowledgedAreKept' /\ NotAhead' /\ DecidedBefore' /\ AcknowledgedRejectionHolds'
  <1>1. TypeOK /\ AcknowledgedAreKept /\ NotAhead /\ DecidedBefore /\ AcknowledgedRejectionHolds
    BY DEF Inv
  <1>2. /\ handling = {}
        /\ \A s \in recommendations' :
              \/ s \in recommendations
              \/ /\ s.made = r.made /\ s.decidedAt = now
                 /\ s.route = r.route /\ s.alternative = r.alternative
    BY DecideKeeps
  <1>3. AcknowledgedAreKept'
    BY <1>1 DEF AcknowledgedAreKept
  <1>4. NotAhead'
    BY <1>1, <1>2 DEF NotAhead
  <1>5. DecidedBefore'
    <2>1. now \in Nat
      BY <1>1, TimesAreNumbers
    <2> QED
      BY <1>1, <1>2, <2>1 DEF DecidedBefore
  <1>6. AcknowledgedRejectionHolds'
    BY <1>1, <1>2 DEF AcknowledgedRejectionHolds, Concerns
  <1> QED
    BY <1>3, <1>4, <1>5, <1>6

LEMMA RejectKeepsInv ==
    ASSUME Inv, NEW r \in recommendations, RejectRedirection(r)
    PROVE  Inv'
  <1> DEFINE j == [route |-> r.route, alternative |-> r.alternative, at |-> now]
  <1>1. TypeOK
    BY DEF Inv
  <1>2. /\ Decide(r, "REJECTED")
        /\ recording' = Append(recording, j)
        /\ rejections' = rejections \cup {j}
        /\ UNCHANGED <<now, updates, forecastsByGate, handling, recentRejections,
                       acknowledged>>
    BY DEF RejectRedirection
  <1>3. j \in Rejection
    BY <1>1 DEF TypeOK, Recommendation, Rejection
  <1> HIDE DEF j
  <1>4. recording' \in Seq(Rejection)
    BY <1>1, <1>2, <1>3, AppendProperties DEF TypeOK
  <1>5. decisions' \in 0 .. MaxDecisions /\ recommendations' \subseteq Recommendation
    BY <1>2, DecideKeeps
  <1>6. TypeOK'
    BY <1>1, <1>2, <1>3, <1>4, <1>5 DEF TypeOK
  <1> QED
    BY <1>2, <1>6, DecideKeepsRest DEF Inv

LEMMA AcceptKeepsInv ==
    ASSUME Inv, NEW r \in recommendations, AcceptRedirection(r)
    PROVE  Inv'
  <1>1. /\ Decide(r, "ACCEPTED")
        /\ UNCHANGED <<now, updates, forecastsByGate, handling, recording,
                       recentRejections, rejections, acknowledged>>
    BY DEF AcceptRedirection
  <1>2. decisions' \in 0 .. MaxDecisions /\ recommendations' \subseteq Recommendation
    BY <1>1, DecideKeeps
  <1>3. TypeOK'
    BY <1>1, <1>2 DEF Inv, TypeOK
  <1> QED
    BY <1>1, <1>3, DecideKeepsRest DEF Inv

LEMMA ReplyKeepsInv ==
    ASSUME Inv, RejectionRecorded \/ RejectionFails
    PROVE  Inv'
  <1>1. TypeOK /\ AcknowledgedAreKept /\ NotAhead /\ DecidedBefore /\ AcknowledgedRejectionHolds
    BY DEF Inv
  <1>2. recording # <<>>
    BY DEF RejectionRecorded, RejectionFails
  <1>3. Head(recording) \in Rejection /\ Tail(recording) \in Seq(Rejection)
    BY <1>1, <1>2, HeadTailProperties DEF TypeOK
  <1>4. CASE RejectionRecorded
    <2> DEFINE a == [rejection |-> Head(recording), at |-> now]
    <2>1. /\ recentRejections' = recentRejections \cup {Head(recording)}
          /\ acknowledged' = acknowledged \cup {a}
          /\ recording' = Tail(recording)
          /\ UNCHANGED <<now, updates, decisions, forecastsByGate, handling,
                         recommendations, rejections>>
      BY <1>4 DEF RejectionRecorded
    <2>2. TypeOK'
      BY <1>1, <1>3, <2>1 DEF TypeOK
    <2>3. AcknowledgedAreKept'
      BY <1>1, <2>1 DEF AcknowledgedAreKept
    <2>4. NotAhead' /\ DecidedBefore'
      BY <1>1, <2>1 DEF NotAhead, DecidedBefore
    <2>5. AcknowledgedRejectionHolds'
      <3> SUFFICES ASSUME NEW b \in acknowledged', NEW r \in recommendations,
                          Concerns(b.rejection, r), b.at < r.made
                   PROVE  r.made >= b.rejection.at + Suppression
        BY <2>1 DEF AcknowledgedRejectionHolds, Concerns
      <3>1. b # a
        <4>1. r.made <= now /\ r.made \in Nat /\ now \in Nat
          BY <1>1, TimesAreNumbers DEF NotAhead
        <4> QED
          BY <4>1
      <3> QED
        BY <1>1, <2>1, <3>1 DEF AcknowledgedRejectionHolds
    <2> QED
      BY <2>2, <2>3, <2>4, <2>5 DEF Inv
  <1>5. CASE RejectionFails
    <2>1. /\ recording' = Tail(recording)
          /\ UNCHANGED <<now, updates, decisions, forecastsByGate, handling,
                         recommendations, recentRejections, rejections, acknowledged>>
      BY <1>5 DEF RejectionFails
    <2> QED
      BY <1>1, <1>3, <2>1 DEF Inv, TypeOK, AcknowledgedAreKept, NotAhead,
                              DecidedBefore, AcknowledgedRejectionHolds
  <1> QED
    BY <1>4, <1>5

LEMMA TickKeepsInv ==
    ASSUME Inv, Tick
    PROVE  Inv'
  <1>1. TypeOK /\ AcknowledgedAreKept /\ NotAhead /\ DecidedBefore /\ AcknowledgedRejectionHolds
    BY DEF Inv
  <1>2. /\ now < MaxTime
        /\ now' = now + 1
        /\ UNCHANGED <<updates, decisions, forecastsByGate, handling, recommendations,
                       recording, recentRejections, rejections, acknowledged>>
    BY DEF Tick
  <1>3. now \in Nat /\ now' \in Time
    BY <1>1, <1>2, BoundsAssumption DEF TypeOK, Time
  <1>4. TypeOK'
    BY <1>1, <1>2, <1>3 DEF TypeOK
  <1>5. NotAhead' /\ DecidedBefore'
    <2>1. /\ \A h \in handling : h.at \in Nat
          /\ \A r \in recommendations : r.made \in Nat /\ r.decidedAt \in Nat
      BY <1>1, TimesAreNumbers
    <2> QED
      BY <1>1, <1>2, <1>3, <2>1 DEF NotAhead, DecidedBefore
  <1> QED
    BY <1>1, <1>2, <1>4, <1>5 DEF Inv, AcknowledgedAreKept, AcknowledgedRejectionHolds

(***************************************************************************)
(* The invariant of the list and the records, for the other theorems.      *)
(***************************************************************************)
THEOREM RedirectionInvHolds == Spec => []Inv
  <1>1. Init => Inv
    BY InitInv
  <1>2. Inv /\ [Next]_vars => Inv'
    <2> SUFFICES ASSUME Inv, [Next]_vars PROVE Inv'
      OBVIOUS
    <2>1. CASE \E g \in Gates, s \in Scores : ScoreUpdate(g, s)
      BY <2>1, ScoreUpdateKeepsInv
    <2>2. CASE \E h \in handling : GenerateRedirections(h)
      BY <2>2, GenerateKeepsInv
    <2>3. CASE \E r \in recommendations : AcceptRedirection(r) \/ RejectRedirection(r)
      BY <2>3, AcceptKeepsInv, RejectKeepsInv
    <2>4. CASE RejectionRecorded \/ RejectionFails
      BY <2>4, ReplyKeepsInv
    <2>5. CASE Tick
      BY <2>5, TickKeepsInv
    <2>6. CASE UNCHANGED vars
      BY <2>6 DEF vars, Inv, TypeOK, AcknowledgedAreKept, NotAhead,
                  DecidedBefore, AcknowledgedRejectionHolds, Concerns
    <2> QED
      BY <2>1, <2>2, <2>3, <2>4, <2>5, <2>6 DEF Next
  <1> QED
    BY <1>1, <1>2, PTL DEF Spec

(* Every record, rejection and acknowledgement has its type.               *)
THEOREM RedirectionsTyped == Spec => []TypeOK
  <1>1. Inv => TypeOK
    BY DEF Inv
  <1> QED
    BY <1>1, RedirectionInvHolds, PTL

(***************************************************************************)
(* A rejection that the reject route has answered with 200 suppresses its  *)
(* pair for the whole period, whatever scores and requests come between:   *)
(* no recommendation of the pair is made in it, whichever of the handler's *)
(* two readings of the clock is the one that lets it through.              *)
(***************************************************************************)
THEOREM RejectionsHold == Spec => []AcknowledgedRejectionHolds
  <1>1. Inv => AcknowledgedRejectionHolds
    BY DEF Inv
  <1> QED
    BY <1>1, RedirectionInvHolds, PTL

(***************************************************************************)
(* No step replaces a recommendation that was decided in a later           *)
(* millisecond than its own by a pending one: a score that recommends the  *)
(* same pair makes a record with an id of its own.                         *)
(***************************************************************************)
THEOREM DecisionsAreKept == Spec => DecisionsLast
  <1> DEFINE Kept == \A r \in recommendations :
                        r.status # "PENDING" /\ r.at < r.decidedAt =>
                        \E s \in recommendations' : SameId(r, s) /\ s.status # "PENDING"
  <1>1. Inv /\ [Next]_vars => [Kept]_vars
    <2> SUFFICES ASSUME Inv, [Next]_vars,
                        NEW r \in recommendations, r.status # "PENDING", r.at < r.decidedAt
                 PROVE  \E s \in recommendations' : SameId(r, s) /\ s.status # "PENDING"
      OBVIOUS
    <2>1. ASSUME r \in recommendations'
          PROVE  \E s \in recommendations' : SameId(r, s) /\ s.status # "PENDING"
      BY <2>1 DEF SameId
    <2>2. CASE \E h \in handling : GenerateRedirections(h)
      <3>1. PICK h \in handling : GenerateRedirections(h)
        BY <2>2
      <3> DEFINE new == Redirections(h)
      <3>2. recommendations' = Updated(new)
        BY <3>1 DEF GenerateRedirections
      <3>3. \A n \in new : n.at = h.at
        BY DEF Redirections
      <3> HIDE DEF new
      <3>4. r.decidedAt <= h.at
        BY DEF Inv, DecidedBefore
      <3>5. r.at \in Nat /\ r.decidedAt \in Nat /\ h.at \in Nat
        BY TimesAreNumbers DEF Inv
      <3>6. ~\E n \in new : SameId(n, r)
        BY <3>3, <3>4, <3>5 DEF SameId
      <3> QED
        BY <2>1, <3>2, <3>6 DEF Updated
    <2>3. CASE \E q \in recommendations : AcceptRedirection(q) \/ RejectRedirection(q)
      <3>1. PICK q \in recommendations, status \in {"ACCEPTED", "REJECTED"} :
               recommendations' = Updated({[q EXCEPT !.status = status, !.decidedAt = now]})
        BY <2>3 DEF AcceptRedirection, RejectRedirection, Decide
      <3> DEFINE d == [q EXCEPT !.status = status, !.decidedAt = now]
      <3>2. q \in Recommendation
        BY DEF Inv, TypeOK
      <3>3. /\ d.status # "PENDING"
            /\ d.route = q.route /\ d.origin = q.origin /\ d.at = q.at
        BY <3>2 DEF Recommendation
      <3>4. d \in recommendations'
        BY <3>1 DEF Updated
      <3>5. CASE SameId(d, r)
        BY <3>3, <3>4, <3>5 DEF SameId
      <3>6. CASE ~SameId(d, r)
        BY <2>1, <3>1, <3>6 DEF Updated
      <3> QED
        BY <3>5, <3>6
    <2>4. CASE UNCHANGED recommendations
      BY <2>1, <2>4
    <2> QED
      BY <2>2, <2>3, <2>4 DEF Next, ScoreUpdate, RejectionRecorded, RejectionFails, Tick, vars
  <1> QED
    BY <1>1, RedirectionInvHolds, PTL DEF Spec, DecisionsLast


-----------------------------------------------------------------------------
(* The sort of pickAlternativeGate: numbers have a least one.              *)
LEMMA LeastNumber ==
    ASSUME NEW S \in SUBSET Nat, S # {}
    PROVE  \E m \in S : \A k \in S : m <= k
  <1>1. PICK m \in S : \A k \in S : <<k, m>> \notin OpToRel(<, Nat)
    BY NatLessThanWellFounded, WFMin, Zenon
  <1>2. \A k \in S : ~(k < m)
    BY <1>1 DEF OpToRel
  <1> QED
    BY <1>2

LEMMA RiskIsOrdered ==
    ASSUME NEW score \in Score
    PROVE  RiskOrderOf(score) \in 0 .. 3
  <1>1. DeriveRiskLevel(score) \in RiskLevel
    BY DEF DeriveRiskLevel, Score, RiskLevel
  <1> QED
    BY <1>1 DEF RiskOrderOf, RiskOrder, RiskLevel

(***************************************************************************)
(* pickAlternativeGate chooses one gate, whatever the forecasts: if any    *)
(* other gate is of lower risk than the origin there is a best one, and no *)
(* two are equally good, since the names decide in the end.                *)
(***************************************************************************)
THEOREM AlternativeIsUnique ==
    ASSUME NEW D \in SUBSET Nat, NEW forecasts \in [D -> Score], NEW origin \in D,
           Alternatives(origin, forecasts) # {}
    PROVE  \E g \in D : PickAlternativeGate(origin, forecasts) = {g}
  <1>1. PICK A \in SUBSET D : A = Alternatives(origin, forecasts)
    BY DEF Alternatives
  <1>2. \A g \in A : /\ g \in Nat
                     /\ forecasts[g] \in Nat
                     /\ RiskOrderOf(forecasts[g]) \in Nat
    BY RiskIsOrdered DEF Score
  <1>3. PICK B : B = {g \in A : \A h \in A : RiskOrderOf(forecasts[g]) <= RiskOrderOf(forecasts[h])}
    OBVIOUS
  <1>4. B # {}
    <2>1. PICK S : S = {RiskOrderOf(forecasts[g]) : g \in A}
      OBVIOUS
    <2>2. S \in SUBSET Nat /\ S # {}
      BY <1>1, <1>2, <2>1
    <2>3. PICK m \in S : \A k \in S : m <= k
      BY <2>2, LeastNumber
    <2>4. PICK g \in A : RiskOrderOf(forecasts[g]) = m
      BY <2>1
    <2> QED
      BY <1>3, <2>1, <2>3, <2>4
  <1>5. PICK C : C = {g \in B : \A h \in B : forecasts[g] <= forecasts[h]}
    OBVIOUS
  <1>6. C # {}
    <2>1. PICK S : S = {forecasts[g] : g \in B}
      OBVIOUS
    <2>2. S \in SUBSET Nat /\ S # {}
      BY <1>2, <1>3, <1>4, <2>1
    <2>3. PICK m \in S : \A k \in S : m <= k
      BY <2>2, LeastNumber
    <2>4. PICK g \in B : forecasts[g] = m
      BY <2>1
    <2> QED
      BY <1>5, <2>1, <2>3, <2>4
  <1>7. PICK best \in C : \A g \in C : best <= g
    <2>1. C \in SUBSET Nat
      BY <1>2, <1>3, <1>5
    <2> QED
      BY <1>6, <2>1, LeastNumber
  <1>8. best \in A /\ best \in B
    BY <1>3, <1>5
  <1>9. ASSUME NEW h \in A
        PROVE  Better(best, h, forecasts)
    <2>1. RiskOrderOf(forecasts[best]) <= RiskOrderOf(forecasts[h])
      BY <1>3, <1>8
    <2>2. CASE h \in C
      <3>1. /\ RiskOrderOf(forecasts[h]) <= RiskOrderOf(forecasts[best])
            /\ forecasts[h] <= forecasts[best]
            /\ forecasts[best] <= forecasts[h]
            /\ best <= h
        BY <1>3, <1>5, <1>7, <1>8, <2>2
      <3> QED
        BY <1>2, <1>8, <2>1, <3>1 DEF Better
    <2>3. CASE h \in B /\ h \notin C
      <3>1. PICK k \in B : ~(forecasts[h] <= forecasts[k])
        BY <1>5, <2>3
      <3>2. forecasts[best] <= forecasts[k]
        BY <1>5, <3>1
      <3>3. forecasts[best] < forecasts[h]
        BY <1>2, <1>3, <1>8, <3>1, <3>2
      <3> QED
        BY <1>2, <1>8, <2>1, <3>3 DEF Better
    <2>4. CASE h \notin B
      <3>1. PICK k \in A : ~(RiskOrderOf(forecasts[h]) <= RiskOrderOf(forecasts[k]))
        BY <1>3, <2>4
      <3>2. RiskOrderOf(forecasts[best]) <= RiskOrderOf(forecasts[k])
        BY <1>3, <1>8
      <3> QED
        BY <1>2, <1>8, <3>1, <3>2 DEF Better
    <2> QED
      BY <2>2, <2>3, <2>4
  <1>10. ASSUME NEW g \in A, Better(g, best, forecasts)
         PROVE  g = best
    <2>1. Better(best, g, forecasts)
      BY <1>9
    <2> QED
      BY <1>2, <1>8, <1>10, <2>1 DEF Better
  <1>11. PickAlternativeGate(origin, forecasts)
            = {g \in A : \A h \in A : Better(g, h, forecasts)}
    BY <1>1 DEF PickAlternativeGate
  <1>12. PickAlternativeGate(origin, forecasts) = {best}
    BY <1>8, <1>9, <1>10, <1>11
  <1> QED
    BY <1>1, <1>8, <1>12
=============================================================================
