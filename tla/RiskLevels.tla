----------------------------- MODULE RiskLevels -----------------------------
(***************************************************************************)
(* Congestion scores, risk levels and the choice of an alternative gate:   *)
(* the pure functions every other component of the forecaster calls        *)
(* (congestion-forecaster/risk-level.ts and risk-comparison.ts).           *)
(*                                                                         *)
(* A forecast is the map forecastsByGate restricted to what the functions  *)
(* read: a function from the gates that have a forecast to the score of    *)
(* its first point.  The risk level of a point is always the one derived   *)
(* from its score (forecast.ts:117), so it is not stored a second time.    *)
(***************************************************************************)
EXTENDS Naturals

Score == 0 .. 100

RiskLevel == {"LOW", "MODERATE", "HIGH", "CRITICAL"}

RiskOrder == [LOW |-> 0, MODERATE |-> 1, HIGH |-> 2, CRITICAL |-> 3]

(* deriveRiskLevel; a score out of bounds throws, here it has no level.    *)
DeriveRiskLevel(score) ==
    CASE score \in 0 .. 39   -> "LOW"
      [] score \in 40 .. 69  -> "MODERATE"
      [] score \in 70 .. 89  -> "HIGH"
      [] score \in 90 .. 100 -> "CRITICAL"

(* The constant HIGH_OR_CRITICAL of alerts.ts, redirections.ts, nudges.ts. *)
HighOrCritical == {"HIGH", "CRITICAL"}

Severe(score) == DeriveRiskLevel(score) \in HighOrCritical

RiskOrderOf(score) == RiskOrder[DeriveRiskLevel(score)]

(***************************************************************************)
(* pickAlternativeGate: among the other gates that have a forecast, those  *)
(* of strictly lower risk than the origin, ordered by risk, then score,    *)
(* then gate id.  Gate ids are numbers, ordered as localeCompare orders    *)
(* the names.  The empty set stands for `undefined`.                       *)
(***************************************************************************)
Alternatives(origin, forecasts) ==
    {g \in DOMAIN forecasts \ {origin} :
        RiskOrderOf(forecasts[g]) < RiskOrderOf(forecasts[origin])}

Better(g, h, forecasts) ==
    \/ RiskOrderOf(forecasts[g]) < RiskOrderOf(forecasts[h])
    \/ /\ RiskOrderOf(forecasts[g]) = RiskOrderOf(forecasts[h])
       /\ \/ forecasts[g] < forecasts[h]
          \/ forecasts[g] = forecasts[h] /\ g <= h

PickAlternativeGate(origin, forecasts) ==
    {g \in Alternatives(origin, forecasts) :
        \A h \in Alternatives(origin, forecasts) : Better(g, h, forecasts)}
=============================================================================
