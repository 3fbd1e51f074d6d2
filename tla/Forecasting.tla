------------------------------ MODULE Forecasting ------------------------------
(***************************************************************************)
(* The two pure cores of the system: computeForecast (congestion-          *)
(* forecaster/forecast.ts) and the ranking of generateRecommendations      *)
(* (recommendation-engine/recommendations.ts).                             *)
(*                                                                         *)
(* Numbers are exact here: scores are rounded from the fraction             *)
(* total / threshold, growth factors count in hundredths and impacts in    *)
(* tenths, where the code computes with doubles.                           *)
(***************************************************************************)
EXTENDS Integers, FiniteSets, RiskLevels

CONSTANTS
    CapacityThreshold,   \* of the gate
    RecentWindow         \* RECENT_WINDOW_MS

ASSUME CapacityAssumption == CapacityThreshold \in Nat
ASSUME RecentWindowAssumption == RecentWindow \in Nat

Source == {"GATE_COUNTER", "TICKET_SCANNER", "TRANSIT_FEED"}

(* FORECAST_OFFSETS_MINUTES and OFFSET_GROWTH_FACTOR, in hundredths.       *)
Offsets == {0, 5, 10, 15}
GrowthFactor(offset) == 100 + offset

(* A ticket scan is one fan; `count` is what the two other payloads carry. *)
IncomingCount(event) ==
    IF event.source = "TICKET_SCANNER" THEN 1 ELSE event.count

(* The events a forecast takes into account.                               *)
Counts(event, now) == ~event.isStale /\ now - event.timestamp <= RecentWindow

Clamp(value) == IF value > 100 THEN 100 ELSE value

Threshold == IF CapacityThreshold > 1 THEN CapacityThreshold ELSE 1

(* Math.round of n / d, for d > 0.                                         *)
Rounded(n, d) == (2 * n + d) \div (2 * d)

(* The score predicted at an offset from the total of incoming people: the *)
(* base is clamped before it grows, the result once more.                  *)
GrownScore(total, offset) ==
    Rounded(100 * total * GrowthFactor(offset), 100 * Threshold)
PredictedScore(total, offset) ==
    LET base == IF total > Threshold THEN Threshold ELSE total
    IN  Clamp(Rounded(100 * base * GrowthFactor(offset), 100 * Threshold))
-----------------------------------------------------------------------------
(* CANDIDATE_ACTION_TYPES.                                                 *)
CandidateActionTypes ==
    {"OPEN_GATE_LANE", "REDIRECT_SHUTTLE_ROUTE", "HOLD_TRANSIT_ARRIVAL",
     "FAN_NUDGE_CAMPAIGN"}

(* impactForActionType, in tenths; seen[s] is the number of events of      *)
(* source s in the window, those that no longer count included.            *)
Impact(type, score, seen) ==
    CASE type = "OPEN_GATE_LANE" ->
            10 * score + 20 * seen["GATE_COUNTER"] + 5 * seen["TICKET_SCANNER"]
      [] type = "REDIRECT_SHUTTLE_ROUTE" -> 9 * score + 30 * seen["TRANSIT_FEED"]
      [] type = "HOLD_TRANSIT_ARRIVAL"   -> 7 * score + 20 * seen["TRANSIT_FEED"]
      [] type = "FAN_NUDGE_CAMPAIGN"     -> 5 * score + 3 * seen["TICKET_SCANNER"]

(* The order of the type names.                                            *)
NameOrder == [FAN_NUDGE_CAMPAIGN |-> 1, HOLD_TRANSIT_ARRIVAL |-> 2,
              OPEN_GATE_LANE |-> 3, REDIRECT_SHUTTLE_ROUTE |-> 4]

(* The comparator of the sort: impact, highest first, then name.           *)
OutranksAscending(a, b, score, seen) ==
    \/ Impact(a, score, seen) < Impact(b, score, seen)
    \/ /\ Impact(a, score, seen) = Impact(b, score, seen)
       /\ NameOrder[a] < NameOrder[b]
Outranks(a, b, score, seen) ==
    \/ Impact(a, score, seen) > Impact(b, score, seen)
    \/ /\ Impact(a, score, seen) = Impact(b, score, seen)
       /\ NameOrder[a] < NameOrder[b]

(* The actionRank of each recommended type, nothing below MODERATE: its    *)
(* place in the sorted list, which is one more than those before it there. *)
ActionRanks(score, seen) ==
    [type \in IF DeriveRiskLevel(score) = "LOW" THEN {} ELSE CandidateActionTypes |->
        1 + Cardinality({b \in CandidateActionTypes : Outranks(b, type, score, seen)})]
=============================================================================
