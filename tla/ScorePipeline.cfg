SPECIFICATION Spec
CONSTANTS
    j1 = j1
    j2 = j2
    Gates <- MCGates
    Jobs <- MCJobs
    Scores <- MCScores
    ActionTypes = {"OPEN_GATE_LANE"}
    MaxSignals = 1
    MaxRuns = 3
INVARIANTS
    TypeOK
    AlertsExactUnlessOverlapped
    ActionsFollowForecast
    LiveForecastIsStored
    DashboardOffersActiveActions
PROPERTIES
    ForecastNeverGoesBack
    ScoresGetActions
CHECK_DEADLOCK FALSE
