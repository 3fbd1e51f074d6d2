SPECIFICATION Spec
CONSTANTS
    j1 = j1
    j2 = j2
    Gates <- OneGate
    Jobs <- MCJobs
    Scores <- MCScores
    ActionTypes = {"OPEN_GATE_LANE"}
    MaxSignals = 1
    MaxRuns = 3
INVARIANT
    AlertsMatchTransitions
CHECK_DEADLOCK FALSE
