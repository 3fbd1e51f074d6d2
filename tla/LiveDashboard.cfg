SPECIFICATION LiveSpec
CONSTANTS
    j1 = j1
    j2 = j2
    Gates <- MCGates
    Jobs <- MCJobs
    Scores <- MCScores
    ActionTypes = {"OPEN_GATE_LANE"}
    MaxSignals = 1
    MaxRuns = 2
    Clients = {"staff", "auditor", "device"}
    KeyOf <- MCKeyOf
    Entries <- MCEntries
    NoKey = ""
INVARIANTS
    DashboardTypeOK
    StreamKeepsClientsCurrent
    AlertsReachClients
    HubHoldsLiveStaff
PROPERTIES
    ImplementsPipeline
CHECK_DEADLOCK FALSE
