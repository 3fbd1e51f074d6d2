SPECIFICATION Spec
CONSTANTS
    r1 = r1
    r2 = r2
    Gates <- MCGates
    Routes <- MCRoutes
    AssignedTo <- MCAssignedTo
    Scores <- MCScores
    Suppression = 2
    MaxUpdates = 3
    MaxDecisions = 2
    MaxTime = 3
INVARIANTS
    TypeOK
    AcknowledgedRejectionHolds
PROPERTY
    DecisionsLast
CHECK_DEADLOCK FALSE
