SPECIFICATION Spec
CONSTANTS
    h1 = h1
    h2 = h2
    fan1 = fan1
    fan2 = fan2
    Gates <- MCGates
    Handlers <- MCHandlers
    Fans <- MCFans
    Scores <- MCScores
    Cooldown = 2
    MaxUpdates = 2
    MaxTime = 3
INVARIANT
    CooldownRespected
CHECK_DEADLOCK FALSE
