SPECIFICATION Spec
CONSTANTS
    CapacityThreshold = 5
    RecentWindow = 2
    Bodies <- MCBodies
    SourceTimeout <- MCSourceTimeout
    StaleThreshold = 2
    LateThreshold = 1
    Retention = 2
    MaxPosts = 2
    MaxCommands = 2
    MaxTime = 3
CHECK_DEADLOCK FALSE
PROPERTY PriorScoreRetained
