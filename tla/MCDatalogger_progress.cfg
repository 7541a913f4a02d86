SPECIFICATION FairSpec
CONSTANTS
    PoolUnits = 30
    QueueDepth = 16
    Period <- MCPeriod
    RadioStalls = FALSE
INVARIANTS TypeOK HeartbeatGoesOn HeartbeatHasRoom
PROPERTIES MeasuresForever BacklogDrains
