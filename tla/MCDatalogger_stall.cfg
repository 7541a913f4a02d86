SPECIFICATION Spec
CONSTANTS
    PoolUnits = 30
    QueueDepth = 16
    Period <- MCPeriod
    RadioStalls = TRUE
INVARIANT HeartbeatGoesOn
