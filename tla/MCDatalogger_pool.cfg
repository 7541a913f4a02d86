SPECIFICATION Spec
CONSTANTS
    PoolUnits = 60
    QueueDepth = 32
    Period <- MCPeriod
    RadioStalls = FALSE
PROPERTY BufferTaken
