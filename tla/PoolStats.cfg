SPECIFICATION Spec
CONSTANTS
    Slot = {b1, b2, b3}
    Size = {1, 3, 5}
    PoolSize = 12
    Overhead = 1
    Range32 = 64
    MaxTakes = 5
INVARIANTS TypeOK RoomFollowsHeap CountFollowsHeap LowWater FiguresFit
