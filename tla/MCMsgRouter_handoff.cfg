SPECIFICATION Spec
CONSTANTS
    NumTasks = 2
    Clients = {main}
    Buffers = {b1, b2, b3}
    A = A
    Codes = {Invalid, Periodic, A}
    SMC_INVALID = Invalid
    SMC_PERIODIC = Periodic
    QueueDepth = 2
    Handles <- MCHandles
    Accepts <- MCAccepts
    Senders = {main}
    HandOff = {1}
    IsrSends = {}
    Timed = {2}
    Flushers = {main}
    Callbacks = {}
    NoBuf = NoBuf
    NoCb = NoCb
    Freed = Freed
SYMMETRY Symmetry
INVARIANT OptionsOfMessage
