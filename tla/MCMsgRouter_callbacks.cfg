SPECIFICATION FairSpec
CONSTANTS
    NumTasks = 2
    Clients = {main}
    Buffers = {b1, b2}
    A = A
    Codes = {Invalid, Periodic, A}
    SMC_INVALID = Invalid
    SMC_PERIODIC = Periodic
    QueueDepth = 2
    Handles <- MCHandles
    Accepts <- MCAccepts
    Senders = {main, 1}
    HandOff = {}
    IsrSends <- MCIsrSends
    Timed = {2}
    Flushers = {}
    Callbacks = {k}
    NoBuf = NoBuf
    NoCb = NoCb
    Freed = Freed
INVARIANT CallbackAtMostOnce
PROPERTIES OwedUntilCalled AcceptedCallbackRuns EveryBufferReturns
