SPECIFICATION FairSpec
CONSTANTS
    QueueDepth = 4
    MaxEvents = 5
    SEND_DATA = SEND_DATA
    Empty = Empty
INVARIANT TypeOK
PROPERTIES UplinksAdvance SendEnds RetriesKeepRelay
