SPECIFICATION Spec
CONSTANTS
    r1 = r1  r2 = r2  w1 = w1  w2 = w2
    Depth = 2
    MsgCells = 1
    Channels <- TwoChannels
    Masks <- AllAndOne
    Timeouts <- NoWaiting
    Readers <- OneReader
    Writers <- OneWriter
    MaxSent = 3
    MaxDropped = 0
INVARIANT DeliveredIntact
