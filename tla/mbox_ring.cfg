SPECIFICATION Spec
CONSTANTS
    r1 = r1  r2 = r2  w1 = w1  w2 = w2
    Depth = 2
    MsgCells = 1
    Channels <- TwoChannels
    Masks <- AllAndOne
    Timeouts <- AnyTimeout
    Readers <- OneReader
    Writers <- TwoWriters
    MaxSent = 3
    MaxDropped = 1
SYMMETRY Perms
INVARIANTS TypeOK RingAccounting Conservation NewestIntact
