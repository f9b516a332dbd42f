SPECIFICATION FairSpec
CONSTANTS
    r1 = r1  r2 = r2  w1 = w1  w2 = w2
    Depth = 2
    MsgCells = 0
    Channels <- TwoChannels
    Masks <- AllAndOne
    Timeouts <- Blocking
    Readers <- OneReader
    Writers <- TwoWriters
    MaxSent = 3
    MaxDropped = 0
INVARIANT NoLostWakeup
PROPERTIES FiniteReadReturns MatchIsServed ImplementsChannelQueue
