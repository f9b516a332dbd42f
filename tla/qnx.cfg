SPECIFICATION FairSpec
CONSTANTS
    Modes = {"server", "client", "both", "timer", "sem"}
    NumMessages = 5
    DataLen = 20
    Workers = {w1, w2, w3}
    Rounds = 5
    PulseCount = 10
    MaxQueued = 3
    MaxFaults = 2
INVARIANTS
    StatsAreTheEchoes BlockedIffInFlight OneUnit
PROPERTIES
    DemoEnds
CHECK_DEADLOCK FALSE
