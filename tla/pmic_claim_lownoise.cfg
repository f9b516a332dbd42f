SPECIFICATION Spec
CONSTANTS
    Tasks <- TwoTasks
    Duties <- SetOnly
    Shows <- AllShown
    MaxFaults = 0
INVARIANT LowNoiseAgrees
