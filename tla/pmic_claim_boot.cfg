SPECIFICATION Spec
CONSTANTS
    Tasks <- TwoTasks
    Duties <- BootOnly
    Shows <- AllShown
    MaxFaults = 0
INVARIANT BuckTwoLast
