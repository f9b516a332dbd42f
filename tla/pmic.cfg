SPECIFICATION FairSpec
CONSTANTS
    Tasks <- TwoTasks
    Duties <- AllDuties
    Shows <- AllShown
    MaxFaults = 3
INVARIANTS TypeOK CacheAgrees PetTogglesOnce OffAfterDeinit ConfiguredWhenOK
PROPERTY CallsReturn
