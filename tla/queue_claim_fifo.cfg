SPECIFICATION Spec
CONSTANTS
    InitialCapacity = 2
    MaxItems = 9
    Garbage = Garbage
INVARIANT TakenIsOldest
