SPECIFICATION UseSpec
CONSTANTS
    InitialCapacity = 2
    MaxItems = 9
    Garbage = Garbage
    Node = {n1, n2, n3, n4}
    Values = {a, b}
    NULL = NULL
    Freed = Freed
    None = None
    Keys <- Numbered
    Hash <- Colliding
    NumBuckets = 2
    StackCapacity = 1
    MaxCapacity = 4
SYMMETRY Perms
INVARIANTS
    TypeOK RingConsistent OnlyCutDamaged
    PointersOK WalksAgree NothingLeaks
    ChainOwnsHeap ChainsOwnHeap
    InorderAscends TreeOwnsHeap
PROPERTIES
    ImplementsList ChainImplementsList StackImplementsList
    TableImplementsMap TreeImplementsMap
