CONSTANTS
    Align = 2
    Hdr = 2
    MinSize = 4
    SizeMod = 64
    UIntMax = 63
    BrkStart = 2
    BrkEnd = 20
    MaxAddr = 30
    SbrkReturns = "previous"
    Sizes = {0, 1, 3, 5, 40}
    Nmembs = {0, 1}
    ForeignIncrs = {}
SPECIFICATION CSpec
VIEW WithoutCall
INVARIANTS
    TypeOK
    ObjectsDisjoint
    ObjectFits
    ObjectsAligned
    FreeListCanonical
    HeapTiled
    MemFreeAccounts
    ChunksOwned
    DataIntact
    MallocFailsOnlyWhenFull
    MallocTakesSmallest
    ReallocFailsOnlyWhenFull
    ReallocShrinksInPlace
PROPERTY KeepsPromise
