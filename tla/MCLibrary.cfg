CONSTANTS
    WordSize = 4
    MemorySize = 13
    ByteMod = 256
    Calls <- MCCalls
    Archs = {"x86_64", "other"}
    HalfBits = 3
    Width = 4
    RotA = 3
    ShiftB = 1
    RotC = 2
    RotResult = 1
    Multiplier = 11
    Seeds <- MCSeeds
    MaxHeard = 3
    NoSeed = NoSeed
SPECIFICATION Spec
INVARIANTS
    MovedExactly
    WordsAligned
    WithinObjects
    IInv
    Divides
    EstimatesClose
    NeverStuck
    SeedRepeats
PROPERTY StatesNeverMerge
CHECK_DEADLOCK FALSE
