CONSTANTS
    Align = 2
    Hdr = 2
    MinSize = 4
    SizeMod = 64
    UIntMax = 63
    BrkStart = 3
    BrkEnd = 11
    MaxAddr = 30
    SbrkReturns = "previous"
    Sizes = {0, 1, 3, 5}
    Nmembs = {0, 1}
    ForeignIncrs = {}
SPECIFICATION Spec
INVARIANTS
    NullIsNeverFreed
