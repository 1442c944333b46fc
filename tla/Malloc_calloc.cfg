CONSTANTS
    Align = 2
    Hdr = 2
    MinSize = 4
    SizeMod = 64
    UIntMax = 63
    BrkStart = 2
    BrkEnd = 22
    MaxAddr = 30
    SbrkReturns = "previous"
    Sizes = {0, 1, 3, 5, 40}
    Nmembs = {0, 1, 2, 3}
    ForeignIncrs = {}
SPECIFICATION Spec
INVARIANTS
    ObjectFits
