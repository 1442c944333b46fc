CONSTANTS
    CharMod = 8
    ShortMod = 16
    IntMod = 32
    LongMod = 64
    MaxFormat = 12
    DigitsSize = 10
    NullArg = NullArg
    BufferSize = 3
    MemorySize = 22
    Calls <- MCCalls
SPECIFICATION Spec
INVARIANT PlusIsWritten
CHECK_DEADLOCK FALSE
