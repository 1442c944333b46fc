CONSTANTS
    AddrMod = 8
    ByteMod = 256
    IntMod = 64
    SignedChars = {TRUE, FALSE}
    Calls <- MCCalls
    Memories <- MCMemories
SPECIFICATION Spec
INVARIANTS
    NotOverread
    FindsFirst
    ComparesInOrder
    CopiesTruncated
    ReadsNumber
CHECK_DEADLOCK FALSE
