SPECIFICATION Spec
CONSTANTS
    Bytes <- MCBytes
    SOP = 240
    EOP = 241
    ESP = 242
    XorEsp <- MCXorEsp
    BufferLen = 9
    Contents <- MCContents
    MaxFrames = 3
    MaxLost = 1
CHECK_DEADLOCK FALSE
INVARIANTS
    NoAssertionFails
