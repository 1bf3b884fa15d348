SPECIFICATION MCSpec
CONSTANT
    Libraries = {"list", "sha256", "clone", "platform", "seed"}
\* As many addresses as two lists and what is lost need.
    Nodes = {1, 2, 3, 4, 5, 6, 7}
    Buffers = {1, 2, 3, 4, 5, 6, 7, 8}
    MaxPackets = 3
    MaxResponse = 4
    MaxRuns = 2
    MaxLost = 1
\* Messages that go over a word of a counter.
    BlockSize = 8
    WordBytes = 1
    WordModulus = 32
    Compress <- MCCompress
    InitialState <- MCInitialState
    Leading <- MCLeading
    Contexts = {0, 1}
    Pieces = {0, 1, 7, 8, 20, 31}
    MaxLength = 69
    MaxStarts = 2
    Start <- MCStart
    Given = {"one", "another"}
    MaxChanges = 3
    MaxSets = 2
    Size = 3
    MaxWrites = 3
    MaxFaults = 2
\* Callers stop at the bounds.
CHECK_DEADLOCK FALSE
INVARIANTS
    EachOwnedOnce
    NothingFreedIsUsed
    ResponseInOrder
    DigestOfMessage
    ConfiguredIsCalled
    FreedWhereAllocated
    WholeSeedOrNone
