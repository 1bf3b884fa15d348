SPECIFICATION MCSpec
CONSTANTS
    MTU = 10
    ShortLengthMax = 255
    MaxTransactionLength = 65535
    SeqNumModulus = 16
    TransactionIdModulus = 16
    Sent <- MCSent
    Answer <- MCAnswer
    ShortestInitial = 5
    ShortestOther = 2
    MaxCuts = 2
    MaxJoins = 0
    Instances = {"lost"}
\* The program ends, or is aborted.
CHECK_DEADLOCK FALSE
INVARIANTS
    NothingReadPastEnd
