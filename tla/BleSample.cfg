\* The sample program, with the constants of config.h and common.h: one process
\* plays both roles.
CONSTANTS
    MTU = 128
    ShortLengthMax = 255
    MaxTransactionLength = 65535
    SeqNumModulus = 16
    TransactionIdModulus = 16
    Size <- MCSize
    HostOf <- MCHostOf
    NULL = NULL
SPECIFICATION Spec
INVARIANTS NoAssertionFails ReassemblyBelongsToPhase RunsAreAnswered
\* main returns.
CHECK_DEADLOCK FALSE
