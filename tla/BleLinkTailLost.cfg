\* Two processes and a link that loses one packet, or one failed allocation.
CONSTANTS
    MTU = 10
    ShortLengthMax = 3
    MaxTransactionLength = 15
    SeqNumModulus = 3
    TransactionIdModulus = 2
    Size <- MCSize
    HostOf <- MCHostOf
    NULL = NULL
    MaxSent <- MCMaxSentControl
    MaxFaults = 1
SPECIFICATION Spec
INVARIANTS NoAssertionFails
\* A process that has aborted stops.
CHECK_DEADLOCK FALSE
