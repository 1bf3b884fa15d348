\* Two processes and a link that loses; commands of one, two and four packets.
CONSTANTS
    MTU = 8
    ShortLengthMax = 3
    MaxTransactionLength = 15
    SeqNumModulus = 3
    TransactionIdModulus = 2
    Size <- MCSize
    HostOf <- MCHostOf
    NULL = NULL
    MaxSent <- MCMaxSentControl
    MaxFaults = 2
SPECIFICATION Spec
INVARIANTS DeliveredWhole VerdictsTruthful AnswersMatch
PROPERTIES LastPacketFrees
\* The system stops when everything is answered, or a process has aborted.
CHECK_DEADLOCK FALSE
