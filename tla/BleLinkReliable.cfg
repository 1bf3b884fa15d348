\* Two processes, no faults, all streams at once; the processes are fair.
CONSTANTS
    MTU = 10
    ShortLengthMax = 3
    MaxTransactionLength = 15
    SeqNumModulus = 3
    TransactionIdModulus = 2
    Size <- MCSize
    HostOf <- MCHostOf
    NULL = NULL
    MaxSent <- MCMaxSent
    MaxFaults = 0
SPECIFICATION FairSpec
INVARIANTS TypeOK NoAbortWithoutFaults InStepWithoutFaults
PROPERTIES EchoNeverAnswers ImplementsDelivery EveryMessageAnswered
\* The system stops when everything is answered.
CHECK_DEADLOCK FALSE
