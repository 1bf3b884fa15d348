CONSTANTS
    MTU = 10
    ShortLengthMax = 3
    MaxTransactionLength = 15
    SeqNumModulus = 2
    TransactionIdModulus = 4
    StreamIds <- MCStreamIds
    PayloadSizes <- MCPayloadSizes
    MaxFaults = 1
SPECIFICATION Spec
INVARIANTS TypeOK PacketsFitMtu PacketsCoverPayload LengthsReadBack GapsShow
\* A call that has ended does nothing more.
CHECK_DEADLOCK FALSE
