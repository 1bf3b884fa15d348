SPECIFICATION ReceiverSpec
CONSTANTS
    Receivers = {"framer", "decoder"}
\* The framer, with a buffer that two shortest frames fit.
    Bytes <- MCBytes
    SOP = 240
    EOP = 241
    ESP = 242
    XorEsp <- MCXorEsp
    BufferLen = 13
    Contents <- MCContents
    MaxFrames = 3
    MaxLost = 2
\* decodePacket, with packets of ten bytes.
    MTU = 10
    ShortLengthMax = 255
    MaxTransactionLength = 65535
    SeqNumModulus = 16
    TransactionIdModulus = 16
    Sent <- MCSent
    Answer <- MCAnswer
    ShortestInitial = 5
    ShortestOther = 2
    MaxCuts = 2
    MaxJoins = 0
    Instances = {"joined", "cut", "lost"}
\* A line may fall silent; the program ends, or is aborted.
CHECK_DEADLOCK FALSE
INVARIANTS
    TypeOK
    FramesArriveIntact
    FramesNotJoined
    RecoversAfterOneFrame
    MCOnlyCutIsLost
    ResultsReadBack
    MCNothingCutIsDelivered
    MCAnsweredOnce
