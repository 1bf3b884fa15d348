SPECIFICATION ProgramSpec
CONSTANT
    Explored = {"eir", "announce", "sdp", "checksum", "proto", "secret", "self test"}
    NameLengths <- MCNameLengths
    OldLengths = {0, 7, 255}
\* The numbers of config.h, and the limits of a byte.
    Mtus = {23, 128, 255, 256, 517, 65535}
    TransactionSizes = {0, 255, 256, 5000, 65535}
\* Two bytes that differ, and the limits of each.
    VendorAndProductIds = {0, 1, 255, 256, 13330, 65281, 65535}
    Headers <- MCHeaders
    Data <- MCData
    Changed = {0, 238, 241, 242}
    ChangedAt <- MCChangedAt
    XorWithEsp <- MCXorEsp
    AssetIds <- MCAssetIds
    Urls <- MCUrls
    GadgetIds <- MCGadgetIds
    Secrets <- MCSecrets
    Digests <- MCDigests
    Builds = {TRUE, FALSE}
\* A program that has come to its end stops.
CHECK_DEADLOCK FALSE
INVARIANTS
    ReadsBack
    AnnouncementsRead
    TableIsRead
    OnlyIntactAccepted
    MessagesReadBack
    TokenOfWholeSecret
PROPERTIES
    ProgramsSucceed
