------------------------------ MODULE Programs ------------------------------
(***************************************************************************)
(* The small programs of the repository, none of which takes notice of     *)
(* another: a behaviour is the run of one of them.  They take turns with   *)
(* the variables: stage is the program's control, s1 to s8 stand for its   *)
(* variables as the instances below name them, and are 0 where it has      *)
(* fewer.                                                                  *)
(***************************************************************************)
EXTENDS Integers, Sequences

CONSTANTS
    Explored,                           \* those that are run
    NameLengths, OldLengths,            \* parameters of Eir,
    Mtus, TransactionSizes,             \* of BleAnnounce,
    VendorAndProductIds,                \* of SdpDb,
    Headers, Data, Changed, ChangedAt, XorWithEsp,  \* of SppChecksum,
    AssetIds, Urls,                     \* of ProtoSample,
    GadgetIds, Secrets, Digests,        \* of DeviceSecret,
    Builds                              \* and of Sha256SelfTest

VARIABLES program, stage, s1, s2, s3, s4, s5, s6, s7, s8

programVars == <<program, stage, s1, s2, s3, s4, s5, s6, s7, s8>>

-----------------------------------------------------------------------------
Eir == INSTANCE Eir WITH
    pc <- stage, nameLen <- s1, p_len <- s2, structures <- s3, written <- s4

Announce == INSTANCE BleAnnounce WITH
    SAMPLE_NEGOTIATED_MTU <- s1, SAMPLE_MAX_TRANSACTION_SIZE <- s2,
    packet <- s3, at <- s4, structures <- s5, told <- s6

Sdp == INSTANCE SdpDb WITH
    Ids <- VendorAndProductIds,
    sdp_database <- s1, pid <- s2, vid <- s3

Checksum == INSTANCE SppChecksum WITH
    XorEsp <- XorWithEsp,
    header <- s1, data <- s2, buf <- s3, intact <- s4, index <- s5,
    escape <- s6, resp <- s7, payload_len <- s8

Proto == INSTANCE ProtoSample WITH
    args <- s1, call <- s2, wire <- s3, bytes_written <- s4, index <- s5,
    printed <- s6

Secret == INSTANCE DeviceSecret WITH
    Ids <- GadgetIds,
    gadgetId <- s1, device_secret <- s2, secret <- s3, blocks <- s4,
    token <- s5, index <- s6, dst <- s7

SelfTest == INSTANCE Sha256SelfTest WITH
    Smaller <- Builds,
    ret <- stage, smaller <- s1, i <- s2, blocks <- s3, state <- s4,
    round <- s5, A <- s6, W <- s7

ASSUME ProgramAssumptions ==
    /\ Eir!EirAssumption /\ Announce!ConfigAssumption /\ Sdp!IdsAssumption
    /\ Checksum!InputAssumption /\ Proto!ArgumentsFit /\ Secret!SecretAssumption

-----------------------------------------------------------------------------
ProgramInit ==
    /\ program \in Explored
    /\ \/ program = "eir" /\ Eir!Init
          /\ s5 = 0 /\ s6 = 0 /\ s7 = 0 /\ s8 = 0
       \/ program = "announce" /\ Announce!Init
          /\ s7 = 0 /\ s8 = 0
       \/ program = "sdp" /\ Sdp!Init
          /\ stage = "" /\ s4 = 0 /\ s5 = 0 /\ s6 = 0 /\ s7 = 0 /\ s8 = 0
       \/ program = "checksum" /\ Checksum!Init
       \/ program = "proto" /\ Proto!Init
          /\ s7 = 0 /\ s8 = 0
       \/ program = "secret" /\ Secret!Init
          /\ s8 = 0
       \/ program = "self test" /\ SelfTest!Init
          /\ s8 = 0

ProtoStep == program = "proto" /\ Proto!Next /\ UNCHANGED <<program, s7, s8>>
SelfTestStep == program = "self test" /\ SelfTest!Next /\ UNCHANGED <<program, s8>>

ProgramNext ==
    \/ program = "eir" /\ Eir!Next /\ UNCHANGED <<program, s5, s6, s7, s8>>
    \/ program = "announce" /\ Announce!Next /\ UNCHANGED <<program, s7, s8>>
    \/ program = "sdp" /\ Sdp!Next
       /\ UNCHANGED <<program, stage, s4, s5, s6, s7, s8>>
    \/ program = "checksum" /\ Checksum!Next /\ UNCHANGED program
    \/ ProtoStep
    \/ program = "secret" /\ Secret!Next /\ UNCHANGED <<program, s8>>
    \/ SelfTestStep

\* Two of which it is checked that they come to their end: each has one thread,
\* which nothing stops.
ProgramSpec ==
    ProgramInit /\ [][ProgramNext]_programVars
    /\ WF_programVars(ProtoStep) /\ WF_programVars(SelfTestStep)

-----------------------------------------------------------------------------
\* A reader of the extended inquiry response meets the three structures.
ReadsBack == program = "eir" => Eir!ReadsBack

\* A scanner finds the service in the advertising data, and the Echo device is
\* told the numbers of config.h.
AnnouncementsRead ==
    program = "announce" => Announce!ServiceIsFound /\ Announce!ConfigIsTold

\* A peer that goes by the lengths in the service table gets from record to
\* record and finds the ids where it looks for them.
TableIsRead == program = "sdp" => Sdp!RecordsEndWhereTheySay /\ Sdp!IdsFound

\* The comment on the length of the whole table: the sum of all records.
LengthIsSumOfRecords == program = "sdp" => Sdp!LengthIsSumOfRecords

\* The checksum program accepts what was sent, with the data that were sent, if
\* nothing needs an escape in header and checksum, and then no frame in which a
\* byte was changed, but for the seqId and for an ESP that came or went.
OnlyIntactAccepted == program = "checksum" => Checksum!OnlyIntactAccepted

\* The comment and the assertion in checksum.c: every intact packet has its
\* checksum in the last bytes before EOF, and it is right.
IntactPasses == program = "checksum" => Checksum!IntactPasses

\* The protobuf example prints the messages that its comments show, and writes
\* the message that the binary in its main is.
MessagesReadBack ==
    program = "proto" => Proto!CommentsPrinted /\ Proto!BinaryIsEncoded

\* The whole of id and secret is hashed for the device secret, and the text it
\* is written as is the digest.
TokenOfWholeSecret ==
    program = "secret" => Secret!WholeSecretHashed /\ Secret!TextIsToken

\* The loops of the protobuf example end, so that its main returns; the self test
\* of SHA-256 ends, and passes in both builds.
ProgramsSucceed ==
    /\ program = "proto" => Proto!MainReturns
    /\ program = "self test" => SelfTest!SelfTestPasses
=============================================================================
