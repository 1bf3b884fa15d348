------------------------------ MODULE BleWire ------------------------------
(***************************************************************************)
(* The BLE packets as bytes.  buildStreamPacket and createControlAckPacket *)
(* (tx.c) pack the fields of a header into bits, decodePacket (rx.c) takes *)
(* them out again, segment by segment: unlike the sender it allows for     *)
(* several in one packet, and for packets that end too early.  Both occur  *)
(* when runSample is given packets from a capture (sample.c:75): a capture *)
(* may keep only the beginning of a packet, and may join what an Echo      *)
(* device sent on two streams.                                             *)
(*                                                                         *)
(* As in sample.c the gadget receives first, and then the Echo device what *)
(* the gadget answered, in one process.                                    *)
(***************************************************************************)
EXTENDS BlePackets, Sequences, SequencesExt

CONSTANTS
    Sent,             \* payloads and ack flags, per stream the Echo device uses
    Answer,           \* payloads of the gadget's answers, per stream
    ShortestInitial,  \* bound: what is left of an INITIAL packet at least,
    ShortestOther,    \* and of any other
    MaxCuts,          \* bound: packets that end too early
    MaxJoins          \* bound: packets that are joined

CONTROL_STREAM == 0
OTA_STREAM == 2
ALEXA_STREAM == 6

\* A capture may hold packets of a stream that this program does not know.
UNKNOWN_STREAM == 1
StreamIds == <<CONTROL_STREAM, ALEXA_STREAM, OTA_STREAM, UNKNOWN_STREAM>>

\* The fields have the widths of the header (common.h, config.h), and payloads
\* are bytes, no more than a length field can hold.  At least the first byte
\* of a packet is left.
IsPayload(p) == p \in Seq(0..255) /\ Len(p) <= MaxTransactionLength

WireAssumption ==
    /\ SeqNumModulus = 16 /\ TransactionIdModulus = 16
    /\ ShortLengthMax = 255 /\ MaxTransactionLength = 65535
    /\ DOMAIN Sent \subseteq DOMAIN StreamIds
    /\ \A s \in DOMAIN Sent :
          /\ Sent[s] \in Seq([payload : Seq(0..255), ack : BOOLEAN]) /\ Len(Sent[s]) < 16
          /\ \A t \in DOMAIN Sent[s] : IsPayload(Sent[s][t].payload)
    /\ {1, 2} \subseteq DOMAIN Answer /\ \A s \in {1, 2} : IsPayload(Answer[s])
    /\ {ShortestInitial, ShortestOther} \subseteq Nat \ {0}

VARIABLES
    queues,           \* packets on the way, in an order per queue
    packet, offset,   \* in decodePacket
    pc,               \* "receive", "decode", "aborted", "undefined" or "done"
    role,
    rxBuffers,
    response,         \* rspPacketList
    answers,          \* how many answers were created per stream
    received,         \* history: what handleDataReceived was given, per role
    verdicts,         \* history: results of the acknowledgements created,
    judged,           \* and the first bytes of the packets they answer
    results,          \* history: results printed by the Echo device
    cut, joins        \* history: the first bytes of packets that were cut

wireVars == <<queues, packet, offset, pc, role, rxBuffers, response, answers,
              received, verdicts, judged, results, cut, joins>>

NULL == [transactionId |-> -1]

-----------------------------------------------------------------------------
(***************************************************************************)
(* The sender.                                                             *)
(***************************************************************************)
INITIAL == 0
CONTINUE == 1
FINAL == 2
CONTROL == 3

TypeCode == [INITIAL |-> INITIAL, CONTINUE |-> CONTINUE, FINAL |-> FINAL]

Bit(b, place) == IF b THEN 2^place ELSE 0

StreamByte(streamId, transactionId) == streamId * 16 + transactionId

\* Mutant: the type is shifted by one bit less.
TypeByteNarrow(seqNum, type, ack, extended) ==
    seqNum * 16 + type * 2 + Bit(ack, 1) + Bit(extended, 0)

TypeByte(seqNum, type, ack, extended) ==
    seqNum * 16 + type * 4 + Bit(ack, 1) + Bit(extended, 0)

\* The packet with the payload from srcIndex on.
StreamPacket(streamId, transactionId, seqNum, ack, payload, srcIndex) ==
    LET remaining == Len(payload) - srcIndex
        length == PayloadLength(srcIndex, remaining)
        extended == IsExtended(srcIndex, remaining)
    IN  <<StreamByte(streamId, transactionId),
          TypeByte(seqNum, TypeCode[TransactionType(srcIndex, remaining)], ack, extended)>>
        \o (IF srcIndex = 0 THEN <<0, Len(payload) \div 256, Len(payload) % 256>>
                            ELSE <<>>)
        \o (IF extended THEN <<length \div 256>> ELSE <<>>)
        \o <<length % 256>>
        \o SubSeq(payload, srcIndex + 1, srcIndex + length)

\* All of them: the loop goes from where srcIndex and seqNum are.
buildStreamPacket(streamId, transactionId, ack, payload) ==
    LET From[at \in (0..Len(payload)) \X SeqNums] ==
            IF at[1] = Len(payload) THEN <<>>
            ELSE <<StreamPacket(streamId, transactionId, at[2], ack, payload, at[1])>>
                 \o From[<<at[1] + PayloadLength(at[1], Len(payload) - at[1]),
                           NextSeqNum(at[2])>>]
    IN  From[<<0, 0>>]

SUCCESS == 0
FAILURE == 1

\* Mutant: the result is left out of the packet.
ControlAckUnset(streamId, transactionId, ack, result) ==
    IF ack THEN << <<StreamByte(streamId, transactionId),
                     TypeByte(0, CONTROL, result = SUCCESS, FALSE), 0, 2, 1, 0>> >>
           ELSE <<>>

\* No packet unless one was asked for.
createControlAckPacket(streamId, transactionId, ack, result) ==
    IF ack THEN << <<StreamByte(streamId, transactionId),
                     TypeByte(0, CONTROL, result = SUCCESS, FALSE), 0, 2, 1, result>> >>
           ELSE <<>>

\* What is noted of an answer: nothing unless it was asked for.
IfAsked(ack, note) == IF ack THEN <<note>> ELSE <<>>

\* The Echo device: transaction ids count from 0.
PacketsOf(s) ==
    FlattenSeq([t \in DOMAIN Sent[s] |->
        buildStreamPacket(StreamIds[s], t - 1, Sent[s][t].ack, Sent[s][t].payload)])

-----------------------------------------------------------------------------
(***************************************************************************)
(* receivePackets, and what has become of a packet on the way.             *)
(***************************************************************************)
TypeOf(bytes) == (bytes[2] \div 4) % 4

Shortest(bytes) == IF TypeOf(bytes) = INITIAL THEN ShortestInitial ELSE ShortestOther

Receive(bytes) == packet' = bytes /\ offset' = 0 /\ pc' = "decode"

TakePacket(q) ==
    /\ pc = "receive" /\ queues[q] # <<>>
    /\ Receive(Head(queues[q]))
    /\ queues' = [queues EXCEPT ![q] = Tail(@)]
    /\ UNCHANGED <<role, rxBuffers, response, answers, received, verdicts, judged, results,
                   cut, joins>>

TakeCut(q) ==
    /\ pc = "receive" /\ role = "gadget" /\ Cardinality(cut) < MaxCuts
    /\ queues[q] # <<>>
    /\ LET whole == Head(queues[q])
       IN  \E kept \in Shortest(whole)..(Len(whole) - 1) : Receive(SubSeq(whole, 1, kept))
    /\ cut' = cut \cup {packet'[1]}
    /\ queues' = [queues EXCEPT ![q] = Tail(@)]
    /\ UNCHANGED <<role, rxBuffers, response, answers, received, verdicts, judged, results, joins>>

TakeJoined(q, r) ==
    /\ pc = "receive" /\ joins < MaxJoins
    /\ queues[q] # <<>>
    /\ LET rest == [queues EXCEPT ![q] = Tail(@)]
       IN  /\ rest[r] # <<>>
           /\ Receive(Head(queues[q]) \o Head(rest[r]))
           /\ queues' = [rest EXCEPT ![r] = Tail(@)]
    /\ joins' = joins + 1
    /\ UNCHANGED <<role, rxBuffers, response, answers, received, verdicts, judged, results, cut>>

-----------------------------------------------------------------------------
(***************************************************************************)
(* decodePacket: the fields of the segment at offset.                      *)
(***************************************************************************)
At(i) == packet[offset + i]
Has(n) == Len(packet) - offset >= n

streamId == At(1) \div 16
transactionId == At(1) % 16
seqNum == At(2) \div 16
transactionType == (At(2) \div 4) % 4
ackBit == (At(2) \div 2) % 2 = 1
extendLength == At(2) % 2 = 1

streamToIndex(id) ==
    CASE id = CONTROL_STREAM -> 0 [] id = ALEXA_STREAM -> 1 [] id = OTA_STREAM -> 2
      [] OTHER -> -1

InSegment == pc = "decode" /\ offset < Len(packet)
IsInitial == transactionType = INITIAL

\* The length field, and with it the header, end here.
LengthAt == IF IsInitial THEN 6 ELSE 3
PayloadAt == LengthAt + Bit(extendLength, 0)
currentPayloadLength ==
    IF extendLength THEN At(LengthAt) * 256 + At(PayloadAt) ELSE At(LengthAt)

Buffer == rxBuffers[streamToIndex(streamId)]

\* The reassembly that an INITIAL packet opens, or the one of the stream.
Reassembly ==
    IF IsInitial
    THEN [transactionId |-> transactionId, bufferSize |-> At(4) * 256 + At(5),
          seqNum |-> 0, data |-> <<>>]
    ELSE Buffer

SetBuffer(buffer) == rxBuffers' = [rxBuffers EXCEPT ![streamToIndex(streamId)] = buffer]

\* The rest of the packet is dropped.
Return == pc' = "receive" /\ UNCHANGED offset

EndPacket ==
    /\ pc = "decode" /\ offset >= Len(packet)
    /\ Return
    /\ UNCHANGED <<queues, packet, role, rxBuffers, response, answers, received,
                   verdicts, judged, results, cut, joins>>

\* Too short for a header, a stream that there is none of, or no reassembly.
DropSegment ==
    /\ InSegment
    /\ \/ ~Has(2)
       \/ /\ Has(2) /\ transactionType = CONTROL /\ ~Has(6)
       \/ /\ Has(2) /\ transactionType # CONTROL /\ (IsInitial => Has(5))
          /\ \/ streamToIndex(streamId) < 0
             \/ ~IsInitial /\ Buffer = NULL
    /\ Return
    /\ UNCHANGED <<queues, packet, role, rxBuffers, response, answers, received,
                   verdicts, judged, results, cut, joins>>

DecodeControlAck ==
    /\ InSegment /\ Has(6) /\ transactionType = CONTROL /\ At(4) = 2
    /\ results' = Append(results, IF At(6) = SUCCESS THEN "SUCCESS" ELSE "UNSUPPORTED")
    /\ offset' = offset + 6
    /\ UNCHANGED <<queues, packet, pc, role, rxBuffers, response, answers, received,
                   verdicts, judged, cut, joins>>

\* The assertions on a control packet's length, on an INITIAL packet and on
\* the transaction id of the others.
AssertionFails ==
    /\ InSegment /\ Has(2)
    /\ \/ transactionType = CONTROL /\ Has(6) /\ At(4) # 2
       \/ IsInitial /\ Has(5) /\ streamToIndex(streamId) >= 0 /\ Buffer # NULL
       \/ /\ transactionType \notin {CONTROL, INITIAL}
          /\ streamToIndex(streamId) >= 0 /\ Buffer # NULL
          /\ Buffer.transactionId # transactionId
    /\ pc' = "aborted"
    /\ UNCHANGED <<queues, packet, offset, role, rxBuffers, response, answers, received,
                   verdicts, judged, results, cut, joins>>

\* An INITIAL packet without its three bytes is reported (line 246), and then
\* what follows the packet in memory is read for them.
ReadPastEnd ==
    /\ InSegment /\ Has(2) /\ IsInitial /\ ~Has(5)
    /\ pc' = "undefined"
    /\ UNCHANGED <<queues, packet, offset, role, rxBuffers, response, answers, received,
                   verdicts, judged, results, cut, joins>>

\* Mutant: no assertions (NDEBUG).
ReassemblesAny ==
    /\ InSegment /\ Has(2) /\ transactionType # CONTROL
    /\ streamToIndex(streamId) >= 0
    /\ IF IsInitial THEN Has(5) ELSE Buffer # NULL

Reassembles ==
    /\ InSegment /\ Has(2) /\ transactionType # CONTROL
    /\ streamToIndex(streamId) >= 0
    /\ IF IsInitial THEN Has(5) /\ Buffer = NULL
       ELSE Buffer # NULL /\ Buffer.transactionId = transactionId

PayloadFits ==
    /\ Has(PayloadAt) /\ Has(PayloadAt + currentPayloadLength)
    /\ Reassembly.seqNum = seqNum
    /\ Reassembly.bufferSize - Len(Reassembly.data) >= currentPayloadLength

Acknowledges(result) ==
    /\ response' = response \o createControlAckPacket(streamId, transactionId, ackBit, result)
    /\ verdicts' = verdicts \o IfAsked(ackBit, result)
    /\ judged' = judged \o IfAsked(ackBit, StreamByte(streamId, transactionId))

\* Mutant: the reassembly is kept.
DecodeRefusedAndKept ==
    /\ Reassembles /\ ~PayloadFits
    /\ Acknowledges(FAILURE)
    /\ SetBuffer(Reassembly)
    /\ Return
    /\ UNCHANGED <<queues, packet, role, answers, received, results, cut, joins>>

DecodeRefused ==
    /\ Reassembles /\ ~PayloadFits
    /\ Acknowledges(FAILURE)
    /\ SetBuffer(NULL)
    /\ Return
    /\ UNCHANGED <<queues, packet, role, answers, received, results, cut, joins>>

Appended ==
    [Reassembly EXCEPT
        !.data = @ \o SubSeq(packet, offset + PayloadAt + 1,
                             offset + PayloadAt + currentPayloadLength),
        !.seqNum = NextSeqNum(@)]

IsComplete == Len(Appended.data) = Appended.bufferSize

DecodeAppended ==
    /\ Reassembles /\ PayloadFits /\ ~IsComplete
    /\ SetBuffer(Appended)
    /\ offset' = offset + PayloadAt + currentPayloadLength
    /\ UNCHANGED <<queues, packet, pc, role, response, answers, received, verdicts, judged,
                   results, cut, joins>>

\* handleDataReceived: the gadget acknowledges and answers on two streams.
DecodeCompletes ==
    /\ Reassembles /\ PayloadFits /\ IsComplete
    /\ received' = [received EXCEPT ![role] = Append(@,
           [streamId |-> streamId, transactionId |-> transactionId, ack |-> ackBit,
            payload |-> Appended.data])]
    /\ IF role = "gadget" /\ streamId # OTA_STREAM
       THEN LET s == streamToIndex(streamId) + 1
            IN  /\ response' = response
                     \o createControlAckPacket(streamId, transactionId, ackBit, SUCCESS)
                     \o buildStreamPacket(streamId, answers[s], FALSE, Answer[s])
                /\ verdicts' = verdicts \o IfAsked(ackBit, SUCCESS)
                /\ judged' = judged \o IfAsked(ackBit, StreamByte(streamId, transactionId))
                /\ answers' = [answers EXCEPT ![s] = NextTransactionId(@)]
       ELSE UNCHANGED <<response, verdicts, judged, answers>>
    /\ SetBuffer(NULL)
    /\ offset' = offset + PayloadAt + currentPayloadLength
    /\ UNCHANGED <<queues, packet, pc, role, results, cut, joins>>

-----------------------------------------------------------------------------
WireInit ==
    /\ queues = [s \in DOMAIN Sent |-> PacketsOf(s)]
    /\ packet = <<>> /\ offset = 0 /\ pc = "receive" /\ role = "gadget"
    /\ rxBuffers = [i \in 0..2 |-> NULL]
    /\ response = <<>> /\ answers = [s \in 1..2 |-> 0]
    /\ received = [r \in {"gadget", "echo"} |-> <<>>]
    /\ verdicts = <<>> /\ judged = <<>> /\ results = <<>> /\ cut = {} /\ joins = 0

ListDone == pc = "receive" /\ \A q \in DOMAIN queues : queues[q] = <<>>

\* runSample turns to the Echo device, and returns when that answers nothing.
SwitchToEcho ==
    /\ ListDone /\ role = "gadget"
    /\ role' = "echo" /\ queues' = <<response>> /\ response' = <<>>
    /\ UNCHANGED <<packet, offset, pc, rxBuffers, answers, received, verdicts, judged, results,
                   cut, joins>>

FinishRun ==
    /\ ListDone /\ role = "echo"
    /\ pc' = IF response = <<>> THEN "done" ELSE "aborted"
    /\ UNCHANGED <<queues, packet, offset, role, rxBuffers, response, answers, received,
                   verdicts, judged, results, cut, joins>>

WireNext ==
    \/ \E q \in DOMAIN queues : TakePacket(q) \/ TakeCut(q)
    \/ \E q, r \in DOMAIN queues : TakeJoined(q, r)
    \/ EndPacket \/ DropSegment \/ DecodeControlAck \/ AssertionFails \/ ReadPastEnd
    \/ DecodeRefused \/ DecodeAppended \/ DecodeCompletes
    \/ SwitchToEcho \/ FinishRun

WireSpec == WireInit /\ [][WireNext]_wireVars

-----------------------------------------------------------------------------
\* What the gadget should be handed on a stream: what was sent, but not what
\* was cut.
Whole(s) ==
    LET all == [t \in DOMAIN Sent[s] |->
            [streamId |-> StreamIds[s], transactionId |-> t - 1, ack |-> Sent[s][t].ack,
             payload |-> Sent[s][t].payload]]
        IsWhole(t) == /\ t.streamId # UNKNOWN_STREAM
                      /\ StreamByte(t.streamId, t.transactionId) \notin cut
    IN  SelectSeq(all, IsWhole)

OnStream(r, id) ==
    LET IsOn(t) == t.streamId = id IN SelectSeq(received[r], IsOn)

\* Whatever order the streams' packets come in and however those of control,
\* Alexa and OTA stream are joined, the run ends with every message handed over
\* once, in order, with the stream, the transaction id, the ack flag and the
\* payload that were packed into bytes; a message of which a packet was cut
\* short, and no other, is missing.  So is none of the answers.  (What is joined
\* behind a segment of an unknown stream is lost with it, and not claimed.)
OnlyCutIsLost ==
    /\ pc # "aborted"
    /\ pc = "done" =>
          /\ \A s \in DOMAIN Sent : OnStream("gadget", StreamIds[s]) = Whole(s)
          /\ \A s \in DOMAIN Answer :
                LET sent == IF s \in DOMAIN Sent THEN Len(Whole(s)) ELSE 0
                IN  OnStream("echo", StreamIds[s]) =
                        [t \in 1..sent |->
                            [streamId |-> StreamIds[s], transactionId |-> t - 1,
                             ack |-> FALSE, payload |-> Answer[s]]]

\* Packets may be cut so short that they count for lost, and take others with
\* them that they were joined to; the process may end in an assertion, or read
\* past the end of a packet, where the run stops.  What has been handed over by
\* then is whole all the same, in order, and nothing that was cut is among it.
NothingCutIsDelivered ==
    \A s \in DOMAIN Sent :
        LET got == OnStream("gadget", StreamIds[s])
        IN  /\ IsInjective(got) /\ ToSet(got) \subseteq ToSet(Whole(s))
            /\ \A i, j \in DOMAIN got :
                  i < j => got[i].transactionId < got[j].transactionId

\* The Echo device prints the results that the gadget gave, in their order,
\* although FAILURE is printed as UNSUPPORTED.  Of the messages that ask for a
\* result and are handed over, as many get SUCCESS as there are on the control
\* and the Alexa stream; the messages of the OTA stream get none.
Printed(result) == IF result = SUCCESS THEN "SUCCESS" ELSE "UNSUPPORTED"

Successes == {i \in DOMAIN verdicts : verdicts[i] = SUCCESS}

\* The messages handed over for which a result is given.
Acknowledged ==
    {i \in DOMAIN received["gadget"] :
        received["gadget"][i].ack /\ received["gadget"][i].streamId # OTA_STREAM}

ResultsReadBack ==
    pc = "done" =>
        /\ results = [i \in DOMAIN verdicts |-> Printed(verdicts[i])]
        /\ Cardinality(Successes) = Cardinality(Acknowledged)

\* The messages that ask for a result, and those that got one.
AskingOn(s) ==
    {StreamByte(StreamIds[s], t - 1) : t \in {n \in DOMAIN Sent[s] : Sent[s][n].ack}}

Asking == UNION {AskingOn(s) : s \in {q \in DOMAIN Sent : StreamIds[q] # UNKNOWN_STREAM}}

Judged(result) == {judged[i] : i \in {j \in DOMAIN verdicts : verdicts[j] = result}}

\* No message is answered twice, however much of it still comes after it was
\* refused: those that ask get SUCCESS when they are handed over, unless they are
\* on the OTA stream, whose messages get no result then (rx.c:181), and a FAILURE
\* is only ever about a message that asked and was not given SUCCESS.
AnsweredOnce ==
    /\ Len(judged) = Len(verdicts) /\ IsInjective(judged)
    /\ Judged(SUCCESS) =
          {StreamByte(m.streamId, m.transactionId) :
              m \in {received["gadget"][i] : i \in Acknowledged}}
    /\ Judged(FAILURE) \subseteq Asking

\* Each message that asks and of which a packet was cut, on the OTA stream too,
\* is answered with FAILURE, and no other.
CutIsRefused == pc = "done" => Judged(FAILURE) = Asking \cap cut

\* A packet that line 246 finds too short is not read past its end.
NothingReadPastEnd == pc # "undefined"
=============================================================================
