---------------------------- MODULE BleEndpoint ----------------------------
(***************************************************************************)
(* The two roles of the BLE handshake sample, Echo device and gadget: what *)
(* each has queued for the other (tx.c), what it is reassembling (rx.c),   *)
(* and what decodePacket does with the next packet it is given.            *)
(*                                                                         *)
(* The module has the state and the actions of the roles; BleLink composes *)
(* them over a link and BleSample drives them as runSample (sample.c)      *)
(* does.  The static variables of rx.c and tx.c belong to the PROCESS that *)
(* hosts a role: a gadget and an Echo device are two processes, sample.c   *)
(* plays both roles in one.                                                *)
(*                                                                         *)
(* Payload bytes are tokens <<sender, transaction number, position>>, so   *)
(* that a byte is told apart from every other byte ever sent on a stream.  *)
(***************************************************************************)
EXTENDS BlePackets, Sequences

CONSTANTS
    Size,       \* Size[m]: length of the encoded message m, in bytes
    HostOf,     \* HostOf[r]: the process that plays role r
    NULL        \* no reassembly buffer

VARIABLES
    outbox,             \* outbox[r][s]: what role r has queued on stream s
    rxBuffers,          \* rxBuffers[p][s]: reassembly in process p
    lastTransactionId,  \* lastTransactionId[p][s]
    aborted,            \* aborted[p]: an assert of process p failed
    (* History variables. *)
    sent,       \* sent[r][s][n]: the n-th transaction r created on s
    delivered,  \* delivered[r][s]: numbers of the peer's transactions handed
                \*   to the message handlers, 0 for bytes that nobody sent
    verdicts    \* verdicts[r][s]: the control acks that r has created

endpointVars == <<outbox, rxBuffers, lastTransactionId, aborted,
                  sent, delivered, verdicts>>

-----------------------------------------------------------------------------
Echo == "ROLE_ECHO"
Gadget == "ROLE_GADGET"
Roles == {Echo, Gadget}
Peer(r) == IF r = Echo THEN Gadget ELSE Echo

Streams == {"CONTROL_STREAM", "OTA_STREAM", "ALEXA_STREAM"}
Processes == {HostOf[r] : r \in Roles}

\* The commands handleReceivedCommand knows, and one that it does not.
Commands == {"GET_DEVICE_INFORMATION", "GET_DEVICE_FEATURES",
             "UPDATE_COMPONENT_SEGMENT", "APPLY_FIRMWARE", "OTHER"}

\* What a message is, as far as a handler tells messages apart.
Command(c) == [which |-> "command", command |-> c, error |-> "SUCCESS"]
Response(c) ==
    [which |-> "response", command |-> c,
     error |-> IF c = "OTHER" THEN "UNSUPPORTED" ELSE "SUCCESS"]
Directive == [which |-> "directive", command |-> "Discover", error |-> "SUCCESS"]
Event == [which |-> "event", command |-> "Discover", error |-> "SUCCESS"]
Data == [which |-> "data", command |-> "OTA", error |-> "SUCCESS"]

Messages == {Command(c) : c \in Commands} \cup {Response(c) : c \in Commands}
              \cup {Directive, Event, Data}

\* What pb_decode may make of bytes that are not a message.
Undecodable == [which |-> "nothing", command |-> "", error |-> ""]

Results == {"SUCCESS", "FAILURE"}

ASSUME EndpointAssumption ==
    /\ Size \in [Messages -> 1..MaxTransactionLength]
    /\ DOMAIN HostOf = Roles

-----------------------------------------------------------------------------
(***************************************************************************)
(* Transmit side.  A transaction in an outbox stands for those packets     *)
(* that buildStreamPacket made of it and that have not left yet: the       *)
(* packets are a function of where the loop variables srcIndex and seqNum  *)
(* stand, so they are kept instead of the packets.                         *)
(***************************************************************************)
Transaction(r, n, id, m, ack) ==
    [kind |-> "transaction", from |-> r, number |-> n, transactionId |-> id,
     message |-> m, ack |-> ack, srcIndex |-> 0, seqNum |-> 0]

\* `number' places the ack behind the transactions its sender had queued.
ControlAck(n, id, result) ==
    [kind |-> "ack", number |-> n, transactionId |-> id, result |-> result]

RemainingSize(t) == Size[t.message] - t.srcIndex
PayloadOf(t) == PayloadLength(t.srcIndex, RemainingSize(t))

Fragment(r, n, from, length) ==
    [i \in 1..length |-> <<r, n, from + i>>]

\* The packet the loop body makes when its variables stand as in t.
Packet(t) ==
    [type |-> TransactionType(t.srcIndex, RemainingSize(t)),
     transactionId |-> t.transactionId,
     seqNum |-> t.seqNum,
     ack |-> t.ack,
     total |-> Size[t.message],
     number |-> t.number,
     payload |-> Fragment(t.from, t.number, t.srcIndex, PayloadOf(t))]

IsTransaction(item) == item.kind = "transaction"

\* The packet at the head of q is the last one of its item.
LastPacket(q) == IsTransaction(q[1]) => PayloadOf(q[1]) = RemainingSize(q[1])

\* The loop variables one iteration later.
Advanced(t) ==
    [t EXCEPT !.srcIndex = @ + PayloadOf(t), !.seqNum = NextSeqNum(@)]

\* The queue after its first packet has left.
Departed(q) ==
    IF LastPacket(q) THEN Tail(q) ELSE [q EXCEPT ![1] = Advanced(@)]

\* Role r takes the next packet of its peer and queues `items' itself.
TakeAndQueue(r, s, items) ==
    outbox' = [x \in Roles |->
                 [outbox[x] EXCEPT
                    ![s] = IF x = r THEN @ \o items ELSE Departed(@)]]

\* getNextTransactionId, and the history of what was created with it.
CreateTransaction(r, s, m, ack) ==
    /\ lastTransactionId' =
         [lastTransactionId EXCEPT ![HostOf[r]][s] = NextTransactionId(@)]
    /\ sent' = [sent EXCEPT ![r][s] = Append(@, [message |-> m, ack |-> ack])]

NewTransaction(r, s, m, ack) ==
    Transaction(r, Len(sent[r][s]) + 1,
                NextTransactionId(lastTransactionId[HostOf[r]][s]), m, ack)

\* The ack flag each create function of tx.c passes down.  Messages tx.c has
\* no function for come from a real Echo device, which may ask for an ack.
AckFlags(m) ==
    IF m \in {Command("OTHER"), Data} THEN BOOLEAN
    ELSE {m \in {Command("UPDATE_COMPONENT_SEGMENT"), Command("APPLY_FIRMWARE")}}

\* What an Echo device sends a gadget on each stream.
EchoMessages(s) ==
    CASE s = "CONTROL_STREAM" -> {Command(c) : c \in Commands}
      [] s = "ALEXA_STREAM" -> {Directive}
      [] s = "OTA_STREAM" -> {Data}

\* One of the create functions, called by role r.
Create(r, s, m, ack) ==
    /\ ~aborted[HostOf[r]]
    /\ CreateTransaction(r, s, m, ack)
    /\ outbox' = [outbox EXCEPT ![r][s] =
                     Append(@, NewTransaction(r, s, m, ack))]
    /\ UNCHANGED <<rxBuffers, aborted, delivered, verdicts>>

-----------------------------------------------------------------------------
(***************************************************************************)
(* Receive side: decodePacket on one packet, one action per way out.       *)
(***************************************************************************)
Arrives(r, s) ==
    /\ ~aborted[HostOf[r]]
    /\ outbox[Peer(r)][s] # <<>>

TransactionArrives(r, s) ==
    /\ Arrives(r, s)
    /\ IsTransaction(outbox[Peer(r)][s][1])

Arriving(r, s) == Packet(outbox[Peer(r)][s][1])
Buffer(r, s) == rxBuffers[HostOf[r]][s]

EmptyBuffer(p) ==
    [transactionId |-> p.transactionId, seqNum |-> 0,
     bufferSize |-> p.total, data |-> <<>>]

IsInitial(p) == p.type = "INITIAL"

\* Mutant: assertions compiled out (NDEBUG).
NoAssertions(p, b) == TRUE

\* The assertions: no reassembly before an INITIAL packet, the same
\* transaction id after it.
AssertionHolds(p, b) ==
    IF IsInitial(p) THEN b = NULL ELSE b # NULL => b.transactionId = p.transactionId

\* A packet of a transaction whose beginning the receiver does not have.
IsStray(p, b) == ~IsInitial(p) /\ b = NULL

\* The buffer that the packet is checked against.
Opened(p, b) == IF IsInitial(p) THEN EmptyBuffer(p) ELSE b

\* Mutant: the sequence number is not compared.
FitsAnySeqNum(p, b) == Len(p.payload) <= b.bufferSize - Len(b.data)

Fits(p, b) ==
    /\ b.seqNum = p.seqNum
    /\ Len(p.payload) <= b.bufferSize - Len(b.data)

\* Mutant: the expected sequence number stays.
AppendedSameSeqNum(p, b) == [b EXCEPT !.data = @ \o p.payload]

Appended(p, b) ==
    [transactionId |-> b.transactionId, seqNum |-> NextSeqNum(b.seqNum),
     bufferSize |-> b.bufferSize, data |-> b.data \o p.payload]

\* Mutants: the comparison is off by one, either way.
IsOverfull(b) == Len(b.data) > b.bufferSize
IsNearlyComplete(b) == Len(b.data) >= b.bufferSize - 1

IsComplete(b) == Len(b.data) = b.bufferSize

SetBuffer(r, s, b) ==
    rxBuffers' = [rxBuffers EXCEPT ![HostOf[r]][s] = b]

\* createControlAckPacket: no packet unless the ack bit is set.
AckItems(r, s, p, result) ==
    IF p.ack THEN <<ControlAck(Len(sent[r][s]), p.transactionId, result)>>
    ELSE <<>>

RecordVerdict(r, s, p, result) ==
    verdicts' = IF p.ack
                THEN [verdicts EXCEPT ![r][s] =
                        Append(@, [number |-> p.number, result |-> result])]
                ELSE verdicts

\* A control packet is printed and leaves no trace.
DecodeControlPacket(r, s) ==
    /\ Arrives(r, s)
    /\ ~IsTransaction(outbox[Peer(r)][s][1])
    /\ TakeAndQueue(r, s, <<>>)
    /\ UNCHANGED <<rxBuffers, lastTransactionId, aborted,
                   sent, delivered, verdicts>>

DecodeStray(r, s) ==
    /\ TransactionArrives(r, s)
    /\ IsStray(Arriving(r, s), Buffer(r, s))
    /\ TakeAndQueue(r, s, <<>>)
    /\ UNCHANGED <<rxBuffers, lastTransactionId, aborted,
                   sent, delivered, verdicts>>

\* malloc of the reassembly buffer fails: the packet is dropped.
DecodeOutOfMemory(r, s) ==
    /\ TransactionArrives(r, s)
    /\ IsInitial(Arriving(r, s)) /\ Buffer(r, s) = NULL
    /\ TakeAndQueue(r, s, <<>>)
    /\ UNCHANGED <<rxBuffers, lastTransactionId, aborted,
                   sent, delivered, verdicts>>

DecodeAborts(r, s) ==
    /\ TransactionArrives(r, s)
    /\ ~AssertionHolds(Arriving(r, s), Buffer(r, s))
    /\ TakeAndQueue(r, s, <<>>)
    /\ aborted' = [aborted EXCEPT ![HostOf[r]] = TRUE]
    /\ UNCHANGED <<rxBuffers, lastTransactionId, sent, delivered, verdicts>>

\* The packet belongs to a reassembly, which it opens or continues.
Reassembles(r, s) ==
    /\ TransactionArrives(r, s)
    /\ AssertionHolds(Arriving(r, s), Buffer(r, s))
    /\ ~IsStray(Arriving(r, s), Buffer(r, s))

\* Mutant: the reassembly is not freed.
DecodeRejectsAndKeeps(r, s) ==
    LET p == Arriving(r, s)
        b == Opened(p, Buffer(r, s))
    IN  /\ Reassembles(r, s)
        /\ ~Fits(p, b)
        /\ TakeAndQueue(r, s, AckItems(r, s, p, "FAILURE"))
        /\ RecordVerdict(r, s, p, "FAILURE")
        /\ UNCHANGED <<rxBuffers, lastTransactionId, aborted, sent, delivered>>

\* Wrong sequence number, or more payload than the transaction has room for.
DecodeRejects(r, s) ==
    LET p == Arriving(r, s)
        b == Opened(p, Buffer(r, s))
    IN  /\ Reassembles(r, s)
        /\ ~Fits(p, b)
        /\ TakeAndQueue(r, s, AckItems(r, s, p, "FAILURE"))
        /\ RecordVerdict(r, s, p, "FAILURE")
        /\ SetBuffer(r, s, NULL)
        /\ UNCHANGED <<lastTransactionId, aborted, sent, delivered>>

DecodeAppends(r, s) ==
    LET p == Arriving(r, s)
        b == Opened(p, Buffer(r, s))
    IN  /\ Reassembles(r, s)
        /\ Fits(p, b)
        /\ ~IsComplete(Appended(p, b))
        /\ TakeAndQueue(r, s, <<>>)
        /\ SetBuffer(r, s, Appended(p, b))
        /\ UNCHANGED <<lastTransactionId, aborted, sent, delivered, verdicts>>

-----------------------------------------------------------------------------
(***************************************************************************)
(* handleDataReceived and the handlers below it.                           *)
(***************************************************************************)
\* The transaction whose payload `data' is, 0 when it is nobody's.
Origin(r, s, data) ==
    LET n == data[1][2]
    IN  IF /\ n \in 1..Len(sent[Peer(r)][s])
           /\ data = Fragment(Peer(r), n, 0, Size[sent[Peer(r)][s][n].message])
        THEN n ELSE 0

\* What the handler reads out of `data'.
Decodings(r, s, data) ==
    IF Origin(r, s, data) # 0
    THEN {sent[Peer(r)][s][Origin(r, s, data)].message}
    ELSE Messages \cup {Undecodable}

\* Mutant: a response is answered like a command.
AnswersToAll(r, s, m) ==
    CASE s = "CONTROL_STREAM" ->
            IF m.which = "nothing" THEN {}
            ELSE {Response(IF m.command \in Commands THEN m.command ELSE "OTHER")}
      [] s = "ALEXA_STREAM" -> IF r = Gadget THEN {Event} ELSE {}
      [] s = "OTA_STREAM" -> {}

\* Mutant: handleReceivedCommand without its default case.
AnswersWithoutDefault(r, s, m) ==
    CASE s = "CONTROL_STREAM" ->
            IF m.which = "command" /\ m.command # "OTHER"
            THEN {Response(m.command)} ELSE {}
      [] s = "ALEXA_STREAM" -> IF r = Gadget THEN {Event} ELSE {}
      [] s = "OTA_STREAM" -> {}

\* The message a handler answers with, if any.
Answers(r, s, m) ==
    CASE s = "CONTROL_STREAM" ->
            IF m.which \in {"response", "nothing"} THEN {}
            ELSE {Response(IF m.command \in Commands THEN m.command ELSE "OTHER")}
      [] s = "ALEXA_STREAM" -> IF r = Gadget THEN {Event} ELSE {}
      [] s = "OTA_STREAM" -> {}

\* Mutant: the test of the role is inverted.
AcknowledgesAsEcho(r, s) == r = Echo /\ s # "OTA_STREAM"

\* Only the gadget acknowledges what it has received, and never on OTA_STREAM.
Acknowledges(r, s) == r = Gadget /\ s # "OTA_STREAM"

SuccessAck(r, s, p) ==
    IF Acknowledges(r, s) THEN AckItems(r, s, p, "SUCCESS") ELSE <<>>

RecordSuccess(r, s, p) ==
    IF Acknowledges(r, s) THEN RecordVerdict(r, s, p, "SUCCESS")
    ELSE UNCHANGED verdicts

\* The last packet of a transaction: acknowledge, handle, answer, free.
DecodeCompletes(r, s) ==
    LET p == Arriving(r, s)
        b == Opened(p, Buffer(r, s))
        data == Appended(p, b).data
    IN  /\ Reassembles(r, s)
        /\ Fits(p, b)
        /\ IsComplete(Appended(p, b))
        /\ SetBuffer(r, s, NULL)
        /\ delivered' = [delivered EXCEPT ![r][s] = Append(@, Origin(r, s, data))]
        /\ RecordSuccess(r, s, p)
        /\ \E m \in Decodings(r, s, data) :
             \/ /\ Answers(r, s, m) = {}
                /\ TakeAndQueue(r, s, SuccessAck(r, s, p))
                /\ UNCHANGED <<lastTransactionId, sent>>
             \/ \E a \in Answers(r, s, m) :
                  /\ CreateTransaction(r, s, a, FALSE)
                  /\ TakeAndQueue(r, s, Append(SuccessAck(r, s, p),
                                               NewTransaction(r, s, a, FALSE)))
        /\ UNCHANGED aborted

\* decodePacket, when memory does not run out.
DecodePacket(r, s) ==
    \/ DecodeControlPacket(r, s)
    \/ DecodeStray(r, s)
    \/ DecodeAborts(r, s)
    \/ DecodeRejects(r, s)
    \/ DecodeAppends(r, s)
    \/ DecodeCompletes(r, s)

InitEndpoints ==
    /\ outbox = [r \in Roles |-> [s \in Streams |-> <<>>]]
    /\ rxBuffers = [p \in Processes |-> [s \in Streams |-> NULL]]
    /\ lastTransactionId =
         [p \in Processes |-> [s \in Streams |-> TransactionIdModulus - 1]]
    /\ aborted = [p \in Processes |-> FALSE]
    /\ sent = [r \in Roles |-> [s \in Streams |-> <<>>]]
    /\ delivered = [r \in Roles |-> [s \in Streams |-> <<>>]]
    /\ verdicts = [r \in Roles |-> [s \in Streams |-> <<>>]]

-----------------------------------------------------------------------------
(***************************************************************************)
(* Channels: how what a role has queued, created and delivered, and what   *)
(* its peer holds of it, belong together as long as nothing is lost.       *)
(***************************************************************************)
\* What the receiver holds of a transaction whose sender stands as in t.
Reassembly(t) ==
    [transactionId |-> t.transactionId, seqNum |-> t.seqNum,
     bufferSize |-> Size[t.message],
     data |-> Fragment(t.from, t.number, 0, t.srcIndex)]

Started(item) == IsTransaction(item) /\ item.srcIndex > 0

\* Buffer b is where the sender of queue q is.
Mirrors(q, b) ==
    b = IF q # <<>> /\ Started(q[1]) THEN Reassembly(q[1]) ELSE NULL

\* How far an item takes the numbers of its channel.
Stride(item) == IF IsTransaction(item) THEN 1 ELSE 0

\* Item i of a queue q of role x, where S was created and sent in order.
ItemInOrder(x, q, S, i) ==
    /\ q[i].number \in 0..Len(S)
    /\ IsTransaction(q[i]) =>
         /\ q[i].from = x /\ q[i].number >= 1
         /\ q[i].message = S[q[i].number].message
         /\ q[i].srcIndex = 0 \/ i = 1
         /\ q[i].srcIndex = 0 => q[i].seqNum = 0

\* Queue q lies, without a gap, between what was delivered, D, and S.
ChannelInOrder(x, q, S, D) ==
    /\ \A i \in 1..Len(D) : D[i] = i
    /\ \A i \in 1..Len(q) : ItemInOrder(x, q, S, i)
    /\ \A i \in 1..Len(q) - 1 : q[i + 1].number = q[i].number + Stride(q[i + 1])
    /\ q = <<>> => Len(D) = Len(S)
    /\ q # <<>> => /\ q[1].number = Len(D) + Stride(q[1])
                  /\ q[Len(q)].number = Len(S)

-----------------------------------------------------------------------------
(***************************************************************************)
(* Types.                                                                  *)
(***************************************************************************)
TransactionItem ==
    {t \in [kind : {"transaction"}, from : Roles, number : Nat,
            transactionId : TransactionIds, message : Messages,
            ack : BOOLEAN, srcIndex : Nat, seqNum : SeqNums] :
        t.srcIndex < Size[t.message]}

AckItem == [kind : {"ack"}, number : Nat,
            transactionId : TransactionIds, result : Results]

Byte == Roles \X Nat \X Nat

RxBuffer == [transactionId : TransactionIds,
             seqNum : SeqNums,
             bufferSize : Nat, data : Seq(Byte)]

ASSUME NullAssumption == NULL \notin RxBuffer

\* The values the variables range over.
EndpointTypeOK ==
    /\ outbox \in [Roles -> [Streams -> Seq(TransactionItem \cup AckItem)]]
    /\ rxBuffers \in [Processes -> [Streams -> RxBuffer \cup {NULL}]]
    /\ lastTransactionId \in [Processes -> [Streams -> TransactionIds]]
    /\ aborted \in [Processes -> BOOLEAN]
    /\ sent \in [Roles -> [Streams -> Seq([message : Messages, ack : BOOLEAN])]]
    /\ delivered \in [Roles -> [Streams -> Seq(Nat)]]
    /\ verdicts \in [Roles -> [Streams -> Seq([number : Nat, result : Results])]]
=============================================================================
