------------------------------- MODULE BleTx -------------------------------
(***************************************************************************)
(* buildStreamPacket (tx.c): one call, one iteration of its loop per step. *)
(* A payload is the interval of the byte positions 0..payloadSize - 1; a   *)
(* packet records which part of it was copied and the header fields as     *)
(* they stand on the wire, length fields cut to the bytes they have.       *)
(***************************************************************************)
EXTENDS BlePackets, Sequences

CONSTANTS
    StreamIds,      \* stream ids the call may be made with
    PayloadSizes,   \* payload sizes the call may be made with
    MaxFaults       \* bound on failed allocations

ValidStreamIds == {0, 2, 6}     \* CONTROL_STREAM, OTA_STREAM, ALEXA_STREAM

ASSUME TxAssumption ==
    /\ StreamIds \subseteq Nat
    /\ PayloadSizes \subseteq Nat
    /\ MaxFaults \in Nat
    \* the largest total length has two bytes
    /\ MaxTransactionLength < (ShortLengthMax + 1) * (ShortLengthMax + 1)

VARIABLES
    streamId, ack, payloadSize,     \* the arguments
    pc,                 \* "call", "loop", "returned", "null" or "exit"
    remainingSize, srcIndex, seqNum, transactionId,     \* the locals
    packets,            \* the list under packetListHead
    lastTransactionId,  \* the static of getNextTransactionId, for streamId
    faults

arguments == <<streamId, ack, payloadSize>>
locals == <<remainingSize, srcIndex, seqNum, transactionId, packets>>
vars == <<arguments, pc, locals, lastTransactionId, faults>>

Init ==
    /\ streamId \in StreamIds /\ ack \in BOOLEAN /\ payloadSize \in PayloadSizes
    /\ lastTransactionId \in TransactionIds
    /\ pc = "call"
    /\ remainingSize = payloadSize /\ srcIndex = 0
    /\ seqNum = 0 /\ transactionId = 0 /\ packets = <<>>
    /\ faults = 0

-----------------------------------------------------------------------------
Accepted == streamId \in ValidStreamIds /\ payloadSize <= MaxTransactionLength

\* The early returns: no list.
RejectArguments ==
    /\ pc = "call" /\ ~Accepted
    /\ pc' = "null"
    /\ UNCHANGED <<arguments, locals, lastTransactionId, faults>>

EnterLoop ==
    /\ pc = "call" /\ Accepted
    /\ pc' = "loop"
    /\ UNCHANGED <<arguments, locals, lastTransactionId, faults>>

\* A number as it stands in one byte, or in two.
OneByte(n) == n % (ShortLengthMax + 1)
TwoBytes(n) == n % ((ShortLengthMax + 1) * (ShortLengthMax + 1))

\* The id of the transaction, drawn by the iteration that finds srcIndex 0.
CurrentId == IF srcIndex = 0 THEN NextTransactionId(lastTransactionId)
             ELSE transactionId

CurrentLength == PayloadLength(srcIndex, remainingSize)

CurrentPacket ==
    [streamId |-> streamId,
     transactionId |-> CurrentId,
     seqNum |-> seqNum,
     type |-> TransactionType(srcIndex, remainingSize),
     ack |-> ack,
     total |-> IF srcIndex = 0 THEN TwoBytes(payloadSize) ELSE 0,
     extended |-> IsExtended(srcIndex, remainingSize),
     length |-> IF IsExtended(srcIndex, remainingSize) THEN TwoBytes(CurrentLength)
                ELSE OneByte(CurrentLength),
     first |-> srcIndex,
     copied |-> CurrentLength,
     size |-> PacketSize(srcIndex, remainingSize)]

DrawTransactionId ==
    /\ transactionId' = CurrentId
    /\ lastTransactionId' = IF srcIndex = 0 THEN CurrentId ELSE lastTransactionId

\* What an iteration leaves in the loop's variables.
Advance ==
    /\ DrawTransactionId
    /\ seqNum' = NextSeqNum(seqNum)
    /\ srcIndex' = srcIndex + CurrentLength
    /\ remainingSize' = remainingSize - CurrentLength

Iterate ==
    /\ pc = "loop" /\ remainingSize > 0
    /\ Advance
    /\ packets' = Append(packets, CurrentPacket)
    /\ UNCHANGED <<arguments, pc, faults>>

Fault == faults < MaxFaults /\ faults' = faults + 1

\* malloc of the packet fails: the program exits.
IterateOutOfMemory ==
    /\ pc = "loop" /\ remainingSize > 0
    /\ Fault
    /\ DrawTransactionId
    /\ pc' = "exit"
    /\ UNCHANGED <<arguments, remainingSize, srcIndex, seqNum, packets>>

\* Mutant: the sequence number counts the packets in the list.
IterateNodeLostUncounted ==
    /\ pc = "loop" /\ remainingSize > 0
    /\ Fault
    /\ DrawTransactionId
    /\ seqNum' = seqNum
    /\ srcIndex' = srcIndex + CurrentLength
    /\ remainingSize' = remainingSize - CurrentLength
    /\ UNCHANGED <<arguments, pc, packets>>

\* malloc of the list node fails in PacketList_addToTail: the packet is not
\* in the list and the loop goes on.
IterateNodeLost ==
    /\ pc = "loop" /\ remainingSize > 0
    /\ Fault
    /\ Advance
    /\ UNCHANGED <<arguments, pc, packets>>

Return ==
    /\ pc = "loop" /\ remainingSize = 0
    /\ pc' = "returned"
    /\ UNCHANGED <<arguments, locals, lastTransactionId, faults>>

Next == \/ RejectArguments \/ EnterLoop
        \/ Iterate \/ IterateOutOfMemory \/ IterateNodeLost
        \/ Return

Spec == Init /\ [][Next]_vars

-----------------------------------------------------------------------------
PacketTypes == {"INITIAL", "CONTINUE", "FINAL"}

WirePacket ==
    [streamId : ValidStreamIds, transactionId : TransactionIds,
     seqNum : SeqNums, type : PacketTypes, ack : BOOLEAN,
     total : Nat, extended : BOOLEAN, length : Nat,
     first : Nat, copied : Nat, size : Nat]

TypeOK ==
    /\ streamId \in StreamIds /\ ack \in BOOLEAN /\ payloadSize \in PayloadSizes
    /\ pc \in {"call", "loop", "returned", "null", "exit"}
    /\ remainingSize \in Nat /\ srcIndex \in Nat
    /\ seqNum \in SeqNums
    /\ transactionId \in TransactionIds
    /\ lastTransactionId \in TransactionIds
    /\ packets \in Seq(WirePacket)
    /\ faults \in 0..MaxFaults

(***************************************************************************)
(* No packet exceeds what was negotiated, whether or not its length takes  *)
(* a second byte (tx.c:139-147, 154), and none is empty.                   *)
(***************************************************************************)
PacketsFitMtu ==
    \A i \in 1..Len(packets) :
        packets[i].size <= MTU /\ packets[i].copied >= 1

(***************************************************************************)
(* The packets copy the whole payload, once and in order, and say so by    *)
(* their types: INITIAL first, FINAL last unless there is only one.        *)
(* (tx.c:132-137, 150-152, 191-193).                                       *)
(***************************************************************************)
PacketsCoverPayload ==
    pc = "returned" /\ faults = 0 =>
        \A i \in 1..Len(packets) :
            LET end == packets[i].first + packets[i].copied
            IN  /\ packets[i].first = 0 <=> i = 1
                /\ end = IF i = Len(packets) THEN payloadSize
                         ELSE packets[i + 1].first
                /\ packets[i].type = IF i = 1 THEN "INITIAL"
                                     ELSE IF i = Len(packets) THEN "FINAL"
                                     ELSE "CONTINUE"

(***************************************************************************)
(* What the receiver reads back from the length fields is what was meant:  *)
(* neither the total nor a packet's length is cut off (tx.c:118, 141,      *)
(* 175-188 against rx.c:254-255, 292-312).                                 *)
(***************************************************************************)
LengthsReadBack ==
    \A i \in 1..Len(packets) :
        /\ packets[i].length = packets[i].copied
        /\ packets[i].type = "INITIAL" => packets[i].total = payloadSize

(***************************************************************************)
(* A packet whose list node could not be allocated does not go unnoticed   *)
(* by the receiver: the packets that are in the list have the sequence     *)
(* numbers they would have had anyway, so that, with fewer failures than   *)
(* there are sequence numbers, a gap shows at the next packet              *)
(* (tx.c:165-166, helpers.c:42-45, rx.c:322).                              *)
(***************************************************************************)
GapsShow ==
    faults < SeqNumModulus =>
        \A i \in 1..Len(packets) - 1 :
            packets[i + 1].first = packets[i].first + packets[i].copied
              <=> packets[i + 1].seqNum = NextSeqNum(packets[i].seqNum)
=============================================================================
