----------------------------- MODULE BlePackets -----------------------------
(***************************************************************************)
(* The size arithmetic of the BLE packets that both ends of the handshake  *)
(* agree on: how the loop body of buildStreamPacket (tx.c) cuts the next   *)
(* packet out of a payload of which srcIndex bytes are already packed and  *)
(* `remaining' bytes are not.  Every operator below is a pure function of  *)
(* these two numbers, so that the transmit loop (BleTx) and the link       *)
(* (BleLink) use the same translation of the same lines.                   *)
(***************************************************************************)
EXTENDS Integers

CONSTANTS
    MTU,                    \* SAMPLE_NEGOTIATED_MTU (128 in config.h)
    ShortLengthMax,         \* largest length of one byte: 0xff
    MaxTransactionLength,   \* largest length of two bytes: 0xffff
    SeqNumModulus,          \* SEQ_NUM_ID_MASK + 1: 16
    TransactionIdModulus    \* TRANSACTION_ID_MASK + 1: 16

(***************************************************************************)
(* What the arithmetic needs of the configuration.  An INITIAL packet has  *)
(* a header of six bytes, so a smaller MTU leaves no room for a payload    *)
(* and (the C code being unsigned) would wrap MTU - header around.         *)
(***************************************************************************)
ASSUME PacketAssumption ==
    /\ MTU \in Nat /\ MTU > 6
    /\ ShortLengthMax \in Nat /\ ShortLengthMax >= 1
    /\ MaxTransactionLength \in Nat /\ MaxTransactionLength >= ShortLengthMax
    /\ SeqNumModulus \in Nat /\ SeqNumModulus >= 1
    /\ TransactionIdModulus \in Nat /\ TransactionIdModulus >= 1

MIN(x, y) == IF x < y THEN x ELSE y

\* Stream, sequence/type/flags and length; an INITIAL packet adds a reserved
\* byte and the two bytes of the total length.
HeaderSize(srcIndex) == IF srcIndex = 0 THEN 6 ELSE 3

\* The payload that would fit with a length field of one byte.
PlainLength(srcIndex, remaining) == MIN(MTU - HeaderSize(srcIndex), remaining)

\* Mutant: the bound is off by one.
IsExtendedLate(srcIndex, remaining) ==
    PlainLength(srcIndex, remaining) > ShortLengthMax + 1

\* The length needs a second byte.
IsExtended(srcIndex, remaining) ==
    PlainLength(srcIndex, remaining) > ShortLengthMax

FullHeaderSize(srcIndex, remaining) ==
    HeaderSize(srcIndex) + IF IsExtended(srcIndex, remaining) THEN 1 ELSE 0

\* Mutant: the second length byte is not made room for.
PayloadLengthWithoutRoom(srcIndex, remaining) == PlainLength(srcIndex, remaining)

\* The second length byte may cost one byte of payload.
PayloadLength(srcIndex, remaining) ==
    IF /\ IsExtended(srcIndex, remaining)
       /\ PlainLength(srcIndex, remaining)
             > MTU - FullHeaderSize(srcIndex, remaining)
    THEN PlainLength(srcIndex, remaining) - 1
    ELSE PlainLength(srcIndex, remaining)

PacketSize(srcIndex, remaining) ==
    FullHeaderSize(srcIndex, remaining) + PayloadLength(srcIndex, remaining)

\* Mutant: a transaction of a single packet is FINAL.
TransactionTypeFinalAlone(srcIndex, remaining) ==
    IF PayloadLength(srcIndex, remaining) = remaining THEN "FINAL"
    ELSE IF srcIndex = 0 THEN "INITIAL"
    ELSE "CONTINUE"

\* A transaction of a single packet is INITIAL and never FINAL.
TransactionType(srcIndex, remaining) ==
    IF srcIndex = 0 THEN "INITIAL"
    ELSE IF PayloadLength(srcIndex, remaining) = remaining THEN "FINAL"
    ELSE "CONTINUE"

SeqNums == 0..SeqNumModulus - 1
TransactionIds == 0..TransactionIdModulus - 1

\* Mutants: the numbers are not cut to their bits.
NextSeqNumUnmasked(seqNum) == seqNum + 1
NextTransactionIdUnmasked(id) == id + 1

NextSeqNum(seqNum) == (seqNum + 1) % SeqNumModulus
NextTransactionId(id) == (id + 1) % TransactionIdModulus
=============================================================================
