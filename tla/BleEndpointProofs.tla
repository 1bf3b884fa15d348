-------------------------- MODULE BleEndpointProofs --------------------------
(***************************************************************************)
(* Lemmas about the two roles of the handshake (BleEndpoint), whatever     *)
(* drives them, for every size of messages and every MTU: the types the    *)
(* parts of decodePacket keep, and what it does with a channel that is in  *)
(* order.  Nothing here depends on which process hosts a role.             *)
(***************************************************************************)
EXTENDS BleEndpoint, SharedLemmas, TLAPS

\* A packet takes at least one byte, at most what remains, and fits the MTU.
LEMMA PayloadBounds ==
    ASSUME NEW src \in Nat, NEW rem \in Nat, rem > 0
    PROVE  /\ PayloadLength(src, rem) \in 1..rem
           /\ PacketSize(src, rem) \in Nat
           /\ PacketSize(src, rem) <= MTU
  BY PacketAssumption
  DEF PayloadLength, PacketSize, FullHeaderSize, IsExtended, PlainLength,
      HeaderSize, MIN

Item == TransactionItem \cup AckItem

-----------------------------------------------------------------------------
(***************************************************************************)
(* Bytes.                                                                  *)
(***************************************************************************)
LEMMA FragmentType ==
    ASSUME NEW r \in Roles, NEW n \in Nat, NEW from \in Nat, NEW k \in Nat
    PROVE  /\ Fragment(r, n, from, k) \in Seq(Byte)
           /\ Len(Fragment(r, n, from, k)) = k
  BY DEF Fragment, Byte

LEMMA FragmentElement ==
    ASSUME NEW r \in Roles, NEW n \in Nat, NEW from \in Nat, NEW k \in Nat,
           NEW i \in 1..k
    PROVE  Fragment(r, n, from, k)[i] = <<r, n, from + i>>
  BY DEF Fragment

LEMMA FragmentConcat ==
    ASSUME NEW r \in Roles, NEW n \in Nat, NEW a \in Nat, NEW k \in Nat
    PROVE  Fragment(r, n, 0, a) \o Fragment(r, n, a, k) = Fragment(r, n, 0, a + k)
  BY DEF Fragment

-----------------------------------------------------------------------------
(***************************************************************************)
(* Queues.                                                                 *)
(***************************************************************************)
LEMMA ItemCases ==
    ASSUME NEW t \in Item
    PROVE  /\ IsTransaction(t) => t \in TransactionItem
           /\ ~IsTransaction(t) => t \in AckItem
  BY DEF Item, TransactionItem, AckItem, IsTransaction

\* What the packet arithmetic says of a queued transaction.
LEMMA ItemPayload ==
    ASSUME NEW t \in TransactionItem
    PROVE  /\ Size[t.message] \in Nat
           /\ RemainingSize(t) \in Nat /\ RemainingSize(t) > 0
           /\ RemainingSize(t) = Size[t.message] - t.srcIndex
           /\ PayloadOf(t) \in 1..RemainingSize(t)
<1>1. /\ t.message \in Messages /\ t.srcIndex \in Nat
      /\ t.srcIndex < Size[t.message]
  BY DEF TransactionItem
<1>2. Size[t.message] \in Nat
  BY <1>1, EndpointAssumption, PacketAssumption
<1>3. RemainingSize(t) \in Nat /\ RemainingSize(t) > 0
  BY <1>1, <1>2 DEF RemainingSize
<1> QED
  BY <1>1, <1>2, <1>3, PayloadBounds DEF RemainingSize, PayloadOf

LEMMA NextSeqNumType ==
    ASSUME NEW n \in SeqNums
    PROVE  NextSeqNum(n) \in SeqNums
  BY ModRange, PacketAssumption DEF NextSeqNum, SeqNums

LEMMA NextTransactionIdType ==
    ASSUME NEW n \in TransactionIds
    PROVE  NextTransactionId(n) \in TransactionIds
  BY ModRange, PacketAssumption DEF NextTransactionId, TransactionIds

LEMMA AdvancedType ==
    ASSUME NEW t \in TransactionItem, PayloadOf(t) # RemainingSize(t)
    PROVE  /\ Advanced(t) \in TransactionItem
           /\ Advanced(t).srcIndex = t.srcIndex + PayloadOf(t)
           /\ Advanced(t).srcIndex > 0
           /\ Advanced(t).seqNum = NextSeqNum(t.seqNum)
           /\ Advanced(t).number = t.number /\ Advanced(t).from = t.from
           /\ Advanced(t).message = t.message
           /\ Advanced(t).transactionId = t.transactionId
           /\ IsTransaction(Advanced(t))
<1>1. /\ t.srcIndex \in Nat /\ t.message \in Messages
      /\ t.seqNum \in SeqNums
  BY DEF TransactionItem
<1>2. /\ t.srcIndex + PayloadOf(t) \in Nat
      /\ t.srcIndex + PayloadOf(t) > 0
      /\ t.srcIndex + PayloadOf(t) < Size[t.message]
  BY <1>1, ItemPayload
<1>3. NextSeqNum(t.seqNum) \in SeqNums
  BY <1>1, NextSeqNumType
<1> QED
  BY <1>1, <1>2, <1>3 DEF Advanced, TransactionItem, IsTransaction

LEMMA DepartedLast ==
    ASSUME NEW q \in Seq(Item), q # <<>>, LastPacket(q)
    PROVE  /\ Departed(q) \in Seq(Item)
           /\ Len(Departed(q)) = Len(q) - 1
           /\ \A i \in 1..Len(q) - 1 : Departed(q)[i] = q[i + 1]
  BY DEF Departed

LEMMA DepartedMore ==
    ASSUME NEW q \in Seq(Item), q # <<>>, ~LastPacket(q)
    PROVE  /\ Departed(q) \in Seq(Item)
           /\ Len(Departed(q)) = Len(q)
           /\ Departed(q)[1] = Advanced(q[1])
           /\ q[1] \in TransactionItem /\ PayloadOf(q[1]) # RemainingSize(q[1])
           /\ \A i \in 2..Len(q) : Departed(q)[i] = q[i]
<1>1. q[1] \in TransactionItem /\ PayloadOf(q[1]) # RemainingSize(q[1])
  BY ItemCases DEF LastPacket
<1>2. Departed(q) = [q EXCEPT ![1] = Advanced(q[1])]
  BY DEF Departed
<1>3. Advanced(q[1]) \in Item
  BY <1>1, AdvancedType DEF Item
<1> QED
  BY <1>1, <1>2, <1>3

LEMMA DepartedType ==
    ASSUME NEW q \in Seq(Item), q # <<>>
    PROVE  Departed(q) \in Seq(Item)
  BY DepartedLast, DepartedMore

-----------------------------------------------------------------------------
(***************************************************************************)
(* Channels: what the events of a link do to a queue that is in order.     *)
(***************************************************************************)
Record == [message : Messages, ack : BOOLEAN]

LEMMA ItemNumber ==
    ASSUME NEW q \in Seq(Item), NEW i \in 1..Len(q)
    PROVE  q[i].number \in Nat /\ Stride(q[i]) \in {0, 1}
<1>1. q[i] \in Item
  OBVIOUS
<1> QED
  BY <1>1 DEF Item, TransactionItem, AckItem, Stride

\* A control packet, or the last of a transaction's, leaves the queue.
LEMMA ChannelTail ==
    ASSUME NEW x \in Roles, NEW q \in Seq(Item), NEW S \in Seq(Record),
           NEW D \in Seq(Nat), NEW E \in Seq(Nat),
           ChannelInOrder(x, q, S, D), q # <<>>, LastPacket(q),
           E = IF IsTransaction(q[1]) THEN Append(D, q[1].number) ELSE D
    PROVE  ChannelInOrder(x, Departed(q), S, E)
<1> DEFINE r == Departed(q)
<1>1. /\ r \in Seq(Item) /\ Len(r) = Len(q) - 1
      /\ \A i \in 1..Len(r) : r[i] = q[i + 1]
  BY DepartedLast
<1> HIDE DEF r
<1>2. /\ q[1].number = Len(D) + Stride(q[1])
      /\ q[1].number \in Nat
      /\ Len(q) \in Nat /\ Len(q) >= 1
  BY ItemNumber DEF ChannelInOrder
<1>3. Len(E) = q[1].number /\ \A i \in 1..Len(E) : E[i] = i
  <2>1. CASE IsTransaction(q[1])
    BY <1>2, <2>1 DEF ChannelInOrder, Stride
  <2>2. CASE ~IsTransaction(q[1])
    BY <1>2, <2>2 DEF ChannelInOrder, Stride
  <2> QED
    BY <2>1, <2>2
<1>4. \A i \in 1..Len(r) : ItemInOrder(x, r, S, i)
  <2> SUFFICES ASSUME NEW i \in 1..Len(r)
               PROVE  ItemInOrder(x, r, S, i)
    OBVIOUS
  <2>1. r[i] = q[i + 1] /\ i + 1 \in 1..Len(q) /\ i + 1 # 1
    BY <1>1, <1>2
  <2>2. ItemInOrder(x, q, S, i + 1)
    BY <2>1 DEF ChannelInOrder
  <2> QED
    BY <2>1, <2>2 DEF ItemInOrder
<1>5. \A i \in 1..Len(r) - 1 : r[i + 1].number = r[i].number + Stride(r[i + 1])
  <2> SUFFICES ASSUME NEW i \in 1..Len(r) - 1
               PROVE  r[i + 1].number = r[i].number + Stride(r[i + 1])
    OBVIOUS
  <2>1. /\ i \in 1..Len(r) /\ i + 1 \in 1..Len(r)
        /\ i + 1 \in 1..Len(q) - 1
    BY <1>1, <1>2
  <2>2. r[i] = q[i + 1] /\ r[i + 1] = q[(i + 1) + 1]
    BY <1>1, <2>1
  <2> QED
    BY <2>1, <2>2 DEF ChannelInOrder
<1>6. r = <<>> => Len(E) = Len(S)
  <2>1. r = <<>> => Len(q) = 1
    BY <1>1, <1>2
  <2> QED
    BY <1>3, <2>1 DEF ChannelInOrder
<1>7. ASSUME r # <<>>
      PROVE  r[1].number = Len(E) + Stride(r[1]) /\ r[Len(r)].number = Len(S)
  <2>1. Len(r) \in Nat /\ Len(r) >= 1 /\ 1 \in 1..Len(q) - 1
    BY <1>1, <1>2, <1>7
  <2>2. r[1] = q[1 + 1] /\ r[Len(r)] = q[Len(q)]
    <3>1. 1 \in 1..Len(q) - 1 /\ Len(r) \in 1..Len(q) - 1 /\ Len(r) + 1 = Len(q)
      BY <1>1, <1>2, <2>1
    <3>2. \A i \in 1..Len(q) - 1 : r[i] = q[i + 1]
      BY <1>1
    <3>3. r[1] = q[1 + 1] /\ r[Len(r)] = q[Len(r) + 1]
      BY <3>1, <3>2
    <3> QED
      BY <3>1, <3>3
  <2>3. q[1 + 1].number = q[1].number + Stride(q[1 + 1])
    BY <2>1 DEF ChannelInOrder
  <2> QED
    BY <1>3, <2>2, <2>3 DEF ChannelInOrder
<1> QED
  BY <1>3, <1>4, <1>5, <1>6, <1>7 DEF ChannelInOrder, r

\* A packet leaves the queue and its transaction goes on.
LEMMA ChannelAdvance ==
    ASSUME NEW x \in Roles, NEW q \in Seq(Item), NEW S \in Seq(Record),
           NEW D \in Seq(Nat),
           ChannelInOrder(x, q, S, D), q # <<>>, ~LastPacket(q)
    PROVE  ChannelInOrder(x, Departed(q), S, D)
<1> DEFINE r == Departed(q)
<1>1. /\ r \in Seq(Item) /\ Len(r) = Len(q)
      /\ r[1] = Advanced(q[1])
      /\ q[1] \in TransactionItem /\ PayloadOf(q[1]) # RemainingSize(q[1])
      /\ \A i \in 2..Len(q) : r[i] = q[i]
  BY DepartedMore
<1>2. /\ r[1].srcIndex > 0 /\ r[1].srcIndex \in Nat
      /\ r[1].number = q[1].number /\ r[1].from = q[1].from
      /\ r[1].message = q[1].message /\ IsTransaction(r[1])
  BY <1>1, AdvancedType DEF TransactionItem
<1>3. IsTransaction(q[1])
  BY <1>1 DEF TransactionItem, IsTransaction
<1> HIDE DEF r
<1>4. \A i \in 1..Len(r) : r[i].number = q[i].number /\ Stride(r[i]) = Stride(q[i])
  BY <1>1, <1>2, <1>3 DEF Stride
<1>5. \A i \in 1..Len(r) : ItemInOrder(x, r, S, i)
  <2> SUFFICES ASSUME NEW i \in 1..Len(r)
               PROVE  ItemInOrder(x, r, S, i)
    OBVIOUS
  <2>1. ItemInOrder(x, q, S, i)
    BY <1>1 DEF ChannelInOrder
  <2>2. CASE i = 1
    BY <1>2, <1>3, <2>1, <2>2 DEF ItemInOrder
  <2>3. CASE i # 1
    BY <1>1, <2>1, <2>3 DEF ItemInOrder
  <2> QED
    BY <2>2, <2>3
<1>6. \A i \in 1..Len(r) - 1 : r[i + 1].number = r[i].number + Stride(r[i + 1])
  BY <1>1, <1>4 DEF ChannelInOrder
<1>7. r # <<>> /\ r[1].number = Len(D) + Stride(r[1]) /\ r[Len(r)].number = Len(S)
  BY <1>1, <1>4 DEF ChannelInOrder
<1> QED
  BY <1>5, <1>6, <1>7 DEF ChannelInOrder, r

\* A control ack is queued.
LEMMA ChannelAck ==
    ASSUME NEW x \in Roles, NEW q \in Seq(Item), NEW S \in Seq(Record),
           NEW D \in Seq(Nat), NEW id, NEW result,
           ChannelInOrder(x, q, S, D)
    PROVE  ChannelInOrder(x, Append(q, ControlAck(Len(S), id, result)), S, D)
<1> DEFINE a == ControlAck(Len(S), id, result)
           r == Append(q, a)
<1>1. a.number = Len(S) /\ ~IsTransaction(a)
  BY DEF ControlAck, IsTransaction
<1>2. /\ Len(r) = Len(q) + 1 /\ r[Len(r)] = a
      /\ \A i \in 1..Len(q) : r[i] = q[i]
  OBVIOUS
<1> HIDE DEF a, r
<1>3. \A i \in 1..Len(r) : ItemInOrder(x, r, S, i)
  <2> SUFFICES ASSUME NEW i \in 1..Len(r)
               PROVE  ItemInOrder(x, r, S, i)
    OBVIOUS
  <2>1. CASE i = Len(r)
    BY <1>1, <1>2, <2>1 DEF ItemInOrder
  <2>2. CASE i # Len(r)
    <3>1. ItemInOrder(x, q, S, i) /\ r[i] = q[i]
      BY <1>2, <2>2 DEF ChannelInOrder
    <3> QED
      BY <3>1 DEF ItemInOrder
  <2> QED
    BY <2>1, <2>2
<1>4. \A i \in 1..Len(r) - 1 : r[i + 1].number = r[i].number + Stride(r[i + 1])
  <2> SUFFICES ASSUME NEW i \in 1..Len(r) - 1
               PROVE  r[i + 1].number = r[i].number + Stride(r[i + 1])
    OBVIOUS
  <2>1. CASE i = Len(q)
    <3>1. r[i] = q[Len(q)] /\ r[i + 1] = a /\ q # <<>>
      BY <1>2, <2>1
    <3>2. q[Len(q)].number = Len(S)
      BY <3>1 DEF ChannelInOrder
    <3> QED
      BY <1>1, <3>1, <3>2 DEF Stride
  <2>2. CASE i # Len(q)
    <3>1. i \in 1..Len(q) - 1 /\ r[i] = q[i] /\ r[i + 1] = q[i + 1]
      BY <1>2, <2>2
    <3> QED
      BY <3>1 DEF ChannelInOrder
  <2> QED
    BY <2>1, <2>2
<1>5. r # <<>> /\ r[1].number = Len(D) + Stride(r[1]) /\ r[Len(r)].number = Len(S)
  <2>1. CASE q = <<>>
    <3>1. r[1] = a /\ Len(D) = Len(S)
      BY <1>2, <2>1 DEF ChannelInOrder
    <3> QED
      BY <1>1, <1>2, <3>1 DEF Stride
  <2>2. CASE q # <<>>
    <3>1. r[1] = q[1] /\ q[1].number = Len(D) + Stride(q[1])
      BY <1>2, <2>2 DEF ChannelInOrder
    <3> QED
      BY <1>1, <1>2, <3>1
  <2> QED
    BY <2>1, <2>2
<1> QED
  BY <1>3, <1>4, <1>5 DEF ChannelInOrder, a, r

\* A new transaction is queued.
LEMMA ChannelCreate ==
    ASSUME NEW x \in Roles, NEW q \in Seq(Item), NEW S \in Seq(Record),
           NEW D \in Seq(Nat), NEW id, NEW m \in Messages, NEW ack \in BOOLEAN,
           ChannelInOrder(x, q, S, D)
    PROVE  ChannelInOrder(x, Append(q, Transaction(x, Len(S) + 1, id, m, ack)),
                          Append(S, [message |-> m, ack |-> ack]), D)
<1> DEFINE t == Transaction(x, Len(S) + 1, id, m, ack)
           r == Append(q, t)
           T == Append(S, [message |-> m, ack |-> ack])
<1>1. /\ t.number = Len(S) + 1 /\ IsTransaction(t) /\ t.from = x
      /\ t.message = m /\ t.srcIndex = 0 /\ t.seqNum = 0
  BY DEF Transaction, IsTransaction
<1>2. /\ Len(r) = Len(q) + 1 /\ r[Len(r)] = t
      /\ \A i \in 1..Len(q) : r[i] = q[i]
      /\ Len(T) = Len(S) + 1 /\ T[Len(T)].message = m
      /\ \A i \in 1..Len(S) : T[i] = S[i]
  OBVIOUS
<1> HIDE DEF t, r, T
<1>3. \A i \in 1..Len(r) : ItemInOrder(x, r, T, i)
  <2> SUFFICES ASSUME NEW i \in 1..Len(r)
               PROVE  ItemInOrder(x, r, T, i)
    OBVIOUS
  <2>1. CASE i = Len(r)
    BY <1>1, <1>2, <2>1 DEF ItemInOrder
  <2>2. CASE i # Len(r)
    <3>1. ItemInOrder(x, q, S, i) /\ r[i] = q[i]
      BY <1>2, <2>2 DEF ChannelInOrder
    <3> QED
      BY <1>2, <3>1 DEF ItemInOrder
  <2> QED
    BY <2>1, <2>2
<1>4. \A i \in 1..Len(r) - 1 : r[i + 1].number = r[i].number + Stride(r[i + 1])
  <2> SUFFICES ASSUME NEW i \in 1..Len(r) - 1
               PROVE  r[i + 1].number = r[i].number + Stride(r[i + 1])
    OBVIOUS
  <2>1. CASE i = Len(q)
    <3>1. r[i] = q[Len(q)] /\ r[i + 1] = t /\ q # <<>>
      BY <1>2, <2>1
    <3>2. q[Len(q)].number = Len(S)
      BY <3>1 DEF ChannelInOrder
    <3> QED
      BY <1>1, <3>1, <3>2 DEF Stride
  <2>2. CASE i # Len(q)
    <3>1. i \in 1..Len(q) - 1 /\ r[i] = q[i] /\ r[i + 1] = q[i + 1]
      BY <1>2, <2>2
    <3> QED
      BY <3>1 DEF ChannelInOrder
  <2> QED
    BY <2>1, <2>2
<1>5. r # <<>> /\ r[1].number = Len(D) + Stride(r[1]) /\ r[Len(r)].number = Len(T)
  <2>1. CASE q = <<>>
    <3>1. r[1] = t /\ Len(D) = Len(S)
      BY <1>2, <2>1 DEF ChannelInOrder
    <3> QED
      BY <1>1, <1>2, <3>1 DEF Stride
  <2>2. CASE q # <<>>
    <3>1. r[1] = q[1] /\ q[1].number = Len(D) + Stride(q[1])
      BY <1>2, <2>2 DEF ChannelInOrder
    <3> QED
      BY <1>1, <1>2, <3>1
  <2> QED
    BY <2>1, <2>2
<1> QED
  BY <1>3, <1>4, <1>5 DEF ChannelInOrder, t, r, T

\* What is queued behind leaves the receiver's view of the head as it was.
LEMMA MirrorsAppend ==
    ASSUME NEW q \in Seq(Item), NEW b, NEW item, Mirrors(q, b), ~Started(item)
    PROVE  Mirrors(Append(q, item), b)
<1>1. CASE q = <<>>
  BY <1>1 DEF Mirrors
<1>2. CASE q # <<>>
  BY <1>2 DEF Mirrors
<1> QED
  BY <1>1, <1>2

-----------------------------------------------------------------------------
(***************************************************************************)
(* Reassembly: a packet that arrives in step is accepted, and leaves the   *)
(* receiver in step with the sender.                                       *)
(***************************************************************************)
LEMMA ReassemblyType ==
    ASSUME NEW t \in TransactionItem
    PROVE  /\ Reassembly(t) \in RxBuffer
           /\ Reassembly(t) # NULL
           /\ Len(Reassembly(t).data) = t.srcIndex
<1>1. /\ t.from \in Roles /\ t.number \in Nat /\ t.srcIndex \in Nat
      /\ t.transactionId \in TransactionIds
      /\ t.seqNum \in SeqNums
  BY DEF TransactionItem
<1>2. /\ Fragment(t.from, t.number, 0, t.srcIndex) \in Seq(Byte)
      /\ Len(Fragment(t.from, t.number, 0, t.srcIndex)) = t.srcIndex
  BY <1>1, FragmentType
<1>3. Size[t.message] \in Nat
  BY ItemPayload
<1>4. Reassembly(t) \in RxBuffer
  BY <1>1, <1>2, <1>3 DEF Reassembly, RxBuffer
<1> QED
  BY <1>2, <1>4, NullAssumption DEF Reassembly

LEMMA PacketFields ==
    ASSUME NEW t \in TransactionItem
    PROVE  /\ IsInitial(Packet(t)) <=> t.srcIndex = 0
           /\ Packet(t).transactionId = t.transactionId
           /\ Packet(t).seqNum = t.seqNum
           /\ Packet(t).total = Size[t.message]
           /\ Packet(t).ack = t.ack
           /\ Packet(t).number = t.number
           /\ Packet(t).payload =
                 Fragment(t.from, t.number, t.srcIndex, PayloadOf(t))
           /\ Len(Packet(t).payload) = PayloadOf(t)
<1>1. /\ t.from \in Roles /\ t.number \in Nat /\ t.srcIndex \in Nat
      /\ PayloadOf(t) \in Nat
  BY ItemPayload DEF TransactionItem
<1>2. Len(Fragment(t.from, t.number, t.srcIndex, PayloadOf(t))) = PayloadOf(t)
  BY <1>1, FragmentType
<1>3. IsInitial(Packet(t)) <=> t.srcIndex = 0
  BY DEF IsInitial, Packet, TransactionType
<1> QED
  BY <1>2, <1>3 DEF Packet

\* The buffer an arriving packet of t is checked against, and appended to.
LEMMA OpenedInStep ==
    ASSUME NEW t \in TransactionItem, t.srcIndex = 0 => t.seqNum = 0, NEW b,
           b = IF t.srcIndex > 0 THEN Reassembly(t) ELSE NULL
    PROVE  /\ AssertionHolds(Packet(t), b)
           /\ ~IsStray(Packet(t), b)
           /\ Opened(Packet(t), b) = Reassembly(t)
<1>1. t.srcIndex \in Nat
  BY DEF TransactionItem
<1>2. CASE t.srcIndex = 0
  <2>1. IsInitial(Packet(t)) /\ b = NULL
    BY <1>2, PacketFields
  <2>2. Fragment(t.from, t.number, 0, 0) = <<>>
    BY DEF Fragment
  <2>3. EmptyBuffer(Packet(t)) = Reassembly(t)
    BY <1>2, <2>2, PacketFields DEF EmptyBuffer, Reassembly
  <2> QED
    BY <2>1, <2>3 DEF AssertionHolds, IsStray, Opened
<1>3. CASE t.srcIndex > 0
  <2>1. ~IsInitial(Packet(t)) /\ b = Reassembly(t)
    BY <1>3, <1>1, PacketFields
  <2>2. b # NULL
    BY <2>1, ReassemblyType
  <2>3. b.transactionId = Packet(t).transactionId
    BY <2>1, PacketFields DEF Reassembly
  <2> QED
    BY <2>1, <2>2, <2>3 DEF AssertionHolds, IsStray, Opened
<1> QED
  BY <1>1, <1>2, <1>3

LEMMA AppendedInStep ==
    ASSUME NEW t \in TransactionItem
    PROVE  LET b == Appended(Packet(t), Reassembly(t))
           IN  /\ Fits(Packet(t), Reassembly(t))
               /\ b.data = Fragment(t.from, t.number, 0, t.srcIndex + PayloadOf(t))
               /\ b.bufferSize = Size[t.message]
               /\ b.transactionId = t.transactionId
               /\ b.seqNum = NextSeqNum(t.seqNum)
               /\ DOMAIN b = {"transactionId", "seqNum", "bufferSize", "data"}
               /\ IsComplete(b) <=> PayloadOf(t) = RemainingSize(t)
<1> DEFINE b == Appended(Packet(t), Reassembly(t))
<1>1. /\ t.from \in Roles /\ t.number \in Nat /\ t.srcIndex \in Nat
      /\ PayloadOf(t) \in Nat /\ PayloadOf(t) <= RemainingSize(t)
      /\ RemainingSize(t) = Size[t.message] - t.srcIndex
      /\ Size[t.message] \in Nat
  BY ItemPayload DEF TransactionItem
<1>2. Reassembly(t).data \o Packet(t).payload
         = Fragment(t.from, t.number, 0, t.srcIndex + PayloadOf(t))
  <2>1. /\ Reassembly(t).data = Fragment(t.from, t.number, 0, t.srcIndex)
        /\ Packet(t).payload = Fragment(t.from, t.number, t.srcIndex, PayloadOf(t))
    BY PacketFields DEF Reassembly
  <2>2. Fragment(t.from, t.number, 0, t.srcIndex)
          \o Fragment(t.from, t.number, t.srcIndex, PayloadOf(t))
          = Fragment(t.from, t.number, 0, t.srcIndex + PayloadOf(t))
    BY <1>1, FragmentConcat, Zenon
  <2> QED
    BY <2>1, <2>2
<1>3. Len(Reassembly(t).data) = t.srcIndex
  BY ReassemblyType
<1>4. Fits(Packet(t), Reassembly(t))
  BY <1>1, <1>3, PacketFields DEF Fits, Reassembly
<1>5. /\ b.data = Fragment(t.from, t.number, 0, t.srcIndex + PayloadOf(t))
      /\ b.bufferSize = Size[t.message]
      /\ b.transactionId = t.transactionId
      /\ b.seqNum = NextSeqNum(t.seqNum)
      /\ DOMAIN b = {"transactionId", "seqNum", "bufferSize", "data"}
  BY <1>2 DEF Appended, Reassembly
<1>6. Len(b.data) = t.srcIndex + PayloadOf(t)
  <2> DEFINE k == t.srcIndex + PayloadOf(t)
  <2>1. t.from \in Roles /\ t.number \in Nat /\ k \in Nat
    BY <1>1
  <2> HIDE DEF k
  <2>2. Len(Fragment(t.from, t.number, 0, k)) = k
    BY <2>1, FragmentType
  <2> QED
    BY <1>5, <2>2 DEF k
<1>7. IsComplete(b) <=> PayloadOf(t) = RemainingSize(t)
  BY <1>1, <1>5, <1>6 DEF IsComplete
<1> QED
  BY <1>4, <1>5, <1>7

\* The buffer after a packet that is not the last.
LEMMA AppendedMirrors ==
    ASSUME NEW t \in TransactionItem, PayloadOf(t) # RemainingSize(t)
    PROVE  Appended(Packet(t), Reassembly(t)) = Reassembly(Advanced(t))
<1>1. Appended(Packet(t), Reassembly(t)) =
         [transactionId |-> t.transactionId, seqNum |-> NextSeqNum(t.seqNum),
          bufferSize |-> Size[t.message],
          data |-> Fragment(t.from, t.number, 0, t.srcIndex + PayloadOf(t))]
  <2>1. Reassembly(t).data \o Packet(t).payload
         = Fragment(t.from, t.number, 0, t.srcIndex + PayloadOf(t))
    BY AppendedInStep DEF Appended, Reassembly
  <2> QED
    BY <2>1 DEF Appended, Reassembly
<1> QED
  BY <1>1, AdvancedType DEF Reassembly

-----------------------------------------------------------------------------
(***************************************************************************)
(* Types: what the parts of an action do to the variables.                 *)
(***************************************************************************)
LEMMA Peers ==
    ASSUME NEW r \in Roles
    PROVE  /\ Peer(r) \in Roles /\ Peer(r) # r /\ Peer(Peer(r)) = r
           /\ \A x \in Roles : x = r \/ x = Peer(r)
           /\ HostOf[r] \in Processes
  BY DEF Peer, Roles, Echo, Gadget, Processes

LEMMA TakeAndQueueEffect ==
    ASSUME EndpointTypeOK, NEW r \in Roles, NEW s \in Streams,
           NEW items \in Seq(Item), outbox[Peer(r)][s] # <<>>,
           TakeAndQueue(r, s, items)
    PROVE  /\ outbox' \in [Roles -> [Streams -> Seq(Item)]]
           /\ outbox'[r][s] = outbox[r][s] \o items
           /\ outbox'[Peer(r)][s] = Departed(outbox[Peer(r)][s])
           /\ \A x \in Roles, z \in Streams \ {s} : outbox'[x][z] = outbox[x][z]
<1>1. outbox \in [Roles -> [Streams -> Seq(Item)]]
  BY DEF EndpointTypeOK, Item
<1>2. /\ outbox[r][s] \o items \in Seq(Item)
      /\ Departed(outbox[Peer(r)][s]) \in Seq(Item)
  BY <1>1, Peers, DepartedType
<1>3. /\ outbox'[r][s] = outbox[r][s] \o items
      /\ outbox'[Peer(r)][s] = Departed(outbox[Peer(r)][s])
      /\ \A x \in Roles, z \in Streams \ {s} : outbox'[x][z] = outbox[x][z]
  BY <1>1, Peers DEF TakeAndQueue
<1>4. \A x \in Roles : outbox'[x] \in [Streams -> Seq(Item)]
  <2> SUFFICES ASSUME NEW x \in Roles
               PROVE  outbox'[x] \in [Streams -> Seq(Item)]
    OBVIOUS
  <2>1. outbox'[x] = [outbox[x] EXCEPT
           ![s] = IF x = r THEN outbox[x][s] \o items ELSE Departed(outbox[x][s])]
    BY <1>1 DEF TakeAndQueue
  <2>2. (IF x = r THEN outbox[x][s] \o items ELSE Departed(outbox[x][s])) \in Seq(Item)
    BY <1>2, Peers
  <2> QED
    BY <1>1, <2>1, <2>2
<1> QED
  BY <1>3, <1>4 DEF TakeAndQueue

LEMMA SetBufferEffect ==
    ASSUME EndpointTypeOK, NEW r \in Roles, NEW s \in Streams,
           NEW b \in RxBuffer \cup {NULL}, SetBuffer(r, s, b)
    PROVE  /\ rxBuffers' \in [Processes -> [Streams -> RxBuffer \cup {NULL}]]
           /\ Buffer(r, s)' = b
           /\ \A h \in Processes, z \in Streams :
                h # HostOf[r] \/ z # s => rxBuffers'[h][z] = rxBuffers[h][z]
<1>1. /\ rxBuffers \in [Processes -> [Streams -> RxBuffer \cup {NULL}]]
      /\ HostOf[r] \in Processes
  BY Peers DEF EndpointTypeOK
<1>2. /\ rxBuffers' \in [Processes -> [Streams -> RxBuffer \cup {NULL}]]
      /\ rxBuffers'[HostOf[r]][s] = b
      /\ \A h \in Processes, z \in Streams :
           h # HostOf[r] \/ z # s => rxBuffers'[h][z] = rxBuffers[h][z]
  BY <1>1 DEF SetBuffer
<1> QED
  BY <1>2 DEF Buffer

LEMMA CreateTransactionEffect ==
    ASSUME EndpointTypeOK, NEW r \in Roles, NEW s \in Streams,
           NEW m \in Messages, NEW ack \in BOOLEAN, CreateTransaction(r, s, m, ack)
    PROVE  /\ lastTransactionId' \in [Processes -> [Streams -> TransactionIds]]
           /\ sent' \in [Roles -> [Streams -> Seq(Record)]]
           /\ sent'[r][s] = Append(sent[r][s], [message |-> m, ack |-> ack])
           /\ \A x \in Roles, z \in Streams :
                x # r \/ z # s => sent'[x][z] = sent[x][z]
           /\ NewTransaction(r, s, m, ack) \in TransactionItem
<1>1. /\ lastTransactionId \in [Processes -> [Streams -> TransactionIds]]
      /\ sent \in [Roles -> [Streams -> Seq(Record)]]
  BY DEF EndpointTypeOK, Record
<1>2. NextTransactionId(lastTransactionId[HostOf[r]][s]) \in TransactionIds
  BY <1>1, Peers, NextTransactionIdType
<1>3. lastTransactionId' \in [Processes -> [Streams -> TransactionIds]]
  BY <1>1, <1>2, Peers DEF CreateTransaction
<1>4. Append(sent[r][s], [message |-> m, ack |-> ack]) \in Seq(Record)
  <2>1. [message |-> m, ack |-> ack] \in Record
    BY Zenon DEF Record
  <2> QED
    BY <1>1, <2>1
<1>5. /\ sent' \in [Roles -> [Streams -> Seq(Record)]]
      /\ sent'[r][s] = Append(sent[r][s], [message |-> m, ack |-> ack])
      /\ \A x \in Roles, z \in Streams :
           x # r \/ z # s => sent'[x][z] = sent[x][z]
  BY <1>1, <1>4 DEF CreateTransaction
<1>6. NewTransaction(r, s, m, ack) \in TransactionItem
  <2>1. Len(sent[r][s]) + 1 \in Nat
    BY <1>1
  <2>2. 0 \in SeqNums /\ 0 < Size[m]
    BY PacketAssumption, EndpointAssumption DEF SeqNums
  <2> QED
    BY <1>2, <2>1, <2>2 DEF NewTransaction, Transaction, TransactionItem
<1> QED
  BY <1>3, <1>5, <1>6

LEMMA ArrivalType ==
    ASSUME EndpointTypeOK, NEW r \in Roles, NEW s \in Streams,
           TransactionArrives(r, s)
    PROVE  LET t == outbox[Peer(r)][s][1]
           IN  /\ t \in TransactionItem /\ IsTransaction(t)
               /\ outbox[Peer(r)][s] \in Seq(Item) /\ outbox[Peer(r)][s] # <<>>
               /\ Arriving(r, s) = Packet(t)
               /\ Buffer(r, s) \in RxBuffer \cup {NULL}
               /\ Packet(t).payload \in Seq(Byte)
               /\ Packet(t).transactionId \in TransactionIds
               /\ Packet(t).ack \in BOOLEAN
               /\ Packet(t).number \in Nat /\ Packet(t).total \in Nat
<1> DEFINE t == outbox[Peer(r)][s][1]
<1>1. outbox[Peer(r)][s] \in Seq(Item) /\ outbox[Peer(r)][s] # <<>>
  BY Peers DEF EndpointTypeOK, Item, TransactionArrives, Arrives
<1>2. t \in Item /\ IsTransaction(t)
  BY <1>1 DEF TransactionArrives
<1>3. t \in TransactionItem
  BY <1>2, ItemCases
<1>4. /\ t.from \in Roles /\ t.number \in Nat /\ t.srcIndex \in Nat
      /\ t.transactionId \in TransactionIds /\ t.ack \in BOOLEAN
      /\ PayloadOf(t) \in Nat /\ Size[t.message] \in Nat
  BY <1>3, ItemPayload DEF TransactionItem
<1>5. Packet(t).payload \in Seq(Byte)
  <2>1. Packet(t).payload = Fragment(t.from, t.number, t.srcIndex, PayloadOf(t))
    BY <1>3, PacketFields
  <2>2. Fragment(t.from, t.number, t.srcIndex, PayloadOf(t)) \in Seq(Byte)
    BY <1>4, FragmentType, Zenon
  <2> QED
    BY <2>1, <2>2
<1>6. Buffer(r, s) \in RxBuffer \cup {NULL}
  BY Peers DEF EndpointTypeOK, Buffer
<1>7. Arriving(r, s) = Packet(t)
  BY DEF Arriving
<1> QED
  BY <1>1, <1>2, <1>3, <1>4, <1>5, <1>6, <1>7, PacketFields

LEMMA AckItemsType ==
    ASSUME EndpointTypeOK, NEW r \in Roles, NEW s \in Streams, NEW p,
           p.transactionId \in TransactionIds, NEW result \in Results
    PROVE  /\ AckItems(r, s, p, result) \in Seq(Item)
           /\ SuccessAck(r, s, p) \in Seq(Item)
<1>1. \A x \in Results : ControlAck(Len(sent[r][s]), p.transactionId, x) \in Item
  BY DEF ControlAck, Item, AckItem, EndpointTypeOK
<1>2. \A x \in Results : AckItems(r, s, p, x) \in Seq(Item)
  BY <1>1 DEF AckItems
<1> QED
  BY <1>2 DEF SuccessAck, Results

Verdict == [number : Nat, result : Results]

LEMMA VerdictType ==
    ASSUME EndpointTypeOK, NEW r \in Roles, NEW s \in Streams, NEW p,
           p.number \in Nat, NEW result \in Results, RecordVerdict(r, s, p, result)
    PROVE  verdicts' \in [Roles -> [Streams -> Seq(Verdict)]]
<1>1. verdicts \in [Roles -> [Streams -> Seq(Verdict)]]
  BY DEF EndpointTypeOK, Verdict
<1>2. [number |-> p.number, result |-> result] \in Verdict
  BY DEF Verdict
<1>3. Append(verdicts[r][s], [number |-> p.number, result |-> result]) \in Seq(Verdict)
  BY <1>1, <1>2
<1> QED
  BY <1>1, <1>3 DEF RecordVerdict

LEMMA BufferType ==
    ASSUME EndpointTypeOK, NEW r \in Roles, NEW s \in Streams, Reassembles(r, s)
    PROVE  /\ Opened(Arriving(r, s), Buffer(r, s)) \in RxBuffer
           /\ Appended(Arriving(r, s), Opened(Arriving(r, s), Buffer(r, s))) \in RxBuffer
<1> DEFINE p == Arriving(r, s)
<1>1. /\ p.payload \in Seq(Byte) /\ p.transactionId \in TransactionIds
      /\ p.total \in Nat /\ Buffer(r, s) \in RxBuffer \cup {NULL}
  BY ArrivalType DEF Reassembles
<1>2. Opened(p, Buffer(r, s)) \in RxBuffer
  <2>1. CASE IsInitial(p)
    <3>1. 0 \in SeqNums
      BY PacketAssumption DEF SeqNums
    <3> QED
      BY <1>1, <2>1, <3>1 DEF Opened, EmptyBuffer, RxBuffer
  <2>2. CASE ~IsInitial(p)
    BY <1>1, <2>2 DEF Reassembles, IsStray, Opened
  <2> QED
    BY <2>1, <2>2
<1> HIDE DEF p
<1>3. \A b \in RxBuffer : Appended(p, b) \in RxBuffer
  BY <1>1, NextSeqNumType DEF Appended, RxBuffer
<1> QED
  BY <1>2, <1>3 DEF p

LEMMA OriginType ==
    ASSUME NEW r \in Roles, NEW s \in Streams, NEW data, EndpointTypeOK
    PROVE  Origin(r, s, data) \in Nat
<1>1. Len(sent[Peer(r)][s]) \in Nat
  BY Peers DEF EndpointTypeOK
<1> QED
  BY <1>1 DEF Origin

LEMMA AnswerType ==
    ASSUME NEW r \in Roles, NEW s \in Streams, NEW m, NEW a \in Answers(r, s, m)
    PROVE  a \in Messages
  BY DEF Answers, Messages, Commands, Streams

-----------------------------------------------------------------------------
(***************************************************************************)
(* Types: the actions.                                                     *)
(***************************************************************************)
\* The shape of a receive step that takes a packet and queues `items'.
LEMMA TakeType ==
    ASSUME EndpointTypeOK, NEW r \in Roles, NEW s \in Streams,
           NEW items \in Seq(Item), outbox[Peer(r)][s] # <<>>,
           TakeAndQueue(r, s, items)
    PROVE  outbox' \in [Roles -> [Streams -> Seq(TransactionItem \cup AckItem)]]
  BY TakeAndQueueEffect DEF Item

LEMMA AppendType ==
    ASSUME NEW q \in Seq(Item), NEW item \in Item
    PROVE  Append(q, item) \in Seq(Item)
  OBVIOUS

LEMMA DropType ==
    ASSUME EndpointTypeOK, NEW r \in Roles, NEW s \in Streams,
           outbox[Peer(r)][s] # <<>>, TakeAndQueue(r, s, <<>>),
           UNCHANGED <<rxBuffers, lastTransactionId, sent, delivered, verdicts>>,
           aborted' \in [Processes -> BOOLEAN]
    PROVE  EndpointTypeOK'
<1>1. outbox' \in [Roles -> [Streams -> Seq(TransactionItem \cup AckItem)]]
  <2>1. <<>> \in Seq(Item)
    OBVIOUS
  <2> QED
    BY <2>1, TakeType, Zenon
<1> QED
  BY <1>1 DEF EndpointTypeOK

LEMMA AbortsType ==
    ASSUME EndpointTypeOK, NEW r \in Roles, NEW s \in Streams, DecodeAborts(r, s)
    PROVE  EndpointTypeOK'
<1>1. aborted' \in [Processes -> BOOLEAN]
  BY DEF DecodeAborts, EndpointTypeOK
<1> QED
  BY <1>1, DropType DEF DecodeAborts, TransactionArrives, Arrives

LEMMA RejectsType ==
    ASSUME EndpointTypeOK, NEW r \in Roles, NEW s \in Streams, DecodeRejects(r, s)
    PROVE  EndpointTypeOK'
<1> DEFINE p == Arriving(r, s)
<1>1. /\ p.transactionId \in TransactionIds /\ p.number \in Nat
      /\ outbox[Peer(r)][s] # <<>>
  BY ArrivalType DEF DecodeRejects, Reassembles
<1>2. "FAILURE" \in Results
  BY DEF Results
<1>3. AckItems(r, s, p, "FAILURE") \in Seq(Item)
  BY <1>1, <1>2, AckItemsType
<1>4. /\ TakeAndQueue(r, s, AckItems(r, s, p, "FAILURE"))
      /\ RecordVerdict(r, s, p, "FAILURE") /\ SetBuffer(r, s, NULL)
      /\ UNCHANGED <<lastTransactionId, aborted, sent, delivered>>
  BY DEF DecodeRejects
<1> HIDE DEF p
<1>5. outbox' \in [Roles -> [Streams -> Seq(TransactionItem \cup AckItem)]]
  BY <1>1, <1>3, <1>4, TakeType
<1>6. verdicts' \in [Roles -> [Streams -> Seq(Verdict)]]
  BY <1>1, <1>2, <1>4, VerdictType
<1>7. rxBuffers' \in [Processes -> [Streams -> RxBuffer \cup {NULL}]]
  BY <1>4, SetBufferEffect
<1> QED
  BY <1>4, <1>5, <1>6, <1>7 DEF EndpointTypeOK, Verdict

LEMMA AppendsType ==
    ASSUME EndpointTypeOK, NEW r \in Roles, NEW s \in Streams, DecodeAppends(r, s)
    PROVE  EndpointTypeOK'
<1> DEFINE b == Appended(Arriving(r, s), Opened(Arriving(r, s), Buffer(r, s)))
<1>1. Reassembles(r, s) /\ TakeAndQueue(r, s, <<>>) /\ SetBuffer(r, s, b)
      /\ UNCHANGED <<lastTransactionId, aborted, sent, delivered, verdicts>>
  BY DEF DecodeAppends
<1>2. b \in RxBuffer
  BY <1>1, BufferType
<1> HIDE DEF b
<1>3. rxBuffers' \in [Processes -> [Streams -> RxBuffer \cup {NULL}]]
  BY <1>1, <1>2, SetBufferEffect
<1>4. outbox' \in [Roles -> [Streams -> Seq(TransactionItem \cup AckItem)]]
  <2>1. <<>> \in Seq(Item) /\ outbox[Peer(r)][s] # <<>>
    BY <1>1 DEF Reassembles, TransactionArrives, Arrives
  <2> QED
    BY <1>1, <2>1, TakeType, Zenon
<1> QED
  BY <1>1, <1>3, <1>4 DEF EndpointTypeOK

\* What a completed transaction does, whether or not it is answered.
LEMMA CompletesCases ==
    ASSUME NEW r \in Roles, NEW s \in Streams, DecodeCompletes(r, s)
    PROVE  LET p == Arriving(r, s)
               b == Appended(p, Opened(p, Buffer(r, s)))
               n == Origin(r, s, b.data)
           IN  /\ Reassembles(r, s) /\ Fits(p, Opened(p, Buffer(r, s)))
               /\ IsComplete(b)
               /\ SetBuffer(r, s, NULL)
               /\ delivered' = [delivered EXCEPT ![r][s] = Append(@, n)]
               /\ RecordSuccess(r, s, p)
               /\ \/ /\ TakeAndQueue(r, s, SuccessAck(r, s, p))
                     /\ UNCHANGED <<lastTransactionId, sent>>
                  \/ \E a \in Messages :
                       /\ CreateTransaction(r, s, a, FALSE)
                       /\ TakeAndQueue(r, s, Append(SuccessAck(r, s, p),
                                                    NewTransaction(r, s, a, FALSE)))
               /\ UNCHANGED aborted
<1> DEFINE p == Arriving(r, s)
           b == Appended(p, Opened(p, Buffer(r, s)))
<1>1. PICK m \in Decodings(r, s, b.data) :
         \/ /\ Answers(r, s, m) = {}
            /\ TakeAndQueue(r, s, SuccessAck(r, s, p))
            /\ UNCHANGED <<lastTransactionId, sent>>
         \/ \E a \in Answers(r, s, m) :
              /\ CreateTransaction(r, s, a, FALSE)
              /\ TakeAndQueue(r, s, Append(SuccessAck(r, s, p),
                                           NewTransaction(r, s, a, FALSE)))
  BY Zenon DEF DecodeCompletes
<1>2. \A a \in Answers(r, s, m) : a \in Messages
  BY AnswerType
<1>3. /\ Reassembles(r, s) /\ Fits(p, Opened(p, Buffer(r, s))) /\ IsComplete(b)
      /\ SetBuffer(r, s, NULL) /\ RecordSuccess(r, s, p)
      /\ delivered' = [delivered EXCEPT ![r][s] = Append(@, Origin(r, s, b.data))]
      /\ UNCHANGED aborted
  BY Zenon DEF DecodeCompletes
<1> HIDE DEF p, b
<1> QED
  BY <1>1, <1>2, <1>3, Zenon DEF p, b

LEMMA CompletesType ==
    ASSUME EndpointTypeOK, NEW r \in Roles, NEW s \in Streams, DecodeCompletes(r, s)
    PROVE  EndpointTypeOK'
<1> DEFINE p == Arriving(r, s)
           b == Appended(p, Opened(p, Buffer(r, s)))
           n == Origin(r, s, b.data)
           ack == SuccessAck(r, s, p)
<1>1. /\ Reassembles(r, s) /\ SetBuffer(r, s, NULL) /\ RecordSuccess(r, s, p)
      /\ delivered' = [delivered EXCEPT ![r][s] = Append(@, n)]
      /\ UNCHANGED aborted
      /\ \/ TakeAndQueue(r, s, ack) /\ UNCHANGED <<lastTransactionId, sent>>
         \/ \E a \in Messages :
              /\ CreateTransaction(r, s, a, FALSE)
              /\ TakeAndQueue(r, s, Append(ack, NewTransaction(r, s, a, FALSE)))
  BY CompletesCases
<1>2. /\ p.transactionId \in TransactionIds /\ p.number \in Nat
      /\ outbox[Peer(r)][s] # <<>>
  BY <1>1, ArrivalType DEF Reassembles
<1>3. n \in Nat
  BY OriginType
<1>4. "SUCCESS" \in Results
  BY DEF Results
<1>5. ack \in Seq(Item)
  BY <1>2, <1>4, AckItemsType
<1> HIDE DEF p, b, n, ack
<1>6. verdicts' \in [Roles -> [Streams -> Seq(Verdict)]]
  <2>1. CASE RecordVerdict(r, s, p, "SUCCESS")
    BY <1>2, <1>4, <2>1, VerdictType
  <2>2. CASE UNCHANGED verdicts
    BY <2>2 DEF EndpointTypeOK, Verdict
  <2> QED
    BY <1>1, <2>1, <2>2 DEF RecordSuccess
<1>7. rxBuffers' \in [Processes -> [Streams -> RxBuffer \cup {NULL}]]
  BY <1>1, SetBufferEffect
<1>8. delivered' \in [Roles -> [Streams -> Seq(Nat)]]
  <2>1. delivered \in [Roles -> [Streams -> Seq(Nat)]]
    BY DEF EndpointTypeOK
  <2>2. Append(delivered[r][s], n) \in Seq(Nat)
    BY <1>3, <2>1
  <2> QED
    BY <1>1, <2>1, <2>2
<1>9. /\ outbox' \in [Roles -> [Streams -> Seq(TransactionItem \cup AckItem)]]
      /\ lastTransactionId' \in [Processes -> [Streams -> TransactionIds]]
      /\ sent' \in [Roles -> [Streams -> Seq(Record)]]
  <2>1. CASE TakeAndQueue(r, s, ack) /\ UNCHANGED <<lastTransactionId, sent>>
    <3>1. outbox' \in [Roles -> [Streams -> Seq(TransactionItem \cup AckItem)]]
      BY <1>2, <1>5, <2>1, TakeType
    <3> QED
      BY <2>1, <3>1 DEF EndpointTypeOK, Record
  <2>2. ASSUME NEW a \in Messages, CreateTransaction(r, s, a, FALSE),
               TakeAndQueue(r, s, Append(ack, NewTransaction(r, s, a, FALSE)))
        PROVE  <1>9!1 /\ <1>9!2 /\ <1>9!3
    <3>1. /\ lastTransactionId' \in [Processes -> [Streams -> TransactionIds]]
          /\ sent' \in [Roles -> [Streams -> Seq(Record)]]
          /\ NewTransaction(r, s, a, FALSE) \in Item
      BY <2>2, CreateTransactionEffect DEF Item
    <3>2. Append(ack, NewTransaction(r, s, a, FALSE)) \in Seq(Item)
      BY <1>5, <3>1, AppendType
    <3>3. outbox' \in [Roles -> [Streams -> Seq(TransactionItem \cup AckItem)]]
      BY <1>2, <2>2, <3>2, TakeType
    <3> QED
      BY <3>1, <3>3
  <2> QED
    BY <1>1, <2>1, <2>2
<1> QED
  BY <1>1, <1>6, <1>7, <1>8, <1>9 DEF EndpointTypeOK, Verdict, Record

\* decodePacket, whatever packet it is.
LEMMA PacketType ==
    ASSUME EndpointTypeOK, NEW r \in Roles, NEW s \in Streams, DecodePacket(r, s)
    PROVE  EndpointTypeOK'
<1>1. ASSUME DecodeControlPacket(r, s) \/ DecodeStray(r, s)
      PROVE  EndpointTypeOK'
  <2>1. aborted' \in [Processes -> BOOLEAN]
    BY <1>1 DEF DecodeControlPacket, DecodeStray, EndpointTypeOK
  <2> QED
    BY <1>1, <2>1, DropType
       DEF DecodeControlPacket, DecodeStray, TransactionArrives, Arrives
<1> QED
  BY <1>1, AbortsType, RejectsType, AppendsType, CompletesType DEF DecodePacket

\* The create functions.
LEMMA CreateEffect ==
    ASSUME EndpointTypeOK, NEW r \in Roles, NEW s \in Streams,
           NEW m \in Messages, NEW ack \in BOOLEAN, Create(r, s, m, ack)
    PROVE  /\ EndpointTypeOK'
           /\ outbox'[r][s] = Append(outbox[r][s], NewTransaction(r, s, m, ack))
           /\ sent'[r][s] = Append(sent[r][s], [message |-> m, ack |-> ack])
           /\ \A x \in Roles, z \in Streams :
                x # r \/ z # s => /\ outbox'[x][z] = outbox[x][z]
                                  /\ sent'[x][z] = sent[x][z]
<1>1. /\ lastTransactionId' \in [Processes -> [Streams -> TransactionIds]]
      /\ sent' \in [Roles -> [Streams -> Seq(Record)]]
      /\ sent'[r][s] = Append(sent[r][s], [message |-> m, ack |-> ack])
      /\ \A x \in Roles, z \in Streams :
           x # r \/ z # s => sent'[x][z] = sent[x][z]
      /\ NewTransaction(r, s, m, ack) \in Item
  BY CreateTransactionEffect DEF Create, Item
<1>2. outbox \in [Roles -> [Streams -> Seq(Item)]]
  BY DEF EndpointTypeOK, Item
<1>3. Append(outbox[r][s], NewTransaction(r, s, m, ack)) \in Seq(Item)
  BY <1>1, <1>2
<1>4. outbox' = [outbox EXCEPT ![r][s] =
                    Append(outbox[r][s], NewTransaction(r, s, m, ack))]
  BY DEF Create
<1>5. /\ outbox' \in [Roles -> [Streams -> Seq(Item)]]
      /\ outbox'[r][s] = Append(outbox[r][s], NewTransaction(r, s, m, ack))
      /\ \A x \in Roles, z \in Streams :
           x # r \/ z # s => outbox'[x][z] = outbox[x][z]
  BY <1>2, <1>3, <1>4
<1>6. EndpointTypeOK'
  BY <1>1, <1>5 DEF EndpointTypeOK, Create, Item, Record
<1> QED
  BY <1>1, <1>5, <1>6

LEMMA InitType ==
    ASSUME InitEndpoints
    PROVE  EndpointTypeOK
<1>1. TransactionIdModulus - 1 \in TransactionIds
  BY PacketAssumption DEF TransactionIds
<1> QED
  BY <1>1 DEF InitEndpoints, EndpointTypeOK

-----------------------------------------------------------------------------
(***************************************************************************)
(* In step: a packet that finds the receiver where its sender expects it   *)
(* leaves it there.                                                        *)
(***************************************************************************)
\* What role x sends on stream s is in order.
Ordered(x, s) ==
    ChannelInOrder(x, outbox[x][s], sent[x][s], delivered[Peer(x)][s])

\* Its peer holds what has left of it.
Channel(x, s) == Ordered(x, s) /\ Mirrors(outbox[x][s], Buffer(Peer(x), s))

\* A step in which role r takes a packet of stream s in step and queues
\* `items'.
ReceivedInStep(r, s, items) ==
    /\ items \in Seq(Item)
    /\ \A i \in 1..Len(items) : ~Started(items[i])
    /\ outbox'[r][s] = outbox[r][s] \o items
    /\ Ordered(r, s)'
    /\ Channel(Peer(r), s)'
    /\ \A x \in Roles, z \in Streams \ {s} : outbox'[x][z] = outbox[x][z]
    /\ \A x \in Roles, z \in Streams : x # r \/ z # s =>
         sent'[x][z] = sent[x][z] /\ delivered'[x][z] = delivered[x][z]
    /\ \A h \in Processes, z \in Streams :
         h # HostOf[r] \/ z # s => rxBuffers'[h][z] = rxBuffers[h][z]

\* What is queued behind does not disturb the receiver's view of the head.
LEMMA MirrorsConcat ==
    ASSUME NEW q \in Seq(Item), NEW b, Mirrors(q, b), NEW items \in Seq(Item),
           \A i \in 1..Len(items) : ~Started(items[i])
    PROVE  Mirrors(q \o items, b)
<1>1. CASE q = <<>>
  <2>1. b = NULL /\ q \o items = items
    BY <1>1 DEF Mirrors
  <2>2. items # <<>> => 1 \in 1..Len(items)
    OBVIOUS
  <2> QED
    BY <2>1, <2>2 DEF Mirrors
<1>2. CASE q # <<>>
  <2>1. q \o items # <<>> /\ (q \o items)[1] = q[1]
    BY <1>2
  <2> QED
    BY <1>2, <2>1, Zenon DEF Mirrors
<1> QED
  BY <1>1, <1>2
\* The transaction at the head of an arriving queue, and its reassembly.
LEMMA HeadInStep ==
    ASSUME EndpointTypeOK, NEW r \in Roles, NEW s \in Streams,
           Channel(Peer(r), s), TransactionArrives(r, s)
    PROVE  LET t == outbox[Peer(r)][s][1]
           IN  /\ t \in TransactionItem /\ Arriving(r, s) = Packet(t)
               /\ t.from = Peer(r)
               /\ t.number \in 1..Len(sent[Peer(r)][s])
               /\ t.message = sent[Peer(r)][s][t.number].message
               /\ AssertionHolds(Packet(t), Buffer(r, s))
               /\ ~IsStray(Packet(t), Buffer(r, s))
               /\ Opened(Packet(t), Buffer(r, s)) = Reassembly(t)
<1> DEFINE q == outbox[Peer(r)][s]
           t == q[1]
<1>1. /\ t \in TransactionItem /\ IsTransaction(t) /\ Arriving(r, s) = Packet(t)
      /\ q \in Seq(Item) /\ q # <<>>
  BY ArrivalType
<1>2. /\ ItemInOrder(Peer(r), q, sent[Peer(r)][s], 1)
      /\ Mirrors(q, Buffer(r, s))
  BY <1>1, Peers DEF Channel, Ordered, ChannelInOrder
<1>3. sent[Peer(r)][s] \in Seq(Record)
  BY Peers DEF EndpointTypeOK, Record
<1> HIDE DEF q
<1>4. /\ t.from = Peer(r)
      /\ t.number \in 0..Len(sent[Peer(r)][s]) /\ t.number >= 1
      /\ t.message = sent[Peer(r)][s][t.number].message
      /\ t.srcIndex = 0 => t.seqNum = 0
  BY <1>1, <1>2 DEF ItemInOrder
<1>5. t.number \in 1..Len(sent[Peer(r)][s])
  BY <1>3, <1>4
<1>6. Buffer(r, s) = IF t.srcIndex > 0 THEN Reassembly(t) ELSE NULL
  BY <1>1, <1>2 DEF Mirrors, Started
<1>7. /\ AssertionHolds(Packet(t), Buffer(r, s))
      /\ ~IsStray(Packet(t), Buffer(r, s))
      /\ Opened(Packet(t), Buffer(r, s)) = Reassembly(t)
  BY <1>1, <1>4, <1>6, OpenedInStep
<1> QED
  BY <1>1, <1>4, <1>5, <1>7 DEF q

\* What a step that receives on stream s has to establish.
LEMMA ReceiveInStep ==
    ASSUME EndpointTypeOK, NEW r \in Roles, NEW s \in Streams,
           NEW items \in Seq(Item), outbox[Peer(r)][s] # <<>>,
           TakeAndQueue(r, s, items),
           \A i \in 1..Len(items) : ~Started(items[i]),
           \A x \in Roles, z \in Streams : x # r \/ z # s =>
              sent'[x][z] = sent[x][z] /\ delivered'[x][z] = delivered[x][z],
           \A h \in Processes, z \in Streams :
              h # HostOf[r] \/ z # s => rxBuffers'[h][z] = rxBuffers[h][z],
           ChannelInOrder(Peer(r), Departed(outbox[Peer(r)][s]),
                          sent[Peer(r)][s], delivered'[r][s]),
           Mirrors(Departed(outbox[Peer(r)][s]), Buffer(r, s)'),
           ChannelInOrder(r, outbox[r][s] \o items,
                          sent'[r][s], delivered[Peer(r)][s])
    PROVE  ReceivedInStep(r, s, items)
<1>1. /\ outbox'[r][s] = outbox[r][s] \o items
      /\ outbox'[Peer(r)][s] = Departed(outbox[Peer(r)][s])
      /\ \A x \in Roles, z \in Streams \ {s} : outbox'[x][z] = outbox[x][z]
  BY TakeAndQueueEffect
<1>2. Peer(r) \in Roles /\ Peer(r) # r /\ Peer(Peer(r)) = r
  BY Peers
<1>3. Ordered(r, s)'
  BY <1>1, <1>2 DEF Ordered
<1>4. Channel(Peer(r), s)'
  BY <1>1, <1>2 DEF Channel, Ordered
<1> QED
  BY <1>1, <1>3, <1>4 DEF ReceivedInStep

\* Nothing is left of a packet that ends an item and frees the buffer.
LEMMA MirrorsTail ==
    ASSUME NEW x \in Roles, NEW S \in Seq(Record), NEW D,
           NEW q \in Seq(Item), q # <<>>, LastPacket(q), ChannelInOrder(x, q, S, D)
    PROVE  Mirrors(Departed(q), NULL)
<1> DEFINE r == Departed(q)
<1>1. /\ r \in Seq(Item) /\ Len(r) = Len(q) - 1
      /\ \A i \in 1..Len(q) - 1 : r[i] = q[i + 1]
  BY DepartedLast
<1> HIDE DEF r
<1>2. ASSUME r # <<>>
      PROVE  ~Started(r[1])
  <2>1. 2 \in 1..Len(q) /\ r[1] = q[2]
    <3>1. 1 \in 1..Len(q) - 1
      BY <1>1, <1>2
    <3> QED
      BY <1>1, <3>1
  <2>2. ItemInOrder(x, q, S, 2)
    BY <2>1 DEF ChannelInOrder
  <2> QED
    BY <2>1, <2>2 DEF ItemInOrder, Started
<1> QED
  BY <1>2 DEF Mirrors, r

\* A receiver that queues nothing.
LEMMA NothingQueued ==
    /\ <<>> \in Seq(Item)
    /\ \A i \in 1..Len(<<>>) : ~IsTransaction(<<>>[i]) /\ ~Started(<<>>[i])
  OBVIOUS

LEMMA NothingQueuedInStep ==
    ASSUME EndpointTypeOK, NEW r \in Roles, NEW s \in Streams, Ordered(r, s)
    PROVE  ChannelInOrder(r, outbox[r][s] \o <<>>, sent[r][s], delivered[Peer(r)][s])
<1>1. outbox[r][s] \o <<>> = outbox[r][s]
  BY DEF EndpointTypeOK
<1> QED
  BY <1>1 DEF Ordered

\* The ack a receiver may put into its own queue.
LEMMA AckInStep ==
    ASSUME EndpointTypeOK, NEW r \in Roles, NEW s \in Streams, Ordered(r, s), NEW p,
           NEW items, items = <<>> \/ items = AckItems(r, s, p, "SUCCESS"),
           p.transactionId \in TransactionIds
    PROVE  /\ items \in Seq(Item)
           /\ \A i \in 1..Len(items) : ~IsTransaction(items[i])
           /\ ChannelInOrder(r, outbox[r][s] \o items,
                             sent[r][s], delivered[Peer(r)][s])
<1> DEFINE q == outbox[r][s]
           a == ControlAck(Len(sent[r][s]), p.transactionId, "SUCCESS")
<1>1. /\ q \in Seq(Item) /\ sent[r][s] \in Seq(Record)
      /\ delivered[Peer(r)][s] \in Seq(Nat)
      /\ ChannelInOrder(r, q, sent[r][s], delivered[Peer(r)][s])
  BY Peers DEF EndpointTypeOK, Item, Record, Ordered
<1>2. ChannelInOrder(r, Append(q, a), sent[r][s], delivered[Peer(r)][s])
  BY <1>1, ChannelAck
<1>3. a \in Item /\ ~IsTransaction(a)
  <2>1. "SUCCESS" \in Results /\ Len(sent[r][s]) \in Nat
    BY <1>1 DEF Results
  <2> QED
    BY <2>1 DEF ControlAck, Item, AckItem, IsTransaction
<1>4. items = <<>> \/ items = <<a>>
  BY DEF AckItems
<1> HIDE DEF q, a
<1>5. q \o <<>> = q /\ q \o <<a>> = Append(q, a)
  BY <1>1, <1>3
<1>6. items \in Seq(Item) /\ \A i \in 1..Len(items) : ~IsTransaction(items[i])
  <2>1. <<>> \in Seq(Item) /\ \A i \in 1..Len(<<>>) : ~IsTransaction(<<>>[i])
    BY NothingQueued
  <2>2. <<a>> \in Seq(Item) /\ \A i \in 1..Len(<<a>>) : ~IsTransaction(<<a>>[i])
    BY <1>3
  <2> QED
    BY <1>4, <2>1, <2>2, Zenon
<1> QED
  BY <1>1, <1>2, <1>4, <1>5, <1>6 DEF q

\* A control packet is taken.
LEMMA ControlPacketInStep ==
    ASSUME EndpointTypeOK, NEW r \in Roles, NEW s \in Streams,
           Channel(Peer(r), s), Ordered(r, s), DecodeControlPacket(r, s)
    PROVE  ReceivedInStep(r, s, <<>>)
<1> DEFINE q == outbox[Peer(r)][s]
           S == sent[Peer(r)][s]
           D == delivered[r][s]
<1>1. /\ q \in Seq(Item) /\ q # <<>> /\ S \in Seq(Record) /\ D \in Seq(Nat)
      /\ Peer(r) \in Roles /\ ~IsTransaction(q[1]) /\ LastPacket(q)
      /\ TakeAndQueue(r, s, <<>>)
      /\ UNCHANGED <<rxBuffers, sent, delivered>>
  <2>1. q \in Seq(Item) /\ S \in Seq(Record) /\ D \in Seq(Nat) /\ Peer(r) \in Roles
    BY Peers DEF EndpointTypeOK, Item, Record
  <2>2. /\ q # <<>> /\ ~IsTransaction(q[1]) /\ TakeAndQueue(r, s, <<>>)
        /\ UNCHANGED <<rxBuffers, sent, delivered>>
    BY Zenon DEF DecodeControlPacket, Arrives
  <2> QED
    BY <2>1, <2>2, Zenon DEF LastPacket
<1>2. ChannelInOrder(Peer(r), q, S, D) /\ Mirrors(q, Buffer(r, s))
  BY <1>1, Peers DEF Channel, Ordered
<1>3. Buffer(r, s) = NULL
  BY <1>1, <1>2 DEF Mirrors, Started
<1>4. Buffer(r, s)' = Buffer(r, s)
  BY <1>1 DEF Buffer
<1> HIDE DEF q, S, D
<1>5. ChannelInOrder(Peer(r), Departed(q), S, D)
  BY <1>1, <1>2, ChannelTail
<1>6. Mirrors(Departed(q), NULL)
  BY <1>1, <1>2, MirrorsTail
<1>7. ChannelInOrder(r, outbox[r][s] \o <<>>, sent[r][s], delivered[Peer(r)][s])
  BY NothingQueuedInStep
<1> QED
  BY <1>1, <1>3, <1>4, <1>5, <1>6, <1>7, NothingQueued, ReceiveInStep DEF q, S, D

\* A packet that arrives in step is never refused.
LEMMA NothingRefused ==
    ASSUME EndpointTypeOK, NEW r \in Roles, NEW s \in Streams, Channel(Peer(r), s)
    PROVE  ~DecodeStray(r, s) /\ ~DecodeAborts(r, s) /\ ~DecodeRejects(r, s)
<1> SUFFICES ASSUME TransactionArrives(r, s)
             PROVE  /\ ~IsStray(Arriving(r, s), Buffer(r, s))
                    /\ AssertionHolds(Arriving(r, s), Buffer(r, s))
                    /\ Fits(Arriving(r, s), Opened(Arriving(r, s), Buffer(r, s)))
  BY DEF DecodeStray, DecodeAborts, DecodeRejects, Reassembles
<1> QED
  BY HeadInStep, AppendedInStep

LEMMA AppendsInStep ==
    ASSUME EndpointTypeOK, NEW r \in Roles, NEW s \in Streams,
           Channel(Peer(r), s), Ordered(r, s), DecodeAppends(r, s)
    PROVE  ReceivedInStep(r, s, <<>>)
<1> DEFINE q == outbox[Peer(r)][s]
           t == q[1]
           S == sent[Peer(r)][s]
           D == delivered[r][s]
           b == Appended(Arriving(r, s), Opened(Arriving(r, s), Buffer(r, s)))
<1>1. /\ TransactionArrives(r, s) /\ ~IsComplete(b)
      /\ TakeAndQueue(r, s, <<>>) /\ SetBuffer(r, s, b)
      /\ UNCHANGED <<sent, delivered>>
  BY DEF DecodeAppends, Reassembles
<1>2. /\ q \in Seq(Item) /\ q # <<>> /\ S \in Seq(Record) /\ D \in Seq(Nat)
      /\ Peer(r) \in Roles /\ IsTransaction(t)
  <2>1. q \in Seq(Item) /\ q # <<>> /\ IsTransaction(t)
    BY <1>1, ArrivalType
  <2>2. S \in Seq(Record) /\ D \in Seq(Nat) /\ Peer(r) \in Roles
    BY Peers DEF EndpointTypeOK, Record
  <2> QED
    BY <2>1, <2>2
<1>3. /\ t \in TransactionItem
      /\ b = Appended(Packet(t), Reassembly(t))
  BY <1>1, HeadInStep
<1>4. ChannelInOrder(Peer(r), q, S, D)
  BY <1>2, Peers DEF Channel, Ordered
<1>5. PayloadOf(t) # RemainingSize(t)
  BY <1>1, <1>3, AppendedInStep
<1>6. b = Reassembly(Advanced(t)) /\ Advanced(t) \in TransactionItem
  BY <1>3, <1>5, AppendedMirrors, AdvancedType
<1>7. b \in RxBuffer
  BY <1>6, ReassemblyType
<1> HIDE DEF b
<1>8. /\ Buffer(r, s)' = b
      /\ \A h \in Processes, z \in Streams :
           h # HostOf[r] \/ z # s => rxBuffers'[h][z] = rxBuffers[h][z]
  BY <1>1, <1>7, SetBufferEffect
<1>9. ~LastPacket(q)
  BY <1>2, <1>5 DEF LastPacket
<1> HIDE DEF q, S, D
<1>10. ChannelInOrder(Peer(r), Departed(q), S, D)
  BY <1>2, <1>4, <1>9, ChannelAdvance
<1>11. Mirrors(Departed(q), b)
  <2>1. /\ Departed(q) \in Seq(Item) /\ Len(Departed(q)) = Len(q)
        /\ Departed(q)[1] = Advanced(t)
    BY <1>2, <1>9, DepartedMore
  <2>2. Departed(q) # <<>>
    BY <1>2, <2>1
  <2>3. Started(Advanced(t))
    BY <1>3, <1>5, AdvancedType DEF Started
  <2> QED
    BY <1>6, <2>1, <2>2, <2>3 DEF Mirrors
<1>12. ChannelInOrder(r, outbox[r][s] \o <<>>, sent[r][s], delivered[Peer(r)][s])
  BY NothingQueuedInStep
<1> QED
  BY <1>1, <1>2, <1>8, <1>10, <1>11, <1>12, NothingQueued, ReceiveInStep
     DEF q, S, D

\* What is handed over in step is the transaction at the head of the queue.
LEMMA OriginInStep ==
    ASSUME EndpointTypeOK, NEW r \in Roles, NEW s \in Streams,
           Channel(Peer(r), s), TransactionArrives(r, s),
           IsComplete(Appended(Packet(outbox[Peer(r)][s][1]),
                               Reassembly(outbox[Peer(r)][s][1])))
    PROVE  LET t == outbox[Peer(r)][s][1]
           IN  /\ PayloadOf(t) = RemainingSize(t)
               /\ Origin(r, s, Appended(Packet(t), Reassembly(t)).data) = t.number
<1> DEFINE t == outbox[Peer(r)][s][1]
           b == Appended(Packet(t), Reassembly(t))
<1>1. /\ t \in TransactionItem /\ t.from = Peer(r)
      /\ t.number \in 1..Len(sent[Peer(r)][s])
      /\ t.message = sent[Peer(r)][s][t.number].message
  BY HeadInStep
<1> HIDE DEF t
<1>2. PayloadOf(t) = RemainingSize(t)
  BY <1>1, AppendedInStep DEF t
<1>3. /\ Size[t.message] \in Nat /\ Size[t.message] >= 1
      /\ t.srcIndex + PayloadOf(t) = Size[t.message]
  BY <1>1, <1>2, ItemPayload DEF TransactionItem
<1>4. b.data = Fragment(Peer(r), t.number, 0, Size[t.message])
  BY <1>1, <1>3, AppendedInStep
<1>5. b.data[1][2] = t.number
  <2>1. 1 \in 1..Size[t.message]
    BY <1>3
  <2> QED
    BY <1>4, <2>1 DEF Fragment
<1> QED
  BY <1>1, <1>2, <1>4, <1>5 DEF Origin, t

LEMMA CompletesInStep ==
    ASSUME EndpointTypeOK, NEW r \in Roles, NEW s \in Streams,
           Channel(Peer(r), s), Ordered(r, s), DecodeCompletes(r, s)
    PROVE  \E items : ReceivedInStep(r, s, items)
<1> DEFINE q == outbox[Peer(r)][s]
           t == q[1]
           S == sent[Peer(r)][s]
           D == delivered[r][s]
           p == Arriving(r, s)
           b == Appended(p, Opened(p, Buffer(r, s)))
           n == Origin(r, s, b.data)
           acks == SuccessAck(r, s, p)
<1>1. /\ TransactionArrives(r, s) /\ IsComplete(b) /\ SetBuffer(r, s, NULL)
      /\ delivered' = [delivered EXCEPT ![r][s] = Append(@, n)]
      /\ \/ TakeAndQueue(r, s, acks) /\ UNCHANGED <<lastTransactionId, sent>>
         \/ \E a \in Messages :
              /\ CreateTransaction(r, s, a, FALSE)
              /\ TakeAndQueue(r, s, Append(acks, NewTransaction(r, s, a, FALSE)))
  BY CompletesCases DEF Reassembles
<1>2. /\ q \in Seq(Item) /\ q # <<>> /\ IsTransaction(t)
      /\ p = Packet(t) /\ p.transactionId \in TransactionIds
  BY <1>1, ArrivalType
<1>3. S \in Seq(Record) /\ D \in Seq(Nat) /\ Peer(r) \in Roles /\ Peer(r) # r
  BY Peers DEF EndpointTypeOK, Record
<1>4. t \in TransactionItem /\ b = Appended(Packet(t), Reassembly(t))
  BY <1>1, HeadInStep
<1>5. PayloadOf(t) = RemainingSize(t) /\ n = t.number
  BY <1>1, <1>4, OriginInStep
<1>6. ChannelInOrder(Peer(r), q, S, D)
  BY <1>3, Peers DEF Channel, Ordered
<1>7. t.number \in Nat
  BY <1>4 DEF TransactionItem
<1>8. acks = <<>> \/ acks = AckItems(r, s, p, "SUCCESS")
  BY DEF SuccessAck
<1>9. delivered'[r][s] = Append(D, t.number) /\ Append(D, t.number) \in Seq(Nat)
  <2>1. delivered \in [Roles -> [Streams -> Seq(Nat)]]
    BY DEF EndpointTypeOK
  <2> QED
    BY <1>1, <1>5, <1>7, <2>1
<1>10. /\ Buffer(r, s)' = NULL
       /\ \A h \in Processes, z \in Streams :
            h # HostOf[r] \/ z # s => rxBuffers'[h][z] = rxBuffers[h][z]
       /\ \A x \in Roles, z \in Streams :
            x # r \/ z # s => delivered'[x][z] = delivered[x][z]
  <2>1. delivered \in [Roles -> [Streams -> Seq(Nat)]]
    BY DEF EndpointTypeOK
  <2>2. \A x \in Roles, z \in Streams :
          x # r \/ z # s => delivered'[x][z] = delivered[x][z]
    BY <1>1, <2>1
  <2> QED
    BY <1>1, <2>2, SetBufferEffect
<1>11. LastPacket(q)
  BY <1>5 DEF LastPacket
<1> HIDE DEF q, S, D, p, b, n, acks
<1>12. /\ ChannelInOrder(Peer(r), Departed(q), S, delivered'[r][s])
       /\ Mirrors(Departed(q), NULL)
  <2>1. ChannelInOrder(Peer(r), Departed(q), S, Append(D, t.number))
    BY <1>2, <1>3, <1>6, <1>9, <1>11, ChannelTail
  <2>2. Mirrors(Departed(q), NULL)
    BY <1>2, <1>3, <1>6, <1>11, MirrorsTail
  <2> QED
    BY <1>9, <2>1, <2>2
<1>13. /\ acks \in Seq(Item)
       /\ \A i \in 1..Len(acks) : ~Started(acks[i])
       /\ ChannelInOrder(r, outbox[r][s] \o acks, sent[r][s], delivered[Peer(r)][s])
  BY <1>2, <1>8, AckInStep DEF Started
<1>14. CASE TakeAndQueue(r, s, acks) /\ UNCHANGED <<lastTransactionId, sent>>
  BY <1>2, <1>10, <1>12, <1>13, <1>14, ReceiveInStep DEF q, S
<1>15. ASSUME NEW a \in Messages, CreateTransaction(r, s, a, FALSE),
              TakeAndQueue(r, s, Append(acks, NewTransaction(r, s, a, FALSE)))
       PROVE  \E items : ReceivedInStep(r, s, items)
  <2> DEFINE new == NewTransaction(r, s, a, FALSE)
             Q == outbox[r][s]
  <2>1. /\ sent'[r][s] = Append(sent[r][s], [message |-> a, ack |-> FALSE])
        /\ \A x \in Roles, z \in Streams :
             x # r \/ z # s => sent'[x][z] = sent[x][z]
        /\ new \in Item
    BY <1>15, CreateTransactionEffect DEF Item
  <2>2. ~Started(new)
    BY DEF NewTransaction, Transaction, Started
  <2>3. /\ Q \in Seq(Item) /\ sent[r][s] \in Seq(Record)
        /\ delivered[Peer(r)][s] \in Seq(Nat)
    BY <1>3 DEF EndpointTypeOK, Item, Record
  <2>4. /\ Q \o acks \in Seq(Item)
        /\ Append(acks, new) \in Seq(Item)
        /\ Q \o Append(acks, new) = Append(Q \o acks, new)
        /\ \A i \in 1..Len(Append(acks, new)) : ~Started(Append(acks, new)[i])
    <3> HIDE DEF Q, new
    <3> QED
      BY <1>13, <2>1, <2>2, <2>3
  <2>5. ChannelInOrder(r, Append(Q \o acks, new), sent'[r][s], delivered[Peer(r)][s])
    <3>1. PICK id : new = Transaction(r, Len(sent[r][s]) + 1, id, a, FALSE)
      BY DEF NewTransaction
    <3> HIDE DEF new, Q
    <3>2. ChannelInOrder(r, Q \o acks, sent[r][s], delivered[Peer(r)][s])
      BY <1>13 DEF Q
    <3>3. ChannelInOrder(r, Append(Q \o acks, Transaction(r, Len(sent[r][s]) + 1, id, a, FALSE)),
                         Append(sent[r][s], [message |-> a, ack |-> FALSE]),
                         delivered[Peer(r)][s])
      BY <2>3, <2>4, <3>2, ChannelCreate
    <3> QED
      BY <2>1, <3>1, <3>3, Zenon
  <2>6. sent'[Peer(r)][s] = S
    BY <1>3, <2>1 DEF S
  <2> HIDE DEF new
  <2>7. ReceivedInStep(r, s, Append(acks, new))
    BY <1>2, <1>10, <1>12, <1>15, <2>1, <2>4, <2>5, <2>6, ReceiveInStep
       DEF q, S, new
  <2> QED
    BY <2>7
<1> QED
  BY <1>1, <1>14, <1>15

\* In step, what completes is a transaction of the peer.
LEMMA CompletesWhole ==
    ASSUME EndpointTypeOK, NEW r \in Roles, NEW s \in Streams,
           Channel(Peer(r), s), DecodeCompletes(r, s)
    PROVE  Origin(r, s, Appended(Arriving(r, s),
                                 Opened(Arriving(r, s), Buffer(r, s))).data) # 0
<1> DEFINE t == outbox[Peer(r)][s][1]
           b == Appended(Arriving(r, s), Opened(Arriving(r, s), Buffer(r, s)))
<1>1. TransactionArrives(r, s) /\ IsComplete(b)
  BY CompletesCases DEF Reassembles
<1>2. b = Appended(Packet(t), Reassembly(t)) /\ t.number \in 1..Len(sent[Peer(r)][s])
  BY <1>1, HeadInStep
<1>3. Origin(r, s, b.data) = t.number
  BY <1>1, <1>2, OriginInStep
<1> QED
  BY <1>2, <1>3

\* decodePacket in step: whatever packet it is, nothing is refused.
LEMMA PacketInStep ==
    ASSUME EndpointTypeOK, NEW r \in Roles, NEW s \in Streams,
           Channel(Peer(r), s), Ordered(r, s), DecodePacket(r, s)
    PROVE  (\E items : ReceivedInStep(r, s, items)) /\ UNCHANGED aborted
<1>1. \/ DecodeControlPacket(r, s)
      \/ DecodeAppends(r, s)
      \/ DecodeCompletes(r, s)
  BY NothingRefused DEF DecodePacket
<1>2. \E items : ReceivedInStep(r, s, items)
  BY <1>1, ControlPacketInStep, AppendsInStep, CompletesInStep
<1>3. UNCHANGED aborted
  BY <1>1 DEF DecodeControlPacket, DecodeAppends, DecodeCompletes
<1> QED
  BY <1>2, <1>3
-----------------------------------------------------------------------------
(***************************************************************************)
(* Answers: what each role makes of whole transactions of the other.       *)
(***************************************************************************)
\* The gadget's answer to message m of stream s.
AnswerTo(s, m) == IF s = "ALEXA_STREAM" THEN Event ELSE Response(m.command)

\* On stream s the Echo device created C, of which the gadget was handed D,
\* and the gadget created A.
Answering(s, C, A, D) ==
    /\ \A n \in 1..Len(C) : C[n].message \in EchoMessages(s)
    /\ \A k \in 1..Len(D) : D[k] \in 1..Len(C)
    /\ s = "OTA_STREAM" => A = <<>>
    /\ s # "OTA_STREAM" =>
         /\ Len(A) = Len(D)
         /\ \A k \in 1..Len(A) : A[k].message = AnswerTo(s, C[D[k]].message)

\* No transaction of queue q asks for a control ack.
AsksNoAck(q) == \A i \in 1..Len(q) : IsTransaction(q[i]) => ~q[i].ack

Exchange(s) ==
    /\ Answering(s, sent[Echo][s], sent[Gadget][s], delivered[Gadget][s])
    /\ AsksNoAck(outbox[Gadget][s])

LEMMA TheRoles ==
    /\ Echo \in Roles /\ Gadget \in Roles /\ Echo # Gadget
    /\ Peer(Echo) = Gadget /\ Peer(Gadget) = Echo
    /\ \A r \in Roles : r = Echo \/ r = Gadget
  BY DEF Roles, Echo, Gadget, Peer

\* What a handler answers, for the messages its peer creates.
LEMMA GadgetAnswers ==
    ASSUME NEW s \in Streams, NEW m \in EchoMessages(s)
    PROVE  Answers(Gadget, s, m) = IF s = "OTA_STREAM" THEN {} ELSE {AnswerTo(s, m)}
<1>1. CASE s = "CONTROL_STREAM"
  <2>1. PICK c \in Commands : m = Command(c)
    BY <1>1 DEF EchoMessages
  <2>2. m.which = "command" /\ m.command = c
    BY <2>1 DEF Command
  <2> QED
    BY <1>1, <2>2 DEF Answers, AnswerTo
<1>2. CASE s = "OTA_STREAM"
  BY <1>2 DEF Answers
<1>3. CASE s = "ALEXA_STREAM"
  BY <1>3 DEF Answers, AnswerTo
<1> QED
  BY <1>1, <1>2, <1>3 DEF Streams

LEMMA EchoIsSilent ==
    ASSUME NEW s \in Streams, s # "OTA_STREAM", NEW m
    PROVE  Answers(Echo, s, AnswerTo(s, m)) = {}
<1>1. CASE s = "CONTROL_STREAM"
  <2>1. AnswerTo(s, m).which = "response"
    BY <1>1 DEF AnswerTo, Response
  <2> QED
    BY <1>1, <2>1 DEF Answers
<1>2. CASE s = "ALEXA_STREAM"
  BY <1>2, TheRoles DEF Answers
<1> QED
  BY <1>1, <1>2 DEF Streams

LEMMA DepartedAsksNoAck ==
    ASSUME NEW q \in Seq(Item), q # <<>>, AsksNoAck(q)
    PROVE  AsksNoAck(Departed(q))
<1> DEFINE r == Departed(q)
<1>1. CASE LastPacket(q)
  <2>1. /\ r \in Seq(Item) /\ Len(r) = Len(q) - 1
        /\ \A i \in 1..Len(q) - 1 : r[i] = q[i + 1]
    BY <1>1, DepartedLast
  <2> HIDE DEF r
  <2>2. AsksNoAck(r)
    BY <2>1 DEF AsksNoAck
  <2> QED
    BY <2>2 DEF r
<1>2. CASE ~LastPacket(q)
  <2>1. /\ r \in Seq(Item) /\ Len(r) = Len(q)
        /\ r[1] = Advanced(q[1])
        /\ q[1] \in TransactionItem /\ PayloadOf(q[1]) # RemainingSize(q[1])
        /\ \A i \in 2..Len(q) : r[i] = q[i]
    BY <1>2, DepartedMore
  <2>2. IsTransaction(q[1]) /\ ~q[1].ack /\ Advanced(q[1]).ack = q[1].ack
    BY <2>1 DEF AsksNoAck, TransactionItem, IsTransaction, Advanced
  <2> HIDE DEF r
  <2>3. AsksNoAck(r)
    BY <2>1, <2>2 DEF AsksNoAck
  <2> QED
    BY <2>3 DEF r
<1> QED
  BY <1>1, <1>2

LEMMA ConcatAsksNoAck ==
    ASSUME NEW q \in Seq(Item), NEW items \in Seq(Item), AsksNoAck(q), AsksNoAck(items)
    PROVE  AsksNoAck(q \o items)
  BY DEF AsksNoAck

\* What a step that receives on stream s has to establish.
LEMMA ReceiveExchange ==
    ASSUME EndpointTypeOK, NEW r \in Roles, NEW s \in Streams,
           \A z \in Streams : Exchange(z),
           outbox[Peer(r)][s] # <<>>, NEW items \in Seq(Item),
           TakeAndQueue(r, s, items), AsksNoAck(items), r = Echo => items = <<>>,
           \A x \in Roles, z \in Streams \ {s} :
              sent'[x][z] = sent[x][z] /\ delivered'[x][z] = delivered[x][z],
           Answering(s, sent'[Echo][s], sent'[Gadget][s], delivered'[Gadget][s])
    PROVE  /\ \A z \in Streams : Exchange(z)'
           /\ r = Echo => outbox'[Echo] = outbox[Echo]
<1>1. /\ outbox' \in [Roles -> [Streams -> Seq(Item)]]
      /\ outbox'[r][s] = outbox[r][s] \o items
      /\ outbox'[Peer(r)][s] = Departed(outbox[Peer(r)][s])
      /\ \A x \in Roles, z \in Streams \ {s} : outbox'[x][z] = outbox[x][z]
  BY TakeAndQueueEffect
<1>2. outbox \in [Roles -> [Streams -> Seq(Item)]]
  BY DEF EndpointTypeOK, Item
<1>3. AsksNoAck(outbox[Gadget][s])
  BY DEF Exchange
<1>4. AsksNoAck(outbox'[Gadget][s])
  <2>1. CASE r = Gadget
    <3>1. outbox[Gadget][s] \in Seq(Item)
      BY <1>2, TheRoles
    <3>2. AsksNoAck(outbox[Gadget][s] \o items)
      BY <1>3, <3>1, ConcatAsksNoAck
    <3> QED
      BY <1>1, <2>1, <3>2, Zenon
  <2>2. CASE r = Echo
    BY <1>1, <1>2, <1>3, <2>2, TheRoles, DepartedAsksNoAck
  <2> QED
    BY <2>1, <2>2, TheRoles
<1>5. ASSUME NEW z \in Streams
      PROVE  Exchange(z)'
  <2>1. CASE z = s
    BY <1>4, <2>1 DEF Exchange
  <2>2. CASE z # s
    BY <1>1, <2>2, TheRoles DEF Exchange
  <2> QED
    BY <2>1, <2>2
<1>6. ASSUME r = Echo
      PROVE  outbox'[Echo] = outbox[Echo]
  <2>1. outbox[Echo][s] \o <<>> = outbox[Echo][s]
    BY <1>2, TheRoles
  <2>2. \A z \in Streams : outbox'[Echo][z] = outbox[Echo][z]
    BY <1>1, <1>6, <2>1, TheRoles
  <2> QED
    BY <1>1, <1>2, <2>2, TheRoles
<1> QED
  BY <1>5, <1>6

\* A packet is taken, and nothing is created or handed over.
LEMMA TakenExchange ==
    ASSUME EndpointTypeOK, NEW r \in Roles, NEW s \in Streams,
           \A z \in Streams : Exchange(z),
           outbox[Peer(r)][s] # <<>>, NEW items \in Seq(Item),
           TakeAndQueue(r, s, items), AsksNoAck(items), r = Echo => items = <<>>,
           UNCHANGED <<sent, delivered>>
    PROVE  /\ \A z \in Streams : Exchange(z)'
           /\ r = Echo => outbox'[Echo] = outbox[Echo]
<1>1. Answering(s, sent'[Echo][s], sent'[Gadget][s], delivered'[Gadget][s])
  BY DEF Exchange
<1> QED
  BY <1>1, ReceiveExchange

LEMMA NoneAsksNoAck == AsksNoAck(<<>>)
  BY DEF AsksNoAck

\* A role that acknowledges queues no transaction, the Echo device nothing.
LEMMA AcksExchange ==
    ASSUME EndpointTypeOK, NEW r \in Roles, NEW s \in Streams, Exchange(s),
           TransactionArrives(r, s), NEW result \in Results
    PROVE  LET p == Arriving(r, s)
               items == AckItems(r, s, p, result)
           IN  /\ items \in Seq(Item) /\ AsksNoAck(items)
               /\ SuccessAck(r, s, p) \in Seq(Item) /\ AsksNoAck(SuccessAck(r, s, p))
               /\ r = Echo => items = <<>> /\ SuccessAck(r, s, p) = <<>>
<1> DEFINE p == Arriving(r, s)
<1>1. /\ p = Packet(outbox[Peer(r)][s][1]) /\ p.transactionId \in TransactionIds
      /\ outbox[Peer(r)][s] # <<>> /\ outbox[Peer(r)][s] \in Seq(Item)
      /\ IsTransaction(outbox[Peer(r)][s][1])
  BY ArrivalType
<1>2. r = Echo => ~p.ack
  BY <1>1, TheRoles DEF Exchange, AsksNoAck, Packet
<1> HIDE DEF p
<1>3. \A e \in Results :
         /\ AckItems(r, s, p, e) \in Seq(Item) /\ AsksNoAck(AckItems(r, s, p, e))
         /\ r = Echo => AckItems(r, s, p, e) = <<>>
  <2> SUFFICES ASSUME NEW e \in Results
               PROVE  /\ AckItems(r, s, p, e) \in Seq(Item)
                      /\ AsksNoAck(AckItems(r, s, p, e))
                      /\ r = Echo => AckItems(r, s, p, e) = <<>>
    OBVIOUS
  <2>1. AckItems(r, s, p, e) \in Seq(Item)
    BY <1>1, AckItemsType
  <2>2. AsksNoAck(AckItems(r, s, p, e))
    BY DEF AsksNoAck, AckItems, ControlAck, IsTransaction
  <2>3. r = Echo => AckItems(r, s, p, e) = <<>>
    BY <1>2 DEF AckItems
  <2> QED
    BY <2>1, <2>2, <2>3
<1>4. "SUCCESS" \in Results
  BY DEF Results
<1>5. /\ SuccessAck(r, s, p) \in Seq(Item) /\ AsksNoAck(SuccessAck(r, s, p))
      /\ r = Echo => SuccessAck(r, s, p) = <<>>
  BY <1>3, <1>4, NothingQueued, NoneAsksNoAck DEF SuccessAck
<1> QED
  BY <1>3, <1>5 DEF p

\* A completed transaction of the peer: the Echo device keeps silent, the
\* gadget answers once, unless it was data.
LEMMA CompletesAnswers ==
    ASSUME EndpointTypeOK, NEW r \in Roles, NEW s \in Streams, Exchange(s),
           DecodeCompletes(r, s),
           Origin(r, s, Appended(Arriving(r, s),
                                 Opened(Arriving(r, s), Buffer(r, s))).data) # 0
    PROVE  LET n == Origin(r, s, Appended(Arriving(r, s),
                                 Opened(Arriving(r, s), Buffer(r, s))).data)
               m == sent[Peer(r)][s][n].message
               silent == r = Echo \/ s = "OTA_STREAM"
           IN  /\ n \in 1..Len(sent[Peer(r)][s])
               /\ silent => /\ TakeAndQueue(r, s, SuccessAck(r, s, Arriving(r, s)))
                            /\ UNCHANGED sent
               /\ ~silent =>
                    /\ AnswerTo(s, m) \in Messages
                    /\ CreateTransaction(r, s, AnswerTo(s, m), FALSE)
                    /\ TakeAndQueue(r, s,
                         Append(SuccessAck(r, s, Arriving(r, s)),
                                NewTransaction(r, s, AnswerTo(s, m), FALSE)))
<1> DEFINE p == Arriving(r, s)
           b == Appended(p, Opened(p, Buffer(r, s)))
           n == Origin(r, s, b.data)
           m == sent[Peer(r)][s][n].message
           silent == r = Echo \/ s = "OTA_STREAM"
<1>1. n # 0 /\ Decodings(r, s, b.data) = {m}
  BY DEF Decodings
<1>2. \/ /\ Answers(r, s, m) = {}
         /\ TakeAndQueue(r, s, SuccessAck(r, s, p))
         /\ UNCHANGED <<lastTransactionId, sent>>
      \/ \E a \in Answers(r, s, m) :
           /\ CreateTransaction(r, s, a, FALSE)
           /\ TakeAndQueue(r, s, Append(SuccessAck(r, s, p),
                                        NewTransaction(r, s, a, FALSE)))
  BY <1>1, Zenon DEF DecodeCompletes
<1>3. n \in 1..Len(sent[Peer(r)][s])
  BY <1>1 DEF Origin
<1> HIDE DEF n, b, p
<1>4. Answers(r, s, m) = IF silent THEN {} ELSE {AnswerTo(s, m)}
  <2>1. CASE r = Gadget
    <3>1. m \in EchoMessages(s)
      BY <1>3, <2>1, TheRoles DEF Exchange, Answering
    <3> QED
      BY <2>1, <3>1, GadgetAnswers, TheRoles
  <2>2. CASE r = Echo
    <3>1. s # "OTA_STREAM"
      <4>1. s = "OTA_STREAM" => n \in 1..Len(<<>>)
        BY <1>3, <2>2, TheRoles DEF Exchange, Answering
      <4> QED
        BY <4>1
    <3>2. m = AnswerTo(s, sent[Echo][s][delivered[Gadget][s][n]].message)
      BY <1>3, <2>2, <3>1, TheRoles DEF Exchange, Answering
    <3> QED
      BY <2>2, <3>1, <3>2, EchoIsSilent
  <2> QED
    BY <2>1, <2>2, TheRoles
<1>5. CASE silent
  BY <1>2, <1>3, <1>4, <1>5 DEF n, b, p
<1>6. CASE ~silent
  <2>1. AnswerTo(s, m) \in Messages
    BY <1>4, <1>6, AnswerType
  <2> QED
    BY <1>2, <1>3, <1>4, <1>6, <2>1 DEF n, b, p
<1> QED
  BY <1>5, <1>6

\* The histories of the channel after it.
LEMMA AnsweredLater ==
    ASSUME NEW s \in Streams, NEW C \in Seq(Record), NEW A \in Seq(Record),
           NEW D \in Seq(Nat), Answering(s, C, A, D), NEW n \in 1..Len(C),
           s # "OTA_STREAM", NEW a \in Record,
           a.message = AnswerTo(s, C[n].message)
    PROVE  Answering(s, C, Append(A, a), Append(D, n))
<1> DEFINE B == Append(A, a)
           E == Append(D, n)
<1>1. /\ Len(A) = Len(D) /\ Len(D) \in Nat
      /\ Len(B) = Len(A) + 1 /\ Len(E) = Len(D) + 1
      /\ B[Len(B)] = a /\ E[Len(E)] = n
      /\ \A k \in 1..Len(A) : B[k] = A[k]
      /\ \A k \in 1..Len(D) : E[k] = D[k]
  BY DEF Answering
<1> HIDE DEF B, E
<1>2. ASSUME NEW k \in 1..Len(B)
      PROVE  E[k] \in 1..Len(C) /\ B[k].message = AnswerTo(s, C[E[k]].message)
  <2>1. CASE k = Len(B)
    BY <1>1, <2>1
  <2>2. CASE k # Len(B)
    <3>1. k \in 1..Len(A) /\ k \in 1..Len(D)
      BY <1>1, <2>2
    <3>2. B[k] = A[k] /\ E[k] = D[k]
      BY <1>1, <3>1
    <3> QED
      BY <3>1, <3>2 DEF Answering
  <2> QED
    BY <2>1, <2>2
<1>3. Len(B) = Len(E)
  BY <1>1
<1>4. Answering(s, C, B, E)
  BY <1>2, <1>3 DEF Answering
<1> QED
  BY <1>4 DEF B, E

LEMMA DataLater ==
    ASSUME NEW C, NEW A, NEW D \in Seq(Nat), Answering("OTA_STREAM", C, A, D),
           NEW n \in 1..Len(C)
    PROVE  Answering("OTA_STREAM", C, A, Append(D, n))
  BY DEF Answering

LEMMA CompletesExchange ==
    ASSUME EndpointTypeOK, NEW r \in Roles, NEW s \in Streams,
           \A z \in Streams : Exchange(z), DecodeCompletes(r, s),
           Origin(r, s, Appended(Arriving(r, s),
                                 Opened(Arriving(r, s), Buffer(r, s))).data) # 0
    PROVE  /\ \A z \in Streams : Exchange(z)'
           /\ r = Echo => outbox'[Echo] = outbox[Echo] /\ UNCHANGED sent
<1> DEFINE p == Arriving(r, s)
           n == Origin(r, s, Appended(p, Opened(p, Buffer(r, s))).data)
           m == sent[Peer(r)][s][n].message
           acks == SuccessAck(r, s, p)
           silent == r = Echo \/ s = "OTA_STREAM"
<1>1. /\ n \in 1..Len(sent[Peer(r)][s])
      /\ silent => TakeAndQueue(r, s, acks) /\ UNCHANGED sent
      /\ ~silent => /\ AnswerTo(s, m) \in Messages
                    /\ CreateTransaction(r, s, AnswerTo(s, m), FALSE)
                    /\ TakeAndQueue(r, s,
                         Append(acks, NewTransaction(r, s, AnswerTo(s, m), FALSE)))
  BY CompletesAnswers
<1>2. TransactionArrives(r, s) /\ outbox[Peer(r)][s] # <<>>
  BY DEF DecodeCompletes, Reassembles, TransactionArrives, Arrives
<1>3. /\ acks \in Seq(Item) /\ AsksNoAck(acks)
      /\ r = Echo => acks = <<>>
  <2>1. "SUCCESS" \in Results
    BY DEF Results
  <2> QED
    BY <1>2, <2>1, AcksExchange
<1>4. delivered' = [delivered EXCEPT ![r][s] = Append(@, n)]
  BY CompletesCases
<1> HIDE DEF n, p, acks
<1>5. /\ delivered \in [Roles -> [Streams -> Seq(Nat)]]
      /\ sent[Echo][s] \in Seq(Record) /\ sent[Gadget][s] \in Seq(Record)
  BY TheRoles DEF EndpointTypeOK, Record
<1>6. /\ delivered'[r][s] = Append(delivered[r][s], n)
      /\ \A x \in Roles, z \in Streams : x # r \/ z # s => delivered'[x][z] = delivered[x][z]
  BY <1>4, <1>5
<1>7. Answering(s, sent[Echo][s], sent[Gadget][s], delivered[Gadget][s])
  BY DEF Exchange
<1>8. CASE silent
  <2>1. Answering(s, sent'[Echo][s], sent'[Gadget][s], delivered'[Gadget][s])
    <3>1. CASE r = Echo
      BY <1>1, <1>6, <1>7, <1>8, <3>1, TheRoles
    <3>2. CASE r = Gadget /\ s = "OTA_STREAM"
      <4>1. /\ UNCHANGED sent /\ n \in 1..Len(sent[Echo][s])
            /\ delivered'[Gadget][s] = Append(delivered[Gadget][s], n)
            /\ delivered[Gadget][s] \in Seq(Nat)
        BY <1>1, <1>5, <1>6, <1>8, <3>2, TheRoles
      <4>2. Answering("OTA_STREAM", sent[Echo][s], sent[Gadget][s],
                      Append(delivered[Gadget][s], n))
        BY <1>7, <3>2, <4>1, DataLater
      <4> QED
        BY <3>2, <4>1, <4>2
    <3> QED
      BY <1>8, <3>1, <3>2, TheRoles
  <2> QED
    BY <1>1, <1>2, <1>3, <1>6, <1>8, <2>1, ReceiveExchange
<1>9. CASE ~silent
  <2> DEFINE new == NewTransaction(r, s, AnswerTo(s, m), FALSE)
             a == [message |-> AnswerTo(s, m), ack |-> FALSE]
  <2>1. /\ sent'[r][s] = Append(sent[r][s], a)
        /\ \A x \in Roles, z \in Streams : x # r \/ z # s => sent'[x][z] = sent[x][z]
        /\ new \in Item
    BY <1>1, <1>9, CreateTransactionEffect DEF Item
  <2>2. ~new.ack
    BY DEF NewTransaction, Transaction
  <2>3. a \in Record /\ a.message = AnswerTo(s, m)
    BY <1>1, <1>9 DEF Record
  <2>4. r = Gadget /\ s # "OTA_STREAM" /\ Peer(r) = Echo
    BY <1>9, TheRoles
  <2> HIDE DEF new, a
  <2>5. Append(acks, new) \in Seq(Item) /\ AsksNoAck(Append(acks, new))
    BY <1>3, <2>1, <2>2 DEF AsksNoAck
  <2>6. Answering(s, sent[Echo][s], Append(sent[Gadget][s], a),
                  Append(delivered[Gadget][s], n))
    BY <1>1, <1>5, <1>7, <2>3, <2>4, AnsweredLater
  <2>7. Answering(s, sent'[Echo][s], sent'[Gadget][s], delivered'[Gadget][s])
    BY <1>6, <2>1, <2>4, <2>6, TheRoles
  <2>8. TakeAndQueue(r, s, Append(acks, new))
    BY <1>1, <1>9 DEF new
  <2>9. \A x \in Roles, z \in Streams \ {s} :
           sent'[x][z] = sent[x][z] /\ delivered'[x][z] = delivered[x][z]
    BY <1>6, <2>1
  <2>10. \A z \in Streams : Exchange(z)'
    BY <1>2, <2>4, <2>5, <2>7, <2>8, <2>9, TheRoles, ReceiveExchange
  <2> QED
    BY <2>4, <2>10, TheRoles
<1> QED
  BY <1>8, <1>9

\* decodePacket, provided that what it completes is a transaction of the peer.
LEMMA PacketExchange ==
    ASSUME EndpointTypeOK, NEW r \in Roles, NEW s \in Streams,
           \A z \in Streams : Exchange(z), DecodePacket(r, s),
           DecodeCompletes(r, s) =>
              Origin(r, s, Appended(Arriving(r, s),
                                    Opened(Arriving(r, s), Buffer(r, s))).data) # 0
    PROVE  /\ \A z \in Streams : Exchange(z)'
           /\ r = Echo => outbox'[Echo] = outbox[Echo] /\ UNCHANGED sent
<1>1. CASE \/ DecodeControlPacket(r, s) \/ DecodeStray(r, s)
           \/ DecodeAborts(r, s) \/ DecodeAppends(r, s)
  <2>1. /\ outbox[Peer(r)][s] # <<>> /\ TakeAndQueue(r, s, <<>>)
        /\ UNCHANGED <<sent, delivered>>
    BY <1>1 DEF DecodeControlPacket, DecodeStray, DecodeAborts, DecodeAppends,
                Reassembles, TransactionArrives, Arrives
  <2> QED
    BY <2>1, NothingQueued, NoneAsksNoAck, TakenExchange
<1>2. CASE DecodeRejects(r, s)
  <2> DEFINE items == AckItems(r, s, Arriving(r, s), "FAILURE")
  <2>1. /\ TransactionArrives(r, s) /\ outbox[Peer(r)][s] # <<>>
        /\ TakeAndQueue(r, s, items)
        /\ UNCHANGED <<sent, delivered>> /\ "FAILURE" \in Results
    BY <1>2 DEF DecodeRejects, Reassembles, TransactionArrives, Arrives, Results
  <2>2. items \in Seq(Item) /\ AsksNoAck(items) /\ (r = Echo => items = <<>>)
    BY <2>1, AcksExchange
  <2> HIDE DEF items
  <2> QED
    BY <2>1, <2>2, TakenExchange
<1>3. CASE DecodeCompletes(r, s)
  BY <1>3, CompletesExchange
<1> QED
  BY <1>1, <1>2, <1>3 DEF DecodePacket

\* A message of the Echo device is created, and not answered yet.
LEMMA CreatedAnswering ==
    ASSUME NEW s \in Streams, NEW C \in Seq(Record), NEW A, NEW D,
           Answering(s, C, A, D), NEW e \in Record, e.message \in EchoMessages(s)
    PROVE  Answering(s, Append(C, e), A, D)
<1>1. /\ Len(Append(C, e)) = Len(C) + 1 /\ Append(C, e)[Len(C) + 1] = e
      /\ Len(C) \in Nat /\ \A k \in 1..Len(C) : Append(C, e)[k] = C[k]
  OBVIOUS
<1>2. \A n \in 1..Len(C) + 1 : Append(C, e)[n].message \in EchoMessages(s)
  BY <1>1 DEF Answering
<1>3. \A k \in 1..Len(D) : D[k] \in 1..Len(C) + 1 /\ Append(C, e)[D[k]] = C[D[k]]
  BY <1>1 DEF Answering
<1> QED
  BY <1>1, <1>2, <1>3 DEF Answering

\* A create function, called by the Echo device.
LEMMA CreateExchange ==
    ASSUME EndpointTypeOK, NEW s \in Streams, \A z \in Streams : Exchange(z),
           NEW m \in EchoMessages(s), NEW ack \in BOOLEAN, m \in Messages,
           Create(Echo, s, m, ack)
    PROVE  \A z \in Streams : Exchange(z)'
<1> DEFINE C == sent[Echo][s]
           e == [message |-> m, ack |-> ack]
<1>1. /\ outbox'[Gadget] = outbox[Gadget]
      /\ sent'[Echo][s] = Append(C, e)
      /\ \A x \in Roles, z \in Streams : x # Echo \/ z # s => sent'[x][z] = sent[x][z]
  <2>1. outbox'[Gadget] = outbox[Gadget]
    BY TheRoles DEF Create, EndpointTypeOK
  <2> QED
    BY <2>1, TheRoles, CreateEffect
<1>2. UNCHANGED delivered
  BY DEF Create
<1>3. C \in Seq(Record) /\ e \in Record /\ e.message = m
  BY TheRoles DEF EndpointTypeOK, Record
<1> HIDE DEF C, e
<1>4. \A A, D : Answering(s, C, A, D) => Answering(s, Append(C, e), A, D)
  BY <1>3, CreatedAnswering
<1>5. ASSUME NEW z \in Streams
      PROVE  Exchange(z)'
  <2>1. CASE z = s
    BY <1>1, <1>2, <1>4, <2>1, TheRoles DEF Exchange, C
  <2>2. CASE z # s
    BY <1>1, <1>2, <2>2, TheRoles DEF Exchange
  <2> QED
    BY <2>1, <2>2
<1> QED
  BY <1>5

LEMMA InitExchange ==
    ASSUME InitEndpoints
    PROVE  \A z \in Streams : Exchange(z)
<1> SUFFICES ASSUME NEW z \in Streams
             PROVE  Exchange(z)
  OBVIOUS
<1>1. /\ sent[Echo][z] = <<>> /\ sent[Gadget][z] = <<>>
      /\ delivered[Gadget][z] = <<>> /\ outbox[Gadget][z] = <<>>
  BY TheRoles DEF InitEndpoints
<1> QED
  BY <1>1 DEF Exchange, Answering, AsksNoAck
==============================================================================
