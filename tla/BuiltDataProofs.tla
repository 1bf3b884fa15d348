--------------------------- MODULE BuiltDataProofs ----------------------------
(***************************************************************************)
(* Proofs about what is built for others to read.  The packets of          *)
(* buildStreamPacket (BleTx): for every MTU that leaves room for the header *)
(* and every size of payloads.  The small programs (Programs): for every   *)
(* length of the name (Eir), every MTU and size of a transaction           *)
(* (BleAnnounce), every product and vendor id (SdpDb), and every id and    *)
(* secret that the buffer has room for (DeviceSecret).                     *)
(***************************************************************************)
EXTENDS BleTx, Programs, SharedLemmas, FiniteSetTheorems, TLAPS

\* A packet takes at least one byte, at most what remains, and fits the MTU.
LEMMA PayloadBounds ==
    ASSUME NEW src \in Nat, NEW rem \in Nat, rem > 0
    PROVE  /\ PayloadLength(src, rem) \in 1..rem
           /\ PacketSize(src, rem) \in Nat
           /\ PacketSize(src, rem) <= MTU
  BY PacketAssumption
  DEF PayloadLength, PacketSize, FullHeaderSize, IsExtended, PlainLength,
      HeaderSize, MIN

\* A packet whose length has one byte is no longer than that byte can say.
LEMMA ShortPayload ==
    ASSUME NEW src \in Nat, NEW rem \in Nat, rem > 0, ~IsExtended(src, rem)
    PROVE  PayloadLength(src, rem) <= ShortLengthMax
  BY PacketAssumption
  DEF PayloadLength, FullHeaderSize, IsExtended, PlainLength, HeaderSize, MIN

-----------------------------------------------------------------------------
(***************************************************************************)
(* The locals of the loop relate to each other and to the list.            *)
(***************************************************************************)
LoopInv ==
    /\ srcIndex + remainingSize = payloadSize
    /\ pc \in {"loop", "returned", "exit"} => Accepted
    /\ pc \in {"call", "null"} => packets = <<>>
    /\ pc = "returned" => remainingSize = 0

\* Each packet in the list, whatever became of the others.
PacketInv(p) ==
    /\ p.size <= MTU /\ p.copied >= 1
    /\ p.length = p.copied
    /\ p.type = "INITIAL" => p.total = payloadSize

PacketsInv == \A i \in 1..Len(packets) : PacketInv(packets[i])

End(p) == p.first + p.copied

\* Packet i takes up where the one before it ended, and says what it is.
Linked(i) ==
    /\ packets[i].first = 0 <=> i = 1
    /\ packets[i].copied >= 1
    /\ End(packets[i]) <= srcIndex
    /\ i = Len(packets) => End(packets[i]) = srcIndex
    /\ i # Len(packets) => packets[i + 1].first = End(packets[i])
    /\ packets[i].type = IF i = 1 THEN "INITIAL"
                         ELSE IF End(packets[i]) = payloadSize THEN "FINAL"
                         ELSE "CONTINUE"

(***************************************************************************)
(* Without failed allocations the list holds, at every head of the loop,   *)
(* exactly the first srcIndex bytes of the payload.                        *)
(***************************************************************************)
ChainInv ==
    faults = 0 =>
        /\ srcIndex = 0 <=> packets = <<>>
        /\ \A i \in 1..Len(packets) : Linked(i)

TxInv == TypeOK /\ LoopInv /\ PacketsInv /\ ChainInv

\* The packet of an iteration is as PacketsInv says.
LEMMA CurrentPacketCorrect ==
    ASSUME TypeOK, LoopInv, pc = "loop", remainingSize > 0
    PROVE  CurrentPacket \in WirePacket /\ PacketInv(CurrentPacket)
<1>1. /\ CurrentLength \in 1..remainingSize
      /\ PacketSize(srcIndex, remainingSize) \in Nat
      /\ PacketSize(srcIndex, remainingSize) <= MTU
  BY PayloadBounds DEF TypeOK, CurrentLength
<1>2. payloadSize <= MaxTransactionLength /\ streamId \in ValidStreamIds
  BY DEF LoopInv, Accepted
<1>3. payloadSize \in Nat /\ remainingSize <= payloadSize
  BY TxAssumption DEF TypeOK, LoopInv
<1>4. TwoBytes(payloadSize) = payloadSize
  BY <1>2, <1>3, ModSmall, PacketAssumption, TxAssumption DEF TwoBytes
<1>5. CurrentPacket.length = CurrentLength
  <2>1. CASE IsExtended(srcIndex, remainingSize)
    <3>1. CurrentLength \in Nat /\ CurrentLength <= MaxTransactionLength
      BY <1>1, <1>2, <1>3, PacketAssumption DEF TypeOK
    <3> QED
      BY <2>1, <3>1, ModSmall, PacketAssumption, TxAssumption
      DEF CurrentPacket, TwoBytes
  <2>2. CASE ~IsExtended(srcIndex, remainingSize)
    <3>1. CurrentLength \in Nat /\ CurrentLength <= ShortLengthMax
      BY <1>1, <2>2, ShortPayload DEF TypeOK, CurrentLength
    <3> QED
      BY <2>2, <3>1, ModSmall, PacketAssumption DEF CurrentPacket, OneByte
  <2> QED
    BY <2>1, <2>2
<1>6. CurrentId \in TransactionIds
  BY ModRange, PacketAssumption DEF TypeOK, CurrentId, NextTransactionId, TransactionIds
<1>7. /\ TransactionType(srcIndex, remainingSize) \in PacketTypes
      /\ IsExtended(srcIndex, remainingSize) \in BOOLEAN
      /\ TransactionType(srcIndex, remainingSize) = "INITIAL" => srcIndex = 0
  BY DEF TransactionType, PacketTypes, IsExtended
<1>8. CurrentPacket.length \in Nat
  BY <1>1, <1>5 DEF TypeOK
<1>9. CurrentPacket \in WirePacket
  BY <1>1, <1>2, <1>3, <1>4, <1>6, <1>7, <1>8
  DEF CurrentPacket, WirePacket, TypeOK
<1> QED
  BY <1>1, <1>4, <1>5, <1>7, <1>9 DEF CurrentPacket, PacketInv, TypeOK

\* What an iteration does to the locals.
LEMMA AdvanceCorrect ==
    ASSUME TypeOK, LoopInv, pc = "loop", remainingSize > 0, Advance
    PROVE  /\ remainingSize' \in Nat /\ srcIndex' \in Nat
           /\ srcIndex' > srcIndex
           /\ srcIndex' = srcIndex + CurrentLength
           /\ srcIndex' + remainingSize' = srcIndex + remainingSize
           /\ seqNum' \in SeqNums
           /\ transactionId' \in TransactionIds
           /\ lastTransactionId' \in TransactionIds
<1>1. CurrentLength \in 1..remainingSize
  BY PayloadBounds DEF TypeOK, CurrentLength
<1>2. CurrentId \in TransactionIds
  BY ModRange, PacketAssumption DEF TypeOK, CurrentId, NextTransactionId, TransactionIds
<1>3. seqNum' \in SeqNums
  BY ModRange, PacketAssumption DEF TypeOK, Advance, NextSeqNum, SeqNums
<1> QED
  BY <1>1, <1>2, <1>3 DEF TypeOK, Advance, DrawTransactionId

LEMMA TxInit == Init => TxInv
  BY PacketAssumption, TxAssumption
  DEF Init, TxInv, TypeOK, LoopInv, PacketsInv, ChainInv, WirePacket,
      SeqNums, TransactionIds

\* The iteration that appends its packet.
LEMMA IterateStep ==
    ASSUME TxInv, Iterate
    PROVE  TxInv'
<1> USE DEF TxInv
<1>1. /\ CurrentPacket \in WirePacket /\ PacketInv(CurrentPacket)
  BY CurrentPacketCorrect DEF Iterate
<1>2. /\ remainingSize' \in Nat /\ srcIndex' \in Nat
      /\ srcIndex' > srcIndex
      /\ srcIndex' = srcIndex + CurrentLength
      /\ srcIndex' + remainingSize' = srcIndex + remainingSize
      /\ seqNum' \in SeqNums
      /\ transactionId' \in TransactionIds
      /\ lastTransactionId' \in TransactionIds
  BY AdvanceCorrect DEF Iterate
<1>3. /\ packets \in Seq(WirePacket)
      /\ packets' = Append(packets, CurrentPacket)
      /\ Len(packets') = Len(packets) + 1
      /\ \A i \in 1..Len(packets) : packets'[i] = packets[i]
      /\ packets'[Len(packets) + 1] = CurrentPacket
      /\ Len(packets) \in Nat
  BY <1>1 DEF Iterate, TypeOK
<1>4. TypeOK'
  BY <1>1, <1>2, <1>3 DEF TypeOK, Iterate, arguments
<1>5. LoopInv'
  BY <1>2 DEF TypeOK, LoopInv, Iterate, arguments, Accepted
<1>6. PacketsInv'
  <2> SUFFICES ASSUME NEW i \in 1..Len(packets')
               PROVE  PacketInv(packets[i])'
    BY DEF PacketsInv
  <2>1. payloadSize' = payloadSize
    BY DEF Iterate, arguments
  <2>2. PacketInv(packets'[i])
    BY <1>1, <1>3 DEF PacketsInv
  <2> QED
    BY <1>3, <2>1, <2>2 DEF PacketInv
<1>7. ChainInv'
  <2> SUFFICES ASSUME faults = 0
               PROVE  ChainInv'
    BY DEF ChainInv, Iterate
  <2>1. /\ payloadSize' = payloadSize
        /\ remainingSize > 0 /\ CurrentLength \in 1..remainingSize
    BY PayloadBounds DEF Iterate, arguments, TypeOK, CurrentLength
  <2>2. /\ CurrentPacket.first = srcIndex
        /\ CurrentPacket.copied = CurrentLength
        /\ CurrentPacket.type =
              IF srcIndex = 0 THEN "INITIAL"
              ELSE IF CurrentLength = remainingSize THEN "FINAL" ELSE "CONTINUE"
    BY DEF CurrentPacket, TransactionType, CurrentLength
  <2>3. CurrentLength = remainingSize <=> srcIndex' = payloadSize
    BY <1>2, <2>1 DEF LoopInv, TypeOK
  <2>4. srcIndex = 0 <=> Len(packets) = 0
    BY <1>3 DEF ChainInv
  <2>5. ASSUME NEW i \in 1..Len(packets')
        PROVE  Linked(i)'
    <3>1. CASE i = Len(packets) + 1
      <4>1. packets'[i] = CurrentPacket /\ i = Len(packets')
        BY <1>3, <3>1
      <4>2. End(packets'[i]) = srcIndex'
        BY <1>2, <2>2, <4>1 DEF End
      <4>3. i = 1 <=> srcIndex = 0
        BY <1>3, <2>4, <3>1
      <4>4. srcIndex' \in Nat /\ srcIndex \in Nat
        BY <1>2 DEF TypeOK
      <4>5. packets'[i].first = 0 <=> i = 1
        BY <2>2, <4>1, <4>3
      <4>6. packets'[i].copied >= 1
        BY <2>1, <2>2, <4>1
      <4>7. packets'[i].type = IF i = 1 THEN "INITIAL"
                               ELSE IF End(packets'[i]) = payloadSize
                                    THEN "FINAL" ELSE "CONTINUE"
        BY <2>2, <2>3, <2>1, <4>1, <4>2, <4>3
      <4> HIDE DEF TxInv
      <4> QED
        BY <2>1, <4>1, <4>2, <4>4, <4>5, <4>6, <4>7 DEF Linked, End
    <3>2. CASE i \in 1..Len(packets)
      <4>1. /\ packets'[i] = packets[i]
            /\ i # Len(packets) =>
                 i + 1 \in 1..Len(packets) /\ packets'[i + 1] = packets[i + 1]
            /\ i = Len(packets) => packets'[i + 1].first = srcIndex
            /\ i # Len(packets')
        BY <1>3, <2>2, <3>2
      <4>2. Linked(i) /\ packets[i] \in WirePacket
        BY <1>3, <3>2 DEF ChainInv
      <4>3. /\ End(packets'[i]) = End(packets[i])
            /\ End(packets[i]) \in Nat
        BY <4>1, <4>2 DEF End, WirePacket
      <4>4. End(packets'[i]) <= srcIndex'
        <5>1. End(packets[i]) <= srcIndex
          BY <4>2 DEF Linked
        <5> QED
          BY <1>2, <4>3, <5>1 DEF TypeOK
      <4>5. packets'[i + 1].first = End(packets'[i])
        BY <4>1, <4>2, <4>3 DEF Linked
      <4> QED
        BY <2>1, <4>1, <4>2, <4>3, <4>4, <4>5 DEF Linked, End
    <3> QED
      BY <1>3, <3>1, <3>2
  <2>6. srcIndex' # 0 /\ packets' # <<>>
    <3>1. srcIndex' # 0
      BY <1>2 DEF TypeOK
    <3>2. Len(packets') # 0
      BY <1>3
    <3> QED
      BY <3>1, <3>2
  <2> HIDE DEF TxInv
  <2> QED
    BY <2>5, <2>6 DEF ChainInv
<1> QED
  BY <1>4, <1>5, <1>6, <1>7

LEMMA TxStep == TxInv /\ [Next]_vars => TxInv'
<1> SUFFICES ASSUME TxInv, [Next]_vars
             PROVE  TxInv'
  OBVIOUS
<1>1. CASE RejectArguments
  BY <1>1 DEF RejectArguments, TxInv, TypeOK, LoopInv, PacketsInv, PacketInv,
              ChainInv, Linked, arguments, locals, Accepted
<1>2. CASE EnterLoop
  BY <1>2 DEF EnterLoop, TxInv, TypeOK, LoopInv, PacketsInv, PacketInv,
              ChainInv, Linked, arguments, locals, Accepted
<1>3. CASE Iterate
  BY <1>3, IterateStep
<1>4. CASE IterateOutOfMemory
  <2>1. CurrentId \in TransactionIds
    BY ModRange, PacketAssumption DEF TxInv, TypeOK, CurrentId, NextTransactionId, TransactionIds
  <2>2. faults' \in 0..MaxFaults /\ faults' # 0
    BY <1>4, TxAssumption DEF IterateOutOfMemory, Fault, TxInv, TypeOK
  <2>3. TypeOK' /\ ChainInv'
    BY <1>4, <2>1, <2>2
    DEF IterateOutOfMemory, DrawTransactionId, TxInv, TypeOK, ChainInv, arguments
  <2>4. LoopInv' /\ PacketsInv'
    BY <1>4
    DEF IterateOutOfMemory, TxInv, LoopInv, PacketsInv, PacketInv, arguments, Accepted
  <2> QED
    BY <2>3, <2>4 DEF TxInv
<1>5. CASE IterateNodeLost
  <2>1. /\ remainingSize' \in Nat /\ srcIndex' \in Nat
        /\ srcIndex' + remainingSize' = srcIndex + remainingSize
        /\ seqNum' \in SeqNums
        /\ transactionId' \in TransactionIds
        /\ lastTransactionId' \in TransactionIds
    BY <1>5, AdvanceCorrect DEF IterateNodeLost, TxInv
  <2>2. faults' \in 0..MaxFaults /\ faults' # 0
    BY <1>5, TxAssumption DEF IterateNodeLost, Fault, TxInv, TypeOK
  <2>3. TypeOK' /\ ChainInv'
    BY <1>5, <2>1, <2>2 DEF IterateNodeLost, TxInv, TypeOK, ChainInv, arguments
  <2>4. LoopInv' /\ PacketsInv'
    BY <1>5, <2>1
    DEF IterateNodeLost, TxInv, LoopInv, PacketsInv, PacketInv, arguments, Accepted
  <2> QED
    BY <2>3, <2>4 DEF TxInv
<1>6. CASE Return
  BY <1>6 DEF Return, TxInv, TypeOK, LoopInv, PacketsInv, PacketInv,
              ChainInv, Linked, arguments, locals, Accepted
<1>7. CASE UNCHANGED vars
  BY <1>7 DEF vars, TxInv, TypeOK, LoopInv, PacketsInv, PacketInv,
              ChainInv, Linked, arguments, locals, Accepted
<1> QED
  BY <1>1, <1>2, <1>3, <1>4, <1>5, <1>6, <1>7 DEF Next

LEMMA TxInvariant == Spec => []TxInv
  BY TxInit, TxStep, PTL DEF Spec

-----------------------------------------------------------------------------
(***************************************************************************)
(* Every variable of buildStreamPacket keeps its type, whatever the sizes. *)
(***************************************************************************)
THEOREM TxTypeCorrect == Spec => []TypeOK
<1>1. TxInv => TypeOK
  BY DEF TxInv
<1> QED
  BY <1>1, TxInvariant, PTL

(***************************************************************************)
(* No packet of any transaction exceeds the negotiated MTU.                *)
(***************************************************************************)
THEOREM TxPacketsFitMtu == Spec => []PacketsFitMtu
<1>1. TxInv => PacketsFitMtu
  BY DEF TxInv, PacketsInv, PacketInv, PacketsFitMtu
<1> QED
  BY <1>1, TxInvariant, PTL

(***************************************************************************)
(* The length fields, cut to their bytes, say what was copied.             *)
(***************************************************************************)
THEOREM TxLengthsReadBack == Spec => []LengthsReadBack
<1>1. TxInv => LengthsReadBack
  BY DEF TxInv, PacketsInv, PacketInv, LengthsReadBack
<1> QED
  BY <1>1, TxInvariant, PTL

(***************************************************************************)
(* A call that returns without a failed allocation has packed the whole    *)
(* payload, in order, between an INITIAL and a FINAL packet.               *)
(***************************************************************************)
THEOREM TxPacketsCoverPayload == Spec => []PacketsCoverPayload
<1>1. ASSUME TxInv, pc = "returned", faults = 0, NEW i \in 1..Len(packets)
      PROVE  LET end == packets[i].first + packets[i].copied
             IN  /\ packets[i].first = 0 <=> i = 1
                 /\ end = IF i = Len(packets) THEN payloadSize
                          ELSE packets[i + 1].first
                 /\ packets[i].type = IF i = 1 THEN "INITIAL"
                                      ELSE IF i = Len(packets) THEN "FINAL"
                                      ELSE "CONTINUE"
  <2>1. srcIndex = payloadSize
    BY <1>1 DEF TxInv, LoopInv, TypeOK
  <2>2. Linked(i) /\ packets[i] \in WirePacket /\ Len(packets) \in Nat
    BY <1>1 DEF TxInv, TypeOK, ChainInv
  <2>3. CASE i = Len(packets)
    BY <2>1, <2>2, <2>3 DEF Linked, End
  <2>4. CASE i # Len(packets)
    <3>1. i + 1 \in 1..Len(packets)
      BY <2>2, <2>4
    <3>2. Linked(i + 1) /\ packets[i + 1] \in WirePacket
      BY <1>1, <3>1 DEF TxInv, TypeOK, ChainInv
    <3>3. End(packets[i]) < payloadSize
      <4>1. /\ packets[i + 1].first = End(packets[i])
            /\ packets[i + 1].copied >= 1
            /\ End(packets[i + 1]) <= payloadSize
        BY <2>1, <2>2, <2>4, <3>2 DEF Linked
      <4>2. packets[i + 1].first \in Nat /\ packets[i + 1].copied \in Nat
        BY <3>2 DEF WirePacket
      <4> QED
        BY <4>1, <4>2, <1>1, <2>1 DEF End, TxInv, TypeOK
    <3>4. End(packets[i]) # payloadSize
      <4>1. End(packets[i]) \in Nat
        BY <2>2 DEF End, WirePacket
      <4>2. payloadSize \in Nat
        BY <1>1, TxAssumption DEF TxInv, TypeOK
      <4> QED
        BY <3>3, <4>1, <4>2
    <3> QED
      BY <2>2, <2>4, <3>4 DEF Linked, End
  <2> QED
    BY <2>3, <2>4
<1>2. TxInv => PacketsCoverPayload
  BY <1>1 DEF PacketsCoverPayload
<1> QED
  BY <1>2, TxInvariant, PTL

-----------------------------------------------------------------------------
(***************************************************************************)
(* What failed allocations of list nodes leave behind: behind each packet  *)
(* in the list a number of packets is missing, which its successor's       *)
(* sequence number tells, counted round the modulus.                       *)
(***************************************************************************)
\* The sequence number after s when g packets in between are missing.
After(s, g) == IF s + 1 + g < SeqNumModulus THEN s + 1 + g
               ELSE s + 1 + g - SeqNumModulus

\* Packet p and one that starts at first, with the number num, are g apart.
Apart(p, g, first, num) ==
    /\ num = After(p.seqNum, g)
    /\ End(p) <= first
    /\ End(p) = first <=> g = 0

\* Where what is behind packet i starts, and its number.
FirstBehind(i) == IF i = Len(packets) THEN srcIndex ELSE packets[i + 1].first
NumBehind(i) == IF i = Len(packets) THEN seqNum ELSE packets[i + 1].seqNum

GapInv ==
    faults < SeqNumModulus =>
        \A i \in 1..Len(packets) : \E g \in 0..faults :
            Apart(packets[i], g, FirstBehind(i), NumBehind(i))

\* The next number is the one after, with nothing missing.
LEMMA NextIsAfter ==
    ASSUME NEW s \in SeqNums
    PROVE  NextSeqNum(s) = After(s, 0)
<1>1. SeqNumModulus \in Nat /\ s \in Nat /\ s + 1 <= SeqNumModulus /\ SeqNumModulus >= 1
  BY PacketAssumption DEF SeqNums
<1>2. CASE s + 1 < SeqNumModulus
  BY <1>1, <1>2, ModSmall DEF NextSeqNum, After
<1>3. CASE s + 1 = SeqNumModulus
  <2>1. SeqNumModulus % SeqNumModulus = 0
    BY <1>1
  <2> QED
    BY <1>1, <1>3, <2>1 DEF NextSeqNum, After
<1> QED
  BY <1>1, <1>2, <1>3

\* One more is missing.
LEMMA AfterOneMore ==
    ASSUME NEW s \in SeqNums, NEW g \in Nat, g + 1 < SeqNumModulus
    PROVE  NextSeqNum(After(s, g)) = After(s, g + 1)
<1>1. SeqNumModulus \in Nat /\ s \in 0..SeqNumModulus - 1
  BY PacketAssumption DEF SeqNums
<1>2. After(s, g) \in SeqNums
  BY <1>1 DEF After, SeqNums
<1>3. NextSeqNum(After(s, g)) = After(After(s, g), 0)
  BY <1>2, NextIsAfter
<1> QED
  BY <1>1, <1>3 DEF After

\* Fewer than a whole cycle missing: the number is the next one only if none is.
LEMMA AfterTells ==
    ASSUME NEW s \in SeqNums, NEW g \in Nat, g < SeqNumModulus
    PROVE  After(s, g) = NextSeqNum(s) <=> g = 0
<1>1. SeqNumModulus \in Nat /\ s \in 0..SeqNumModulus - 1
  BY PacketAssumption DEF SeqNums
<1> QED
  BY <1>1, NextIsAfter DEF After

LEMMA GapIterate ==
    ASSUME TxInv, GapInv, Iterate
    PROVE  GapInv'
<1>1. /\ CurrentPacket \in WirePacket
      /\ srcIndex' = srcIndex + CurrentLength
      /\ srcIndex \in Nat /\ CurrentLength \in Nat /\ seqNum \in SeqNums
  <2>1. TypeOK /\ LoopInv /\ pc = "loop" /\ remainingSize > 0
    BY DEF Iterate, TxInv
  <2>2. CurrentLength \in 1..remainingSize /\ remainingSize \in Nat
    BY <2>1, PayloadBounds DEF TypeOK, CurrentLength
  <2>3. CurrentPacket \in WirePacket
    BY <2>1, CurrentPacketCorrect
  <2> QED
    BY <2>1, <2>2, <2>3 DEF Iterate, Advance, TypeOK
<1>2. /\ packets \in Seq(WirePacket) /\ Len(packets) \in Nat
      /\ Len(packets') = Len(packets) + 1
      /\ \A i \in 1..Len(packets) : packets'[i] = packets[i]
      /\ packets'[Len(packets) + 1] = CurrentPacket
  BY <1>1 DEF Iterate, TxInv, TypeOK
<1>3. /\ CurrentPacket.first = srcIndex /\ CurrentPacket.seqNum = seqNum
      /\ CurrentPacket.copied = CurrentLength
  BY DEF CurrentPacket
<1>4. faults' = faults /\ faults \in Nat /\ seqNum' = After(seqNum, 0)
  BY <1>1, NextIsAfter, TxAssumption DEF Iterate, Advance, TxInv, TypeOK
<1> SUFFICES ASSUME faults < SeqNumModulus, NEW i \in 1..Len(packets')
             PROVE  \E g \in 0..faults : Apart(packets'[i], g, FirstBehind(i)', NumBehind(i)')
  BY <1>4 DEF GapInv, Apart, End, After
<1>5. CASE i = Len(packets) + 1
  <2>1. /\ packets'[i] = CurrentPacket
        /\ FirstBehind(i)' = srcIndex' /\ NumBehind(i)' = seqNum'
    BY <1>2, <1>5 DEF FirstBehind, NumBehind
  <2>2. Apart(CurrentPacket, 0, srcIndex', seqNum')
    BY <1>1, <1>3, <1>4 DEF Apart, End
  <2> QED
    BY <1>4, <2>1, <2>2
<1>6. CASE i \in 1..Len(packets)
  <2>1. PICK g \in 0..faults : Apart(packets[i], g, FirstBehind(i), NumBehind(i))
    BY <1>6 DEF GapInv
  <2>2. FirstBehind(i)' = FirstBehind(i) /\ NumBehind(i)' = NumBehind(i)
    <3>1. CASE i = Len(packets)
      BY <1>2, <1>3, <3>1 DEF FirstBehind, NumBehind
    <3>2. CASE i # Len(packets)
      <4>1. i + 1 \in 1..Len(packets) /\ i # Len(packets')
        BY <1>2, <1>6, <3>2
      <4> QED
        BY <1>2, <3>2, <4>1 DEF FirstBehind, NumBehind
    <3> QED
      BY <3>1, <3>2
  <2> QED
    BY <1>2, <1>6, <2>1, <2>2
<1> QED
  BY <1>2, <1>5, <1>6

LEMMA GapNodeLost ==
    ASSUME TxInv, GapInv, IterateNodeLost
    PROVE  GapInv'
<1>1. /\ srcIndex' \in Nat /\ srcIndex' > srcIndex /\ srcIndex \in Nat
      /\ seqNum' = NextSeqNum(seqNum)
      /\ packets' = packets /\ packets \in Seq(WirePacket)
      /\ faults' = faults + 1 /\ faults \in Nat
  BY AdvanceCorrect, TxAssumption DEF IterateNodeLost, Advance, Fault, TxInv, TypeOK
<1> SUFFICES ASSUME faults + 1 < SeqNumModulus, NEW i \in 1..Len(packets)
             PROVE  \E g \in 0..faults + 1 :
                        Apart(packets[i], g, FirstBehind(i)', NumBehind(i)')
  BY <1>1 DEF GapInv, Apart, End, After
<1>2. PICK g \in 0..faults : Apart(packets[i], g, FirstBehind(i), NumBehind(i))
  BY <1>1, PacketAssumption DEF GapInv
<1>3. CASE i = Len(packets)
  <2>1. /\ packets[i].seqNum \in SeqNums /\ End(packets[i]) \in Nat
    <3>1. packets[i] \in WirePacket
      BY <1>1
    <3> QED
      BY <3>1 DEF WirePacket, End
  <2>2. seqNum' = After(packets[i].seqNum, g + 1)
    <3>1. seqNum = After(packets[i].seqNum, g)
      BY <1>2, <1>3 DEF Apart, NumBehind
    <3>2. g \in Nat /\ g + 1 < SeqNumModulus
      BY <1>1, <1>2, PacketAssumption
    <3> QED
      BY <1>1, <2>1, <3>1, <3>2, AfterOneMore
  <2>3. End(packets[i]) < srcIndex'
    BY <1>1, <1>2, <1>3, <2>1 DEF Apart, FirstBehind
  <2>4. FirstBehind(i)' = srcIndex' /\ NumBehind(i)' = seqNum'
    BY <1>1, <1>3 DEF FirstBehind, NumBehind
  <2>5. g + 1 \in 0..faults + 1 /\ g + 1 # 0
    BY <1>1, <1>2
  <2>6. Apart(packets[i], g + 1, srcIndex', seqNum')
    BY <1>1, <2>1, <2>2, <2>3, <2>5 DEF Apart
  <2> QED
    BY <2>4, <2>5, <2>6
<1>4. CASE i # Len(packets)
  <2>1. FirstBehind(i)' = FirstBehind(i) /\ NumBehind(i)' = NumBehind(i)
    BY <1>1, <1>4 DEF FirstBehind, NumBehind
  <2>2. g \in 0..faults + 1
    BY <1>1, <1>2
  <2> QED
    BY <1>2, <2>1, <2>2
<1> QED
  BY <1>3, <1>4

LEMMA GapStep == TxInv /\ GapInv /\ [Next]_vars => GapInv'
<1> SUFFICES ASSUME TxInv, GapInv, [Next]_vars
             PROVE  GapInv'
  OBVIOUS
<1>1. CASE Iterate
  BY <1>1, GapIterate
<1>2. CASE IterateNodeLost
  BY <1>2, GapNodeLost
<1>3. CASE IterateOutOfMemory
  <2>1. /\ packets' = packets /\ srcIndex' = srcIndex /\ seqNum' = seqNum
        /\ faults' = faults + 1 /\ faults \in Nat /\ SeqNumModulus \in Nat
    BY <1>3, TxAssumption, PacketAssumption DEF IterateOutOfMemory, Fault, TxInv, TypeOK
  <2>2. 0..faults \subseteq 0..faults' /\ (faults' < SeqNumModulus => faults < SeqNumModulus)
    BY <2>1
  <2>3. ASSUME NEW i \in 1..Len(packets), NEW g
        PROVE  Apart(packets[i], g, FirstBehind(i), NumBehind(i))
                 => Apart(packets'[i], g, FirstBehind(i)', NumBehind(i)')
    BY <2>1 DEF FirstBehind, NumBehind, Apart
  <2> QED
    BY <2>1, <2>2, <2>3 DEF GapInv
<1>4. CASE RejectArguments \/ EnterLoop \/ Return \/ UNCHANGED vars
  <2>1. /\ packets' = packets /\ srcIndex' = srcIndex /\ seqNum' = seqNum
        /\ faults' = faults
    BY <1>4 DEF RejectArguments, EnterLoop, Return, vars, locals
  <2>2. ASSUME NEW i \in 1..Len(packets), NEW g
        PROVE  Apart(packets[i], g, FirstBehind(i), NumBehind(i))
                 => Apart(packets'[i], g, FirstBehind(i)', NumBehind(i)')
    BY <2>1 DEF FirstBehind, NumBehind, Apart
  <2> QED
    BY <2>1, <2>2 DEF GapInv
<1> QED
  BY <1>1, <1>2, <1>3, <1>4 DEF Next

(***************************************************************************)
(* With fewer failed allocations than there are sequence numbers, a packet *)
(* that is missing from the list shows at the number of the next one, and  *)
(* nothing else does (helpers.c:42-45, rx.c:322).                          *)
(***************************************************************************)
THEOREM TxGapsShow == Spec => []GapsShow
<1>1. Init => GapInv
  BY DEF Init, GapInv
<1>2. TxInv /\ GapInv => GapsShow
  <2> SUFFICES ASSUME TxInv, GapInv, faults < SeqNumModulus,
                      NEW i \in 1..Len(packets) - 1
               PROVE  packets[i + 1].first = packets[i].first + packets[i].copied
                        <=> packets[i + 1].seqNum = NextSeqNum(packets[i].seqNum)
    BY DEF GapsShow
  <2>1. /\ packets \in Seq(WirePacket) /\ Len(packets) \in Nat
        /\ i \in 1..Len(packets) /\ i # Len(packets)
        /\ faults \in Nat /\ SeqNumModulus \in Nat
    BY TxAssumption, PacketAssumption DEF TxInv, TypeOK
  <2>2. PICK g \in 0..faults :
          Apart(packets[i], g, packets[i + 1].first, packets[i + 1].seqNum)
    BY <2>1 DEF GapInv, FirstBehind, NumBehind
  <2>3. packets[i].seqNum \in SeqNums
    <3>1. packets[i] \in WirePacket
      BY <2>1
    <3> QED
      BY <3>1 DEF WirePacket
  <2>4. g \in Nat /\ g < SeqNumModulus
    BY <2>1
  <2>5. packets[i + 1].seqNum = NextSeqNum(packets[i].seqNum) <=> g = 0
    BY <2>2, <2>3, <2>4, AfterTells DEF Apart
  <2> QED
    BY <2>2, <2>5 DEF Apart, End
<1> QED
  BY <1>1, <1>2, GapStep, TxInvariant, PTL DEF Spec

-----------------------------------------------------------------------------
(***************************************************************************)
(* The small programs.  A program goes on by its own steps.                *)
(***************************************************************************)
LEMMA OneProgram ==
    ASSUME [ProgramNext]_programVars
    PROVE  program' = program
  BY DEF ProgramNext, programVars, ProtoStep, SelfTestStep

-----------------------------------------------------------------------------
(***************************************************************************)
(* construct_gadget_eir: the structures that the buffer has at each call.  *)
(* s1 is the length of the name, s2 is *p_len, s3 the structures, s4 the   *)
(* bytes written.                                                          *)
(***************************************************************************)
NameAt == [at |-> 0, length |-> 1 + s1, type |-> 9]
UuidAt == [at |-> 2 + s1, length |-> 17, type |-> 6]
ManufacturerAt == [at |-> 20 + s1, length |-> 11, type |-> 255]

EirInv ==
    /\ s1 \in 0..222
    /\ stage \in {"construct", "name", "uuid", "manufacturer", "done"}
    /\ stage = "construct" => s3 = <<>> /\ s4 = 0
    /\ stage = "name" => s3 = <<>> /\ s2 = 0 /\ s4 = 0
    /\ stage = "uuid" => s3 = <<NameAt>> /\ s2 = 2 + s1 /\ s4 = 2 + s1
    /\ stage = "manufacturer" => s3 = <<NameAt, UuidAt>> /\ s2 = 20 + s1 /\ s4 = 20 + s1
    /\ stage = "done" =>
         s3 = <<NameAt, UuidAt, ManufacturerAt>> /\ s2 = 33 + s1 /\ s4 = 33 + s1

LEMMA EirInit ==
    ASSUME Eir!Init
    PROVE  EirInv
  BY ProgramAssumptions DEF Eir!Init, Eir!EirAssumption, EirInv

LEMMA EirStep ==
    ASSUME EirInv, Eir!Next
    PROVE  EirInv'
<1>1. CASE Eir!construct_gadget_eir
  BY <1>1 DEF EirInv, Eir!construct_gadget_eir
<1>2. CASE Eir!add_gadget_name_to_eir
  <2>1. s1 \in 0..222 /\ s3 = <<>> /\ s2 = 0 /\ s4 = 0
    BY <1>2 DEF EirInv, Eir!add_gadget_name_to_eir
  <2>2. (1 + s1) % 256 = 1 + s1 /\ (0 + (2 + s1)) % 256 = 2 + s1
    BY <2>1
  <2>3. s3' = <<NameAt>> /\ s2' = 2 + s1 /\ s4' = 2 + s1 /\ s1' = s1
    BY <1>2, <2>1, <2>2
       DEF Eir!add_gadget_name_to_eir, Eir!AppendStructure, Eir!EIR_TYPE_FULL_NAME, NameAt
  <2> QED
    BY <1>2, <2>1, <2>3 DEF EirInv, Eir!add_gadget_name_to_eir, NameAt
<1>3. CASE Eir!add_gadget_uuid128_to_eir
  <2>1. s1 \in 0..222 /\ s3 = <<NameAt>> /\ s2 = 2 + s1 /\ s4 = 2 + s1
    BY <1>3 DEF EirInv, Eir!add_gadget_uuid128_to_eir
  <2>2. 17 % 256 = 17 /\ (2 + s1 + 18) % 256 = 20 + s1
    BY <2>1
  <2>3. Eir!AppendStructure(17, 6, 18)
    BY <1>3 DEF Eir!add_gadget_uuid128_to_eir, Eir!UuidLength,
                Eir!EIR_TYPE_GLOBAL_UUID, Eir!EIR_NUM_PAGED_SRVC
  <2>4. s3' = Append(<<NameAt>>, UuidAt) /\ s2' = 20 + s1 /\ s4' = 20 + s1 /\ s1' = s1
    BY <2>1, <2>2, <2>3 DEF Eir!AppendStructure, UuidAt
  <2>5. NameAt' = NameAt /\ UuidAt' = UuidAt
    BY <2>4 DEF NameAt, UuidAt
  <2>6. s3' = <<NameAt', UuidAt'>>
    BY <2>4, <2>5, AppendSecond, Zenon
  <2> QED
    BY <1>3, <2>1, <2>4, <2>6 DEF EirInv, Eir!add_gadget_uuid128_to_eir
<1>4. CASE Eir!add_gadget_pid_vid_to_eir
  <2>1. s1 \in 0..222 /\ s3 = <<NameAt, UuidAt>> /\ s2 = 20 + s1 /\ s4 = 20 + s1
    BY <1>4 DEF EirInv, Eir!add_gadget_pid_vid_to_eir
  <2>2. 11 % 256 = 11 /\ (20 + s1 + 13) % 256 = 33 + s1
    BY <2>1
  <2>3. Eir!AppendStructure(11, 255, 13)
    BY <1>4 DEF Eir!add_gadget_pid_vid_to_eir, Eir!ManufacturerLength,
                Eir!EIR_TYPE_MANU_DATA, Eir!EIR_PID_SIZE, Eir!EIR_VID_SIZE, Eir!EIR_UUID_SIZE
  <2>4. /\ s3' = Append(<<NameAt, UuidAt>>, ManufacturerAt)
        /\ s2' = 33 + s1 /\ s4' = 33 + s1 /\ s1' = s1
    BY <2>1, <2>2, <2>3 DEF Eir!AppendStructure, ManufacturerAt
  <2>5. NameAt' = NameAt /\ UuidAt' = UuidAt /\ ManufacturerAt' = ManufacturerAt
    BY <2>4 DEF NameAt, UuidAt, ManufacturerAt
  <2>6. s3' = <<NameAt', UuidAt', ManufacturerAt'>>
    BY <2>4, <2>5, AppendThird, Zenon
  <2> QED
    BY <1>4, <2>1, <2>4, <2>6 DEF EirInv, Eir!add_gadget_pid_vid_to_eir
<1> QED
  BY <1>1, <1>2, <1>3, <1>4 DEF Eir!Next

\* A reader meets the three structures, for every length of the name that
\* *p_len can count.
THEOREM EirReadsBack == ProgramSpec => []ReadsBack
<1> DEFINE Inv == program = "eir" => EirInv
<1>1. ProgramInit => Inv
  BY EirInit DEF ProgramInit
<1>2. Inv /\ [ProgramNext]_programVars => Inv'
  <2> SUFFICES ASSUME Inv, [ProgramNext]_programVars, program = "eir"
               PROVE  EirInv'
    BY OneProgram
  <2>1. CASE Eir!Next
    BY <2>1, EirStep
  <2>2. CASE UNCHANGED programVars
    BY <2>2 DEF EirInv, NameAt, UuidAt, ManufacturerAt, programVars
  <2> QED
    BY <2>1, <2>2 DEF ProgramNext, ProtoStep, SelfTestStep
<1>3. Inv => ReadsBack
  BY DEF ReadsBack, Eir!ReadsBack, EirInv, NameAt, UuidAt, ManufacturerAt, Eir!After,
         Eir!EIR_TYPE_FULL_NAME, Eir!EIR_TYPE_GLOBAL_UUID, Eir!EIR_TYPE_MANU_DATA
<1> QED
  BY <1>1, <1>2, <1>3, PTL DEF ProgramSpec

-----------------------------------------------------------------------------
(***************************************************************************)
(* createAdvertisingPacket and createProtocolVersionPacket: the bytes that *)
(* a scanner and an Echo device look at.                                   *)
(***************************************************************************)
Advertising == Announce!Flags \o Announce!ServiceUuid \o Announce!ServiceData
VersionPacket ==
    Announce!Version \o Announce!Zeros(20 - Len(Announce!Version))

LEMMA FourBytes ==
    ASSUME NEW S, NEW a \in S, NEW b \in S, NEW c \in S, NEW d \in S
    PROVE  /\ <<a, b>> \o <<c, d>> \in Seq(S) /\ Len(<<a, b>> \o <<c, d>>) = 4
           /\ (<<a, b>> \o <<c, d>>)[1] = a /\ (<<a, b>> \o <<c, d>>)[2] = b
           /\ (<<a, b>> \o <<c, d>>)[3] = c /\ (<<a, b>> \o <<c, d>>)[4] = d
<1>1. <<a, b>> \in Seq(S) /\ <<c, d>> \in Seq(S)
  OBVIOUS
<1> QED
  BY <1>1, ConcatProperties

LEMMA LittleEndianNames ==
    /\ Announce!LittleEndian(Announce!SERVICE_UUID) = <<3, 254>>
    /\ Announce!LittleEndian(Announce!VENDOR_ID) = <<113, 1>>
<1>1. 65027 % 256 = 3 /\ 65027 \div 256 = 254 /\ 369 % 256 = 113 /\ 369 \div 256 = 1
  OBVIOUS
<1> QED
  BY <1>1 DEF Announce!LittleEndian, Announce!SERVICE_UUID, Announce!VENDOR_ID

LEMMA ZerosAreBytes ==
    ASSUME NEW n \in Nat
    PROVE  Announce!Zeros(n) \in Seq(0..255) /\ Len(Announce!Zeros(n)) = n
  BY DEF Announce!Zeros

LEMMA AdvertisingBytes ==
    /\ Advertising \in Seq(0..255) /\ Len(Advertising) = 31
    /\ Advertising[1] = 2 /\ Advertising[2] = 1
    /\ Advertising[4] = 3 /\ Advertising[5] = 3
    /\ Advertising[6] = 3 /\ Advertising[7] = 254
    /\ Advertising[8] = 23 /\ Advertising[9] = 22
    /\ Advertising[10] = 3 /\ Advertising[11] = 254
<1> DEFINE B == 0..255
           a == <<3, 3>> \o <<3, 254>>
           b == <<23, 22>> \o <<3, 254>>
           first == <<2, 1, 6>>
           vendor == <<113, 1>>
           none == <<0, 255>>
           zeros == Announce!Zeros(16)
           c == b \o vendor
           d == c \o none
           e == d \o zeros
           f == first \o a
           g == f \o e
<1>1. Advertising = f \o e
  BY LittleEndianNames, Zenon DEF Advertising, Announce!Flags, Announce!ServiceUuid,
     Announce!ServiceData, Announce!BLE_AD_TYPE, Announce!ServiceDataLength
<1>2. /\ a \in Seq(B) /\ Len(a) = 4 /\ a[1] = 3 /\ a[2] = 3 /\ a[3] = 3 /\ a[4] = 254
      /\ b \in Seq(B) /\ Len(b) = 4 /\ b[1] = 23 /\ b[2] = 22 /\ b[3] = 3 /\ b[4] = 254
  BY FourBytes
<1>3. /\ vendor \in Seq(B) /\ Len(vendor) = 2
      /\ none \in Seq(B) /\ Len(none) = 2
      /\ first \in Seq(B) /\ Len(first) = 3 /\ first[1] = 2 /\ first[2] = 1
  OBVIOUS
<1>4. zeros \in Seq(B) /\ Len(zeros) = 16
  BY ZerosAreBytes
<1> HIDE DEF a, b, B, first, vendor, none, zeros
<1>5. c \in Seq(B) /\ Len(c) = 6 /\ \A i \in 1..4 : c[i] = b[i]
  <2>0. b \in Seq(B) /\ vendor \in Seq(B)
    BY <1>2, <1>3
  <2>1. /\ c \in Seq(B) /\ Len(c) = Len(b) + Len(vendor)
        /\ \A i \in 1..Len(b) : (c)[i] = b[i]
        /\ \A i \in 1..Len(vendor) : (c)[Len(b) + i] = vendor[i]
    BY <2>0, Joined, SMT
  <2> HIDE DEF c
  <2> QED
    BY <2>1, <1>2, <1>3
<1> HIDE DEF c
<1>6. d \in Seq(B) /\ Len(d) = 8 /\ \A i \in 1..4 : d[i] = b[i]
  <2>0. c \in Seq(B) /\ none \in Seq(B)
    BY <1>5, <1>3
  <2>1. /\ d \in Seq(B) /\ Len(d) = Len(c) + Len(none)
        /\ \A i \in 1..Len(c) : (d)[i] = c[i]
        /\ \A i \in 1..Len(none) : (d)[Len(c) + i] = none[i]
    BY <2>0, Joined, SMT
  <2> HIDE DEF d
  <2> QED
    BY <2>1, <1>5, <1>3
<1> HIDE DEF d
<1>7. e \in Seq(B) /\ Len(e) = 24 /\ \A i \in 1..4 : e[i] = b[i]
  <2>0. d \in Seq(B) /\ zeros \in Seq(B)
    BY <1>6, <1>4
  <2>1. /\ e \in Seq(B) /\ Len(e) = Len(d) + Len(zeros)
        /\ \A i \in 1..Len(d) : (e)[i] = d[i]
        /\ \A i \in 1..Len(zeros) : (e)[Len(d) + i] = zeros[i]
    BY <2>0, Joined, SMT
  <2> HIDE DEF e
  <2> QED
    BY <2>1, <1>6, <1>4, SMTT(60)
<1> HIDE DEF e
<1>8. /\ f \in Seq(B) /\ Len(f) = 7 /\ f[1] = 2 /\ f[2] = 1
      /\ \A i \in 1..4 : f[3 + i] = a[i]
  <2>0. first \in Seq(B) /\ a \in Seq(B)
    BY <1>2, <1>3
  <2>1. /\ f \in Seq(B) /\ Len(f) = Len(first) + Len(a)
        /\ \A i \in 1..Len(first) : (f)[i] = first[i]
        /\ \A i \in 1..Len(a) : (f)[Len(first) + i] = a[i]
    BY <2>0, Joined, SMT
  <2> HIDE DEF f
  <2> QED
    BY <2>1, <1>2, <1>3
<1> HIDE DEF f
<1>9. /\ g \in Seq(B) /\ Len(g) = 31
      /\ \A i \in 1..7 : g[i] = f[i]
      /\ \A i \in 1..4 : g[7 + i] = b[i]
  <2>0. f \in Seq(B) /\ e \in Seq(B)
    BY <1>7, <1>8
  <2>1. /\ g \in Seq(B) /\ Len(g) = Len(f) + Len(e)
        /\ \A i \in 1..Len(f) : g[i] = f[i]
        /\ \A i \in 1..Len(e) : g[Len(f) + i] = e[i]
    BY <2>0, Joined, SMT
  <2> HIDE DEF g
  <2>2. g \in Seq(B) /\ Len(g) = 7 + 24
        /\ (\A i \in 1..7 : g[i] = f[i]) /\ (\A i \in 1..24 : g[7 + i] = e[i])
    BY <2>1, <1>7, <1>8, Zenon
  <2>3. \A i \in 1..4 : i \in 1..24
    OBVIOUS
  <2>4. \A i \in 1..4 : g[7 + i] = b[i]
    BY <2>2, <2>3, <1>7, Zenon
  <2> QED
    BY <2>2, <2>4
<1>10. /\ Advertising \in Seq(B) /\ Len(Advertising) = 31
       /\ \A i \in 1..7 : Advertising[i] = f[i]
       /\ \A i \in 1..4 : Advertising[7 + i] = b[i]
  BY <1>1, <1>9, Zenon
<1>11. /\ f[3 + 1] = a[1] /\ f[3 + 2] = a[2] /\ f[3 + 3] = a[3] /\ f[3 + 4] = a[4]
       /\ Advertising[7 + 1] = b[1] /\ Advertising[7 + 2] = b[2]
       /\ Advertising[7 + 3] = b[3] /\ Advertising[7 + 4] = b[4]
  BY <1>8, <1>10
<1> QED
  BY <1>2, <1>8, <1>10, <1>11 DEF B

(***************************************************************************)
(* The scanner: after the flags it is at 3, after the UUID at 7, after the *)
(* data of the service where the packet ends.                              *)
(***************************************************************************)
FlagsRead == SubSeq(Advertising, 2, 3)
UuidRead == SubSeq(Advertising, 5, 7)
DataRead == SubSeq(Advertising, 9, 31)

ReadOne == <<FlagsRead>>
ReadTwo == <<FlagsRead, UuidRead>>
ReadAll == <<FlagsRead, UuidRead, DataRead>>

AtFlags == s4 = 0 /\ s5 = <<>>
AtUuid == s4 = 3 /\ s5 = ReadOne
AtData == s4 = 7 /\ s5 = ReadTwo
AtEnd == s4 = 31 /\ s5 = ReadAll

Between == AtFlags \/ AtUuid \/ AtData \/ AtEnd

Word(n) == n \in Nat /\ n < 65536

AnnounceInv ==
    /\ Word(s1) /\ Word(s2)
    /\ \/ stage = "advertise" /\ AtFlags
       \/ stage = "scan" /\ s3 = Advertising /\ Between
       \/ stage = "version" /\ s3 = Advertising /\ AtEnd
       \/ stage = "connect" /\ s3 = VersionPacket
       \/ stage = "done" /\ s6 = <<s1, s2>>
       \/ stage = "exited"

LEMMA AnnounceInit ==
    ASSUME Announce!Init
    PROVE  AnnounceInv
<1>1. Word(s1) /\ Word(s2)
  BY ProgramAssumptions DEF Announce!Init, Announce!ConfigAssumption, Word
<1>2. stage = "advertise" /\ AtFlags
  BY DEF Announce!Init, AtFlags
<1> QED
  BY <1>1, <1>2, Zenon DEF AnnounceInv

\* The next place that a scanner gets to, from each that it comes to.
LEMMA Places ==
    ASSUME s3 = Advertising
    PROVE  /\ s4 = 0 => s3[s4 + 1] = 2 /\ Announce!Readable
           /\ s4 = 3 => s3[s4 + 1] = 3 /\ Announce!Readable
           /\ s4 = 7 => s3[s4 + 1] = 23 /\ Announce!Readable
           /\ s4 = 31 => ~Announce!Readable
<1>1. Len(s3) = 31 /\ s3[1] = 2 /\ s3[4] = 3 /\ s3[8] = 23
  BY AdvertisingBytes, Zenon
<1>2. CASE s4 = 0
  BY <1>1, <1>2 DEF Announce!Readable
<1>3. CASE s4 = 3
  BY <1>1, <1>3 DEF Announce!Readable
<1>4. CASE s4 = 7
  BY <1>1, <1>4 DEF Announce!Readable
<1>5. CASE s4 = 31
  BY <1>1, <1>5 DEF Announce!Readable
<1> QED
  BY <1>2, <1>3, <1>4, <1>5, Zenon

LEMMA SameReading ==
    ASSUME TRUE
    PROVE  /\ Advertising' = Advertising
           /\ FlagsRead' = FlagsRead /\ UuidRead' = UuidRead /\ DataRead' = DataRead
           /\ ReadOne' = ReadOne /\ ReadTwo' = ReadTwo /\ ReadAll' = ReadAll
<1>1. Advertising' = Advertising
  OBVIOUS
<1>2. FlagsRead' = FlagsRead /\ UuidRead' = UuidRead /\ DataRead' = DataRead
  BY <1>1, Zenon DEF FlagsRead, UuidRead, DataRead
<1> QED
  BY <1>1, <1>2, Zenon DEF ReadOne, ReadTwo, ReadAll

LEMMA ScanFlags ==
    ASSUME s3 = Advertising, AtFlags, Announce!ScanStructure
    PROVE  AtUuid'
<1>1. s3[s4 + 1] = 2 /\ s4 = 0 /\ s5 = <<>>
  BY Places, Zenon DEF AtFlags
<1>2. s4' = s4 + 1 + s3[s4 + 1]
      /\ s5' = Append(s5, SubSeq(s3, s4 + 2, s4 + 1 + s3[s4 + 1]))
  BY DEF Announce!ScanStructure
<1>3. s4 + 2 = 2 /\ s4 + 1 + s3[s4 + 1] = 3
  BY <1>1
<1>4. s4' = 3 /\ s5' = Append(<<>>, FlagsRead)
  BY <1>1, <1>2, <1>3, Zenon DEF FlagsRead
<1>5. Append(<<>>, FlagsRead) = <<FlagsRead>>
  OBVIOUS
<1> QED
  BY <1>4, <1>5, SameReading, Zenon DEF AtUuid, ReadOne

LEMMA ScanUuid ==
    ASSUME s3 = Advertising, AtUuid, Announce!ScanStructure
    PROVE  AtData'
<1>1. s3[s4 + 1] = 3 /\ s4 = 3 /\ s5 = ReadOne
  BY Places, Zenon DEF AtUuid
<1>2. s4' = s4 + 1 + s3[s4 + 1]
      /\ s5' = Append(s5, SubSeq(s3, s4 + 2, s4 + 1 + s3[s4 + 1]))
  BY DEF Announce!ScanStructure
<1>3. s4 + 2 = 5 /\ s4 + 1 + s3[s4 + 1] = 7
  BY <1>1
<1>4. s4' = 7 /\ s5' = Append(<<FlagsRead>>, UuidRead)
  BY <1>1, <1>2, <1>3, Zenon DEF UuidRead, ReadOne
<1>5. Append(<<FlagsRead>>, UuidRead) = <<FlagsRead, UuidRead>>
  BY AppendSecond, Zenon
<1> QED
  BY <1>4, <1>5, SameReading, Zenon DEF AtData, ReadTwo

LEMMA ScanData ==
    ASSUME s3 = Advertising, AtData, Announce!ScanStructure
    PROVE  AtEnd'
<1>1. s3[s4 + 1] = 23 /\ s4 = 7 /\ s5 = ReadTwo
  BY Places, Zenon DEF AtData
<1>2. s4' = s4 + 1 + s3[s4 + 1]
      /\ s5' = Append(s5, SubSeq(s3, s4 + 2, s4 + 1 + s3[s4 + 1]))
  BY DEF Announce!ScanStructure
<1>3. s4 + 2 = 9 /\ s4 + 1 + s3[s4 + 1] = 31
  BY <1>1
<1>4. s4' = 31 /\ s5' = Append(<<FlagsRead, UuidRead>>, DataRead)
  BY <1>1, <1>2, <1>3, Zenon DEF DataRead, ReadTwo
<1>5. Append(<<FlagsRead, UuidRead>>, DataRead) = <<FlagsRead, UuidRead, DataRead>>
  BY AppendThird, Zenon
<1> QED
  BY <1>4, <1>5, SameReading, Zenon DEF AtEnd, ReadAll

LEMMA VersionNumbers ==
    ASSUME Word(s1), Word(s2), s3 = VersionPacket
    PROVE  256 * s3[5] + s3[6] = s1 /\ 256 * s3[7] + s3[8] = s2
<1> DEFINE B == 0..255
           identifier == Announce!BigEndian(Announce!PROTOCOL_IDENTIFIER)
           version == <<3, 0>>
           mtu == Announce!BigEndian(s1)
           size == Announce!BigEndian(s2)
           a == identifier \o version
           b == a \o mtu
           c == b \o size
           zeros == Announce!Zeros(20 - Len(c))
           d == c \o zeros
<1>1. s3 = d
  BY Zenon DEF VersionPacket, Announce!Version
<1>2. /\ mtu \in Seq(B) /\ Len(mtu) = 2 /\ 256 * mtu[1] + mtu[2] = s1
      /\ size \in Seq(B) /\ Len(size) = 2 /\ 256 * size[1] + size[2] = s2
  <2> DEFINE high(n) == n \div 256
             low(n) == n % 256
  <2>1. /\ high(s1) \in B /\ low(s1) \in B /\ 256 * high(s1) + low(s1) = s1
        /\ high(s2) \in B /\ low(s2) \in B /\ 256 * high(s2) + low(s2) = s2
    BY TwoByteNumber DEF Word
  <2>2. mtu = <<high(s1), low(s1)>> /\ size = <<high(s2), low(s2)>>
    BY Zenon DEF Announce!BigEndian
  <2> HIDE DEF high, low, B, mtu, size
  <2> QED
    BY <2>1, <2>2
<1>3. /\ identifier \in Seq(B) /\ Len(identifier) = 2
      /\ version \in Seq(B) /\ Len(version) = 2
  BY DEF Announce!BigEndian, Announce!PROTOCOL_IDENTIFIER
<1> HIDE DEF B, identifier, version, mtu, size
<1>4. a \in Seq(B) /\ Len(a) = 4
  <2>1. a \in Seq(B) /\ Len(a) = Len(identifier) + Len(version)
    BY <1>3, Joined, Zenon
  <2> HIDE DEF a
  <2> QED
    BY <2>1, <1>3
<1> HIDE DEF a
<1>5. b \in Seq(B) /\ Len(b) = 6 /\ b[5] = mtu[1] /\ b[6] = mtu[2]
  <2>0. a \in Seq(B) /\ mtu \in Seq(B)
    BY <1>2, <1>4
  <2>1. /\ b \in Seq(B) /\ Len(b) = Len(a) + Len(mtu)
        /\ \A i \in 1..Len(mtu) : b[Len(a) + i] = mtu[i]
    BY <2>0, Joined, SMT
  <2> HIDE DEF b
  <2>2. b \in Seq(B) /\ Len(b) = 6 /\ b[4 + 1] = mtu[1] /\ b[4 + 2] = mtu[2]
    BY <2>1, <1>2, <1>4
  <2> QED
    BY <2>2
<1> HIDE DEF b
<1>6. c \in Seq(B) /\ Len(c) = 8 /\ c[7] = size[1] /\ c[8] = size[2]
      /\ c[5] = b[5] /\ c[6] = b[6]
  <2>0. b \in Seq(B) /\ size \in Seq(B)
    BY <1>2, <1>5
  <2>1. /\ c \in Seq(B) /\ Len(c) = Len(b) + Len(size)
        /\ \A i \in 1..Len(b) : c[i] = b[i]
        /\ \A i \in 1..Len(size) : c[Len(b) + i] = size[i]
    BY <2>0, Joined, SMT
  <2> HIDE DEF c
  <2>2. /\ c \in Seq(B) /\ Len(c) = 8 /\ c[6 + 1] = size[1] /\ c[6 + 2] = size[2]
        /\ c[5] = b[5] /\ c[6] = b[6]
    BY <2>1, <1>2, <1>5
  <2> QED
    BY <2>2
<1>7. zeros \in Seq(B)
  <2>1. 20 - Len(c) \in Nat
    BY <1>6
  <2> QED
    BY <2>1, ZerosAreBytes, Zenon DEF B
<1> HIDE DEF c, zeros
<1>8. \A i \in 1..Len(c) : d[i] = c[i]
  <2>1. c \in Seq(B)
    BY <1>6
  <2> QED
    BY <2>1, <1>7, Joined, SMT
<1> HIDE DEF d
<1>9. d[5] = c[5] /\ d[6] = c[6] /\ d[7] = c[7] /\ d[8] = c[8]
  BY <1>6, <1>8
<1>10. s3[5] = mtu[1] /\ s3[6] = mtu[2] /\ s3[7] = size[1] /\ s3[8] = size[2]
  BY <1>1, <1>5, <1>6, <1>9
<1> QED
  BY <1>2, <1>10, Zenon

LEMMA WhatIsRead ==
    /\ FlagsRead[1] = 1 /\ UuidRead[1] = 3 /\ DataRead[1] = 22
    /\ Tail(UuidRead) = SubSeq(DataRead, 2, 3)
<1> DEFINE A == Advertising
<1>1. /\ A \in Seq(0..255) /\ Len(A) = 31
      /\ A[2] = 1 /\ A[5] = 3 /\ A[9] = 22
      /\ A[6] = A[10] /\ A[7] = A[11]
  BY AdvertisingBytes
<1> HIDE DEF A
<1> DEFINE f == SubSeq(A, 2, 3)
           u == SubSeq(A, 5, 7)
           d == SubSeq(A, 9, 31)
<1>2. /\ f[1] = A[2]
      /\ u \in Seq(0..255) /\ Len(u) = 3 /\ u[1] = A[5] /\ u[2] = A[6] /\ u[3] = A[7]
      /\ d \in Seq(0..255) /\ Len(d) = 23 /\ d[1] = A[9] /\ d[2] = A[10] /\ d[3] = A[11]
  <2>1. /\ 2 \in 1..Len(A) /\ 3 \in 2..Len(A) /\ 5 \in 1..Len(A) /\ 7 \in 5..Len(A)
        /\ 9 \in 1..Len(A) /\ 31 \in 9..Len(A) /\ A \in Seq(0..255)
    BY <1>1
  <2>2. \A i \in 1..(3 - 2 + 1) : f[i] = A[2 + i - 1]
    BY <2>1, Piece, ZenonT(60)
  <2>3. u \in Seq(0..255) /\ Len(u) = 7 - 5 + 1
        /\ \A i \in 1..(7 - 5 + 1) : u[i] = A[5 + i - 1]
    BY <2>1, Piece, ZenonT(60)
  <2>4. d \in Seq(0..255) /\ Len(d) = 31 - 9 + 1
        /\ \A i \in 1..(31 - 9 + 1) : d[i] = A[9 + i - 1]
    BY <2>1, Piece, ZenonT(60)
  <2> HIDE DEF f, u, d
  <2>5. f[1] = A[2 + 1 - 1]
    BY <2>2
  <2>6. u[1] = A[5 + 1 - 1] /\ u[2] = A[5 + 2 - 1] /\ u[3] = A[5 + 3 - 1]
    BY <2>3
  <2>7. d[1] = A[9 + 1 - 1] /\ d[2] = A[9 + 2 - 1] /\ d[3] = A[9 + 3 - 1]
    BY <2>4
  <2> QED
    BY <2>3, <2>4, <2>5, <2>6, <2>7
<1> HIDE DEF f, u, d
<1> DEFINE x == Tail(u)
           y == SubSeq(d, 2, 3)
<1>3. x \in Seq(0..255) /\ Len(x) = 2 /\ x[1] = A[6] /\ x[2] = A[7]
  <2>1. u # <<>>
    <3>1. Len(u) = 3
      BY <1>2, Zenon
    <3> QED
      BY <3>1
  <2>2. x \in Seq(0..255) /\ Len(x) = Len(u) - 1 /\ \A i \in 1..Len(x) : x[i] = u[i + 1]
    BY <1>2, <2>1, HeadTailProperties
  <2> HIDE DEF x
  <2>3. x[1] = u[1 + 1] /\ x[2] = u[2 + 1] /\ Len(x) = 2
    BY <2>2, <1>2
  <2> QED
    BY <2>2, <2>3, <1>2
<1>4. y \in Seq(0..255) /\ Len(y) = 2 /\ y[1] = A[10] /\ y[2] = A[11]
  <2>1. 2 \in 1..Len(d) /\ 3 \in 2..Len(d) /\ d \in Seq(0..255)
    BY <1>2
  <2>2. y \in Seq(0..255) /\ Len(y) = 3 - 2 + 1
        /\ \A i \in 1..(3 - 2 + 1) : y[i] = d[2 + i - 1]
    BY <2>1, Piece, Zenon
  <2> HIDE DEF y
  <2>3. y[1] = d[2 + 1 - 1] /\ y[2] = d[2 + 2 - 1]
    BY <2>2
  <2> QED
    BY <2>2, <2>3, <1>2
<1>5. x = y
  <2> HIDE DEF x, y
  <2>1. \A i \in 1..Len(x) : x[i] = y[i]
    BY <1>1, <1>3, <1>4
  <2> QED
    BY <1>3, <1>4, <2>1, SeqEqual
<1>6. Tail(u) = SubSeq(d, 2, 3)
  BY <1>5
<1> QED
  BY <1>1, <1>2, <1>6, Zenon DEF f, u, d, A, FlagsRead, UuidRead, DataRead

LEMMA AnnounceStep ==
    ASSUME AnnounceInv, Announce!Next
    PROVE  AnnounceInv'
<1>1. Word(s1) /\ Word(s2) /\ s1' = s1 /\ s2' = s2
  <2>1. Word(s1) /\ Word(s2)
    BY Zenon DEF AnnounceInv
  <2>2. CASE Announce!createAdvertisingPacket
    BY <2>1, <2>2 DEF Announce!createAdvertisingPacket, Announce!config
  <2>3. CASE Announce!ScanStructure
    BY <2>1, <2>3 DEF Announce!ScanStructure, Announce!config
  <2>4. CASE Announce!EndScan
    BY <2>1, <2>4 DEF Announce!EndScan, Announce!config
  <2>5. CASE Announce!createProtocolVersionPacket
    BY <2>1, <2>5 DEF Announce!createProtocolVersionPacket, Announce!config
  <2>6. CASE Announce!Connect
    BY <2>1, <2>6 DEF Announce!Connect, Announce!config
  <2> QED
    BY <2>2, <2>3, <2>4, <2>5, <2>6, Zenon DEF Announce!Next
<1>2. CASE Announce!createAdvertisingPacket
  <2>1. stage = "advertise" /\ AtFlags
    BY <1>2 DEF AnnounceInv, Announce!createAdvertisingPacket
  <2>2. s4' = s4 /\ s5' = s5
    BY <1>2 DEF Announce!createAdvertisingPacket
  <2>3. stage' = "exited" \/ (stage' = "scan" /\ s3' = Advertising)
    BY <1>2, Zenon DEF Announce!createAdvertisingPacket, Announce!Exit, Advertising
  <2> QED
    BY <1>1, <2>1, <2>2, <2>3, SameReading, Zenon DEF AnnounceInv, Between, AtFlags
<1>3. CASE Announce!ScanStructure
  <2>1. stage = "scan" /\ s3 = Advertising /\ Between /\ Announce!Readable
    BY <1>3 DEF AnnounceInv, Announce!ScanStructure
  <2>2. stage' = stage /\ s3' = s3
    BY <1>3 DEF Announce!ScanStructure
  <2>3. ~AtEnd
    BY <2>1, Places, Zenon DEF AtEnd
  <2>4. AtUuid' \/ AtData' \/ AtEnd'
    BY <1>3, <2>1, <2>3, ScanFlags, ScanUuid, ScanData, Zenon DEF Between
  <2> QED
    BY <1>1, <2>1, <2>2, <2>4, SameReading, Zenon DEF AnnounceInv, Between
<1>4. CASE Announce!EndScan
  <2>1. stage = "scan" /\ s3 = Advertising /\ Between /\ ~Announce!Readable
    BY <1>4 DEF AnnounceInv, Announce!EndScan
  <2>2. stage' = "version" /\ s3' = s3 /\ s4' = s4 /\ s5' = s5
    BY <1>4 DEF Announce!EndScan
  <2>3. AtEnd
    BY <2>1, Places, Zenon DEF Between, AtFlags, AtUuid, AtData
  <2> QED
    BY <1>1, <2>1, <2>2, <2>3, SameReading, Zenon DEF AnnounceInv, AtEnd
<1>5. CASE Announce!createProtocolVersionPacket
  <2>1. stage' = "exited" \/ (stage' = "connect" /\ s3' = VersionPacket)
    BY <1>5, Zenon DEF Announce!createProtocolVersionPacket, Announce!Exit, VersionPacket,
       Announce!PROTOCOL_VERSION_PACKET_SIZE
  <2>2. VersionPacket' = VersionPacket
    BY <1>1, Zenon DEF VersionPacket, Announce!Version
  <2> QED
    BY <1>1, <2>1, <2>2, Zenon DEF AnnounceInv
<1>6. CASE Announce!Connect
  <2>1. s3 = VersionPacket /\ stage' = "done"
    BY <1>6 DEF AnnounceInv, Announce!Connect
  <2>2. s6' = <<256 * s3[5] + s3[6], 256 * s3[7] + s3[8]>>
    BY <1>6 DEF Announce!Connect
  <2>3. 256 * s3[5] + s3[6] = s1 /\ 256 * s3[7] + s3[8] = s2
    BY <2>1, VersionNumbers, Zenon DEF AnnounceInv
  <2> QED
    BY <1>1, <2>1, <2>2, <2>3, ZenonT(60) DEF AnnounceInv
<1> QED
  BY <1>2, <1>3, <1>4, <1>5, <1>6, Zenon DEF Announce!Next

LEMMA AnnounceRead ==
    ASSUME AnnounceInv
    PROVE  Announce!ServiceIsFound /\ Announce!ConfigIsTold
<1>1. ASSUME stage = "version"
      PROVE  /\ s4 = 31 /\ Len(s3) = 31
             /\ [s \in DOMAIN s5 |-> s5[s][1]] = <<1, 3, 22>>
             /\ Tail(s5[2]) = SubSeq(s5[3], 2, 3)
  <2>1. s3 = Advertising /\ s4 = 31 /\ s5 = ReadAll
    BY <1>1 DEF AnnounceInv, AtEnd
  <2>2. s5 = <<FlagsRead, UuidRead, DataRead>>
    BY <2>1, Zenon DEF ReadAll
  <2>3. DOMAIN s5 = 1..3 /\ s5[1] = FlagsRead /\ s5[2] = UuidRead /\ s5[3] = DataRead
    BY <2>2
  <2>4. [s \in DOMAIN s5 |-> s5[s][1]] = <<1, 3, 22>>
    <3>1. s5[1][1] = 1 /\ s5[2][1] = 3 /\ s5[3][1] = 22
      BY <2>3, WhatIsRead, Zenon
    <3>2. [s \in 1..3 |-> s5[s][1]] = <<1, 3, 22>>
      BY <3>1
    <3> QED
      BY <2>3, <3>2, Zenon
  <2>5. Tail(s5[2]) = SubSeq(s5[3], 2, 3) /\ Len(s3) = 31
    BY <2>1, <2>3, WhatIsRead, AdvertisingBytes, Zenon
  <2> QED
    BY <2>1, <2>4, <2>5, Zenon
<1>2. ASSUME stage = "done"
      PROVE  s6 = <<s1, s2>>
  BY <1>2 DEF AnnounceInv
<1> QED
  BY <1>1, <1>2 DEF Announce!ServiceIsFound, Announce!ConfigIsTold,
     Announce!ADV_DATA_LEN, Announce!config

(***************************************************************************)
(* THEOREM.  A scanner finds the service in the advertising data, and the  *)
(* Echo device is told the numbers of config.h, whatever they are (tx.c).  *)
(***************************************************************************)
THEOREM AnnouncementsAreRead == ProgramSpec => []AnnouncementsRead
<1> DEFINE Inv == program = "announce" => AnnounceInv
<1>1. ProgramInit => Inv
  BY AnnounceInit DEF ProgramInit
<1>2. Inv /\ [ProgramNext]_programVars => Inv'
  <2> SUFFICES ASSUME Inv, [ProgramNext]_programVars, program' = "announce"
               PROVE  AnnounceInv'
    OBVIOUS
  <2>1. program = "announce" /\ AnnounceInv
    BY OneProgram
  <2>2. CASE UNCHANGED programVars
    <3>1. UNCHANGED <<s1, s2, s3, s4, s5, s6, stage>>
      BY <2>2 DEF programVars
    <3> QED
      BY <2>1, <3>1, Zenon DEF AnnounceInv, Between, AtFlags, AtUuid, AtData, AtEnd,
         VersionPacket, Announce!Version
  <2>3. CASE Announce!Next
    BY <2>1, <2>3, AnnounceStep
  <2> QED
    BY <2>1, <2>2, <2>3 DEF ProgramNext, ProtoStep, SelfTestStep
<1>3. Inv => AnnouncementsRead
  BY AnnounceRead DEF AnnouncementsRead
<1> QED
  BY <1>1, <1>2, <1>3, PTL DEF ProgramSpec

-----------------------------------------------------------------------------
(***************************************************************************)
(* The sums of SdpDb.                                                      *)
(***************************************************************************)
Plus(a, b) == a + b
PlusSize(sum, a) == sum + a.size

Adding == INSTANCE SharedLemmas WITH Op <- Plus
Sizing == INSTANCE SharedLemmas WITH Op <- PlusSize

LEMMA SumIs ==
    ASSUME NEW seq
    PROVE  Sdp!Sum(seq) = Adding!Fold(0, seq)
  BY DEF Sdp!Sum, Adding!Fold, Plus, Sdp!FoldLeft, Sdp!MapThenFoldSet, Sdp!Max,
     Adding!FoldLeft, Adding!MapThenFoldSet, Adding!Max

LEMMA SizeIs ==
    ASSUME NEW seq
    PROVE  Sdp!Size(seq) = Sizing!Fold(0, seq)
  BY DEF Sdp!Size, Sizing!Fold, PlusSize, Sdp!FoldLeft, Sdp!MapThenFoldSet, Sdp!Max,
     Sizing!FoldLeft, Sizing!MapThenFoldSet, Sizing!Max

LEMMA SumSteps ==
    ASSUME NEW X, NEW seq \in Seq(X)
    PROVE  /\ Sdp!Sum(<<>>) = 0
           /\ \A x \in X : Sdp!Sum(Append(seq, x)) = Sdp!Sum(seq) + x
  BY SumIs, Adding!FoldNone, Adding!FoldOneMore DEF Plus

LEMMA SizeSteps ==
    ASSUME NEW X, NEW seq \in Seq(X)
    PROVE  /\ Sdp!Size(<<>>) = 0
           /\ \A x \in X : Sdp!Size(Append(seq, x)) = Sdp!Size(seq) + x.size
  BY SizeIs, Sizing!FoldNone, Sizing!FoldOneMore DEF PlusSize

LEMMA SumGrows ==
    ASSUME NEW X, NEW seq \in Seq(X), NEW k \in 1..Len(seq)
    PROVE  Sdp!Sum(SubSeq(seq, 1, k)) = Sdp!Sum(SubSeq(seq, 1, k - 1)) + seq[k]
<1>1. /\ SubSeq(seq, 1, k) = Append(SubSeq(seq, 1, k - 1), seq[k])
      /\ SubSeq(seq, 1, k - 1) \in Seq(X) /\ seq[k] \in X
  OBVIOUS
<1> QED
  BY <1>1, SumSteps, Zenon

LEMMA SizeGrows ==
    ASSUME NEW X, NEW seq \in Seq(X), NEW k \in 1..Len(seq)
    PROVE  Sdp!Size(SubSeq(seq, 1, k)) = Sdp!Size(SubSeq(seq, 1, k - 1)) + seq[k].size
<1>1. /\ SubSeq(seq, 1, k) = Append(SubSeq(seq, 1, k - 1), seq[k])
      /\ SubSeq(seq, 1, k - 1) \in Seq(X) /\ seq[k] \in X
  OBVIOUS
<1> QED
  BY <1>1, SizeSteps, Zenon

-----------------------------------------------------------------------------
\* The attributes of the records, by their sizes.
LEMMA AttributeSizes ==
    /\ Sdp!RECORD_HANDLE.size = 8 /\ Sdp!CLASS_ID.size = 8 /\ Sdp!CLASS_ID128.size = 22
    /\ Sdp!RFCOMM_PROTOCOL_DESC_LIST.size = 17 /\ Sdp!PROTOCOL_DESC_LIST.size = 18
    /\ Sdp!BROWSE_LIST.size = 8 /\ Sdp!PROFILE_DESC_LIST.size = 13
    /\ Sdp!TEXT_1(10).size = 15 /\ Sdp!TEXT_1(6).size = 11
    /\ \A name : Sdp!UINT2(name).size = 6 /\ Sdp!BOOLEAN1(name).size = 5
  BY DEF Sdp!Attribute, Sdp!RECORD_HANDLE, Sdp!CLASS_ID, Sdp!CLASS_ID128,
     Sdp!RFCOMM_PROTOCOL_DESC_LIST, Sdp!PROTOCOL_DESC_LIST, Sdp!BROWSE_LIST,
     Sdp!PROFILE_DESC_LIST, Sdp!TEXT_1, Sdp!UINT2, Sdp!BOOLEAN1

LEMMA SixOf ==
    ASSUME NEW a, NEW b, NEW c, NEW d, NEW e, NEW f
    PROVE  /\ <<a, b, c, d, e, f>> \in Seq({a, b, c, d, e, f})
           /\ Len(<<a, b, c, d, e, f>>) = 6
  OBVIOUS

LEMMA PortSizes ==
    /\ \E X : Sdp!SerialPort \in Seq(X)
    /\ Len(Sdp!SerialPort) = 6 /\ Sdp!Size(Sdp!SerialPort) = 69
<1> DEFINE s == Sdp!SerialPort
           P(k) == Sdp!Size(SubSeq(s, 1, k))
<1>1. Len(s) = 6 /\ \E X : s \in Seq(X)
  BY SixOf DEF Sdp!SerialPort
<1>2. /\ s[1].size = 8 /\ s[2].size = 8 /\ s[3].size = 17
      /\ s[4].size = 8 /\ s[5].size = 13 /\ s[6].size = 15
  BY AttributeSizes DEF Sdp!SerialPort
<1> HIDE DEF s
<1>3. SubSeq(s, 1, 0) = <<>> /\ SubSeq(s, 1, 6) = s
  BY <1>1
<1>4. P(0) = 0
  BY <1>1, <1>3, SizeSteps
<1>5. \A k \in 1..6 : P(k) = P(k - 1) + s[k].size
  BY <1>1, SizeGrows
<1> HIDE DEF P
<1>6. P(6) = 69
  BY <1>2, <1>4, <1>5
<1> QED
  BY <1>1, <1>3, <1>6 DEF s, P

LEMMA GadgetSizes ==
    /\ \E X : Sdp!GadgetUuid \in Seq(X)
    /\ Len(Sdp!GadgetUuid) = 4 /\ Sdp!Size(Sdp!GadgetUuid) = 59
<1> DEFINE s == Sdp!GadgetUuid
           P(k) == Sdp!Size(SubSeq(s, 1, k))
<1>1. Len(s) = 4 /\ \E X : s \in Seq(X)
  <2>1. \A a, b, c, d : <<a, b, c, d>> \in Seq({a, b, c, d}) /\ Len(<<a, b, c, d>>) = 4
    OBVIOUS
  <2> QED
    BY <2>1, Zenon DEF Sdp!GadgetUuid
<1>2. s[1].size = 8 /\ s[2].size = 22 /\ s[3].size = 18 /\ s[4].size = 11
  BY AttributeSizes DEF Sdp!GadgetUuid
<1> HIDE DEF s
<1>3. SubSeq(s, 1, 0) = <<>> /\ SubSeq(s, 1, 4) = s
  BY <1>1
<1>4. P(0) = 0
  BY <1>1, <1>3, SizeSteps
<1>5. \A k \in 1..4 : P(k) = P(k - 1) + s[k].size
  BY <1>1, SizeGrows
<1> HIDE DEF P
<1>6. P(4) = 59
  BY <1>2, <1>4, <1>5
<1> QED
  BY <1>1, <1>3, <1>6 DEF s, P

\* How many bytes of the record of the device are in front of an attribute.
Before(k) == Sdp!Size(SubSeq(Sdp!DeviceId, 1, k - 1))

LEMMA DeviceSizes ==
    /\ \E X : Sdp!DeviceId \in Seq(X)
    /\ Len(Sdp!DeviceId) = 9 /\ Sdp!Size(Sdp!DeviceId) = 69
    /\ Before(4) = 34 /\ Before(5) = 40 /\ Before(6) = 46 /\ Before(7) = 52
<1> DEFINE s == Sdp!DeviceId
           P(k) == Sdp!Size(SubSeq(s, 1, k))
<1>1. Len(s) = 9 /\ \E X : s \in Seq(X)
  <2>1. \A a, b, c, d, e, f, g, h, i :
           /\ <<a, b, c, d, e, f, g, h, i>> \in Seq({a, b, c, d, e, f, g, h, i})
           /\ Len(<<a, b, c, d, e, f, g, h, i>>) = 9
    OBVIOUS
  <2> QED
    BY <2>1, Zenon DEF Sdp!DeviceId
<1>2. /\ s[1].size = 8 /\ s[2].size = 8 /\ s[3].size = 18
      /\ s[4].size = 6 /\ s[5].size = 6 /\ s[6].size = 6
      /\ s[7].size = 6 /\ s[8].size = 5 /\ s[9].size = 6
  BY AttributeSizes DEF Sdp!DeviceId
<1> HIDE DEF s
<1>3. SubSeq(s, 1, 0) = <<>> /\ SubSeq(s, 1, 9) = s
  BY <1>1
<1>4. P(0) = 0
  BY <1>1, <1>3, SizeSteps
<1>5. \A k \in 1..9 : P(k) = P(k - 1) + s[k].size
  BY <1>1, SizeGrows
<1> HIDE DEF P
<1>6. P(3) = 34 /\ P(4) = 40 /\ P(5) = 46 /\ P(6) = 52 /\ P(9) = 69
  BY <1>2, <1>4, <1>5
<1>7. Before(4) = P(3) /\ Before(5) = P(4) /\ Before(6) = P(5) /\ Before(7) = P(6)
  BY DEF Before, P, s
<1> QED
  BY <1>1, <1>3, <1>6, <1>7 DEF s, P

LEMMA RecordsAre ==
    /\ DOMAIN Sdp!Records = 1..4 /\ Len(Sdp!Records) = 4
    /\ Sdp!Records[1] = Sdp!SerialPort /\ Sdp!Records[2] = Sdp!SerialPort
    /\ Sdp!Records[3] = Sdp!GadgetUuid /\ Sdp!Records[4] = Sdp!DeviceId
  BY DEF Sdp!Records, Sdp!Networking

LEMMA FunctionIsSequence ==
    ASSUME NEW S, NEW n \in Nat, NEW f \in [1..n -> S]
    PROVE  f \in Seq(S) /\ Len(f) = n
  OBVIOUS

LEMMA TableLength == Sdp!sdp_database_len = 277
<1> DEFINE s == [r \in DOMAIN Sdp!Records |-> Sdp!SequenceHeader1 + Sdp!Size(Sdp!Records[r])]
           P(k) == Sdp!Sum(SubSeq(s, 1, k))
<1>1. s[1] = 71 /\ s[2] = 71 /\ s[3] = 61 /\ s[4] = 71
  BY RecordsAre, PortSizes, GadgetSizes, DeviceSizes DEF Sdp!SequenceHeader1
<1>2. Len(s) = 4 /\ \E X : s \in Seq(X)
  <2>1. s = [r \in 1..4 |-> Sdp!SequenceHeader1 + Sdp!Size(Sdp!Records[r])]
    BY RecordsAre
  <2>2. \A r \in 1..4 : s[r] \in {71, 61}
    BY <1>1
  <2> HIDE DEF s
  <2>3. s \in [1..4 -> {71, 61}]
    BY <2>1, <2>2
  <2>4. PICK n \in Nat : n = 4
    OBVIOUS
  <2>5. PICK S : s \in [1..n -> S]
    BY <2>3, <2>4, Zenon
  <2>6. s \in Seq(S) /\ Len(s) = n
    BY <2>5, FunctionIsSequence, Zenon
  <2> QED
    BY <2>4, <2>6, Zenon
<1>3. Sdp!sdp_database_len = 3 + Sdp!Sum(s)
  BY DEF Sdp!sdp_database_len, Sdp!SequenceHeader2
<1> HIDE DEF s
<1>4. SubSeq(s, 1, 0) = <<>> /\ SubSeq(s, 1, 4) = s
  BY <1>2
<1>5. P(0) = 0
  BY <1>2, <1>4, SumSteps
<1>6. \A k \in 1..4 : P(k) = P(k - 1) + s[k]
  BY <1>2, SumGrows
<1> HIDE DEF P
<1>7. P(4) = 274
  BY <1>1, <1>5, <1>6
<1>8. Sdp!Sum(s) = 274
  BY <1>4, <1>7, Zenon DEF P
<1> QED
  BY <1>3, <1>8

LEMMA RecordsAt ==
    /\ Sdp!RecordAt(1) = 3 /\ Sdp!RecordAt(2) = 74 /\ Sdp!RecordAt(3) = 145
    /\ Sdp!RecordAt(4) = 206 /\ Sdp!RecordAt(5) = 277
<1> DEFINE s == [q \in 1..4 |-> Sdp!SequenceHeader1 + Sdp!SEQUENCE_1[q]]
           P(k) == Sdp!Sum(SubSeq(s, 1, k))
<1>1. s[1] = 71 /\ s[2] = 71 /\ s[3] = 61 /\ s[4] = 71
  BY DEF Sdp!SequenceHeader1, Sdp!SEQUENCE_1
<1>2. Len(s) = 4 /\ \E X : s \in Seq(X)
  <2>1. \A r \in 1..4 : s[r] \in {71, 61}
    BY <1>1
  <2>2. s \in [1..4 -> {71, 61}]
    BY <2>1
  <2> HIDE DEF s
  <2>3. PICK n \in Nat : n = 4
    OBVIOUS
  <2>4. PICK S : s \in [1..n -> S]
    BY <2>2, <2>3, Zenon
  <2>5. s \in Seq(S) /\ Len(s) = n
    BY <2>4, FunctionIsSequence, Zenon
  <2> QED
    BY <2>3, <2>5, Zenon
<1>3. ASSUME NEW r \in 1..5
      PROVE  Sdp!RecordAt(r) = 3 + P(r - 1)
  <2> DEFINE t == [q \in 1..(r - 1) |-> Sdp!SequenceHeader1 + Sdp!SEQUENCE_1[q]]
  <2>1. t = [q \in 1..(r - 1) |-> s[q]]
    OBVIOUS
  <2>2. Sdp!RecordAt(r) = 3 + Sdp!Sum(t)
    BY DEF Sdp!RecordAt, Sdp!SequenceHeader2
  <2> HIDE DEF s, t
  <2>3. SubSeq(s, 1, r - 1) = t
    BY <1>2, <2>1
  <2> QED
    BY <2>2, <2>3, Zenon
<1> HIDE DEF s
<1>4. SubSeq(s, 1, 0) = <<>>
  BY <1>2
<1>5. P(0) = 0
  BY <1>2, <1>4, SumSteps
<1>6. \A k \in 1..4 : P(k) = P(k - 1) + s[k]
  BY <1>2, SumGrows
<1> HIDE DEF P
<1>7. P(1) = 71 /\ P(2) = 142 /\ P(3) = 203 /\ P(4) = 274
  BY <1>1, <1>5, <1>6
<1> QED
  BY <1>3, <1>5, <1>7

LEMMA RecordEnds ==
    ASSUME NEW r \in 1..4
    PROVE  Sdp!AttributeAt(r, Len(Sdp!Records[r]) + 1) = Sdp!RecordAt(r + 1)
<1> DEFINE s == Sdp!Records[r]
<1>1. \E X : s \in Seq(X)
  BY RecordsAre, PortSizes, GadgetSizes, DeviceSizes
<1>2. Sdp!RecordAt(r + 1) = Sdp!RecordAt(r) + 2 + Sdp!Size(s)
  BY RecordsAre, RecordsAt, PortSizes, GadgetSizes, DeviceSizes
<1>3. Sdp!AttributeAt(r, Len(s) + 1)
        = Sdp!RecordAt(r) + 2 + Sdp!Size(SubSeq(s, 1, (Len(s) + 1) - 1))
  BY DEF Sdp!AttributeAt, Sdp!SequenceHeader1
<1> HIDE DEF s
<1>4. SubSeq(s, 1, (Len(s) + 1) - 1) = s
  BY <1>1
<1>5. Sdp!AttributeAt(r, Len(s) + 1) = Sdp!RecordAt(r + 1)
  BY <1>2, <1>3, <1>4, Zenon
<1> QED
  BY <1>5 DEF s

\* Where a peer looks for a value of the record of the device.
LEMMA ValuesAt ==
    /\ Sdp!Uint2(4, "SPECIFICATION_ID") = s1[246] * 256 + s1[247]
    /\ Sdp!Uint2(4, "VENDOR_ID") = s1[252] * 256 + s1[253]
    /\ Sdp!Uint2(4, "PRODUCT_ID") = s1[258] * 256 + s1[259]
    /\ Sdp!Uint2(4, "PRODUCT_VERSION") = s1[264] * 256 + s1[265]
<1> DEFINE Index(name) == CHOOSE i \in DOMAIN Sdp!Records[4] : Sdp!Records[4][i].name = name
           d == Sdp!Records[4]
<1>1. /\ d[1].name = "RECORD_HANDLE" /\ d[2].name = "CLASS_ID"
      /\ d[3].name = "PROTOCOL_DESC_LIST" /\ d[4].name = "SPECIFICATION_ID"
      /\ d[5].name = "VENDOR_ID" /\ d[6].name = "PRODUCT_ID"
      /\ d[7].name = "PRODUCT_VERSION" /\ d[8].name = "PRIMARY_RECORD"
      /\ d[9].name = "VENDOR_ID_SOURCE" /\ DOMAIN d = 1..9
  BY RecordsAre DEF Sdp!DeviceId, Sdp!Attribute, Sdp!RECORD_HANDLE, Sdp!CLASS_ID,
     Sdp!PROTOCOL_DESC_LIST, Sdp!UINT2, Sdp!BOOLEAN1
<1> HIDE DEF d
<1>2. /\ Index("SPECIFICATION_ID") = 4 /\ Index("VENDOR_ID") = 5
      /\ Index("PRODUCT_ID") = 6 /\ Index("PRODUCT_VERSION") = 7
  BY <1>1 DEF d
<1> HIDE DEF Index
<1> DEFINE Found(name, at) == Sdp!Uint2(4, name) = s1[at] * 256 + s1[at + 1]
<1>3. ASSUME NEW name, NEW a, Index(name) = a, Before(a) \in Nat, NEW at, at = 212 + Before(a)
      PROVE  Found(name, at)
  <2>1. Sdp!AttributeAt(4, a) = (Sdp!RecordAt(4) + 2) + Before(a)
    BY RecordsAre, Zenon DEF Sdp!AttributeAt, Before, Sdp!SequenceHeader1
  <2>2. Sdp!AttributeAt(4, a) + 4 = at
    BY <1>3, <2>1, RecordsAt
  <2>3. Sdp!Uint2(4, name) = s1[Sdp!AttributeAt(4, Index(name)) + 4] * 256
                                + s1[(Sdp!AttributeAt(4, Index(name)) + 4) + 1]
    BY RecordsAre, Zenon DEF Sdp!Uint2, Index
  <2>4. Sdp!Uint2(4, name) = s1[Sdp!AttributeAt(4, a) + 4] * 256
                                + s1[(Sdp!AttributeAt(4, a) + 4) + 1]
    BY <1>3, <2>3, Zenon
  <2> QED
    BY <2>2, <2>4, Zenon
<1> HIDE DEF Found
<1>4. Found("SPECIFICATION_ID", 246)
  BY <1>2, <1>3, DeviceSizes
<1>5. Found("VENDOR_ID", 252)
  BY <1>2, <1>3, DeviceSizes
<1>6. Found("PRODUCT_ID", 258)
  BY <1>2, <1>3, DeviceSizes
<1>7. Found("PRODUCT_VERSION", 264)
  BY <1>2, <1>3, DeviceSizes
<1> QED
  BY <1>4, <1>5, <1>6, <1>7 DEF Found

LEMMA TableEnds ==
    ASSUME NEW n \in Nat
    PROVE  Sdp!Cardinality(0..n - 1) = n
<1>1. Cardinality(0..n - 1) = n
  BY FS_Interval
<1>2. Sdp!Cardinality(0..n - 1) = Cardinality(0..n - 1)
  BY DEF Cardinality, Sdp!Cardinality
<1> QED
  BY <1>1, <1>2, Zenon

-----------------------------------------------------------------------------
(***************************************************************************)
(* The table as set_sdp_db leaves it.                                      *)
(***************************************************************************)
Positions == 0..Sdp!sdp_database_len - 1

\* The last ids, and what was there before them.
Table(database, p, v) ==
    /\ DOMAIN database = Positions
    /\ database[246] = 1 /\ database[247] = 3
    /\ database[252] = v \div 256 /\ database[253] = v % 256
    /\ database[258] = p \div 256 /\ database[259] = p % 256
    /\ database[264] = 0 /\ database[265] = 1

IsId(n) == n \in Nat /\ n < 65536

SdpInv == program = "sdp" => IsId(s2) /\ IsId(s3) /\ Table(s1, s2, s3)

LEMMA PositionsHas ==
    /\ 246 \in Positions /\ 247 \in Positions /\ 252 \in Positions /\ 253 \in Positions
    /\ 258 \in Positions /\ 259 \in Positions /\ 264 \in Positions /\ 265 \in Positions
<1>1. PICK n \in Nat : n = Sdp!sdp_database_len /\ n = 277
  BY TableLength
<1>2. \A i \in Nat : i < 277 => i \in Positions
  <2>1. \A i \in Nat : i < n => i \in 0..n - 1
    BY <1>1
  <2> QED
    BY <1>1, <2>1, Zenon DEF Positions
<1> QED
  BY <1>2

LEMMA SdpInit == ProgramInit => SdpInv
<1> SUFFICES ASSUME ProgramInit, program = "sdp"
             PROVE  IsId(s2) /\ IsId(s3) /\ Table(s1, s2, s3)
  BY DEF SdpInv
<1>1. Sdp!Init
  BY DEF ProgramInit
<1>2. /\ s1 = [i \in Positions |->
                 CASE i = 246 -> 1 [] i = 247 -> 3
                   [] i \in 252..253 -> 0 [] i \in 258..259 -> 0
                   [] i = 264 -> 0 [] i = 265 -> 1
                   [] OTHER -> -1]
      /\ s2 = 0 /\ s3 = 0
  BY <1>1 DEF Sdp!Init, Positions
<1>3. 0 \div 256 = 0 /\ 0 % 256 = 0
  OBVIOUS
<1>4. /\ DOMAIN s1 = Positions /\ s1[246] = 1 /\ s1[247] = 3
      /\ s1[252] = 0 /\ s1[253] = 0 /\ s1[258] = 0 /\ s1[259] = 0
      /\ s1[264] = 0 /\ s1[265] = 1
  BY <1>2, PositionsHas
<1> QED
  BY <1>2, <1>3, <1>4 DEF Table, IsId

\* What is stored where.
LEMMA PatchIs ==
    ASSUME NEW p, NEW v
    PROVE  /\ DOMAIN Sdp!Patch(p, v) = {252, 253, 258, 259}
           /\ Sdp!Patch(p, v)[252] = v \div 256 /\ Sdp!Patch(p, v)[253] = v % 256
           /\ Sdp!Patch(p, v)[258] = p \div 256 /\ Sdp!Patch(p, v)[259] = p % 256
  BY DEF Sdp!Patch

LEMMA SdpStep ==
    ASSUME SdpInv, [ProgramNext]_programVars
    PROVE  SdpInv'
<1> SUFFICES ASSUME program' = "sdp"
             PROVE  SdpInv'
  BY DEF SdpInv
<1>1. program = "sdp"
  BY OneProgram
<1>2. CASE UNCHANGED programVars
  BY <1>2 DEF SdpInv, programVars, Table
<1>3. ASSUME NEW p \in VendorAndProductIds, NEW v \in VendorAndProductIds, Sdp!set_sdp_db(p, v)
      PROVE  SdpInv'
  <2>1. IsId(p) /\ IsId(v)
    BY ProgramAssumptions DEF Sdp!IdsAssumption, IsId
  <2>2. DOMAIN s1 = Positions /\ s1[246] = 1 /\ s1[247] = 3 /\ s1[264] = 0 /\ s1[265] = 1
    BY <1>1 DEF SdpInv, Table
  <2>3. /\ s1' = [i \in Positions |->
                    IF i \in DOMAIN Sdp!Patch(p, v) THEN Sdp!Patch(p, v)[i] ELSE s1[i]]
        /\ s2' = p /\ s3' = v
    BY <1>3, <2>2 DEF Sdp!set_sdp_db
  <2>4. Table(s1', p, v)
    <3>1. PICK patch : patch = Sdp!Patch(p, v) /\ DOMAIN patch = {252, 253, 258, 259}
                       /\ patch[252] = v \div 256 /\ patch[253] = v % 256
                       /\ patch[258] = p \div 256 /\ patch[259] = p % 256
      BY PatchIs
    <3>2. PICK database : /\ database = s1'
                          /\ DOMAIN database = Positions
                          /\ \A i \in Positions :
                                database[i] = IF i \in DOMAIN patch THEN patch[i] ELSE s1[i]
      BY <2>3, <3>1
    <3>3. /\ database[252] = v \div 256 /\ database[253] = v % 256
          /\ database[258] = p \div 256 /\ database[259] = p % 256
      BY <3>1, <3>2, PositionsHas
    <3>4. /\ database[246] = 1 /\ database[247] = 3 /\ database[264] = 0 /\ database[265] = 1
      BY <2>2, <3>1, <3>2, PositionsHas
    <3> QED
      BY <3>2, <3>3, <3>4, ZenonT(60) DEF Table
  <2>5. SdpInv' = (program' = "sdp" => IsId(s2') /\ IsId(s3') /\ Table(s1', s2', s3'))
    BY DEF SdpInv, Table, IsId, Positions
  <2> QED
    BY <2>1, <2>3, <2>4, <2>5, Zenon
<1> QED
  <2>1. ProgramNext => Sdp!Next
    BY <1>1 DEF ProgramNext, ProtoStep, SelfTestStep
  <2> QED
    BY <1>2, <1>3, <2>1 DEF Sdp!Next

LEMMA SdpSound ==
    ASSUME SdpInv
    PROVE  TableIsRead
<1> SUFFICES ASSUME program = "sdp"
             PROVE  Sdp!RecordsEndWhereTheySay /\ Sdp!IdsFound
  BY DEF TableIsRead
<1>1. IsId(s2) /\ IsId(s3) /\ Table(s1, s2, s3)
  BY DEF SdpInv
<1>2. Sdp!IdsFound
  <2>1. 256 * (s3 \div 256) + (s3 % 256) = s3 /\ 256 * (s2 \div 256) + (s2 % 256) = s2
    BY <1>1, TwoByteNumber DEF IsId
  <2>2. /\ s3 \div 256 \in Int /\ s3 % 256 \in Int /\ s2 \div 256 \in Int /\ s2 % 256 \in Int
    BY <1>1, TwoByteNumber DEF IsId
  <2>3. PICK a \in Int, b \in Int, c \in Int, d \in Int :
           a = s3 \div 256 /\ b = s3 % 256 /\ c = s2 \div 256 /\ d = s2 % 256
    BY <2>2
  <2>4. a * 256 + b = s3 /\ c * 256 + d = s2
    BY <2>1, <2>3
  <2>5. /\ s1[246] = 1 /\ s1[247] = 3 /\ s1[252] = a /\ s1[253] = b
        /\ s1[258] = c /\ s1[259] = d /\ s1[264] = 0 /\ s1[265] = 1
    BY <1>1, <2>3, Zenon DEF Table
  <2>6. 1 * 256 + 3 = 259 /\ 0 * 256 + 1 = 1
    OBVIOUS
  <2>7. /\ Sdp!Uint2(4, "VENDOR_ID") = s3 /\ Sdp!Uint2(4, "PRODUCT_ID") = s2
        /\ Sdp!Uint2(4, "SPECIFICATION_ID") = 1 * 256 + 3
        /\ Sdp!Uint2(4, "PRODUCT_VERSION") = 0 * 256 + 1
    BY <2>4, <2>5, ValuesAt, ZenonT(60)
  <2> QED
    BY <2>6, <2>7 DEF Sdp!IdsFound
<1>3. Sdp!RecordsEndWhereTheySay
  <2>1. \A r \in 1..4 : Sdp!AttributeAt(r, Len(Sdp!Records[r]) + 1) = Sdp!RecordAt(r + 1)
    BY RecordEnds
  <2>2. Sdp!RecordAt(5) = Sdp!Cardinality(DOMAIN s1)
    <3>1. PICK n \in Nat : n = Sdp!sdp_database_len /\ n = 277
      BY TableLength
    <3>2. DOMAIN s1 = 0..n - 1
      BY <1>1, <3>1, Zenon DEF Table, Positions
    <3>3. Sdp!Cardinality(0..n - 1) = n
      BY TableEnds
    <3>4. Sdp!RecordAt(5) = n
      BY <3>1, RecordsAt
    <3> QED
      BY <3>2, <3>3, <3>4, Zenon
  <2>3. DOMAIN Sdp!Records = 1..4 /\ Len(Sdp!Records) + 1 = 5
    BY RecordsAre
  <2> QED
    BY <2>1, <2>2, <2>3, Zenon DEF Sdp!RecordsEndWhereTheySay
<1> QED
  BY <1>2, <1>3

\* A peer that goes by the lengths in the table of services gets from record to
\* record and to its end, and finds the product and the vendor id that set_sdp_db
\* stored last, whatever they are.
THEOREM TableReadByLengths == ProgramSpec => []TableIsRead
<1>1. ProgramInit => SdpInv
  BY SdpInit
<1>2. SdpInv /\ [ProgramNext]_programVars => SdpInv'
  BY SdpStep
<1>3. SdpInv => TableIsRead
  BY SdpSound
<1> QED
  BY <1>1, <1>2, <1>3, PTL DEF ProgramSpec

-----------------------------------------------------------------------------
(***************************************************************************)
(* create_secret.c hashes with the functions of Sha256Context, of which    *)
(* the lemmas are about any that Compress: here it keeps the blocks.       *)
(***************************************************************************)
Hashing == INSTANCE Sha256ContextProofs WITH
    BlockSize <- 64, WordBytes <- 4, WordModulus <- 2^30,
    Compress <- Secret!Keep, InitialState <- Secret!Nothing, Leading <- Secret!Same

Keeping == INSTANCE SharedLemmas WITH Op <- Secret!Keep

LEMMA HashingSizes == Hashing!SizesAssumption
<1>1. 2^30 = 1073741824
  OBVIOUS
<1>2. 2^30 \in Nat \ {0} /\ 2^30 % 8 = 0 /\ 2^30 % 64 = 0 /\ 64 - 2 * 4 > 0
  BY <1>1
<1> QED
  BY <1>2 DEF Hashing!SizesAssumption, Hashing!LengthAt

LEMMA SameStart ==
    ASSUME NEW c, NEW kind
    PROVE  /\ Secret!Context!sha256_init = Hashing!sha256_init
           /\ Secret!Context!sha256_starts_ret(c, kind) = Hashing!sha256_starts_ret(c, kind)
  BY DEF Secret!Context!sha256_init, Hashing!sha256_init,
     Secret!Context!sha256_starts_ret, Hashing!sha256_starts_ret,
     Secret!Context!Zeros, Hashing!Zeros

LEMMA SameUpdate ==
    ASSUME NEW c, NEW input
    PROVE  Secret!Context!sha256_update_ret(c, input) = Hashing!sha256_update_ret(c, input)
  BY DEF Secret!Context!sha256_update_ret, Hashing!sha256_update_ret,
     Secret!Context!Fills, Hashing!Fills, Secret!Context!Left, Hashing!Left,
     Secret!Context!Copy, Hashing!Copy, Secret!Context!Counted, Hashing!Counted,
     Secret!Context!FoldLeft, Hashing!FoldLeft,
     Secret!Context!MapThenFoldSet, Hashing!MapThenFoldSet,
     Secret!Context!Max, Hashing!Max

LEMMA SameFinish ==
    ASSUME NEW c
    PROVE  Secret!Context!sha256_finish_ret(c) = Hashing!sha256_finish_ret(c)
  BY DEF Secret!Context!sha256_finish_ret, Hashing!sha256_finish_ret,
     Secret!Context!Left, Hashing!Left, Secret!Context!Copy, Hashing!Copy,
     Secret!Context!Zeros, Hashing!Zeros, Secret!Context!LengthFits, Hashing!LengthFits,
     Secret!Context!LengthAt, Hashing!LengthAt, Secret!Context!BitCount, Hashing!BitCount,
     Secret!Context!PutWord, Hashing!PutWord

\* gadgetId and device_secret, one after the other, in blocks with their padding.
Message == s1 \o s2

LEMMA MessageType ==
    ASSUME s1 \in GadgetIds, s2 \in Secrets
    PROVE  Message \in Seq(1..255) /\ Len(Message) \in Nat /\ Len(Message) < 200
<1>1. /\ s1 \in Seq(1..255) /\ s2 \in Seq(1..255) /\ Len(s1) + Len(s2) < 200
  BY ProgramAssumptions DEF Secret!SecretAssumption, Secret!SecretSize
<1>2. Message \in Seq(1..255) /\ Len(Message) = Len(s1) + Len(s2) /\ Len(Message) \in Nat
  BY <1>1 DEF Message
<1> QED
  BY <1>1, <1>2

LEMMA CharactersAreOctets ==
    ASSUME NEW m \in Seq(1..255)
    PROVE  m \in Seq(Hashing!Octet)
<1>1. m \in Seq(0..255)
  OBVIOUS
<1> QED
  BY <1>1 DEF Hashing!Octet

LEMMA WholePassed ==
    ASSUME NEW m \in Seq(1..255), Len(m) < 200
    PROVE  SubSeq(m, 1, Secret!LengthPassed(Len(m))) = m
<1>1. PICK n \in Nat : n = Len(m) /\ n < 200
  OBVIOUS
<1>2. n % 256 = n
  BY <1>1
<1>3. SubSeq(m, 1, Len(m)) = m
  OBVIOUS
<1> QED
  BY <1>1, <1>2, <1>3, Zenon DEF Secret!LengthPassed

\* A fold that keeps what it meets returns all of it.
LEMMA AllKept ==
    ASSUME NEW X, NEW seq \in Seq(X)
    PROVE  Hashing!FoldLeft(Secret!Keep, <<>>, seq) = seq
<1> DEFINE F(t) == Keeping!Fold(<<>>, t)
           S == {k \in Nat : k <= Len(seq) => F(SubSeq(seq, 1, k)) = SubSeq(seq, 1, k)}
<1>1. F(<<>>) = <<>>
  BY Keeping!FoldNone, Zenon
<1>0. ASSUME NEW t \in Seq(X), NEW x \in X
      PROVE  F(Append(t, x)) = Append(F(t), x)
  <2>1. Keeping!Fold(<<>>, Append(t, x)) = Secret!Keep(Keeping!Fold(<<>>, t), x)
    BY Keeping!FoldOneMore
  <2> QED
    BY <2>1, Zenon DEF Secret!Keep
<1> HIDE DEF F
<1>2. 0 \in S
  <2>1. SubSeq(seq, 1, 0) = <<>>
    OBVIOUS
  <2> QED
    BY <1>1, <2>1
<1>3. ASSUME NEW k \in Nat, k \in S
      PROVE  k + 1 \in S
  <2> SUFFICES ASSUME k + 1 <= Len(seq)
               PROVE  F(SubSeq(seq, 1, k + 1)) = SubSeq(seq, 1, k + 1)
    OBVIOUS
  <2>1. F(SubSeq(seq, 1, k)) = SubSeq(seq, 1, k) /\ k \in 0..Len(seq) - 1
    BY <1>3
  <2>2. /\ Append(SubSeq(seq, 1, k), seq[k + 1]) = SubSeq(seq, 1, k + 1)
        /\ SubSeq(seq, 1, k) \in Seq(X) /\ seq[k + 1] \in X
    BY <2>1
  <2> QED
    BY <1>0, <2>1, <2>2, Zenon
<1> HIDE DEF S
<1>4. Len(seq) \in S
  BY <1>2, <1>3, SetInduction
<1>5. F(seq) = seq
  <2>1. F(SubSeq(seq, 1, Len(seq))) = SubSeq(seq, 1, Len(seq))
    BY <1>4 DEF S
  <2>2. SubSeq(seq, 1, Len(seq)) = seq
    OBVIOUS
  <2> QED
    BY <2>1, <2>2, Zenon
<1>6. F(seq) = Hashing!FoldLeft(Secret!Keep, <<>>, seq)
  BY DEF F, Keeping!Fold, Hashing!FoldLeft, Hashing!MapThenFoldSet, Hashing!Max,
     Keeping!FoldLeft, Keeping!MapThenFoldSet, Keeping!Max
<1> QED
  BY <1>5, <1>6, Zenon

\* What the functions of the context make of the message m.
Hashed(m) ==
    Secret!Context!sha256_finish_ret(
        Secret!Context!sha256_update_ret(
            Secret!Context!sha256_starts_ret(Secret!Context!sha256_init, 0), m)).state

LEMMA BlocksKept ==
    ASSUME NEW m \in Seq(Hashing!Octet), Len(m) < 200
    PROVE  \E k \in Nat : /\ Len(Hashing!Padded(m)) = 64 * k
                          /\ Hashing!Padded(m) \in Seq(Hashing!Octet)
                          /\ Hashed(m) = Hashing!Blocks(Hashing!Padded(m), k)
<1> DEFINE x == Hashing!sha256_init
           y == Hashing!sha256_finish_ret(
                    Hashing!sha256_update_ret(Hashing!sha256_starts_ret(x, 0), m))
<1>1. Hashing!IsContext(x) /\ x.buffer \in Hashing!Buffer
  BY HashingSizes, Hashing!InitSound DEF Hashing!ContextSound
<1>2. Len(m) \in 0..(2^30 - 1)
  <2>1. 2^30 = 1073741824 /\ Len(m) \in Nat
    OBVIOUS
  <2> QED
    BY <2>1
<1>3. /\ y.state = Hashing!FoldLeft(Secret!Keep, Secret!Nothing(0), Hashing!BlocksOf(m))
      /\ \E k \in Nat : /\ Len(Hashing!Padded(m)) = 64 * k
                        /\ Hashing!Padded(m) \in Seq(Hashing!Octet)
                        /\ Hashing!BlocksOf(m) = Hashing!Blocks(Hashing!Padded(m), k)
  BY <1>1, <1>2, HashingSizes, Hashing!OnePiece, Zenon
<1>4. Hashed(m) = y.state
  BY SameStart, SameUpdate, SameFinish, Zenon DEF Hashed
<1> HIDE DEF y
<1>5. PICK k \in Nat : /\ Len(Hashing!Padded(m)) = 64 * k
                       /\ Hashing!Padded(m) \in Seq(Hashing!Octet)
                       /\ Hashing!BlocksOf(m) = Hashing!Blocks(Hashing!Padded(m), k)
  BY <1>3
<1>6. \E X : Hashing!Blocks(Hashing!Padded(m), k) \in Seq(X)
  BY HashingSizes, Hashing!BlocksType, <1>5
<1>7. Hashed(m) = Hashing!FoldLeft(Secret!Keep, <<>>, Hashing!Blocks(Hashing!Padded(m), k))
  BY <1>3, <1>4, <1>5, Zenon DEF Secret!Nothing
<1>8. Hashed(m) = Hashing!Blocks(Hashing!Padded(m), k)
  BY <1>6, <1>7, AllKept, Zenon
<1> QED
  BY <1>5, <1>8

\* The blocks are the message, its padding's first byte and what fills them up.
Marked(m) == m \o <<128>>

LEMMA BlocksRead ==
    ASSUME NEW m \in Seq(Hashing!Octet), Len(m) < 200
    PROVE  \E rest \in Seq(Hashing!Octet) :
              Secret!FlattenSeq(Hashed(m)) = Marked(m) \o rest
<1>1. PICK k \in Nat : /\ Len(Hashing!Padded(m)) = 64 * k
                       /\ Hashing!Padded(m) \in Seq(Hashing!Octet)
                       /\ Hashed(m) = Hashing!Blocks(Hashing!Padded(m), k)
  BY BlocksKept
<1> DEFINE a == Hashing!Zeros((Hashing!LengthAt - (Len(m) + 1)) % 64)
           b == Hashing!PutWord(((8 * Len(m)) \div 2^30) % 2^30)
           c == Hashing!PutWord((8 * Len(m)) % 2^30)
           d == m \o <<128>>
<1>2. Hashing!Padded(m) = ((d \o a) \o b) \o c
  BY DEF Hashing!Padded
<1>3. a \in Seq(Hashing!Octet) /\ b \in Seq(Hashing!Octet) /\ c \in Seq(Hashing!Octet)
  <2>1. \A n \in Int : Hashing!PutWord(n) \in Seq(Hashing!Octet)
    BY HashingSizes, Hashing!WordType
  <2>2. PICK h \in Nat : h = 2^30 /\ h > 0
    OBVIOUS
  <2>3. Len(m) \in Nat /\ 8 * Len(m) \in Nat
    OBVIOUS
  <2>4. (8 * Len(m)) \div h \in Nat
    BY <2>2, <2>3, DivType
  <2>5. (8 * Len(m)) % h \in Int /\ ((8 * Len(m)) \div h) % h \in Int
    BY <2>2, <2>3, <2>4, ModRange
  <2>6. Hashing!LengthAt = 56
    BY DEF Hashing!LengthAt
  <2>7. (Hashing!LengthAt - (Len(m) + 1)) % 64 \in Nat
    BY <2>3, <2>6, ModSplit
  <2> QED
    BY <2>1, <2>2, <2>5, <2>7, Hashing!ZerosType, Zenon
<1>4. d \in Seq(Hashing!Octet) /\ Len(d) > 0
  BY DEF Hashing!Octet
<1> HIDE DEF a, b, c, d
<1>5. (a \o b) \o c \in Seq(Hashing!Octet) /\ ((d \o a) \o b) \o c = d \o ((a \o b) \o c)
  BY <1>3, <1>4, SMTT(60)
<1>6. k > 0
  <2>1. Len(Hashing!Padded(m)) > 0
    BY <1>2, <1>3, <1>4
  <2> QED
    BY <1>1, <2>1
<1>7. Hashing!FlattenSeq(Hashed(m)) = Hashing!Padded(m)
  BY <1>1, <1>6, HashingSizes, Hashing!BlocksFlattened, Zenon
<1>8. Secret!FlattenSeq(Hashed(m)) = Hashing!FlattenSeq(Hashed(m))
  BY DEF Secret!FlattenSeq, Hashing!FlattenSeq
<1> QED
  BY <1>2, <1>5, <1>7, <1>8, Zenon DEF d, Marked
-----------------------------------------------------------------------------
\* Every digit is told by its character.
LEMMA DigitOfCharacter ==
    ASSUME NEW v \in 0..15
    PROVE  Secret!Digit(Secret!Character(v)) = v
<1> DEFINE c == Secret!Character(v)
           P(u) == \/ c = 48 + u /\ u \in 0..9
                   \/ c = 87 + u /\ u \in 10..15
                   \/ u = -1 /\ c \notin 48..57 \cup 97..102
<1>1. v \in -1..15 /\ P(v)
  BY DEF Secret!Character
<1>2. \A u \in -1..15 : P(u) => u = v
  BY DEF Secret!Character
<1>3. Secret!Digit(c) = CHOOSE u \in -1..15 : P(u)
  BY Zenon DEF Secret!Digit
<1> HIDE DEF P, c
<1>4. (CHOOSE u \in -1..15 : P(u)) = v
  BY <1>1, <1>2
<1> QED
  BY <1>3, <1>4, Zenon DEF c

LEMMA CharacterType ==
    ASSUME NEW v \in 0..15
    PROVE  Secret!Character(v) \in Nat
  BY DEF Secret!Character

\* A byte is its two hexadecimal digits.
LEMMA TwoDigits ==
    ASSUME NEW n \in 0..255
    PROVE  /\ n \div 16 \in 0..15 /\ n % 16 \in 0..15
           /\ 16 * (n \div 16) + (n % 16) = n
<1>1. PICK q \in Nat : q = n \div 16
  BY DivType
<1>2. PICK r \in 0..15 : r = n % 16
  BY ModRange
<1>3. 16 * q + r = n
  BY <1>1, <1>2, ModSplit
<1>4. q \in 0..15
  BY <1>3
<1> QED
  BY <1>1, <1>2, <1>3, <1>4

-----------------------------------------------------------------------------
\* text has the first n bytes of t.
Written(text, t, n) ==
    /\ text \in Seq(Nat) /\ Len(text) = 2 * n
    /\ \A b \in 1..n : /\ text[2 * b - 1] = Secret!Character(t[b] \div 16)
                       /\ text[2 * b] = Secret!Character(t[b] % 16)

LEMMA WrittenNone ==
    ASSUME NEW t
    PROVE  Written(<<>>, t, 0)
  BY DEF Written

LEMMA WrittenNext ==
    ASSUME NEW t \in [1..32 -> 0..255], NEW n \in 0..31, NEW text, Written(text, t, n)
    PROVE  Written(text \o <<Secret!Character(t[n + 1] \div 16),
                             Secret!Character(t[n + 1] % 16)>>, t, n + 1)
<1> DEFINE x == Secret!Character(t[n + 1] \div 16)
           y == Secret!Character(t[n + 1] % 16)
           two == <<x, y>>
           new == text \o two
<1>1. x \in Nat /\ y \in Nat
  <2>1. t[n + 1] \in 0..255
    OBVIOUS
  <2> QED
    BY <2>1, TwoDigits, CharacterType
<1>0. text \in Seq(Nat)
  BY DEF Written
<1>8. PICK l \in Nat : l = Len(text) /\ l = 2 * n
  <2>1. Len(text) = 2 * n
    BY DEF Written
  <2>2. 2 * n \in Nat
    OBVIOUS
  <2> QED
    BY <2>1, <2>2, Zenon
<1>2. \A b \in 1..n : /\ text[2 * b - 1] = Secret!Character(t[b] \div 16)
                       /\ text[2 * b] = Secret!Character(t[b] % 16)
  BY DEF Written
<1> HIDE DEF x, y
<1>3. two \in Seq(Nat) /\ Len(two) = 2 /\ two[1] = x /\ two[2] = y
  BY <1>1
<1> HIDE DEF two
<1>4. /\ new \in Seq(Nat) /\ Len(new) = Len(text) + 2
      /\ (\A i \in 1..Len(text) : new[i] = text[i])
      /\ new[Len(text) + 1] = x /\ new[Len(text) + 2] = y
  <2>1. two \in Seq(Nat)
    BY <1>3
  <2>2. /\ text \o two \in Seq(Nat) /\ Len(text \o two) = Len(text) + Len(two)
        /\ \A i \in 1..Len(text) : (text \o two)[i] = text[i]
        /\ \A i \in 1..Len(two) : (text \o two)[Len(text) + i] = two[i]
    BY <1>0, <2>1, Joined
  <2>3. 1 \in 1..2 /\ 2 \in 1..2
    OBVIOUS
  <2> QED
    BY <1>3, <2>2, <2>3, Zenon
<1> HIDE DEF new
<1>5. Len(new) = 2 * (n + 1)
  BY <1>4, <1>8
<1>6. ASSUME NEW b \in 1..(n + 1)
      PROVE  /\ new[2 * b - 1] = Secret!Character(t[b] \div 16)
             /\ new[2 * b] = Secret!Character(t[b] % 16)
  <2>1. CASE b = n + 1
    <3>1. 2 * b - 1 = Len(text) + 1 /\ 2 * b = Len(text) + 2
      BY <1>8, <2>1
    <3> QED
      BY <1>4, <2>1, <3>1, Zenon DEF x, y
  <2>2. CASE b # n + 1
    <3>1. b \in 1..n /\ 2 * b - 1 \in 1..Len(text) /\ 2 * b \in 1..Len(text)
      BY <1>8, <2>2
    <3> QED
      BY <1>2, <1>4, <3>1, Zenon
  <2> QED
    BY <2>1, <2>2
<1>7. Written(new, t, n + 1)
  BY <1>4, <1>5, <1>6 DEF Written
<1> QED
  BY <1>7 DEF new, two, x, y

ReadAs(text, t) ==
    /\ Len(text) = 65 /\ text[65] = 0
    /\ \A b \in 1..32 : 16 * Secret!Digit(text[2 * b - 1]) + Secret!Digit(text[2 * b]) = t[b]

LEMMA WrittenRead ==
    ASSUME NEW t \in [1..32 -> 0..255], NEW text, Written(text, t, 32)
    PROVE  ReadAs(Append(text, 0), t)
<1>1. text \in Seq(Nat) /\ Len(text) = 64
  BY DEF Written
<1>2. /\ Len(Append(text, 0)) = 65 /\ Append(text, 0)[65] = 0
      /\ \A i \in 1..64 : Append(text, 0)[i] = text[i]
  <2>1. /\ Len(Append(text, 0)) = Len(text) + 1 /\ Append(text, 0)[Len(text) + 1] = 0
        /\ \A i \in 1..Len(text) : Append(text, 0)[i] = text[i]
    <3>1. text \in Seq(Nat)
      BY <1>1
    <3> QED
      BY <3>1, AppendProperties
  <2>2. Len(text) = 64 /\ Len(text) + 1 = 65
    BY <1>1
  <2> QED
    BY <2>1, <2>2, Zenon
<1>3. ASSUME NEW b \in 1..32
      PROVE  16 * Secret!Digit(Append(text, 0)[2 * b - 1])
                + Secret!Digit(Append(text, 0)[2 * b]) = t[b]
  <2>1. 2 * b - 1 \in 1..64 /\ 2 * b \in 1..64 /\ t[b] \in 0..255
    OBVIOUS
  <2>2. /\ Append(text, 0)[2 * b - 1] = Secret!Character(t[b] \div 16)
        /\ Append(text, 0)[2 * b] = Secret!Character(t[b] % 16)
    BY <1>2, <2>1 DEF Written
  <2>3. /\ t[b] \div 16 \in 0..15 /\ t[b] % 16 \in 0..15
        /\ 16 * (t[b] \div 16) + (t[b] % 16) = t[b]
    BY <2>1, TwoDigits
  <2>4. /\ Secret!Digit(Append(text, 0)[2 * b - 1]) = t[b] \div 16
        /\ Secret!Digit(Append(text, 0)[2 * b]) = t[b] % 16
    BY <2>2, <2>3, DigitOfCharacter, ZenonT(60)
  <2> QED
    BY <2>3, <2>4, Zenon
<1> QED
  BY <1>2, <1>3, Zenon DEF ReadAs

-----------------------------------------------------------------------------
SecretInv ==
    program = "secret" =>
        /\ s1 \in GadgetIds /\ s2 \in Secrets /\ s5 \in [1..32 -> 0..255]
        /\ stage \in {"concatenate", "hash", "convert", "done"}
        /\ stage \in {"concatenate", "hash"} => s6 = 0 /\ s7 = <<>>
        /\ stage = "hash" => s3 = Message
        /\ stage = "convert" =>
              s4 = Hashed(Message) /\ s6 \in 0..32 /\ Written(s7, s5, s6)
        /\ stage = "done" => \E text : Written(text, s5, 32) /\ s7 = Append(text, 0)

LEMMA SecretInit == ProgramInit => SecretInv
<1> SUFFICES ASSUME ProgramInit, program = "secret"
             PROVE  SecretInv
  BY DEF SecretInv
<1>1. Secret!Init
  BY DEF ProgramInit
<1>2. [b \in 1..32 |-> 0] \in [1..32 -> 0..255]
  OBVIOUS
<1> QED
  BY <1>1, <1>2 DEF SecretInv, Secret!Init

LEMMA SecretStep ==
    ASSUME SecretInv, [ProgramNext]_programVars
    PROVE  SecretInv'
<1> SUFFICES ASSUME program' = "secret"
             PROVE  SecretInv'
  BY DEF SecretInv
<1>1. program = "secret"
  BY OneProgram
<1>2. (UNCHANGED <<s1, s2>>) => Message' = Message
  BY DEF Message
<1>3. Hashed(Message)' = Hashed(Message') /\ Written(s7, s5, s6)' = Written(s7', s5', s6')
  OBVIOUS
<1>4. CASE UNCHANGED programVars
  BY <1>4, <1>1 DEF SecretInv, programVars, Message
<1>5. CASE Secret!Concatenate
  BY <1>1, <1>5 DEF SecretInv, Secret!Concatenate, Message
<1>6. CASE Secret!sha256
  <2>1. /\ s1 \in GadgetIds /\ s2 \in Secrets /\ s3 = Message /\ s6 = 0 /\ s7 = <<>>
        /\ stage' = "convert" /\ s5' \in Digests /\ UNCHANGED <<s1, s2, s3, s6, s7>>
    BY <1>1, <1>6 DEF SecretInv, Secret!sha256
  <2>2. s5' \in [1..32 -> 0..255]
    BY <2>1, ProgramAssumptions DEF Secret!SecretAssumption
  <2>3. Message \in Seq(1..255) /\ Len(Message) < 200
    BY <2>1, MessageType
  <2>4. SubSeq(s3, 1, Secret!LengthPassed(Len(s3))) = Message
    BY <2>1, <2>3, WholePassed
  <2>5. s4' = Hashed(SubSeq(s3, 1, Secret!LengthPassed(Len(s3))))
    BY <1>6, Zenon DEF Secret!sha256, Hashed
  <2>6. s4' = Hashed(Message')
    BY <1>2, <2>1, <2>4, <2>5, Zenon
  <2>7. Written(s7', s5', s6')
    BY <2>1, WrittenNone
  <2>8. stage' = "convert" /\ s6' \in 0..32 /\ s1' \in GadgetIds /\ s2' \in Secrets
    BY <2>1
  <2> QED
    BY <2>2, <2>6, <2>7, <2>8 DEF SecretInv
<1>7. CASE Secret!convert_to_utf8
  <2>1. /\ s1 \in GadgetIds /\ s2 \in Secrets /\ s5 \in [1..32 -> 0..255]
        /\ s4 = Hashed(Message) /\ s6 \in 0..32 /\ Written(s7, s5, s6)
        /\ UNCHANGED <<s1, s2, s3, s4, s5>>
    BY <1>1, <1>7 DEF SecretInv, Secret!convert_to_utf8
  <2>2. CASE s6 < 32
    <3>1. /\ s7' = s7 \o <<Secret!Character(s5[s6 + 1] \div 16),
                           Secret!Character(s5[s6 + 1] % 16)>>
          /\ s6' = (s6 + 1) % 256 /\ stage' = stage /\ stage = "convert"
      BY <1>7, <2>2 DEF Secret!convert_to_utf8
    <3>2. s6 \in 0..31 /\ (s6 + 1) % 256 = s6 + 1
      BY <2>1, <2>2
    <3>3. Written(s7', s5, s6 + 1)
      BY <2>1, <3>1, <3>2, WrittenNext, Zenon
    <3>4. s6' = s6 + 1 /\ s6' \in 0..32
      BY <3>1, <3>2
    <3> QED
      BY <1>2, <2>1, <3>1, <3>3, <3>4 DEF SecretInv
  <2>3. CASE ~(s6 < 32)
    <3>1. s7' = Append(s7, 0) /\ stage' = "done" /\ s6 = 32
      BY <1>7, <2>1, <2>3 DEF Secret!convert_to_utf8
    <3> QED
      BY <2>1, <3>1 DEF SecretInv
  <2> QED
    BY <2>2, <2>3
<1> QED
  <2>1. ProgramNext => Secret!Next
    BY <1>1 DEF ProgramNext, ProtoStep, SelfTestStep
  <2> QED
    BY <1>4, <1>5, <1>6, <1>7, <2>1 DEF Secret!Next

LEMMA SecretSound ==
    ASSUME SecretInv
    PROVE  TokenOfWholeSecret
<1> SUFFICES ASSUME program = "secret"
             PROVE  Secret!WholeSecretHashed /\ Secret!TextIsToken
  BY DEF TokenOfWholeSecret
<1>1. Secret!WholeSecretHashed
  <2> SUFFICES ASSUME stage = "convert"
               PROVE  Secret!IsPrefix(s1 \o s2 \o <<128>>, Secret!FlattenSeq(s4))
    BY DEF Secret!WholeSecretHashed
  <2>1. /\ s4 = Hashed(Message) /\ Message \in Seq(1..255) /\ Len(Message) < 200
        /\ s1 \o s2 \o <<128>> = Message \o <<128>>
    BY MessageType DEF SecretInv, Message
  <2>2. Message \in Seq(Hashing!Octet)
    BY <2>1, CharactersAreOctets
  <2>3. PICK rest \in Seq(Hashing!Octet) :
           Secret!FlattenSeq(s4) = (Message \o <<128>>) \o rest
    BY <2>1, <2>2, BlocksRead DEF Marked
  <2>4. PICK d : d = Message \o <<128>> /\ d \in Seq(Hashing!Octet)
    <3>1. <<128>> \in Seq(Hashing!Octet)
      BY DEF Hashing!Octet
    <3> QED
      BY <2>2, <3>1, ConcatProperties, ZenonT(60)
  <2>5. Len(d) <= Len(d \o rest) /\ SubSeq(d \o rest, 1, Len(d)) = SubSeq(d, 1, Len(d))
    BY <2>3, <2>4
  <2>6. Secret!IsPrefix(d, d \o rest)
    BY <2>5 DEF Secret!IsPrefix
  <2> QED
    BY <2>1, <2>3, <2>4, <2>6, Zenon
<1>2. Secret!TextIsToken
  <2> SUFFICES ASSUME stage = "done"
               PROVE  ReadAs(s7, s5)
    BY Zenon DEF Secret!TextIsToken, ReadAs
  <2>1. PICK text : Written(text, s5, 32) /\ s7 = Append(text, 0) /\ s5 \in [1..32 -> 0..255]
    BY DEF SecretInv
  <2> QED
    BY <2>1, WrittenRead, Zenon
<1> QED
  BY <1>1, <1>2

\* The program that makes the device secret hashes all of the id and the secret
\* of the device type, whatever they are as long as the buffer has room for both,
\* and every digest can be read from the text that it writes.
THEOREM TokenIsOfWholeSecret == ProgramSpec => []TokenOfWholeSecret
<1>1. ProgramInit => SecretInv
  BY SecretInit
<1>2. SecretInv /\ [ProgramNext]_programVars => SecretInv'
  BY SecretStep
<1>3. SecretInv => TokenOfWholeSecret
  BY SecretSound
<1> QED
  BY <1>1, <1>2, <1>3, PTL DEF ProgramSpec
=============================================================================
