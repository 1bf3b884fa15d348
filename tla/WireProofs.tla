------------------------------ MODULE WireProofs ------------------------------
(***************************************************************************)
(* Proofs about bytes that are sent, and taken apart where they arrive.    *)
(* The framer of the serial port (SppFramer): for all contents, any number *)
(* of frames and of lost bytes, and every size of the buffer.  The BLE     *)
(* packets (BleWire): for every MTU and every payload, whatever packets    *)
(* are cut and joined.  The packet of the checksum program (SppChecksum):  *)
(* for every header and all data, whatever byte may be another.            *)
(***************************************************************************)
EXTENDS SppFramer, BleWire, SharedLemmas, FiniteSetTheorems, TLAPS

-----------------------------------------------------------------------------
\* ESP is out only for a byte that needs it.
LineInv == escaped => position >= 2 /\ NeedsEscape

LostInv == lost = 0 => harmed = {}

\* The framer is ready for the start of a packet.
Settled == packet_error \/ (packet_buffer = <<>> /\ ~start_of_packet /\ ~escape)

\* The framer has exactly the bytes of the frame that are out.
InStep ==
    /\ ~packet_error /\ start_of_packet /\ escape = escaped
    /\ origins = {Len(sent)}
    /\ Len(packet_buffer) = position - 1
    /\ packet_buffer[1] = SOP
    /\ \A i \in 2..(position - 1) : packet_buffer[i] = Frame[i - 1]

TooLong == packet_error /\ ~Fits(Frame)

Intact == Len(sent) \notin harmed
Known == Intact /\ Len(sent) - 1 \notin harmed

(***************************************************************************)
(* Where the framer is, as far as the losses let one tell: an intact frame *)
(* ends with the framer ready for the next one, and a frame that finds it  *)
(* ready is followed byte by byte.                                         *)
(***************************************************************************)
SyncInv ==
    running =>
        /\ end_of_packet => packet_error
        /\ packet_buffer = <<>> => origins = {}
        /\ position = 0 /\ Intact => Settled
        /\ position = 1 /\ Known => Settled
        /\ position >= 2 /\ Known => InStep \/ TooLong
        /\ position >= 2 /\ Intact => start_of_packet \/ packet_error

FramerInv ==
    /\ TypeOK /\ LineInv /\ LostInv /\ SyncInv
    /\ RecoversAfterOneFrame /\ FramesArriveIntact

-----------------------------------------------------------------------------
(***************************************************************************)
(* The line.                                                               *)
(***************************************************************************)
\* What a frame in progress is.
LEMMA FrameType ==
    ASSUME TypeOK, position # 0
    PROVE  /\ Len(sent) \in 1..MaxFrames
           /\ Frame \in Contents /\ Frame \in Seq(Bytes)
           /\ Len(Frame) \in Nat /\ Len(Frame) >= 5
           /\ position \in 1..(Len(Frame) + 2)
           /\ ~AtSop /\ ~AtEop => Frame[position - 1] \in Bytes
<1>1. Len(sent) \in 1..MaxFrames /\ Frame \in Contents
  BY FramerAssumption DEF TypeOK, Frame
<1>2. Frame \in Seq(Bytes) /\ Len(Frame) \in Nat /\ Len(Frame) >= 5
  BY <1>1, FramerAssumption DEF HeaderLen, TrailerLen
<1>3. position \in 1..(Len(Frame) + 2)
  BY <1>2 DEF TypeOK, Frame
<1> HIDE DEF Frame
<1>4. ~AtSop /\ ~AtEop => Frame[position - 1] \in Bytes
  BY <1>2, <1>3 DEF AtSop, AtEop
<1> QED
  BY <1>1, <1>2, <1>3, <1>4

\* The byte that is due has a special value only where it has its meaning.
LEMMA NextByteKinds ==
    ASSUME TypeOK, position # 0
    PROVE  /\ NextByte \in Bytes
           /\ NextByte = SOP <=> AtSop
           /\ NextByte = EOP <=> AtEop
           /\ NextByte = ESP <=> NeedsEscape /\ ~escaped
<1>1. AtSop => ~AtEop
  BY FrameType DEF AtSop, AtEop
<1>2. CASE AtSop
  BY <1>1, <1>2, BytesAssumption DEF NextByte, NeedsEscape, Special
<1>3. CASE AtEop /\ ~AtSop
  BY <1>3, BytesAssumption DEF NextByte, NeedsEscape, Special
<1>4. CASE ~AtSop /\ ~AtEop
  <2>1. Frame[position - 1] \in Bytes
    BY <1>4, FrameType
  <2>2. CASE ~NeedsEscape
    BY <1>4, <2>1, <2>2 DEF NextByte, NeedsEscape, Special
  <2>3. CASE NeedsEscape /\ ~escaped
    BY <1>4, <2>3, BytesAssumption DEF NextByte, Special
  <2>4. CASE NeedsEscape /\ escaped
    BY <1>4, <2>1, <2>4, BytesAssumption DEF NextByte, NeedsEscape, Special
  <2> QED
    BY <2>2, <2>3, <2>4
<1> QED
  BY <1>2, <1>3, <1>4

\* One byte further: the frame is the same, or it is out.
LEMMA AdvanceType ==
    ASSUME TypeOK, LineInv, position # 0, Advance
    PROVE  /\ sent' = sent
           /\ position' \in Nat /\ escaped' \in BOOLEAN
           /\ AtEop <=> position' = 0
           /\ position' # 0 => position' <= Len(sent[Len(sent)]) + 2
           /\ NeedsEscape /\ ~escaped => position' = position /\ position >= 2
                                         /\ escaped' = TRUE
           /\ ~AtEop /\ ~(NeedsEscape /\ ~escaped) =>
                 position' = position + 1 /\ escaped' = FALSE
           /\ LineInv'
<1>1. position \in Nat /\ position >= 1 /\ Len(Frame) \in Nat
      /\ position <= Len(Frame) + 2
  BY FrameType
<1>2. sent' = sent /\ Frame' = Frame
  BY DEF Advance, Frame
<1>3. CASE NeedsEscape /\ ~escaped
  <2>1. position >= 2 /\ ~AtEop
    BY <1>1, <1>3 DEF NeedsEscape, AtSop
  <2>2. position' = position /\ escaped' = TRUE
    BY <1>3 DEF Advance
  <2>3. NeedsEscape'
    BY <1>2, <1>3, <2>2 DEF NeedsEscape, AtSop, AtEop
  <2> QED
    BY <1>1, <1>2, <1>3, <2>1, <2>2, <2>3 DEF LineInv, Frame
<1>4. CASE ~(NeedsEscape /\ ~escaped) /\ AtEop
  <2>1. position' = 0 /\ escaped' = FALSE
    BY <1>4 DEF Advance
  <2> QED
    BY <1>2, <1>4, <2>1 DEF LineInv
<1>5. CASE ~(NeedsEscape /\ ~escaped) /\ ~AtEop
  <2>1. position' = position + 1 /\ escaped' = FALSE
    BY <1>5 DEF Advance
  <2>2. position + 1 <= Len(Frame) + 2
    BY <1>1, <1>5 DEF AtEop
  <2>3. LineInv'
    BY <2>1 DEF LineInv
  <2>4. position' # 0 /\ position' \in Nat
    BY <1>1, <2>1
  <2>5. position' <= Len(sent[Len(sent)]) + 2
    BY <2>1, <2>2 DEF Frame
  <2> QED
    BY <1>2, <1>5, <2>1, <2>3, <2>4, <2>5
<1> QED
  BY <1>3, <1>4, <1>5

-----------------------------------------------------------------------------
(***************************************************************************)
(* Type correctness.                                                       *)
(***************************************************************************)
\* What a finished packet holds between its SOP and its EOP.
LEMMA FinishedContent ==
    ASSUME TypeOK
    PROVE  /\ Finished \in Seq(Bytes) /\ Len(Finished) = Len(packet_buffer) + 1
           /\ \A i \in 1..Len(packet_buffer) : Finished[i] = packet_buffer[i]
           /\ Finished[Len(Finished)] = EOP
           /\ SubSeq(Finished, 2, Len(Finished) - 1) \in Seq(Bytes)
           /\ packet_buffer # <<>> =>
                 Len(SubSeq(Finished, 2, Len(Finished) - 1)) = Len(packet_buffer) - 1
<1>1. packet_buffer \in Seq(Bytes) /\ EOP \in Bytes
  BY BytesAssumption DEF TypeOK, Special
<1>2. /\ Finished \in Seq(Bytes) /\ Len(Finished) = Len(packet_buffer) + 1
      /\ \A i \in 1..Len(packet_buffer) : Finished[i] = packet_buffer[i]
      /\ Finished[Len(Finished)] = EOP
  BY <1>1 DEF Finished
<1>3. Len(packet_buffer) \in Nat
  BY <1>1
<1>4. \A i \in 2..(Len(Finished) - 1) : Finished[i] \in Bytes
  BY <1>2, <1>3
<1> HIDE DEF Finished
<1>5. SubSeq(Finished, 2, Len(Finished) - 1) \in Seq(Bytes)
  BY <1>2, <1>3, <1>4
<1>6. packet_buffer # <<>> =>
         Len(SubSeq(Finished, 2, Len(Finished) - 1)) = Len(packet_buffer) - 1
  <2>1. packet_buffer # <<>> => Len(packet_buffer) >= 1
    BY <1>1
  <2>2. \A n \in Nat : n >= 1 /\ Len(Finished) = n + 1 =>
           Len(SubSeq(Finished, 2, Len(Finished) - 1)) = n - 1
    BY <1>2
  <2> QED
    BY <1>2, <1>3, <2>1, <2>2
<1> QED
  BY <1>2, <1>5, <1>6

LEMMA FramerTypeStep ==
    ASSUME TypeOK, LineInv, [Next]_vars
    PROVE  TypeOK' /\ LineInv'
<1>1. ASSUME NEW c \in Contents, StartFrame(c)
      PROVE  TypeOK' /\ LineInv'
  <2>1. /\ sent \in Seq(Contents) /\ Len(sent) < MaxFrames
        /\ sent' = Append(sent, c) /\ position' = 1
        /\ position = 0 /\ UNCHANGED escaped
    BY <1>1 DEF StartFrame, TypeOK
  <2>2. /\ sent' \in Seq(Contents) /\ Len(sent') = Len(sent) + 1
        /\ sent'[Len(sent')] = c /\ Len(c) \in Nat
    BY <2>1, FramerAssumption
  <2>3. sent' \in Seq(Contents) /\ Len(sent') <= MaxFrames
        /\ Len(sent') > 0 /\ position' \in Nat /\ position' <= Len(sent'[Len(sent')]) + 2
    BY <2>1, <2>2, FramerAssumption
  <2>4. LineInv'
    BY <2>1 DEF LineInv, TypeOK
  <2> QED
    BY <1>1, <2>3, <2>4 DEF StartFrame, TypeOK, statics
<1>2. ASSUME position # 0, Advance, running' \in BOOLEAN,
             origins' \subseteq 1..MaxFrames, harmed' \subseteq 1..MaxFrames,
             packet_buffer' \in Seq(Bytes), Len(packet_buffer') <= BufferLen,
             packet_error' \in BOOLEAN, start_of_packet' \in BOOLEAN,
             end_of_packet' \in BOOLEAN, escape' \in BOOLEAN,
             delivered' \in Seq(Delivery), lost' \in 0..MaxLost,
             \A k \in 1..Len(delivered') :
                Len(delivered'[k].content) + 2 <= BufferLen
      PROVE  TypeOK' /\ LineInv'
  BY <1>2, AdvanceType DEF TypeOK
<1>3. CASE LoseByte
  <2>1. Len(sent) \in 1..MaxFrames
    BY <1>3, FrameType DEF LoseByte
  <2>2. lost' \in 0..MaxLost
    BY <1>3, FramerAssumption DEF LoseByte, TypeOK
  <2> QED
    BY <1>2, <1>3, <2>1, <2>2 DEF LoseByte, TypeOK, statics
<1>4. ASSUME NEW b \in Bytes, Arrives(b)
      PROVE  /\ running /\ position # 0 /\ b = NextByte
             /\ Advance /\ UNCHANGED <<harmed, lost>>
             /\ Len(sent) \in 1..MaxFrames
             /\ Len(packet_buffer) \in Nat
  BY <1>4, FrameType DEF Arrives, TypeOK
<1>5. ASSUME NEW b \in Bytes, DropByte(b)
      PROVE  TypeOK' /\ LineInv'
  BY <1>2, <1>4, <1>5 DEF DropByte, TypeOK
<1>6. ASSUME NEW b \in Bytes, Resynchronize(b)
      PROVE  TypeOK' /\ LineInv'
  <2>1. packet_buffer' \in Seq(Bytes) /\ Len(packet_buffer') <= BufferLen
    BY <1>6, BytesAssumption, FramerAssumption
    DEF Resynchronize, Special, HeaderLen, TrailerLen
  <2> QED
    BY <1>2, <1>4, <1>6, <2>1 DEF Resynchronize, TypeOK
<1>7. ASSUME NEW b \in Bytes, RejectSop(b)
      PROVE  TypeOK' /\ LineInv'
  BY <1>2, <1>4, <1>7 DEF RejectSop, TypeOK
<1>8. ASSUME NEW b \in Bytes, NEW x \in Bytes, Arrives(b), ~HasError, Store(x)
      PROVE  /\ packet_buffer' \in Seq(Bytes) /\ Len(packet_buffer') <= BufferLen
             /\ origins' \subseteq 1..MaxFrames
  <2>1. Len(packet_buffer') = Len(packet_buffer) + 1 /\ packet_buffer' \in Seq(Bytes)
    BY <1>8 DEF Store, TypeOK
  <2>2. Len(packet_buffer) < BufferLen
    BY <1>4, <1>8, FramerAssumption DEF HasError
  <2>3. Len(packet_buffer') <= BufferLen
    BY <1>4, <1>8, <2>1, <2>2, FramerAssumption
  <2>4. origins' \subseteq 1..MaxFrames
    BY <1>4, <1>8 DEF Store, TypeOK
  <2> QED
    BY <2>1, <2>3, <2>4
<1>9. SOP \in Bytes /\ EOP \in Bytes
  BY BytesAssumption DEF Special
<1>10. ASSUME NEW b \in Bytes, StartPacket(b)
       PROVE  TypeOK' /\ LineInv'
  BY <1>2, <1>4, <1>8, <1>9, <1>10 DEF StartPacket, TypeOK
<1>11. ASSUME NEW b \in Bytes, StartEscape(b)
       PROVE  TypeOK' /\ LineInv'
  BY <1>2, <1>4, <1>11 DEF StartEscape, TypeOK
<1>12. ASSUME NEW b \in Bytes, StoreByte(b)
       PROVE  TypeOK' /\ LineInv'
  <2>1. Unescape(b) \in Bytes
    BY BytesAssumption DEF Unescape
  <2> QED
    BY <1>2, <1>4, <1>8, <1>12, <2>1 DEF StoreByte, TypeOK
<1>13. ASSUME NEW b \in Bytes, RejectEop(b)
       PROVE  TypeOK' /\ LineInv'
  BY <1>2, <1>4, <1>8, <1>9, <1>13 DEF RejectEop, TypeOK
<1>14. ASSUME NEW b \in Bytes, FinishPacket(b)
       PROVE  TypeOK' /\ LineInv'
  <2>1. origins \cup {Len(sent)} \subseteq 1..MaxFrames
    BY <1>4, <1>14 DEF FinishPacket, TypeOK
  <2>2. delivered' \in Seq(Delivery)
    BY <1>14, <2>1, FinishedContent DEF FinishPacket, Delivery, TypeOK
  <2>3. packet_buffer' \in Seq(Bytes) /\ Len(packet_buffer') <= BufferLen
    BY <1>14, FramerAssumption DEF FinishPacket, cleanup, HeaderLen, TrailerLen
  <2>4. Len(SubSeq(Finished, 2, Len(Finished) - 1)) + 2 <= BufferLen
    <3>1. Len(packet_buffer) < BufferLen /\ Len(packet_buffer) \in Nat
      BY <1>4, <1>14, FramerAssumption DEF FinishPacket, HasError
    <3>2. packet_buffer # <<>>
      <4>1. TrailerIndex(Finished) + TrailerLen <= Len(Finished)
        BY <1>14 DEF FinishPacket, AssertionsHold
      <4>2. Len(Finished) = Len(packet_buffer) + 1
        BY FinishedContent
      <4> HIDE DEF Finished
      <4> QED
        BY <3>1, <4>1, <4>2 DEF TrailerIndex, TrailerLen, HeaderLen
    <3> HIDE DEF Finished
    <3> QED
      BY <3>1, <3>2, FinishedContent, FramerAssumption
  <2>5. \A k \in 1..Len(delivered') :
           Len(delivered'[k].content) + 2 <= BufferLen
    <3>1. delivered \in Seq(Delivery)
      BY DEF TypeOK
    <3> DEFINE d == [content |-> SubSeq(Finished, 2, Len(Finished) - 1),
                     origins |-> origins \cup {Len(sent)}]
    <3>2. delivered' = Append(delivered, d) /\ Len(d.content) + 2 <= BufferLen
      BY <1>14, <2>4 DEF FinishPacket
    <3> HIDE DEF d
    <3>3. \A k \in 1..Len(delivered') :
             \/ k \in 1..Len(delivered) /\ delivered'[k] = delivered[k]
             \/ delivered'[k] = d
      BY <3>1, <3>2
    <3> QED
      BY <3>2, <3>3 DEF TypeOK
  <2> QED
    BY <1>2, <1>4, <1>14, <2>2, <2>3, <2>5 DEF FinishPacket, cleanup, TypeOK
<1>15. ASSUME NEW b \in Bytes, Abort(b)
       PROVE  TypeOK' /\ LineInv'
  <2>1. /\ packet_buffer' \in Seq(Bytes) /\ Len(packet_buffer') <= BufferLen
        /\ origins' \subseteq 1..MaxFrames
    BY <1>8, <1>9, <1>15 DEF Abort
  <2> QED
    BY <1>2, <1>4, <1>15, <2>1 DEF Abort, TypeOK
<1>16. CASE UNCHANGED vars
  BY <1>16 DEF vars, statics, line, TypeOK, LineInv, NeedsEscape, AtSop, AtEop,
               Frame
<1> QED
  BY <1>1, <1>3, <1>5, <1>6, <1>7, <1>10, <1>11, <1>12, <1>13, <1>14, <1>15,
     <1>16 DEF Next

-----------------------------------------------------------------------------
(***************************************************************************)
(* The framer keeps up with the line.                                      *)
(***************************************************************************)
\* What every arrival leaves as it was.
LEMMA ArrivalFacts ==
    ASSUME FramerInv, NEW b \in Bytes, Arrives(b)
    PROVE  /\ running /\ position \in Nat /\ position >= 1
           /\ b = NextByte /\ Advance
           /\ sent' = sent /\ harmed' = harmed /\ lost' = lost
           /\ Frame' = Frame /\ Intact' = Intact /\ Known' = Known
           /\ Fits(Frame)' = Fits(Frame)
           /\ Len(sent) \in Nat /\ Len(sent) >= 1
           /\ Len(packet_buffer) \in Nat
<1>1. /\ running /\ position # 0 /\ b = NextByte /\ Advance
      /\ harmed' = harmed /\ lost' = lost
  BY DEF Arrives
<1>2. sent' = sent /\ Len(sent) \in Nat /\ Len(sent) >= 1
  BY <1>1, FrameType DEF FramerInv, Advance
<1>3. position \in Nat /\ position >= 1 /\ Len(packet_buffer) \in Nat
  BY <1>1 DEF FramerInv, TypeOK
<1> QED
  BY <1>1, <1>2, <1>3 DEF Frame, Intact, Known, Fits

\* Which byte it was tells where the line is.
LEMMA ArrivalStep ==
    ASSUME FramerInv, NEW b \in Bytes, Arrives(b)
    PROVE  /\ b = SOP => position = 1 /\ position' = 2 /\ escaped' = FALSE
           /\ b = EOP => AtEop /\ position' = 0
           /\ b = ESP => position >= 2 /\ position' = position /\ escaped' = TRUE
           /\ b \notin Special =>
                 /\ ~AtSop /\ ~AtEop /\ ~(NeedsEscape /\ ~escaped)
                 /\ position >= 2 /\ position' = position + 1 /\ escaped' = FALSE
           /\ AtEop <=> position' = 0
<1>1. TypeOK /\ LineInv /\ position # 0 /\ Advance /\ b = NextByte
  BY ArrivalFacts DEF FramerInv
<1>2. position \in Nat /\ position >= 1
  BY ArrivalFacts
<1>3. /\ AtEop <=> position' = 0
      /\ NeedsEscape /\ ~escaped =>
            position' = position /\ position >= 2 /\ escaped' = TRUE
      /\ ~AtEop /\ ~(NeedsEscape /\ ~escaped) =>
            position' = position + 1 /\ escaped' = FALSE
  BY <1>1, AdvanceType, Zenon
<1>4. /\ b = SOP <=> AtSop
      /\ b = EOP <=> AtEop
      /\ b = ESP <=> NeedsEscape /\ ~escaped
  BY <1>1, NextByteKinds
<1>5. AtSop => ~AtEop
  BY <1>1, FrameType DEF AtSop, AtEop
<1>6. ASSUME b = SOP
      PROVE  position = 1 /\ position' = 2 /\ escaped' = FALSE
  <2>1. position' = position + 1 /\ escaped' = FALSE
    BY <1>3, <1>4, <1>5, <1>6, Zenon DEF NeedsEscape
  <2>2. position = 1
    BY <1>4, <1>6 DEF AtSop
  <2> QED
    BY <2>1, <2>2
<1>7. ASSUME b \notin Special
      PROVE  /\ ~AtSop /\ ~AtEop /\ ~(NeedsEscape /\ ~escaped)
             /\ position >= 2 /\ position' = position + 1 /\ escaped' = FALSE
  <2>1. ~AtSop /\ ~AtEop /\ ~(NeedsEscape /\ ~escaped)
    BY <1>4, <1>7 DEF Special
  <2>2. position >= 2
    BY <1>2, <2>1 DEF AtSop
  <2> QED
    BY <1>3, <2>1, <2>2, Zenon
<1> QED
  BY <1>3, <1>4, <1>6, <1>7, Zenon

\* A buffer that is full before the frame is out: the frame does not fit.
LEMMA FullBeforeEnd ==
    ASSUME FramerInv, running, position >= 2, Known, HasError
    PROVE  ~Fits(Frame)
<1>1. InStep \/ TooLong
  BY DEF FramerInv, SyncInv
<1>2. CASE TooLong
  BY <1>2 DEF TooLong
<1>3. CASE InStep
  <2>1. position # 0 /\ position \in Nat
    BY DEF FramerInv, TypeOK
  <2>2. Len(packet_buffer) >= BufferLen /\ Len(packet_buffer) = position - 1
    BY <1>3 DEF InStep, HasError
  <2>3. position <= Len(Frame) + 2 /\ Len(Frame) \in Nat
    BY <2>1, FrameType DEF FramerInv
  <2> QED
    BY <2>1, <2>2, <2>3, FramerAssumption DEF Fits
<1> QED
  BY <1>1, <1>2, <1>3

\* A frame that is in step stays in step with each byte that is stored.
LEMMA StoredInStep ==
    ASSUME FramerInv, NEW b \in Bytes, StoreByte(b), Known
    PROVE  InStep'
<1>1. /\ Arrives(b) /\ ~HasError /\ b \notin Special
      /\ Store(Unescape(b)) /\ escape' = FALSE
      /\ packet_error' = packet_error /\ start_of_packet' = start_of_packet
  BY DEF StoreByte
<1> HIDE DEF Unescape
<1>2. /\ running /\ position \in Nat /\ position >= 1 /\ b = NextByte /\ Advance
      /\ sent' = sent /\ Frame' = Frame
  BY <1>1, ArrivalFacts
<1>3. ~AtSop /\ ~AtEop /\ ~(NeedsEscape /\ ~escaped)
  BY <1>1, ArrivalStep
<1>4. position' = position + 1 /\ escaped' = FALSE /\ position >= 2
  BY <1>1, ArrivalStep, Zenon
<1>5. InStep
  BY <1>1, <1>2, <1>4 DEF FramerInv, SyncInv, TooLong, HasError
<1>6. Unescape(b) = Frame[position - 1]
  <2>1. Frame[position - 1] \in Bytes
    BY <1>2, <1>3, FrameType DEF FramerInv
  <2>2. CASE NeedsEscape
    BY <1>2, <1>3, <1>5, <2>1, <2>2, BytesAssumption
    DEF NextByte, Unescape, InStep
  <2>3. CASE ~NeedsEscape
    <3>1. ~escaped
      BY <2>3 DEF FramerInv, LineInv
    <3>2. ~escape
      BY <1>5, <3>1 DEF InStep
    <3> QED
      BY <1>2, <1>3, <2>3, <3>2 DEF NextByte, Unescape
  <2> QED
    BY <2>2, <2>3
<1>7. /\ packet_buffer' = Append(packet_buffer, Frame[position - 1])
      /\ origins' = origins \cup {Len(sent)}
  BY <1>1, <1>6 DEF Store
<1>8. /\ Len(packet_buffer') = position
      /\ packet_buffer'[position] = Frame[position - 1]
      /\ \A i \in 1..(position - 1) : packet_buffer'[i] = packet_buffer[i]
  <2>1. packet_buffer \in Seq(Bytes) /\ Len(packet_buffer) = position - 1
    BY <1>5 DEF FramerInv, TypeOK, InStep
  <2>2. Frame[position - 1] \in Bytes
    BY <1>2, <1>3, FrameType DEF FramerInv
  <2> QED
    BY <1>2, <1>7, <2>1, <2>2
<1>9. \A i \in 2..(position' - 1) : packet_buffer'[i] = Frame[i - 1]
  BY <1>2, <1>4, <1>5, <1>8 DEF InStep
<1>10. packet_buffer'[1] = SOP
  BY <1>4, <1>2, <1>5, <1>8 DEF InStep
<1>11. /\ ~packet_error' /\ start_of_packet' /\ escape' = escaped'
       /\ origins' = {Len(sent')}
       /\ Len(packet_buffer') = position' - 1
  <2>1. escape' = escaped'
    BY <1>1, <1>4
  <2>2. Len(packet_buffer') = position' - 1
    BY <1>2, <1>4, <1>8
  <2> QED
    BY <1>1, <1>2, <1>5, <1>7, <2>1, <2>2 DEF InStep
<1> QED
  BY <1>2, <1>9, <1>10, <1>11 DEF InStep

LEMMA SyncStep ==
    ASSUME FramerInv, [Next]_vars
    PROVE  SyncInv'
<1> USE DEF SyncInv
<1>1. ASSUME NEW c \in Contents, StartFrame(c)
      PROVE  SyncInv'
  <2>1. /\ position = 0 /\ position' = 1 /\ running
        /\ UNCHANGED <<packet_buffer, packet_error, start_of_packet,
                       end_of_packet, escape, origins, harmed>>
    BY <1>1 DEF StartFrame, statics
  <2>2. Len(sent') - 1 = Len(sent)
    BY <1>1 DEF StartFrame, FramerInv, TypeOK
  <2>3. Known' => Intact
    BY <2>1, <2>2 DEF Known, Intact
  <2>4. Known' => Settled'
    BY <2>1, <2>3 DEF FramerInv, Settled
  <2> QED
    BY <2>1, <2>4 DEF FramerInv
<1>2. CASE LoseByte
  <2>1. sent' = sent /\ ~Intact' /\ ~Known'
    BY <1>2 DEF LoseByte, Advance, Intact, Known
  <2> QED
    BY <1>2, <2>1 DEF FramerInv, LoseByte, statics
<1>3. ASSUME NEW b \in Bytes, DropByte(b)
      PROVE  SyncInv'
  <2>1. /\ Arrives(b) /\ HasError /\ b # SOP /\ packet_error' = TRUE
        /\ packet_buffer' = packet_buffer /\ origins' = origins
    BY <1>3 DEF DropByte
  <2>2. /\ running /\ position >= 2 /\ Known' = Known
        /\ Fits(Frame)' = Fits(Frame)
    BY <2>1, ArrivalFacts, NextByteKinds DEF FramerInv, AtSop
  <2>3. Known' => TooLong'
    BY <2>1, <2>2, FullBeforeEnd DEF TooLong
  <2> QED
    BY <2>1, <2>2, <2>3 DEF FramerInv, Settled
<1>4. ASSUME NEW b \in Bytes, b = SOP, Arrives(b)
      PROVE  position = 1 /\ position' = 2 /\ escaped' = FALSE
  BY <1>4, ArrivalStep, Zenon
<1>a. ASSUME packet_buffer' = <<SOP>>, origins' = {Len(sent')}, position' = 2,
             ~packet_error', start_of_packet', escape' = FALSE, escaped' = FALSE
      PROVE  InStep'
  <2>1. /\ Len(packet_buffer') = position' - 1 /\ packet_buffer'[1] = SOP
        /\ 2..(position' - 1) = {}
    BY <1>a
  <2> QED
    BY <1>a, <2>1, Zenon DEF InStep
<1>5. ASSUME NEW b \in Bytes, Resynchronize(b)
      PROVE  SyncInv'
  <2>1. /\ Arrives(b) /\ b = SOP
        /\ packet_buffer' = <<SOP>> /\ origins' = {Len(sent)}
        /\ packet_error' = FALSE /\ start_of_packet' = TRUE
        /\ end_of_packet' = FALSE /\ escape' = FALSE
    BY <1>5 DEF Resynchronize
  <2>2. position' = 2 /\ escaped' = FALSE /\ sent' = sent
    BY <1>4, <2>1, ArrivalFacts, Zenon
  <2>3. InStep'
    BY <1>a, <2>1, <2>2, Zenon
  <2> QED
    BY <2>1, <2>2, <2>3
<1>6. ASSUME NEW b \in Bytes, RejectSop(b)
      PROVE  SyncInv'
  <2>1. /\ Arrives(b) /\ b = SOP /\ ~HasError /\ SopOutOfPlace
        /\ packet_error' = TRUE /\ packet_buffer' = packet_buffer
        /\ origins' = origins
    BY <1>6 DEF RejectSop
  <2>2. running /\ position = 1 /\ position' = 2 /\ Known' = Known
    BY <1>4, <2>1, ArrivalFacts
  <2>3. ~Known
    BY <2>1, <2>2 DEF FramerInv, Settled, HasError, SopOutOfPlace
  <2> QED
    BY <2>1, <2>2, <2>3 DEF FramerInv
<1>7. ASSUME NEW b \in Bytes, StartPacket(b)
      PROVE  SyncInv'
  <2>1. /\ Arrives(b) /\ b = SOP /\ ~HasError /\ ~SopOutOfPlace /\ Store(SOP)
        /\ start_of_packet' = TRUE
        /\ UNCHANGED <<packet_error, end_of_packet, escape>>
    BY <1>7 DEF StartPacket
  <2>2. /\ running /\ position = 1 /\ position' = 2 /\ escaped' = FALSE
        /\ Known' = Known /\ sent' = sent
    BY <1>4, <2>1, ArrivalFacts, Zenon
  <2>3. packet_buffer = <<>> /\ origins = {} /\ ~packet_error
    BY <2>1, <2>2 DEF FramerInv, SopOutOfPlace, HasError
  <2>4. packet_buffer' = <<SOP>> /\ origins' = {Len(sent')}
    BY <2>1, <2>2, <2>3 DEF Store
  <2>5. Known => escape = FALSE
    BY <2>2, <2>3 DEF FramerInv, Settled, TypeOK
  <2>6. Known' => InStep'
    BY <1>a, <2>1, <2>2, <2>3, <2>4, <2>5, Zenon
  <2> QED
    BY <2>1, <2>2, <2>3, <2>4, <2>6 DEF FramerInv
<1>8. ASSUME NEW b \in Bytes, StartEscape(b)
      PROVE  SyncInv'
  <2>1. /\ Arrives(b) /\ b = ESP /\ ~HasError /\ escape' = TRUE
        /\ UNCHANGED <<packet_buffer, packet_error, start_of_packet,
                       end_of_packet, origins>>
    BY <1>8 DEF StartEscape
  <2>2. /\ running /\ Known' = Known /\ Intact' = Intact
        /\ sent' = sent /\ Frame' = Frame
    BY <2>1, ArrivalFacts
  <2>3. position' = position /\ position >= 2 /\ escaped' = TRUE
    BY <2>1, ArrivalStep, Zenon
  <2>4. Known => InStep
    BY <2>1, <2>2, <2>3 DEF FramerInv, TooLong, HasError
  <2>5. Known' => InStep'
    BY <2>1, <2>2, <2>3, <2>4, Zenon DEF InStep
  <2> QED
    BY <2>1, <2>2, <2>3, <2>5 DEF FramerInv
<1>9. ASSUME NEW b \in Bytes, StoreByte(b)
      PROVE  SyncInv'
  <2>1. /\ Arrives(b) /\ b \notin Special /\ ~HasError /\ Store(Unescape(b))
        /\ UNCHANGED <<packet_error, start_of_packet, end_of_packet, running>>
    BY <1>9 DEF StoreByte
  <2>2. /\ running /\ Known' = Known /\ Intact' = Intact
    BY <2>1, ArrivalFacts
  <2>3. position' = position + 1 /\ position >= 2 /\ position \in Nat
    BY <2>1, ArrivalFacts, ArrivalStep, Zenon
  <2>4. packet_buffer' # <<>>
    BY <2>1 DEF Store, FramerInv, TypeOK
  <2>5. Known' => InStep'
    BY <1>9, <2>2, StoredInStep
  <2>6. Intact' => start_of_packet' \/ packet_error'
    BY <2>1, <2>2, <2>3 DEF FramerInv
  <2> QED
    BY <2>1, <2>2, <2>3, <2>4, <2>5, <2>6 DEF FramerInv
<1>10. ASSUME NEW b \in Bytes, b = EOP, Arrives(b)
       PROVE  position' = 0
  BY <1>10, ArrivalStep, Zenon
<1>11. ASSUME NEW b \in Bytes, RejectEop(b)
       PROVE  SyncInv'
  <2>1. packet_buffer' # <<>> /\ packet_error' = TRUE
    BY <1>11 DEF RejectEop, Store, FramerInv, TypeOK
  <2>2. position' = 0
    BY <1>10, <1>11 DEF RejectEop
  <2> QED
    BY <2>1, <2>2 DEF Settled
<1>12. ASSUME NEW b \in Bytes, FinishPacket(b)
       PROVE  SyncInv'
  <2>1. position' = 0
    BY <1>10, <1>12 DEF FinishPacket
  <2> QED
    BY <1>12, <2>1 DEF FinishPacket, cleanup, Settled
<1>13. ASSUME NEW b \in Bytes, Abort(b)
       PROVE  SyncInv'
  BY <1>13 DEF Abort
<1>14. CASE UNCHANGED vars
  BY <1>14 DEF FramerInv, vars, statics, line, Settled, InStep, TooLong, Known,
               Intact, Frame, Fits
<1> QED
  BY <1>1, <1>2, <1>3, <1>5, <1>6, <1>7, <1>8, <1>9, <1>11, <1>12, <1>13,
     <1>14 DEF Next

-----------------------------------------------------------------------------
(***************************************************************************)
(* What verify_packet is given.                                            *)
(***************************************************************************)
\* A frame in step is finished as a whole, and passes the assertions.
LEMMA FinishedInStep ==
    ASSUME FramerInv, running, position >= 2, AtEop, InStep
    PROVE  /\ AssertionsHold(Finished)
           /\ [content |-> SubSeq(Finished, 2, Len(Finished) - 1),
               origins |-> origins \cup {Len(sent)}] = WholeFrame(Len(sent))
<1>1. /\ Len(packet_buffer) = Len(Frame) + 1 /\ Len(Frame) \in Nat
      /\ Len(Frame) >= 5 /\ Frame \in Seq(Bytes)
      /\ position = Len(Frame) + 2
  <2>1. position # 0
    BY DEF FramerInv, TypeOK
  <2> QED
    BY <2>1, FrameType DEF FramerInv, InStep, AtEop
<1>2. /\ Finished \in Seq(Bytes) /\ Len(Finished) = Len(Frame) + 2
      /\ \A i \in 1..(Len(Frame) + 1) : Finished[i] = packet_buffer[i]
      /\ Finished[Len(Finished)] = EOP
  BY <1>1, FinishedContent DEF FramerInv
<1> HIDE DEF Finished
<1>3. Finished[1] = SOP
  BY <1>1, <1>2 DEF InStep
<1>4. TrailerIndex(Finished) + TrailerLen = Len(Finished)
  BY <1>1, <1>2 DEF TrailerIndex, TrailerLen, HeaderLen
<1>5. AssertionsHold(Finished)
  BY <1>1, <1>2, <1>3, <1>4 DEF AssertionsHold
<1>6. \A i \in 1..Len(Frame) : Finished[i + 1] = Frame[i]
  <2> SUFFICES ASSUME NEW i \in 1..Len(Frame)
               PROVE  Finished[i + 1] = Frame[i]
    OBVIOUS
  <2>1. Finished[i + 1] = packet_buffer[i + 1]
    BY <1>1, <1>2
  <2>2. i + 1 \in 2..(position - 1) /\ (i + 1) - 1 = i
    BY <1>1
  <2> QED
    BY <2>1, <2>2 DEF InStep
<1>7. SubSeq(Finished, 2, Len(Finished) - 1) = Frame
  <2>1. /\ SubSeq(Finished, 2, Len(Finished) - 1)
              = [i \in 1..Len(Frame) |-> Finished[i + 1]]
    BY <1>1, <1>2
  <2>2. Frame = [i \in 1..Len(Frame) |-> Frame[i]]
    BY <1>1
  <2> QED
    BY <1>6, <2>1, <2>2
<1>8. origins \cup {Len(sent)} = {Len(sent)}
  BY DEF InStep
<1> QED
  BY <1>5, <1>7, <1>8 DEF WholeFrame, Frame

\* When the last byte of an intact frame that fits, after an intact one, has
\* arrived, so has the frame.
LEMMA KnownFrameArrives ==
    ASSUME FramerInv, NEW b \in Bytes, Arrives(b), AtEop, Known, Fits(Frame),
           \/ DropByte(b) \/ RejectEop(b) \/ FinishPacket(b) \/ Abort(b)
    PROVE  /\ FinishPacket(b)
           /\ delivered' = Append(delivered, WholeFrame(Len(sent)))
<1>1. running /\ position # 0 /\ position >= 2
  <2>1. running /\ position # 0
    BY DEF Arrives
  <2>2. Len(Frame) \in Nat /\ Len(Frame) >= 5
    BY <2>1, FrameType DEF FramerInv
  <2> QED
    BY <2>1, <2>2 DEF AtEop
<1>2. ~HasError
  BY <1>1, FullBeforeEnd
<1>3. InStep
  BY <1>1 DEF FramerInv, SyncInv, TooLong
<1>4. FinishPacket(b)
  BY <1>1, <1>2, <1>3, FinishedInStep DEF DropByte, RejectEop, Abort, InStep
<1> QED
  BY <1>1, <1>3, <1>4, FinishedInStep DEF FinishPacket

\* How the number of frames that are out changes.
LEMMA OutCountStep ==
    ASSUME FramerInv, position # 0, Advance
    PROVE  /\ OutCount = Len(sent) - 1 /\ Len(sent) \in Nat /\ Len(sent) >= 1
           /\ sent' = sent
           /\ AtEop => OutCount' = Len(sent)
           /\ ~AtEop => OutCount' = OutCount
<1>1. sent' = sent /\ (AtEop <=> position' = 0)
  BY AdvanceType DEF FramerInv
<1>2. Len(sent) \in Nat /\ Len(sent) >= 1
  BY FrameType DEF FramerInv
<1> QED
  BY <1>1, <1>2 DEF OutCount

\* What has arrived stays so.
LEMMA ArrivedStays ==
    ASSUME FramerInv, NEW i \in 1..OutCount, Arrived(i),
           sent'[i] = sent[i],
           \/ delivered' = delivered
           \/ \E d \in Delivery : delivered' = Append(delivered, d)
    PROVE  Arrived(i)'
<1>1. PICK k \in 1..Len(delivered) : delivered[k] = WholeFrame(i)
  BY DEF Arrived
<1>2. delivered \in Seq(Delivery)
  BY DEF FramerInv, TypeOK
<1>3. k \in 1..Len(delivered') /\ delivered'[k] = delivered[k]
  BY <1>2
<1>4. WholeFrame(i)' = WholeFrame(i)
  BY DEF WholeFrame
<1> QED
  BY <1>1, <1>3, <1>4 DEF Arrived

\* What a step does to delivered, sent and harmed.
LEMMA HistoryStep ==
    ASSUME FramerInv, [Next]_vars
    PROVE  /\ running' => running
           /\ harmed \subseteq harmed'
           /\ \A i \in 1..OutCount : sent'[i] = sent[i]
           /\ \/ delivered' = delivered
              \/ \E d \in Delivery : delivered' = Append(delivered, d)
           /\ \/ OutCount' = OutCount
              \/ /\ position # 0 /\ Advance /\ AtEop
                 /\ OutCount = Len(sent) - 1 /\ OutCount' = Len(sent)
<1>1. ASSUME NEW c \in Contents, StartFrame(c)
      PROVE  /\ \A i \in 1..OutCount : sent'[i] = sent[i]
             /\ OutCount' = OutCount
             /\ UNCHANGED <<running, harmed, delivered>>
  <2>1. /\ sent' = Append(sent, c) /\ position = 0 /\ position' = 1
        /\ sent \in Seq(Contents) /\ Len(sent) \in Nat
    BY <1>1 DEF StartFrame, FramerInv, TypeOK
  <2>2. Len(sent') = Len(sent) + 1 /\ \A i \in 1..Len(sent) : sent'[i] = sent[i]
    BY <2>1
  <2>3. OutCount = Len(sent) /\ OutCount' = Len(sent)
    BY <2>1, <2>2 DEF OutCount
  <2> QED
    BY <1>1, <2>2, <2>3 DEF StartFrame
<1>2. ASSUME position # 0, Advance
      PROVE  /\ \A i \in 1..OutCount : sent'[i] = sent[i]
             /\ \/ OutCount' = OutCount
                \/ /\ position # 0 /\ Advance /\ AtEop
                   /\ OutCount = Len(sent) - 1 /\ OutCount' = Len(sent)
  BY <1>2, OutCountStep
<1>3. CASE LoseByte
  BY <1>2, <1>3 DEF LoseByte
<1>4. ASSUME NEW b \in Bytes, Arrives(b)
      PROVE  position # 0 /\ Advance /\ harmed' = harmed /\ running
  BY <1>4 DEF Arrives
<1>5. ASSUME NEW b \in Bytes,
             \/ DropByte(b) \/ Resynchronize(b) \/ RejectSop(b)
             \/ StartPacket(b) \/ StartEscape(b) \/ StoreByte(b)
             \/ RejectEop(b) \/ Abort(b)
      PROVE  Arrives(b) /\ delivered' = delivered
  BY <1>5 DEF DropByte, Resynchronize, RejectSop, StartPacket, StartEscape,
              StoreByte, RejectEop, Abort
<1>6. ASSUME NEW b \in Bytes, FinishPacket(b)
      PROVE  /\ Arrives(b)
             /\ \E d \in Delivery : delivered' = Append(delivered, d)
  <2>1. Arrives(b)
    BY <1>6 DEF FinishPacket
  <2>2. origins \cup {Len(sent)} \subseteq 1..MaxFrames
    BY <1>4, <2>1, FrameType DEF FramerInv, TypeOK
  <2>3. SubSeq(Finished, 2, Len(Finished) - 1) \in Seq(Bytes)
    BY FinishedContent DEF FramerInv
  <2> QED
    BY <1>6, <2>1, <2>2, <2>3 DEF FinishPacket, Delivery
<1>7. CASE UNCHANGED vars
  BY <1>7 DEF vars, line, OutCount
<1>8. CASE \E b \in Bytes :
             \/ DropByte(b) \/ Resynchronize(b) \/ RejectSop(b)
             \/ StartPacket(b) \/ StartEscape(b) \/ StoreByte(b)
             \/ RejectEop(b) \/ FinishPacket(b) \/ Abort(b)
  BY <1>2, <1>4, <1>5, <1>6, <1>8
<1> QED
  BY <1>1, <1>3, <1>7, <1>8 DEF Next

\* The frame that goes out with this step has arrived if it should.
LEMMA LastFrameArrives ==
    ASSUME FramerInv, [Next]_vars, running', AtEop, position # 0, Advance,
           Fits(Frame), Len(sent) \notin harmed', Len(sent) - 1 \notin harmed'
    PROVE  Arrived(Len(sent))'
<1>1. sent' = sent /\ Len(sent) \in Nat /\ position' = 0
  BY FrameType, AdvanceType DEF FramerInv
<1>2. ~LoseByte
  BY DEF LoseByte
<1>3. ASSUME NEW b \in Bytes, Arrives(b)
      PROVE  b = EOP /\ b # SOP /\ b # ESP
  BY <1>3, ArrivalFacts, NextByteKinds, BytesAssumption DEF FramerInv, Special
<1>4. PICK b \in Bytes :
         Arrives(b) /\ (DropByte(b) \/ RejectEop(b) \/ FinishPacket(b) \/ Abort(b))
  <2>1. \A c \in Contents : ~StartFrame(c)
    BY DEF StartFrame
  <2>2. vars' # vars
    BY <1>1 DEF vars, line
  <2>3. ASSUME NEW b \in Bytes
        PROVE  ~(\/ Resynchronize(b) \/ RejectSop(b) \/ StartPacket(b)
                 \/ StartEscape(b) \/ StoreByte(b))
    BY <1>3 DEF Resynchronize, RejectSop, StartPacket, StartEscape, StoreByte,
                Special
  <2> QED
    BY <1>2, <2>1, <2>2, <2>3 DEF Next, DropByte, RejectEop, FinishPacket, Abort
<1>5. Known
  BY <1>4, ArrivalFacts DEF Known, Intact
<1>6. delivered' = Append(delivered, WholeFrame(Len(sent)))
  BY <1>4, <1>5, KnownFrameArrives
<1>7. delivered \in Seq(Delivery) /\ WholeFrame(Len(sent))' = WholeFrame(Len(sent))
  BY <1>1 DEF FramerInv, TypeOK, WholeFrame
<1>8. Len(delivered) \in Nat /\ Len(delivered') = Len(delivered) + 1
      /\ delivered'[Len(delivered) + 1] = WholeFrame(Len(sent))
  BY <1>6, <1>7
<1>9. Len(delivered) + 1 \in 1..Len(delivered')
  BY <1>8
<1> QED
  BY <1>1, <1>7, <1>8, <1>9 DEF Arrived

LEMMA RecoversStep ==
    ASSUME FramerInv, [Next]_vars
    PROVE  RecoversAfterOneFrame'
<1> SUFFICES ASSUME running', NEW i \in 1..OutCount',
                    Fits(sent'[i]), i \notin harmed', i - 1 \notin harmed'
             PROVE  Arrived(i)'
  BY DEF RecoversAfterOneFrame, Fits
<1>1. CASE i \in 1..OutCount
  <2>1. sent'[i] = sent[i] /\ i \notin harmed /\ i - 1 \notin harmed /\ running
    BY <1>1, HistoryStep
  <2>2. Arrived(i)
    BY <1>1, <2>1 DEF FramerInv, RecoversAfterOneFrame
  <2> QED
    BY <1>1, <2>1, <2>2, ArrivedStays, HistoryStep
<1>2. CASE i \notin 1..OutCount
  <2>1. /\ position # 0 /\ Advance /\ AtEop
        /\ OutCount = Len(sent) - 1 /\ OutCount' = Len(sent)
    BY <1>2, HistoryStep
  <2>2. i = Len(sent) /\ sent' = sent
    BY <1>2, <2>1, OutCountStep
  <2> QED
    BY <2>1, <2>2, LastFrameArrives DEF Frame
<1> QED
  BY <1>1, <1>2

\* Without losses every packet that is finished is the frame that goes out.
LEMMA FinishedIsFrame ==
    ASSUME FramerInv, [Next]_vars, lost' = 0
    PROVE  /\ lost = 0 /\ harmed = {} /\ harmed' = {} /\ running'
           /\ \/ delivered' = delivered
              \/ /\ delivered' = Append(delivered, WholeFrame(Len(sent)))
                 /\ position # 0 /\ Advance /\ AtEop
<1>1. lost \in Nat
  BY FramerAssumption DEF FramerInv, TypeOK
<1>2. ~LoseByte
  BY <1>1 DEF LoseByte
<1>3. lost = 0 /\ harmed' = harmed
  BY <1>2 DEF Next, StartFrame, DropByte, Resynchronize, RejectSop, StartPacket,
              StartEscape, StoreByte, RejectEop, FinishPacket, Abort, Arrives, vars
<1>4. harmed = {} /\ running
  BY <1>3 DEF FramerInv, LostInv, FramesArriveIntact
<1>5. Known
  BY <1>4 DEF Known, Intact
<1>6. ASSUME NEW b \in Bytes, FinishPacket(b) \/ Abort(b)
      PROVE  /\ FinishPacket(b) /\ running'
             /\ delivered' = Append(delivered, WholeFrame(Len(sent)))
             /\ position # 0 /\ Advance /\ AtEop
  <2>1. Arrives(b) /\ b = EOP /\ ~HasError
    BY <1>6 DEF FinishPacket, Abort
  <2>2. AtEop /\ position # 0 /\ Advance
    BY <2>1, ArrivalStep DEF Arrives
  <2>3. position >= 2 /\ running
    <3>1. Len(Frame) \in Nat
      BY <2>2, FrameType DEF FramerInv
    <3> QED
      BY <1>4, <2>2, <3>1 DEF AtEop
  <2>4. InStep
    BY <1>5, <2>1, <2>3 DEF FramerInv, SyncInv, TooLong, HasError
  <2>5. FinishPacket(b)
    BY <1>6, <2>2, <2>3, <2>4, FinishedInStep DEF Abort
  <2> QED
    BY <1>4, <2>2, <2>3, <2>4, <2>5, FinishedInStep DEF FinishPacket
<1>7. ASSUME NEW b \in Bytes,
             \/ DropByte(b) \/ Resynchronize(b) \/ RejectSop(b)
             \/ StartPacket(b) \/ StartEscape(b) \/ StoreByte(b) \/ RejectEop(b)
      PROVE  UNCHANGED <<delivered, running>>
  BY <1>7 DEF DropByte, Resynchronize, RejectSop, StartPacket, StartEscape,
              StoreByte, RejectEop
<1>8. ASSUME NEW c \in Contents, StartFrame(c)
      PROVE  UNCHANGED <<delivered, running>>
  BY <1>8 DEF StartFrame
<1>9. CASE UNCHANGED vars
  BY <1>3, <1>4, <1>9 DEF vars
<1> QED
  BY <1>2, <1>3, <1>4, <1>6, <1>7, <1>8, <1>9 DEF Next

LEMMA IntactStep ==
    ASSUME FramerInv, [Next]_vars, RecoversAfterOneFrame'
    PROVE  FramesArriveIntact'
<1> SUFFICES ASSUME lost' = 0
             PROVE  FramesArriveIntact'
  BY DEF FramesArriveIntact
<1> DEFINE InOrder(d, k, i) ==
              /\ d[k] = WholeFrame(i)
              /\ \A l \in 1..(k - 1) : \A j \in d[l].origins : j < i
<1>1. /\ lost = 0 /\ harmed = {} /\ harmed' = {} /\ running'
      /\ delivered \in Seq(Delivery) /\ Len(delivered) \in Nat
      /\ OutCount \in Int
  BY FinishedIsFrame DEF FramerInv, TypeOK, OutCount
<1>2. \A k \in 1..Len(delivered) : \E i \in 1..OutCount : InOrder(delivered, k, i)
  BY <1>1 DEF FramerInv, FramesArriveIntact
<1>3. /\ OutCount' \in Int /\ OutCount' >= OutCount
      /\ \A i \in 1..OutCount : WholeFrame(i)' = WholeFrame(i)
  <2>1. \A i \in 1..OutCount : sent'[i] = sent[i]
    BY HistoryStep
  <2>2. OutCount' \in Int /\ OutCount' >= OutCount
    BY <1>1, HistoryStep
  <2> QED
    BY <2>1, <2>2 DEF WholeFrame
<1>4. \A k \in 1..Len(delivered') :
         \E i \in 1..OutCount' :
            /\ delivered'[k] = WholeFrame(i)'
            /\ \A l \in 1..(k - 1) : \A j \in delivered'[l].origins : j < i
  <2>1. CASE delivered' = delivered
    <3> SUFFICES ASSUME NEW k \in 1..Len(delivered)
                 PROVE  \E i \in 1..OutCount' :
                           /\ delivered[k] = WholeFrame(i)'
                           /\ \A l \in 1..(k - 1) :
                                 \A j \in delivered[l].origins : j < i
      BY <2>1
    <3>1. PICK i \in 1..OutCount : InOrder(delivered, k, i)
      BY <1>2
    <3>2. i \in 1..OutCount' /\ delivered[k] = WholeFrame(i)'
      BY <1>1, <1>3, <3>1
    <3> QED
      BY <3>1, <3>2
  <2>2. CASE /\ delivered' = Append(delivered, WholeFrame(Len(sent)))
             /\ position # 0 /\ Advance /\ AtEop
    <3>1. /\ OutCount = Len(sent) - 1 /\ OutCount' = Len(sent) /\ sent' = sent
          /\ Len(sent) \in Nat /\ Len(sent) >= 1
      BY <2>2, OutCountStep
    <3>2. /\ Len(delivered') = Len(delivered) + 1
          /\ \A k \in 1..Len(delivered) : delivered'[k] = delivered[k]
          /\ delivered'[Len(delivered) + 1] = WholeFrame(Len(sent))
      BY <1>1, <2>2
    <3>3. ASSUME NEW k \in 1..Len(delivered)
          PROVE  \E i \in 1..OutCount' :
                    /\ delivered'[k] = WholeFrame(i)'
                    /\ \A l \in 1..(k - 1) : \A j \in delivered'[l].origins : j < i
      <4>1. PICK i \in 1..OutCount : InOrder(delivered, k, i)
        BY <1>2
      <4>2. i \in 1..OutCount' /\ delivered'[k] = WholeFrame(i)'
        BY <1>1, <1>3, <3>2, <4>1
      <4>3. \A l \in 1..(k - 1) : delivered'[l] = delivered[l]
        BY <1>1, <3>2
      <4> QED
        BY <4>1, <4>2, <4>3
    <3>4. ASSUME NEW l \in 1..Len(delivered), NEW j \in delivered'[l].origins
          PROVE  j < Len(sent)
      <4>1. PICK i \in 1..OutCount : InOrder(delivered, l, i)
        BY <1>2
      <4>2. delivered'[l].origins = {i}
        BY <3>2, <4>1 DEF WholeFrame
      <4> QED
        BY <3>1, <4>1, <4>2
    <3>5. /\ Len(sent) \in 1..OutCount'
          /\ delivered'[Len(delivered) + 1] = WholeFrame(Len(sent))'
          /\ (Len(delivered) + 1) - 1 = Len(delivered)
      BY <1>1, <3>1, <3>2 DEF WholeFrame
    <3>6. \E i \in 1..OutCount' :
             /\ delivered'[Len(delivered) + 1] = WholeFrame(i)'
             /\ \A l \in 1..((Len(delivered) + 1) - 1) :
                   \A j \in delivered'[l].origins : j < i
      BY <3>1, <3>4, <3>5 DEF WholeFrame
    <3>7. \A k \in 1..Len(delivered') :
             k \in 1..Len(delivered) \/ k = Len(delivered) + 1
      BY <1>1, <3>2
    <3> QED
      BY <3>3, <3>6, <3>7
  <2> QED
    BY <2>1, <2>2, FinishedIsFrame
<1>5. \A i \in 1..OutCount' : Fits(sent'[i]) => Arrived(i)'
  BY <1>1 DEF RecoversAfterOneFrame, Fits
<1> QED
  BY <1>1, <1>4, <1>5 DEF FramesArriveIntact, Fits

-----------------------------------------------------------------------------
(***************************************************************************)
(* The theorems.                                                           *)
(***************************************************************************)
LEMMA FramerInit == Init => FramerInv
<1> SUFFICES ASSUME Init
             PROVE  FramerInv
  OBVIOUS
<1>1. TypeOK
  <2>1. /\ packet_buffer \in Seq(Bytes) /\ Len(packet_buffer) <= BufferLen
        /\ sent \in Seq(Contents) /\ Len(sent) <= MaxFrames
        /\ delivered \in Seq(Delivery) /\ Len(delivered) = 0
    BY FramerAssumption DEF Init, HeaderLen, TrailerLen
  <2>2. /\ packet_error \in BOOLEAN /\ start_of_packet \in BOOLEAN
        /\ end_of_packet \in BOOLEAN /\ escape \in BOOLEAN
        /\ running \in BOOLEAN /\ escaped \in BOOLEAN
    BY DEF Init
  <2>3. position = 0 /\ lost \in 0..MaxLost /\ origins = {} /\ harmed = {}
    BY FramerAssumption DEF Init
  <2> QED
    BY <2>1, <2>2, <2>3 DEF TypeOK
<1>2. OutCount = 0 /\ Len(delivered) = 0
  BY DEF Init, OutCount
<1>3. RecoversAfterOneFrame /\ FramesArriveIntact
  BY <1>2 DEF Init, RecoversAfterOneFrame, FramesArriveIntact
<1> QED
  BY <1>1, <1>3 DEF Init, FramerInv, LineInv, LostInv, SyncInv, Settled

LEMMA FramerStep == FramerInv /\ [Next]_vars => FramerInv'
<1> SUFFICES ASSUME FramerInv, [Next]_vars
             PROVE  FramerInv'
  OBVIOUS
<1>1. TypeOK' /\ LineInv'
  BY FramerTypeStep DEF FramerInv
<1>2. SyncInv' /\ RecoversAfterOneFrame'
  BY SyncStep, RecoversStep
<1>3. FramesArriveIntact'
  BY <1>2, IntactStep
<1>4. LostInv'
  BY FinishedIsFrame DEF LostInv
<1> QED
  BY <1>1, <1>2, <1>3, <1>4 DEF FramerInv

LEMMA FramerInvariant == Spec => []FramerInv
  BY FramerInit, FramerStep, PTL DEF Spec

\* The buffer of the framer is never written past its end, whatever is lost
\* of whatever is sent (packet_helper.c:64).
THEOREM FramerTypeCorrect == Spec => []TypeOK
<1>1. FramerInv => TypeOK
  BY DEF FramerInv
<1> QED
  BY <1>1, FramerInvariant, PTL

\* On a line without losses verify_packet is given exactly the frames that
\* fit, in order, and its assertions hold (packet_helper.c:33 to 133).
THEOREM FramerArriveIntact == Spec => []FramesArriveIntact
<1>1. FramerInv => FramesArriveIntact
  BY DEF FramerInv
<1> QED
  BY <1>1, FramerInvariant, PTL

\* An intact frame that follows an intact frame arrives, whatever was lost
\* before (packet_helper.c:72 to 92).
THEOREM FramerRecovers == Spec => []RecoversAfterOneFrame
<1>1. FramerInv => RecoversAfterOneFrame
  BY DEF FramerInv
<1> QED
  BY <1>1, FramerInvariant, PTL

-----------------------------------------------------------------------------
(***************************************************************************)
(* One lost byte.  The packet in the buffer that is not in error is of the *)
(* frame on the line; what is left of a frame that lost its EOP stays only *)
(* until the next SOP, which is not lost as well.                          *)
(***************************************************************************)
JoinInv ==
    lost <= 1 /\ running /\ start_of_packet /\ ~packet_error =>
        /\ position >= 2 => origins = {Len(sent)}
        /\ position <= 1 => lost = 1

\* Where the line is after a byte that is lost or arrives.
LEMMA NextPosition ==
    ASSUME FramerInv, position # 0, Advance
    PROVE  /\ sent' = sent /\ position \in Nat /\ position' \in Nat
           /\ AtSop <=> position = 1
           /\ AtSop => position' = 2
           /\ AtEop => position >= 2 /\ position' = 0
           /\ ~AtSop /\ ~AtEop => position >= 2 /\ position' >= 2
<1>1. /\ sent' = sent /\ position' \in Nat
      /\ AtEop <=> position' = 0
      /\ NeedsEscape /\ ~escaped => position' = position /\ position >= 2
      /\ ~AtEop /\ ~(NeedsEscape /\ ~escaped) => position' = position + 1
  BY AdvanceType DEF FramerInv
<1>2. position \in Nat /\ position >= 1 /\ Len(Frame) \in Nat /\ Len(Frame) >= 5
  BY FrameType DEF FramerInv
<1>3. (AtEop => position >= 2) /\ (AtSop <=> position = 1) /\ (AtSop => ~AtEop /\ ~NeedsEscape)
  BY <1>2 DEF AtEop, AtSop, NeedsEscape
<1> QED
  BY <1>1, <1>2, <1>3

LEMMA JoinStep ==
    ASSUME FramerInv, JoinInv, [Next]_vars
    PROVE  JoinInv'
<1>0. lost \in Nat /\ SyncInv
  BY FramerAssumption DEF FramerInv, TypeOK
<1>1. ASSUME NEW c \in Contents, StartFrame(c)
      PROVE  JoinInv'
  BY <1>1 DEF StartFrame, statics, JoinInv
<1>2. CASE LoseByte
  <2>1. /\ lost' = lost + 1 /\ position # 0 /\ Advance
        /\ UNCHANGED <<statics, running, origins>>
    BY <1>2 DEF LoseByte
  <2>2. /\ sent' = sent /\ position \in Nat /\ position' \in Nat
        /\ position' >= 2 => position >= 1
    BY <2>1, NextPosition
  <2>3. position <= 1 /\ start_of_packet /\ ~packet_error /\ running => ~(lost' <= 1)
    BY <1>0, <2>1, <2>2 DEF JoinInv
  <2>4. lost' <= 1 => lost' = 1 /\ lost <= 1
    BY <1>0, <2>1
  <2> QED
    BY <2>1, <2>2, <2>3, <2>4 DEF JoinInv, statics
<1>3. ASSUME NEW b \in Bytes, Arrives(b)
      PROVE  /\ sent' = sent /\ lost' = lost /\ running
             /\ position \in Nat /\ position' \in Nat
             /\ b = SOP => position = 1 /\ position' = 2
             /\ b = EOP => position >= 2 /\ position' = 0
             /\ b \notin {SOP, EOP} => position >= 2 /\ position' >= 2
  <2>1. /\ position # 0 /\ Advance /\ b = NextByte /\ lost' = lost /\ running
    BY <1>3 DEF Arrives
  <2>2. (b = SOP <=> AtSop) /\ (b = EOP <=> AtEop)
    BY <2>1, NextByteKinds DEF FramerInv
  <2> QED
    BY <2>1, <2>2, NextPosition
<1>4. ASSUME NEW b \in Bytes, DropByte(b) \/ RejectSop(b) \/ RejectEop(b)
      PROVE  JoinInv'
  BY <1>4 DEF DropByte, RejectSop, RejectEop, JoinInv
<1>5. ASSUME NEW b \in Bytes, Resynchronize(b)
      PROVE  JoinInv'
  <2>1. Arrives(b) /\ b = SOP /\ origins' = {Len(sent)}
    BY <1>5 DEF Resynchronize
  <2> QED
    BY <1>3, <2>1 DEF JoinInv
<1>6. ASSUME NEW b \in Bytes, StartPacket(b)
      PROVE  JoinInv'
  <2>1. Arrives(b) /\ b = SOP /\ packet_buffer = <<>> /\ origins' = origins \cup {Len(sent)}
    BY <1>6 DEF StartPacket, Store, SopOutOfPlace
  <2>2. origins = {}
    BY <1>0, <1>3, <2>1 DEF SyncInv
  <2> QED
    BY <1>3, <2>1, <2>2 DEF JoinInv
<1>7. ASSUME NEW b \in Bytes, StartEscape(b)
      PROVE  JoinInv'
  <2>1. /\ Arrives(b) /\ b = ESP /\ b \notin {SOP, EOP}
        /\ UNCHANGED <<start_of_packet, packet_error, running, origins>>
    BY <1>7, BytesAssumption DEF StartEscape
  <2> QED
    BY <1>3, <2>1 DEF JoinInv
<1>8. ASSUME NEW b \in Bytes, StoreByte(b)
      PROVE  JoinInv'
  <2>1. /\ Arrives(b) /\ b \notin {SOP, EOP}
        /\ origins' = origins \cup {Len(sent)}
        /\ UNCHANGED <<start_of_packet, packet_error, running>>
    BY <1>8 DEF StoreByte, Store, Special
  <2> QED
    BY <1>3, <2>1 DEF JoinInv
<1>9. ASSUME NEW b \in Bytes, FinishPacket(b) \/ Abort(b)
      PROVE  JoinInv'
  BY <1>9 DEF FinishPacket, Abort, cleanup, JoinInv
<1>10. CASE UNCHANGED vars
  BY <1>10 DEF vars, statics, line, JoinInv
<1> QED
  BY <1>1, <1>2, <1>4, <1>5, <1>6, <1>7, <1>8, <1>9, <1>10 DEF Next

LEMMA NotJoinedStep ==
    ASSUME FramerInv, JoinInv, FramesNotJoined, [Next]_vars
    PROVE  FramesNotJoined'
<1>1. /\ lost \in Nat /\ lost' \in Nat /\ delivered \in Seq(Delivery)
      /\ Len(sent) \in Nat /\ Len(sent') \in Nat
  <2>1. TypeOK /\ TypeOK'
    BY FramerTypeStep DEF FramerInv
  <2>2. lost \in Nat /\ delivered \in Seq(Delivery) /\ sent \in Seq(Contents)
    BY <2>1, FramerAssumption DEF TypeOK
  <2>3. lost' \in Nat /\ sent' \in Seq(Contents)
    BY <2>1, FramerAssumption DEF TypeOK
  <2> QED
    BY <2>2, <2>3
<1>2. lost' >= lost /\ Len(sent') >= Len(sent)
  <2>1. ASSUME NEW c \in Contents, StartFrame(c)
        PROVE  lost' >= lost /\ Len(sent') >= Len(sent)
    BY <1>1, <2>1 DEF StartFrame, FramerInv, TypeOK
  <2>2. CASE LoseByte
    BY <1>1, <2>2 DEF LoseByte, Advance
  <2>3. ASSUME NEW b \in Bytes, Arrives(b)
        PROVE  lost' >= lost /\ Len(sent') >= Len(sent)
    BY <1>1, <2>3 DEF Arrives, Advance
  <2>4. CASE \E b \in Bytes :
               \/ DropByte(b) \/ Resynchronize(b) \/ RejectSop(b)
               \/ StartPacket(b) \/ StartEscape(b) \/ StoreByte(b)
               \/ RejectEop(b) \/ FinishPacket(b) \/ Abort(b)
    <3>1. PICK b \in Bytes : Arrives(b)
      BY <2>4 DEF DropByte, Resynchronize, RejectSop, StartPacket, StartEscape,
                  StoreByte, RejectEop, FinishPacket, Abort
    <3> QED
      BY <2>3, <3>1
  <2>5. CASE UNCHANGED vars
    BY <1>1, <2>5 DEF vars, line
  <2> QED
    BY <2>1, <2>2, <2>4, <2>5 DEF Next
<1>3. CASE delivered' = delivered
  BY <1>1, <1>2, <1>3 DEF FramesNotJoined
<1>4. ASSUME NEW b \in Bytes, FinishPacket(b), lost' <= 1
      PROVE  /\ delivered' = Append(delivered, delivered'[Len(delivered) + 1])
             /\ Len(delivered') = Len(delivered) + 1
             /\ \A k \in 1..Len(delivered) : delivered'[k] = delivered[k]
             /\ delivered'[Len(delivered) + 1].origins = {Len(sent)}
             /\ Len(sent) \in 1..Len(sent')
  <2> DEFINE d == [content |-> SubSeq(Finished, 2, Len(Finished) - 1),
                   origins |-> origins \cup {Len(sent)}]
  <2>1. /\ Arrives(b) /\ b = EOP /\ start_of_packet /\ ~packet_error
        /\ delivered' = Append(delivered, d)
    BY <1>4 DEF FinishPacket, HasError
  <2>2. position # 0 /\ Advance /\ AtEop /\ running
    <3>1. position # 0 /\ Advance /\ b = NextByte /\ running
      BY <2>1 DEF Arrives
    <3> QED
      BY <2>1, <3>1, NextByteKinds DEF FramerInv
  <2>3. position >= 2 /\ sent' = sent /\ Len(sent) >= 1
    BY <2>2, NextPosition, FrameType DEF FramerInv
  <2>4. origins = {Len(sent)}
    BY <1>1, <1>2, <1>4, <2>1, <2>2, <2>3 DEF JoinInv
  <2>5. /\ Len(delivered') = Len(delivered) + 1
        /\ \A k \in 1..Len(delivered) : delivered'[k] = delivered[k]
        /\ delivered'[Len(delivered) + 1] = d
    <3> HIDE DEF d
    <3> QED
      BY <1>1, <2>1
  <2> QED
    BY <1>1, <2>1, <2>3, <2>4, <2>5
<1>5. ASSUME NEW b \in Bytes, FinishPacket(b)
      PROVE  FramesNotJoined'
  <2> SUFFICES ASSUME lost' <= 1, NEW k \in 1..Len(delivered')
               PROVE  \E i \in 1..Len(sent') : delivered'[k].origins = {i}
    BY DEF FramesNotJoined
  <2>1. CASE k \in 1..Len(delivered)
    BY <1>1, <1>2, <1>4, <1>5, <2>1 DEF FramesNotJoined
  <2>2. CASE k = Len(delivered) + 1
    BY <1>4, <1>5, <2>2
  <2> QED
    BY <1>1, <1>4, <1>5, <2>1, <2>2
<1>6. delivered' = delivered \/ \E b \in Bytes : FinishPacket(b)
  BY DEF Next, StartFrame, LoseByte, DropByte, Resynchronize, RejectSop, StartPacket,
         StartEscape, StoreByte, RejectEop, Abort, vars
<1> QED
  BY <1>3, <1>5, <1>6

\* One lost byte, wherever it is, never makes one packet out of two frames
\* (packet_helper.c:82 to 92, 105 to 118).
THEOREM FramerNotJoined == Spec => []FramesNotJoined
<1>1. Init => JoinInv /\ FramesNotJoined
  BY DEF Init, JoinInv, FramesNotJoined
<1>2. FramerInv /\ JoinInv /\ FramesNotJoined /\ [Next]_vars
        => JoinInv' /\ FramesNotJoined'
  BY JoinStep, NotJoinedStep
<1> QED
  BY <1>1, <1>2, FramerInvariant, PTL DEF Spec

-----------------------------------------------------------------------------
(***************************************************************************)
(* The packets as bytes (BleWire): what decodePacket reads of a packet     *)
(* that buildStreamPacket packed, wherever it is in what was received.     *)
(***************************************************************************)
\* A packet takes at least one byte, at most what remains, and fits the MTU.
LEMMA PayloadBounds ==
    ASSUME NEW src \in Nat, NEW rem \in Nat, rem > 0
    PROVE  PayloadLength(src, rem) \in 1..rem
  BY PacketAssumption
  DEF PayloadLength, FullHeaderSize, IsExtended, PlainLength,
      HeaderSize, MIN

LEMMA ShortPayload ==
    ASSUME NEW src \in Nat, NEW rem \in Nat, rem > 0, ~IsExtended(src, rem)
    PROVE  PayloadLength(src, rem) <= ShortLengthMax
  BY PacketAssumption
  DEF PayloadLength, FullHeaderSize, IsExtended, PlainLength, HeaderSize, MIN

WireByte == 0..255

LEMMA WireWidths ==
    ASSUME WireAssumption
    PROVE  /\ SeqNumModulus = 16 /\ TransactionIdModulus = 16
           /\ ShortLengthMax = 255 /\ MaxTransactionLength = 65535
  BY DEF WireAssumption

LEMMA WireBytesAre == \A b : b \in WireByte <=> b \in Nat /\ b < 256
  BY DEF WireByte

\* The fields of the first byte, and of the second.
LEMMA FirstByte ==
    ASSUME NEW s \in Nat, s < 16, NEW t \in Nat, t < 16
    PROVE  LET b == StreamByte(s, t)
           IN  b \in WireByte /\ b \div 16 = s /\ b % 16 = t
<1>1. PICK b : b = s * 16 + t
  OBVIOUS
<1>2. b \in Nat /\ b < 256 /\ b \div 16 = s /\ b % 16 = t
  BY <1>1
<1> QED
  BY <1>1, <1>2, WireBytesAre DEF StreamByte

LEMMA SecondByte ==
    ASSUME NEW n \in Nat, n < 16, NEW c \in Nat, c < 4, NEW a \in BOOLEAN, NEW x \in BOOLEAN
    PROVE  LET b == TypeByte(n, c, a, x)
           IN  /\ b \in WireByte /\ b \div 16 = n /\ (b \div 4) % 4 = c
               /\ ((b \div 2) % 2 = 1) = a /\ (b % 2 = 1) = x
<1>1. PICK i : i = IF a THEN 1 ELSE 0
  OBVIOUS
<1>2. PICK j : j = IF x THEN 1 ELSE 0
  OBVIOUS
<1>3. i \in Nat /\ i < 2 /\ j \in Nat /\ j < 2 /\ ((i = 1) <=> a) /\ ((j = 1) <=> x)
  BY <1>1, <1>2
<1>4. PICK b : b = n * 16 + c * 4 + i * 2 + j
  OBVIOUS
<1>5. b \in Nat /\ b < 256 /\ b \div 16 = n /\ (b \div 4) % 4 = c /\ (b \div 2) % 2 = i /\ b % 2 = j
  BY <1>3, <1>4
<1>6. i * 2 = Bit(a, 1) /\ j = Bit(x, 0)
  BY <1>1, <1>2 DEF Bit
<1>7. b = TypeByte(n, c, a, x)
  BY <1>4, <1>6 DEF TypeByte
<1>8. b \in WireByte
  BY <1>5, WireBytesAre
<1> QED
  BY <1>3, <1>5, <1>7, <1>8

\* e is a packet: its fields in two, at first three more, one for a long length,
\* and one byte; then len bytes of the payload.
FiveParts(e, a, b, c, d, p, l, m, len) ==
    /\ e \in Seq(WireByte) /\ l \in Nat /\ m \in Nat /\ len \in Nat
    /\ Len(e) = ((2 + l) + (m + 1)) + len
    /\ e[1] = a[1] /\ e[2] = a[2]
    /\ \A i \in 1..l : e[2 + i] = b[i]
    /\ \A i \in 1..m : e[(2 + l) + i] = c[i]
    /\ e[(2 + l) + (m + 1)] = d[1]
    /\ \A i \in 1..len : e[((2 + l) + (m + 1)) + i] = p[i]

LEMMA FiveJoined ==
    ASSUME NEW a \in Seq(WireByte), NEW b \in Seq(WireByte), NEW c \in Seq(WireByte),
           NEW d \in Seq(WireByte), NEW p \in Seq(WireByte),
           Len(a) = 2, Len(d) = 1, NEW l, l = Len(b), NEW m, m = Len(c), NEW len, len = Len(p)
    PROVE  FiveParts((((a \o b) \o c) \o d) \o p, a, b, c, d, p, l, m, len)
<1>1. PICK k, n : k = Len(a) /\ n = Len(d)
  OBVIOUS
<1>2. PICK ab, abc : ab = a \o b /\ abc = ab \o c
  OBVIOUS
<1>3. PICK abcd, e : abcd = abc \o d /\ e = abcd \o p
  OBVIOUS
<1>4. PICK u, v, w : u = Len(ab) /\ v = Len(abc) /\ w = Len(abcd)
  OBVIOUS
<1>5. IsJoin(WireByte, a, b, ab, k, l)
  BY <1>1, <1>2, JoinedTo, Zenon
<1>6. ab \in Seq(WireByte) /\ u = k + l
  BY <1>4, <1>5, Zenon DEF IsJoin
<1>7. IsJoin(WireByte, ab, c, abc, u, m)
  BY <1>2, <1>4, <1>6, JoinedTo, Zenon
<1>8. abc \in Seq(WireByte) /\ v = u + m
  BY <1>4, <1>7, Zenon DEF IsJoin
<1>9. IsJoin(WireByte, abc, d, abcd, v, n)
  BY <1>1, <1>3, <1>4, <1>8, JoinedTo, Zenon
<1>10. abcd \in Seq(WireByte) /\ w = v + n
  BY <1>4, <1>9, Zenon DEF IsJoin
<1>11. IsJoin(WireByte, abcd, p, e, w, len)
  BY <1>3, <1>4, <1>10, JoinedTo, Zenon
<1>12. k = 2 /\ n = 1
  BY <1>1
<1>13. l \in Nat /\ m \in Nat /\ len \in Nat
  BY <1>5, <1>7, <1>11, Zenon DEF IsJoin
<1>14. u = 2 + l /\ v = (2 + l) + m /\ w = (2 + l) + (m + 1)
  BY <1>6, <1>8, <1>10, <1>12, <1>13
<1>15. /\ \A i \in 1..w : e[i] = abcd[i]
       /\ \A i \in 1..v : abcd[i] = abc[i]
       /\ \A i \in 1..u : abc[i] = ab[i]
       /\ \A i \in 1..k : ab[i] = a[i]
       /\ \A i \in 1..l : ab[k + i] = b[i]
       /\ \A i \in 1..m : abc[u + i] = c[i]
       /\ \A i \in 1..n : abcd[v + i] = d[i]
       /\ \A i \in 1..len : e[w + i] = p[i]
  BY <1>5, <1>7, <1>9, <1>11, Zenon DEF IsJoin
<1>16. /\ \A i \in 1..k : i \in 1..u /\ i \in 1..v /\ i \in 1..w
       /\ \A i \in 1..l : k + i \in 1..u /\ k + i \in 1..v /\ k + i \in 1..w
       /\ \A i \in 1..m : u + i \in 1..v /\ u + i \in 1..w
       /\ \A i \in 1..n : v + i \in 1..w
  BY <1>12, <1>13, <1>14
<1>17. /\ \A i \in 1..k : e[i] = a[i]
       /\ \A i \in 1..l : e[k + i] = b[i]
       /\ \A i \in 1..m : e[u + i] = c[i]
       /\ \A i \in 1..n : e[v + i] = d[i]
  <2>1. ASSUME NEW i \in 1..k PROVE e[i] = a[i]
    BY <1>15, <1>16
  <2>2. ASSUME NEW i \in 1..l PROVE e[k + i] = b[i]
    BY <1>15, <1>16
  <2>3. ASSUME NEW i \in 1..m PROVE e[u + i] = c[i]
    BY <1>15, <1>16, ZenonT(60)
  <2>4. ASSUME NEW i \in 1..n PROVE e[v + i] = d[i]
    BY <1>15, <1>16
  <2> QED
    BY <2>1, <2>2, <2>3, <2>4
<1>18. e[1] = a[1] /\ e[2] = a[2] /\ e[v + 1] = d[1]
  <2>1. 1 \in 1..k /\ 2 \in 1..k /\ 1 \in 1..n
    BY <1>12
  <2> QED
    BY <1>17, <2>1
<1>19. v + 1 = w
  BY <1>13, <1>14
<1>20. e \in Seq(WireByte) /\ Len(e) = w + len
  BY <1>11, Zenon DEF IsJoin
<1>21. FiveParts(e, a, b, c, d, p, l, m, len)
  BY <1>12, <1>13, <1>14, <1>15, <1>17, <1>18, <1>19, <1>20 DEF FiveParts
<1> QED
  BY <1>2, <1>3, <1>21, Zenon

LEMMA SizesOnTheWire ==
    ASSUME NEW src, NEW rem
    PROVE  /\ PayloadLength(src, rem) = PayloadLength(src, rem)
           /\ IsExtended(src, rem) = IsExtended(src, rem)
           /\ TransactionType(src, rem) = TransactionType(src, rem)
<1>1. /\ MIN(MTU - HeaderSize(src), rem) = MIN(MTU - HeaderSize(src), rem)
      /\ HeaderSize(src) = HeaderSize(src)
  BY Zenon DEF MIN, MIN, HeaderSize, HeaderSize
<1>2. /\ PlainLength(src, rem) = PlainLength(src, rem)
      /\ IsExtended(src, rem) = IsExtended(src, rem)
  BY <1>1, Zenon DEF PlainLength, PlainLength, IsExtended, IsExtended
<1>3. PayloadLength(src, rem) = PayloadLength(src, rem)
  BY <1>1, <1>2, Zenon
  DEF PayloadLength, PayloadLength, FullHeaderSize, FullHeaderSize
<1> QED
  BY <1>2, <1>3, Zenon DEF TransactionType, TransactionType

LEMMA TwoBytesOf ==
    ASSUME NEW n \in Nat, n < 65536
    PROVE  n \div 256 \in WireByte /\ n % 256 \in WireByte
<1>1. n \div 256 \in 0..255 /\ n % 256 \in 0..255
  BY TwoByteNumber
<1> QED
  BY <1>1 DEF WireByte

LEMMA NoneOf == <<>> \in Seq(WireByte) /\ Len(<<>>) = 0
  OBVIOUS

LEMMA OneOf ==
    ASSUME NEW x \in WireByte
    PROVE  <<x>> \in Seq(WireByte) /\ Len(<<x>>) = 1 /\ <<x>>[1] = x
  OBVIOUS

LEMMA TwoOf ==
    ASSUME NEW x \in WireByte, NEW y \in WireByte
    PROVE  <<x, y>> \in Seq(WireByte) /\ Len(<<x, y>>) = 2 /\ <<x, y>>[1] = x /\ <<x, y>>[2] = y
  OBVIOUS

LEMMA ThreeOf ==
    ASSUME NEW x \in WireByte, NEW y \in WireByte, NEW z \in WireByte
    PROVE  /\ <<x, y, z>> \in Seq(WireByte) /\ Len(<<x, y, z>>) = 3
           /\ <<x, y, z>>[2] = y /\ <<x, y, z>>[3] = z
  OBVIOUS

\* What is packed: the stream, the transaction id, the sequence number, the ack
\* flag, the payload and where in it the packet begins.
Packed(s, t, n, k, payload, src) ==
    /\ s \in Nat /\ s < 16 /\ t \in Nat /\ t < 16 /\ n \in Nat /\ n < 16
    /\ k \in BOOLEAN
    /\ payload \in Seq(WireByte) /\ Len(payload) <= MaxTransactionLength
    /\ src \in Nat /\ src < Len(payload)

\* The length of e's header is h; len bytes of the payload follow it.
Fields(e, s, t, n, k, payload, src, size, code, l, m, h, len) ==
    /\ e \in Seq(WireByte) /\ Len(e) = h + len
    /\ h \in Nat /\ len \in Nat /\ h = 3 + l + m
    /\ l = (IF src = 0 THEN 3 ELSE 0)
    /\ m = (IF IsExtended(src, size - src) THEN 1 ELSE 0)
    /\ e[1] = StreamByte(s, t)
    /\ e[2] = TypeByte(n, code, k, IsExtended(src, size - src))
    /\ src = 0 => e[4] = size \div 256 /\ e[5] = size % 256
    /\ IsExtended(src, size - src) => e[3 + l] = len \div 256
    /\ e[h] = len % 256
    /\ \A i \in 1..len : e[h + i] = payload[src + i]

LEMMA FieldsPacked ==
    ASSUME WireAssumption, NEW s, NEW t, NEW n, NEW k, NEW payload, NEW src,
           Packed(s, t, n, k, payload, src),
           NEW size, size = Len(payload), NEW len, len = PayloadLength(src, size - src),
           NEW code, code = TypeCode[TransactionType(src, size - src)],
           NEW l, l = (IF src = 0 THEN 3 ELSE 0),
           NEW m, m = (IF IsExtended(src, size - src) THEN 1 ELSE 0)
    PROVE  Fields(StreamPacket(s, t, n, k, payload, src),
                  s, t, n, k, payload, src, size, code, l, m, 3 + l + m, len)
<1> DEFINE ext == IsExtended(src, size - src)
<1>1. size \in Nat /\ src \in Nat /\ src < size /\ size < 65536
  BY WireWidths DEF Packed
<1>2. len \in 1..(size - src) /\ (~ext => len <= 255)
  <2>1. size - src \in Nat /\ size - src > 0
    BY <1>1
  <2> QED
    BY <1>1, <2>1, PayloadBounds, ShortPayload, WireWidths
<1>3. len \in Nat /\ len < 65536 /\ len <= size - src /\ len > 0
  BY <1>1, <1>2
<1>4. code \in Nat /\ code < 4
  <2>1. TransactionType(src, size - src) \in {"INITIAL", "CONTINUE", "FINAL"}
    BY DEF TransactionType
  <2> QED
    BY <2>1 DEF TypeCode, INITIAL, CONTINUE, FINAL
<1>5. /\ StreamByte(s, t) \in WireByte
      /\ TypeByte(n, code, k, ext) \in WireByte
  <2>1. ext \in BOOLEAN
    BY DEF IsExtended
  <2> QED
    BY <1>4, <2>1, FirstByte, SecondByte DEF Packed
<1>6. /\ size \div 256 \in WireByte /\ size % 256 \in WireByte
      /\ len \div 256 \in WireByte /\ len % 256 \in WireByte /\ 0 \in WireByte
  <2>1. size \div 256 \in WireByte /\ size % 256 \in WireByte
    BY <1>1, TwoBytesOf
  <2>2. len \div 256 \in WireByte /\ len % 256 \in WireByte
    BY <1>3, TwoBytesOf
  <2>3. 0 \in WireByte
    BY WireBytesAre
  <2> QED
    BY <2>1, <2>2, <2>3
<1>7. PICK a : a = <<StreamByte(s, t), TypeByte(n, code, k, ext)>>
  OBVIOUS
<1>8. PICK b : b = IF src = 0 THEN <<0, size \div 256, size % 256>> ELSE <<>>
  OBVIOUS
<1>9. PICK c : c = IF ext THEN <<len \div 256>> ELSE <<>>
  OBVIOUS
<1>10. PICK d : d = <<len % 256>>
  OBVIOUS
<1>11. PICK p : p = SubSeq(payload, src + 1, src + len)
  OBVIOUS
<1>12. /\ a \in Seq(WireByte) /\ Len(a) = 2
       /\ a[1] = StreamByte(s, t) /\ a[2] = TypeByte(n, code, k, ext)
  BY <1>5, <1>7, TwoOf
<1>13. /\ b \in Seq(WireByte) /\ l = Len(b)
       /\ src = 0 => b[2] = size \div 256 /\ b[3] = size % 256
  BY <1>6, <1>8, NoneOf, ThreeOf
<1>14. /\ c \in Seq(WireByte) /\ m = Len(c)
       /\ ext => c[1] = len \div 256
  BY <1>6, <1>9, NoneOf, OneOf
<1>15. d \in Seq(WireByte) /\ Len(d) = 1 /\ d[1] = len % 256
  BY <1>6, <1>10, OneOf
<1>16. /\ p \in Seq(WireByte) /\ len = Len(p)
       /\ \A i \in 1..len : p[i] = payload[src + i]
  <2>1. PICK first, last : first = src + 1 /\ last = src + len
    OBVIOUS
  <2>2. first \in 1..size /\ last \in first..size /\ last - first + 1 = len
        /\ \A i \in 1..len : first + i - 1 = src + i
    BY <1>1, <1>3, <2>1
  <2>3. payload \in Seq(WireByte)
    BY DEF Packed
  <2>4. /\ SubSeq(payload, first, last) \in Seq(WireByte)
        /\ Len(SubSeq(payload, first, last)) = last - first + 1
        /\ \A i \in 1..(last - first + 1) :
              SubSeq(payload, first, last)[i] = payload[first + i - 1]
    BY <2>2, <2>3, Piece
  <2>5. p = SubSeq(payload, first, last)
    BY <1>11, <2>1, Zenon
  <2> QED
    BY <2>2, <2>4, <2>5
<1>17. PICK e : e = (((a \o b) \o c) \o d) \o p
  OBVIOUS
<1>18. FiveParts(e, a, b, c, d, p, l, m, len)
  <2>1. /\ a \in Seq(WireByte) /\ b \in Seq(WireByte) /\ c \in Seq(WireByte)
        /\ d \in Seq(WireByte) /\ p \in Seq(WireByte)
    BY <1>12, <1>13, <1>14, <1>15, <1>16, Zenon
  <2>2. Len(a) = 2 /\ Len(d) = 1 /\ l = Len(b) /\ m = Len(c) /\ len = Len(p)
    BY <1>12, <1>13, <1>14, <1>15, <1>16, Zenon
  <2>3. PICK length : length = len
    OBVIOUS
  <2>4. length = Len(p)
    BY <2>2, <2>3, Zenon
  <2>5. FiveParts((((a \o b) \o c) \o d) \o p, a, b, c, d, p, l, m, length)
    BY <2>1, <2>2, <2>4, FiveJoined, Zenon
  <2> QED
    BY <1>17, <2>3, <2>5, Zenon
<1>19. e = StreamPacket(s, t, n, k, payload, src)
  <2>1. /\ PayloadLength(src, Len(payload) - src) = len
        /\ IsExtended(src, Len(payload) - src) = ext
        /\ TypeCode[TransactionType(src, Len(payload) - src)] = code
    BY SizesOnTheWire, Zenon
  <2>2. a = <<StreamByte(s, t), TypeByte(n,
                TypeCode[TransactionType(src, Len(payload) - src)], k,
                IsExtended(src, Len(payload) - src))>>
    BY <1>7, <2>1, Zenon
  <2>3. b = IF src = 0 THEN <<0, Len(payload) \div 256, Len(payload) % 256>> ELSE <<>>
    BY <1>8, Zenon
  <2>4. c = IF IsExtended(src, Len(payload) - src)
            THEN <<PayloadLength(src, Len(payload) - src) \div 256>> ELSE <<>>
    BY <1>9, <2>1, Zenon
  <2>5. /\ d = <<PayloadLength(src, Len(payload) - src) % 256>>
        /\ p = SubSeq(payload, src + 1, src + PayloadLength(src, Len(payload) - src))
    BY <1>10, <1>11, <2>1, Zenon
  <2> HIDE DEF ext
  <2> QED
    BY <1>17, <2>2, <2>3, <2>4, <2>5, ZenonT(60) DEF StreamPacket
<1>20. PICK h : h = 3 + l + m
  OBVIOUS
<1>21. l \in {0, 3} /\ m \in {0, 1} /\ (ext => m = 1) /\ (src = 0 => l = 3) /\ h \in Nat
       /\ h = (2 + l) + (m + 1)
  BY <1>20
<1>22. /\ e \in Seq(WireByte) /\ Len(e) = h + len
       /\ e[1] = a[1] /\ e[2] = a[2] /\ e[h] = d[1]
       /\ \A i \in 1..l : e[2 + i] = b[i]
       /\ \A i \in 1..m : e[(2 + l) + i] = c[i]
       /\ \A i \in 1..len : e[h + i] = p[i]
  BY <1>18, <1>21, Zenon DEF FiveParts
<1>23. src = 0 => e[4] = b[2] /\ e[5] = b[3]
  <2>1. src = 0 => 2 \in 1..l /\ 3 \in 1..l /\ 2 + 2 = 4 /\ 2 + 3 = 5
    BY <1>21
  <2> QED
    BY <1>22, <2>1
<1>24. ext => e[3 + l] = c[1]
  <2>1. ext => 1 \in 1..m /\ (2 + l) + 1 = 3 + l
    BY <1>21
  <2> QED
    BY <1>22, <2>1
<1>25. Fields(e, s, t, n, k, payload, src, size, code, l, m, h, len)
  <2>1. e[1] = StreamByte(s, t) /\ e[2] = TypeByte(n, code, k, ext)
    BY <1>12, <1>22, Zenon
  <2>2. src = 0 => e[4] = size \div 256 /\ e[5] = size % 256
    BY <1>13, <1>23, Zenon
  <2>3. (ext => e[3 + l] = len \div 256) /\ e[h] = len % 256
    BY <1>14, <1>15, <1>22, <1>24, Zenon
  <2>4. \A i \in 1..len : e[h + i] = payload[src + i]
    BY <1>16, <1>22
  <2> QED
    BY <1>3, <1>20, <1>21, <1>22, <2>1, <2>2, <2>3, <2>4 DEF Fields
<1> QED
  BY <1>19, <1>20, <1>25, Zenon

\* What decodePacket finds at offset: e, wherever it is in what was received, or
\* its first bytes.
FoundTo(e, n) ==
    /\ pc = "decode" /\ packet \in Seq(WireByte) /\ offset \in Nat
    /\ offset + n <= Len(packet)
    /\ \A i \in 1..n : packet[offset + i] = e[i]

Found(e) == FoundTo(e, Len(e))

LEMMA FoundBetween ==
    ASSUME pc = "decode",
           NEW before \in Seq(WireByte), NEW e \in Seq(WireByte), NEW after \in Seq(WireByte),
           packet = (before \o e) \o after, offset = Len(before)
    PROVE  Found(e)
<1>1. PICK u, l, n, k, j : u = before \o e /\ l = Len(before) /\ n = Len(e)
                           /\ k = Len(u) /\ j = Len(after)
  OBVIOUS
<1>2. IsJoin(WireByte, before, e, u, l, n)
  BY <1>1, JoinedTo, Zenon
<1>3. u \in Seq(WireByte)
  BY <1>2 DEF IsJoin
<1>4. IsJoin(WireByte, u, after, packet, k, j)
  BY <1>1, <1>3, JoinedTo, Zenon
<1>5. /\ packet \in Seq(WireByte) /\ Len(packet) = k + j /\ j \in Nat
      /\ k = l + n /\ l \in Nat /\ n \in Nat /\ offset = l
      /\ \A i \in 1..k : packet[i] = u[i]
      /\ \A i \in 1..n : u[l + i] = e[i]
  BY <1>1, <1>2, <1>4, Zenon DEF IsJoin
<1>6. ASSUME NEW i \in 1..n
      PROVE  packet[offset + i] = e[i]
  <2>1. l + i \in 1..k
    BY <1>5
  <2> QED
    BY <1>5, <2>1
<1>7. offset + n <= Len(packet)
  BY <1>5
<1> QED
  BY <1>1, <1>5, <1>6, <1>7 DEF Found, FoundTo

\* The fields as decodePacket reads them, with the place of the payload.
ReadAs(s, t, n, k, code, size, src, len, l, h) ==
    /\ streamId = s /\ transactionId = t
    /\ seqNum = n /\ transactionType = code /\ ackBit = k
    /\ IsInitial <=> src = 0
    /\ src = 0 => (At(4) * 256) + At(5) = size
    /\ LengthAt = 3 + l /\ PayloadAt = h
    /\ currentPayloadLength = len

\* The second byte tells the form of the header.
TypeAs(s, t, n, k, code, src, m, l, h) ==
    /\ streamId = s /\ transactionId = t
    /\ seqNum = n /\ transactionType = code /\ ackBit = k
    /\ extendLength <=> m = 1
    /\ IsInitial <=> src = 0
    /\ LengthAt = 3 + l /\ PayloadAt = h

LEMMA TypeRead ==
    ASSUME WireAssumption, NEW s, NEW t, NEW n, NEW k, NEW payload, NEW src,
           Packed(s, t, n, k, payload, src),
           NEW size, size = Len(payload), NEW len,
           NEW code, code = TypeCode[TransactionType(src, size - src)],
           NEW l, l = (IF src = 0 THEN 3 ELSE 0),
           NEW m, m = (IF IsExtended(src, size - src) THEN 1 ELSE 0),
           NEW h, h = 3 + l + m,
           NEW e, Fields(e, s, t, n, k, payload, src, size, code, l, m, h, len), FoundTo(e, 2)
    PROVE  TypeAs(s, t, n, k, code, src, m, l, h)
<1>1. PICK ext \in BOOLEAN : ext = IsExtended(src, size - src)
  <2>1. IsExtended(src, size - src) \in BOOLEAN
    BY DEF IsExtended
  <2> QED
    BY <2>1
<1>2. code \in Nat /\ code < 4 /\ (code = 0 <=> src = 0)
  BY DEF TransactionType, TypeCode, INITIAL, CONTINUE, FINAL
<1>3. l \in {0, 3} /\ m \in {0, 1} /\ (ext <=> m = 1) /\ (src = 0 <=> l = 3) /\ h = 3 + l + m
  BY <1>1
<1>4. At(1) = StreamByte(s, t) /\ At(2) = TypeByte(n, code, k, ext)
  <2>1. e[1] = StreamByte(s, t) /\ e[2] = TypeByte(n, code, k, ext)
    BY <1>1, Zenon DEF Fields
  <2>2. At(1) = e[1] /\ At(2) = e[2]
    BY DEF FoundTo, At
  <2> QED
    BY <2>1, <2>2
<1>5. /\ streamId = s /\ transactionId = t
  BY <1>4, FirstByte DEF Packed, streamId, transactionId
<1>6. /\ seqNum = n /\ transactionType = code
      /\ ackBit = k /\ extendLength = ext
  <2>1. PICK b : b = At(2)
    OBVIOUS
  <2>2. /\ b \div 16 = n /\ (b \div 4) % 4 = code
        /\ ((b \div 2) % 2 = 1) = k /\ (b % 2 = 1) = ext
    BY <1>2, <1>4, <2>1, SecondByte DEF Packed
  <2> QED
    BY <2>1, <2>2, Zenon
    DEF seqNum, transactionType, ackBit, extendLength
<1>7. IsInitial <=> src = 0
  BY <1>2, <1>6 DEF IsInitial, INITIAL
<1>8. LengthAt = 3 + l /\ PayloadAt = h
  <2>1. LengthAt = 3 + l
    BY <1>3, <1>7 DEF LengthAt
  <2>2. Bit(extendLength, 0) = m
    BY <1>3, <1>6 DEF Bit
  <2> QED
    BY <1>3, <2>1, <2>2 DEF PayloadAt
<1> QED
  BY <1>3, <1>5, <1>6, <1>7, <1>8, Zenon DEF TypeAs

LEMMA FieldsRead ==
    ASSUME WireAssumption, NEW s, NEW t, NEW n, NEW k, NEW payload, NEW src,
           Packed(s, t, n, k, payload, src),
           NEW size, size = Len(payload), NEW len, len = PayloadLength(src, size - src),
           NEW code, code = TypeCode[TransactionType(src, size - src)],
           NEW l, l = (IF src = 0 THEN 3 ELSE 0),
           NEW m, m = (IF IsExtended(src, size - src) THEN 1 ELSE 0),
           NEW h, h = 3 + l + m,
           NEW e, Fields(e, s, t, n, k, payload, src, size, code, l, m, h, len), FoundTo(e, h)
    PROVE  ReadAs(s, t, n, k, code, size, src, len, l, h)
<1>1. PICK ext \in BOOLEAN : ext = IsExtended(src, size - src)
  <2>1. IsExtended(src, size - src) \in BOOLEAN
    BY DEF IsExtended
  <2> QED
    BY <2>1
<1>2. size \in Nat /\ src \in Nat /\ src < size /\ size < 65536
  BY WireWidths DEF Packed
<1>3. len \in Nat /\ len > 0 /\ len <= size - src /\ len < 65536 /\ (~ext => len <= 255)
  <2>1. size - src \in Nat /\ size - src > 0
    BY <1>2
  <2>2. len \in 1..(size - src) /\ (~ext => len <= 255)
    BY <1>1, <1>2, <2>1, PayloadBounds, ShortPayload, WireWidths
  <2> QED
    BY <1>2, <2>2
<1>4. code \in Nat /\ code < 4 /\ (code = 0 <=> src = 0)
  BY DEF TransactionType, TypeCode, INITIAL, CONTINUE, FINAL
<1>5. l \in {0, 3} /\ m \in {0, 1} /\ (ext <=> m = 1) /\ (src = 0 <=> l = 3) /\ h = 3 + l + m
  BY <1>1
<1>6. h \in Nat /\ h >= 3
  BY <1>5
<1>7. \A i \in 1..h : At(i) = e[i]
  BY DEF FoundTo, At
<1>8. h \in 1..h /\ 3 + l \in 1..h /\ (src = 0 => 4 \in 1..h /\ 5 \in 1..h)
  BY <1>5
<1>9. FoundTo(e, 2)
  <2>1. offset \in Nat /\ offset + h <= Len(packet) /\ packet \in Seq(WireByte)
    BY DEF FoundTo
  <2>2. offset + 2 <= Len(packet)
    BY <1>6, <2>1
  <2>3. \A i \in 1..2 : i \in 1..h
    BY <1>6
  <2> QED
    BY <2>2, <2>3 DEF FoundTo
<1>10. /\ src = 0 => At(4) = size \div 256 /\ At(5) = size % 256
       /\ ext => At(3 + l) = len \div 256
       /\ At(h) = len % 256
  <2>1. /\ src = 0 => e[4] = size \div 256 /\ e[5] = size % 256
        /\ ext => e[3 + l] = len \div 256
        /\ e[h] = len % 256
    BY <1>1, Zenon DEF Fields
  <2> QED
    BY <1>7, <1>8, <2>1
<1>11. TypeAs(s, t, n, k, code, src, m, l, h)
  BY <1>9, TypeRead
<1>12. extendLength = ext
  BY <1>5, <1>11 DEF TypeAs, extendLength
<1>14. src = 0 => (At(4) * 256) + At(5) = size
  <2>1. 256 * (size \div 256) + (size % 256) = size
    BY <1>2, TwoByteNumber
  <2>2. PICK x, y : x = size \div 256 /\ y = size % 256
    OBVIOUS
  <2>3. x \in Nat /\ y \in Nat
    BY <1>2, <2>2
  <2>4. (x * 256) + y = size
    BY <2>1, <2>2, <2>3
  <2> QED
    BY <1>10, <2>2, <2>4
<1>15. LengthAt = 3 + l /\ PayloadAt = h
  BY <1>11, Zenon DEF TypeAs
<1>16. currentPayloadLength = len
  <2>1. CASE ext
    <3>1. 256 * (len \div 256) + (len % 256) = len
      BY <1>3, TwoByteNumber
    <3>2. PICK x, y : x = len \div 256 /\ y = len % 256
      OBVIOUS
    <3>3. x \in Nat /\ y \in Nat
      BY <1>3, <3>2
    <3>4. (x * 256) + y = len
      BY <3>1, <3>2, <3>3
    <3>5. currentPayloadLength = (At(3 + l) * 256) + At(h)
      BY <1>12, <1>15, <2>1, ZenonT(60) DEF currentPayloadLength
    <3> QED
      <4>1. At(3 + l) = x /\ At(h) = y
        BY <1>10, <2>1, <3>2, Zenon
      <4> QED
        BY <3>4, <3>5, <4>1, Zenon
  <2>2. CASE ~ext
    <3>1. len % 256 = len
      BY <1>3, <2>2
    <3>2. 3 + l = h
      BY <1>5, <2>2
    <3>3. currentPayloadLength = At(3 + l)
      BY <1>12, <1>15, <2>2, Zenon DEF currentPayloadLength
    <3> QED
      BY <1>10, <3>1, <3>2, <3>3, Zenon
  <2> QED
    BY <2>1, <2>2
<1> QED
  BY <1>11, <1>14, <1>15, <1>16, Zenon DEF ReadAs, TypeAs

LEMMA FoundHeader ==
    ASSUME NEW e \in Seq(WireByte), Found(e), NEW h \in Nat, NEW len \in Nat, Len(e) = h + len
    PROVE  FoundTo(e, h)
<1>1. PICK end : end = Len(e)
  OBVIOUS
<1>2. /\ pc = "decode" /\ packet \in Seq(WireByte) /\ offset \in Nat
      /\ offset + end <= Len(packet)
      /\ \A i \in 1..end : packet[offset + i] = e[i]
  BY <1>1, Zenon DEF Found, FoundTo
<1>3. offset + h <= Len(packet) /\ \A i \in 1..h : i \in 1..end
  BY <1>1, <1>2
<1> QED
  BY <1>2, <1>3 DEF FoundTo

\* A piece, and the piece behind it.
LEMMA PiecesJoined ==
    ASSUME NEW S, NEW p \in Seq(S), NEW i \in Nat, NEW j \in Nat, i > 0, j > 0, i + j <= Len(p)
    PROVE  SubSeq(p, 1, i) \o SubSeq(p, i + 1, i + j) = SubSeq(p, 1, i + j)
<1>1. PICK size : size = Len(p)
  OBVIOUS
<1>2. size \in Nat /\ i + j <= size
  BY <1>1
<1>3. PICK one, next, last : one = 1 /\ next = i + 1 /\ last = i + j
  OBVIOUS
<1>4. /\ one \in 1..size /\ i \in one..size /\ last \in one..size /\ next \in 1..size
      /\ last \in next..size /\ last - next + 1 = j /\ i - one + 1 = i /\ last - one + 1 = last
      /\ last = i + j
  BY <1>2, <1>3
<1>5. PICK a, b, c : a = SubSeq(p, one, i) /\ b = SubSeq(p, next, last) /\ c = SubSeq(p, one, last)
  OBVIOUS
<1>6. a \in Seq(S) /\ Len(a) = i /\ \A x \in 1..i : a[x] = p[one + x - 1]
  BY <1>1, <1>4, <1>5, Piece
<1>7. b \in Seq(S) /\ Len(b) = j /\ \A x \in 1..j : b[x] = p[next + x - 1]
  BY <1>1, <1>4, <1>5, Piece
<1>8. c \in Seq(S) /\ Len(c) = last /\ \A x \in 1..last : c[x] = p[one + x - 1]
  BY <1>1, <1>4, <1>5, Piece
<1>9. PICK u : u = a \o b
  OBVIOUS
<1>10. IsJoin(S, a, b, u, i, j)
  BY <1>6, <1>7, <1>9, JoinedTo
<1>11. u \in Seq(S) /\ Len(u) = last
  BY <1>4, <1>10 DEF IsJoin
<1>12. ASSUME NEW x \in 1..last
       PROVE  u[x] = c[x]
  <2>1. one + x - 1 = x /\ c[x] = p[x]
    BY <1>3, <1>4, <1>8
  <2>2. CASE x <= i
    <3>1. x \in 1..i
      BY <2>2
    <3> QED
      BY <1>6, <1>10, <2>1, <3>1 DEF IsJoin
  <2>3. CASE ~(x <= i)
    <3>1. PICK y \in 1..j : x = i + y /\ next + y - 1 = x
      <4>1. x - i \in 1..j /\ x = i + (x - i) /\ next + (x - i) - 1 = x
        BY <1>3, <1>4, <2>3
      <4> QED
        BY <4>1
    <3> QED
      BY <1>7, <1>10, <2>1, <3>1 DEF IsJoin
  <2> QED
    BY <2>2, <2>3
<1>13. u = c
  BY <1>8, <1>11, <1>12, SeqEqual
<1> QED
  BY <1>3, <1>5, <1>9, <1>13, Zenon

\* The same len elements in two places.
SameAt(r, i, p, j, len) ==
    /\ len > 0 /\ i + len <= Len(r) /\ j + len <= Len(p)
    /\ \A x \in 1..len : r[i + x] = p[j + x]

LEMMA SamePiece ==
    ASSUME NEW S, NEW r \in Seq(S), NEW p \in Seq(S),
           NEW i \in Nat, NEW j \in Nat, NEW len \in Nat, SameAt(r, i, p, j, len)
    PROVE  SubSeq(r, i + 1, i + len) = SubSeq(p, j + 1, j + len)
<1>0. /\ len > 0 /\ i + len <= Len(r) /\ j + len <= Len(p)
      /\ \A x \in 1..len : r[i + x] = p[j + x]
  BY DEF SameAt
<1>1. PICK size, long : size = Len(r) /\ long = Len(p)
  OBVIOUS
<1>2. size \in Nat /\ long \in Nat /\ len > 0 /\ i + len <= size /\ j + len <= long
  BY <1>0, <1>1
<1>3. PICK first, last, from, to : first = i + 1 /\ last = i + len /\ from = j + 1 /\ to = j + len
  OBVIOUS
<1>4. /\ first \in 1..size /\ last \in first..size /\ last - first + 1 = len
      /\ from \in 1..long /\ to \in from..long /\ to - from + 1 = len
      /\ \A x \in 1..len : first + x - 1 = i + x /\ from + x - 1 = j + x
  BY <1>2, <1>3
<1>5. PICK a, b : a = SubSeq(r, first, last) /\ b = SubSeq(p, from, to)
  OBVIOUS
<1>6. a \in Seq(S) /\ Len(a) = len /\ \A x \in 1..len : a[x] = r[first + x - 1]
  BY <1>1, <1>4, <1>5, Piece
<1>7. b \in Seq(S) /\ Len(b) = len /\ \A x \in 1..len : b[x] = p[from + x - 1]
  BY <1>1, <1>4, <1>5, Piece
<1>8. \A x \in 1..len : a[x] = b[x]
  BY <1>0, <1>4, <1>6, <1>7
<1>9. a = b
  BY <1>6, <1>7, <1>8, SeqEqual
<1> QED
  BY <1>3, <1>5, <1>9, Zenon

\* The segment at offset is the packet, and the next segment begins behind it.
Segment(e, h, len, payload, src) ==
    /\ InSegment /\ Has(2) /\ Has(h) /\ Has(h + len)
    /\ src = 0 => Has(5)
    /\ SubSeq(packet, offset + h + 1, offset + h + len) = SubSeq(payload, src + 1, src + len)
    /\ h + len = Len(e)

LEMMA SegmentFound ==
    ASSUME WireAssumption, NEW s, NEW t, NEW n, NEW k, NEW payload, NEW src,
           Packed(s, t, n, k, payload, src),
           NEW size, size = Len(payload), NEW len, len = PayloadLength(src, size - src),
           NEW code,
           NEW l, l = (IF src = 0 THEN 3 ELSE 0),
           NEW m, m = (IF IsExtended(src, size - src) THEN 1 ELSE 0),
           NEW h, h = 3 + l + m,
           NEW e, Fields(e, s, t, n, k, payload, src, size, code, l, m, h, len), Found(e)
    PROVE  Segment(e, h, len, payload, src)
<1>1. size \in Nat /\ src \in Nat /\ src < size /\ payload \in Seq(WireByte)
  BY DEF Packed
<1>2. len \in Nat /\ len > 0 /\ src + len <= size
  <2>1. size - src \in Nat /\ size - src > 0
    BY <1>1
  <2>2. len \in 1..(size - src)
    BY <1>1, <2>1, PayloadBounds
  <2> QED
    BY <1>1, <2>2
<1>3. l \in {0, 3} /\ m \in {0, 1} /\ (src = 0 <=> l = 3) /\ h = 3 + l + m /\ h \in Nat
  OBVIOUS
<1>4. PICK end, long : end = Len(e) /\ long = Len(packet)
  OBVIOUS
<1>5. /\ end = h + len /\ \A i \in 1..len : e[h + i] = payload[src + i]
  BY <1>4, Zenon DEF Fields
<1>6. /\ pc = "decode"
      /\ packet \in Seq(WireByte) /\ offset \in Nat /\ long \in Nat /\ offset + end <= long
      /\ \A i \in 1..end : packet[offset + i] = e[i]
  BY <1>4 DEF Found, FoundTo
<1>7. long - offset >= 2 /\ long - offset >= h /\ long - offset >= h + len /\ offset < long
      /\ (src = 0 => long - offset >= 5)
  BY <1>2, <1>3, <1>5, <1>6
<1>8. InSegment /\ Has(2) /\ Has(h) /\ Has(h + len) /\ (src = 0 => Has(5))
  BY <1>4, <1>6, <1>7 DEF InSegment, Has
<1>9. PICK at : at = offset + h
  OBVIOUS
<1>10. at \in Nat /\ at + len <= long
  BY <1>2, <1>3, <1>5, <1>6, <1>9
<1>11. ASSUME NEW i \in 1..len
       PROVE  packet[at + i] = payload[src + i]
  <2>1. h + i \in 1..end /\ offset + (h + i) = at + i
    BY <1>2, <1>3, <1>5, <1>6, <1>9
  <2> QED
    BY <1>5, <1>6, <2>1
<1>12. SubSeq(packet, at + 1, at + len) = SubSeq(payload, src + 1, src + len)
  <2>1. /\ packet \in Seq(WireByte) /\ payload \in Seq(WireByte)
        /\ at \in Nat /\ src \in Nat /\ len \in Nat
    BY <1>1, <1>2, <1>6, <1>10
  <2>2. len > 0 /\ at + len <= Len(packet) /\ src + len <= Len(payload)
    BY <1>2, <1>4, <1>10
  <2>3. \A i \in 1..len : packet[at + i] = payload[src + i]
    BY <1>11
  <2>4. SameAt(packet, at, payload, src, len)
    BY <2>2, <2>3, Zenon DEF SameAt
  <2> QED
    BY <2>1, <2>4, SamePiece, SMTT(60)
<1> QED
  BY <1>4, <1>5, <1>8, <1>9, <1>12, Zenon DEF Segment

LEMMA StreamPacketIn ==
    ASSUME WireAssumption, NEW s, NEW t, NEW n, NEW k, NEW payload, NEW src,
           Packed(s, t, n, k, payload, src)
    PROVE  StreamPacket(s, t, n, k, payload, src) \in Seq(WireByte)
<1>1. PICK size : size = Len(payload)
  OBVIOUS
<1>2. PICK len, code : /\ len = PayloadLength(src, size - src)
                       /\ code = TypeCode[TransactionType(src, size - src)]
  OBVIOUS
<1>3. PICK l, m : /\ l = (IF src = 0 THEN 3 ELSE 0)
                  /\ m = (IF IsExtended(src, size - src) THEN 1 ELSE 0)
  OBVIOUS
<1>4. PICK h : h = 3 + l + m
  OBVIOUS
<1>5. Fields(StreamPacket(s, t, n, k, payload, src), s, t, n, k, payload, src, size, code,
             l, m, h, len)
  BY <1>1, <1>2, <1>3, <1>4, FieldsPacked
<1> QED
  BY <1>5 DEF Fields

\* What decodePacket reads of a packet that it finds.
ReadsBack(s, t, n, k, payload, src, e) ==
    LET size == Len(payload)
        len == PayloadLength(src, size - src)
    IN  /\ streamId = s /\ transactionId = t
        /\ seqNum = n /\ ackBit = k
        /\ transactionType = TypeCode[TransactionType(src, size - src)]
        /\ src = 0 => (At(4) * 256) + At(5) = size
        /\ currentPayloadLength = len
        /\ SubSeq(packet, offset + PayloadAt + 1, offset + PayloadAt + len)
             = SubSeq(payload, src + 1, src + len)
        /\ PayloadAt + len = Len(e)

LEMMA FoundReadsBack ==
    ASSUME WireAssumption, NEW s, NEW t, NEW n, NEW k, NEW payload, NEW src,
           Packed(s, t, n, k, payload, src),
           NEW e, e = StreamPacket(s, t, n, k, payload, src), Found(e)
    PROVE  /\ ReadsBack(s, t, n, k, payload, src, e)
           /\ InSegment /\ Has(2) /\ (src = 0 => Has(5))
           /\ transactionType # CONTROL /\ (IsInitial <=> src = 0)
<1>1. PICK size : size = Len(payload)
  OBVIOUS
<1>2. PICK len, code : /\ len = PayloadLength(src, size - src)
                       /\ code = TypeCode[TransactionType(src, size - src)]
  OBVIOUS
<1>3. PICK l, m : /\ l = (IF src = 0 THEN 3 ELSE 0)
                  /\ m = (IF IsExtended(src, size - src) THEN 1 ELSE 0)
  OBVIOUS
<1>4. PICK h : h = 3 + l + m
  OBVIOUS
<1>5. Fields(e, s, t, n, k, payload, src, size, code, l, m, h, len)
  BY <1>1, <1>2, <1>3, <1>4, FieldsPacked
<1>6. ReadAs(s, t, n, k, code, size, src, len, l, h)
  <2>1. FoundTo(e, h)
    BY <1>5, FoundHeader DEF Fields
  <2> QED
    BY <1>1, <1>2, <1>3, <1>4, <1>5, <2>1, FieldsRead
<1>7. Segment(e, h, len, payload, src)
  BY <1>1, <1>2, <1>3, <1>4, <1>5, SegmentFound
<1>8. code \in Nat /\ code < 3
  BY <1>2 DEF TransactionType, TypeCode, INITIAL, CONTINUE, FINAL
<1>9. transactionType # CONTROL
  BY <1>6, <1>8 DEF ReadAs, CONTROL
<1> QED
  BY <1>1, <1>2, <1>6, <1>7, <1>9, Zenon DEF ReadAs, Segment, ReadsBack

\* A packet that buildStreamPacket packed, wherever it is among what was received:
\* decodePacket reads every field as it was packed, whatever its header's form, and
\* the payload that was copied.
THEOREM PacketReadsBack ==
    ASSUME WireAssumption, NEW s, NEW t, NEW n, NEW k, NEW payload, NEW src,
           Packed(s, t, n, k, payload, src),
           pc = "decode", NEW before \in Seq(WireByte), NEW after \in Seq(WireByte),
           packet = (before \o StreamPacket(s, t, n, k, payload, src)) \o after,
           offset = Len(before)
    PROVE  ReadsBack(s, t, n, k, payload, src, StreamPacket(s, t, n, k, payload, src))
<1>1. PICK e : e = StreamPacket(s, t, n, k, payload, src)
  OBVIOUS
<1>2. e \in Seq(WireByte)
  BY <1>1, StreamPacketIn
<1>3. Found(e)
  BY <1>1, <1>2, FoundBetween
<1> QED
  BY <1>1, <1>3, FoundReadsBack

\* The reassembly of a transaction of which src bytes were taken.
Mirrored(s, t, n, payload, src) ==
    rxBuffers[streamToIndex(s)] =
        IF src = 0 THEN NULL
        ELSE [transactionId |-> t, bufferSize |-> Len(payload), seqNum |-> n,
              data |-> SubSeq(payload, 1, src)]

\* What decodePacket does with it.
Reassembled(s, t, n, payload, src, e) ==
    LET next == src + PayloadLength(src, Len(payload) - src)
    IN  /\ Reassembles /\ PayloadFits
        /\ Appended = [transactionId |-> t, bufferSize |-> Len(payload),
                       seqNum |-> NextSeqNum(n), data |-> SubSeq(payload, 1, next)]
        /\ IsComplete <=> next = Len(payload)
        /\ offset + PayloadAt + currentPayloadLength = offset + Len(e)

LEMMA FoundReassembled ==
    ASSUME WireAssumption, NEW s, NEW t, NEW n, NEW k, NEW payload, NEW src,
           Packed(s, t, n, k, payload, src), streamToIndex(s) >= 0,
           Mirrored(s, t, n, payload, src), src = 0 => n = 0,
           NEW e, e = StreamPacket(s, t, n, k, payload, src), Found(e)
    PROVE  Reassembled(s, t, n, payload, src, e)
<1>1. PICK size : size = Len(payload)
  OBVIOUS
<1>2. PICK len, code : /\ len = PayloadLength(src, size - src)
                       /\ code = TypeCode[TransactionType(src, size - src)]
  OBVIOUS
<1>3. PICK l, m : /\ l = (IF src = 0 THEN 3 ELSE 0)
                  /\ m = (IF IsExtended(src, size - src) THEN 1 ELSE 0)
  OBVIOUS
<1>4. PICK h : h = 3 + l + m
  OBVIOUS
<1>5. Fields(e, s, t, n, k, payload, src, size, code, l, m, h, len)
  BY <1>1, <1>2, <1>3, <1>4, FieldsPacked
<1>6. e \in Seq(WireByte) /\ Found(e)
  BY <1>5 DEF Fields
<1>7. ReadAs(s, t, n, k, code, size, src, len, l, h)
  <2>1. FoundTo(e, h)
    BY <1>5, <1>6, FoundHeader DEF Fields
  <2> QED
    BY <1>1, <1>2, <1>3, <1>4, <1>5, <2>1, FieldsRead
<1>8. Segment(e, h, len, payload, src)
  BY <1>1, <1>2, <1>3, <1>4, <1>5, <1>6, SegmentFound
<1>9. /\ size \in Nat /\ src \in Nat /\ src < size /\ payload \in Seq(WireByte)
      /\ t \in Nat
  BY <1>1 DEF Packed
<1>10. len \in Nat /\ len > 0 /\ src + len <= size
  <2>1. size - src \in Nat /\ size - src > 0
    BY <1>9
  <2>2. len \in 1..(size - src)
    BY <1>2, <1>9, <2>1, PayloadBounds
  <2> QED
    BY <1>9, <2>2
<1>11. code \in Nat /\ code < 3
  BY <1>2 DEF TransactionType, TypeCode, INITIAL, CONTINUE, FINAL
<1>12. PICK taken : taken = IF src = 0 THEN <<>> ELSE SubSeq(payload, 1, src)
  OBVIOUS
<1>13. taken \in Seq(WireByte) /\ Len(taken) = src
  <2>1. CASE src = 0
    BY <1>12, <2>1, NoneOf
  <2>2. CASE src # 0
    <3>1. PICK one : one = 1
      OBVIOUS
    <3>2. one \in 1..size /\ src \in one..size /\ src - one + 1 = src
      BY <1>9, <2>2, <3>1
    <3>3. SubSeq(payload, one, src) \in Seq(WireByte) /\ Len(SubSeq(payload, one, src)) = src
      BY <1>1, <1>9, <3>2, Piece
    <3> QED
      BY <1>12, <2>2, <3>1, <3>3
  <2> QED
    BY <2>1, <2>2
<1>14. PICK buffer : buffer = [transactionId |-> t, bufferSize |-> size, seqNum |-> n,
                               data |-> taken]
  OBVIOUS
<1>15. Reassembly = buffer
  <2>1. CASE src = 0
    <3>1. Reassembly = [transactionId |-> t, bufferSize |-> size, seqNum |-> 0, data |-> <<>>]
      BY <1>7, <2>1, Zenon DEF ReadAs, Reassembly
    <3> QED
      BY <1>12, <1>14, <2>1, <3>1
  <2>2. CASE src # 0
    <3>1. Reassembly = rxBuffers[streamToIndex(s)]
      BY <1>7, <2>2, Zenon DEF ReadAs, Reassembly, Buffer
    <3> QED
      BY <1>1, <1>12, <1>14, <2>2, <3>1, Zenon DEF Mirrored
  <2> QED
    BY <2>1, <2>2
<1>16. Reassembles
  <2>1. InSegment /\ Has(2) /\ (src = 0 => Has(5))
    BY <1>8, Zenon DEF Segment
  <2>2. transactionType # CONTROL
    BY <1>7, <1>11 DEF ReadAs, CONTROL
  <2>3. streamToIndex(streamId) >= 0 /\ Buffer = rxBuffers[streamToIndex(s)]
    BY <1>7 DEF ReadAs, Buffer
  <2>4. src = 0 => Buffer = NULL
    BY <2>3, Zenon DEF Mirrored
  <2>5. src # 0 => Buffer # NULL /\ Buffer.transactionId = transactionId
    <3>1. src # 0 => Buffer = buffer
      BY <1>1, <1>12, <1>14, <2>3, Zenon DEF Mirrored
    <3>2. buffer.transactionId = t /\ NULL.transactionId = -1 /\ t # -1
      BY <1>9, <1>14 DEF NULL
    <3> QED
      BY <1>7, <3>1, <3>2 DEF ReadAs
  <2>6. IsInitial <=> src = 0
    BY <1>7, Zenon DEF ReadAs
  <2> QED
    BY <2>1, <2>2, <2>3, <2>4, <2>5, <2>6, Zenon DEF Reassembles
<1>17. PayloadFits
  <2>1. Has(PayloadAt) /\ Has(PayloadAt + currentPayloadLength)
    BY <1>7, <1>8, Zenon DEF ReadAs, Segment
  <2>2. Reassembly.seqNum = seqNum
    BY <1>7, <1>14, <1>15 DEF ReadAs
  <2>3. Reassembly.bufferSize = size /\ Reassembly.data = taken
    BY <1>14, <1>15
  <2>4. size - Len(taken) >= len
    BY <1>9, <1>10, <1>13
  <2> QED
    BY <1>7, <2>1, <2>2, <2>3, <2>4 DEF PayloadFits, ReadAs
<1>18. PICK next, data : next = src + len /\ data = SubSeq(payload, 1, next)
  OBVIOUS
<1>19. data = taken \o SubSeq(payload, src + 1, src + len)
  <2>1. CASE src = 0
    <3>1. PICK u : u = SubSeq(payload, src + 1, src + len)
      OBVIOUS
    <3>2. PICK one : one = src + 1
      OBVIOUS
    <3>3. one \in 1..size /\ next \in one..size /\ one = 1
      BY <1>9, <1>10, <1>18, <2>1, <3>2
    <3>4. u \in Seq(WireByte) /\ u = data
      <4>1. SubSeq(payload, one, next) \in Seq(WireByte)
        BY <1>1, <1>9, <3>3, Piece
      <4> QED
        BY <1>18, <3>1, <3>2, <3>3, <4>1, Zenon
    <3>5. <<>> \o u = u
      BY <3>4
    <3> QED
      BY <1>12, <2>1, <3>1, <3>4, <3>5, Zenon
  <2>2. CASE src # 0
    <3>1. src > 0 /\ src + len <= Len(payload)
      BY <1>1, <1>9, <1>10, <2>2
    <3> QED
      BY <1>9, <1>10, <1>12, <1>18, <2>2, <3>1, PiecesJoined
  <2> QED
    BY <2>1, <2>2
<1>20. Len(data) = next
  <2>1. PICK one : one = 1
    OBVIOUS
  <2>2. one \in 1..size /\ next \in one..size /\ next - one + 1 = next
    BY <1>9, <1>10, <1>18, <2>1
  <2>3. Len(SubSeq(payload, one, next)) = next - one + 1
    BY <1>1, <1>9, <2>2, Piece
  <2> QED
    BY <1>18, <2>1, <2>2, <2>3
<1>21. Appended = [transactionId |-> t, bufferSize |-> size,
                        seqNum |-> NextSeqNum(n), data |-> data]
  <2>1. SubSeq(packet, offset + PayloadAt + 1,
               offset + PayloadAt + currentPayloadLength)
          = SubSeq(payload, src + 1, src + len)
    BY <1>7, <1>8, Zenon DEF ReadAs, Segment
  <2>2. Appended = [buffer EXCEPT !.data = @ \o SubSeq(payload, src + 1, src + len),
                                       !.seqNum = NextSeqNum(@)]
    BY <1>15, <2>1, Zenon DEF Appended
  <2>3. NextSeqNum(n) = NextSeqNum(n)
    OBVIOUS
  <2>4. PICK piece, after0 : piece = SubSeq(payload, src + 1, src + len) /\ after0 = NextSeqNum(n)
    OBVIOUS
  <2>5. Appended = [buffer EXCEPT !.data = taken \o piece, !.seqNum = after0]
    BY <1>14, <2>2, <2>3, <2>4
  <2>6. [buffer EXCEPT !.data = data, !.seqNum = after0]
          = [transactionId |-> t, bufferSize |-> size, seqNum |-> after0, data |-> data]
    <3>1. PICK w : w = [buffer EXCEPT !.data = data]
      OBVIOUS
    <3>2. w = [transactionId |-> t, bufferSize |-> size, seqNum |-> n, data |-> data]
      BY <1>14, <3>1
    <3>3. [w EXCEPT !.seqNum = after0]
            = [transactionId |-> t, bufferSize |-> size, seqNum |-> after0, data |-> data]
      BY <3>2
    <3>4. [buffer EXCEPT !.data = data, !.seqNum = after0]
            = [[buffer EXCEPT !.data = data] EXCEPT !.seqNum = after0]
      OBVIOUS
    <3> QED
      BY <3>1, <3>3, <3>4, Zenon
  <2> QED
    BY <1>19, <2>4, <2>5, <2>6, Zenon
<1>22. IsComplete <=> next = size
  <2>1. Appended.data = data /\ Appended.bufferSize = size
    BY <1>21
  <2> QED
    BY <1>20, <2>1, Zenon DEF IsComplete
<1>23. offset + PayloadAt + currentPayloadLength = offset + Len(e)
  <2>1. PICK k0 : k0 = Len(e)
    OBVIOUS
  <2>2. k0 = h + len /\ PayloadAt = h /\ currentPayloadLength = len
    BY <1>7, <1>8, <2>1, Zenon DEF ReadAs, Segment
  <2>3. h \in Nat
    BY <1>5, Zenon DEF Fields
  <2>4. offset \in Nat
    BY <1>6 DEF Found, FoundTo
  <2>5. offset + h + len = offset + (h + len)
    BY <1>10, <2>3, <2>4
  <2> QED
    BY <2>1, <2>2, <2>5, Zenon
<1> QED
  BY <1>1, <1>2, <1>16, <1>17, <1>18, <1>21, <1>22, <1>23, Zenon DEF Reassembled

\* A reassembly that has the bytes in front of a packet takes the packet, wherever
\* it is among what was received, and then has the bytes in front of the next one,
\* which begins behind it: no assertion fails, nothing is refused, and it is
\* complete just when the payload is.
THEOREM PacketReassembled ==
    ASSUME WireAssumption, NEW s, NEW t, NEW n, NEW k, NEW payload, NEW src,
           Packed(s, t, n, k, payload, src), streamToIndex(s) >= 0,
           Mirrored(s, t, n, payload, src), src = 0 => n = 0,
           pc = "decode", NEW before \in Seq(WireByte), NEW after \in Seq(WireByte),
           packet = (before \o StreamPacket(s, t, n, k, payload, src)) \o after,
           offset = Len(before)
    PROVE  Reassembled(s, t, n, payload, src, StreamPacket(s, t, n, k, payload, src))
<1>1. PICK e : e = StreamPacket(s, t, n, k, payload, src)
  OBVIOUS
<1>2. e \in Seq(WireByte)
  BY <1>1, StreamPacketIn
<1>3. Found(e)
  BY <1>1, <1>2, FoundBetween
<1> QED
  BY <1>1, <1>3, FoundReassembled

-----------------------------------------------------------------------------
(***************************************************************************)
(* What buildStreamPacket returns.  A packet on the wire is told by what   *)
(* went into it: a control ack by its bytes, one of a payload by what      *)
(* StreamPacket was given.                                                 *)
(***************************************************************************)
AckPackets ==
    [kind : {"ack"}, first : WireByte, second : {12, 14}, result : {SUCCESS, FAILURE}]

DataOf(s, t, n, k, payload, src) ==
    [kind |-> "data", s |-> s, t |-> t, n |-> n, k |-> k, payload |-> payload, src |-> src]

DataPackets ==
    {d \in [kind : {"data"}, s : Nat, t : Nat, n : Nat, k : BOOLEAN,
            payload : Seq(WireByte), src : Nat] :
        Packed(d.s, d.t, d.n, d.k, d.payload, d.src)}

BytesOf(d) ==
    IF d.kind = "ack" THEN <<d.first, d.second, 0, 2, 1, d.result>>
    ELSE StreamPacket(d.s, d.t, d.n, d.k, d.payload, d.src)

OnTheWire(g) == [i \in 1..Len(g) |-> BytesOf(g[i])]

\* Where the next packet of the payload begins, and that e is it.
NextSrc(d) == d.src + PayloadLength(d.src, Len(d.payload) - d.src)

Continues(d, e) ==
    e = DataOf(d.s, d.t, NextSeqNum(d.n), d.k, d.payload, NextSrc(d))

LEMMA DataIs ==
    ASSUME NEW s, NEW t, NEW n, NEW k, NEW payload, NEW src, Packed(s, t, n, k, payload, src),
           NEW d, d = DataOf(s, t, n, k, payload, src)
    PROVE  /\ d \in DataPackets
           /\ d.kind = "data" /\ d.s = s /\ d.t = t /\ d.n = n /\ d.k = k
           /\ d.payload = payload /\ d.src = src
           /\ BytesOf(d) = StreamPacket(s, t, n, k, payload, src)
<1>1. /\ d.kind = "data" /\ d.s = s /\ d.t = t /\ d.n = n /\ d.k = k
      /\ d.payload = payload /\ d.src = src
  BY DEF DataOf
<1>2. BytesOf(d) = StreamPacket(s, t, n, k, payload, src)
  BY <1>1 DEF BytesOf
<1>3. Packed(d.s, d.t, d.n, d.k, d.payload, d.src)
  BY <1>1, Zenon
<1>4. d \in [kind : {"data"}, s : Nat, t : Nat, n : Nat, k : BOOLEAN,
             payload : Seq(WireByte), src : Nat]
  BY DEF DataOf, Packed
<1> QED
  BY <1>1, <1>2, <1>3, <1>4, Zenon DEF DataPackets

LEMMA DataFacts ==
    ASSUME NEW d \in DataPackets
    PROVE  /\ d.kind = "data" /\ d.k \in BOOLEAN
           /\ Packed(d.s, d.t, d.n, d.k, d.payload, d.src)
           /\ d = DataOf(d.s, d.t, d.n, d.k, d.payload, d.src)
           /\ BytesOf(d) = StreamPacket(d.s, d.t, d.n, d.k, d.payload, d.src)
<1>1. /\ d \in [kind : {"data"}, s : Nat, t : Nat, n : Nat, k : BOOLEAN,
                payload : Seq(WireByte), src : Nat]
      /\ Packed(d.s, d.t, d.n, d.k, d.payload, d.src)
  BY DEF DataPackets
<1>2. d.kind = "data" /\ d.k \in BOOLEAN
  BY <1>1
<1>3. d = DataOf(d.s, d.t, d.n, d.k, d.payload, d.src)
  BY <1>1 DEF DataOf
<1>4. BytesOf(d) = StreamPacket(d.s, d.t, d.n, d.k, d.payload, d.src)
  BY <1>2 DEF BytesOf
<1> QED
  BY <1>1, <1>2, <1>3, <1>4, Zenon

LEMMA NextSeqNumIn ==
    ASSUME NEW n \in SeqNums
    PROVE  NextSeqNum(n) \in SeqNums
  BY PacketAssumption DEF NextSeqNum, SeqNums

\* Where the loop goes on.
LEMMA NextPacked ==
    ASSUME WireAssumption, NEW d \in DataPackets
    PROVE  /\ NextSrc(d) \in Nat /\ NextSrc(d) > d.src /\ NextSrc(d) <= Len(d.payload)
           /\ NextSeqNum(d.n) \in SeqNums
           /\ NextSrc(d) < Len(d.payload) =>
                Packed(d.s, d.t, NextSeqNum(d.n), d.k, d.payload, NextSrc(d))
<1>1. PICK size, src, n : size = Len(d.payload) /\ src = d.src /\ n = d.n
  OBVIOUS
<1>2. size \in Nat /\ src \in Nat /\ src < size /\ n \in Nat /\ n < 16
  BY <1>1, DataFacts DEF Packed
<1>3. size - src \in Nat /\ size - src > 0
  BY <1>2
<1>4. PICK len : len = PayloadLength(src, size - src) /\ len \in 1..(size - src)
  BY <1>2, <1>3, PayloadBounds
<1>5. NextSrc(d) = src + len
  BY <1>1, <1>4 DEF NextSrc
<1>6. NextSeqNum(d.n) \in Nat /\ NextSeqNum(d.n) < 16 /\ NextSeqNum(d.n) \in SeqNums
  <2>1. NextSeqNum(n) = (n + 1) % 16 /\ SeqNums = 0..15
    BY DEF NextSeqNum, SeqNums, WireAssumption
  <2>2. PICK m : m = (n + 1) % 16
    OBVIOUS
  <2>3. m \in Nat /\ m < 16 /\ m \in 0..15
    BY <1>2, <2>2
  <2> QED
    BY <1>1, <2>1, <2>2, <2>3, Zenon
<1>7. NextSrc(d) \in Nat /\ NextSrc(d) > src /\ NextSrc(d) <= size
  BY <1>2, <1>4, <1>5
<1> QED
  BY <1>1, <1>6, <1>7, DataFacts DEF Packed

\* A function that goes on from each value to one of a lower rank exists.
Descends(X, rank, after, most) ==
    /\ most \in Nat /\ rank \in [X -> Nat] /\ \A x \in X : rank[x] <= most
    /\ \A x \in X : rank[x] # 0 => after[x] \in X /\ rank[after[x]] < rank[x]

Recursive(f, X, rank, after, head) ==
    f = [x \in X |-> IF rank[x] = 0 THEN <<>> ELSE <<head[x]>> \o f[after[x]]]

LEMMA RecursionExists ==
    ASSUME NEW X, NEW rank, NEW after, NEW head, NEW most, Descends(X, rank, after, most)
    PROVE  \E f : Recursive(f, X, rank, after, head)
<1> DEFINE Below(m) == {x \in X : rank[x] <= m}
           Is(f, m) == f = [x \in Below(m) |-> IF rank[x] = 0 THEN <<>>
                                               ELSE <<head[x]>> \o f[after[x]]]
           S == {m \in Nat : \E f : Is(f, m)}
<1>0. /\ most \in Nat /\ rank \in [X -> Nat] /\ \A x \in X : rank[x] <= most
      /\ \A x \in X : rank[x] # 0 => after[x] \in X /\ rank[after[x]] < rank[x]
  BY Zenon DEF Descends
<1>1. 0 \in S
  <2>1. Is([x \in Below(0) |-> <<>>], 0)
    <3>1. \A x \in Below(0) : rank[x] = 0
      BY <1>0
    <3> QED
      BY <3>1
  <2> QED
    BY <2>1
<1>2. ASSUME NEW m \in Nat, m \in S
      PROVE  m + 1 \in S
  <2>1. PICK f : Is(f, m)
    BY <1>2
  <2> DEFINE g == [x \in Below(m + 1) |->
                      IF x \in Below(m) THEN f[x] ELSE <<head[x]>> \o f[after[x]]]
  <2>2. ASSUME NEW x \in Below(m + 1)
        PROVE  g[x] = IF rank[x] = 0 THEN <<>> ELSE <<head[x]>> \o g[after[x]]
    <3>1. rank[x] \in Nat /\ rank[x] <= m + 1 /\ x \in X
      BY <1>0
    <3>2. rank[x] # 0 => after[x] \in Below(m) /\ g[after[x]] = f[after[x]]
      BY <1>0, <3>1
    <3>3. CASE x \in Below(m)
      <4>1. f[x] = IF rank[x] = 0 THEN <<>> ELSE <<head[x]>> \o f[after[x]]
        BY <2>1, <3>3
      <4> QED
        BY <3>2, <3>3, <4>1
    <3>4. CASE x \notin Below(m)
      <4>1. rank[x] # 0
        BY <3>1, <3>4
      <4> QED
        BY <3>2, <3>4, <4>1
    <3> QED
      BY <3>3, <3>4
  <2>3. g = [x \in Below(m + 1) |-> g[x]]
    OBVIOUS
  <2> HIDE DEF g
  <2>4. Is(g, m + 1)
    BY <2>2, <2>3
  <2>5. m + 1 \in Nat
    OBVIOUS
  <2> HIDE DEF Is
  <2> QED
    BY <2>4, <2>5
<1>3. \A m \in Nat : \E f : Is(f, m)
  <2> HIDE DEF Is
  <2>1. \A m \in Nat : m \in S
    <3> HIDE DEF S
    <3> QED
      BY <1>1, <1>2, SetInduction
  <2> QED
    BY <2>1
<1>4. PICK f : Is(f, most)
  BY <1>0, <1>3
<1>5. Below(most) = X
  BY <1>0
<1> QED
  BY <1>4, <1>5 DEF Recursive

-----------------------------------------------------------------------------
\* Packets in the order in which the loop leaves them: each that is not the first of
\* its payload continues the one in front of it, and none is the last before the
\* payload is.
InOrder(g) ==
    \A j \in 1..Len(g) : g[j] \in DataPackets =>
        /\ IF g[j].src = 0 THEN g[j].n = 0
           ELSE j > 1 /\ g[j - 1] \in DataPackets /\ Continues(g[j - 1], g[j])
        /\ NextSrc(g[j]) < Len(g[j].payload) =>
              j + 1 <= Len(g) /\ Continues(g[j], g[j + 1])

\* What is left of them where the loop is at srcIndex src and number n.
Left(g, s, t, k, payload, src, n) ==
    /\ g \in Seq(DataPackets) /\ Len(g) > 0
    /\ g[1] = DataOf(s, t, n, k, payload, src)
    /\ \A j \in 1..Len(g) :
          NextSrc(g[j]) < Len(g[j].payload) => j + 1 <= Len(g) /\ Continues(g[j], g[j + 1])
    /\ \A j \in 2..Len(g) : Continues(g[j - 1], g[j])
    /\ \A j \in 1..Len(g) : g[j].s = s

\* One packet more in front.
LEMMA LeftOneMore ==
    ASSUME WireAssumption, NEW s, NEW t, NEW n, NEW k, NEW payload, NEW src,
           Packed(s, t, n, k, payload, src),
           NEW d, d = DataOf(s, t, n, k, payload, src),
           NEW g, IF NextSrc(d) = Len(payload) THEN g = <<>>
                  ELSE Left(g, s, t, k, payload, NextSrc(d), NextSeqNum(n))
    PROVE  Left(<<d>> \o g, s, t, k, payload, src, n)
<1>1. /\ d \in DataPackets /\ d.payload = payload /\ d.s = s /\ d.t = t /\ d.n = n /\ d.k = k
      /\ d.src = src
  BY DataIs
<1>2. PICK u, size, b : u = <<d>> \o g /\ size = Len(g) /\ b = <<d>>
  OBVIOUS
<1>3. b \in Seq(DataPackets) /\ Len(b) = 1 /\ b[1] = d
  BY <1>1, <1>2
<1>4. g \in Seq(DataPackets) /\ size \in Nat
  <2>1. g = <<>> => g \in Seq(DataPackets)
    OBVIOUS
  <2>2. g # <<>> => g \in Seq(DataPackets)
    BY Zenon DEF Left
  <2>3. g \in Seq(DataPackets)
    BY <2>1, <2>2, Zenon
  <2> QED
    BY <1>2, <2>3
<1>5. u \in Seq(DataPackets) /\ Len(u) = 1 + size /\ u[1] = d
      /\ \A i \in 1..size : u[1 + i] = g[i]
  BY <1>2, <1>3, <1>4
<1>6. size > 0 => Continues(d, g[1])
  <2> SUFFICES ASSUME size > 0
               PROVE  Continues(d, g[1])
    OBVIOUS
  <2>1. Left(g, s, t, k, payload, NextSrc(d), NextSeqNum(n))
    BY <1>2
  <2>2. g[1] = DataOf(s, t, NextSeqNum(n), k, payload, NextSrc(d))
    BY <2>1, Zenon DEF Left
  <2> QED
    BY <1>1, <2>2, Zenon DEF Continues
<1>7. NextSrc(d) < Len(payload) => size > 0
  <2>1. NextSrc(d) \in Nat
    BY <1>1, NextPacked
  <2> QED
    BY <1>2, <2>1 DEF Left
<1>8. ASSUME NEW j \in 1..(1 + size)
      PROVE  /\ NextSrc(u[j]) < Len(u[j].payload) => j + 1 <= 1 + size /\ Continues(u[j], u[j + 1])
             /\ j > 1 => Continues(u[j - 1], u[j])
             /\ u[j].s = s
  <2>1. CASE j = 1
    <3>1. u[j] = d
      BY <1>5, <2>1
    <3>2. size > 0 => 1 \in 1..size /\ u[1 + 1] = g[1]
      BY <1>4, <1>5
    <3> QED
      BY <1>1, <1>4, <1>6, <1>7, <2>1, <3>1, <3>2
  <2>2. CASE j # 1
    <3>1. PICK i \in 1..size : j = 1 + i
      <4>1. j - 1 \in 1..size /\ j = 1 + (j - 1)
        BY <1>4, <2>2
      <4> QED
        BY <4>1
    <3>2. Left(g, s, t, k, payload, NextSrc(d), NextSeqNum(n))
      <4>1. g # <<>>
        BY <1>2, <1>4, <3>1
      <4> QED
        BY <4>1
    <3>3. u[j] = g[i]
      BY <1>5, <3>1
    <3>4. NextSrc(g[i]) < Len(g[i].payload) => i + 1 <= size /\ Continues(g[i], g[i + 1])
      BY <1>2, <3>2 DEF Left
    <3>5. i + 1 <= size => u[j + 1] = g[i + 1]
      <4>1. i + 1 <= size => i + 1 \in 1..size /\ j + 1 = 1 + (i + 1)
        BY <1>4, <3>1
      <4> QED
        BY <1>5, <4>1
    <3>6. Continues(u[j - 1], u[j])
      <4>1. CASE i = 1
        <5>1. j - 1 = 1 /\ size > 0
          BY <1>4, <3>1, <4>1
        <5> QED
          BY <1>5, <1>6, <3>3, <4>1, <5>1
      <4>2. CASE i # 1
        <5>1. i \in 2..size /\ i - 1 \in 1..size /\ j - 1 = 1 + (i - 1)
          BY <1>4, <3>1, <4>2
        <5>2. Continues(g[i - 1], g[i])
          BY <1>2, <3>2, <5>1 DEF Left
        <5> QED
          BY <1>5, <3>3, <5>1, <5>2
      <4> QED
        BY <4>1, <4>2
    <3>7. i + 1 <= size => j + 1 <= 1 + size
      BY <1>4, <3>1
    <3>8. g[i].s = s
      BY <1>2, <3>2 DEF Left
    <3> QED
      BY <3>3, <3>4, <3>5, <3>6, <3>7, <3>8
  <2> QED
    BY <2>1, <2>2
<1>9. \A j \in 2..(1 + size) : j \in 1..(1 + size) /\ j > 1
  BY <1>4
<1>10. u[1] = DataOf(s, t, n, k, payload, src)
  BY <1>5
<1>11. Len(u) > 0
  BY <1>4, <1>5
<1> QED
  BY <1>2, <1>5, <1>8, <1>9, <1>10, <1>11, Zenon DEF Left

LEMMA WireJoined ==
    ASSUME NEW S, NEW g \in Seq(S), NEW h \in Seq(S)
    PROVE  OnTheWire(g \o h) = OnTheWire(g) \o OnTheWire(h)
<1>1. PICK l, n : l = Len(g) /\ n = Len(h)
  OBVIOUS
<1>2. PICK u : u = g \o h
  OBVIOUS
<1>3. IsJoin(S, g, h, u, l, n)
  BY <1>1, <1>2, JoinedTo, Zenon
<1>4. PICK B : B = {BytesOf(x) : x \in S}
  OBVIOUS
<1>5. PICK a, b, c : a = OnTheWire(g) /\ b = OnTheWire(h) /\ c = OnTheWire(u)
  OBVIOUS
<1>6. a \in Seq(B) /\ Len(a) = l /\ \A i \in 1..l : a[i] = BytesOf(g[i])
  <2>1. \A i \in 1..l : g[i] \in S
    BY <1>1
  <2> QED
    BY <1>1, <1>4, <1>5, <2>1 DEF OnTheWire
<1>7. b \in Seq(B) /\ Len(b) = n /\ \A i \in 1..n : b[i] = BytesOf(h[i])
  <2>1. \A i \in 1..n : h[i] \in S
    BY <1>1
  <2> QED
    BY <1>1, <1>4, <1>5, <2>1 DEF OnTheWire
<1>8. c \in Seq(B) /\ Len(c) = l + n /\ \A i \in 1..(l + n) : c[i] = BytesOf(u[i])
  <2>1. u \in Seq(S) /\ Len(u) = l + n
    BY <1>3 DEF IsJoin
  <2>2. \A i \in 1..(l + n) : u[i] \in S
    BY <2>1
  <2> QED
    BY <1>4, <1>5, <2>1, <2>2 DEF OnTheWire
<1>9. PICK v : v = a \o b
  OBVIOUS
<1>10. IsJoin(B, a, b, v, l, n)
  BY <1>6, <1>7, <1>9, JoinedTo
<1>11. ASSUME NEW i \in 1..(l + n)
       PROVE  v[i] = c[i]
  <2>1. l \in Nat /\ n \in Nat
    BY <1>3 DEF IsJoin
  <2>2. CASE i <= l
    <3>1. i \in 1..l
      BY <2>1, <2>2
    <3> QED
      BY <1>3, <1>6, <1>8, <1>10, <3>1 DEF IsJoin
  <2>3. CASE ~(i <= l)
    <3>1. PICK j \in 1..n : i = l + j
      <4>1. i - l \in 1..n /\ i = l + (i - l)
        BY <2>1, <2>3
      <4> QED
        BY <4>1
    <3> QED
      BY <1>3, <1>7, <1>8, <1>10, <3>1, ZenonT(60) DEF IsJoin
  <2> QED
    BY <2>2, <2>3
<1>12. v \in Seq(B) /\ Len(v) = l + n
  BY <1>10 DEF IsJoin
<1>13. v = c
  BY <1>8, <1>11, <1>12, SeqEqual
<1> QED
  BY <1>2, <1>5, <1>9, <1>13, Zenon

\* The packets of a payload, where the loop is.
Places(payload) == (0..Len(payload)) \X SeqNums

Loop(s, t, k, payload) ==
    CHOOSE f : f = [at \in Places(payload) |->
        IF at[1] = Len(payload) THEN <<>>
        ELSE <<StreamPacket(s, t, at[2], k, payload, at[1])>>
             \o f[<<at[1] + PayloadLength(at[1], Len(payload) - at[1]), NextSeqNum(at[2])>>]]

LEMMA BuiltIs ==
    ASSUME NEW s, NEW t, NEW k, NEW payload
    PROVE  buildStreamPacket(s, t, k, payload) = Loop(s, t, k, payload)[<<0, 0>>]
  BY DEF buildStreamPacket, Loop, Places

Looping(s, t, k, payload, src, n) ==
    Loop(s, t, k, payload)[<<src, n>>] =
        IF src = Len(payload) THEN <<>>
        ELSE <<StreamPacket(s, t, n, k, payload, src)>>
             \o Loop(s, t, k, payload)[<<src + PayloadLength(src, Len(payload) - src),
                                         NextSeqNum(n)>>]

LEMMA LoopIs ==
    ASSUME WireAssumption, NEW s \in Nat, s < 16, NEW t \in Nat, t < 16, NEW k \in BOOLEAN,
           NEW payload, IsPayload(payload),
           NEW src \in 0..Len(payload), NEW n \in SeqNums
    PROVE  Looping(s, t, k, payload, src, n)
<1> DEFINE X == Places(payload)
           size == Len(payload)
           rank == [at \in X |-> size - at[1]]
           after == [at \in X |-> <<at[1] + PayloadLength(at[1], size - at[1]),
                                    NextSeqNum(at[2])>>]
           head == [at \in X |-> StreamPacket(s, t, at[2], k, payload, at[1])]
           f == Loop(s, t, k, payload)
<1>1. size \in Nat /\ payload \in Seq(WireByte) /\ size <= MaxTransactionLength
  BY DEF IsPayload, WireByte
<1> HIDE DEF size
<1>2. rank \in [X -> Nat] /\ \A x \in X : rank[x] <= size
  BY <1>1 DEF Places, size
<1>3. ASSUME NEW x \in X, rank[x] # 0
      PROVE  after[x] \in X /\ rank[after[x]] < rank[x]
  <2>1. PICK i, m : i = x[1] /\ m = x[2]
    OBVIOUS
  <2>2. i \in 0..size /\ m \in SeqNums /\ i # size
    BY <1>1, <1>3, <2>1 DEF Places, size
  <2>3. PICK len : len = PayloadLength(i, size - i)
    OBVIOUS
  <2>4. len \in 1..(size - i)
    <3>1. size - i \in Nat /\ size - i > 0 /\ i \in Nat
      BY <1>1, <2>2
    <3> QED
      BY <2>3, <3>1, PayloadBounds
  <2>5. NextSeqNum(m) \in SeqNums
    BY <2>2, NextSeqNumIn
  <2>6. after[x] = <<i + len, NextSeqNum(m)>>
    BY <2>1, <2>3
  <2>7. i + len \in 0..size
    BY <1>1, <2>2, <2>4
  <2>8. after[x] \in X
    BY <2>5, <2>6, <2>7 DEF Places, size
  <2>9. rank[after[x]] = size - (i + len) /\ rank[x] = size - i
    BY <2>1, <2>6, <2>8
  <2> QED
    BY <1>1, <2>2, <2>4, <2>8, <2>9
<1>4. \E g : Recursive(g, X, rank, after, head)
  <2> HIDE DEF X, rank, after, head
  <2>1. Descends(X, rank, after, size)
    BY <1>1, <1>2, <1>3 DEF Descends
  <2> QED
    BY <2>1, RecursionExists, Zenon
<1>5. PICK g : Recursive(g, X, rank, after, head)
  BY <1>4
<1>6. \A x \in X : g[x] = IF x[1] = size THEN <<>>
                         ELSE <<StreamPacket(s, t, x[2], k, payload, x[1])>>
                              \o g[<<x[1] + PayloadLength(x[1], size - x[1]), NextSeqNum(x[2])>>]
  <2> SUFFICES ASSUME NEW x \in X
               PROVE  g[x] = IF x[1] = size THEN <<>>
                         ELSE <<StreamPacket(s, t, x[2], k, payload, x[1])>>
                              \o g[<<x[1] + PayloadLength(x[1], size - x[1]), NextSeqNum(x[2])>>]
    OBVIOUS
  <2>1. rank[x] = 0 <=> x[1] = size
    BY <1>1 DEF Places, size
  <2>2. head[x] = StreamPacket(s, t, x[2], k, payload, x[1])
    OBVIOUS
  <2>3. after[x] = <<x[1] + PayloadLength(x[1], size - x[1]), NextSeqNum(x[2])>>
    OBVIOUS
  <2>4. g[x] = IF rank[x] = 0 THEN <<>> ELSE <<head[x]>> \o g[after[x]]
    <3> HIDE DEF X, rank, after, head
    <3> QED
      BY <1>5 DEF Recursive
  <2> QED
    BY <2>1, <2>2, <2>3, <2>4, Zenon
<1>7. g = [x \in X |-> IF x[1] = size THEN <<>>
                       ELSE <<StreamPacket(s, t, x[2], k, payload, x[1])>>
                            \o g[<<x[1] + PayloadLength(x[1], size - x[1]), NextSeqNum(x[2])>>]]
  <2>1. g = [x \in X |-> g[x]]
    <3> HIDE DEF X, rank, after, head
    <3> QED
      BY <1>5 DEF Recursive
  <2> HIDE DEF X
  <2> QED
    BY <1>6, <2>1
<1>8. f = [x \in X |-> IF x[1] = size THEN <<>>
                       ELSE <<StreamPacket(s, t, x[2], k, payload, x[1])>>
                            \o f[<<x[1] + PayloadLength(x[1], size - x[1]), NextSeqNum(x[2])>>]]
  BY <1>7, Zenon DEF Loop, size
<1>9. PICK x : x = <<src, n>>
  OBVIOUS
<1>10. x \in X /\ x[1] = src /\ x[2] = n
  BY <1>9 DEF Places, size
<1> HIDE DEF f, X
<1>11. f[x] = IF x[1] = size THEN <<>>
              ELSE <<StreamPacket(s, t, x[2], k, payload, x[1])>>
                   \o f[<<x[1] + PayloadLength(x[1], size - x[1]), NextSeqNum(x[2])>>]
  BY <1>8, <1>10
<1> QED
  BY <1>9, <1>10, <1>11, Zenon DEF f, size, Looping

\* The packets that buildStreamPacket returns.
BuiltAs(g, s, t, k, payload) ==
    /\ g \in Seq(DataPackets) /\ InOrder(g) /\ \A j \in 1..Len(g) : g[j].s = s
    /\ buildStreamPacket(s, t, k, payload) = OnTheWire(g)

LEMMA Built ==
    ASSUME WireAssumption, NEW s \in Nat, s < 16, NEW t \in Nat, t < 16, NEW k \in BOOLEAN,
           NEW payload, IsPayload(payload)
    PROVE  \E g : BuiltAs(g, s, t, k, payload)
<1> DEFINE f == Loop(s, t, k, payload)
           size == Len(payload)
           Good(src, n) == IF src = size THEN f[<<src, n>>] = <<>>
                           ELSE \E g : /\ Left(g, s, t, k, payload, src, n)
                                       /\ f[<<src, n>>] = OnTheWire(g)
           S == {m \in Nat : \A src \in 0..size, n \in SeqNums : size - src <= m => Good(src, n)}
<1>1. size \in Nat /\ payload \in Seq(WireByte) /\ size <= MaxTransactionLength
  BY DEF IsPayload, WireByte
<1>2. \A src \in 0..size, n \in SeqNums :
        f[<<src, n>>] = IF src = size THEN <<>>
                        ELSE <<StreamPacket(s, t, n, k, payload, src)>>
                             \o f[<<src + PayloadLength(src, size - src), NextSeqNum(n)>>]
  <2> SUFFICES ASSUME NEW src \in 0..size, NEW n \in SeqNums
               PROVE  f[<<src, n>>] =
                        IF src = size THEN <<>>
                        ELSE <<StreamPacket(s, t, n, k, payload, src)>>
                             \o f[<<src + PayloadLength(src, size - src), NextSeqNum(n)>>]
    OBVIOUS
  <2>1. Looping(s, t, k, payload, src, n)
    <3>1. src \in 0..Len(payload)
      OBVIOUS
    <3> HIDE DEF f, size, Good, S
    <3> QED
      BY <3>1, LoopIs, Zenon
  <2> QED
    BY <2>1, Zenon DEF Looping
<1> HIDE DEF f, size
<1>3. 0 \in S
  <2>1. \A src \in 0..size : size - src <= 0 => src = size
    BY <1>1
  <2> QED
    BY <1>2, <2>1
<1>4. ASSUME NEW m \in Nat, m \in S
      PROVE  m + 1 \in S
  <2> SUFFICES ASSUME NEW src \in 0..size, NEW n \in SeqNums, size - src <= m + 1
               PROVE  Good(src, n)
    OBVIOUS
  <2>1. CASE src = size
    BY <1>2, <2>1
  <2>2. CASE src # size
    <3>1. Packed(s, t, n, k, payload, src)
      <4>1. n \in Nat /\ n < 16
        BY SMTT(60) DEF WireAssumption, SeqNums
      <4> QED
        BY <1>1, <2>2, <4>1 DEF Packed, size
    <3>2. PICK d : d = DataOf(s, t, n, k, payload, src)
      OBVIOUS
    <3>3. /\ d \in DataPackets /\ d.payload = payload /\ d.src = src
          /\ BytesOf(d) = StreamPacket(s, t, n, k, payload, src)
      BY <3>1, <3>2, DataIs
    <3>4. PICK next, m2 : next = NextSrc(d) /\ m2 = NextSeqNum(n)
      OBVIOUS
    <3>5. next \in 0..size /\ next > src /\ m2 \in SeqNums
          /\ next = src + PayloadLength(src, size - src)
      <4>1. next \in Nat /\ next > src /\ next <= size
        BY <3>3, <3>4, NextPacked DEF size
      <4>2. next = src + PayloadLength(src, size - src)
        BY <3>3, <3>4 DEF NextSrc, size
      <4> QED
        BY <1>1, <3>4, <4>1, <4>2, NextSeqNumIn
    <3>6. Good(next, m2)
      <4>1. size - next <= m
        BY <1>1, <3>5
      <4> HIDE DEF Good
      <4> QED
        BY <1>4, <3>5, <4>1
    <3>7. f[<<src, n>>] = <<BytesOf(d)>> \o f[<<next, m2>>]
      BY <1>2, <2>2, <3>3, <3>4, <3>5
    <3>8. PICK g : /\ f[<<next, m2>>] = OnTheWire(g)
                   /\ IF next = size THEN g = <<>> ELSE Left(g, s, t, k, payload, next, m2)
      <4>1. CASE next = size
        <5>1. OnTheWire(<<>>) = <<>>
          BY DEF OnTheWire
        <5> QED
          BY <3>6, <4>1, <5>1
      <4>2. CASE next # size
        BY <3>6, <4>2
      <4> QED
        BY <4>1, <4>2
    <3>9. Left(<<d>> \o g, s, t, k, payload, src, n)
      BY <3>1, <3>2, <3>4, <3>8, LeftOneMore DEF size
    <3>10. OnTheWire(<<d>> \o g) = <<BytesOf(d)>> \o OnTheWire(g)
      <4>1. g \in Seq(DataPackets)
        <5>1. g = <<>> => g \in Seq(DataPackets)
          OBVIOUS
        <5>2. g # <<>> => g \in Seq(DataPackets)
          BY <3>8, Zenon DEF Left
        <5> QED
          BY <5>1, <5>2, Zenon
      <4>2. <<d>> \in Seq(DataPackets)
        BY <3>3
      <4>3. OnTheWire(<<d>>) = <<BytesOf(d)>>
        BY DEF OnTheWire
      <4> QED
        BY <4>1, <4>2, <4>3, WireJoined
    <3> QED
      BY <2>2, <3>7, <3>8, <3>9, <3>10
  <2> QED
    BY <2>1, <2>2
<1>5. size \in S
  <2> HIDE DEF S
  <2> QED
    BY <1>1, <1>3, <1>4, SetInduction
<1>6. Good(0, 0)
  <2>1. 0 \in 0..size /\ 0 \in SeqNums /\ size - 0 <= size
    BY <1>1 DEF WireAssumption, SeqNums
  <2> HIDE DEF Good
  <2> QED
    BY <1>5, <2>1
<1>7. PICK g : /\ f[<<0, 0>>] = OnTheWire(g)
               /\ IF 0 = size THEN g = <<>> ELSE Left(g, s, t, k, payload, 0, 0)
  <2>1. OnTheWire(<<>>) = <<>>
    BY DEF OnTheWire
  <2> QED
    BY <1>6, <2>1
<1>8. g \in Seq(DataPackets) /\ InOrder(g) /\ \A j \in 1..Len(g) : g[j].s = s
  <2>1. CASE 0 = size
    <3>1. g = <<>>
      BY <1>7, <2>1
    <3> QED
      BY <3>1 DEF InOrder
  <2>2. CASE 0 # size
    <3>1. Left(g, s, t, k, payload, 0, 0)
      BY <1>7, <2>2
    <3>2. /\ g \in Seq(DataPackets)
          /\ g[1] = DataOf(s, t, 0, k, payload, 0)
          /\ \A j \in 1..Len(g) : NextSrc(g[j]) < Len(g[j].payload) =>
                j + 1 <= Len(g) /\ Continues(g[j], g[j + 1])
          /\ \A j \in 2..Len(g) : Continues(g[j - 1], g[j])
          /\ \A j \in 1..Len(g) : g[j].s = s
      BY <3>1, Zenon DEF Left
    <3>3. ASSUME NEW j \in 1..Len(g)
          PROVE  IF g[j].src = 0 THEN g[j].n = 0
                 ELSE j > 1 /\ g[j - 1] \in DataPackets /\ Continues(g[j - 1], g[j])
      <4>1. CASE j = 1
        <5>1. g[j].src = 0 /\ g[j].n = 0
          BY <3>2, <4>1 DEF DataOf
        <5> QED
          BY <5>1
      <4>2. CASE j # 1
        <5>1. j \in 2..Len(g) /\ j > 1 /\ j - 1 \in 1..Len(g)
          BY <3>2, <4>2
        <5>2. Continues(g[j - 1], g[j]) /\ g[j - 1] \in DataPackets
          BY <3>2, <5>1
        <5>3. g[j].src = NextSrc(g[j - 1]) /\ NextSrc(g[j - 1]) > 0
          <6>1. g[j].src = NextSrc(g[j - 1])
            BY <5>2 DEF Continues, DataOf
          <6>2. NextSrc(g[j - 1]) \in Nat /\ NextSrc(g[j - 1]) > g[j - 1].src
            BY <5>2, NextPacked
          <6>3. g[j - 1].src \in Nat
            BY <5>2 DEF DataPackets
          <6> QED
            BY <6>1, <6>2, <6>3
        <5> QED
          BY <5>1, <5>2, <5>3
      <4> QED
        BY <4>1, <4>2
    <3> QED
      BY <3>2, <3>3 DEF InOrder
  <2> QED
    BY <2>1, <2>2
<1> QED
  BY <1>7, <1>8, BuiltIs DEF f, BuiltAs

-----------------------------------------------------------------------------
(***************************************************************************)
(* The packets that the Echo device sends.                                 *)
(***************************************************************************)
DataBytes == {BytesOf(d) : d \in DataPackets}

LEMMA WireOfData ==
    ASSUME NEW g \in Seq(DataPackets)
    PROVE  OnTheWire(g) \in Seq(DataBytes)
<1>1. PICK n : n = Len(g)
  OBVIOUS
<1>2. n \in Nat /\ \A i \in 1..n : BytesOf(g[i]) \in DataBytes
  BY <1>1 DEF DataBytes
<1> QED
  BY <1>1, <1>2 DEF OnTheWire

\* FlattenSeq appends one sequence after the other.
Flattening(f, seqs, n) ==
    f = [i \in 1..n |-> IF i = 1 THEN seqs[i] ELSE f[i - 1] \o seqs[i]]

Flattener(seqs) ==
    CHOOSE f : f = [i \in 1..Len(seqs) |-> IF i = 1 THEN seqs[i] ELSE f[i - 1] \o seqs[i]]

LEMMA FlattenIs ==
    ASSUME NEW seqs
    PROVE  FlattenSeq(seqs) = IF Len(seqs) = 0 THEN seqs ELSE Flattener(seqs)[Len(seqs)]
  BY DEF FlattenSeq, Flattener

LEMMA FlattensTo ==
    ASSUME NEW seqs, NEW n, n = Len(seqs), n \in Nat, n > 0
    PROVE  \E f : Flattening(f, seqs, n) /\ FlattenSeq(seqs) = f[n]
<1> DEFINE S == {m \in Nat : \E f : Flattening(f, seqs, m)}
<1>1. 0 \in S
  <2>1. \A i \in 1..0 : FALSE
    OBVIOUS
  <2>2. Flattening([i \in 1..0 |-> i], seqs, 0)
    BY <2>1 DEF Flattening
  <2> QED
    BY <2>2
<1>2. ASSUME NEW m \in Nat, m \in S
      PROVE  m + 1 \in S
  <2>1. PICK f : Flattening(f, seqs, m)
    BY <1>2
  <2> DEFINE g == [i \in 1..(m + 1) |->
                      IF i = 1 THEN seqs[i] ELSE f[i - 1] \o seqs[i]]
  <2>2. \A i \in 1..m : g[i] = f[i]
    <3>1. \A i \in 1..m : f[i] = IF i = 1 THEN seqs[i] ELSE f[i - 1] \o seqs[i]
      BY <2>1 DEF Flattening
    <3>2. \A i \in 1..m : i \in 1..(m + 1)
      OBVIOUS
    <3> QED
      BY <3>1, <3>2
  <2>3. \A i \in 1..(m + 1) : i # 1 => i - 1 \in 1..m
    OBVIOUS
  <2>4. \A i \in 1..(m + 1) : g[i] = IF i = 1 THEN seqs[i] ELSE g[i - 1] \o seqs[i]
    BY <2>2, <2>3
  <2>5. g = [i \in 1..(m + 1) |-> g[i]]
    OBVIOUS
  <2> HIDE DEF g
  <2>6. Flattening(g, seqs, m + 1)
    BY <2>4, <2>5 DEF Flattening
  <2>7. m + 1 \in Nat
    OBVIOUS
  <2> QED
    BY <2>6, <2>7
<1>3. \E f : Flattening(f, seqs, n)
  <2>1. n \in S
    <3> HIDE DEF S
    <3> QED
      BY <1>1, <1>2, SetInduction
  <2> QED
    BY <2>1
<1>4. Flattening(Flattener(seqs), seqs, n)
  <2>1. PICK f : Flattening(f, seqs, n)
    BY <1>3
  <2>2. f = [i \in 1..Len(seqs) |-> IF i = 1 THEN seqs[i] ELSE f[i - 1] \o seqs[i]]
    BY <2>1 DEF Flattening
  <2> QED
    BY <2>2, Zenon DEF Flattener, Flattening
<1> QED
  BY <1>4, FlattenIs

LEMMA FlattenedIn ==
    ASSUME NEW S, NEW seqs \in Seq(Seq(S))
    PROVE  FlattenSeq(seqs) \in Seq(S)
<1>1. PICK n : n = Len(seqs)
  OBVIOUS
<1>2. n \in Nat /\ \A i \in 1..n : seqs[i] \in Seq(S)
  BY <1>1
<1>3. CASE n = 0
  <2>1. FlattenSeq(seqs) = seqs
    BY <1>1, <1>3, Zenon DEF FlattenSeq
  <2>2. seqs = <<>>
    <3>1. PICK T : T = Seq(S)
      OBVIOUS
    <3>2. seqs \in Seq(T) /\ Len(seqs) = 0
      BY <1>1, <1>3, <3>1
    <3> QED
      BY <3>2
  <2> QED
    BY <2>1, <2>2
<1>4. CASE n > 0
  <2>1. PICK f : Flattening(f, seqs, n) /\ FlattenSeq(seqs) = f[n]
    BY <1>1, <1>2, <1>4, FlattensTo
  <2>2. \A i \in 1..n : f[i] = IF i = 1 THEN seqs[i] ELSE f[i - 1] \o seqs[i]
    BY <2>1 DEF Flattening
  <2> DEFINE T == {m \in Nat : m + 1 <= n => f[m + 1] \in Seq(S)}
  <2>3. 0 \in T
    <3>1. 0 + 1 \in 1..n /\ 0 + 1 = 1
      BY <1>2, <1>4
    <3> QED
      BY <1>2, <2>2, <3>1
  <2>4. ASSUME NEW m \in Nat, m \in T
        PROVE  m + 1 \in T
    <3>1. CASE (m + 1) + 1 <= n
      <4>1. PICK i : i = (m + 1) + 1
        OBVIOUS
      <4>2. i \in 1..n /\ i # 1 /\ i - 1 = m + 1 /\ m + 1 <= n
        BY <1>2, <3>1, <4>1
      <4>3. f[m + 1] \in Seq(S) /\ seqs[i] \in Seq(S)
        BY <1>2, <2>4, <4>2
      <4>4. f[i] = f[m + 1] \o seqs[i]
        BY <2>2, <4>2
      <4>5. f[m + 1] \o seqs[i] \in Seq(S)
        BY <4>3
      <4>6. m + 1 \in Nat
        OBVIOUS
      <4> QED
        BY <4>1, <4>4, <4>5, <4>6
    <3>2. CASE ~((m + 1) + 1 <= n)
      BY <3>2
    <3> QED
      BY <3>1, <3>2
  <2>5. n - 1 \in T
    <3>1. n - 1 \in Nat
      BY <1>2, <1>4
    <3> HIDE DEF T
    <3> QED
      BY <2>3, <2>4, <3>1, SetInduction
  <2>6. (n - 1) + 1 = n
    BY <1>2
  <2> QED
    BY <1>2, <2>1, <2>5, <2>6
<1> QED
  BY <1>2, <1>3, <1>4

LEMMA SentPackets ==
    ASSUME WireAssumption, NEW s \in DOMAIN Sent
    PROVE  PacketsOf(s) \in Seq(DataBytes)
<1>1. /\ Sent[s] \in Seq([payload : Seq(0..255), ack : BOOLEAN]) /\ Len(Sent[s]) < 16
      /\ \A t \in DOMAIN Sent[s] : IsPayload(Sent[s][t].payload)
      /\ s \in DOMAIN StreamIds
  BY DEF WireAssumption
<1>2. StreamIds[s] \in Nat /\ StreamIds[s] < 16
  BY <1>1 DEF StreamIds, CONTROL_STREAM, ALEXA_STREAM, OTA_STREAM, UNKNOWN_STREAM
<1>3. PICK n : n = Len(Sent[s])
  OBVIOUS
<1>4. n \in Nat /\ n < 16 /\ DOMAIN Sent[s] = 1..n
  BY <1>1, <1>3
<1> DEFINE b(t) == buildStreamPacket(StreamIds[s], t - 1, Sent[s][t].ack, Sent[s][t].payload)
<1>5. ASSUME NEW t \in 1..n
      PROVE  b(t) \in Seq(DataBytes)
  <2>1. t - 1 \in Nat /\ t - 1 < 16
    BY <1>4
  <2>2. Sent[s][t].ack \in BOOLEAN
    <3>1. PICK M : M = [payload : Seq(0..255), ack : BOOLEAN]
      OBVIOUS
    <3>2. Sent[s] \in Seq(M)
      BY <1>1, <3>1
    <3>3. Sent[s][t] \in M
      BY <1>3, <3>2
    <3> QED
      BY <3>1, <3>3
  <2>3. IsPayload(Sent[s][t].payload)
    BY <1>1, <1>4
  <2>4. PICK k, p : k = Sent[s][t].ack /\ p = Sent[s][t].payload
    OBVIOUS
  <2>5. PICK id, u : id = StreamIds[s] /\ u = t - 1
    OBVIOUS
  <2>6. PICK g : BuiltAs(g, id, u, k, p)
    BY <1>2, <2>1, <2>2, <2>3, <2>4, <2>5, Built
  <2> QED
    BY <2>4, <2>5, <2>6, WireOfData DEF BuiltAs
<1>6. PICK q : q = [t \in 1..n |-> b(t)]
  OBVIOUS
<1>7. q \in Seq(Seq(DataBytes))
  <2> HIDE DEF b
  <2> QED
    BY <1>4, <1>5, <1>6
<1>8. PacketsOf(s) = FlattenSeq(q)
  BY <1>4, <1>6 DEF PacketsOf
<1> QED
  BY <1>7, <1>8, FlattenedIn

-----------------------------------------------------------------------------
(***************************************************************************)
(* What decodePacket finds in what was received.                           *)
(***************************************************************************)
WirePackets == AckPackets \cup DataPackets

LEMMA AckFacts ==
    ASSUME NEW x \in AckPackets
    PROVE  /\ x.kind = "ack" /\ x \notin DataPackets
           /\ x.first \in WireByte /\ x.second \in {12, 14} /\ x.result \in {0, 1}
           /\ BytesOf(x) = <<x.first, x.second, 0, 2, 1, x.result>>
           /\ BytesOf(x) \in Seq(WireByte)
<1>1. x.kind = "ack" /\ x.first \in WireByte /\ x.second \in {12, 14} /\ x.result \in {0, 1}
  BY DEF AckPackets, SUCCESS, FAILURE
<1>2. x \notin DataPackets
  <2>1. ASSUME x \in DataPackets
        PROVE  FALSE
    <3>1. x.kind = "data"
      BY <2>1, DataFacts
    <3> QED
      BY <1>1, <3>1
  <2> QED
    BY <2>1
<1>3. BytesOf(x) = <<x.first, x.second, 0, 2, 1, x.result>>
  BY <1>1 DEF BytesOf
<1>4. PICK a, b, r : a = x.first /\ b = x.second /\ r = x.result
  OBVIOUS
<1>5. a \in WireByte /\ b \in WireByte /\ r \in WireByte /\ 0 \in WireByte /\ 1 \in WireByte
      /\ 2 \in WireByte
  BY <1>1, <1>4, WireBytesAre
<1>6. <<a, b, 0, 2, 1, r>> \in Seq(WireByte)
  BY <1>5
<1> QED
  BY <1>1, <1>2, <1>3, <1>4, <1>6

LEMMA DataBytesIn ==
    ASSUME WireAssumption, NEW d \in DataPackets
    PROVE  BytesOf(d) \in Seq(WireByte) /\ Len(BytesOf(d)) \in Nat
<1>1. BytesOf(d) \in Seq(WireByte)
  BY DataFacts, StreamPacketIn
<1> QED
  BY <1>1

LEMMA BytesIn ==
    ASSUME WireAssumption, NEW x \in WirePackets
    PROVE  BytesOf(x) \in Seq(WireByte) /\ Len(BytesOf(x)) \in Nat
<1>1. BytesOf(x) \in Seq(WireByte)
  BY AckFacts, DataBytesIn DEF WirePackets
<1> QED
  BY <1>1

\* A control ack.
LEMMA AckRead ==
    ASSUME NEW x \in AckPackets, Found(BytesOf(x))
    PROVE  /\ InSegment /\ Has(2) /\ Has(6)
           /\ transactionType = CONTROL /\ ~IsInitial
           /\ At(4) = 2 /\ At(6) = x.result
<1>1. PICK e : e = BytesOf(x)
  OBVIOUS
<1>2. e = <<x.first, x.second, 0, 2, 1, x.result>> /\ x.second \in {12, 14}
  BY <1>1, AckFacts
<1>3. PICK end : end = Len(e)
  OBVIOUS
<1>4. end = 6
  BY <1>2, <1>3
<1>5. /\ pc = "decode" /\ packet \in Seq(WireByte) /\ offset \in Nat
      /\ offset + end <= Len(packet)
      /\ \A i \in 1..end : packet[offset + i] = e[i]
  BY <1>1, <1>3, Zenon DEF Found, FoundTo
<1>6. InSegment /\ Has(2) /\ Has(6)
  BY <1>4, <1>5 DEF InSegment, Has
<1>7. At(2) = x.second /\ At(4) = 2 /\ At(6) = x.result
  BY <1>2, <1>4, <1>5 DEF At
<1>8. transactionType = CONTROL
  BY <1>2, <1>7 DEF transactionType, CONTROL
<1>9. ~IsInitial
  BY <1>8 DEF IsInitial, CONTROL, INITIAL
<1> QED
  BY <1>6, <1>7, <1>8, <1>9

LEMMA DataRead ==
    ASSUME WireAssumption, NEW d \in DataPackets, Found(BytesOf(d))
    PROVE  /\ InSegment /\ Has(2) /\ (d.src = 0 => Has(5))
           /\ transactionType # CONTROL /\ (IsInitial <=> d.src = 0)
           /\ streamId = d.s
           /\ offset + PayloadAt + currentPayloadLength = offset + Len(BytesOf(d))
<1>1. PICK s, t, n, k, payload, src : s = d.s /\ t = d.t /\ n = d.n /\ k = d.k
                                      /\ payload = d.payload /\ src = d.src
  OBVIOUS
<1>2. PICK e : e = BytesOf(d)
  OBVIOUS
<1>3. Packed(s, t, n, k, payload, src) /\ e = StreamPacket(s, t, n, k, payload, src)
  BY <1>1, <1>2, DataFacts, Zenon
<1>4. Found(e)
  BY <1>2
<1>5. /\ ReadsBack(s, t, n, k, payload, src, e)
      /\ InSegment /\ Has(2) /\ (src = 0 => Has(5))
      /\ transactionType # CONTROL /\ (IsInitial <=> src = 0)
  BY <1>3, <1>4, FoundReadsBack
<1>6. PICK len : len = PayloadLength(src, Len(payload) - src)
  OBVIOUS
<1>7. streamId = s /\ currentPayloadLength = len /\ PayloadAt + len = Len(e)
  BY <1>5, <1>6, Zenon DEF ReadsBack
<1>8. len \in Nat
  <2>1. PICK size : size = Len(payload)
    OBVIOUS
  <2>2. size \in Nat /\ src \in Nat /\ src < size
    BY <1>3, <2>1 DEF Packed
  <2>3. size - src \in Nat /\ size - src > 0
    BY <2>2
  <2>4. PayloadLength(src, size - src) \in 1..(size - src)
    BY <2>2, <2>3, PayloadBounds
  <2> QED
    BY <1>6, <2>1, <2>3, <2>4
<1>9. PayloadAt \in Nat
  BY DEF PayloadAt, LengthAt, Bit
<1>10. offset \in Nat
  BY <1>4 DEF Found, FoundTo
<1>11. offset + PayloadAt + len = offset + (PayloadAt + len)
  BY <1>8, <1>9, <1>10
<1>12. offset + PayloadAt + currentPayloadLength = offset + Len(e)
  BY <1>7, <1>11, Zenon
<1> QED
  BY <1>1, <1>2, <1>5, <1>7, <1>12, Zenon

\* The beginning of a packet: it is never read as a control ack, and its payload
\* is never taken for whole.
CutOf(e) ==
    /\ packet \in Seq(WireByte) /\ offset = 0 /\ Len(packet) < Len(e)
    /\ \A i \in 1..Len(packet) : packet[i] = e[i]

LEMMA CutRead ==
    ASSUME WireAssumption, NEW d \in DataPackets, pc = "decode", CutOf(BytesOf(d)), Has(2)
    PROVE  transactionType # CONTROL /\ ~PayloadFits
<1>1. PICK s, t, n, k, payload, src : s = d.s /\ t = d.t /\ n = d.n /\ k = d.k
                                      /\ payload = d.payload /\ src = d.src
  OBVIOUS
<1>2. PICK e : e = BytesOf(d)
  OBVIOUS
<1>3. Packed(s, t, n, k, payload, src) /\ e = StreamPacket(s, t, n, k, payload, src)
  BY <1>1, <1>2, DataFacts, Zenon
<1>4. PICK size : size = Len(payload)
  OBVIOUS
<1>5. PICK len, code : /\ len = PayloadLength(src, size - src)
                       /\ code = TypeCode[TransactionType(src, size - src)]
  OBVIOUS
<1>6. PICK l, m : /\ l = (IF src = 0 THEN 3 ELSE 0)
                  /\ m = (IF IsExtended(src, size - src) THEN 1 ELSE 0)
  OBVIOUS
<1>7. PICK h : h = 3 + l + m
  OBVIOUS
<1>8. Fields(e, s, t, n, k, payload, src, size, code, l, m, h, len)
  BY <1>3, <1>4, <1>5, <1>6, <1>7, FieldsPacked
<1>9. PICK end, long : end = Len(packet) /\ long = Len(e)
  OBVIOUS
<1>10. /\ packet \in Seq(WireByte) /\ offset = 0 /\ end < long
       /\ \A i \in 1..end : packet[i] = e[i]
  BY <1>2, <1>9, Zenon DEF CutOf
<1>11. ASSUME NEW j \in Nat, Has(j)
       PROVE  j <= end /\ FoundTo(e, j)
  <2>1. j <= end
    BY <1>9, <1>10, <1>11 DEF Has
  <2>2. \A i \in 1..j : i \in 1..end /\ packet[offset + i] = e[i]
    BY <1>9, <1>10, <2>1
  <2> QED
    BY <1>9, <1>10, <2>1, <2>2 DEF FoundTo
<1>12. TypeAs(s, t, n, k, code, src, m, l, h)
  <2>1. FoundTo(e, 2)
    BY <1>11
  <2> QED
    BY <1>3, <1>4, <1>5, <1>6, <1>7, <1>8, <2>1, TypeRead
<1>13. transactionType # CONTROL
  <2>1. code < 3
    BY <1>5 DEF TransactionType, TypeCode, INITIAL, CONTINUE, FINAL
  <2> QED
    BY <1>12, <2>1 DEF TypeAs, CONTROL
<1>14. ASSUME PayloadFits
       PROVE  FALSE
  <2>1. Has(h) /\ Has(h + currentPayloadLength)
    BY <1>12, <1>14, Zenon DEF PayloadFits, TypeAs
  <2>2. h \in Nat /\ len \in Nat /\ long = h + len
    BY <1>8, <1>9, Zenon DEF Fields
  <2>3. FoundTo(e, h)
    BY <1>11, <2>1, <2>2
  <2>4. currentPayloadLength = len
    <3>1. ReadAs(s, t, n, k, code, size, src, len, l, h)
      BY <1>3, <1>4, <1>5, <1>6, <1>7, <1>8, <2>3, FieldsRead
    <3> QED
      BY <3>1, Zenon DEF ReadAs
  <2>5. h + len <= end
    <3>1. h + len \in Nat
      BY <2>2
    <3> QED
      BY <1>11, <2>1, <2>4, <3>1
  <2> QED
    BY <1>9, <1>10, <2>2, <2>5
<1> QED
  BY <1>13, <1>14

\* e is in the packet behind the first at bytes.
IsAt(at, e) ==
    at \in Nat /\ at + Len(e) <= Len(packet) /\ \A i \in 1..Len(e) : packet[at + i] = e[i]

\* What is left of the packet are m packets, of which d[c + 1] is the first.
Rest(d, c, m) ==
    /\ packet \in Seq(WireByte) /\ m \in 0..2
    /\ m = 0 => offset = Len(packet)
    /\ m = 1 => /\ IsAt(offset, BytesOf(d[c + 1]))
                /\ offset + Len(BytesOf(d[c + 1])) = Len(packet)
    /\ m = 2 => /\ IsAt(offset, BytesOf(d[c + 1]))
                /\ IsAt(offset + Len(BytesOf(d[c + 1])), BytesOf(d[c + 2]))
                /\ offset + Len(BytesOf(d[c + 1])) + Len(BytesOf(d[c + 2])) = Len(packet)

LEMMA RestFound ==
    ASSUME NEW d, NEW c \in Nat, NEW m, Rest(d, c, m), m # 0, pc = "decode"
    PROVE  Found(BytesOf(d[c + 1]))
<1>1. packet \in Seq(WireByte) /\ IsAt(offset, BytesOf(d[c + 1]))
  BY DEF Rest
<1> QED
  BY <1>1, Zenon DEF IsAt, Found, FoundTo

LEMMA RestEnds ==
    ASSUME NEW d, NEW c, Rest(d, c, 0)
    PROVE  ~InSegment
<1>1. packet \in Seq(WireByte) /\ offset = Len(packet)
  BY DEF Rest
<1> QED
  BY <1>1 DEF InSegment

LEMMA RestNext ==
    ASSUME NEW d, NEW c \in Nat, NEW m, Rest(d, c, m), m # 0,
           Len(BytesOf(d[c + 1])) \in Nat,
           packet' = packet, offset' = offset + Len(BytesOf(d[c + 1]))
    PROVE  Rest(d, c + 1, m - 1)'
<1>1. PICK e, f : e = BytesOf(d[c + 1]) /\ f = BytesOf(d[c + 2])
  OBVIOUS
<1>2. (c + 1) + 1 = c + 2
  OBVIOUS
<1>3. m \in {1, 2}
  BY DEF Rest
<1>4. PICK at : at = offset + Len(e)
  OBVIOUS
<1>5. /\ packet \in Seq(WireByte)
      /\ m = 1 => at = Len(packet)
      /\ m = 2 => IsAt(at, f) /\ at + Len(f) = Len(packet)
  BY <1>1, <1>4, Zenon DEF Rest
<1>6. packet' = packet /\ offset' = at
  BY <1>1, <1>4
<1>7. IsAt(at, f) => IsAt(at, f)'
  BY <1>6 DEF IsAt
<1>8. CASE m = 1
  <2>1. m - 1 = 0
    BY <1>8
  <2> QED
    BY <1>5, <1>6, <1>8, <2>1 DEF Rest
<1>9. CASE m = 2
  <2>1. m - 1 = 1
    BY <1>9
  <2>2. IsAt(offset, BytesOf(d[(c + 1) + 1]))'
    BY <1>1, <1>2, <1>5, <1>6, <1>7, <1>9, Zenon
  <2>3. offset' + Len(BytesOf(d[(c + 1) + 1])) = Len(packet')
    BY <1>1, <1>2, <1>5, <1>6, <1>9
  <2> QED
    BY <1>5, <1>6, <2>1, <2>2, <2>3 DEF Rest
<1> QED
  BY <1>3, <1>8, <1>9

LEMMA RestTaken ==
    ASSUME WireAssumption, NEW d, NEW c, d[c + 1] \in WirePackets,
           packet' = BytesOf(d[c + 1]), offset' = 0
    PROVE  Rest(d, c, 1)'
<1>1. PICK e : e = BytesOf(d[c + 1])
  OBVIOUS
<1>2. e \in Seq(WireByte)
  BY <1>1, BytesIn
<1>3. IsAt(offset, e)'
  BY <1>1, <1>2 DEF IsAt
<1>4. offset' + Len(e) = Len(packet')
  BY <1>1, <1>2
<1> QED
  BY <1>1, <1>2, <1>3, <1>4 DEF Rest

LEMMA RestJoined ==
    ASSUME WireAssumption, NEW d, NEW c, d[c + 1] \in WirePackets, d[c + 2] \in WirePackets,
           packet' = BytesOf(d[c + 1]) \o BytesOf(d[c + 2]), offset' = 0
    PROVE  Rest(d, c, 2)'
<1>1. PICK e, f : e = BytesOf(d[c + 1]) /\ f = BytesOf(d[c + 2])
  OBVIOUS
<1>2. e \in Seq(WireByte) /\ f \in Seq(WireByte)
  BY <1>1, BytesIn
<1>3. PICK u, l, n : u = packet' /\ l = Len(e) /\ n = Len(f)
  OBVIOUS
<1>4. IsJoin(WireByte, e, f, u, l, n)
  BY <1>1, <1>2, <1>3, JoinedTo
<1>5. /\ u \in Seq(WireByte) /\ l \in Nat /\ n \in Nat /\ Len(u) = l + n
      /\ \A i \in 1..l : u[i] = e[i]
      /\ \A i \in 1..n : u[l + i] = f[i]
  BY <1>4, Zenon DEF IsJoin
<1>6. IsAt(offset, e)'
  BY <1>3, <1>5 DEF IsAt
<1>7. IsAt(offset + Len(e), f)'
  BY <1>3, <1>5 DEF IsAt
<1>8. offset' + Len(e) + Len(f) = Len(packet')
  BY <1>3, <1>5
<1> QED
  BY <1>1, <1>3, <1>5, <1>6, <1>7, <1>8 DEF Rest

-----------------------------------------------------------------------------
(***************************************************************************)
(* What the gadget responds: control acks that carry its results, in their *)
(* order, and the packets of its answers.                                  *)
(***************************************************************************)
KnownStreams(d) ==
    \A j \in 1..Len(d) : d[j] \in DataPackets => streamToIndex(d[j].s) >= 0

\* r[j] of the results v are in the first j packets.
Tallied(d, v, r) ==
    /\ r \in [0..Len(d) -> 0..Len(v)] /\ r[0] = 0 /\ r[Len(d)] = Len(v)
    /\ \A j \in 1..Len(d) :
          IF d[j] \in DataPackets THEN r[j] = r[j - 1]
          ELSE r[j] = r[j - 1] + 1 /\ v[r[j]] = d[j].result

Answered(d, v) ==
    /\ d \in Seq(WirePackets) /\ InOrder(d) /\ KnownStreams(d)
    /\ \E r : Tallied(d, v, r)

LEMMA InOrderJoined ==
    ASSUME NEW d \in Seq(WirePackets), NEW g \in Seq(WirePackets), InOrder(d), InOrder(g)
    PROVE  InOrder(d \o g)
<1>1. PICK u, l, n : u = d \o g /\ l = Len(d) /\ n = Len(g)
  OBVIOUS
<1>2. IsJoin(WirePackets, d, g, u, l, n)
  BY <1>1, JoinedTo
<1>3. /\ u \in Seq(WirePackets) /\ l \in Nat /\ n \in Nat /\ Len(u) = l + n
      /\ \A i \in 1..l : u[i] = d[i]
      /\ \A i \in 1..n : u[l + i] = g[i]
  BY <1>2, Zenon DEF IsJoin
<1>4. ASSUME NEW j \in 1..(l + n), u[j] \in DataPackets
      PROVE  /\ IF u[j].src = 0 THEN u[j].n = 0
                ELSE j > 1 /\ u[j - 1] \in DataPackets /\ Continues(u[j - 1], u[j])
             /\ NextSrc(u[j]) < Len(u[j].payload) =>
                   j + 1 <= l + n /\ Continues(u[j], u[j + 1])
  <2>1. CASE j <= l
    <3>1. j \in 1..l /\ u[j] = d[j]
      BY <1>3, <2>1
    <3>2. /\ IF d[j].src = 0 THEN d[j].n = 0
             ELSE j > 1 /\ d[j - 1] \in DataPackets /\ Continues(d[j - 1], d[j])
          /\ NextSrc(d[j]) < Len(d[j].payload) => j + 1 <= l /\ Continues(d[j], d[j + 1])
      BY <1>1, <1>4, <3>1 DEF InOrder
    <3>3. j > 1 => u[j - 1] = d[j - 1]
      <4>1. j > 1 => j - 1 \in 1..l
        BY <1>3, <3>1
      <4> QED
        BY <1>3, <4>1
    <3>4. j + 1 <= l => u[j + 1] = d[j + 1] /\ j + 1 <= l + n
      <4>1. j + 1 <= l => j + 1 \in 1..l /\ j + 1 <= l + n
        BY <1>3, <3>1
      <4> QED
        BY <1>3, <4>1
    <3> QED
      BY <3>1, <3>2, <3>3, <3>4
  <2>2. CASE ~(j <= l)
    <3>1. PICK i \in 1..n : j = l + i
      <4>1. j - l \in 1..n /\ j = l + (j - l)
        BY <1>3, <2>2
      <4> QED
        BY <4>1
    <3>2. u[j] = g[i]
      BY <1>3, <3>1
    <3>3. /\ IF g[i].src = 0 THEN g[i].n = 0
             ELSE i > 1 /\ g[i - 1] \in DataPackets /\ Continues(g[i - 1], g[i])
          /\ NextSrc(g[i]) < Len(g[i].payload) => i + 1 <= n /\ Continues(g[i], g[i + 1])
      BY <1>1, <1>4, <3>2 DEF InOrder
    <3>4. i > 1 => j > 1 /\ u[j - 1] = g[i - 1]
      <4>1. i > 1 => i - 1 \in 1..n /\ j - 1 = l + (i - 1) /\ j > 1
        BY <1>3, <3>1
      <4> QED
        BY <1>3, <4>1
    <3>5. i + 1 <= n => u[j + 1] = g[i + 1] /\ j + 1 <= l + n
      <4>1. i + 1 <= n => i + 1 \in 1..n /\ j + 1 = l + (i + 1) /\ j + 1 <= l + n
        BY <1>3, <3>1
      <4> QED
        BY <1>3, <4>1
    <3> QED
      BY <3>2, <3>3, <3>4, <3>5
  <2> QED
    BY <2>1, <2>2
<1>5. InOrder(u)
  BY <1>3, <1>4 DEF InOrder
<1> QED
  BY <1>1, <1>5

LEMMA StreamsJoined ==
    ASSUME NEW d \in Seq(WirePackets), NEW g \in Seq(WirePackets),
           KnownStreams(d), KnownStreams(g)
    PROVE  KnownStreams(d \o g)
<1>1. PICK u, l, n : u = d \o g /\ l = Len(d) /\ n = Len(g)
  OBVIOUS
<1>2. IsJoin(WirePackets, d, g, u, l, n)
  BY <1>1, JoinedTo
<1>3. /\ l \in Nat /\ n \in Nat /\ Len(u) = l + n
      /\ \A i \in 1..l : u[i] = d[i]
      /\ \A i \in 1..n : u[l + i] = g[i]
  BY <1>2, Zenon DEF IsJoin
<1>4. ASSUME NEW j \in 1..(l + n), u[j] \in DataPackets
      PROVE  streamToIndex(u[j].s) >= 0
  <2>1. CASE j <= l
    <3>1. j \in 1..l /\ u[j] = d[j]
      BY <1>3, <2>1
    <3> QED
      BY <1>1, <1>4, <3>1 DEF KnownStreams
  <2>2. CASE ~(j <= l)
    <3>1. PICK i \in 1..n : j = l + i
      <4>1. j - l \in 1..n /\ j = l + (j - l)
        BY <1>3, <2>2
      <4> QED
        BY <4>1
    <3>2. u[j] = g[i]
      BY <1>3, <3>1
    <3> QED
      BY <1>1, <1>4, <3>2 DEF KnownStreams
  <2> QED
    BY <2>1, <2>2
<1> QED
  BY <1>1, <1>3, <1>4 DEF KnownStreams

\* Packets of an answer are appended.
LEMMA AnsweredData ==
    ASSUME NEW d, NEW v, Answered(d, v), v \in Seq({SUCCESS, FAILURE}),
           NEW g \in Seq(DataPackets), InOrder(g), KnownStreams(g)
    PROVE  Answered(d \o g, v)
<1>1. PICK u, l, n, z : u = d \o g /\ l = Len(d) /\ n = Len(g) /\ z = Len(v)
  OBVIOUS
<1>2. d \in Seq(WirePackets) /\ g \in Seq(WirePackets) /\ InOrder(d) /\ KnownStreams(d)
  BY DEF Answered, WirePackets
<1>3. IsJoin(WirePackets, d, g, u, l, n)
  BY <1>1, <1>2, JoinedTo
<1>4. /\ u \in Seq(WirePackets) /\ l \in Nat /\ n \in Nat /\ Len(u) = l + n
      /\ \A i \in 1..l : u[i] = d[i]
      /\ \A i \in 1..n : u[l + i] = g[i]
  BY <1>3, Zenon DEF IsJoin
<1>5. PICK r : Tallied(d, v, r)
  BY DEF Answered
<1>6. /\ r \in [0..l -> 0..z] /\ r[0] = 0 /\ r[l] = z /\ z \in Nat
      /\ \A j \in 1..l : IF d[j] \in DataPackets THEN r[j] = r[j - 1]
                         ELSE r[j] = r[j - 1] + 1 /\ v[r[j]] = d[j].result
  BY <1>1, <1>5 DEF Tallied
<1>7. PICK q : q = [j \in 0..(l + n) |-> IF j <= l THEN r[j] ELSE z]
  OBVIOUS
<1>8. /\ q \in [0..(l + n) -> 0..z] /\ q[0] = 0 /\ q[l + n] = z
      /\ \A j \in 0..l : q[j] = r[j]
      /\ \A j \in l..(l + n) : q[j] = z
  <2>1. \A j \in 0..(l + n) : (IF j <= l THEN r[j] ELSE z) \in 0..z
    <3>1. \A j \in 0..(l + n) : j <= l => j \in 0..l
      BY <1>4
    <3>2. z \in 0..z
      BY <1>6
    <3> QED
      BY <1>6, <3>1, <3>2
  <2>2. q \in [0..(l + n) -> 0..z]
    BY <1>7, <2>1
  <2>3. \A j \in 0..l : j \in 0..(l + n) /\ j <= l /\ q[j] = r[j]
    BY <1>4, <1>7
  <2>4. \A j \in l..(l + n) : q[j] = z
    BY <1>4, <1>6, <1>7
  <2>5. 0 \in 0..l /\ l + n \in l..(l + n)
    BY <1>4
  <2> QED
    BY <1>6, <2>2, <2>3, <2>4, <2>5
<1>9. ASSUME NEW j \in 1..(l + n)
      PROVE  IF u[j] \in DataPackets THEN q[j] = q[j - 1]
             ELSE q[j] = q[j - 1] + 1 /\ v[q[j]] = u[j].result
  <2>1. CASE j <= l
    <3>1. j \in 1..l /\ j - 1 \in 0..l /\ j \in 0..l
      BY <1>4, <2>1
    <3>2. u[j] = d[j] /\ q[j] = r[j] /\ q[j - 1] = r[j - 1]
      BY <1>4, <1>8, <3>1
    <3> QED
      BY <1>6, <3>1, <3>2
  <2>2. CASE ~(j <= l)
    <3>1. PICK i \in 1..n : j = l + i
      <4>1. j - l \in 1..n /\ j = l + (j - l)
        BY <1>4, <2>2
      <4> QED
        BY <4>1
    <3>2. u[j] \in DataPackets
      BY <1>1, <1>4, <3>1
    <3>3. j \in l..(l + n) /\ j - 1 \in l..(l + n)
      BY <1>4, <2>2
    <3> QED
      BY <1>8, <3>2, <3>3
  <2> QED
    BY <2>1, <2>2
<1>10. Tallied(u, v, q)
  BY <1>1, <1>4, <1>8, <1>9 DEF Tallied
<1>11. InOrder(u) /\ KnownStreams(u)
  BY <1>1, <1>2, InOrderJoined, StreamsJoined
<1> QED
  BY <1>1, <1>4, <1>10, <1>11 DEF Answered

\* A control ack is appended, and its result.
LEMMA AnsweredAck ==
    ASSUME NEW d, NEW v, Answered(d, v), v \in Seq({SUCCESS, FAILURE}), NEW x \in AckPackets
    PROVE  Answered(d \o <<x>>, v \o <<x.result>>)
<1>1. PICK u, l, z, w : u = d \o <<x>> /\ l = Len(d) /\ z = Len(v) /\ w = v \o <<x.result>>
  OBVIOUS
<1>2. d \in Seq(WirePackets) /\ <<x>> \in Seq(WirePackets) /\ InOrder(d) /\ KnownStreams(d)
  BY DEF Answered, WirePackets
<1>3. /\ u \in Seq(WirePackets) /\ l \in Nat /\ Len(u) = l + 1 /\ u[l + 1] = x
      /\ \A i \in 1..l : u[i] = d[i]
  BY <1>1, <1>2
<1>4. PICK r : Tallied(d, v, r)
  BY DEF Answered
<1>5. /\ r \in [0..l -> 0..z] /\ r[0] = 0 /\ r[l] = z /\ z \in Nat
      /\ \A j \in 1..l : IF d[j] \in DataPackets THEN r[j] = r[j - 1]
                         ELSE r[j] = r[j - 1] + 1 /\ v[r[j]] = d[j].result
  BY <1>1, <1>4 DEF Tallied
<1>6. /\ Len(w) = z + 1 /\ w[z + 1] = x.result /\ \A i \in 1..z : w[i] = v[i]
  BY <1>1
<1>7. PICK q : q = [j \in 0..(l + 1) |-> IF j <= l THEN r[j] ELSE z + 1]
  OBVIOUS
<1>8. /\ q \in [0..(l + 1) -> 0..(z + 1)] /\ q[0] = 0 /\ q[l + 1] = z + 1
      /\ \A j \in 0..l : q[j] = r[j]
  BY <1>3, <1>5, <1>7
<1>9. x \notin DataPackets
  BY AckFacts
<1>10. ASSUME NEW j \in 1..(l + 1)
       PROVE  IF u[j] \in DataPackets THEN q[j] = q[j - 1]
              ELSE q[j] = q[j - 1] + 1 /\ w[q[j]] = u[j].result
  <2>1. CASE j <= l
    <3>1. j \in 1..l /\ j - 1 \in 0..l /\ j \in 0..l
      BY <1>3, <2>1
    <3>2. u[j] = d[j] /\ q[j] = r[j] /\ q[j - 1] = r[j - 1]
      BY <1>3, <1>8, <3>1
    <3>3. d[j] \notin DataPackets => r[j] \in 1..z
      <4>1. r[j] \in 0..z /\ r[j - 1] \in 0..z
        BY <1>5, <3>1
      <4>2. d[j] \notin DataPackets => r[j] = r[j - 1] + 1
        BY <1>5, <3>1
      <4> QED
        BY <1>5, <4>1, <4>2
    <3> QED
      BY <1>5, <1>6, <3>1, <3>2, <3>3
  <2>2. CASE ~(j <= l)
    <3>1. j = l + 1 /\ j - 1 = l /\ l \in 0..l
      BY <1>3, <2>2
    <3> QED
      BY <1>3, <1>5, <1>6, <1>8, <1>9, <3>1
  <2> QED
    BY <2>1, <2>2
<1>11. Tallied(u, w, q)
  BY <1>3, <1>6, <1>8, <1>10 DEF Tallied
<1>12. InOrder(<<x>>) /\ KnownStreams(<<x>>)
  BY <1>9 DEF InOrder, KnownStreams
<1>13. InOrder(u) /\ KnownStreams(u)
  BY <1>1, <1>2, <1>12, InOrderJoined, StreamsJoined
<1> QED
  BY <1>1, <1>3, <1>11, <1>13 DEF Answered

\* What createControlAckPacket appends.
AckedWith(d, v, s, t, k, result) ==
    /\ v \o IfAsked(k, result) \in Seq({SUCCESS, FAILURE})
    /\ \E u : /\ Answered(u, v \o IfAsked(k, result))
              /\ OnTheWire(u) = OnTheWire(d) \o createControlAckPacket(s, t, k, result)

LEMMA AckAppended ==
    ASSUME NEW d, NEW v, Answered(d, v), v \in Seq({SUCCESS, FAILURE}),
           NEW s \in Nat, s < 16, NEW t \in Nat, t < 16, NEW k \in BOOLEAN,
           NEW result \in {SUCCESS, FAILURE}
    PROVE  AckedWith(d, v, s, t, k, result)
<1> SUFFICES /\ v \o IfAsked(k, result) \in Seq({SUCCESS, FAILURE})
             /\ \E u : /\ Answered(u, v \o IfAsked(k, result))
                       /\ OnTheWire(u) = OnTheWire(d) \o createControlAckPacket(s, t, k, result)
  BY Zenon DEF AckedWith
<1>1. d \in Seq(WirePackets)
  BY DEF Answered
<1>2. CASE k
  <2>1. PICK x : x = [kind |-> "ack", first |-> StreamByte(s, t),
                      second |-> TypeByte(0, CONTROL, result = SUCCESS, FALSE),
                      result |-> result]
    OBVIOUS
  <2>2. StreamByte(s, t) \in WireByte
    BY FirstByte
  <2>3. TypeByte(0, CONTROL, result = SUCCESS, FALSE) \in {12, 14}
    BY DEF TypeByte, CONTROL, Bit
  <2>4. x \in AckPackets
    BY <2>1, <2>2, <2>3 DEF AckPackets
  <2>5. BytesOf(x) = <<StreamByte(s, t), TypeByte(0, CONTROL, result = SUCCESS, FALSE),
                       0, 2, 1, result>>
    BY <2>1 DEF BytesOf
  <2>6. createControlAckPacket(s, t, k, result) = <<BytesOf(x)>>
    BY <1>2, <2>5, Zenon DEF createControlAckPacket
  <2>7. IfAsked(k, result) = <<x.result>>
    BY <1>2, <2>1 DEF IfAsked
  <2>8. OnTheWire(<<x>>) = <<BytesOf(x)>>
    BY DEF OnTheWire
  <2>9. <<x>> \in Seq(WirePackets)
    BY <2>4 DEF WirePackets
  <2>10. OnTheWire(d \o <<x>>) = OnTheWire(d) \o <<BytesOf(x)>>
    BY <1>1, <2>8, <2>9, WireJoined
  <2>11. Answered(d \o <<x>>, v \o <<x.result>>)
    BY <2>4, AnsweredAck
  <2>12. v \o IfAsked(k, result) \in Seq({SUCCESS, FAILURE})
    BY <1>2 DEF IfAsked
  <2> QED
    BY <2>6, <2>7, <2>10, <2>11, <2>12, Zenon
<1>3. CASE ~k
  <2>1. IfAsked(k, result) = <<>> /\ createControlAckPacket(s, t, k, result) = <<>>
    BY <1>3, Zenon DEF IfAsked, createControlAckPacket
  <2>2. v \o <<>> = v
    OBVIOUS
  <2>3. OnTheWire(d) \o <<>> = OnTheWire(d)
    <3>1. PICK B : B = {BytesOf(x) : x \in WirePackets}
      OBVIOUS
    <3>2. \A i \in 1..Len(d) : d[i] \in WirePackets
      BY <1>1
    <3>3. OnTheWire(d) \in Seq(B)
      BY <1>1, <3>1, <3>2 DEF OnTheWire
    <3> QED
      BY <3>3
  <2> QED
    BY <2>1, <2>2, <2>3, Zenon
<1> QED
  BY <1>2, <1>3

\* And buildStreamPacket.
AnsweredWith(d, v, s, t, payload) ==
    \E u : /\ Answered(u, v)
           /\ OnTheWire(u) = OnTheWire(d) \o buildStreamPacket(s, t, FALSE, payload)

LEMMA AnswerAppended ==
    ASSUME WireAssumption, NEW d, NEW v, Answered(d, v), v \in Seq({SUCCESS, FAILURE}),
           NEW s \in Nat, s < 16, streamToIndex(s) >= 0, NEW t \in Nat, t < 16,
           NEW payload, IsPayload(payload)
    PROVE  AnsweredWith(d, v, s, t, payload)
<1>1. PICK g : BuiltAs(g, s, t, FALSE, payload)
  BY Built
<1>2. /\ g \in Seq(DataPackets) /\ InOrder(g) /\ KnownStreams(g)
      /\ buildStreamPacket(s, t, FALSE, payload) = OnTheWire(g)
  BY <1>1 DEF BuiltAs, KnownStreams
<1>3. Answered(d \o g, v)
  BY <1>2, AnsweredData
<1>4. d \in Seq(WirePackets) /\ g \in Seq(WirePackets)
  BY <1>2 DEF Answered, WirePackets
<1>5. OnTheWire(d \o g) = OnTheWire(d) \o OnTheWire(g)
  BY <1>4, WireJoined
<1> QED
  BY <1>2, <1>3, <1>5, Zenon DEF AnsweredWith

-----------------------------------------------------------------------------
(***************************************************************************)
(* The invariant.                                                          *)
(***************************************************************************)
WireTypes ==
    /\ pc \in {"receive", "decode", "aborted", "undefined", "done"}
    /\ role \in {"gadget", "echo"}
    /\ verdicts \in Seq({SUCCESS, FAILURE})
    /\ answers \in [1..2 -> 0..15]
    /\ rxBuffers = [i \in 0..2 |-> rxBuffers[i]]
    /\ received = [p \in {"gadget", "echo"} |-> received[p]]
    /\ \E S : received["gadget"] \in Seq(S)

\* As many successes as messages handed over that asked for a result.
Counted == Cardinality(Successes) = Cardinality(Acknowledged)

\* The gadget finds packets of payloads, up to two in what is received, or the
\* beginning of one; and has answered what it received.
QueuesHoldData == \A q \in DOMAIN queues : queues[q] \in Seq(DataBytes)

WholeRest(g, c, m) == g \in Seq(DataPackets) /\ c \in Nat /\ c + m = Len(g) /\ Rest(g, c, m)

GadgetRest ==
    pc = "decode" => \/ \E d \in DataPackets : CutOf(BytesOf(d))
                     \/ \E g, c, m : WholeRest(g, c, m)

Responded == \E d : Answered(d, verdicts) /\ response = OnTheWire(d)

GadgetInv == results = <<>> /\ QueuesHoldData /\ GadgetRest /\ Responded

\* The Echo device is at the packet d[c + 1] of what the gadget responded, of
\* which m are left of what was received.
Behind(d, k) == [i \in 1..(Len(d) - k) |-> BytesOf(d[k + i])]

PrintedUpTo(n) == [i \in 1..n |-> Printed(verdicts[i])]

MirroredAt(d, c) ==
    c + 1 <= Len(d) /\ d[c + 1] \in DataPackets /\ d[c + 1].src # 0 =>
        LET x == d[c + 1] IN Mirrored(x.s, x.t, x.n, x.payload, x.src)

EchoAt(d, r, c, m) ==
    /\ d \in Seq(WirePackets) /\ InOrder(d) /\ KnownStreams(d) /\ Tallied(d, verdicts, r)
    /\ c \in Nat /\ m \in 0..2 /\ c + m <= Len(d)
    /\ DOMAIN queues = {1} /\ queues[1] = Behind(d, c + m)
    /\ pc = "receive" => m = 0
    /\ pc = "decode" => Rest(d, c, m)
    /\ results = PrintedUpTo(r[c])
    /\ MirroredAt(d, c)

EchoInv == \E d, r, c, m : EchoAt(d, r, c, m)

Ended == pc = "done" => results = PrintedUpTo(Len(verdicts))

WireInv ==
    /\ WireTypes /\ Counted /\ Ended
    /\ role = "gadget" => GadgetInv
    /\ role = "echo" /\ pc \in {"receive", "decode"} => EchoInv

-----------------------------------------------------------------------------
(***************************************************************************)
(* The queues.                                                             *)
(***************************************************************************)
LEMMA BehindSteps ==
    ASSUME NEW d \in Seq(WirePackets), NEW k \in Nat, k <= Len(d)
    PROVE  /\ Behind(d, k) = <<>> => k = Len(d)
           /\ Behind(d, k) # <<>> => /\ k + 1 <= Len(d)
                                     /\ Head(Behind(d, k)) = BytesOf(d[k + 1])
                                     /\ Tail(Behind(d, k)) = Behind(d, k + 1)
<1>1. PICK n, B : n = Len(d) /\ B = {BytesOf(x) : x \in WirePackets}
  OBVIOUS
<1>2. n \in Nat /\ k <= n /\ \A i \in 1..n : BytesOf(d[i]) \in B
  BY <1>1
<1>3. PICK b, e : b = Behind(d, k) /\ e = Behind(d, k + 1)
  OBVIOUS
<1>4. b \in Seq(B) /\ Len(b) = n - k /\ \A i \in 1..(n - k) : b[i] = BytesOf(d[k + i])
  <2>1. \A i \in 1..(n - k) : k + i \in 1..n
    BY <1>2
  <2>2. b = [i \in 1..(n - k) |-> BytesOf(d[k + i])] /\ n - k \in Nat
    BY <1>1, <1>2, <1>3 DEF Behind
  <2> QED
    BY <1>2, <2>1, <2>2
<1>5. b = <<>> => k = n
  BY <1>2, <1>4
<1>6. b # <<>> => /\ k + 1 <= n /\ Head(b) = BytesOf(d[k + 1])
                  /\ Tail(b) = e
  <2> SUFFICES ASSUME b # <<>>
               PROVE  k + 1 <= n /\ Head(b) = BytesOf(d[k + 1]) /\ Tail(b) = e
    OBVIOUS
  <2>1. n - k > 0
    BY <1>2, <1>4
  <2>2. Head(b) = BytesOf(d[k + 1])
    BY <1>4, <2>1
  <2>3. Tail(b) \in Seq(B) /\ Len(Tail(b)) = n - (k + 1)
        /\ \A i \in 1..(n - (k + 1)) : Tail(b)[i] = b[i + 1]
    BY <1>2, <1>4, <2>1
  <2>4. \A i \in 1..(n - (k + 1)) :
           i + 1 \in 1..(n - k) /\ k + (i + 1) = (k + 1) + i /\ (k + 1) + i \in 1..n
    BY <1>2
  <2>5. e = [i \in 1..(n - (k + 1)) |-> BytesOf(d[(k + 1) + i])] /\ n - (k + 1) \in Nat
    BY <1>1, <1>2, <1>3, <2>1 DEF Behind
  <2>6. e \in Seq(B) /\ Len(e) = n - (k + 1)
        /\ \A i \in 1..(n - (k + 1)) : e[i] = BytesOf(d[(k + 1) + i])
    BY <1>2, <2>4, <2>5
  <2>7. \A i \in 1..(n - (k + 1)) : Tail(b)[i] = e[i]
    BY <1>4, <2>3, <2>4, <2>6
  <2>8. Tail(b) = e
    BY <2>3, <2>6, <2>7, SeqEqual
  <2> QED
    BY <1>2, <2>1, <2>2, <2>8
<1> QED
  BY <1>1, <1>3, <1>5, <1>6, Zenon

\* The packets that are received: the first of a queue is of the Echo device's own,
\* or the next of the gadget's.
LEMMA HeadOfData ==
    ASSUME NEW s \in Seq(DataBytes), s # <<>>
    PROVE  /\ \E d \in DataPackets : Head(s) = BytesOf(d)
           /\ Tail(s) \in Seq(DataBytes)
<1>1. Head(s) \in DataBytes /\ Tail(s) \in Seq(DataBytes)
  OBVIOUS
<1> QED
  BY <1>1 DEF DataBytes

-----------------------------------------------------------------------------
(***************************************************************************)
(* What most steps leave alone.                                            *)
(***************************************************************************)
LEMMA TypesKept ==
    ASSUME WireTypes, pc' \in {"receive", "decode", "aborted", "undefined", "done"},
           role' \in {"gadget", "echo"},
           UNCHANGED <<verdicts, answers, rxBuffers, received>>
    PROVE  WireTypes'
  BY DEF WireTypes

LEMMA CountKept ==
    ASSUME Counted, UNCHANGED <<verdicts, received>>
    PROVE  Counted'
  BY Zenon DEF Counted, Successes, Acknowledged

LEMMA RespondedKept ==
    ASSUME Responded, UNCHANGED <<verdicts, response>>
    PROVE  Responded'
  BY Zenon DEF Responded

\* The end of a packet, dropped or not, and of the process.
Stops ==
    /\ pc = "decode" /\ pc' \in {"receive", "aborted", "undefined"}
    /\ UNCHANGED <<queues, role, answers, received, verdicts, results, response, rxBuffers>>

LEMMA GadgetStops ==
    ASSUME GadgetInv, Stops
    PROVE  GadgetInv'
<1>1. results' = <<>> /\ QueuesHoldData'
  BY DEF GadgetInv, Stops, QueuesHoldData
<1>2. GadgetRest'
  BY DEF Stops, GadgetRest
<1>3. Responded'
  BY RespondedKept DEF GadgetInv, Stops
<1> QED
  BY <1>1, <1>2, <1>3 DEF GadgetInv

LEMMA EchoStops ==
    ASSUME NEW d, NEW r, NEW c, EchoAt(d, r, c, 0), Stops
    PROVE  pc' = "receive" => EchoInv'
<1> SUFFICES ASSUME pc' = "receive"
             PROVE  EchoInv'
  OBVIOUS
<1>1. /\ queues' = queues /\ verdicts' = verdicts /\ results' = results /\ rxBuffers' = rxBuffers
  BY DEF Stops
<1>2. MirroredAt(d, c)'
  BY <1>1 DEF EchoAt, MirroredAt, Mirrored
<1>3. EchoAt(d, r, c, 0)'
  BY <1>1, <1>2 DEF EchoAt, PrintedUpTo
<1> QED
  BY <1>3 DEF EchoInv

\* Where the Echo device cannot be: nothing of a packet is left, or it is found.
LEMMA EchoFinds ==
    ASSUME WireAssumption, NEW d, NEW r, NEW c, NEW m, EchoAt(d, r, c, m), pc = "decode", m # 0
    PROVE  /\ d[c + 1] \in WirePackets /\ Found(BytesOf(d[c + 1])) /\ InSegment
           /\ c \in Nat /\ c + 1 \in 1..Len(d)
           /\ Len(BytesOf(d[c + 1])) \in Nat
<1>1. /\ d \in Seq(WirePackets) /\ c \in Nat /\ m \in 0..2 /\ c + m <= Len(d) /\ Rest(d, c, m)
  BY DEF EchoAt
<1>2. c + 1 \in 1..Len(d) /\ d[c + 1] \in WirePackets
  <2>1. PICK n : n = Len(d)
    OBVIOUS
  <2>2. c + 1 \in 1..n
    BY <1>1, <2>1
  <2> QED
    BY <1>1, <2>1, <2>2
<1>3. Found(BytesOf(d[c + 1]))
  BY <1>1, RestFound
<1>4. InSegment
  <2>1. CASE d[c + 1] \in AckPackets
    BY <1>3, <2>1, AckRead
  <2>2. CASE d[c + 1] \in DataPackets
    BY <1>3, <2>2, DataRead
  <2> QED
    BY <1>2, <2>1, <2>2 DEF WirePackets
<1> QED
  BY <1>1, <1>2, <1>3, <1>4, BytesIn

LEMMA EndStep ==
    ASSUME WireAssumption, WireInv, EndPacket
    PROVE  WireInv'
<1>1. Stops /\ pc' = "receive"
  BY DEF EndPacket, Return, Stops
<1>2. WireTypes' /\ Counted' /\ Ended'
  BY <1>1, TypesKept, CountKept DEF WireInv, Stops, Ended, WireTypes
<1>3. role = "gadget" => GadgetInv'
  BY <1>1, GadgetStops DEF WireInv
<1>4. role = "echo" => EchoInv'
  <2> SUFFICES ASSUME role = "echo"
               PROVE  EchoInv'
    OBVIOUS
  <2>1. PICK d, r, c, m : EchoAt(d, r, c, m)
    BY <1>1 DEF WireInv, EchoInv, Stops
  <2>2. m = 0
    <3>1. packet \in Seq(WireByte) /\ offset \in Nat => (offset < Len(packet) <=> ~(offset >= Len(packet)))
      OBVIOUS
    <3>2. m # 0 => Found(BytesOf(d[c + 1])) /\ InSegment
      BY <1>1, <2>1, EchoFinds DEF Stops
    <3> QED
      BY <3>1, <3>2 DEF EndPacket, InSegment, Found, FoundTo
  <2> QED
    BY <1>1, <2>1, <2>2, EchoStops
<1> QED
  BY <1>1, <1>2, <1>3, <1>4 DEF WireInv, Stops

LEMMA DropStep ==
    ASSUME WireAssumption, WireInv, DropSegment
    PROVE  WireInv'
<1>1. Stops /\ pc' = "receive"
  BY DEF DropSegment, InSegment, Return, Stops
<1>2. WireTypes' /\ Counted' /\ Ended'
  BY <1>1, TypesKept, CountKept DEF WireInv, Stops, Ended, WireTypes
<1>3. role = "gadget" => GadgetInv'
  BY <1>1, GadgetStops DEF WireInv
<1>4. role = "echo" => EchoInv'
  <2> SUFFICES ASSUME role = "echo"
               PROVE  EchoInv'
    OBVIOUS
  <2>1. PICK d, r, c, m : EchoAt(d, r, c, m)
    BY <1>1 DEF WireInv, EchoInv, Stops
  <2>2. m = 0
    <3> SUFFICES ASSUME m # 0
                 PROVE  FALSE
      OBVIOUS
    <3>1. /\ d[c + 1] \in WirePackets /\ Found(BytesOf(d[c + 1]))
          /\ c \in Nat /\ c + 1 \in 1..Len(d)
      BY <1>1, <2>1, EchoFinds DEF Stops
    <3>2. CASE d[c + 1] \in AckPackets
      BY <3>1, <3>2, AckRead DEF DropSegment
    <3>3. CASE d[c + 1] \in DataPackets
      <4>1. PICK x : x = d[c + 1]
        OBVIOUS
      <4>2. /\ x \in DataPackets /\ Has(2) /\ (x.src = 0 => Has(5))
            /\ transactionType # CONTROL /\ (IsInitial <=> x.src = 0) /\ streamId = x.s
        BY <3>1, <3>3, <4>1, DataRead
      <4>3. streamToIndex(x.s) >= 0
        BY <2>1, <3>1, <3>3, <4>1 DEF EchoAt, KnownStreams
      <4>4. ~IsInitial /\ Buffer = NULL
        <5>1. streamToIndex(streamId) \in {-1, 0, 1, 2}
          BY DEF streamToIndex
        <5>2. streamToIndex(streamId) >= 0
          BY <4>2, <4>3
        <5>3. ~(streamToIndex(streamId) < 0)
          BY <5>1, <5>2
        <5> QED
          BY <4>2, <5>3, Zenon DEF DropSegment
      <4>5. Mirrored(x.s, x.t, x.n, x.payload, x.src)
        <5>1. MirroredAt(d, c) /\ c + 1 <= Len(d)
          BY <2>1, <3>1 DEF EchoAt
        <5> QED
          BY <3>3, <4>1, <4>2, <4>4, <5>1 DEF MirroredAt
      <4>6. Buffer # NULL
        <5>1. Buffer = rxBuffers[streamToIndex(x.s)]
          BY <4>2, Zenon DEF Buffer
        <5>2. Buffer.transactionId = x.t
          BY <4>2, <4>4, <4>5, <5>1 DEF Mirrored
        <5>3. x.t \in Nat /\ NULL.transactionId = -1
          BY <4>2 DEF DataPackets, NULL
        <5>4. x.t # -1
          BY <5>3
        <5> QED
          BY <5>2, <5>3, <5>4, Zenon
      <4> QED
        BY <4>4, <4>6
    <3> QED
      BY <3>1, <3>2, <3>3 DEF WirePackets
  <2> QED
    BY <1>1, <2>1, <2>2, EchoStops
<1> QED
  BY <1>1, <1>2, <1>3, <1>4 DEF WireInv, Stops

LEMMA DeadStep ==
    ASSUME WireAssumption, WireInv, AssertionFails \/ ReadPastEnd
    PROVE  WireInv'
<1>1. Stops /\ pc' \in {"aborted", "undefined"}
  BY DEF AssertionFails, ReadPastEnd, InSegment, Stops
<1>2. WireTypes' /\ Counted' /\ Ended'
  BY <1>1, TypesKept, CountKept DEF WireInv, Stops, Ended, WireTypes
<1>3. role = "gadget" => GadgetInv'
  BY <1>1, GadgetStops DEF WireInv
<1> QED
  BY <1>1, <1>2, <1>3 DEF WireInv, Stops

-----------------------------------------------------------------------------
(***************************************************************************)
(* A packet is received.                                                   *)
(***************************************************************************)
Takes ==
    /\ pc = "receive" /\ pc' = "decode" /\ offset' = 0
    /\ UNCHANGED <<role, answers, received, verdicts, results, response, rxBuffers>>

LEMMA GadgetTakes ==
    ASSUME GadgetInv, Takes, QueuesHoldData', GadgetRest'
    PROVE  GadgetInv'
  BY RespondedKept DEF GadgetInv, Takes

LEMMA EchoTakes ==
    ASSUME NEW d, NEW r, NEW c, EchoAt(d, r, c, 0), Takes, NEW m \in {1, 2}, c + m <= Len(d),
           Rest(d, c, m)', DOMAIN queues' = {1}, queues'[1] = Behind(d, c + m)
    PROVE  EchoInv'
<1>1. verdicts' = verdicts /\ results' = results /\ rxBuffers' = rxBuffers /\ pc' = "decode"
  BY DEF Takes
<1>2. MirroredAt(d, c)'
  BY <1>1 DEF EchoAt, MirroredAt, Mirrored
<1>3. EchoAt(d, r, c, m)'
  BY <1>1, <1>2 DEF EchoAt, PrintedUpTo
<1> QED
  BY <1>3 DEF EchoInv

LEMMA OneRest ==
    ASSUME WireAssumption, NEW x \in DataPackets, packet' = BytesOf(x), offset' = 0
    PROVE  \E g, c, m : WholeRest(g, c, m)'
<1>1. PICK g : g = <<x>>
  OBVIOUS
<1>2. g \in Seq(DataPackets) /\ Len(g) = 1 /\ g[0 + 1] = x
  BY <1>1
<1>3. Rest(g, 0, 1)'
  BY <1>2, RestTaken DEF WirePackets
<1>4. 0 + 1 = Len(g) /\ 0 \in Nat
  BY <1>2
<1>5. WholeRest(g, 0, 1)'
  BY <1>2, <1>3, <1>4 DEF WholeRest
<1> QED
  BY <1>5

LEMMA TwoRest ==
    ASSUME WireAssumption, NEW x \in DataPackets, NEW y \in DataPackets,
           packet' = BytesOf(x) \o BytesOf(y), offset' = 0
    PROVE  \E g, c, m : WholeRest(g, c, m)'
<1>1. PICK g : g = <<x, y>>
  OBVIOUS
<1>2. g \in Seq(DataPackets) /\ Len(g) = 2 /\ g[0 + 1] = x /\ g[0 + 2] = y
  BY <1>1
<1>3. Rest(g, 0, 2)'
  BY <1>2, RestJoined DEF WirePackets
<1>4. 0 + 2 = Len(g) /\ 0 \in Nat
  BY <1>2
<1>5. WholeRest(g, 0, 2)'
  BY <1>2, <1>3, <1>4 DEF WholeRest
<1> QED
  BY <1>5

LEMMA TakeStep ==
    ASSUME WireAssumption, WireInv, NEW q \in DOMAIN queues, TakePacket(q)
    PROVE  WireInv'
<1>1. /\ Takes /\ packet' = Head(queues[q]) /\ queues[q] # <<>>
      /\ queues' = [queues EXCEPT ![q] = Tail(@)]
  BY DEF TakePacket, Receive, Takes
<1>2. WireTypes' /\ Counted' /\ Ended'
  BY <1>1, TypesKept, CountKept DEF WireInv, Takes, Ended, WireTypes
<1>3. role = "gadget" => GadgetInv'
  <2> SUFFICES ASSUME role = "gadget"
               PROVE  GadgetInv'
    OBVIOUS
  <2>1. GadgetInv /\ queues[q] \in Seq(DataBytes)
    BY DEF WireInv, GadgetInv, QueuesHoldData
  <2>2. Tail(queues[q]) \in Seq(DataBytes) /\ \E d \in DataPackets : packet' = BytesOf(d)
    BY <1>1, <2>1, HeadOfData
  <2>3. QueuesHoldData'
    BY <1>1, <2>1, <2>2 DEF QueuesHoldData, GadgetInv
  <2>4. offset' = 0
    BY <1>1 DEF Takes
  <2>5. \E g, c, m : WholeRest(g, c, m)'
    BY <2>2, <2>4, OneRest
  <2>6. GadgetRest'
    BY <2>5, Zenon DEF GadgetRest
  <2> QED
    BY <1>1, <2>1, <2>3, <2>6, GadgetTakes
<1>4. role = "echo" => EchoInv'
  <2> SUFFICES ASSUME role = "echo"
               PROVE  EchoInv'
    OBVIOUS
  <2>1. PICK d, r, c, m : EchoAt(d, r, c, m)
    BY <1>1 DEF WireInv, EchoInv, Takes
  <2>2. /\ d \in Seq(WirePackets) /\ c \in Nat /\ m = 0 /\ c + m <= Len(d)
        /\ DOMAIN queues = {1} /\ queues[1] = Behind(d, c + m)
    BY <1>1, <2>1 DEF EchoAt, Takes
  <2>3. q = 1 /\ c + m = c /\ c <= Len(d)
    BY <2>2
  <2>4. c + 1 <= Len(d) /\ packet' = BytesOf(d[c + 1]) /\ Tail(queues[1]) = Behind(d, c + 1)
    BY <1>1, <2>2, <2>3, BehindSteps
  <2>5. d[c + 1] \in WirePackets
    <3>1. PICK n : n = Len(d)
      OBVIOUS
    <3>2. c + 1 \in 1..n
      BY <2>2, <2>4, <3>1
    <3> QED
      BY <2>2, <3>1, <3>2
  <2>6. Rest(d, c, 1)'
    BY <1>1, <2>4, <2>5, RestTaken DEF Takes
  <2>7. DOMAIN queues' = {1} /\ queues'[1] = Behind(d, c + 1)
    BY <1>1, <2>2, <2>3, <2>4
  <2> QED
    BY <1>1, <2>1, <2>2, <2>4, <2>6, <2>7, EchoTakes
<1> QED
  BY <1>1, <1>2, <1>3, <1>4 DEF WireInv, Takes

LEMMA CutStep ==
    ASSUME WireAssumption, WireInv, NEW q \in DOMAIN queues, TakeCut(q)
    PROVE  WireInv'
<1>1. PICK kept \in Shortest(Head(queues[q]))..(Len(Head(queues[q])) - 1) :
         packet' = SubSeq(Head(queues[q]), 1, kept)
  BY DEF TakeCut, Receive
<1>2. /\ Takes /\ queues[q] # <<>> /\ role = "gadget"
      /\ queues' = [queues EXCEPT ![q] = Tail(@)]
  BY DEF TakeCut, Receive, Takes
<1>3. WireTypes' /\ Counted' /\ Ended'
  BY <1>2, TypesKept, CountKept DEF WireInv, Takes, Ended, WireTypes
<1>4. GadgetInv /\ queues[q] \in Seq(DataBytes)
  BY <1>2 DEF WireInv, GadgetInv, QueuesHoldData
<1>5. Tail(queues[q]) \in Seq(DataBytes) /\ \E d \in DataPackets : Head(queues[q]) = BytesOf(d)
  BY <1>2, <1>4, HeadOfData
<1>6. QueuesHoldData'
  BY <1>2, <1>4, <1>5 DEF QueuesHoldData, GadgetInv
<1>7. PICK d \in DataPackets : Head(queues[q]) = BytesOf(d)
  BY <1>5
<1>8. PICK e, n : e = BytesOf(d) /\ n = Len(e)
  OBVIOUS
<1>9. e \in Seq(WireByte) /\ n \in Nat
  BY <1>8, DataBytesIn
<1>10. kept \in 1..(n - 1) /\ packet' = SubSeq(e, 1, kept)
  <2>1. Shortest(Head(queues[q])) \in Nat \ {0}
    <3>1. ShortestInitial \in Nat \ {0} /\ ShortestOther \in Nat \ {0}
      BY DEF WireAssumption
    <3> QED
      BY <3>1 DEF Shortest
  <2>2. kept \in Shortest(Head(queues[q]))..(n - 1)
    BY <1>1, <1>7, <1>8
  <2>3. kept \in 1..(n - 1)
    BY <1>9, <2>1, <2>2
  <2> QED
    BY <1>1, <1>7, <1>8, <2>3
<1>11. PICK one : one = 1
  OBVIOUS
<1>12. one \in 1..n /\ kept \in one..n /\ kept - one + 1 = kept
       /\ \A i \in 1..kept : one + i - 1 = i
  BY <1>9, <1>10, <1>11
<1>13. packet' \in Seq(WireByte) /\ Len(packet') = kept
       /\ \A i \in 1..kept : packet'[i] = e[one + i - 1]
  BY <1>8, <1>9, <1>10, <1>11, <1>12, Piece
<1>14. CutOf(e)'
  <2>1. offset' = 0
    BY <1>2 DEF Takes
  <2>2. Len(packet') = kept /\ kept < n
    BY <1>9, <1>10, <1>13
  <2>3. \A i \in 1..kept : packet'[i] = e[i]
    BY <1>12, <1>13
  <2>4. PICK p : p = packet'
    OBVIOUS
  <2>5. p \in Seq(WireByte) /\ Len(p) = kept /\ \A i \in 1..Len(p) : p[i] = e[i]
    BY <1>13, <2>2, <2>3, <2>4
  <2>6. Len(p) < Len(e)
    BY <1>8, <2>2, <2>5
  <2> QED
    BY <2>1, <2>4, <2>5, <2>6 DEF CutOf
<1>15. GadgetRest'
  BY <1>8, <1>14 DEF GadgetRest
<1>16. GadgetInv'
  BY <1>2, <1>4, <1>6, <1>15, GadgetTakes
<1> QED
  BY <1>2, <1>3, <1>16 DEF WireInv, Takes

LEMMA JoinedStep ==
    ASSUME WireAssumption, WireInv, NEW q \in DOMAIN queues, NEW s \in DOMAIN queues,
           TakeJoined(q, s)
    PROVE  WireInv'
<1>1. PICK rest : rest = [queues EXCEPT ![q] = Tail(@)]
  OBVIOUS
<1>2. /\ Takes /\ queues[q] # <<>> /\ rest[s] # <<>>
      /\ packet' = Head(queues[q]) \o Head(rest[s])
      /\ queues' = [rest EXCEPT ![s] = Tail(@)]
  BY <1>1 DEF TakeJoined, Receive, Takes
<1>3. WireTypes' /\ Counted' /\ Ended'
  BY <1>2, TypesKept, CountKept DEF WireInv, Takes, Ended, WireTypes
<1>4. role = "gadget" => GadgetInv'
  <2> SUFFICES ASSUME role = "gadget"
               PROVE  GadgetInv'
    OBVIOUS
  <2>1. GadgetInv /\ QueuesHoldData
    BY DEF WireInv, GadgetInv
  <2>2. Tail(queues[q]) \in Seq(DataBytes) /\ \E d \in DataPackets : Head(queues[q]) = BytesOf(d)
    BY <1>2, <2>1, HeadOfData DEF QueuesHoldData
  <2>3. DOMAIN rest = DOMAIN queues /\ \A p \in DOMAIN rest : rest[p] \in Seq(DataBytes)
    BY <1>1, <2>1, <2>2 DEF QueuesHoldData
  <2>4. Tail(rest[s]) \in Seq(DataBytes) /\ \E d \in DataPackets : Head(rest[s]) = BytesOf(d)
    BY <1>2, <2>3, HeadOfData
  <2>5. QueuesHoldData'
    BY <1>2, <2>3, <2>4 DEF QueuesHoldData
  <2>6. PICK x \in DataPackets, y \in DataPackets : packet' = BytesOf(x) \o BytesOf(y)
    BY <1>2, <2>2, <2>4
  <2>7. offset' = 0
    BY <1>2 DEF Takes
  <2>8. \E g, c, m : WholeRest(g, c, m)'
    BY <2>6, <2>7, TwoRest
  <2>9. GadgetRest'
    BY <2>8, Zenon DEF GadgetRest
  <2> QED
    BY <1>2, <2>1, <2>5, <2>9, GadgetTakes
<1>5. role = "echo" => EchoInv'
  <2> SUFFICES ASSUME role = "echo"
               PROVE  EchoInv'
    OBVIOUS
  <2>1. PICK d, r, c, m : EchoAt(d, r, c, m)
    BY <1>2 DEF WireInv, EchoInv, Takes
  <2>2. /\ d \in Seq(WirePackets) /\ c \in Nat /\ m = 0 /\ c + m <= Len(d)
        /\ DOMAIN queues = {1} /\ queues[1] = Behind(d, c + m)
    BY <1>2, <2>1 DEF EchoAt, Takes
  <2>3. q = 1 /\ s = 1 /\ c + m = c /\ c <= Len(d)
    BY <2>2
  <2>4. /\ c + 1 <= Len(d) /\ Head(queues[1]) = BytesOf(d[c + 1])
        /\ Tail(queues[1]) = Behind(d, c + 1)
    BY <1>2, <2>2, <2>3, BehindSteps
  <2>5. DOMAIN rest = {1} /\ rest[1] = Behind(d, c + 1)
    BY <1>1, <2>2, <2>3, <2>4
  <2>6. /\ c + 2 <= Len(d) /\ Head(rest[1]) = BytesOf(d[c + 2])
        /\ Tail(rest[1]) = Behind(d, c + 2)
    <3>1. c + 1 \in Nat /\ (c + 1) + 1 = c + 2
      BY <2>2
    <3> QED
      BY <1>2, <2>2, <2>3, <2>4, <2>5, <3>1, BehindSteps
  <2>7. d[c + 1] \in WirePackets /\ d[c + 2] \in WirePackets
    <3>1. PICK n : n = Len(d)
      OBVIOUS
    <3>2. c + 1 \in 1..n /\ c + 2 \in 1..n
      BY <2>2, <2>6, <3>1
    <3> QED
      BY <2>2, <3>1, <3>2
  <2>8. packet' = BytesOf(d[c + 1]) \o BytesOf(d[c + 2]) /\ offset' = 0
    BY <1>2, <2>3, <2>4, <2>6 DEF Takes
  <2>9. Rest(d, c, 2)'
    BY <2>7, <2>8, RestJoined
  <2>10. DOMAIN queues' = {1} /\ queues'[1] = Behind(d, c + 2)
    BY <1>2, <2>3, <2>5, <2>6
  <2> QED
    BY <1>2, <2>1, <2>2, <2>6, <2>9, <2>10, EchoTakes
<1> QED
  BY <1>2, <1>3, <1>4, <1>5 DEF WireInv, Takes

-----------------------------------------------------------------------------
(***************************************************************************)
(* The segments that the gadget decodes.                                   *)
(***************************************************************************)
LEMMA StreamFields ==
    ASSUME packet \in Seq(WireByte), offset \in Nat, Has(2)
    PROVE  /\ streamId \in Nat /\ streamId < 16
           /\ transactionId \in Nat /\ transactionId < 16 /\ ackBit \in BOOLEAN
<1>1. PICK b : b = At(1)
  OBVIOUS
<1>2. b \in WireByte
  <2>1. offset + 1 \in 1..Len(packet)
    BY DEF Has
  <2> QED
    BY <1>1, <2>1 DEF At
<1>3. b \in Nat /\ b < 256
  BY <1>2, WireBytesAre
<1>4. b \div 16 \in Nat /\ b \div 16 < 16 /\ b % 16 \in Nat /\ b % 16 < 16
  BY <1>3
<1> QED
  BY <1>1, <1>4 DEF streamId, transactionId, ackBit

LEMMA GadgetFinds ==
    ASSUME WireAssumption, GadgetRest, pc = "decode", InSegment
    PROVE  /\ packet \in Seq(WireByte) /\ offset \in Nat
           /\ Has(2) => transactionType # CONTROL
           /\ Has(2) /\ PayloadFits =>
                \E g, c, m : /\ WholeRest(g, c, m) /\ m # 0
                             /\ g[c + 1] \in DataPackets
                             /\ offset + PayloadAt + currentPayloadLength
                                  = offset + Len(BytesOf(g[c + 1]))
<1>1. CASE \E d \in DataPackets : CutOf(BytesOf(d))
  <2>1. PICK d \in DataPackets : CutOf(BytesOf(d))
    BY <1>1
  <2>2. packet \in Seq(WireByte) /\ offset \in Nat
    BY <2>1 DEF CutOf
  <2>3. Has(2) => transactionType # CONTROL /\ ~PayloadFits
    BY <2>1, CutRead
  <2> QED
    BY <2>2, <2>3
<1>2. CASE \E g, c, m : WholeRest(g, c, m)
  <2>1. PICK g, c, m : WholeRest(g, c, m)
    BY <1>2
  <2>2. g \in Seq(DataPackets) /\ c \in Nat /\ c + m = Len(g) /\ Rest(g, c, m) /\ m \in 0..2
    BY <2>1 DEF WholeRest, Rest
  <2>3. m # 0
    BY <2>2, RestEnds
  <2>4. g[c + 1] \in DataPackets
    <3>1. PICK n : n = Len(g)
      OBVIOUS
    <3>2. c + 1 \in 1..n
      BY <2>2, <2>3, <3>1
    <3> QED
      BY <2>2, <3>1, <3>2
  <2>5. Found(BytesOf(g[c + 1]))
    BY <2>2, <2>3, RestFound
  <2>6. packet \in Seq(WireByte) /\ offset \in Nat
    BY <2>5 DEF Found, FoundTo
  <2>7. /\ transactionType # CONTROL
        /\ offset + PayloadAt + currentPayloadLength = offset + Len(BytesOf(g[c + 1]))
    BY <2>4, <2>5, DataRead
  <2> QED
    BY <2>1, <2>3, <2>4, <2>6, <2>7
<1> QED
  BY <1>1, <1>2 DEF GadgetRest

LEMMA GadgetGoesOn ==
    ASSUME WireAssumption, GadgetRest, pc = "decode", InSegment, Has(2), PayloadFits,
           packet' = packet, offset' = offset + PayloadAt + currentPayloadLength
    PROVE  GadgetRest'
<1>1. PICK g, c, m : /\ WholeRest(g, c, m) /\ m # 0
                     /\ g[c + 1] \in DataPackets
                     /\ offset + PayloadAt + currentPayloadLength
                          = offset + Len(BytesOf(g[c + 1]))
  BY GadgetFinds
<1>2. g \in Seq(DataPackets) /\ c \in Nat /\ c + m = Len(g) /\ Rest(g, c, m) /\ m \in 0..2
  BY <1>1 DEF WholeRest, Rest
<1>3. Len(BytesOf(g[c + 1])) \in Nat
  BY <1>1, DataBytesIn
<1>4. Rest(g, c + 1, m - 1)'
  BY <1>1, <1>2, <1>3, RestNext
<1>5. (c + 1) + (m - 1) = Len(g) /\ c + 1 \in Nat
  BY <1>2
<1>6. WholeRest(g, c + 1, m - 1)'
  BY <1>2, <1>4, <1>5 DEF WholeRest
<1> QED
  BY <1>6 DEF GadgetRest

-----------------------------------------------------------------------------
(***************************************************************************)
(* Successes, and messages that asked for them.                            *)
(***************************************************************************)
SuccessesOf(v) == {i \in DOMAIN v : v[i] = SUCCESS}

AskedOf(s) == {i \in DOMAIN s : s[i].ack /\ s[i].streamId # OTA_STREAM}

LEMMA SuccessesAppended ==
    ASSUME NEW v \in Seq({SUCCESS, FAILURE}), NEW k \in BOOLEAN,
           NEW result \in {SUCCESS, FAILURE}
    PROVE  /\ IsFiniteSet(SuccessesOf(v)) /\ Len(v) + 1 \notin SuccessesOf(v)
           /\ SuccessesOf(v \o IfAsked(k, result)) =
                IF k /\ result = SUCCESS THEN SuccessesOf(v) \cup {Len(v) + 1}
                ELSE SuccessesOf(v)
<1>1. PICK n : n = Len(v)
  OBVIOUS
<1>2. n \in Nat /\ DOMAIN v = 1..n
  BY <1>1
<1>3. IsFiniteSet(SuccessesOf(v)) /\ n + 1 \notin SuccessesOf(v)
  <2>1. SuccessesOf(v) \subseteq 1..n
    BY <1>2 DEF SuccessesOf
  <2>2. IsFiniteSet(1..n)
    BY <1>2, FS_Interval
  <2>3. n + 1 \notin 1..n
    BY <1>2
  <2> QED
    BY <2>1, <2>2, <2>3, FS_Subset
<1>4. CASE k
  <2>1. PICK w : w = v \o <<result>>
    OBVIOUS
  <2>2. /\ DOMAIN w = 1..(n + 1) /\ w[n + 1] = result /\ \A i \in 1..n : w[i] = v[i]
    BY <1>1, <1>2, <2>1
  <2>3. v \o IfAsked(k, result) = w
    BY <1>4, <2>1, Zenon DEF IfAsked
  <2>4. SuccessesOf(w) = IF result = SUCCESS THEN SuccessesOf(v) \cup {n + 1}
                         ELSE SuccessesOf(v)
    <3>1. \A i : i \in 1..(n + 1) <=> i \in 1..n \/ i = n + 1
      BY <1>2
    <3> QED
      BY <1>2, <2>2, <3>1 DEF SuccessesOf
  <2> QED
    BY <1>1, <1>3, <1>4, <2>3, <2>4
<1>5. CASE ~k
  <2>1. v \o IfAsked(k, result) = v
    <3>1. v \o <<>> = v
      OBVIOUS
    <3> QED
      BY <1>5, <3>1, Zenon DEF IfAsked
  <2> QED
    BY <1>1, <1>3, <1>5, <2>1
<1> QED
  BY <1>4, <1>5

LEMMA AskedAppended ==
    ASSUME NEW S, NEW s \in Seq(S), NEW e
    PROVE  /\ Append(s, e) \in Seq(S \cup {e})
           /\ IsFiniteSet(AskedOf(s)) /\ Len(s) + 1 \notin AskedOf(s)
           /\ AskedOf(Append(s, e)) =
                IF e.ack /\ e.streamId # OTA_STREAM THEN AskedOf(s) \cup {Len(s) + 1}
                ELSE AskedOf(s)
<1>1. PICK n, T : n = Len(s) /\ T = S \cup {e}
  OBVIOUS
<1>2. n \in Nat /\ DOMAIN s = 1..n /\ s \in Seq(T) /\ e \in T
  BY <1>1
<1>3. IsFiniteSet(AskedOf(s)) /\ n + 1 \notin AskedOf(s)
  <2>1. AskedOf(s) \subseteq 1..n
    BY <1>2 DEF AskedOf
  <2>2. IsFiniteSet(1..n)
    BY <1>2, FS_Interval
  <2>3. n + 1 \notin 1..n
    BY <1>2
  <2> QED
    BY <2>1, <2>2, <2>3, FS_Subset
<1>4. PICK w : w = Append(s, e)
  OBVIOUS
<1>5. /\ w \in Seq(T) /\ DOMAIN w = 1..(n + 1) /\ w[n + 1] = e
      /\ \A i \in 1..n : w[i] = s[i]
  BY <1>1, <1>2, <1>4
<1>6. AskedOf(w) = IF e.ack /\ e.streamId # OTA_STREAM THEN AskedOf(s) \cup {n + 1}
                   ELSE AskedOf(s)
  <2>1. \A i : i \in 1..(n + 1) <=> i \in 1..n \/ i = n + 1
    BY <1>2
  <2> QED
    BY <1>2, <1>5, <2>1 DEF AskedOf
<1> QED
  BY <1>1, <1>3, <1>4, <1>5, <1>6

LEMMA BothCounted ==
    ASSUME NEW A, NEW B, NEW a, NEW b, IsFiniteSet(A), IsFiniteSet(B), a \notin A, b \notin B,
           Cardinality(A) = Cardinality(B)
    PROVE  Cardinality(A \cup {a}) = Cardinality(B \cup {b})
  BY FS_AddElement

-----------------------------------------------------------------------------
(***************************************************************************)
(* The segments that the Echo device decodes.                              *)
(***************************************************************************)
LEMMA EchoAdvance ==
    ASSUME WireAssumption, NEW d, NEW r, NEW c, NEW m, EchoAt(d, r, c, m), pc = "decode",
           m # 0, packet' = packet, offset' = offset + Len(BytesOf(d[c + 1])),
           pc' = "decode", queues' = queues, verdicts' = verdicts,
           results' = PrintedUpTo(r[c + 1]), MirroredAt(d, c + 1)'
    PROVE  EchoAt(d, r, c + 1, m - 1)'
<1>1. /\ d \in Seq(WirePackets) /\ InOrder(d) /\ KnownStreams(d) /\ Tallied(d, verdicts, r)
      /\ c \in Nat /\ m \in 0..2 /\ c + m <= Len(d)
      /\ DOMAIN queues = {1} /\ queues[1] = Behind(d, c + m)
      /\ Rest(d, c, m)
  BY DEF EchoAt
<1>2. c + 1 \in Nat /\ m - 1 \in 0..2 /\ (c + 1) + (m - 1) = c + m
  BY <1>1
<1>3. Len(BytesOf(d[c + 1])) \in Nat
  BY EchoFinds
<1>4. Rest(d, c + 1, m - 1)'
  BY <1>1, <1>3, RestNext
<1>5. Tallied(d, verdicts, r)'
  BY <1>1, Zenon
<1>6. results' = PrintedUpTo(r[c + 1])'
  BY DEF PrintedUpTo
<1>7. /\ (c + 1) + (m - 1) <= Len(d)
      /\ DOMAIN queues' = {1} /\ queues'[1] = Behind(d, (c + 1) + (m - 1))
  BY <1>1, <1>2
<1> QED
  BY <1>1, <1>2, <1>4, <1>5, <1>6, <1>7 DEF EchoAt

\* What was appended is what the next packet needs.
LEMMA EchoReassembles ==
    ASSUME WireAssumption, NEW d, NEW r, NEW c, NEW m, EchoAt(d, r, c, m), pc = "decode",
           m # 0, d[c + 1] \in DataPackets, Reassembles,
           NEW x, x = d[c + 1]
    PROVE  Reassembled(x.s, x.t, x.n, x.payload, x.src, BytesOf(x))
<1>1. /\ Found(BytesOf(x)) /\ c \in Nat /\ c + 1 \in 1..Len(d)
  BY EchoFinds
<1>2. /\ Packed(x.s, x.t, x.n, x.k, x.payload, x.src)
      /\ BytesOf(x) = StreamPacket(x.s, x.t, x.n, x.k, x.payload, x.src)
  BY DataFacts
<1>3. streamId = x.s /\ (IsInitial <=> x.src = 0)
  BY <1>1, DataRead
<1>4. streamToIndex(x.s) >= 0
  BY <1>1 DEF EchoAt, KnownStreams
<1>5. x.src = 0 => x.n = 0
  BY <1>1 DEF EchoAt, InOrder
<1>6. Mirrored(x.s, x.t, x.n, x.payload, x.src)
  <2>1. CASE x.src = 0
    <3>1. rxBuffers[streamToIndex(x.s)] = NULL
      BY <1>3, <2>1, Zenon DEF Reassembles, Buffer
    <3> QED
      BY <2>1, <3>1, Zenon DEF Mirrored
  <2>2. CASE x.src # 0
    <3>1. MirroredAt(d, c) /\ c + 1 <= Len(d)
      BY <1>1 DEF EchoAt
    <3> QED
      BY <2>2, <3>1 DEF MirroredAt
  <2> QED
    BY <2>1, <2>2
<1> QED
  BY <1>1, <1>2, <1>4, <1>5, <1>6, FoundReassembled, Zenon

\* The next packet, if it is not the first of its payload, continues this one.
LEMMA EchoNext ==
    ASSUME NEW d, NEW r, NEW c, NEW m, EchoAt(d, r, c, m), c + 2 <= Len(d),
           d[c + 2] \in DataPackets, d[c + 2].src # 0
    PROVE  d[c + 1] \in DataPackets /\ Continues(d[c + 1], d[c + 2])
<1>1. InOrder(d) /\ c \in Nat
  BY DEF EchoAt
<1>2. PICK n : n = Len(d)
  OBVIOUS
<1>3. c + 2 \in 1..n /\ (c + 2) - 1 = c + 1
  <2>1. n \in Nat
    BY <1>2 DEF EchoAt
  <2> QED
    BY <1>1, <1>2, <2>1
<1> QED
  BY <1>1, <1>2, <1>3 DEF InOrder

-----------------------------------------------------------------------------
(***************************************************************************)
(* A control ack is decoded, or a packet refused.                          *)
(***************************************************************************)
LEMMA PrintedOneMore ==
    ASSUME NEW S, verdicts \in Seq(S), NEW n \in Nat, n + 1 <= Len(verdicts)
    PROVE  Append(PrintedUpTo(n), Printed(verdicts[n + 1])) = PrintedUpTo(n + 1)
<1>1. PICK p, q : p = PrintedUpTo(n) /\ q = PrintedUpTo(n + 1)
  OBVIOUS
<1>2. PICK T : T = {Printed(verdicts[i]) : i \in 1..(n + 1)}
  OBVIOUS
<1>3. p \in Seq(T) /\ Len(p) = n /\ \A i \in 1..n : p[i] = Printed(verdicts[i])
  BY <1>1, <1>2 DEF PrintedUpTo
<1>4. q \in Seq(T) /\ Len(q) = n + 1 /\ \A i \in 1..(n + 1) : q[i] = Printed(verdicts[i])
  BY <1>1, <1>2 DEF PrintedUpTo
<1>5. PICK e, a : e = Printed(verdicts[n + 1]) /\ a = Append(p, e)
  OBVIOUS
<1>6. e \in T
  BY <1>2, <1>5
<1>7. a \in Seq(T) /\ Len(a) = n + 1 /\ a[n + 1] = e /\ \A i \in 1..n : a[i] = p[i]
  BY <1>3, <1>5, <1>6
<1>8. \A i \in 1..(n + 1) : a[i] = q[i]
  BY <1>3, <1>4, <1>5, <1>7
<1>9. a = q
  BY <1>4, <1>7, <1>8, SeqEqual
<1> QED
  BY <1>1, <1>5, <1>9, Zenon

LEMMA EchoInSegment ==
    ASSUME WireAssumption, NEW d, NEW r, NEW c, NEW m, EchoAt(d, r, c, m), InSegment
    PROVE  /\ pc = "decode" /\ m # 0 /\ c \in Nat /\ c + 1 \in 1..Len(d)
           /\ d[c + 1] \in WirePackets /\ Found(BytesOf(d[c + 1]))
           /\ Len(BytesOf(d[c + 1])) \in Nat
<1>1. pc = "decode"
  BY DEF InSegment
<1>2. m # 0
  <2>1. Rest(d, c, m)
    BY <1>1 DEF EchoAt
  <2> QED
    BY <2>1, RestEnds
<1> QED
  BY <1>1, <1>2, EchoFinds

LEMMA ControlAckStep ==
    ASSUME WireAssumption, WireInv, DecodeControlAck
    PROVE  WireInv'
<1>1. /\ InSegment /\ pc = "decode" /\ pc' = "decode" /\ packet' = packet /\ queues' = queues
      /\ UNCHANGED <<role, rxBuffers, response, answers, received, verdicts>>
  BY DEF DecodeControlAck, InSegment
<1>2. WireTypes' /\ Counted' /\ Ended'
  BY <1>1, TypesKept, CountKept DEF WireInv, Ended, WireTypes
<1>3. role # "gadget"
  <2> SUFFICES ASSUME role = "gadget"
               PROVE  FALSE
    OBVIOUS
  <2>1. GadgetRest
    BY DEF WireInv, GadgetInv
  <2>2. packet \in Seq(WireByte) /\ offset \in Nat /\ (Has(2) => transactionType # CONTROL)
    BY <1>1, <2>1, GadgetFinds
  <2>3. Has(6) => Has(2)
    BY <2>2 DEF Has
  <2> QED
    BY <2>2, <2>3 DEF DecodeControlAck
<1>4. role = "echo" => EchoInv'
  <2> SUFFICES ASSUME role = "echo"
               PROVE  EchoInv'
    OBVIOUS
  <2>1. PICK d, r, c, m : EchoAt(d, r, c, m)
    BY <1>1 DEF WireInv, EchoInv
  <2>2. /\ m # 0 /\ c \in Nat /\ c + 1 \in 1..Len(d)
        /\ d[c + 1] \in WirePackets /\ Found(BytesOf(d[c + 1]))
    BY <1>1, <2>1, EchoInSegment
  <2>3. PICK x : x = d[c + 1]
    OBVIOUS
  <2>4. x \in AckPackets /\ x \notin DataPackets
    <3>1. x \notin DataPackets
      BY <2>2, <2>3, DataRead DEF DecodeControlAck
    <3> QED
      BY <2>2, <2>3, <3>1 DEF WirePackets
  <2>5. At(6) = x.result /\ Len(BytesOf(x)) = 6
    <3>1. BytesOf(x) = <<x.first, x.second, 0, 2, 1, x.result>>
      BY <2>4, AckFacts
    <3> QED
      BY <2>2, <2>3, <2>4, <3>1, AckRead
  <2>6. /\ r[c + 1] = r[c] + 1 /\ verdicts[r[c + 1]] = x.result
        /\ r[c] \in 0..Len(verdicts) /\ r[c + 1] \in 0..Len(verdicts)
    <3>1. PICK z, l : z = Len(verdicts) /\ l = Len(d)
      OBVIOUS
    <3>2. /\ r \in [0..l -> 0..z]
          /\ \A j \in 1..l : IF d[j] \in DataPackets THEN r[j] = r[j - 1]
                             ELSE r[j] = r[j - 1] + 1 /\ verdicts[r[j]] = d[j].result
      BY <2>1, <3>1 DEF EchoAt, Tallied
    <3>3. l \in Nat /\ c + 1 \in 1..l
      BY <2>1, <2>2, <3>1 DEF EchoAt
    <3>4. (c + 1) - 1 = c /\ c \in 0..l /\ c + 1 \in 0..l
      BY <2>2, <3>3
    <3> QED
      BY <2>3, <2>4, <3>1, <3>2, <3>3, <3>4
  <2>7. results' = PrintedUpTo(r[c + 1])
    <3>1. PICK n, p : n = r[c] /\ p = Printed(x.result)
      OBVIOUS
    <3>2. verdicts \in Seq({SUCCESS, FAILURE})
      BY DEF WireInv, WireTypes
    <3>3. n \in Nat /\ n + 1 <= Len(verdicts) /\ r[c + 1] = n + 1
      BY <2>6, <3>1, <3>2
    <3>4. results = PrintedUpTo(n)
      BY <2>1, <3>1 DEF EchoAt
    <3>5. results' = Append(results, p)
      BY <2>5, <3>1 DEF DecodeControlAck, Printed
    <3>6. p = Printed(verdicts[n + 1])
      BY <2>6, <3>1, <3>3
    <3>7. Append(PrintedUpTo(n), Printed(verdicts[n + 1])) = PrintedUpTo(n + 1)
      BY <3>2, <3>3, PrintedOneMore
    <3> QED
      BY <3>3, <3>4, <3>5, <3>6, <3>7
  <2>8. MirroredAt(d, c + 1)'
    <3>1. (c + 1) + 1 = c + 2
      BY <2>2
    <3>2. ~(c + 2 <= Len(d) /\ d[c + 2] \in DataPackets /\ d[c + 2].src # 0)
      BY <2>1, <2>3, <2>4, EchoNext
    <3> QED
      BY <3>1, <3>2 DEF MirroredAt
  <2>9. offset' = offset + Len(BytesOf(d[c + 1]))
    BY <2>3, <2>5 DEF DecodeControlAck
  <2>10. EchoAt(d, r, c + 1, m - 1)'
    BY <1>1, <2>1, <2>2, <2>7, <2>8, <2>9, EchoAdvance
  <2> QED
    BY <2>10 DEF EchoInv
<1> QED
  BY <1>1, <1>2, <1>3, <1>4 DEF WireInv

\* The Echo device refuses nothing.
LEMMA EchoTakesAll ==
    ASSUME WireAssumption, NEW d, NEW r, NEW c, NEW m, EchoAt(d, r, c, m), InSegment, Reassembles
    PROVE  /\ m # 0 /\ c \in Nat /\ c + 1 \in 1..Len(d) /\ d[c + 1] \in DataPackets
           /\ LET x == d[c + 1]
              IN  Reassembled(x.s, x.t, x.n, x.payload, x.src, BytesOf(x))
<1>1. /\ pc = "decode" /\ m # 0 /\ c \in Nat /\ c + 1 \in 1..Len(d)
      /\ d[c + 1] \in WirePackets /\ Found(BytesOf(d[c + 1]))
  BY EchoInSegment
<1>2. d[c + 1] \notin AckPackets
  BY <1>1, AckRead DEF Reassembles
<1>3. d[c + 1] \in DataPackets
  BY <1>1, <1>2 DEF WirePackets
<1> QED
  BY <1>1, <1>3, EchoReassembles

\* The buffers are still three.
LEMMA BuffersSet ==
    ASSUME NEW b, SetBuffer(b), rxBuffers = [i \in 0..2 |-> rxBuffers[i]]
    PROVE  rxBuffers' = [i \in 0..2 |-> rxBuffers'[i]]
  BY DEF SetBuffer

LEMMA RefusedStep ==
    ASSUME WireAssumption, WireInv, DecodeRefused
    PROVE  WireInv'
<1>1. /\ InSegment /\ Reassembles /\ ~PayloadFits /\ pc = "decode" /\ pc' = "receive"
      /\ UNCHANGED <<queues, packet, role, answers, received, results, offset>>
      /\ response' = response \o createControlAckPacket(streamId, transactionId, ackBit, FAILURE)
      /\ verdicts' = verdicts \o IfAsked(ackBit, FAILURE)
      /\ SetBuffer(NULL) /\ Has(2)
  BY DEF DecodeRefused, Reassembles, InSegment, Acknowledges, Return
<1>2. role # "echo"
  <2> SUFFICES ASSUME role = "echo"
               PROVE  FALSE
    OBVIOUS
  <2>1. PICK d, r, c, m : EchoAt(d, r, c, m)
    BY <1>1 DEF WireInv, EchoInv
  <2> QED
    BY <1>1, <2>1, EchoTakesAll DEF Reassembled
<1>3. role = "gadget" /\ GadgetInv
  BY <1>2 DEF WireInv, WireTypes
<1>4. packet \in Seq(WireByte) /\ offset \in Nat
  BY <1>1, <1>3, GadgetFinds DEF GadgetInv
<1>5. /\ streamId \in Nat /\ streamId < 16
      /\ transactionId \in Nat /\ transactionId < 16 /\ ackBit \in BOOLEAN
  BY <1>1, <1>4, StreamFields
<1>6. PICK v : v = verdicts
  OBVIOUS
<1>7. v \in Seq({SUCCESS, FAILURE}) /\ FAILURE \in {SUCCESS, FAILURE} /\ FAILURE # SUCCESS
  BY <1>6 DEF WireInv, WireTypes, SUCCESS, FAILURE
<1>8. PICK d : Answered(d, v) /\ response = OnTheWire(d)
  BY <1>3, <1>6 DEF GadgetInv, Responded
<1>9. verdicts' \in Seq({SUCCESS, FAILURE}) /\ Responded'
  <2>1. PICK s, t, k : s = streamId /\ t = transactionId /\ k = ackBit
    OBVIOUS
  <2>2. /\ v \o IfAsked(k, FAILURE) \in Seq({SUCCESS, FAILURE})
        /\ \E u : /\ Answered(u, v \o IfAsked(k, FAILURE))
                  /\ OnTheWire(u) = OnTheWire(d) \o createControlAckPacket(s, t, k, FAILURE)
    <3>1. s \in Nat /\ s < 16 /\ t \in Nat /\ t < 16 /\ k \in BOOLEAN
      BY <1>5, <2>1
    <3>2. AckedWith(d, v, s, t, k, FAILURE)
      BY <1>7, <1>8, <3>1, AckAppended
    <3> QED
      BY <3>2, Zenon DEF AckedWith
  <2>3. verdicts' = v \o IfAsked(k, FAILURE)
        /\ response' = OnTheWire(d) \o createControlAckPacket(s, t, k, FAILURE)
    BY <1>1, <1>6, <1>8, <2>1, Zenon
  <2> QED
    BY <2>2, <2>3, Zenon DEF Responded
<1>10. WireTypes'
  <2>1. WireTypes
    BY DEF WireInv
  <2>2. rxBuffers' = [i \in 0..2 |-> rxBuffers'[i]]
    BY <1>1, <2>1, BuffersSet DEF WireTypes
  <2> QED
    BY <1>1, <1>9, <2>1, <2>2 DEF WireTypes
<1>11. Counted'
  <2>1. SuccessesOf(verdicts') = SuccessesOf(verdicts)
    <3>1. SuccessesOf(v \o IfAsked(ackBit, FAILURE)) = SuccessesOf(v)
      BY <1>5, <1>7, SuccessesAppended
    <3> QED
      BY <1>1, <1>6, <3>1, Zenon
  <2>2. Successes' = SuccessesOf(verdicts') /\ Successes = SuccessesOf(verdicts)
    BY Zenon DEF Successes, SuccessesOf
  <2>3. Acknowledged' = Acknowledged
    BY <1>1, Zenon DEF Acknowledged
  <2> QED
    BY <2>1, <2>2, <2>3, Zenon DEF Counted, WireInv
<1>12. GadgetInv'
  <2>1. results' = <<>> /\ QueuesHoldData'
    BY <1>1, <1>3 DEF GadgetInv, QueuesHoldData
  <2>2. GadgetRest'
    BY <1>1 DEF GadgetRest
  <2> QED
    BY <1>9, <2>1, <2>2 DEF GadgetInv
<1> QED
  BY <1>1, <1>3, <1>10, <1>11, <1>12 DEF WireInv, Ended

-----------------------------------------------------------------------------
(***************************************************************************)
(* A packet of a payload is appended.                                      *)
(***************************************************************************)
LEMMA EchoData ==
    ASSUME WireAssumption, NEW d, NEW r, NEW c, NEW m, EchoAt(d, r, c, m), InSegment,
           Reassembles, NEW x, x = d[c + 1]
    PROVE  /\ x \in DataPackets /\ streamId = x.s /\ streamToIndex(x.s) \in 0..2
           /\ m # 0 /\ c \in Nat /\ pc = "decode" /\ r[c + 1] = r[c]
           /\ Reassembled(x.s, x.t, x.n, x.payload, x.src, BytesOf(x))
           /\ NextSrc(x) = x.src + PayloadLength(x.src, Len(x.payload) - x.src)
           /\ NextSrc(x) \in Nat /\ NextSrc(x) # 0
<1>1. /\ m # 0 /\ c \in Nat /\ c + 1 \in 1..Len(d) /\ x \in DataPackets
      /\ Reassembled(x.s, x.t, x.n, x.payload, x.src, BytesOf(x))
  BY EchoTakesAll
<1>2. Found(BytesOf(x)) /\ pc = "decode"
  BY EchoInSegment
<1>3. streamId = x.s
  BY <1>1, <1>2, DataRead
<1>4. streamToIndex(x.s) \in 0..2
  <2>1. streamToIndex(x.s) >= 0
    BY <1>1 DEF EchoAt, KnownStreams
  <2>2. streamToIndex(x.s) \in {-1, 0, 1, 2}
    BY DEF streamToIndex
  <2> QED
    BY <2>1, <2>2
<1>5. r[c + 1] = r[c]
  <2>1. PICK l : l = Len(d)
    OBVIOUS
  <2>2. \A j \in 1..l : d[j] \in DataPackets => r[j] = r[j - 1]
    BY <2>1 DEF EchoAt, Tallied
  <2>3. (c + 1) - 1 = c
    BY <1>1
  <2> QED
    BY <1>1, <2>1, <2>2, <2>3
<1>6. NextSrc(x) \in Nat /\ NextSrc(x) # 0
  <2>1. NextSrc(x) \in Nat /\ NextSrc(x) > x.src
    BY <1>1, NextPacked
  <2>2. x.src \in Nat
    BY <1>1 DEF DataPackets
  <2> QED
    BY <2>1, <2>2
<1>7. NextSrc(x) = x.src + PayloadLength(x.src, Len(x.payload) - x.src)
  BY DEF NextSrc
<1> QED
  BY <1>1, <1>2, <1>3, <1>4, <1>5, <1>6, <1>7, Zenon

\* The next packet finds what it continues.
LEMMA EchoMirrors ==
    ASSUME WireAssumption, WireTypes, NEW d, NEW r, NEW c, NEW m, EchoAt(d, r, c, m), InSegment,
           Reassembles, NEW buffer, SetBuffer(buffer),
           IF IsComplete THEN buffer = NULL ELSE buffer = Appended
    PROVE  MirroredAt(d, c + 1)'
<1> SUFFICES ASSUME (c + 1) + 1 <= Len(d), d[(c + 1) + 1] \in DataPackets,
                    d[(c + 1) + 1].src # 0
             PROVE  LET y == d[(c + 1) + 1] IN Mirrored(y.s, y.t, y.n, y.payload, y.src)'
  BY DEF MirroredAt
<1>1. PICK x, y : x = d[c + 1] /\ y = d[c + 2]
  OBVIOUS
<1>2. /\ x \in DataPackets /\ streamId = x.s /\ streamToIndex(x.s) \in 0..2 /\ c \in Nat
      /\ Reassembled(x.s, x.t, x.n, x.payload, x.src, BytesOf(x))
      /\ NextSrc(x) = x.src + PayloadLength(x.src, Len(x.payload) - x.src)
      /\ NextSrc(x) \in Nat /\ NextSrc(x) # 0
  BY <1>1, EchoData
<1>3. (c + 1) + 1 = c + 2
  BY <1>2
<1>4. y \in DataPackets /\ Continues(x, y)
  BY <1>1, <1>3, EchoNext
<1>5. /\ y.s = x.s /\ y.t = x.t /\ y.n = NextSeqNum(x.n) /\ y.payload = x.payload
      /\ y.src = NextSrc(x)
  BY <1>4 DEF Continues, DataOf
<1>6. y.src < Len(y.payload)
  BY <1>4, DataFacts DEF Packed
<1>7. ~IsComplete
  <2>1. IsComplete <=> NextSrc(x) = Len(x.payload)
    BY <1>2, Zenon DEF Reassembled
  <2>2. NextSrc(x) < Len(x.payload)
    BY <1>5, <1>6, Zenon
  <2>3. NextSrc(x) # Len(x.payload)
    BY <1>2, <2>2
  <2> QED
    BY <2>1, <2>3
<1>8. buffer = [transactionId |-> y.t, bufferSize |-> Len(y.payload), seqNum |-> y.n,
                data |-> SubSeq(y.payload, 1, y.src)]
  <2>1. buffer = Appended
    BY <1>7
  <2>2. Appended = [transactionId |-> x.t, bufferSize |-> Len(x.payload),
                    seqNum |-> NextSeqNum(x.n), data |-> SubSeq(x.payload, 1, NextSrc(x))]
    BY <1>2, Zenon DEF Reassembled
  <2> QED
    BY <1>5, <2>1, <2>2, Zenon
<1>9. rxBuffers'[streamToIndex(y.s)] = buffer
  <2>1. PICK i : i = streamToIndex(x.s)
    OBVIOUS
  <2>2. i \in 0..2 /\ rxBuffers' = [rxBuffers EXCEPT ![i] = buffer] /\ DOMAIN rxBuffers = 0..2
    BY <1>2, <2>1 DEF SetBuffer, WireTypes
  <2>3. rxBuffers'[i] = buffer
    BY <2>2
  <2> QED
    BY <1>5, <2>1, <2>3, Zenon
<1>10. Mirrored(y.s, y.t, y.n, y.payload, y.src)'
  BY <1>1, <1>3, <1>8, <1>9 DEF Mirrored
<1> QED
  BY <1>1, <1>3, <1>10

LEMMA EchoGoesOn ==
    ASSUME WireAssumption, WireTypes, EchoInv, InSegment, Reassembles,
           NEW buffer, SetBuffer(buffer),
           IF IsComplete THEN buffer = NULL ELSE buffer = Appended,
           packet' = packet, offset' = offset + PayloadAt + currentPayloadLength,
           UNCHANGED <<queues, pc, verdicts, results>>
    PROVE  EchoInv'
<1>1. PICK d, r, c, m : EchoAt(d, r, c, m)
  BY DEF EchoInv
<1>2. PICK x : x = d[c + 1]
  OBVIOUS
<1>3. /\ m # 0 /\ c \in Nat /\ pc = "decode" /\ r[c + 1] = r[c]
      /\ Reassembled(x.s, x.t, x.n, x.payload, x.src, BytesOf(x))
  BY <1>1, <1>2, EchoData
<1>4. MirroredAt(d, c + 1)'
  BY <1>1, EchoMirrors
<1>5. offset' = offset + Len(BytesOf(d[c + 1]))
  BY <1>2, <1>3, Zenon DEF Reassembled
<1>6. results' = PrintedUpTo(r[c + 1])
  BY <1>1, <1>3 DEF EchoAt
<1>7. EchoAt(d, r, c + 1, m - 1)'
  BY <1>1, <1>3, <1>4, <1>5, <1>6, EchoAdvance
<1> QED
  BY <1>7 DEF EchoInv

LEMMA AppendedStep ==
    ASSUME WireAssumption, WireInv, DecodeAppended
    PROVE  WireInv'
<1>1. /\ InSegment /\ Has(2) /\ Reassembles /\ PayloadFits /\ ~IsComplete /\ SetBuffer(Appended)
      /\ pc = "decode" /\ packet' = packet
      /\ offset' = offset + PayloadAt + currentPayloadLength
      /\ UNCHANGED <<queues, pc, role, response, answers, received, verdicts, results>>
  BY DEF DecodeAppended, Reassembles, InSegment
<1>2. WireTypes'
  <2>1. WireTypes
    BY DEF WireInv
  <2>2. rxBuffers' = [i \in 0..2 |-> rxBuffers'[i]]
    BY <1>1, <2>1, BuffersSet DEF WireTypes
  <2> QED
    BY <1>1, <2>1, <2>2 DEF WireTypes
<1>3. Counted' /\ Ended'
  BY <1>1, CountKept DEF WireInv, Ended
<1>4. role = "gadget" => GadgetInv'
  <2> SUFFICES ASSUME role = "gadget"
               PROVE  GadgetInv'
    OBVIOUS
  <2>1. GadgetInv
    BY DEF WireInv
  <2>2. GadgetRest'
    BY <1>1, <2>1, GadgetGoesOn DEF GadgetInv
  <2>3. results' = <<>> /\ QueuesHoldData'
    BY <1>1, <2>1 DEF GadgetInv, QueuesHoldData
  <2>4. Responded'
    BY <1>1, <2>1, RespondedKept DEF GadgetInv
  <2> QED
    BY <2>2, <2>3, <2>4 DEF GadgetInv
<1>5. role = "echo" => EchoInv'
  BY <1>1, EchoGoesOn DEF WireInv
<1> QED
  BY <1>1, <1>2, <1>3, <1>4, <1>5 DEF WireInv

-----------------------------------------------------------------------------
(***************************************************************************)
(* A payload is complete.                                                  *)
(***************************************************************************)
LEMMA ReceivedAppended ==
    ASSUME WireTypes, NEW e, received' = [received EXCEPT ![role] = Append(@, e)]
    PROVE  /\ received' = [p \in {"gadget", "echo"} |-> received'[p]]
           /\ received'["gadget"] = IF role = "gadget" THEN Append(received["gadget"], e)
                                    ELSE received["gadget"]
           /\ \E S : received'["gadget"] \in Seq(S)
<1>1. PICK S : received["gadget"] \in Seq(S)
  BY DEF WireTypes
<1>2. received = [p \in {"gadget", "echo"} |-> received[p]] /\ role \in {"gadget", "echo"}
  BY DEF WireTypes
<1>3. received' = [p \in {"gadget", "echo"} |-> received'[p]]
  BY <1>2
<1>4. received'["gadget"] = IF role = "gadget" THEN Append(received["gadget"], e)
                            ELSE received["gadget"]
  BY <1>2
<1>5. Append(received["gadget"], e) \in Seq(S \cup {e})
  BY <1>1, AskedAppended
<1> QED
  BY <1>1, <1>3, <1>4, <1>5

\* The message, and what the gadget answers.
Message == [streamId |-> streamId, transactionId |-> transactionId, ack |-> ackBit,
            payload |-> Appended.data]

Answers ==
    /\ streamId # OTA_STREAM
    /\ LET s == streamToIndex(streamId) + 1
       IN  /\ response' = (response
                  \o createControlAckPacket(streamId, transactionId, ackBit, SUCCESS))
                  \o buildStreamPacket(streamId, answers[s], FALSE, Answer[s])
           /\ verdicts' = verdicts \o IfAsked(ackBit, SUCCESS)
           /\ answers' = [answers EXCEPT ![s] = NextTransactionId(@)]

LEMMA GadgetAnswers ==
    ASSUME WireAssumption, WireTypes, Responded, Answers, streamToIndex(streamId) >= 0,
           packet \in Seq(WireByte), offset \in Nat, Has(2)
    PROVE  /\ answers' \in [1..2 -> 0..15] /\ verdicts' \in Seq({SUCCESS, FAILURE})
           /\ Responded'
<1>1. /\ streamId \in Nat /\ streamId < 16
      /\ transactionId \in Nat /\ transactionId < 16 /\ ackBit \in BOOLEAN
  BY StreamFields
<1>2. PICK s, t, k, i : s = streamId /\ t = transactionId /\ k = ackBit
                        /\ i = streamToIndex(streamId) + 1
  OBVIOUS
<1>3. i \in 1..2
  <2>1. streamToIndex(streamId) \in {0, 1}
    BY DEF streamToIndex, Answers, OTA_STREAM, CONTROL_STREAM, ALEXA_STREAM
  <2> QED
    BY <1>2, <2>1
<1>4. PICK a, v : a = answers[i] /\ v = verdicts
  OBVIOUS
<1>5. a \in Nat /\ a < 16 /\ NextTransactionId(a) \in 0..15
  <2>1. a \in 0..15
    BY <1>3, <1>4 DEF WireTypes
  <2>2. NextTransactionId(a) = (a + 1) % 16
    BY DEF NextTransactionId, WireAssumption
  <2>3. (a + 1) % 16 \in 0..15
    BY <2>1
  <2> QED
    BY <2>1, <2>2, <2>3
<1>6. answers' \in [1..2 -> 0..15]
  <2>1. answers' = [answers EXCEPT ![i] = NextTransactionId(a)]
    BY <1>2, <1>4 DEF Answers
  <2> QED
    BY <1>3, <1>5, <2>1 DEF WireTypes
<1>7. IsPayload(Answer[i])
  <2>1. i \in {1, 2}
    BY <1>3
  <2> QED
    BY <2>1 DEF WireAssumption
<1>8. v \in Seq({SUCCESS, FAILURE}) /\ SUCCESS \in {SUCCESS, FAILURE}
  BY <1>4 DEF WireTypes
<1>9. PICK d : Answered(d, v) /\ response = OnTheWire(d)
  BY <1>4 DEF Responded
<1>10. AckedWith(d, v, s, t, k, SUCCESS)
  BY <1>1, <1>2, <1>8, <1>9, AckAppended
<1>11. PICK w : w = v \o IfAsked(k, SUCCESS)
  OBVIOUS
<1>12. w \in Seq({SUCCESS, FAILURE})
  BY <1>10, <1>11, Zenon DEF AckedWith
<1>13. PICK u : /\ Answered(u, w)
                /\ OnTheWire(u) = OnTheWire(d) \o createControlAckPacket(s, t, k, SUCCESS)
  BY <1>10, <1>11, Zenon DEF AckedWith
<1>14. streamToIndex(s) >= 0
  BY <1>2
<1>15. AnsweredWith(u, w, s, a, Answer[i])
  BY <1>1, <1>2, <1>5, <1>7, <1>12, <1>13, <1>14, AnswerAppended
<1>16. /\ verdicts' = w
       /\ response' = (response \o createControlAckPacket(s, t, k, SUCCESS))
                        \o buildStreamPacket(s, a, FALSE, Answer[i])
  BY <1>2, <1>4, <1>11, Zenon DEF Answers
<1>17. PICK z : /\ Answered(z, w)
                /\ OnTheWire(z) = OnTheWire(u) \o buildStreamPacket(s, a, FALSE, Answer[i])
  BY <1>15, Zenon DEF AnsweredWith
<1>18. response' = OnTheWire(z)
  BY <1>9, <1>13, <1>16, <1>17, Zenon
<1>19. Responded'
  BY <1>16, <1>17, <1>18, Zenon DEF Responded
<1> QED
  BY <1>6, <1>12, <1>16, <1>19, Zenon

LEMMA CountGoesOn ==
    ASSUME WireTypes, Counted, NEW e, NEW k \in BOOLEAN, e.ack = k,
           received'["gadget"] = Append(received["gadget"], e),
           verdicts' = IF e.streamId # OTA_STREAM THEN verdicts \o IfAsked(k, SUCCESS)
                       ELSE verdicts
    PROVE  Counted'
<1>1. PICK S : received["gadget"] \in Seq(S)
  BY DEF WireTypes
<1>2. PICK v, s : v = verdicts /\ s = received["gadget"]
  OBVIOUS
<1>3. v \in Seq({SUCCESS, FAILURE}) /\ SUCCESS \in {SUCCESS, FAILURE} /\ s \in Seq(S)
  BY <1>1, <1>2 DEF WireTypes
<1>4. /\ IsFiniteSet(SuccessesOf(v)) /\ Len(v) + 1 \notin SuccessesOf(v)
      /\ SuccessesOf(v \o IfAsked(k, SUCCESS)) =
           IF k /\ SUCCESS = SUCCESS THEN SuccessesOf(v) \cup {Len(v) + 1} ELSE SuccessesOf(v)
  BY <1>3, SuccessesAppended
<1>5. /\ IsFiniteSet(AskedOf(s)) /\ Len(s) + 1 \notin AskedOf(s)
      /\ AskedOf(Append(s, e)) =
           IF e.ack /\ e.streamId # OTA_STREAM THEN AskedOf(s) \cup {Len(s) + 1}
           ELSE AskedOf(s)
  BY <1>3, AskedAppended
<1>6. /\ Successes = SuccessesOf(v) /\ Acknowledged = AskedOf(s)
      /\ Successes' = SuccessesOf(verdicts') /\ Acknowledged' = AskedOf(received'["gadget"])
  BY <1>2, Zenon DEF Successes, Acknowledged, SuccessesOf, AskedOf
<1>7. Cardinality(SuccessesOf(v)) = Cardinality(AskedOf(s))
  BY <1>6, Zenon DEF Counted
<1>8. received'["gadget"] = Append(s, e)
  BY <1>2
<1>9. CASE k /\ e.streamId # OTA_STREAM
  <2>1. SuccessesOf(verdicts') = SuccessesOf(v) \cup {Len(v) + 1}
    BY <1>2, <1>4, <1>9, Zenon
  <2>2. AskedOf(received'["gadget"]) = AskedOf(s) \cup {Len(s) + 1}
    BY <1>5, <1>8, <1>9, Zenon
  <2>3. Cardinality(SuccessesOf(v) \cup {Len(v) + 1}) = Cardinality(AskedOf(s) \cup {Len(s) + 1})
    <3> HIDE DEF SuccessesOf, AskedOf
    <3> QED
      BY <1>4, <1>5, <1>7, BothCounted
  <2> QED
    BY <1>6, <2>1, <2>2, <2>3, Zenon DEF Counted
<1>10. CASE ~(k /\ e.streamId # OTA_STREAM)
  <2>1. SuccessesOf(verdicts') = SuccessesOf(v)
    BY <1>2, <1>4, <1>10, Zenon
  <2>2. AskedOf(received'["gadget"]) = AskedOf(s)
    BY <1>5, <1>8, <1>10, Zenon
  <2> QED
    BY <1>6, <1>7, <2>1, <2>2, Zenon DEF Counted
<1> QED
  BY <1>9, <1>10

LEMMA CompletesStep ==
    ASSUME WireAssumption, WireInv, DecodeCompletes
    PROVE  WireInv'
<1>1. /\ InSegment /\ Has(2) /\ Reassembles /\ PayloadFits /\ IsComplete /\ SetBuffer(NULL)
      /\ pc = "decode" /\ packet' = packet /\ streamToIndex(streamId) >= 0
      /\ offset' = offset + PayloadAt + currentPayloadLength
      /\ UNCHANGED <<queues, pc, role, results>>
      /\ received' = [received EXCEPT ![role] = Append(@, Message)]
  BY DEF DecodeCompletes, Reassembles, InSegment, Message
<1>2. /\ role = "gadget" /\ streamId # OTA_STREAM => Answers
      /\ ~(role = "gadget" /\ streamId # OTA_STREAM) => UNCHANGED <<response, verdicts, answers>>
  BY DEF DecodeCompletes, Answers
<1>3. WireTypes /\ Counted /\ role \in {"gadget", "echo"}
  BY DEF WireInv, WireTypes
<1>4. /\ received' = [p \in {"gadget", "echo"} |-> received'[p]]
      /\ received'["gadget"] = IF role = "gadget" THEN Append(received["gadget"], Message)
                               ELSE received["gadget"]
      /\ \E S : received'["gadget"] \in Seq(S)
  BY <1>1, <1>3, ReceivedAppended
<1>5. rxBuffers' = [i \in 0..2 |-> rxBuffers'[i]]
  BY <1>1, <1>3, BuffersSet DEF WireTypes
<1>6. ASSUME role = "gadget"
      PROVE  /\ GadgetInv /\ packet \in Seq(WireByte) /\ offset \in Nat
             /\ ackBit \in BOOLEAN
  <2>1. GadgetInv
    BY <1>6 DEF WireInv
  <2>2. packet \in Seq(WireByte) /\ offset \in Nat
    BY <1>1, <2>1, GadgetFinds DEF GadgetInv
  <2> QED
    BY <1>1, <2>1, <2>2, StreamFields
<1>7. /\ answers' \in [1..2 -> 0..15] /\ verdicts' \in Seq({SUCCESS, FAILURE})
      /\ role = "gadget" => Responded'
  <2>1. CASE role = "gadget" /\ streamId # OTA_STREAM
    <3>1. Responded
      BY <1>6, <2>1 DEF GadgetInv
    <3> QED
      BY <1>1, <1>2, <1>3, <1>6, <2>1, <3>1, GadgetAnswers
  <2>2. CASE ~(role = "gadget" /\ streamId # OTA_STREAM)
    <3>1. role = "gadget" => Responded
      BY <1>6 DEF GadgetInv
    <3> QED
      BY <1>2, <1>3, <2>2, <3>1, RespondedKept DEF WireTypes
  <2> QED
    BY <2>1, <2>2
<1>8. WireTypes'
  BY <1>1, <1>3, <1>4, <1>5, <1>7 DEF WireTypes
<1>9. Counted'
  <2>1. CASE role = "gadget"
    <3>1. Message.ack = ackBit /\ Message.streamId = streamId
      BY DEF Message
    <3>2. verdicts' = IF streamId # OTA_STREAM THEN verdicts \o IfAsked(ackBit, SUCCESS)
                      ELSE verdicts
      BY <1>2, <2>1, Zenon DEF Answers
    <3>3. PICK e, k : e = Message /\ k = ackBit
      OBVIOUS
    <3>4. /\ k \in BOOLEAN /\ e.ack = k /\ received'["gadget"] = Append(received["gadget"], e)
          /\ verdicts' = IF e.streamId # OTA_STREAM THEN verdicts \o IfAsked(k, SUCCESS)
                         ELSE verdicts
      BY <1>4, <1>6, <2>1, <3>1, <3>2, <3>3, Zenon
    <3> QED
      BY <1>3, <3>4, CountGoesOn
  <2>2. CASE role # "gadget"
    <3>1. verdicts' = verdicts /\ received'["gadget"] = received["gadget"]
      BY <1>2, <1>4, <2>2
    <3> QED
      BY <1>3, <3>1, Zenon DEF Counted, Successes, Acknowledged
  <2> QED
    BY <2>1, <2>2
<1>10. role = "gadget" => GadgetInv'
  <2> SUFFICES ASSUME role = "gadget"
               PROVE  GadgetInv'
    OBVIOUS
  <2>1. GadgetRest'
    BY <1>1, <1>6, GadgetGoesOn DEF GadgetInv
  <2>2. results' = <<>> /\ QueuesHoldData'
    BY <1>1, <1>6 DEF GadgetInv, QueuesHoldData
  <2> QED
    BY <1>7, <2>1, <2>2 DEF GadgetInv
<1>11. role = "echo" => EchoInv'
  <2> SUFFICES ASSUME role = "echo"
               PROVE  EchoInv'
    OBVIOUS
  <2>1. EchoInv /\ verdicts' = verdicts
    BY <1>1, <1>2 DEF WireInv
  <2> QED
    BY <1>1, <1>3, <2>1, EchoGoesOn
<1>12. Ended'
  BY <1>1 DEF Ended
<1> QED
  BY <1>1, <1>8, <1>9, <1>10, <1>11, <1>12 DEF WireInv

-----------------------------------------------------------------------------
(***************************************************************************)
(* The Echo device's turn, the beginning and the end.                      *)
(***************************************************************************)
LEMMA SwitchStep ==
    ASSUME WireAssumption, WireInv, SwitchToEcho
    PROVE  WireInv'
<1>1. /\ pc = "receive" /\ pc' = "receive" /\ role = "gadget" /\ role' = "echo"
      /\ queues' = <<response>>
      /\ UNCHANGED <<rxBuffers, answers, received, verdicts, results>>
  BY DEF SwitchToEcho, ListDone
<1>2. WireTypes' /\ Counted' /\ Ended'
  BY <1>1, TypesKept, CountKept DEF WireInv, Ended, WireTypes
<1>3. GadgetInv
  BY <1>1 DEF WireInv
<1>4. PICK d : Answered(d, verdicts) /\ response = OnTheWire(d)
  BY <1>3 DEF GadgetInv, Responded
<1>5. PICK r : Tallied(d, verdicts, r)
  BY <1>4 DEF Answered
<1>6. d \in Seq(WirePackets) /\ InOrder(d) /\ KnownStreams(d)
  BY <1>4 DEF Answered
<1>7. Behind(d, 0) = OnTheWire(d)
  <2>1. PICK n : n = Len(d)
    OBVIOUS
  <2>2. n \in Nat
    BY <1>6, <2>1
  <2>3. n - 0 = n /\ \A i \in 1..n : 0 + i = i
    BY <2>2
  <2> QED
    BY <2>1, <2>3 DEF Behind, OnTheWire
<1>8. PrintedUpTo(0) = <<>> /\ r[0] = 0
  BY <1>5 DEF PrintedUpTo, Tallied
<1>9. MirroredAt(d, 0)'
  <2>1. ~(0 + 1 <= Len(d) /\ d[0 + 1] \in DataPackets /\ d[0 + 1].src # 0)
    <3>1. PICK n : n = Len(d)
      OBVIOUS
    <3>2. n \in Nat
      BY <1>6, <3>1
    <3>3. 1 <= n => 1 \in 1..n
      BY <3>2
    <3> QED
      BY <1>6, <3>1, <3>3 DEF InOrder
  <2> QED
    BY <2>1 DEF MirroredAt
<1>10. EchoAt(d, r, 0, 0)'
  <2>1. DOMAIN queues' = {1} /\ queues'[1] = Behind(d, 0)
    BY <1>1, <1>4, <1>7
  <2>2. Tallied(d, verdicts, r)'
    BY <1>1, <1>5, Zenon
  <2>3. results' = PrintedUpTo(r[0])'
    BY <1>1, <1>3, <1>8 DEF PrintedUpTo, GadgetInv
  <2>4. 0 \in Nat /\ 0 \in 0..2 /\ 0 + 0 = 0 /\ 0 + 0 <= Len(d)
    BY <1>6
  <2> QED
    BY <1>1, <1>6, <1>9, <2>1, <2>2, <2>3, <2>4 DEF EchoAt
<1>11. EchoInv'
  BY <1>10 DEF EchoInv
<1> QED
  BY <1>1, <1>2, <1>11 DEF WireInv

LEMMA FinishStep ==
    ASSUME WireAssumption, WireInv, FinishRun
    PROVE  WireInv'
<1>1. /\ pc = "receive" /\ role = "echo" /\ role' = "echo" /\ pc' \in {"done", "aborted"}
      /\ \A q \in DOMAIN queues : queues[q] = <<>>
      /\ UNCHANGED <<rxBuffers, answers, received, verdicts, results>>
  BY DEF FinishRun, ListDone
<1>2. WireTypes' /\ Counted'
  BY <1>1, TypesKept, CountKept DEF WireInv, WireTypes
<1>3. PICK d, r, c, m : EchoAt(d, r, c, m)
  BY <1>1 DEF WireInv, EchoInv
<1>4. /\ d \in Seq(WirePackets) /\ Tallied(d, verdicts, r) /\ c \in Nat /\ m = 0
      /\ c + m <= Len(d) /\ queues[1] = Behind(d, c + m) /\ queues[1] = <<>>
      /\ results = PrintedUpTo(r[c])
  BY <1>1, <1>3 DEF EchoAt
<1>5. c + m = c
  BY <1>4
<1>6. c = Len(d)
  BY <1>4, <1>5, BehindSteps
<1>7. results = PrintedUpTo(Len(verdicts))
  BY <1>4, <1>6 DEF Tallied
<1>8. Ended'
  BY <1>1, <1>7 DEF Ended, PrintedUpTo
<1> QED
  BY <1>1, <1>2, <1>8 DEF WireInv

LEMMA WireStarts ==
    ASSUME WireAssumption, WireInit
    PROVE  WireInv
<1>1. WireTypes
  <2>1. received = [p \in {"gadget", "echo"} |-> <<>>] /\ <<>> \in Seq({})
    BY DEF WireInit
  <2>2. received["gadget"] = <<>>
    BY <2>1
  <2>3. /\ received = [p \in {"gadget", "echo"} |-> received[p]]
        /\ \E S : received["gadget"] \in Seq(S)
    BY <2>1, <2>2
  <2>4. rxBuffers = [i \in 0..2 |-> rxBuffers[i]]
    BY DEF WireInit
  <2>5. answers \in [1..2 -> 0..15] /\ verdicts \in Seq({SUCCESS, FAILURE})
    BY DEF WireInit
  <2> QED
    BY <2>3, <2>4, <2>5 DEF WireInit, WireTypes
<1>2. Counted
  <2>1. verdicts = <<>> /\ received["gadget"] = <<>>
    BY DEF WireInit
  <2>2. Successes = {} /\ Acknowledged = {}
    BY <2>1 DEF Successes, Acknowledged
  <2> QED
    BY <2>2 DEF Counted
<1>3. GadgetInv
  <2>1. QueuesHoldData
    BY SentPackets DEF WireInit, QueuesHoldData
  <2>2. Responded
    <3>1. PICK d : d = <<>>
      OBVIOUS
    <3>2. d \in Seq(WirePackets) /\ Len(d) = 0 /\ \A j : j \notin 1..Len(d)
      BY <3>1
    <3>3. InOrder(d) /\ KnownStreams(d)
      BY <3>2 DEF InOrder, KnownStreams
    <3>4. verdicts = <<>> /\ response = <<>>
      BY DEF WireInit
    <3>5. Len(verdicts) = 0
      BY <3>4
    <3>6. PICK r : r = [j \in 0..0 |-> 0]
      OBVIOUS
    <3>7. r \in [0..0 -> 0..0] /\ r[0] = 0
      BY <3>6
    <3>8. Tallied(d, verdicts, r)
      BY <3>2, <3>5, <3>7 DEF Tallied
    <3>9. OnTheWire(d) = <<>>
      BY <3>2 DEF OnTheWire
    <3>10. Answered(d, verdicts)
      BY <3>2, <3>3, <3>8 DEF Answered
    <3> QED
      BY <3>4, <3>9, <3>10 DEF Responded
  <2>3. results = <<>> /\ GadgetRest
    BY DEF WireInit, GadgetRest
  <2> QED
    BY <2>1, <2>2, <2>3 DEF GadgetInv
<1>4. Ended /\ role = "gadget"
  BY DEF WireInit, Ended
<1> QED
  BY <1>1, <1>2, <1>3, <1>4 DEF WireInv

LEMMA WireStutters ==
    ASSUME WireInv, UNCHANGED wireVars
    PROVE  WireInv'
<1>1. UNCHANGED <<queues, packet, offset, pc, role, rxBuffers, response, answers, received,
                  verdicts, results>>
  BY DEF wireVars
<1>2. WireTypes' /\ Counted' /\ Ended'
  <2>1. WireTypes /\ Counted /\ Ended
    BY DEF WireInv
  <2>2. WireTypes'
    BY <1>1, <2>1 DEF WireTypes
  <2>3. Counted'
    BY <1>1, <2>1, CountKept
  <2>4. Ended'
    BY <1>1, <2>1 DEF Ended, PrintedUpTo
  <2> QED
    BY <2>2, <2>3, <2>4
<1>3. role = "gadget" => GadgetInv'
  <2> SUFFICES ASSUME role = "gadget"
               PROVE  GadgetInv'
    OBVIOUS
  <2>1. GadgetInv
    BY DEF WireInv
  <2>2. GadgetRest'
    <3>1. \A e : CutOf(e) => CutOf(e)'
      BY <1>1 DEF CutOf
    <3>2. \A g, c, m : WholeRest(g, c, m) => WholeRest(g, c, m)'
      BY <1>1 DEF WholeRest, Rest, IsAt
    <3> QED
      BY <1>1, <2>1, <3>1, <3>2, Zenon DEF GadgetInv, GadgetRest
  <2>3. results' = <<>> /\ QueuesHoldData'
    BY <1>1, <2>1 DEF GadgetInv, QueuesHoldData
  <2>4. Responded'
    BY <1>1, <2>1, RespondedKept DEF GadgetInv
  <2> QED
    BY <2>2, <2>3, <2>4 DEF GadgetInv
<1>4. role = "echo" /\ pc \in {"receive", "decode"} => EchoInv'
  <2> SUFFICES ASSUME role = "echo", pc \in {"receive", "decode"}
               PROVE  EchoInv'
    OBVIOUS
  <2>1. PICK d, r, c, m : EchoAt(d, r, c, m)
    BY DEF WireInv, EchoInv
  <2>2. Rest(d, c, m) => Rest(d, c, m)'
    BY <1>1 DEF Rest, IsAt
  <2>3. MirroredAt(d, c)'
    BY <1>1, <2>1 DEF EchoAt, MirroredAt, Mirrored
  <2>4. Tallied(d, verdicts, r)'
    BY <1>1, <2>1, Zenon DEF EchoAt
  <2>5. EchoAt(d, r, c, m)'
    BY <1>1, <2>1, <2>2, <2>3, <2>4 DEF EchoAt, PrintedUpTo
  <2> QED
    BY <2>5 DEF EchoInv
<1> QED
  BY <1>1, <1>2, <1>3, <1>4 DEF WireInv

\* However long the payloads are, however the gadget's packets were cut and joined
\* before it received them: a run that ends has printed the results that the gadget
\* gave, in their order, and as many of them are SUCCESS as messages were handed
\* over that had asked for one.
THEOREM WireResultsReadBack == WireAssumption => (WireSpec => []ResultsReadBack)
<1> SUFFICES ASSUME WireAssumption
             PROVE  WireSpec => []ResultsReadBack
  OBVIOUS
<1>1. WireInit => WireInv
  BY WireStarts
<1>2. WireInv /\ [WireNext]_wireVars => WireInv'
  <2> SUFFICES ASSUME WireInv, [WireNext]_wireVars
               PROVE  WireInv'
    OBVIOUS
  <2>1. CASE \E q \in DOMAIN queues : TakePacket(q) \/ TakeCut(q)
    BY <2>1, TakeStep, CutStep
  <2>2. CASE \E q, r \in DOMAIN queues : TakeJoined(q, r)
    BY <2>2, JoinedStep
  <2>3. CASE EndPacket
    BY <2>3, EndStep
  <2>4. CASE DropSegment
    BY <2>4, DropStep
  <2>5. CASE DecodeControlAck
    BY <2>5, ControlAckStep
  <2>6. CASE AssertionFails \/ ReadPastEnd
    BY <2>6, DeadStep
  <2>7. CASE DecodeRefused
    BY <2>7, RefusedStep
  <2>8. CASE DecodeAppended
    BY <2>8, AppendedStep
  <2>9. CASE DecodeCompletes
    BY <2>9, CompletesStep
  <2>10. CASE SwitchToEcho
    BY <2>10, SwitchStep
  <2>11. CASE FinishRun
    BY <2>11, FinishStep
  <2>12. CASE UNCHANGED wireVars
    BY <2>12, WireStutters
  <2> QED
    BY <2>1, <2>2, <2>3, <2>4, <2>5, <2>6, <2>7, <2>8, <2>9, <2>10, <2>11, <2>12
    DEF WireNext
<1>3. WireInv => ResultsReadBack
  <2> SUFFICES ASSUME WireInv, pc = "done"
               PROVE  /\ results = [i \in DOMAIN verdicts |-> Printed(verdicts[i])]
                      /\ Cardinality(Successes) = Cardinality(Acknowledged)
    BY DEF ResultsReadBack
  <2>1. Counted /\ results = PrintedUpTo(Len(verdicts)) /\ verdicts \in Seq({SUCCESS, FAILURE})
    BY DEF WireInv, Ended, WireTypes
  <2>2. DOMAIN verdicts = 1..Len(verdicts)
    BY <2>1
  <2> QED
    BY <2>1, <2>2 DEF Counted, PrintedUpTo
<1> QED
  BY <1>1, <1>2, <1>3, PTL DEF WireSpec

-----------------------------------------------------------------------------
(***************************************************************************)
(* The checksum program (SppChecksum) has constants and variables of its   *)
(* own: it runs beside neither of the two receivers.                       *)
(***************************************************************************)
CONSTANTS Headers, Data, Changed, ChangedAt, XorWithEsp

VARIABLES sentH, sentD, cbuf, asSent, stage, cindex, cescape, cresp, clen

Checksum == INSTANCE SppChecksum WITH
    XorEsp <- XorWithEsp,
    header <- sentH, data <- sentD, buf <- cbuf, intact <- asSent,
    index <- cindex, escape <- cescape, resp <- cresp, payload_len <- clen

-----------------------------------------------------------------------------
(***************************************************************************)
(* The sum and the escaped bytes.                                          *)
(***************************************************************************)
Plus(a, b) == a + b
Adding == INSTANCE SharedLemmas WITH Op <- Plus

Join(a, b) == a \o b
Joining == INSTANCE SharedLemmas WITH Op <- Join

CByte == Checksum!Byte
CSpecial == Checksum!Special
Parts(w) == [i \in DOMAIN w |-> Checksum!EscapedByte(w[i])]

LEMMA SpecialAre ==
    /\ CByte = 0..255 /\ CSpecial = {240, 241, 242}
    /\ Checksum!SOP = 240 /\ Checksum!EOP = 241 /\ Checksum!ESP = 242
  BY DEF CByte, CSpecial, Checksum!Byte, Checksum!Special, Checksum!SOP, Checksum!EOP, Checksum!ESP

\* Escaping is undone by the same table, and what is escaped is not special.
LEMMA EscapingFacts ==
    ASSUME Checksum!InputAssumption
    PROVE  /\ \A b \in CByte : XorWithEsp[b] \in CByte /\ XorWithEsp[XorWithEsp[b]] = b
           /\ \A b \in CSpecial : XorWithEsp[b] \notin CSpecial
  BY DEF Checksum!InputAssumption, CByte, CSpecial

\* In two bytes.
Short(n) == n % 65536

LEMMA SumIsHalver ==
    ASSUME NEW w
    PROVE  Checksum!Sum(w) = Short(Adding!Halver(0, w)[Len(w)][1])
  BY DEF Short, Checksum!Sum, Checksum!Together, Adding!Halver, Adding!Halves, Plus

LEMMA EscapedIsHalver ==
    ASSUME NEW w
    PROVE  Checksum!Escaped(w) = Joining!Halver(<<>>, Parts(w))[Len(Parts(w))][1]
  BY DEF Checksum!Escaped, Checksum!Together, Joining!Halver, Joining!Halves, Join, Parts

LEMMA AddingJoins == Adding!Joins(Nat, 0)
  BY DEF Adding!Joins, Plus

LEMMA JoiningJoins ==
    ASSUME NEW S
    PROVE  Joining!Joins(Seq(S), <<>>)
  BY DEF Joining!Joins, Join

LEMMA BytesAreNumbers ==
    ASSUME NEW w \in Seq(CByte)
    PROVE  /\ w \in Seq(Nat) /\ Len(w) \in Nat
           /\ \A i \in 1..Len(w) : w[i] \in Nat /\ w[i] < 256
<1>1. \A b \in CByte : b \in Nat /\ b < 256
  BY SpecialAre
<1>2. Len(w) \in Nat /\ \A i \in 1..Len(w) : w[i] \in CByte
  OBVIOUS
<1>3. PICK n, f : n \in Nat /\ f = w /\ n = Len(w) /\ f \in [1..n -> Nat]
  <2>1. w = [i \in 1..Len(w) |-> w[i]]
    OBVIOUS
  <2> QED
    BY <1>1, <1>2, <2>1
<1>4. f \in Seq(Nat)
  BY <1>3
<1> QED
  BY <1>1, <1>2, <1>3, <1>4

LEMMA SumIsFold ==
    ASSUME NEW w \in Seq(CByte)
    PROVE  Checksum!Sum(w) = Short(Adding!Fold(0, w))
<1>1. w \in Seq(Nat)
  BY BytesAreNumbers
<1>2. Adding!Halver(0, w)[Len(w)][1] = Adding!Fold(0, w)
  BY <1>1, AddingJoins, Adding!HalvedIsFold
<1> QED
  BY <1>2, SumIsHalver, Zenon

LEMMA PartsAre ==
    ASSUME Checksum!InputAssumption, NEW w \in Seq(CByte)
    PROVE  /\ Parts(w) \in Seq(Seq(CByte)) /\ Len(Parts(w)) = Len(w)
           /\ \A i \in 1..Len(w) : Parts(w)[i] = Checksum!EscapedByte(w[i])
<1>1. \A b \in CByte : Checksum!EscapedByte(b) \in Seq(CByte)
  <2> SUFFICES ASSUME NEW b \in CByte
               PROVE  Checksum!EscapedByte(b) \in Seq(CByte)
    OBVIOUS
  <2>1. XorWithEsp[b] \in CByte
    BY EscapingFacts
  <2>3. Checksum!ESP \in CByte
    BY SpecialAre
  <2>2. <<Checksum!ESP, XorWithEsp[b]>> \in Seq(CByte) /\ <<b>> \in Seq(CByte)
    BY <2>1, <2>3
  <2> QED
    BY <2>2, Zenon DEF Checksum!EscapedByte
<1>2. DOMAIN w = 1..Len(w) /\ Len(w) \in Nat /\ \A i \in 1..Len(w) : w[i] \in CByte
  OBVIOUS
<1>3. PICK n \in Nat : n = Len(w)
  BY <1>2
<1>4. Parts(w) = [i \in 1..n |-> Checksum!EscapedByte(w[i])]
  BY <1>2, <1>3, Zenon DEF Parts
<1>5. Parts(w) \in [1..n -> Seq(CByte)]
  BY <1>1, <1>2, <1>3, <1>4
<1>6. \A i \in 1..n : Parts(w)[i] = Checksum!EscapedByte(w[i])
  BY <1>4
<1>7. Parts(w) \in Seq(Seq(CByte)) /\ Len(Parts(w)) = n
  <2>1. PICK S : S = Seq(CByte)
    OBVIOUS
  <2>2. Parts(w) \in [1..n -> S]
    BY <1>5, <2>1, Zenon
  <2>3. PICK f : f = Parts(w)
    OBVIOUS
  <2>4. f \in Seq(S) /\ Len(f) = n
    BY <2>2, <2>3
  <2> QED
    BY <2>1, <2>3, <2>4, Zenon
<1> QED
  BY <1>3, <1>6, <1>7, Zenon

LEMMA EscapedIsFold ==
    ASSUME Checksum!InputAssumption, NEW w \in Seq(CByte)
    PROVE  Checksum!Escaped(w) = Joining!Fold(<<>>, Parts(w))
<1>1. PICK V : V = Seq(CByte)
  OBVIOUS
<1>2. Parts(w) \in Seq(V) /\ Joining!Joins(V, <<>>)
  BY <1>1, PartsAre, JoiningJoins
<1>3. Joining!Halver(<<>>, Parts(w))[Len(Parts(w))][1] = Joining!Fold(<<>>, Parts(w))
  BY <1>2, Joining!HalvedIsFold
<1> QED
  BY <1>3, EscapedIsHalver, Zenon

LEMMA OneMoreAdded ==
    ASSUME NEW X, NEW seq \in Seq(X), NEW x \in X
    PROVE  Adding!Fold(0, Append(seq, x)) = Adding!Fold(0, seq) + x
  BY Adding!FoldOneMore DEF Plus

LEMMA OneMoreJoined ==
    ASSUME NEW X, NEW seq \in Seq(X), NEW x \in X
    PROVE  Joining!Fold(<<>>, Append(seq, x)) = Joining!Fold(<<>>, seq) \o x
  BY Joining!FoldOneMore DEF Join

\* Bytes of which one is another have another sum, also in 16 bits.
LEMMA SumDiffers ==
    ASSUME NEW s \in Seq(CByte), NEW t \in Seq(CByte), Len(s) = Len(t),
           NEW j \in 1..Len(s), s[j] # t[j],
           \A i \in 1..Len(s) : i # j => s[i] = t[i]
    PROVE  Checksum!Sum(s) # Checksum!Sum(t)
<1> DEFINE F(w, k) == Adding!Fold(0, SubSeq(w, 1, k))
           n == Len(s)
<1>1. s \in Seq(Nat) /\ t \in Seq(Nat) /\ n \in Nat /\ Len(t) = n
  BY BytesAreNumbers
<1>2. ASSUME NEW w \in Seq(Nat), Len(w) = n
      PROVE  F(w, 0) = 0 /\ (\A k \in 0..n - 1 : F(w, k + 1) = F(w, k) + w[k + 1])
             /\ F(w, n) = Adding!Fold(0, w)
  <2>1. ASSUME NEW k \in 0..n - 1
        PROVE  Adding!Fold(0, SubSeq(w, 1, k + 1)) = Plus(Adding!Fold(0, SubSeq(w, 1, k)), w[k + 1])
    <3>1. /\ SubSeq(w, 1, k + 1) = Append(SubSeq(w, 1, k), w[k + 1])
          /\ SubSeq(w, 1, k) \in Seq(Nat) /\ w[k + 1] \in Nat
      BY <1>2
    <3> QED
      BY <3>1, OneMoreAdded, Zenon DEF Plus
  <2>2. Adding!Fold(0, SubSeq(w, 1, 0)) = 0 /\ Adding!Fold(0, SubSeq(w, 1, n)) = Adding!Fold(0, w)
    BY <1>2, Adding!FoldPrefix
  <2> QED
    BY <2>1, <2>2 DEF Plus
<1>3. ASSUME NEW w \in Seq(Nat), NEW k \in 0..n, Len(w) = n
      PROVE  F(w, k) \in Nat
  <2>1. SubSeq(w, 1, k) \in Seq(Nat)
    BY <1>3
  <2> QED
    BY <2>1, AddingJoins, Adding!FoldFrom DEF Adding!Joins
<1> HIDE DEF F
<1> DEFINE d == t[j] - s[j]
           S == {k \in Nat : k <= n => F(t, k) = F(s, k) + (IF k >= j THEN d ELSE 0)}
<1>4. /\ j \in Nat /\ j >= 1 /\ d \in Int
      /\ \A k \in 0..n - 1 : s[k + 1] \in Nat /\ t[k + 1] \in Nat
  BY <1>1
<1>5. 0 \in S
  BY <1>1, <1>2, <1>4
<1>6. ASSUME NEW k \in Nat, k \in S
      PROVE  k + 1 \in S
  <2> SUFFICES ASSUME k + 1 <= n
               PROVE  F(t, k + 1) = F(s, k + 1) + (IF k + 1 >= j THEN d ELSE 0)
    OBVIOUS
  <2>1. k \in 0..n - 1 /\ k \in 0..n
    BY <1>1
  <2>2. PICK a \in Nat, b \in Nat, x \in Nat, y \in Nat :
           a = F(t, k) /\ b = F(s, k) /\ x = t[k + 1] /\ y = s[k + 1]
    BY <1>1, <1>3, <1>4, <2>1
  <2>3. F(t, k + 1) = a + x /\ F(s, k + 1) = b + y
    BY <1>1, <1>2, <2>1, <2>2, Zenon
  <2>4. a = b + (IF k >= j THEN d ELSE 0)
    BY <1>6, <2>1, <2>2
  <2>5. IF k + 1 = j THEN x - y = d ELSE x = y
    BY <1>1, <2>1, <2>2, SMTT(60)
  <2> HIDE DEF d
  <2>6. a + x = (b + y) + (IF k + 1 >= j THEN d ELSE 0)
    BY <1>4, <2>2, <2>4, <2>5
  <2> QED
    BY <2>3, <2>6
<1> HIDE DEF S
<1>7. n \in S
  BY <1>1, <1>5, <1>6, SetInduction
<1>8. PICK a \in Nat, b \in Nat : a = F(t, n) /\ b = F(s, n)
  BY <1>1, <1>3
<1>9. a = b + d
  BY <1>1, <1>4, <1>7, <1>8 DEF S
<1>10. d # 0 /\ d > -256 /\ d < 256
  <2>1. s[j] \in Nat /\ s[j] < 256 /\ t[j] \in Nat /\ t[j] < 256
    BY <1>1, BytesAreNumbers
  <2> QED
    BY <2>1
<1> HIDE DEF d
<1>11. Short(b) # Short(a)
  <2>1. PICK m \in Nat : m > 255 /\ \A k : Short(k) = k % m
    BY DEF Short
  <2>2. CASE d > 0
    <3>1. d \in Nat /\ 0 < d /\ d < m
      BY <1>4, <1>10, <2>1, <2>2
    <3>2. b % m # (b + d) % m
      BY <3>1, ModDiffer
    <3> QED
      BY <1>9, <2>1, <3>2, Zenon
  <2>3. CASE d < 0
    <3>1. PICK e \in Nat : e = -d /\ 0 < e /\ e < m /\ b = a + e
      BY <1>4, <1>8, <1>9, <1>10, <2>1, <2>3
    <3>2. a % m # (a + e) % m
      BY <3>1, ModDiffer
    <3> QED
      BY <2>1, <3>1, <3>2, Zenon
  <2> QED
    BY <1>4, <1>10, <2>2, <2>3
<1>12. a = Adding!Fold(0, t) /\ b = Adding!Fold(0, s)
  BY <1>1, <1>2, <1>8
<1> QED
  BY <1>11, <1>12, SumIsFold

LEMMA SumRange ==
    ASSUME NEW w \in Seq(CByte)
    PROVE  Checksum!Sum(w) \in Nat /\ Checksum!Sum(w) < 65536
<1>1. w \in Seq(Nat)
  BY BytesAreNumbers
<1>2. PICK a \in Nat : a = Adding!Fold(0, w)
  BY <1>1, AddingJoins, Adding!FoldFrom DEF Adding!Joins
<1>3. Short(a) \in Nat /\ Short(a) < 65536
  BY DEF Short
<1> QED
  BY <1>2, <1>3, SumIsFold

-----------------------------------------------------------------------------
(***************************************************************************)
(* Where the bytes of w are in e: the k-th from at[k] on, as it is if it   *)
(* is not ESP, else as ESP and what it is escaped to.                      *)
(***************************************************************************)
Part(e, at, w, k) ==
    \/ /\ at[k + 1] = at[k] + 1
       /\ e[at[k]] # Checksum!ESP /\ w[k] = e[at[k]]
    \/ /\ at[k + 1] = at[k] + 2 /\ e[at[k]] = Checksum!ESP
       /\ e[at[k] + 1] # Checksum!ESP /\ w[k] = XorWithEsp[e[at[k] + 1]]

\* Position i is the last of a byte, or its ESP.
Covered(e, at, n, i) ==
    \E k \in 1..n : i = at[k + 1] - 1 \/ (i = at[k] /\ e[i] = Checksum!ESP)

Laid(e, at, w, n) ==
    /\ at \in [1..n + 1 -> Nat]
    /\ \A j, k \in 1..n + 1 : j < k => at[j] < at[k]
    /\ \A k \in 1..n : Part(e, at, w, k)
    /\ \A i \in Nat : at[1] <= i /\ i < at[n + 1] => Covered(e, at, n, i)

\* Nothing is escaped but for need.
Plainly(at, w, n) == \A k \in 1..n : w[k] \notin CSpecial => at[k + 1] = at[k] + 1

\* The first n bytes, escaped.
Encoded(e, at, w, n) ==
    /\ e \in Seq(CByte) /\ Laid(e, at, w, n) /\ Plainly(at, w, n)
    /\ at[1] = 1 /\ at[n + 1] = Len(e) + 1

LEMMA EncodedOneMore ==
    ASSUME Checksum!InputAssumption, NEW w \in Seq(CByte), NEW n \in Nat, n < Len(w),
           NEW e, NEW at, Encoded(e, at, w, n)
    PROVE  \E at2 : Encoded(e \o Checksum!EscapedByte(w[n + 1]), at2, w, n + 1)
<1> DEFINE b == w[n + 1]
           p == Checksum!EscapedByte(b)
           at2 == [k \in 1..n + 2 |-> IF k <= n + 1 THEN at[k] ELSE Len(e) + 1 + Len(p)]
           e2 == e \o p
<1>1. b \in CByte
  OBVIOUS
<1>2. /\ p \in Seq(CByte)
      /\ \/ b \notin CSpecial /\ Len(p) = 1 /\ p[1] = b
         \/ /\ b \in CSpecial /\ Len(p) = 2 /\ p[1] = Checksum!ESP
            /\ p[2] \notin CSpecial /\ XorWithEsp[p[2]] = b
      /\ Checksum!ESP \in CSpecial
  <2> HIDE DEF b
  <2>0. Checksum!ESP \in CSpecial
    BY SpecialAre
  <2>1. XorWithEsp[b] \in CByte /\ Checksum!ESP \in CByte
    <3>1. Checksum!ESP \in CByte
      BY SpecialAre
    <3> QED
      BY <1>1, <3>1, EscapingFacts
  <2>2. XorWithEsp[XorWithEsp[b]] = b /\ (b \in CSpecial => XorWithEsp[b] \notin CSpecial)
    BY <1>1, EscapingFacts
  <2>3. \A x, y \in CByte : <<x>> \in Seq(CByte) /\ Len(<<x>>) = 1 /\ <<x>>[1] = x
           /\ <<x, y>> \in Seq(CByte) /\ Len(<<x, y>>) = 2 /\ <<x, y>>[1] = x /\ <<x, y>>[2] = y
    OBVIOUS
  <2>4. p = IF b \in CSpecial THEN <<Checksum!ESP, XorWithEsp[b]>> ELSE <<b>>
    BY DEF Checksum!EscapedByte, CSpecial
  <2>5. CASE b \in CSpecial
    <3>1. p = <<Checksum!ESP, XorWithEsp[b]>>
      BY <2>4, <2>5
    <3> QED
      BY <1>1, <2>0, <2>1, <2>2, <2>3, <2>5, <3>1
  <2>6. CASE b \notin CSpecial
    <3>1. p = <<b>>
      BY <2>4, <2>6
    <3> QED
      BY <1>1, <2>0, <2>3, <2>6, <3>1
  <2> QED
    BY <2>5, <2>6
<1> HIDE DEF b, p
<1>3. e \in Seq(CByte) /\ Len(e) \in Nat /\ at \in [1..n + 1 -> Nat] /\ at[1] = 1 /\ at[n + 1] = Len(e) + 1
  BY DEF Encoded, Laid
<1>4. PICK l \in Nat : l = Len(p) /\ l > 0
  BY <1>2
<1>5. PICK len \in Nat : len = Len(e)
  BY <1>3
<1>6. /\ e2 \in Seq(CByte) /\ Len(e2) = len + l
      /\ \A i \in 1..len : e2[i] = e[i]
      /\ \A i \in 1..l : e2[len + i] = p[i]
  BY <1>2, <1>3, <1>4, <1>5, Joined
<1> HIDE DEF e2
<1>7. /\ at2 \in [1..n + 2 -> Nat]
      /\ \A k \in 1..n + 1 : at2[k] = at[k]
      /\ at2[n + 2] = len + 1 + l
  BY <1>3, <1>4, <1>5
<1> HIDE DEF at2
<1>8. ASSUME NEW j \in 1..n + 2, NEW k \in 1..n + 2, j < k
      PROVE  at2[j] < at2[k]
  <2>1. \A m \in 1..n + 1 : at[m] \in Nat /\ at[m] <= len + 1
    BY <1>3, <1>5 DEF Encoded, Laid
  <2>2. CASE k <= n + 1
    BY <1>7, <1>8, <2>2 DEF Encoded, Laid
  <2>3. CASE k = n + 2
    BY <1>4, <1>7, <1>8, <2>1, <2>3
  <2> QED
    BY <2>2, <2>3
<1>9. \A k \in 1..n + 1 : at2[k] >= 1 /\ at2[k] <= len + 1 /\ at2[k] \in Nat
  <2>1. \A k \in 1..n + 1 : at2[k] \in Nat /\ (k # 1 => at2[1] < at2[k]) /\ (k # n + 1 => at2[k] < at2[n + 1])
    BY <1>7, <1>8
  <2> QED
    BY <1>3, <1>5, <1>7, <2>1, SMTT(60)
<1>10. ASSUME NEW k \in 1..n + 1
       PROVE  Part(e2, at2, w, k) /\ (w[k] \notin CSpecial => at2[k + 1] = at2[k] + 1)
  <2>1. CASE k <= n
    <3>1. k \in 1..n /\ k + 1 \in 1..n + 1
      BY <2>1
    <3>2. Part(e, at, w, k) /\ (w[k] \notin CSpecial => at[k + 1] = at[k] + 1)
      BY <3>1 DEF Encoded, Laid, Plainly
    <3>3. at2[k] = at[k] /\ at2[k + 1] = at[k + 1] /\ at2[k] < at2[k + 1]
      BY <1>7, <1>8, <3>1
    <3>4. at2[k] \in 1..len /\ (at2[k + 1] = at2[k] + 2 => at2[k] + 1 \in 1..len)
      BY <1>9, <3>1, <3>3
    <3> QED
      BY <1>6, <3>2, <3>3, <3>4 DEF Part
  <2>2. CASE k = n + 1
    <3>1. at2[k] = len + 1 /\ at2[k + 1] = len + 1 + l /\ w[k] = b
      BY <1>3, <1>5, <1>7, <2>2 DEF b
    <3>2. e2[len + 1] = p[1] /\ (l = 2 => e2[len + 2] = p[2])
      BY <1>4, <1>6, SMTT(60)
    <3>3. (len + 1) + 1 = len + 2
      OBVIOUS
    <3> QED
      BY <1>2, <1>4, <3>1, <3>2, <3>3 DEF Part
  <2> QED
    BY <2>1, <2>2
<1>11. ASSUME NEW i \in Nat, at2[1] <= i, i < at2[n + 2]
       PROVE  Covered(e2, at2, n + 1, i)
  <2>1. CASE i <= len
    <3>1. at[1] <= i /\ i < at[n + 1] /\ i \in 1..len
      BY <1>3, <1>5, <1>7, <1>11, <2>1
    <3>2. PICK k \in 1..n : i = at[k + 1] - 1 \/ (i = at[k] /\ e[i] = Checksum!ESP)
      BY <3>1 DEF Encoded, Laid, Covered
    <3>3. at2[k] = at[k] /\ at2[k + 1] = at[k + 1]
      BY <1>7
    <3>4. k \in 1..n + 1 /\ e2[i] = e[i]
      BY <1>6, <3>1
    <3> QED
      BY <3>2, <3>3, <3>4 DEF Covered
  <2>2. CASE i > len
    <3>0. l = 1 \/ l = 2
      BY <1>2, <1>4
    <3>1. i = len + 1 \/ (i = len + 2 /\ l = 2)
      BY <3>0, <1>7, <1>11, <2>2
    <3>2. at2[n + 1] = len + 1 /\ at2[(n + 1) + 1] = len + 1 + l
      BY <1>3, <1>5, <1>7
    <3>3. e2[len + 1] = p[1] /\ (l = 1 \/ (l = 2 /\ p[1] = Checksum!ESP))
      BY <1>2, <1>4, <1>6
    <3>4. i = at2[(n + 1) + 1] - 1 \/ (i = at2[n + 1] /\ e2[i] = Checksum!ESP)
      BY <3>1, <3>2, <3>3
    <3> QED
      BY <3>4 DEF Covered
  <2> QED
    BY <2>1, <2>2, <1>5
<1>12. Encoded(e2, at2, w, n + 1)
  <2>1. (n + 1) + 1 = n + 2 /\ at2[1] = 1 /\ at2[n + 2] = Len(e2) + 1
    BY <1>3, <1>6, <1>7
  <2>2. Laid(e2, at2, w, n + 1)
    BY <1>7, <1>8, <1>10, <1>11, <2>1 DEF Laid
  <2> QED
    BY <1>6, <1>10, <2>1, <2>2 DEF Encoded, Plainly
<1> QED
  BY <1>12 DEF e2, p, b

LEMMA EscapedEncoded ==
    ASSUME Checksum!InputAssumption, NEW w \in Seq(CByte)
    PROVE  \E at : Encoded(Checksum!Escaped(w), at, w, Len(w))
<1> DEFINE E(n) == Joining!Fold(<<>>, SubSeq(Parts(w), 1, n))
           S == {n \in Nat : n <= Len(w) => \E at : Encoded(E(n), at, w, n)}
<1>1. /\ Parts(w) \in Seq(Seq(CByte)) /\ Len(Parts(w)) = Len(w) /\ Len(w) \in Nat
      /\ \A i \in 1..Len(w) : Parts(w)[i] = Checksum!EscapedByte(w[i])
  BY PartsAre
<1>2. E(0) = <<>> /\ E(Len(w)) = Checksum!Escaped(w)
  <2>1. SubSeq(Parts(w), 1, 0) = <<>> /\ SubSeq(Parts(w), 1, Len(w)) = Parts(w)
    BY <1>1
  <2> QED
    BY <2>1, Joining!FoldNone, EscapedIsFold
<1>3. ASSUME NEW n \in Nat, n < Len(w)
      PROVE  E(n + 1) = E(n) \o Checksum!EscapedByte(w[n + 1])
  <2>1. /\ SubSeq(Parts(w), 1, n + 1) = Append(SubSeq(Parts(w), 1, n), Parts(w)[n + 1])
        /\ SubSeq(Parts(w), 1, n) \in Seq(Seq(CByte)) /\ Parts(w)[n + 1] \in Seq(CByte)
    BY <1>1, <1>3
  <2>2. Parts(w)[n + 1] = Checksum!EscapedByte(w[n + 1])
    BY <1>1, <1>3
  <2> QED
    BY <2>1, <2>2, OneMoreJoined, Zenon
<1> HIDE DEF E
<1>4. 0 \in S
  <2>1. Encoded(<<>>, [k \in 1..1 |-> 1], w, 0)
    BY DEF Encoded, Laid, Plainly
  <2> QED
    BY <1>2, <2>1, Zenon
<1>5. ASSUME NEW n \in Nat, n \in S
      PROVE  n + 1 \in S
  <2> SUFFICES ASSUME n + 1 <= Len(w)
               PROVE  \E at : Encoded(E(n + 1), at, w, n + 1)
    OBVIOUS
  <2>1. n < Len(w) /\ n <= Len(w)
    BY <1>1
  <2>2. PICK at : Encoded(E(n), at, w, n)
    BY <1>5, <2>1
  <2>3. \E at2 : Encoded(E(n) \o Checksum!EscapedByte(w[n + 1]), at2, w, n + 1)
    BY <2>1, <2>2, EncodedOneMore
  <2> QED
    BY <1>3, <2>1, <2>3, Zenon
<1> HIDE DEF S
<1>6. Len(w) \in S
  BY <1>1, <1>4, <1>5, SetInduction
<1>7. \E at : Encoded(E(Len(w)), at, w, Len(w))
  BY <1>1, <1>6 DEF S
<1> QED
  BY <1>2, <1>7, Zenon

-----------------------------------------------------------------------------
(***************************************************************************)
(* What comes in: v are the values that are read, at where they are.       *)
(***************************************************************************)
Total(buf, v) == Checksum!Sum(<<buf[2], buf[3]>> \o v)
Told(buf) == (buf[Len(buf) - 2] * 256) + buf[Len(buf) - 1]

\* The three assertions are met.
Passes(buf, v) ==
    /\ buf[1] = Checksum!SOP /\ buf[Len(buf)] = Checksum!EOP
    /\ Total(buf, v) = Told(buf)

FrameIs(h, d, buf, whole, v, at) ==
    /\ buf \in Seq(CByte) /\ v \in Seq(CByte)
    /\ Laid(buf, at, v, Len(v)) /\ at[1] = 5 /\ at[Len(v) + 1] + 2 = Len(buf)
    /\ whole \in BOOLEAN
    /\ whole => h = SubSeq(buf, 2, 4) /\ d = v
    /\ whole <=> Passes(buf, v)

LEMMA InputFacts ==
    ASSUME Checksum!InputAssumption
    PROVE  /\ \A h \in Headers : /\ h[1] \in CByte /\ h[2] \in CByte /\ h[3] \in CByte
                                 /\ h = <<h[1], h[2], h[3]>>
           /\ Data \subseteq Seq(CByte)
           /\ Changed \subseteq CByte
<1>1. /\ Headers \subseteq CByte \X CByte \X CByte
      /\ Data \subseteq Seq(CByte) /\ Changed \subseteq CByte
  BY DEF Checksum!InputAssumption, CByte
<1>2. \A h \in CByte \X CByte \X CByte :
         h[1] \in CByte /\ h[2] \in CByte /\ h[3] \in CByte /\ h = <<h[1], h[2], h[3]>>
  OBVIOUS
<1> QED
  BY <1>1, <1>2

\* The bytes between SOP and EOP before they are escaped.
Inner(h, d) == (h \o d) \o Checksum!BigEndian(Checksum!SentChecksum(h, d))

LEMMA PairOf ==
    ASSUME NEW S, NEW a \in S, NEW b \in S
    PROVE  /\ <<a, b>> \in Seq(S) /\ Len(<<a, b>>) = 2
           /\ <<a, b>>[1] = a /\ <<a, b>>[2] = b
  OBVIOUS

LEMMA TripleOf ==
    ASSUME NEW S, NEW a \in S, NEW b \in S, NEW c \in S
    PROVE  /\ <<a, b, c>> \in Seq(S) /\ Len(<<a, b, c>>) = 3
           /\ <<a, b, c>>[1] = a /\ <<a, b, c>>[2] = b /\ <<a, b, c>>[3] = c
  OBVIOUS

LEMMA SentFacts ==
    ASSUME Checksum!InputAssumption, NEW h \in Headers, NEW d \in Data
    PROVE  LET c == Checksum!Sum(<<h[1], h[2]>> \o d)
           IN  /\ c = Checksum!SentChecksum(h, d) /\ c \in Nat
               /\ c \div 256 \in CByte /\ c % 256 \in CByte
               /\ ((c \div 256) * 256) + (c % 256) = c
<1>1. d \in Seq(CByte) /\ h[1] \in CByte /\ h[2] \in CByte
  BY InputFacts
<1>2. PICK c : c = Checksum!Sum(<<h[1], h[2]>> \o d)
  OBVIOUS
<1>3. c \in Nat /\ c < 65536
  <2>1. PICK s \in Seq(CByte) : s = <<h[1], h[2]>> \o d
    <3>1. <<h[1], h[2]>> \in Seq(CByte)
      BY <1>1, PairOf
    <3>2. <<h[1], h[2]>> \o d \in Seq(CByte)
      BY <1>1, <3>1, Joined
    <3> QED
      BY <3>2
  <2>2. Checksum!Sum(s) \in Nat /\ Checksum!Sum(s) < 65536
    BY SumRange
  <2> QED
    BY <1>2, <2>1, <2>2
<1>4. /\ c \div 256 \in 0..255 /\ c % 256 \in 0..255
      /\ 256 * (c \div 256) + (c % 256) = c
  BY <1>3, TwoByteNumber
<1>5. c \div 256 \in CByte /\ c % 256 \in CByte
  BY <1>4, SpecialAre
<1>6. PICK x : x = c \div 256
  OBVIOUS
<1>7. PICK y : y = c % 256
  OBVIOUS
<1>8. x \in 0..255 /\ y \in 0..255 /\ 256 * x + y = c
  BY <1>4, <1>6, <1>7, Zenon
<1>9. (x * 256) + y = c
  BY <1>8
<1>10. c = Checksum!SentChecksum(h, d)
  BY <1>2, Zenon DEF Checksum!SentChecksum
<1> QED
  BY <1>2, <1>3, <1>5, <1>6, <1>7, <1>9, <1>10

InnerOf(w, h, d, n, c) ==
    /\ w = Inner(h, d) /\ Len(w) = n + 5
    /\ w[1] = h[1] /\ w[2] = h[2] /\ w[3] = h[3]
    /\ \A k \in 1..n : w[k + 3] = d[k]
    /\ w[n + 4] = c \div 256 /\ w[n + 5] = c % 256

LEMMA InnerFacts ==
    ASSUME Checksum!InputAssumption, NEW h \in Headers, NEW d \in Data
    PROVE  \E w \in Seq(CByte) :
              InnerOf(w, h, d, Len(d), Checksum!Sum(<<h[1], h[2]>> \o d))
<1>1. d \in Seq(CByte) /\ h[1] \in CByte /\ h[2] \in CByte /\ h[3] \in CByte /\ h = <<h[1], h[2], h[3]>>
  BY InputFacts
<1>2. h \in Seq(CByte) /\ Len(h) = 3
  <2>1. PICK a \in CByte, b \in CByte, c \in CByte : a = h[1] /\ b = h[2] /\ c = h[3]
    BY <1>1
  <2>2. h = <<a, b, c>>
    BY <1>1, <2>1, Zenon
  <2>3. <<a, b, c>> \in Seq(CByte) /\ Len(<<a, b, c>>) = 3
    BY TripleOf
  <2> QED
    BY <2>2, <2>3, Zenon
<1>3. PICK c : c = Checksum!Sum(<<h[1], h[2]>> \o d)
  OBVIOUS
<1>4. c = Checksum!SentChecksum(h, d) /\ c \div 256 \in CByte /\ c % 256 \in CByte
  BY <1>3, SentFacts
<1>5. PICK t : t = Checksum!BigEndian(c)
  OBVIOUS
<1>6. t \in Seq(CByte) /\ Len(t) = 2 /\ t[1] = c \div 256 /\ t[2] = c % 256
  <2>1. t = <<c \div 256, c % 256>>
    BY <1>5, Zenon DEF Checksum!BigEndian
  <2> QED
    BY <1>4, <2>1, PairOf
<1>7. PICK n \in Nat : n = Len(d)
  BY <1>1
<1>8. PICK u : u = h \o d
  OBVIOUS
<1>9. PICK l : l = Len(h)
  OBVIOUS
<1>10. /\ u \in Seq(CByte) /\ Len(u) = l + n
       /\ \A i \in 1..l : u[i] = h[i]
       /\ \A i \in 1..n : u[l + i] = d[i]
  <2>1. IsJoin(CByte, h, d, u, l, n)
    BY <1>1, <1>2, <1>7, <1>8, <1>9, JoinedTo, Zenon
  <2> QED
    BY <2>1 DEF IsJoin
<1>11. PICK m : m = Len(u)
  OBVIOUS
<1>12. PICK k2 : k2 = Len(t)
  OBVIOUS
<1>13. PICK w : w = u \o t
  OBVIOUS
<1>14. /\ w \in Seq(CByte) /\ Len(w) = m + k2
       /\ \A i \in 1..m : w[i] = u[i]
       /\ \A i \in 1..k2 : w[m + i] = t[i]
  <2>1. IsJoin(CByte, u, t, w, m, k2)
    BY <1>6, <1>10, <1>11, <1>12, <1>13, JoinedTo, Zenon
  <2> QED
    BY <2>1 DEF IsJoin
<1>20. l = 3 /\ k2 = 2 /\ m = 3 + n
  <2>1. l = 3 /\ k2 = 2 /\ m = l + n
    BY <1>2, <1>6, <1>9, <1>10, <1>11, <1>12, Zenon
  <2> QED
    BY <2>1
<1>15. w = Inner(h, d)
  BY <1>4, <1>5, <1>8, <1>13, Zenon DEF Inner
<1>16. w[1] = h[1] /\ w[2] = h[2] /\ w[3] = h[3]
  BY <1>10, <1>14, <1>20
<1>17. ASSUME NEW k \in 1..n
       PROVE  w[k + 3] = d[k]
  <2>1. l + k \in 1..m /\ l + k = k + 3
    BY <1>20
  <2> QED
    BY <1>10, <1>14, <2>1
<1>18. w[n + 4] = t[1] /\ w[n + 5] = t[2] /\ Len(w) = n + 5
  <2>1. m + 1 = n + 4 /\ m + 2 = n + 5 /\ m + k2 = n + 5 /\ 1 \in 1..k2 /\ 2 \in 1..k2
    BY <1>20
  <2> QED
    BY <1>14, <2>1
<1>19. InnerOf(w, h, d, n, c)
  BY <1>6, <1>15, <1>16, <1>17, <1>18 DEF InnerOf
<1> QED
  BY <1>3, <1>7, <1>14, <1>19, Zenon

\* The bytes of e between SOP and EOP.
Framed(f, e, m) ==
    /\ f \in Seq(CByte) /\ Len(f) = m + 2
    /\ f[1] = Checksum!SOP /\ f[m + 2] = Checksum!EOP
    /\ \A i \in 1..m : f[i + 1] = e[i]

LEMMA FramedFacts ==
    ASSUME NEW e \in Seq(CByte), NEW m, m = Len(e)
    PROVE  Framed((<<Checksum!SOP>> \o e) \o <<Checksum!EOP>>, e, m)
<1>1. PICK a, b : a = <<Checksum!SOP>> /\ b = <<Checksum!EOP>>
  OBVIOUS
<1>2. /\ a \in Seq(CByte) /\ Len(a) = 1 /\ a[1] = Checksum!SOP
      /\ b \in Seq(CByte) /\ Len(b) = 1 /\ b[1] = Checksum!EOP
  <2>1. Checksum!SOP \in CByte /\ Checksum!EOP \in CByte
    BY SpecialAre
  <2> QED
    BY <1>1, <2>1
<1>3. PICK l, r : l = Len(a) /\ r = Len(b)
  OBVIOUS
<1>4. PICK u, f : u = a \o e /\ f = u \o b
  OBVIOUS
<1>5. IsJoin(CByte, a, e, u, l, m)
  BY <1>2, <1>3, <1>4, JoinedTo, Zenon
<1>6. PICK n : n = Len(u)
  OBVIOUS
<1>7. IsJoin(CByte, u, b, f, n, r)
  <2>1. u \in Seq(CByte)
    BY <1>5 DEF IsJoin
  <2> QED
    BY <1>2, <1>3, <1>4, <1>6, <2>1, JoinedTo, Zenon
<1>8. l = 1 /\ r = 1 /\ m \in Nat
  BY <1>2, <1>3
<1>9. n = m + 1
  BY <1>5, <1>6, <1>8 DEF IsJoin
<1>10. f \in Seq(CByte) /\ Len(f) = m + 2
  BY <1>7, <1>8, <1>9 DEF IsJoin
<1>11. f[1] = Checksum!SOP
  <2>1. 1 \in 1..n /\ 1 \in 1..l
    BY <1>8, <1>9
  <2> QED
    BY <1>2, <1>5, <1>7, <2>1 DEF IsJoin
<1>12. f[m + 2] = Checksum!EOP
  <2>1. 1 \in 1..r /\ n + 1 = m + 2
    BY <1>8, <1>9
  <2> QED
    BY <1>2, <1>7, <2>1 DEF IsJoin
<1>13. ASSUME NEW i \in 1..m
       PROVE  f[i + 1] = e[i]
  <2>1. l + i = i + 1 /\ i + 1 \in 1..n
    BY <1>8, <1>9
  <2> QED
    BY <1>5, <1>7, <2>1 DEF IsJoin
<1> QED
  BY <1>1, <1>4, <1>10, <1>11, <1>12, <1>13 DEF Framed

LEMMA Middle ==
    ASSUME NEW f \in Seq(CByte), NEW a, NEW b, NEW c, Len(f) >= 4,
           f[2] = a, f[3] = b, f[4] = c
    PROVE  SubSeq(f, 2, 4) = <<a, b, c>>
<1>1. PICK p, q, n : p = 2 /\ q = 4 /\ n = Len(f)
  OBVIOUS
<1>2. n \in Nat /\ p \in 1..n /\ q \in p..n /\ q - p + 1 = 3
  BY <1>1
<1>3. /\ SubSeq(f, p, q) \in Seq(CByte) /\ Len(SubSeq(f, p, q)) = q - p + 1
      /\ \A i \in 1..(q - p + 1) : SubSeq(f, p, q)[i] = f[p + i - 1]
  BY <1>1, <1>2, Piece
<1>4. PICK s : s = SubSeq(f, p, q)
  OBVIOUS
<1>5. s[1] = a /\ s[2] = b /\ s[3] = c
  <2>1. /\ 1 \in 1..(q - p + 1) /\ 2 \in 1..(q - p + 1) /\ 3 \in 1..(q - p + 1)
        /\ p + 1 - 1 = 2 /\ p + 2 - 1 = 3 /\ p + 3 - 1 = 4
    BY <1>1, <1>2
  <2> QED
    BY <1>3, <1>4, <2>1
<1>6. a \in CByte /\ b \in CByte /\ c \in CByte
  <2>1. 2 \in 1..n /\ 3 \in 1..n /\ 4 \in 1..n
    BY <1>1, <1>2
  <2> QED
    BY <1>1, <2>1
<1>7. PICK t : t = <<a, b, c>>
  OBVIOUS
<1>8. t \in Seq(CByte) /\ Len(t) = 3 /\ t[1] = a /\ t[2] = b /\ t[3] = c
  BY <1>6, <1>7, TripleOf
<1>9. s \in Seq(CByte) /\ Len(s) = 3
  BY <1>2, <1>3, <1>4
<1>10. \A i \in 1..3 : s[i] = t[i]
  BY <1>5, <1>8
<1>11. s = t
  BY <1>8, <1>9, <1>10, SeqEqual
<1> QED
  BY <1>1, <1>4, <1>7, <1>11

LEMMA FrameFacts ==
    ASSUME Checksum!InputAssumption, NEW h \in Headers, NEW d \in Data, Checksum!Plain(h, d)
    PROVE  \E at : FrameIs(h, d, Checksum!Frame(h, d), TRUE, d, at)
<1>1. PICK c : c = Checksum!Sum(<<h[1], h[2]>> \o d)
  OBVIOUS
<1>2. PICK n : n = Len(d)
  OBVIOUS
<1>3. PICK w \in Seq(CByte) : InnerOf(w, h, d, n, c)
  BY <1>1, <1>2, InnerFacts, Zenon
<1>4. d \in Seq(CByte) /\ n \in Nat
  BY <1>2, InputFacts
<1>5. PICK x, y : x = c \div 256 /\ y = c % 256
  OBVIOUS
<1>6. c = Checksum!SentChecksum(h, d) /\ x \in CByte /\ y \in CByte /\ x * 256 + y = c
  <2>1. /\ c = Checksum!SentChecksum(h, d) /\ c \div 256 \in CByte /\ c % 256 \in CByte
        /\ ((c \div 256) * 256) + (c % 256) = c
    BY <1>1, SentFacts
  <2> QED
    BY <1>5, <2>1, Zenon
<1>7. /\ h[1] \notin CSpecial /\ h[2] \notin CSpecial /\ h[3] \notin CSpecial
      /\ x \notin CSpecial /\ y \notin CSpecial
  <2>1. Checksum!ToSet(<<x, y>>) = {x, y}
    BY DEF Checksum!ToSet
  <2>2. Checksum!BigEndian(Checksum!SentChecksum(h, d)) = <<x, y>>
    BY <1>5, <1>6, ZenonT(60) DEF Checksum!BigEndian
  <2>3. \A b \in {h[1], h[2], h[3]} \cup {x, y} : b \notin CSpecial
    BY <2>1, <2>2, Zenon DEF Checksum!Plain, CSpecial
  <2> QED
    BY <2>3
<1>8. PICK e, len : e = Checksum!Escaped(w) /\ len = Len(w)
  OBVIOUS
<1>9. PICK at : Encoded(e, at, w, len)
  BY <1>8, EscapedEncoded
<1>10. PICK m : m = Len(e)
  OBVIOUS
<1>11. PICK f : f = Checksum!Frame(h, d)
  OBVIOUS
<1>12. Framed(f, e, m)
  <2>1. f = (<<Checksum!SOP>> \o e) \o <<Checksum!EOP>>
    BY <1>3, <1>8, <1>11, Zenon DEF Checksum!Frame, InnerOf, Inner
  <2>2. e \in Seq(CByte)
    BY <1>9 DEF Encoded
  <2> QED
    BY <1>10, <2>1, <2>2, FramedFacts, Zenon
<1>13. len = n + 5
  BY <1>3, <1>8 DEF InnerOf
<1>14. /\ m \in Nat /\ at \in [1..n + 6 -> Nat] /\ at[1] = 1 /\ at[n + 6] = m + 1
       /\ \A j, k \in 1..n + 6 : j < k => at[j] < at[k]
       /\ \A k \in 1..n + 5 : Part(e, at, w, k)
       /\ \A k \in 1..n + 5 : w[k] \notin CSpecial => at[k + 1] = at[k] + 1
  <2>1. len + 1 = n + 6
    BY <1>4, <1>13
  <2>2. m \in Nat
    BY <1>9, <1>10 DEF Encoded
  <2> QED
    BY <1>9, <1>10, <1>13, <2>1, <2>2, Zenon DEF Encoded, Laid, Plainly
<1>15. /\ w[1] = h[1] /\ w[2] = h[2] /\ w[3] = h[3]
       /\ \A k \in 1..n : w[k + 3] = d[k]
       /\ w[n + 4] = x /\ w[n + 5] = y
  BY <1>3, <1>5, Zenon DEF InnerOf
\* The header is at the start, the checksum at the end.
<1>16. /\ at[2] = 2 /\ at[3] = 3 /\ at[4] = 4
       /\ e[1] = h[1] /\ e[2] = h[2] /\ e[3] = h[3]
  <2>1. 1 \in 1..n + 5 /\ 2 \in 1..n + 5 /\ 3 \in 1..n + 5 /\ 1 + 1 = 2 /\ 2 + 1 = 3 /\ 3 + 1 = 4
    BY <1>4
  <2>2. at[2] = 2
    BY <1>7, <1>14, <1>15, <2>1
  <2>3. at[3] = 3
    BY <1>7, <1>14, <1>15, <2>1, <2>2
  <2>4. at[4] = 4
    BY <1>7, <1>14, <1>15, <2>1, <2>3
  <2>5. Part(e, at, w, 1) /\ Part(e, at, w, 2) /\ Part(e, at, w, 3)
    BY <1>14, <2>1
  <2> QED
    BY <1>14, <1>15, <2>1, <2>2, <2>3, <2>4, <2>5 DEF Part
<1>17. /\ at[n + 5] = m /\ at[n + 4] = m - 1
       /\ e[m - 1] = x /\ e[m] = y
  <2>1. n + 4 \in 1..n + 5 /\ n + 5 \in 1..n + 5 /\ (n + 4) + 1 = n + 5 /\ (n + 5) + 1 = n + 6
    BY <1>4
  <2>2. at[n + 4] \in Nat /\ at[n + 5] \in Nat
    BY <1>14, <1>4
  <2>3. at[n + 5] = m
    <3>1. at[n + 6] = at[n + 5] + 1
      BY <1>7, <1>14, <1>15, <2>1
    <3>2. at[n + 6] = m + 1 /\ m \in Nat
      BY <1>14
    <3> QED
      BY <2>2, <3>1, <3>2
  <2>4. at[n + 4] = m - 1
    BY <1>7, <1>14, <1>15, <2>1, <2>2, <2>3, SMTT(60)
  <2>5. Part(e, at, w, n + 4) /\ Part(e, at, w, n + 5)
    BY <1>14, <2>1
  <2> QED
    BY <1>14, <1>15, <2>1, <2>2, <2>3, <2>4, <2>5 DEF Part
<1> DEFINE at2 == [k \in 1..n + 1 |-> at[k + 3] + 1]
<1>18. /\ at2 \in [1..n + 1 -> Nat] /\ at2[1] = 5 /\ at2[n + 1] = m
       /\ \A k \in 1..n + 1 : at2[k] = at[k + 3] + 1
  <2>1. \A k \in 1..n + 1 : k + 3 \in 1..n + 6
    BY <1>4
  <2>2. at2 \in [1..n + 1 -> Nat] /\ \A k \in 1..n + 1 : at2[k] = at[k + 3] + 1
    BY <1>14, <2>1
  <2>3. 1 \in 1..n + 1 /\ n + 1 \in 1..n + 1 /\ 1 + 3 = 4 /\ (n + 1) + 3 = n + 4
    BY <1>4
  <2> HIDE DEF at2
  <2> QED
    BY <1>14, <1>16, <1>17, <2>2, <2>3
<1> HIDE DEF at2
<1>19. \A j, k \in 1..n + 1 : j < k => at2[j] < at2[k]
  <2> SUFFICES ASSUME NEW j \in 1..n + 1, NEW k \in 1..n + 1, j < k
               PROVE  at2[j] < at2[k]
    OBVIOUS
  <2>1. j + 3 \in 1..n + 6 /\ k + 3 \in 1..n + 6 /\ j + 3 < k + 3
    BY <1>4
  <2>2. at[j + 3] \in Nat /\ at[k + 3] \in Nat /\ at[j + 3] < at[k + 3]
    BY <1>14, <2>1
  <2> QED
    BY <1>18, <2>2
<1>20. \A k \in 1..n + 5 : at[k] \in Nat /\ at[k] >= 1 /\ at[k] <= m
  <2> SUFFICES ASSUME NEW k \in 1..n + 5
               PROVE  at[k] \in Nat /\ at[k] >= 1 /\ at[k] <= m
    OBVIOUS
  <2>1. k \in 1..n + 6 /\ 1 \in 1..n + 6 /\ n + 6 \in 1..n + 6 /\ k < n + 6
    BY <1>4
  <2>2. at[k] \in Nat /\ at[k] < m + 1 /\ (k # 1 => at[1] < at[k])
    BY <1>14, <2>1
  <2> QED
    BY <1>14, <2>2
<1>21. ASSUME NEW k \in 1..n
       PROVE  Part(f, at2, d, k)
  <2>1. k + 3 \in 1..n + 5 /\ (k + 3) + 1 \in 1..n + 5 /\ k \in 1..n + 1 /\ k + 1 \in 1..n + 1
        /\ (k + 1) + 3 = (k + 3) + 1
    BY <1>4
  <2>2. Part(e, at, w, k + 3) /\ w[k + 3] = d[k]
    BY <1>14, <1>15, <2>1
  <2>3. at2[k] = at[k + 3] + 1 /\ at2[k + 1] = at[(k + 3) + 1] + 1
    BY <1>18, <2>1
  <2>4. PICK p \in Nat, q \in Nat : p = at[k + 3] /\ q = at[(k + 3) + 1] /\ p >= 1 /\ q <= m /\ p <= m
    BY <1>20, <2>1
  <2>5. f[p + 1] = e[p] /\ (q = p + 2 => f[(p + 1) + 1] = e[p + 1])
    <3>1. p \in 1..m /\ (q = p + 2 => p + 1 \in 1..m)
      BY <1>14, <2>4, SMTT(60)
    <3> QED
      BY <1>12, <3>1 DEF Framed
  <2>6. \/ q = p + 1 /\ e[p] # Checksum!ESP /\ w[k + 3] = e[p]
        \/ /\ q = p + 2 /\ e[p] = Checksum!ESP
           /\ e[p + 1] # Checksum!ESP /\ w[k + 3] = XorWithEsp[e[p + 1]]
    BY <2>2, <2>4, Zenon DEF Part
  <2>7. at2[k] = p + 1 /\ at2[k + 1] = q + 1
    BY <2>3, <2>4
  <2> QED
    BY <2>2, <2>4, <2>5, <2>6, <2>7, SMTT(60) DEF Part
<1>22. ASSUME NEW i \in Nat, at2[1] <= i, i < at2[n + 1]
       PROVE  Covered(f, at2, n, i)
  <2>1. PICK g \in Nat : g = i - 1 /\ i = g + 1
    BY <1>18, <1>22
  <2>2. g >= 4 /\ g < m - 1 /\ g \in 1..m /\ f[i] = e[g]
    <3>1. g >= 4 /\ g < m - 1 /\ g \in 1..m
      BY <1>14, <1>18, <1>22, <2>1
    <3> QED
      BY <1>12, <2>1, <3>1 DEF Framed
  <2>3. Covered(e, at, n + 5, g)
    <3>1. at[1] <= g /\ g < at[len + 1] /\ len + 1 = n + 6
      BY <1>4, <1>13, <1>14, <2>2
    <3> QED
      BY <1>9, <1>13, <3>1 DEF Encoded, Laid
  <2>4. PICK k \in 1..n + 5 : g = at[k + 1] - 1 \/ (g = at[k] /\ e[g] = Checksum!ESP)
    BY <2>3 DEF Covered
  <2>5. k \in 4..n + 3
    <3>1. k >= 4
      <4>1. CASE k < 4
        <5>1. k = 1 \/ k = 2 \/ k = 3
          BY <2>4, <4>1
        <5> QED
          BY <1>14, <1>16, <2>2, <2>4, <5>1
      <4> QED
        BY <4>1
    <3>2. k <= n + 3
      <4>1. CASE k = n + 4 \/ k = n + 5
        <5>1. (n + 4) + 1 = n + 5 /\ (n + 5) + 1 = n + 6
          BY <1>4
        <5> QED
          BY <1>4, <1>14, <1>17, <2>2, <2>4, <4>1, <5>1
      <4> QED
        BY <1>4, <4>1
    <3> QED
      BY <3>1, <3>2
  <2>6. PICK l \in 1..n : k = l + 3
    <3>1. k - 3 \in 1..n /\ k = (k - 3) + 3
      BY <1>4, <2>5
    <3> QED
      BY <3>1
  <2>7. at2[l] = at[k] + 1 /\ at2[l + 1] = at[k + 1] + 1
    <3>1. l \in 1..n + 1 /\ l + 1 \in 1..n + 1 /\ (l + 1) + 3 = k + 1
      BY <1>4, <2>6
    <3> QED
      BY <1>18, <2>6, <3>1
  <2>8. at[k] \in Nat /\ at[k + 1] \in Nat
    BY <1>14, <2>5, <1>4
  <2>9. i = at2[l + 1] - 1 \/ (i = at2[l] /\ f[i] = Checksum!ESP)
    BY <2>1, <2>2, <2>4, <2>7, <2>8, SMTT(60)
  <2> QED
    BY <2>9 DEF Covered
<1>23. Laid(f, at2, d, Len(d)) /\ at2[1] = 5 /\ at2[Len(d) + 1] = m
  BY <1>2, <1>18, <1>19, <1>21, <1>22, Zenon DEF Laid
<1>24. f \in Seq(CByte) /\ Len(f) = m + 2 /\ f[1] = Checksum!SOP /\ f[Len(f)] = Checksum!EOP
  BY <1>12, Zenon DEF Framed
<1>25. f[2] = h[1] /\ f[3] = h[2] /\ f[4] = h[3] /\ m >= 5
  <2>1. at2[1] <= at2[n + 1]
    BY <1>4, <1>18, <1>19
  <2>2. m >= 5
    BY <1>18, <2>1
  <2>3. 1 \in 1..m /\ 2 \in 1..m /\ 3 \in 1..m /\ 1 + 1 = 2 /\ 2 + 1 = 3 /\ 3 + 1 = 4
    BY <1>14, <2>2
  <2> QED
    BY <1>12, <1>16, <2>2, <2>3 DEF Framed
<1>26. h = SubSeq(f, 2, 4)
  <2>1. Len(f) >= 4
    BY <1>14, <1>24, <1>25
  <2>2. h = <<h[1], h[2], h[3]>>
    BY InputFacts
  <2> QED
    BY <1>24, <1>25, <2>1, <2>2, Middle
<1>27. Total(f, d) = Told(f)
  <2>1. Total(f, d) = c
    BY <1>1, <1>25, Zenon DEF Total
  <2>2. Len(f) - 2 = (m - 1) + 1 /\ Len(f) - 1 = m + 1 /\ m - 1 \in 1..m /\ m \in 1..m
    BY <1>14, <1>24, <1>25
  <2>3. f[Len(f) - 2] = x /\ f[Len(f) - 1] = y
    BY <1>12, <1>17, <2>2 DEF Framed
  <2> QED
    BY <1>6, <2>1, <2>3, Zenon DEF Told
<1>28. FrameIs(h, d, f, TRUE, d, at2)
  <2>1. m + 2 = Len(f) /\ TRUE \in BOOLEAN
    BY <1>24
  <2>2. Passes(f, d)
    BY <1>24, <1>27, Zenon DEF Passes
  <2> QED
    BY <1>4, <1>23, <1>24, <1>26, <2>1, <2>2, Zenon DEF FrameIs
<1> QED
  BY <1>11, <1>28, Zenon

\* What is summed: two bytes of the header and the data.
Summed(s, a, b, v, n) ==
    /\ s \in Seq(CByte) /\ Len(s) = n + 2
    /\ s[1] = a /\ s[2] = b /\ \A k \in 1..n : s[k + 2] = v[k]

LEMMA SummedFacts ==
    ASSUME NEW a \in CByte, NEW b \in CByte, NEW v \in Seq(CByte), NEW n, n = Len(v)
    PROVE  Summed(<<a, b>> \o v, a, b, v, n)
<1>1. PICK p, s, l : p = <<a, b>> /\ s = p \o v /\ l = Len(p)
  OBVIOUS
<1>2. p \in Seq(CByte) /\ l = 2 /\ p[1] = a /\ p[2] = b /\ n \in Nat
  BY <1>1, PairOf
<1>3. IsJoin(CByte, p, v, s, l, n)
  BY <1>1, <1>2, JoinedTo, Zenon
<1>4. s \in Seq(CByte) /\ Len(s) = n + 2 /\ s[1] = a /\ s[2] = b
  BY <1>2, <1>3 DEF IsJoin
<1>5. ASSUME NEW k \in 1..n
      PROVE  s[k + 2] = v[k]
  <2>1. l + k = k + 2
    BY <1>2
  <2> QED
    BY <1>3, <2>1 DEF IsJoin
<1>6. Summed(s, a, b, v, n)
  BY <1>4, <1>5 DEF Summed
<1> QED
  BY <1>1, <1>6, Zenon

LEMMA LaidWithin ==
    ASSUME NEW f, NEW g, NEW at, NEW v, NEW n \in Nat, Laid(f, at, v, n),
           \A i \in Nat : at[1] <= i /\ i < at[n + 1] => g[i] = f[i]
    PROVE  Laid(g, at, v, n)
<1>1. ASSUME NEW k \in 1..n
      PROVE  /\ at[k] \in Nat /\ at[k + 1] \in Nat /\ at[1] <= at[k] /\ at[k] < at[k + 1]
             /\ at[k + 1] <= at[n + 1] /\ at[1] \in Nat /\ at[n + 1] \in Nat
  <2>1. k \in 1..n + 1 /\ k + 1 \in 1..n + 1 /\ 1 \in 1..n + 1 /\ n + 1 \in 1..n + 1
    OBVIOUS
  <2>2. /\ at[k] \in Nat /\ at[k + 1] \in Nat /\ at[1] \in Nat /\ at[n + 1] \in Nat
        /\ (1 < k => at[1] < at[k]) /\ at[k] < at[k + 1]
        /\ (k + 1 < n + 1 => at[k + 1] < at[n + 1])
    BY <2>1 DEF Laid
  <2> QED
    BY <2>2
<1>2. ASSUME NEW k \in 1..n
      PROVE  Part(g, at, v, k)
  <2>1. PICK p \in Nat, q \in Nat : p = at[k] /\ q = at[k + 1] /\ at[1] <= p /\ p < q /\ q <= at[n + 1]
                                    /\ at[1] \in Nat /\ at[n + 1] \in Nat
    BY <1>1
  <2>2. g[p] = f[p] /\ (q = p + 2 => g[p + 1] = f[p + 1])
    <3>1. p < at[n + 1] /\ (q = p + 2 => p + 1 \in Nat /\ at[1] <= p + 1 /\ p + 1 < at[n + 1])
      BY <2>1
    <3> QED
      BY <2>1, <3>1
  <2>3. Part(f, at, v, k)
    BY DEF Laid
  <2> QED
    BY <2>1, <2>2, <2>3 DEF Part
<1>3. ASSUME NEW i \in Nat, at[1] <= i, i < at[n + 1]
      PROVE  Covered(g, at, n, i)
  <2>1. Covered(f, at, n, i) /\ g[i] = f[i]
    BY <1>3 DEF Laid
  <2> QED
    BY <2>1 DEF Covered
<1> QED
  BY <1>2, <1>3 DEF Laid

LEMMA ReplacedIn ==
    ASSUME NEW S, NEW s \in Seq(S), NEW k \in 1..Len(s), NEW z \in S
    PROVE  /\ [s EXCEPT ![k] = z] \in Seq(S) /\ Len([s EXCEPT ![k] = z]) = Len(s)
           /\ [s EXCEPT ![k] = z][k] = z
           /\ \A j \in 1..Len(s) : j # k => [s EXCEPT ![k] = z][j] = s[j]
  OBVIOUS

Replaced(s, t, k, z) == t = [s EXCEPT ![k] = z]

\* Of m bytes, only the j-th differs.
OneOff(s, t, j, m) ==
    j \in 1..m /\ s[j] # t[j] /\ \A k \in 1..m : k # j => s[k] = t[k]

LEMMA OneOffSum ==
    ASSUME NEW s \in Seq(CByte), NEW t \in Seq(CByte), NEW m, Len(s) = m, Len(t) = m,
           NEW j, OneOff(s, t, j, m)
    PROVE  Checksum!Sum(s) # Checksum!Sum(t)
<1>1. OneOff(s, t, j, Len(s)) /\ Len(s) = Len(t)
  OBVIOUS
<1>2. /\ j \in 1..Len(s) /\ s[j] # t[j]
      /\ \A i \in 1..Len(s) : i # j => s[i] = t[i]
  BY <1>1, Zenon DEF OneOff
<1> QED
  BY <1>1, <1>2, SumDiffers, Zenon

\* f is the frame as it was sent, g the frame with byte i changed to b.
LEMMA ChangedFacts ==
    ASSUME Checksum!InputAssumption, NEW h, NEW d, NEW f, NEW v, NEW at, FrameIs(h, d, f, TRUE, v, at),
           NEW i \in 1..Len(f), i # 4, NEW b \in CByte, f[i] # b,
           i \in 5..Len(f) - 3 => f[i] # Checksum!ESP /\ b # Checksum!ESP,
           NEW g, Replaced(f, g, i, b)
    PROVE  \E v2 : FrameIs(h, d, g, FALSE, v2, at)
<1>1. PICK n \in Nat, len \in Nat : n = Len(v) /\ len = Len(f)
  BY DEF FrameIs
<1>2. /\ f \in Seq(CByte) /\ v \in Seq(CByte) /\ n \in Nat /\ len \in Nat
      /\ Laid(f, at, v, n) /\ at[1] = 5 /\ at[n + 1] + 2 = len
      /\ f[1] = Checksum!SOP /\ f[len] = Checksum!EOP
      /\ Total(f, v) = Told(f)
  <2>1. /\ f \in Seq(CByte) /\ v \in Seq(CByte)
        /\ Laid(f, at, v, n) /\ at[1] = 5 /\ at[n + 1] + 2 = len
        /\ Passes(f, v)
    BY <1>1, Zenon DEF FrameIs
  <2>2. /\ f[1] = Checksum!SOP /\ f[len] = Checksum!EOP
        /\ Total(f, v) = Told(f)
    BY <1>1, <2>1, Zenon DEF Passes
  <2> QED
    BY <1>1, <2>1, <2>2
<1>3. at \in [1..n + 1 -> Nat] /\ at[n + 1] \in Nat /\ at[n + 1] >= 5
  <2>1. /\ at \in [1..n + 1 -> Nat] /\ 1 \in 1..n + 1 /\ n + 1 \in 1..n + 1
        /\ (1 < n + 1 => at[1] < at[n + 1])
    BY <1>2 DEF Laid
  <2>2. at[n + 1] \in Nat /\ (n = 0 \/ 1 < n + 1)
    BY <1>2, <2>1
  <2> QED
    BY <1>2, <2>1, <2>2
<1>4. len \in Nat /\ i \in Nat /\ i >= 1 /\ i <= len /\ len >= 7
  BY <1>1, <1>2, <1>3
<1>5. /\ g \in Seq(CByte) /\ Len(g) = len /\ g[i] = b
      /\ \A j \in 1..len : j # i => g[j] = f[j]
  <2>1. /\ g \in Seq(CByte) /\ Len(g) = Len(f) /\ g[i] = b
        /\ \A j \in 1..Len(f) : j # i => g[j] = f[j]
    BY <1>2, ReplacedIn DEF Replaced
  <2> QED
    BY <1>1, <2>1
<1>7. \A j \in 1..len : f[j] \in CByte /\ g[j] \in CByte
  <2>1. (\A j \in 1..Len(f) : f[j] \in CByte) /\ \A j \in 1..Len(g) : g[j] \in CByte
    BY <1>2, <1>5
  <2> QED
    BY <1>1, <1>5, <2>1
<1>9. f[2] \in CByte /\ f[3] \in CByte /\ g[2] \in CByte /\ g[3] \in CByte
  BY <1>4, <1>7
<1>10. ASSUME NEW v2 \in Seq(CByte), Len(v2) = n, Laid(g, at, v2, n), ~Passes(g, v2)
       PROVE  FrameIs(h, d, g, FALSE, v2, at)
  <2>1. FALSE \in BOOLEAN
    OBVIOUS
  <2> QED
    BY <1>2, <1>5, <1>10, <2>1, Zenon DEF FrameIs
<1>11. PICK s : s = <<f[2], f[3]>> \o v
  OBVIOUS
<1>12. Summed(s, f[2], f[3], v, n)
  BY <1>1, <1>2, <1>9, <1>11, SummedFacts, Zenon
<1>13. ASSUME NEW v2 \in Seq(CByte), Len(v2) = n, Laid(g, at, v2, n),
              NEW t, t = <<g[2], g[3]>> \o v2, NEW j, OneOff(s, t, j, n + 2),
              Told(g) = Told(f)
       PROVE  FrameIs(h, d, g, FALSE, v2, at)
  <2>1. Summed(t, g[2], g[3], v2, n)
    BY <1>9, <1>13, SummedFacts, Zenon
  <2>2. s \in Seq(CByte) /\ t \in Seq(CByte) /\ Len(s) = n + 2 /\ Len(t) = n + 2
    BY <1>12, <2>1 DEF Summed
  <2>3. Checksum!Sum(s) # Checksum!Sum(t)
    BY <1>13, <2>2, OneOffSum, Zenon
  <2>4. ~Passes(g, v2)
    BY <1>2, <1>11, <1>13, <2>3, Zenon DEF Total, Passes
  <2> QED
    BY <1>10, <1>13, <2>4
\* In the header.
<1>14. CASE i = 2 \/ i = 3
  <2>1. \A j \in Nat : at[1] <= j /\ j < at[n + 1] => g[j] = f[j]
    BY <1>2, <1>3, <1>4, <1>5, <1>14
  <2>2. Laid(g, at, v, n)
    BY <1>2, <2>1, LaidWithin
  <2>3. PICK t : t = <<g[2], g[3]>> \o v
    OBVIOUS
  <2>4. Summed(t, g[2], g[3], v, n)
    BY <1>1, <1>2, <1>9, <2>3, SummedFacts, Zenon
  <2>5. Told(g) = Told(f)
    <3>1. g[len - 2] = f[len - 2] /\ g[len - 1] = f[len - 1]
      BY <1>4, <1>5, <1>14
    <3>2. Len(g) = Len(f)
      BY <1>1, <1>5, Zenon
    <3> QED
      BY <1>1, <3>1, <3>2, Zenon DEF Told
  <2>6. s[i - 1] = f[i] /\ t[i - 1] = b /\ i - 1 \in 1..n + 2
    BY <1>2, <1>5, <1>12, <1>14, <2>4 DEF Summed
  <2>7. ASSUME NEW k \in 1..n + 2, k # i - 1
        PROVE  s[k] = t[k]
    <3>1. CASE k = 1 \/ k = 2
      <4>1. k + 1 \in 1..len /\ k + 1 # i /\ (k + 1 = 2 \/ k + 1 = 3)
        BY <1>4, <1>14, <2>7, <3>1
      <4>2. g[k + 1] = f[k + 1]
        BY <1>5, <4>1
      <4> QED
        BY <1>12, <2>4, <3>1, <4>2 DEF Summed
    <3>2. CASE k > 2
      <4>1. PICK l \in 1..n : k = l + 2
        <5>1. k - 2 \in 1..n /\ k = (k - 2) + 2
          BY <1>2, <3>2
        <5> QED
          BY <5>1
      <4>2. s[l + 2] = v[l] /\ t[l + 2] = v[l]
        BY <1>12, <2>4 DEF Summed
      <4> QED
        BY <4>1, <4>2
    <3> QED
      BY <3>1, <3>2, <1>2
  <2>8. Len(v) = n /\ v \in Seq(CByte) /\ s[i - 1] # t[i - 1]
    BY <1>1, <1>2, <2>6
  <2>10. OneOff(s, t, i - 1, n + 2)
    BY <2>6, <2>7, <2>8 DEF OneOff
  <2>9. FrameIs(h, d, g, FALSE, v, at)
    BY <1>13, <2>2, <2>3, <2>5, <2>8, <2>10, Zenon
  <2> QED
    BY <2>9
\* In the checksum.
<1>15. CASE i = len - 2 \/ i = len - 1
  <2>1. \A j \in Nat : at[1] <= j /\ j < at[n + 1] => g[j] = f[j]
    BY <1>2, <1>3, <1>4, <1>5, <1>15
  <2>2. Laid(g, at, v, n)
    BY <1>2, <2>1, LaidWithin
  <2>3. g[2] = f[2] /\ g[3] = f[3]
    BY <1>4, <1>5, <1>15
  <2>4. Total(g, v) = Total(f, v)
    BY <2>3, Zenon DEF Total
  <2>5. PICK x, y, x2, y2 : x = f[len - 2] /\ y = f[len - 1] /\ x2 = g[len - 2] /\ y2 = g[len - 1]
    OBVIOUS
  <2>6. (x = x2 /\ y # y2) \/ (x # x2 /\ y = y2)
    <3>1. len - 2 \in 1..len /\ len - 1 \in 1..len /\ len - 1 # len - 2
      BY <1>4
    <3> QED
      BY <1>5, <1>15, <2>5, <3>1
  <2>7. x \in Nat /\ y \in Nat /\ x2 \in Nat /\ y2 \in Nat
    <3>1. len - 2 \in 1..len /\ len - 1 \in 1..len
      BY <1>4
    <3>2. x \in CByte /\ y \in CByte /\ x2 \in CByte /\ y2 \in CByte
      BY <1>7, <2>5, <3>1
    <3> QED
      BY <3>2, SpecialAre
  <2>8. Told(f) = (x * 256) + y /\ Told(g) = (x2 * 256) + y2
    <3>1. Len(g) = len /\ Len(f) = len
      BY <1>1, <1>5, Zenon
    <3> QED
      BY <2>5, <3>1, Zenon DEF Told
  <2>9. Told(f) # Told(g)
    BY <2>6, <2>7, <2>8
  <2>10. FrameIs(h, d, g, FALSE, v, at)
    <3>1. ~Passes(g, v)
      BY <1>2, <2>4, <2>9, Zenon DEF Passes
    <3> QED
      BY <1>1, <1>2, <1>10, <2>2, <3>1, Zenon
  <2> QED
    BY <2>10
\* SOP or EOP.
<1>8. CASE i = 1 \/ i = len
  <2>1. \A j \in Nat : at[1] <= j /\ j < at[n + 1] => g[j] = f[j]
    BY <1>2, <1>3, <1>4, <1>5, <1>8
  <2>2. Laid(g, at, v, n)
    BY <1>2, <2>1, LaidWithin
  <2>3. g[1] # Checksum!SOP \/ g[len] # Checksum!EOP
    BY <1>2, <1>5, <1>8
  <2>4. ~Passes(g, v)
    BY <1>5, <2>3, Zenon DEF Passes
  <2> QED
    BY <1>1, <1>2, <1>10, <2>2, <2>4, Zenon
\* In the data, of which another value is read.
<1>16. CASE i >= 5 /\ i < at[n + 1]
  <2>0. f[i] # Checksum!ESP /\ b # Checksum!ESP
    <3>1. i \in 5..Len(f) - 3
      BY <1>1, <1>2, <1>3, <1>4, <1>16
    <3> QED
      BY <3>1
  <2>1. Covered(f, at, n, i)
    BY <1>2, <1>4, <1>16 DEF Laid
  <2>2. PICK k \in 1..n : i = at[k + 1] - 1
    BY <2>0, <2>1 DEF Covered
  <2>3. Part(f, at, v, k)
    BY <1>2 DEF Laid
  <2>4. PICK p \in Nat, q \in Nat : p = at[k] /\ q = at[k + 1] /\ i = q - 1 /\ p < q /\ p >= 5
    <3>1. k \in 1..n + 1 /\ k + 1 \in 1..n + 1 /\ 1 \in 1..n + 1 /\ k < k + 1
      BY <1>2
    <3>2. at[k] \in Nat /\ at[k + 1] \in Nat /\ at[k] < at[k + 1] /\ (1 < k => at[1] < at[k])
      BY <1>2, <3>1 DEF Laid
    <3>3. k = 1 \/ 1 < k
      OBVIOUS
    <3>4. at[k] >= 5
      BY <1>2, <3>2, <3>3
    <3> QED
      BY <2>2, <3>2, <3>4
  <2>5. PICK z : z = IF q = p + 1 THEN b ELSE XorWithEsp[b]
    OBVIOUS
  <2>6. PICK v2 : v2 = [v EXCEPT ![k] = z]
    OBVIOUS
  <2>7. z \in CByte /\ z # v[k]
    <3>1. f[i] \in CByte
      BY <1>4, <1>7
    <3>2. /\ XorWithEsp[b] \in CByte /\ XorWithEsp[XorWithEsp[b]] = b
          /\ XorWithEsp[XorWithEsp[f[i]]] = f[i]
      BY <3>1, EscapingFacts
    <3>3. CASE q = p + 1
      <4>1. v[k] = f[i] /\ z = b
        BY <2>3, <2>4, <2>5, <3>3 DEF Part
      <4> QED
        BY <4>1
    <3>4. CASE q # p + 1
      <4>1. q = p + 2 /\ v[k] = XorWithEsp[f[p + 1]] /\ p + 1 = i
        BY <2>3, <2>4, <3>4 DEF Part
      <4>2. v[k] = XorWithEsp[f[i]] /\ z = XorWithEsp[b]
        BY <2>5, <3>4, <4>1
      <4> QED
        BY <3>2, <4>2
    <3> QED
      BY <3>3, <3>4
  <2>8. /\ v2 \in Seq(CByte) /\ Len(v2) = n /\ v2[k] = z
        /\ \A j \in 1..n : j # k => v2[j] = v[j]
    <3>1. k \in 1..Len(v)
      BY <1>1
    <3>2. /\ v2 \in Seq(CByte) /\ Len(v2) = Len(v) /\ v2[k] = z
          /\ \A j \in 1..Len(v) : j # k => v2[j] = v[j]
      BY <1>2, <2>6, <2>7, <3>1, ReplacedIn
    <3> QED
      BY <1>1, <3>2
  <2>9. ASSUME NEW j \in 1..n
        PROVE  Part(g, at, v2, j)
    <3>1. PICK r \in Nat, u \in Nat : r = at[j] /\ u = at[j + 1] /\ r < u /\ r >= 1 /\ u <= len
      <4>1. j \in 1..n + 1 /\ j + 1 \in 1..n + 1 /\ 1 \in 1..n + 1 /\ n + 1 \in 1..n + 1 /\ j < j + 1
        BY <1>2
      <4>2. /\ at[j] \in Nat /\ at[j + 1] \in Nat /\ at[j] < at[j + 1]
            /\ (1 < j => at[1] < at[j]) /\ (j + 1 < n + 1 => at[j + 1] < at[n + 1])
        BY <1>2, <4>1 DEF Laid
      <4>3. (j = 1 \/ 1 < j) /\ (j + 1 = n + 1 \/ j + 1 < n + 1)
        BY <1>2
      <4>4. at[j] >= 1
        BY <1>2, <4>2, <4>3
      <4>5. at[j + 1] <= len
        BY <1>2, <1>3, <4>2, <4>3
      <4> QED
        BY <4>2, <4>4, <4>5
    <3>2. Part(f, at, v, j)
      BY <1>2 DEF Laid
    <3>3. CASE j # k
      <4>1. u <= p \/ q <= r
        <5>1. j \in 1..n + 1 /\ j + 1 \in 1..n + 1 /\ k \in 1..n + 1 /\ k + 1 \in 1..n + 1
          BY <1>2
        <5>2. CASE j + 1 < k
          BY <1>2, <2>4, <3>1, <5>1, <5>2, SMTT(60) DEF Laid
        <5>3. CASE j + 1 = k
          BY <2>4, <3>1, <5>3
        <5>4. CASE k + 1 < j
          BY <1>2, <2>4, <3>1, <5>1, <5>4, SMTT(60) DEF Laid
        <5>5. CASE k + 1 = j
          BY <2>4, <3>1, <5>5
        <5> QED
          BY <3>3, <5>2, <5>3, <5>4, <5>5
      <4>2. g[r] = f[r] /\ (u = r + 2 => g[r + 1] = f[r + 1])
        <5>1. i < q /\ i >= p /\ r < u /\ r >= 1 /\ u <= len
          BY <2>4, <3>1
        <5>2. r \in 1..len /\ r # i /\ (u = r + 2 => r + 1 \in 1..len /\ r + 1 # i)
          BY <4>1, <5>1
        <5> QED
          BY <1>5, <5>2
      <4>3. v2[j] = v[j]
        BY <2>8, <3>3
      <4> QED
        BY <3>1, <3>2, <4>2, <4>3 DEF Part
    <3>4. CASE j = k
      <4>1. r = p /\ u = q /\ v2[j] = z
        BY <2>4, <2>8, <3>1, <3>4
      <4>2. CASE q = p + 1
        <5>1. i = p /\ z = b
          BY <2>4, <2>5, <4>2
        <5> QED
          BY <1>5, <2>0, <3>1, <4>1, <4>2, <5>1 DEF Part
      <4>3. CASE q # p + 1
        <5>1. q = p + 2 /\ f[p] = Checksum!ESP
          BY <2>3, <2>4, <4>3 DEF Part
        <5>2. i = p + 1 /\ z = XorWithEsp[b] /\ g[p] = f[p]
          <6>1. i = p + 1 /\ p \in 1..len /\ p # i
            BY <1>4, <2>4, <5>1
          <6> QED
            BY <1>5, <2>5, <4>3, <6>1
        <5> QED
          BY <1>5, <2>0, <3>1, <4>1, <5>1, <5>2 DEF Part
      <4> QED
        BY <4>2, <4>3
    <3> QED
      BY <3>3, <3>4
  <2>10. ASSUME NEW j \in Nat, at[1] <= j, j < at[n + 1]
         PROVE  Covered(g, at, n, j)
    <3>1. Covered(f, at, n, j)
      BY <1>2, <2>10 DEF Laid
    <3>2. CASE j = i
      BY <2>2, <3>2 DEF Covered
    <3>3. CASE j # i
      <4>1. j \in 1..len
        BY <1>2, <1>3, <2>10
      <4>2. g[j] = f[j]
        BY <1>5, <3>3, <4>1
      <4> QED
        BY <3>1, <4>2 DEF Covered
    <3> QED
      BY <3>2, <3>3
  <2>11. Laid(g, at, v2, n)
    BY <1>2, <2>9, <2>10, Zenon DEF Laid
  <2>12. g[2] = f[2] /\ g[3] = f[3] /\ g[len - 2] = f[len - 2] /\ g[len - 1] = f[len - 1]
    <3>1. /\ 2 \in 1..len /\ 3 \in 1..len /\ len - 2 \in 1..len /\ len - 1 \in 1..len
          /\ 2 # i /\ 3 # i /\ len - 2 # i /\ len - 1 # i
      BY <1>2, <1>3, <1>4, <1>16
    <3> QED
      BY <1>5, <3>1
  <2>13. Told(g) = Told(f)
    <3>1. Len(g) = Len(f)
      BY <1>1, <1>5, Zenon
    <3> QED
      BY <1>1, <2>12, <3>1, Zenon DEF Told
  <2>14. PICK t : t = <<g[2], g[3]>> \o v2
    OBVIOUS
  <2>15. Summed(t, g[2], g[3], v2, n)
    BY <1>9, <2>8, <2>14, SummedFacts, Zenon
  <2>16. k + 2 \in 1..n + 2 /\ s[k + 2] # t[k + 2]
    <3>1. s[k + 2] = v[k] /\ t[k + 2] = v2[k]
      BY <1>12, <2>15 DEF Summed
    <3>2. k + 2 \in 1..n + 2
      BY <1>2
    <3> QED
      BY <2>7, <2>8, <3>1, <3>2
  <2>17. ASSUME NEW j \in 1..n + 2, j # k + 2
         PROVE  s[j] = t[j]
    <3>1. CASE j = 1 \/ j = 2
      BY <1>12, <2>12, <2>15, <3>1 DEF Summed
    <3>2. CASE j > 2
      <4>1. PICK l \in 1..n : j = l + 2
        <5>1. j - 2 \in 1..n /\ j = (j - 2) + 2
          BY <1>2, <3>2
        <5> QED
          BY <5>1
      <4>2. s[l + 2] = v[l] /\ t[l + 2] = v2[l] /\ l # k
        BY <1>12, <2>15, <2>17, <4>1 DEF Summed
      <4> QED
        BY <2>8, <4>1, <4>2
    <3> QED
      BY <3>1, <3>2, <1>2
  <2>19. OneOff(s, t, k + 2, n + 2)
    BY <2>16, <2>17 DEF OneOff
  <2>18. FrameIs(h, d, g, FALSE, v2, at)
    BY <1>13, <2>8, <2>11, <2>13, <2>14, <2>19, Zenon
  <2> QED
    BY <2>18
<1>17. \/ i = 1 \/ i = 2 \/ i = 3 \/ i = len - 2 \/ i = len - 1 \/ i = len
       \/ i >= 5 /\ i < at[n + 1]
  <2>1. PICK m \in Nat : m = at[n + 1] /\ m + 2 = len
    BY <1>2, <1>3
  <2> QED
    BY <1>4, <2>1
<1> QED
  BY <1>8, <1>14, <1>15, <1>16, <1>17

-----------------------------------------------------------------------------
(***************************************************************************)
(* What checksum.c has read of the frame: k values, and the ESP of the     *)
(* next one or not.                                                        *)
(***************************************************************************)
Read(buf, v, k) == [header |-> SubSeq(buf, 2, 4), data |-> SubSeq(v, 1, k)]

ReadTo(at, v, index, esc, k) ==
    \/ esc = FALSE /\ index = at[k + 1]
    \/ /\ esc = TRUE /\ k < Len(v)
       /\ index = at[k + 1] + 1 /\ at[k + 2] = at[k + 1] + 2

Progress(buf, whole, v, at, control, index, esc, resp) ==
    \/ /\ control = "header" /\ index = 1 /\ esc = FALSE
       /\ resp = [header |-> <<>>, data |-> <<>>]
    \/ /\ control = "data"
       /\ buf[1] = Checksum!SOP
       /\ \E k \in 0..Len(v) : resp = Read(buf, v, k) /\ ReadTo(at, v, index, esc, k)
    \/ control = "accepted" /\ whole = TRUE /\ resp = Read(buf, v, Len(v))
    \/ control = "aborted" /\ whole = FALSE

\* A frame that can be read: nothing is escaped in header and checksum, and the
\* change is none that may be overlooked.
Readable(h, d, buf, whole) ==
    Checksum!Plain(h, d) /\ (whole \/ ~Checksum!Overlooks(Checksum!Frame(h, d), buf))

\* It is as FrameIs has it, and all was read of it that is in front of the index:
\* the assertions are met if and only if the frame is intact.
ChecksumInv ==
    Readable(sentH, sentD, cbuf, asSent) =>
        \E v, at : /\ FrameIs(sentH, sentD, cbuf, asSent, v, at)
                   /\ Progress(cbuf, asSent, v, at, stage, cindex, cescape, cresp)

LEMMA ChecksumInit ==
    ASSUME Checksum!InputAssumption, Checksum!Init
    PROVE  ChecksumInv
<1> SUFFICES ASSUME Readable(sentH, sentD, cbuf, asSent)
             PROVE  \E v, at : /\ FrameIs(sentH, sentD, cbuf, asSent, v, at)
                               /\ Progress(cbuf, asSent, v, at, stage, cindex, cescape, cresp)
  BY DEF ChecksumInv
<1>2. PICK f : f = Checksum!Frame(sentH, sentD)
  OBVIOUS
<1>3. /\ sentH \in Headers /\ sentD \in Data
      /\ \/ asSent = TRUE /\ cbuf = f
         \/ /\ asSent = FALSE
            /\ \E i \in ChangedAt \cap DOMAIN f, b \in Changed :
                  f[i] # b /\ cbuf = [f EXCEPT ![i] = b]
      /\ stage = "header" /\ cindex = 1 /\ cescape = FALSE
      /\ cresp = [header |-> <<>>, data |-> <<>>]
  BY <1>2, Zenon DEF Checksum!Init
<1>4. PICK at : FrameIs(sentH, sentD, f, TRUE, sentD, at)
  <2>1. Checksum!Plain(sentH, sentD)
    BY Zenon DEF Readable
  <2> QED
    BY <1>2, <1>3, <2>1, FrameFacts, Zenon
<1>5. \E v : FrameIs(sentH, sentD, cbuf, asSent, v, at)
  <2>1. CASE asSent = TRUE /\ cbuf = f
    BY <1>4, <2>1, Zenon
  <2>2. CASE asSent # TRUE
    <3>1. PICK i \in DOMAIN f, b \in Changed :
             f[i] # b /\ cbuf = [f EXCEPT ![i] = b] /\ asSent = FALSE
      BY <1>3, <2>2
    <3>2. f \in Seq(CByte) /\ i \in 1..Len(f)
      BY <1>4, <3>1 DEF FrameIs
    <3>3. b \in CByte
      BY <3>1, InputFacts
    <3>4. Replaced(f, cbuf, i, b)
      BY <3>1 DEF Replaced
    <3>6. ~(i = 4 \/ (i \in 5..Len(f) - 3 /\ Checksum!ESP \in {f[i], cbuf[i]}))
      <4>1. ~Checksum!Overlooks(f, cbuf)
        BY <1>2, <3>1, Zenon DEF Readable
      <4>2. cbuf[i] # f[i] /\ i \in DOMAIN f
        BY <3>1, <3>2
      <4> QED
        BY <4>1, <4>2, Zenon DEF Checksum!Overlooks
    <3>7. i # 4 /\ (i \in 5..Len(f) - 3 => f[i] # Checksum!ESP /\ b # Checksum!ESP)
      <4>1. cbuf[i] = b
        BY <3>1, <3>2
      <4> QED
        BY <3>6, <4>1
    <3>5. \E v : FrameIs(sentH, sentD, cbuf, FALSE, v, at)
      BY <1>4, <3>1, <3>2, <3>3, <3>4, <3>7, ChangedFacts
    <3> QED
      BY <3>1, <3>5, Zenon
  <2> QED
    BY <1>3, <2>1, <2>2, Zenon
<1>6. \A v : Progress(cbuf, asSent, v, at, stage, cindex, cescape, cresp)
  BY <1>3 DEF Progress
<1> QED
  BY <1>5, <1>6, Zenon

LEMMA ChecksumStep ==
    ASSUME ChecksumInv, [Checksum!Next]_Checksum!vars
    PROVE  ChecksumInv'
<1> SUFFICES ASSUME Readable(sentH', sentD', cbuf', asSent')
             PROVE  ChecksumInv'
  BY DEF ChecksumInv
<1>13. UNCHANGED <<sentH, sentD, cbuf, asSent>>
  BY DEF Checksum!vars, Checksum!Next, Checksum!ReadHeader, Checksum!StartEscape,
     Checksum!StoreByte, Checksum!CheckTrailer
<1>2. PICK v, at : /\ FrameIs(sentH, sentD, cbuf, asSent, v, at)
                   /\ Progress(cbuf, asSent, v, at, stage, cindex, cescape, cresp)
  <2>1. Readable(sentH, sentD, cbuf, asSent)
    BY <1>13, Zenon
  <2> QED
    BY <2>1 DEF ChecksumInv
<1>3. ASSUME UNCHANGED <<sentH, sentD, cbuf, asSent>>,
             Progress(cbuf, asSent, v, at, stage', cindex', cescape', cresp')
      PROVE  ChecksumInv'
  <2>1. FrameIs(sentH', sentD', cbuf', asSent', v, at) /\ Progress(cbuf', asSent', v, at, stage', cindex', cescape', cresp')
    BY <1>2, <1>3
  <2>2. ChecksumInv' =
          (Readable(sentH', sentD', cbuf', asSent') =>
              \E vv, aa : /\ FrameIs(sentH', sentD', cbuf', asSent', vv, aa)
                          /\ Progress(cbuf', asSent', vv, aa, stage', cindex', cescape', cresp'))
    BY DEF ChecksumInv, FrameIs, Progress, Laid, Part, Covered, Total, Told, Read, ReadTo,
       CByte, CSpecial
  <2> QED
    BY <2>1, <2>2, Zenon
<1>4. CASE UNCHANGED Checksum!vars
  <2>1. /\ UNCHANGED <<sentH, sentD, cbuf, asSent>>
        /\ stage' = stage /\ cindex' = cindex /\ cescape' = cescape /\ cresp' = cresp
    BY <1>4 DEF Checksum!vars
  <2> QED
    BY <1>2, <1>3, <2>1, Zenon
<1>5. PICK n \in Nat, len \in Nat :
         /\ n = Len(v) /\ len = Len(cbuf)
         /\ cbuf \in Seq(CByte) /\ v \in Seq(CByte) /\ Laid(cbuf, at, v, n)
         /\ at[1] = 5 /\ at[n + 1] + 2 = len
         /\ asSent \in BOOLEAN /\ (asSent <=> Passes(cbuf, v))
  BY <1>2 DEF FrameIs
<1>6. /\ at \in [1..n + 1 -> Nat]
      /\ \A j, k \in 1..n + 1 : j < k => at[j] < at[k]
      /\ \A k \in 1..n : Part(cbuf, at, v, k)
  BY <1>5, Zenon DEF Laid
<1>7. /\ at[n + 1] \in Nat /\ at[n + 1] >= 5
      /\ \A k \in 0..n : at[k + 1] \in Nat /\ (k < n => at[k + 1] < at[n + 1])
  <2>1. 1 \in 1..n + 1 /\ n + 1 \in 1..n + 1 /\ \A k \in 0..n : k + 1 \in 1..n + 1
    BY <1>5
  <2>2. at[n + 1] \in Nat /\ (1 < n + 1 => at[1] < at[n + 1])
    BY <1>6, <2>1
  <2>3. n = 0 \/ 1 < n + 1
    BY <1>5
  <2>4. at[n + 1] >= 5
    BY <1>5, <2>2, <2>3
  <2>5. ASSUME NEW k \in 0..n
        PROVE  at[k + 1] \in Nat /\ (k < n => at[k + 1] < at[n + 1])
    <3>1. k + 1 \in 1..n + 1 /\ n + 1 \in 1..n + 1 /\ (k < n => k + 1 < n + 1)
      BY <2>1
    <3> QED
      BY <1>6, <3>1
  <2> QED
    BY <2>2, <2>4, <2>5
<1>8. CASE Checksum!ReadHeader
  <2>1. /\ UNCHANGED <<sentH, sentD, cbuf, asSent>> /\ stage = "header"
        /\ stage' = (IF cbuf[1] = Checksum!SOP THEN "data" ELSE "aborted") /\ cindex' = 5 /\ cescape' = cescape
        /\ cresp' = [cresp EXCEPT !.header = SubSeq(cbuf, 2, 4)]
    BY <1>5, <1>8 DEF Checksum!ReadHeader
  <2>2. cescape = FALSE /\ cresp = [header |-> <<>>, data |-> <<>>]
    BY <1>2, <2>1 DEF Progress
  <2>3. SubSeq(v, 1, 0) = <<>>
    BY <1>5
  <2>4. cresp' = [header |-> SubSeq(cbuf, 2, 4), data |-> <<>>]
    BY <2>1, <2>2
  <2>5. cresp' = Read(cbuf, v, 0)
    BY <2>3, <2>4, Zenon DEF Read
  <2>6. ReadTo(at, v, cindex', cescape', 0) /\ 0 \in 0..Len(v)
    BY <1>5, <2>1, <2>2 DEF ReadTo
  <2>7. Progress(cbuf, asSent, v, at, stage', cindex', cescape', cresp')
    <3>1. CASE cbuf[1] = Checksum!SOP
      BY <2>1, <2>5, <2>6, <3>1, Zenon DEF Progress
    <3>2. CASE cbuf[1] # Checksum!SOP
      <4>1. asSent = FALSE
        BY <1>5, <3>2, Zenon DEF Passes
      <4>2. stage' = "aborted"
        BY <2>1, <3>2
      <4> QED
        BY <4>1, <4>2, Zenon DEF Progress
    <3> QED
      BY <3>1, <3>2
  <2> QED
    BY <1>3, <2>1, <2>7
\* The byte that is next belongs to a value that was not read yet.
<1>9. ASSUME stage = "data", cindex <= len - 3
      PROVE  \E k \in 0..n - 1 :
                /\ cresp = Read(cbuf, v, k) /\ Part(cbuf, at, v, k + 1)
                /\ at[k + 1] \in Nat /\ at[k + 2] \in Nat /\ k + 1 \in 1..n /\ k \in Nat
                /\ \/ cescape = FALSE /\ cindex = at[k + 1]
                   \/ cescape = TRUE /\ cindex = at[k + 1] + 1 /\ at[k + 2] = at[k + 1] + 2
  <2>1. PICK k \in 0..Len(v) : cresp = Read(cbuf, v, k) /\ ReadTo(at, v, cindex, cescape, k)
    BY <1>2, <1>9 DEF Progress
  <2>2. k \in 0..n - 1
    <3>1. k \in 0..n
      BY <1>5, <2>1
    <3>2. CASE k = n
      <4>1. ~(n < Len(v))
        BY <1>5
      <4>2. cindex = at[n + 1]
        BY <2>1, <3>2, <4>1 DEF ReadTo
      <4> QED
        BY <1>5, <1>7, <1>9, <4>2
    <3> QED
      BY <3>1, <3>2
  <2>3. k + 1 \in 1..n /\ k \in Nat /\ k + 1 \in 1..n + 1 /\ k + 2 \in 1..n + 1
    BY <2>2
  <2>4. Part(cbuf, at, v, k + 1) /\ at[k + 1] \in Nat /\ at[k + 2] \in Nat
    BY <1>6, <2>3
  <2>5. \/ cescape = FALSE /\ cindex = at[k + 1]
        \/ cescape = TRUE /\ cindex = at[k + 1] + 1 /\ at[k + 2] = at[k + 1] + 2
    BY <2>1, Zenon DEF ReadTo
  <2> QED
    BY <2>1, <2>2, <2>3, <2>4, <2>5, Zenon
<1>10. CASE Checksum!StartEscape
  <2>1. /\ UNCHANGED <<sentH, sentD, cbuf, asSent>> /\ stage = "data" /\ cindex <= len - 3
        /\ cbuf[cindex] = Checksum!ESP
        /\ stage' = "data" /\ cindex' = cindex + 1 /\ cescape' = TRUE /\ cresp' = cresp
    BY <1>5, <1>10 DEF Checksum!StartEscape, Checksum!InData
  <2>2. PICK k \in 0..n - 1 :
           /\ cresp = Read(cbuf, v, k) /\ Part(cbuf, at, v, k + 1)
           /\ at[k + 1] \in Nat /\ at[k + 2] \in Nat /\ k + 1 \in 1..n /\ k \in Nat
           /\ \/ cescape = FALSE /\ cindex = at[k + 1]
              \/ cescape = TRUE /\ cindex = at[k + 1] + 1 /\ at[k + 2] = at[k + 1] + 2
    BY <1>9, <2>1
  <2>4. PICK p \in Nat, q \in Nat : p = at[k + 1] /\ q = at[k + 2]
    BY <2>2
  <2>5. \/ q = p + 1 /\ cbuf[p] # Checksum!ESP
        \/ q = p + 2 /\ cbuf[p + 1] # Checksum!ESP
    <3>1. (k + 1) + 1 = k + 2
      BY <2>2
    <3> QED
      BY <2>2, <2>4, <3>1 DEF Part
  <2>6. cindex = p /\ q = p + 2
    BY <2>1, <2>2, <2>4, <2>5
  <2>7. ReadTo(at, v, cindex', cescape', k)
    <3>1. k < Len(v)
      BY <1>5, <2>2
    <3> QED
      BY <2>1, <2>4, <2>6, <3>1 DEF ReadTo
  <2>8. cresp' = Read(cbuf, v, k) /\ k \in 0..Len(v)
    <3>1. cresp' = Read(cbuf, v, k)
      BY <2>1, <2>2, Zenon
    <3> QED
      BY <1>5, <2>2, <3>1
  <2>9. Progress(cbuf, asSent, v, at, stage', cindex', cescape', cresp')
    <3>1. cbuf[1] = Checksum!SOP
      BY <1>2, <2>1 DEF Progress
    <3> QED
      BY <2>1, <2>7, <2>8, <3>1, Zenon DEF Progress
  <2> QED
    BY <1>3, <2>1, <2>9
<1>11. CASE Checksum!StoreByte
  <2>1. /\ UNCHANGED <<sentH, sentD, cbuf, asSent>> /\ stage = "data" /\ cindex <= len - 3
        /\ cbuf[cindex] # Checksum!ESP
        /\ stage' = "data" /\ cindex' = cindex + 1 /\ cescape' = FALSE
        /\ cresp' = [cresp EXCEPT !.data = Append(@, IF cescape THEN XorWithEsp[cbuf[cindex]] ELSE cbuf[cindex])]
    BY <1>5, <1>11 DEF Checksum!StoreByte, Checksum!InData
  <2>2. PICK k \in 0..n - 1 :
           /\ cresp = Read(cbuf, v, k) /\ Part(cbuf, at, v, k + 1)
           /\ at[k + 1] \in Nat /\ at[k + 2] \in Nat /\ k + 1 \in 1..n /\ k \in Nat
           /\ \/ cescape = FALSE /\ cindex = at[k + 1]
              \/ cescape = TRUE /\ cindex = at[k + 1] + 1 /\ at[k + 2] = at[k + 1] + 2
    BY <1>9, <2>1
  <2>3. PICK p \in Nat, q \in Nat : p = at[k + 1] /\ q = at[k + 2]
    BY <2>2
  <2>4. \/ q = p + 1 /\ v[k + 1] = cbuf[p]
        \/ q = p + 2 /\ cbuf[p] = Checksum!ESP /\ v[k + 1] = XorWithEsp[cbuf[p + 1]]
    <3>1. (k + 1) + 1 = k + 2
      BY <2>2
    <3> QED
      BY <2>2, <2>3, <3>1 DEF Part
  <2>5. /\ cindex' = q
        /\ (IF cescape THEN XorWithEsp[cbuf[cindex]] ELSE cbuf[cindex]) = v[k + 1]
    <3>1. CASE cescape = FALSE
      <4>1. cindex = p
        BY <2>2, <2>3, <3>1
      <4>2. q = p + 1 /\ v[k + 1] = cbuf[p]
        BY <2>1, <2>4, <4>1
      <4> QED
        BY <2>1, <3>1, <4>1, <4>2
    <3>2. CASE cescape = TRUE
      <4>1. cindex = p + 1 /\ q = p + 2
        BY <2>2, <2>3, <3>2
      <4>2. v[k + 1] = XorWithEsp[cbuf[p + 1]]
        BY <2>4, <4>1
      <4> QED
        BY <2>1, <3>2, <4>1, <4>2
    <3> QED
      BY <2>2, <3>1, <3>2
  <2>6. cresp' = [cresp EXCEPT !.data = Append(@, v[k + 1])]
    BY <2>1, <2>5, Zenon
  <2>7. Append(SubSeq(v, 1, k), v[k + 1]) = SubSeq(v, 1, k + 1)
    BY <1>5, <2>2
  <2>8. cresp' = Read(cbuf, v, k + 1)
    <3>1. cresp' = [header |-> SubSeq(cbuf, 2, 4), data |-> Append(SubSeq(v, 1, k), v[k + 1])]
      BY <2>2, <2>6 DEF Read
    <3> QED
      BY <2>7, <3>1, Zenon DEF Read
  <2>9. ReadTo(at, v, cindex', cescape', k + 1) /\ k + 1 \in 0..Len(v)
    <3>1. (k + 1) + 1 = k + 2 /\ k + 1 \in 0..Len(v)
      BY <1>5, <2>2
    <3> QED
      BY <2>1, <2>3, <2>5, <3>1 DEF ReadTo
  <2>10. Progress(cbuf, asSent, v, at, stage', cindex', cescape', cresp')
    <3>1. cbuf[1] = Checksum!SOP
      BY <1>2, <2>1 DEF Progress
    <3> QED
      BY <2>1, <2>8, <2>9, <3>1, Zenon DEF Progress
  <2> QED
    BY <1>3, <2>1, <2>10
<1>12. CASE Checksum!CheckTrailer
  <2>1. /\ UNCHANGED <<sentH, sentD, cbuf, asSent>> /\ stage = "data" /\ cindex > len - 3
        /\ clen' = Len(cresp.data) /\ cindex' = cindex /\ cescape' = cescape /\ cresp' = cresp
        /\ stage' = IF cbuf[cindex + 2] = Checksum!EOP
                       /\ Checksum!compute_checksum(cresp, clen') = cbuf[cindex] * 256 + cbuf[cindex + 1]
                    THEN "accepted" ELSE "aborted"
    BY <1>5, <1>12 DEF Checksum!CheckTrailer
  <2>2. PICK k \in 0..Len(v) : cresp = Read(cbuf, v, k) /\ ReadTo(at, v, cindex, cescape, k)
    BY <1>2, <2>1 DEF Progress
  <2>3. k = n /\ cindex = at[n + 1]
    <3>1. k \in 0..n
      BY <1>5, <2>2
    <3>2. CASE k < n
      <4>1. PICK p \in Nat, q \in Nat, m \in Nat :
               p = at[k + 1] /\ q = at[k + 2] /\ m = at[n + 1] /\ p < m /\ q <= m /\ m + 2 = len
        <5>1. k \in 0..n /\ k + 1 \in 0..n /\ (k + 1) + 1 = k + 2
          BY <3>1, <3>2
        <5>2. at[k + 2] \in Nat /\ (k + 1 < n => at[k + 2] < at[n + 1])
          BY <1>7, <5>1
        <5>3. at[k + 1] \in Nat /\ at[k + 1] < at[n + 1] /\ at[n + 1] \in Nat
          BY <1>7, <3>2, <5>1
        <5>4. k + 1 = n \/ k + 1 < n
          BY <3>1, <3>2
        <5>5. at[k + 2] <= at[n + 1]
          <6>1. CASE k + 1 = n
            <7>1. k + 2 = n + 1
              BY <3>1, <6>1
            <7> QED
              BY <5>3, <7>1
          <6> QED
            BY <5>2, <5>3, <5>4, <6>1
        <5> QED
          BY <1>5, <5>2, <5>3, <5>5
      <4>2. cindex = p \/ (cindex = p + 1 /\ q = p + 2)
        BY <2>2, <4>1 DEF ReadTo
      <4> QED
        BY <2>1, <4>1, <4>2, SMTT(60)
    <3>3. CASE k = n
      <4>1. ~(k < Len(v))
        BY <1>5, <3>3
      <4> QED
        BY <2>2, <3>3, <4>1 DEF ReadTo
    <3> QED
      BY <3>1, <3>2, <3>3
  <2>4. SubSeq(v, 1, Len(v)) = v
    BY <1>5
  <2>5. cresp = [header |-> SubSeq(cbuf, 2, 4), data |-> v]
    BY <1>5, <2>2, <2>3, <2>4, Zenon DEF Read
  <2>6. clen' = n /\ cresp.header = SubSeq(cbuf, 2, 4) /\ SubSeq(cresp.data, 1, clen') = v
    <3>1. cresp.data = v /\ cresp.header = SubSeq(cbuf, 2, 4)
      BY <2>5
    <3>2. clen' = Len(v)
      BY <2>1, <3>1, Zenon
    <3> QED
      BY <1>5, <2>4, <3>1, <3>2, Zenon
  <2>7. cresp.header[1] = cbuf[2] /\ cresp.header[2] = cbuf[3]
    <3>1. len >= 4 /\ 2 \in 1..len /\ 4 \in 2..len /\ 4 - 2 + 1 = 3
      BY <1>5, <1>7
    <3>2. PICK p, q : p = 2 /\ q = 4
      OBVIOUS
    <3>3. \A i \in 1..(q - p + 1) : SubSeq(cbuf, p, q)[i] = cbuf[p + i - 1]
      BY <1>5, <3>1, <3>2, Piece
    <3>4. 1 \in 1..(q - p + 1) /\ 2 \in 1..(q - p + 1) /\ p + 1 - 1 = 2 /\ p + 2 - 1 = 3
      BY <3>2
    <3> QED
      BY <2>6, <3>2, <3>3, <3>4
  <2>8. Checksum!compute_checksum(cresp, clen') = Total(cbuf, v)
    BY <2>6, <2>7, Zenon DEF Checksum!compute_checksum, Total
  <2>9. cindex + 2 = len /\ cindex = len - 2 /\ cindex + 1 = len - 1
    BY <1>5, <1>7, <2>3
  <2>10. (cbuf[cindex] * 256) + cbuf[cindex + 1] = Told(cbuf)
    BY <1>5, <2>9, Zenon DEF Told
  <2>11. asSent <=> cbuf[cindex + 2] = Checksum!EOP /\ Total(cbuf, v) = Told(cbuf)
    <3>1. cbuf[1] = Checksum!SOP
      BY <1>2, <2>1 DEF Progress
    <3> QED
      BY <1>5, <2>9, <3>1, Zenon DEF Passes
  <2>12. IF asSent THEN stage' = "accepted" ELSE stage' = "aborted"
    BY <1>5, <2>1, <2>8, <2>10, <2>11, Zenon
  <2>13. cresp' = Read(cbuf, v, Len(v))
    BY <1>5, <2>1, <2>2, <2>3, Zenon
  <2>14. (asSent = TRUE /\ stage' = "accepted") \/ (asSent = FALSE /\ stage' = "aborted")
    BY <1>5, <2>12
  <2>15. Progress(cbuf, asSent, v, at, stage', cindex', cescape', cresp')
    BY <2>13, <2>14, Zenon DEF Progress
  <2> QED
    BY <1>3, <2>1, <2>15
<1> QED
  BY <1>4, <1>8, <1>10, <1>11, <1>12 DEF Checksum!Next

LEMMA ChecksumSound ==
    ASSUME ChecksumInv
    PROVE  Checksum!OnlyIntactAccepted
<1>1. ASSUME Readable(sentH, sentD, cbuf, asSent)
      PROVE  /\ stage = "accepted" => asSent = TRUE /\ cresp = [header |-> sentH, data |-> sentD]
             /\ stage = "aborted" => asSent = FALSE
  <2>1. PICK v, at : /\ FrameIs(sentH, sentD, cbuf, asSent, v, at)
                     /\ Progress(cbuf, asSent, v, at, stage, cindex, cescape, cresp)
    BY <1>1 DEF ChecksumInv
  <2>2. v \in Seq(CByte) /\ asSent \in BOOLEAN /\ (asSent => sentH = SubSeq(cbuf, 2, 4) /\ sentD = v)
    BY <2>1 DEF FrameIs
  <2>3. stage = "accepted" => asSent = TRUE /\ cresp = Read(cbuf, v, Len(v))
    BY <2>1 DEF Progress
  <2>4. stage = "aborted" => asSent = FALSE
    BY <2>1 DEF Progress
  <2>5. SubSeq(v, 1, Len(v)) = v
    BY <2>2
  <2> QED
    BY <2>2, <2>3, <2>4, <2>5, Zenon DEF Read
<1>2. ASSUME asSent, stage \in {"accepted", "aborted"}, Checksum!Plain(sentH, sentD)
      PROVE  stage = "accepted" /\ cresp = [header |-> sentH, data |-> sentD]
  <2>1. Readable(sentH, sentD, cbuf, asSent)
    BY <1>2, Zenon DEF Readable
  <2> QED
    BY <1>1, <1>2, <2>1
<1>3. ASSUME ~asSent, stage = "accepted", Checksum!Plain(sentH, sentD)
      PROVE  Checksum!Overlooks(Checksum!Frame(sentH, sentD), cbuf)
  <2>1. ~Readable(sentH, sentD, cbuf, asSent)
    BY <1>1, <1>3
  <2> QED
    BY <1>3, <2>1, Zenon DEF Readable
<1>4. Checksum!IntactAccepted
  BY <1>2, Zenon DEF Checksum!IntactAccepted
<1>5. Checksum!ChangeDetected
  BY <1>3, Zenon DEF Checksum!ChangeDetected
<1> QED
  BY <1>4, <1>5 DEF Checksum!OnlyIntactAccepted

\* Of the frames in whose header and checksum nothing is escaped, the checksum
\* program accepts those that came as they were sent, with their header and their
\* data, whatever bytes of the data were escaped, and none in which one byte is
\* another: unless that is the seqId, or an ESP came or went in the data, of which
\* it may accept some.
THEOREM OnlyIntactFramesAccepted ==
    Checksum!InputAssumption => (Checksum!Spec => []Checksum!OnlyIntactAccepted)
<1>1. Checksum!InputAssumption /\ Checksum!Init => ChecksumInv
  BY ChecksumInit
<1>2. ChecksumInv /\ [Checksum!Next]_Checksum!vars => ChecksumInv'
  BY ChecksumStep
<1>3. ChecksumInv => Checksum!OnlyIntactAccepted
  BY ChecksumSound
<1> QED
  BY <1>1, <1>2, <1>3, PTL DEF Checksum!Spec
=============================================================================
