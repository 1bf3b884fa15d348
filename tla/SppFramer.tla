------------------------------ MODULE SppFramer ------------------------------
(***************************************************************************)
(* The framer of BT/PacketHelper/packet_helper.c: it finds the packets in  *)
(* the bytes of a serial port (SPP), whatever the buffers they come in.    *)
(*                                                                         *)
(* A frame is SOP, a content (cmd, err, seqId, data, checksum) and EOP; a  *)
(* byte of the content that has one of the three special values is sent    *)
(* as ESP and its exclusive or with ESP.  The sender is external; it       *)
(* sends whole frames, of which the line may lose bytes.                   *)
(*                                                                         *)
(* One step is one iteration of the loop of read_packet_from_buffer over   *)
(* the next byte.  All that iterations have in common is static, so how    *)
(* the bytes are divided into calls makes no difference.  end_of_packet is *)
(* looked at after every byte (line 118), but is TRUE there only when the  *)
(* byte was an EOP: one left over from before comes with packet_error,     *)
(* and is cleaned up with it (proved with SyncInv in WireProofs).          *)
(***************************************************************************)
EXTENDS Integers, Sequences

CONSTANTS
    Bytes,          \* the values of a byte
    SOP, EOP, ESP,  \* gadget_packet.h
    XorEsp,         \* XorEsp[b] is b ^ ESP
    BufferLen,      \* size of packet_buffer
    Contents,       \* the contents that are sent
    MaxFrames,      \* bound: frames sent
    MaxLost         \* bound: bytes lost by the line

Special == {SOP, EOP, ESP}

ASSUME BytesAssumption ==
    /\ Special \subseteq Bytes
    /\ SOP # EOP /\ SOP # ESP /\ EOP # ESP
    /\ XorEsp \in [Bytes -> Bytes]
    /\ \A b \in Bytes : XorEsp[XorEsp[b]] = b
    /\ \A b \in Special : XorEsp[b] \notin Special

\* Frames have a header of four bytes and a trailer of three, and data.
HeaderLen == 4
TrailerLen == 3

ASSUME FramerAssumption ==
    /\ BufferLen \in Nat /\ BufferLen >= HeaderLen + TrailerLen
    /\ Contents \subseteq Seq(Bytes)
    /\ \A c \in Contents : Len(c) + 2 >= HeaderLen + TrailerLen
    /\ MaxFrames \in Nat /\ MaxLost \in Nat

VARIABLES
    packet_buffer,    \* what is in use of it; its length is packet_buffer_len
                      \* and also packet_size, which changes along with it
    packet_error, start_of_packet, end_of_packet, escape,
    running,          \* no assertion has failed
    sent,             \* the contents sent, the last one perhaps in part
    position,         \* of the byte due in the last frame, 0 when it is out
    escaped,          \* ESP is out, the byte it announces is due
    delivered,        \* history: what verify_packet was given
    origins,          \* history: the frames whose bytes are in packet_buffer
    harmed,           \* history: the frames that lost a byte
    lost              \* history: how many bytes were lost

statics == <<packet_buffer, packet_error, start_of_packet, end_of_packet, escape>>
line == <<sent, position, escaped>>
vars == <<statics, running, line, delivered, origins, harmed, lost>>

Delivery == [content : Seq(Bytes), origins : SUBSET (1..MaxFrames)]

\* Every variable has its type, and the buffer is never written past its end:
\* neither what is in it nor a packet that was finished in it has more bytes
\* than fit (line 64 is what keeps the bound).
TypeOK ==
    /\ packet_buffer \in Seq(Bytes) /\ Len(packet_buffer) <= BufferLen
    /\ packet_error \in BOOLEAN /\ start_of_packet \in BOOLEAN
    /\ end_of_packet \in BOOLEAN /\ escape \in BOOLEAN
    /\ running \in BOOLEAN
    /\ sent \in Seq(Contents) /\ Len(sent) <= MaxFrames
    /\ position \in Nat /\ escaped \in BOOLEAN
    /\ position # 0 => Len(sent) > 0 /\ position <= Len(sent[Len(sent)]) + 2
    /\ delivered \in Seq(Delivery)
    /\ \A k \in 1..Len(delivered) : Len(delivered[k].content) + 2 <= BufferLen
    /\ origins \subseteq 1..MaxFrames /\ harmed \subseteq 1..MaxFrames
    /\ lost \in 0..MaxLost

-----------------------------------------------------------------------------
(***************************************************************************)
(* The line, for as long as somebody reads it.                             *)
(***************************************************************************)
Frame == sent[Len(sent)]

AtSop == position = 1
AtEop == position = Len(Frame) + 2

NeedsEscape == ~AtSop /\ ~AtEop /\ Frame[position - 1] \in Special

\* The byte that is due.
NextByte ==
    IF AtSop THEN SOP
    ELSE IF AtEop THEN EOP
    ELSE IF ~NeedsEscape THEN Frame[position - 1]
    ELSE IF ~escaped THEN ESP ELSE XorEsp[Frame[position - 1]]

\* That byte is out.
Advance ==
    /\ UNCHANGED sent
    /\ IF NeedsEscape /\ ~escaped
       THEN escaped' = TRUE /\ UNCHANGED position
       ELSE escaped' = FALSE /\ position' = IF AtEop THEN 0 ELSE position + 1

StartFrame(c) ==
    /\ running /\ position = 0 /\ Len(sent) < MaxFrames
    /\ sent' = Append(sent, c) /\ position' = 1
    /\ UNCHANGED <<statics, running, escaped, delivered, origins, harmed, lost>>

LoseByte ==
    /\ running /\ position # 0 /\ lost < MaxLost
    /\ Advance
    /\ lost' = lost + 1 /\ harmed' = harmed \cup {Len(sent)}
    /\ UNCHANGED <<statics, running, delivered, origins>>

\* The byte b gets to the framer.
Arrives(b) ==
    /\ running /\ position # 0 /\ b = NextByte
    /\ Advance
    /\ UNCHANGED <<harmed, lost>>

-----------------------------------------------------------------------------
(***************************************************************************)
(* cleanup, and the two ways a byte is stored.                             *)
(***************************************************************************)
cleanup ==
    /\ packet_buffer' = <<>> /\ origins' = {}
    /\ packet_error' = FALSE /\ start_of_packet' = FALSE
    /\ end_of_packet' = FALSE /\ escape' = FALSE

Store(b) ==
    /\ packet_buffer' = Append(packet_buffer, b)
    /\ origins' = origins \cup {Len(sent)}

\* Mutant: the check of line 64 left out.
PacketErrorAlone == packet_error

\* The byte that finds the buffer full is an error, too.
HasError == packet_error \/ Len(packet_buffer) >= BufferLen

\* Mutant: the checks of lines 82 and 88 left out.
SopInPlace == FALSE

SopOutOfPlace == start_of_packet \/ packet_buffer # <<>>

\* In error: bytes are dropped until a SOP.
DropByte(b) ==
    /\ Arrives(b) /\ HasError /\ b # SOP
    /\ packet_error' = TRUE
    /\ UNCHANGED <<packet_buffer, start_of_packet, end_of_packet, escape,
                   running, delivered, origins>>

\* Mutant: the SOP that ends an error is dropped, too.
ResynchronizeLate(b) ==
    /\ Arrives(b) /\ HasError /\ b = SOP
    /\ cleanup
    /\ UNCHANGED <<running, delivered>>

\* In error: cleanup, then the SOP is taken as the start of a packet.
Resynchronize(b) ==
    /\ Arrives(b) /\ HasError /\ b = SOP
    /\ packet_buffer' = <<SOP>> /\ origins' = {Len(sent)}
    /\ packet_error' = FALSE /\ start_of_packet' = TRUE
    /\ end_of_packet' = FALSE /\ escape' = FALSE
    /\ UNCHANGED <<running, delivered>>

\* A second SOP, or one after other bytes, is the error and is dropped.
RejectSop(b) ==
    /\ Arrives(b) /\ ~HasError /\ b = SOP /\ SopOutOfPlace
    /\ packet_error' = TRUE
    /\ UNCHANGED <<packet_buffer, start_of_packet, end_of_packet, escape,
                   running, delivered, origins>>

StartPacket(b) ==
    /\ Arrives(b) /\ ~HasError /\ b = SOP /\ ~SopOutOfPlace
    /\ Store(SOP)
    /\ start_of_packet' = TRUE
    /\ UNCHANGED <<packet_error, end_of_packet, escape, running, delivered>>

StartEscape(b) ==
    /\ Arrives(b) /\ ~HasError /\ b = ESP
    /\ escape' = TRUE
    /\ UNCHANGED <<packet_buffer, packet_error, start_of_packet, end_of_packet,
                   running, delivered, origins>>

\* Mutant: bytes are stored as they come.
StoredAsSent(b) == b

\* What is stored for an ordinary byte.
Unescape(b) == IF escape THEN XorEsp[b] ELSE b

StoreByte(b) ==
    /\ Arrives(b) /\ ~HasError /\ b \notin Special
    /\ Store(Unescape(b))
    /\ escape' = FALSE
    /\ UNCHANGED <<packet_error, start_of_packet, end_of_packet, running,
                   delivered>>

RejectEop(b) ==
    /\ Arrives(b) /\ ~HasError /\ b = EOP /\ ~start_of_packet
    /\ Store(EOP)
    /\ end_of_packet' = TRUE /\ packet_error' = TRUE
    /\ UNCHANGED <<start_of_packet, escape, running, delivered>>

(***************************************************************************)
(* The two assertions of verify_packet on a finished packet.  The trailer  *)
(* is taken to begin three bytes before the end, but after the header; the *)
(* buffer is zero where nothing was stored.                                *)
(***************************************************************************)
TrailerIndex(packet) ==
    IF Len(packet) - TrailerLen > HeaderLen THEN Len(packet) - TrailerLen
    ELSE HeaderLen

AssertionsHold(packet) ==
    /\ packet[1] = SOP
    /\ TrailerIndex(packet) + TrailerLen <= Len(packet)
    /\ packet[TrailerIndex(packet) + TrailerLen] = EOP

Finished == Append(packet_buffer, EOP)

FinishPacket(b) ==
    /\ Arrives(b) /\ ~HasError /\ b = EOP /\ start_of_packet
    /\ AssertionsHold(Finished)
    /\ delivered' = Append(delivered,
           [content |-> SubSeq(Finished, 2, Len(Finished) - 1),
            origins |-> origins \cup {Len(sent)}])
    /\ cleanup
    /\ UNCHANGED running

Abort(b) ==
    /\ Arrives(b) /\ ~HasError /\ b = EOP /\ start_of_packet
    /\ ~AssertionsHold(Finished)
    /\ Store(EOP) /\ end_of_packet' = TRUE
    /\ running' = FALSE
    /\ UNCHANGED <<packet_error, start_of_packet, escape, delivered>>

-----------------------------------------------------------------------------
Init ==
    /\ packet_buffer = <<>> /\ origins = {}
    /\ packet_error = FALSE /\ start_of_packet = FALSE
    /\ end_of_packet = FALSE /\ escape = FALSE
    /\ running = TRUE
    /\ sent = <<>> /\ position = 0 /\ escaped = FALSE
    /\ delivered = <<>> /\ harmed = {} /\ lost = 0

Next ==
    \/ \E c \in Contents : StartFrame(c)
    \/ LoseByte
    \/ \E b \in Bytes :
          \/ DropByte(b) \/ Resynchronize(b)
          \/ RejectSop(b) \/ StartPacket(b)
          \/ StartEscape(b) \/ StoreByte(b)
          \/ RejectEop(b) \/ FinishPacket(b) \/ Abort(b)

Spec == Init /\ [][Next]_vars

-----------------------------------------------------------------------------
(***************************************************************************)
(* Properties.                                                             *)
(***************************************************************************)
Fits(c) == Len(c) + 2 <= BufferLen

\* How many frames are out, and what verify_packet should make of frame i.
OutCount == IF position = 0 THEN Len(sent) ELSE Len(sent) - 1
WholeFrame(i) == [content |-> sent[i], origins |-> {i}]
Arrived(i) == \E k \in 1..Len(delivered) : delivered[k] = WholeFrame(i)

\* On a line that loses nothing verify_packet is given the contents sent, in
\* order, each once, unescaped, and all but the ones that are too long for the
\* buffer: a packet that overruns it (line 64) costs no other packet.  No
\* assertion fails.
FramesArriveIntact ==
    lost = 0 =>
        /\ running
        /\ \A k \in 1..Len(delivered) :
              \E i \in 1..OutCount :
                 /\ delivered[k] = WholeFrame(i)
                 /\ \A l \in 1..(k - 1) : \A j \in delivered[l].origins : j < i
        /\ \A i \in 1..OutCount : Fits(sent[i]) => Arrived(i)

\* One lost byte never makes one packet out of two frames: a frame whose EOP
\* is missing is given up at the next SOP (line 82).  It takes the loss of
\* both, and the framer does not look at the checksum.
FramesNotJoined ==
    lost <= 1 => \A k \in 1..Len(delivered) :
                    \E i \in 1..Len(sent) : delivered[k].origins = {i}

\* However many bytes are lost, they cost at most the frame after the one
\* they are missing from: the second intact frame is found again (lines 73
\* to 77 and 82 to 92).
RecoversAfterOneFrame ==
    running =>
        \A i \in 1..OutCount :
            Fits(sent[i]) /\ i \notin harmed /\ i - 1 \notin harmed => Arrived(i)

\* The assertions of verify_packet (lines 38 and 51).
NoAssertionFails == running
=============================================================================
