---------------------------- MODULE SppChecksum ----------------------------
(***************************************************************************)
(* BT/Checksum/checksum.c: it takes one packet out of the bytes of a frame *)
(* and compares its checksum with the sum it computes.  The header is read *)
(* as it comes, the data with the escapes undone, one byte per iteration,  *)
(* and the last three bytes are taken for the checksum and EOP.            *)
(*                                                                         *)
(* The sender is external and the same as in SppFramer: everything between *)
(* SOP and EOP has its special bytes escaped, also in the header and in    *)
(* the checksum, where checksum.c does not undo it.  One byte of what was  *)
(* sent may have been changed on the way, to any other.                    *)
(***************************************************************************)
EXTENDS Integers, Sequences, SequencesExt

CONSTANTS
    Headers,    \* <<cmd, err, seqId>>
    Data,       \* the data of a packet
    Changed,    \* what a byte may have been changed to
    ChangedAt,  \* bound: which byte of the frame may have been changed
    XorEsp      \* XorEsp[b] is b ^ ESP

\* gadget_packet.h
SOP == 240
EOP == 241
ESP == 242
Special == {SOP, EOP, ESP}

Byte == 0..255

InputAssumption ==
    /\ Headers \subseteq Byte \X Byte \X Byte
    /\ Data \subseteq Seq(Byte)
    /\ Changed \subseteq Byte
    /\ XorEsp \in [Byte -> Byte]
    /\ \A b \in Byte : XorEsp[XorEsp[b]] = b
    /\ \A b \in Special : XorEsp[b] \notin Special

VARIABLES
    header, data,  \* history: what was sent
    buf,           \* the bytes of the frame
    intact,        \* history: buf is as it was sent
    stage, index, escape,
    resp,          \* the packet read: its header and its data
    payload_len    \* in compute_checksum

vars == <<header, data, buf, intact, stage, index, escape, resp, payload_len>>

-----------------------------------------------------------------------------
(***************************************************************************)
(* The sender.                                                             *)
(***************************************************************************)
\* What op makes of the parts, which TLC takes by halves: together[n][i] is of
\* the n parts from the i-th.
Together(op(_, _), nothing, parts) ==
    LET together[n \in Nat] ==
            [i \in Nat |->
                IF n = 0 THEN nothing
                ELSE IF n = 1 THEN parts[i]
                ELSE op(together[n \div 2][i], together[n - n \div 2][i + n \div 2])]
    IN  together[Len(parts)][1]

Sum(bytes) == Together(+, 0, bytes) % 65536

\* The seqId is not part of the sum.
SentChecksum(h, d) == Sum(<<h[1], h[2]>> \o d)

BigEndian(n) == <<n \div 256, n % 256>>

EscapedByte(b) == IF b \in Special THEN <<ESP, XorEsp[b]>> ELSE <<b>>

Escaped(bytes) == Together(\o, <<>>, [i \in DOMAIN bytes |-> EscapedByte(bytes[i])])

Frame(h, d) ==
    <<SOP>> \o Escaped(h \o d \o BigEndian(SentChecksum(h, d))) \o <<EOP>>

Init ==
    /\ header \in Headers /\ data \in Data
    /\ LET frame == Frame(header, data)
       IN  \/ intact = TRUE /\ buf = frame
           \/ /\ intact = FALSE
              /\ \E i \in ChangedAt \cap DOMAIN frame, b \in Changed :
                    frame[i] # b /\ buf = [frame EXCEPT ![i] = b]
    /\ stage = "header" /\ index = 1 /\ escape = FALSE
    /\ resp = [header |-> <<>>, data |-> <<>>] /\ payload_len = 0

-----------------------------------------------------------------------------
ReadHeader ==
    /\ stage = "header"
    /\ stage' = IF buf[1] = SOP THEN "data" ELSE "aborted"
    /\ resp' = [resp EXCEPT !.header = SubSeq(buf, 2, 4)]
    /\ index' = 5
    /\ UNCHANGED <<header, data, buf, intact, escape, payload_len>>

InData == stage = "data" /\ index <= Len(buf) - 3

StartEscape ==
    /\ InData /\ buf[index] = ESP
    /\ escape' = TRUE
    /\ index' = index + 1
    /\ UNCHANGED <<header, data, buf, intact, stage, resp, payload_len>>

\* Mutant: the escape is not cleared.
StoreAndStayEscaped ==
    /\ InData /\ buf[index] # ESP
    /\ resp' = [resp EXCEPT !.data =
           Append(@, IF escape THEN XorEsp[buf[index]] ELSE buf[index])]
    /\ index' = index + 1
    /\ UNCHANGED <<header, data, buf, intact, escape, stage, payload_len>>

StoreByte ==
    /\ InData /\ buf[index] # ESP
    /\ resp' = [resp EXCEPT !.data =
           Append(@, IF escape THEN XorEsp[buf[index]] ELSE buf[index])]
    /\ escape' = FALSE
    /\ index' = index + 1
    /\ UNCHANGED <<header, data, buf, intact, stage, payload_len>>

\* Mutant: the sum is kept in a byte.
compute_checksum_in_a_byte(r, length) ==
    Sum(<<r.header[1], r.header[2]>> \o SubSeq(r.data, 1, length)) % 256

compute_checksum(r, length) ==
    Sum(<<r.header[1], r.header[2]>> \o SubSeq(r.data, 1, length))

\* The two assertions after the loop.
CheckTrailer ==
    /\ stage = "data" /\ index > Len(buf) - 3
    /\ payload_len' = Len(resp.data)
    /\ stage' = IF /\ buf[index + 2] = EOP
                   /\ compute_checksum(resp, payload_len')
                          = buf[index] * 256 + buf[index + 1]
                THEN "accepted" ELSE "aborted"
    /\ UNCHANGED <<header, data, buf, intact, index, escape, resp>>

Next == ReadHeader \/ StartEscape \/ StoreByte \/ CheckTrailer

Spec == Init /\ [][Next]_vars

-----------------------------------------------------------------------------
\* Nothing is escaped in header and checksum: cmd, err, seqId and the two bytes
\* of the sum are not special.
Plain(h, d) ==
    \A b \in {h[1], h[2], h[3]} \cup ToSet(BigEndian(SentChecksum(h, d))) :
        b \notin Special

\* An intact frame with no escapes in header and checksum passes the assertions
\* with the data that was sent, escapes undone wherever they are in the data and
\* sums beyond 16 bits included.  (IntactPasses is about the others.)
IntactAccepted ==
    intact /\ stage \in {"accepted", "aborted"} /\ Plain(header, data) =>
        stage = "accepted" /\ resp = [header |-> header, data |-> data]

\* What may be overlooked: the seqId is another, which is not summed up, or an ESP
\* came or went in the data, so that a byte less or more is taken for data and the
\* one behind it for another.  EE 02 is read as EE 02, and F2 02 as F0, and both
\* have the same sum.
Overlooks(sent, got) ==
    \E i \in DOMAIN sent :
        /\ got[i] # sent[i]
        /\ i = 4 \/ (i \in 5..Len(sent) - 3 /\ ESP \in {sent[i], got[i]})

\* Any other change of one byte is found out, in SOP and EOP, in header, data or
\* checksum, also to SOP or EOP.
ChangeDetected ==
    ~intact /\ stage = "accepted" /\ Plain(header, data) =>
        Overlooks(Frame(header, data), buf)

\* The program accepts what was sent, with the data that were sent, if nothing
\* needs an escape in header and checksum, and then no frame in which a byte was
\* changed, but for those of Overlooks.
OnlyIntactAccepted == IntactAccepted /\ ChangeDetected

\* checksum.c:48 and 78: the last three bytes are the checksum and EOP, and the
\* sum is theirs, of every packet that was exchanged without an error.
IntactPasses == intact => stage # "aborted"
=============================================================================
