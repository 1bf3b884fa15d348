------------------------------- MODULE SdpDb -------------------------------
(***************************************************************************)
(* BT/SDP/sdp_db.c: the table of services, with its lengths written by     *)
(* hand, and set_sdp_db, which stores the product and the vendor id at     *)
(* four positions that are written by hand, too.  The macros that the      *)
(* table is made of are those of the Bluetooth stack, which is not part of *)
(* the repository: how long they are is taken from the comments in the     *)
(* table.  A peer reads the table by its lengths.                          *)
(***************************************************************************)
EXTENDS Integers, Sequences, SequencesExt

CONSTANT Ids  \* what set_sdp_db is called with

IdsAssumption == \A n \in Ids : n \in Nat /\ n < 65536

VARIABLES
    sdp_database,  \* its bytes
    pid, vid       \* history: the last call's arguments, 0 before the first

vars == <<sdp_database, pid, vid>>

-----------------------------------------------------------------------------
(***************************************************************************)
(* The table: an attribute is its name and how many bytes it takes.        *)
(***************************************************************************)
Attribute(name, size) == [name |-> name, size |-> size]

RECORD_HANDLE == Attribute("RECORD_HANDLE", 8)
CLASS_ID == Attribute("CLASS_ID", 8)
CLASS_ID128 == Attribute("CLASS_ID128", 6 + 16)
RFCOMM_PROTOCOL_DESC_LIST == Attribute("RFCOMM_PROTOCOL_DESC_LIST", 17)
PROTOCOL_DESC_LIST == Attribute("PROTOCOL_DESC_LIST", 18)
BROWSE_LIST == Attribute("BROWSE_LIST", 8)
PROFILE_DESC_LIST == Attribute("PROFILE_DESC_LIST", 13)
TEXT_1(length) == Attribute("SERVICE_NAME", 5 + length)
UINT2(name) == Attribute(name, 6)
BOOLEAN1(name) == Attribute(name, 5)

SerialPort == <<RECORD_HANDLE, CLASS_ID, RFCOMM_PROTOCOL_DESC_LIST, BROWSE_LIST,
                PROFILE_DESC_LIST, TEXT_1(10)>>
Networking == SerialPort
GadgetUuid == <<RECORD_HANDLE, CLASS_ID128, PROTOCOL_DESC_LIST, TEXT_1(6)>>
DeviceId == <<RECORD_HANDLE, CLASS_ID, PROTOCOL_DESC_LIST,
              UINT2("SPECIFICATION_ID"), UINT2("VENDOR_ID"), UINT2("PRODUCT_ID"),
              UINT2("PRODUCT_VERSION"), BOOLEAN1("PRIMARY_RECORD"),
              UINT2("VENDOR_ID_SOURCE")>>

Records == <<SerialPort, Networking, GadgetUuid, DeviceId>>

\* Mutant: the third record has the length of the others.
EqualLengths == <<69, 69, 69, 69>>

\* The lengths of SDP_ATTR_SEQUENCE_1 in front of the records, and of
\* SDP_ATTR_SEQUENCE_2 in front of them all.
SEQUENCE_1 == <<69, 69, 59, 69>>
SEQUENCE_2 == 278

SequenceHeader2 == 3
SequenceHeader1 == 2

Size(attributes) == FoldLeft(LAMBDA sum, a : sum + a.size, 0, attributes)
Sum(lengths) == FoldLeft(+, 0, lengths)

sdp_database_len ==
    SequenceHeader2
    + Sum([r \in DOMAIN Records |-> SequenceHeader1 + Size(Records[r])])

-----------------------------------------------------------------------------
\* Mutant: the locations of the vendor id are those of the product id.
ProductAtVendor(p, v) ==
    [i \in {252, 253, 258, 259} |->
        CASE i = 258 -> p \div 256 [] i = 259 -> p % 256
          [] i = 253 -> v \div 256 [] i = 252 -> v % 256]

\* What is stored where (sdp_db.h).
Patch(p, v) ==
    [i \in {252, 253, 258, 259} |->
        CASE i = 258 -> p \div 256 [] i = 259 -> p % 256
          [] i = 252 -> v \div 256 [] i = 253 -> v % 256]

set_sdp_db(p, v) ==
    /\ sdp_database' = [i \in DOMAIN sdp_database |->
           IF i \in DOMAIN Patch(p, v) THEN Patch(p, v)[i] ELSE sdp_database[i]]
    /\ pid' = p /\ vid' = v

-----------------------------------------------------------------------------
(***************************************************************************)
(* The peer.  Where it looks for attribute a of record r: it skips records *)
(* by the length in front of them, attributes by the length they have.     *)
(***************************************************************************)
RecordAt(r) ==
    SequenceHeader2 + Sum([q \in 1..(r - 1) |-> SequenceHeader1 + SEQUENCE_1[q]])

AttributeAt(r, a) ==
    RecordAt(r) + SequenceHeader1 + Size(SubSeq(Records[r], 1, a - 1))

\* The value of an UINT2 follows three bytes with its name and one with its type.
Uint2(r, name) ==
    LET a == CHOOSE i \in DOMAIN Records[r] : Records[r][i].name = name
        at == AttributeAt(r, a) + 4
    IN  sdp_database[at] * 256 + sdp_database[at + 1]

-----------------------------------------------------------------------------
\* Of the bytes of the table only those are told apart that the values of the
\* device record are made of; -1 stands for every other.
Init ==
    /\ sdp_database = [i \in 0..(sdp_database_len - 1) |->
           CASE i = 246 -> 1 [] i = 247 -> 3     \* SPECIFICATION_ID 0x103
             [] i \in 252..253 -> 0              \* VENDOR_ID
             [] i \in 258..259 -> 0              \* PRODUCT_ID
             [] i = 264 -> 0 [] i = 265 -> 1     \* PRODUCT_VERSION
             [] OTHER -> -1]
    /\ pid = 0 /\ vid = 0

Next == \E p \in Ids, v \in Ids : set_sdp_db(p, v)

Spec == Init /\ [][Next]_vars

-----------------------------------------------------------------------------
\* A peer finds the ids that were set last where it looks for them, and what
\* was around them as it was: the positions of sdp_db.h are those that the
\* lengths of the records before them lead to.
IdsFound ==
    /\ Uint2(4, "VENDOR_ID") = vid
    /\ Uint2(4, "PRODUCT_ID") = pid
    /\ Uint2(4, "SPECIFICATION_ID") = 259
    /\ Uint2(4, "PRODUCT_VERSION") = 1

\* A peer that goes from record to record leaves each where its attributes
\* end and the last one where the table ends.
RecordsEndWhereTheySay ==
    /\ \A r \in DOMAIN Records :
          AttributeAt(r, Len(Records[r]) + 1) = RecordAt(r + 1)
    /\ RecordAt(Len(Records) + 1) = Cardinality(DOMAIN sdp_database)

\* The comment on the length of the table (line 14): the sum of all records.
LengthIsSumOfRecords ==
    SEQUENCE_2 = Cardinality(DOMAIN sdp_database) - SequenceHeader2
=============================================================================
