-------------------------------- MODULE Eir --------------------------------
(***************************************************************************)
(* construct_gadget_eir of BT/EIR/bluetooth_eir.c: three structures, each  *)
(* a byte with its length, a byte with its type and the data, are appended *)
(* to a buffer at *p_len, which has one byte.  Whoever answers inquiries   *)
(* with the buffer reads it back from length to length.                    *)
(***************************************************************************)
EXTENDS Integers, Sequences

CONSTANTS
    NameLengths,  \* lengths of gadget_name
    OldLengths    \* what *p_len may be before a call

\* bluetooth_eir.h
EIR_TYPE_FULL_NAME == 9
EIR_TYPE_GLOBAL_UUID == 6
EIR_TYPE_MANU_DATA == 255
EIR_NUM_PAGED_SRVC == 1
EIR_PID_SIZE == 2
EIR_VID_SIZE == 2
EIR_UUID_SIZE == 4

\* What can be counted in *p_len besides the 33 bytes that are not the name.
\* "Assuming that the buffer is sufficient" (line 130).
EirAssumption ==
    /\ NameLengths \subseteq 0..(255 - 33)
    /\ OldLengths \subseteq 0..255

VARIABLES
    pc,         \* the call to make next
    nameLen,    \* strlen(gadget_name)
    p_len,      \* *p_len
    structures, \* what was written: where, with which length and type
    written     \* history: how many bytes were written

vars == <<pc, nameLen, p_len, structures, written>>

\* A structure of size bytes, its length and type included, at *p_len.
AppendStructure(length, type, size) ==
    /\ structures' = Append(structures,
           [at |-> p_len, length |-> length % 256, type |-> type])
    /\ p_len' = (p_len + size) % 256
    /\ written' = written + size
    /\ UNCHANGED nameLen

\* Mutant: the byte of the type is not counted.
UuidLengthWithoutType == 16 * EIR_NUM_PAGED_SRVC

UuidLength == 16 * EIR_NUM_PAGED_SRVC + 1

\* The VID of the maker and that of Amazon; the terminating zero is not part
\* of the structure.
ManufacturerLength == 1 + EIR_PID_SIZE + EIR_VID_SIZE + EIR_VID_SIZE + EIR_UUID_SIZE

construct_gadget_eir ==
    /\ pc = "construct" /\ pc' = "name"
    /\ p_len' = 0
    /\ UNCHANGED <<nameLen, structures, written>>

add_gadget_name_to_eir ==
    /\ pc = "name" /\ pc' = "uuid"
    /\ AppendStructure(1 + nameLen, EIR_TYPE_FULL_NAME, 2 + nameLen)

add_gadget_uuid128_to_eir ==
    /\ pc = "uuid" /\ pc' = "manufacturer"
    /\ AppendStructure(UuidLength, EIR_TYPE_GLOBAL_UUID, 2 + 4 * 4)

add_gadget_pid_vid_to_eir ==
    /\ pc = "manufacturer" /\ pc' = "done"
    /\ AppendStructure(ManufacturerLength, EIR_TYPE_MANU_DATA,
                       2 + 3 * 2 + 4 + 1)

Init ==
    /\ pc = "construct"
    /\ nameLen \in NameLengths /\ p_len \in OldLengths
    /\ structures = <<>> /\ written = 0

Next ==
    \/ construct_gadget_eir
    \/ add_gadget_name_to_eir
    \/ add_gadget_uuid128_to_eir
    \/ add_gadget_pid_vid_to_eir

Spec == Init /\ [][Next]_vars

-----------------------------------------------------------------------------
After(s) == s.at + 1 + s.length

\* A reader that goes from length to length meets the three structures, each
\* where it was written, and after the last the terminating zero, which is
\* the last byte that *p_len counts; *p_len counts all that was written.
ReadsBack ==
    pc = "done" =>
        /\ [i \in 1..3 |-> structures[i].type] =
               <<EIR_TYPE_FULL_NAME, EIR_TYPE_GLOBAL_UUID, EIR_TYPE_MANU_DATA>>
        /\ structures[1].at = 0
        /\ structures[2].at = After(structures[1])
        /\ structures[3].at = After(structures[2])
        /\ p_len = After(structures[3]) + 1
        /\ p_len = written
=============================================================================
