---------------------------- MODULE MCSppFramer ----------------------------
(***************************************************************************)
(* Instances of SppFramer: the special bytes of gadget_packet.h, what they *)
(* are escaped to, and one pair of ordinary bytes.                         *)
(***************************************************************************)
EXTENDS SppFramer, Bitwise

MCBytes == {240, 241, 242, 2, 3, 0, 16, 226}

MCXorEsp == [b \in MCBytes |-> b ^^ 242]

\* The shortest content, one that needs escapes at its ends and in a row, the
\* longest that fits a buffer that takes two of the shortest, and one that is a
\* byte too long.
MCContents == {
    <<16, 0, 2, 3, 226>>,
    <<240, 16, 242, 242, 241>>,
    <<2, 0, 16, 240, 3, 226, 0, 16, 2, 3, 226>>,
    <<2, 0, 16, 0, 3, 226, 16, 2, 2, 0, 3, 16>> }
=============================================================================
