----------------------------- MODULE MCPrograms -----------------------------
(***************************************************************************)
(* What the small programs are given.                                      *)
(***************************************************************************)
EXTENDS Programs, Bitwise

\* Every name that *p_len can count.
MCNameLengths == 0..222

\* All data of up to three bytes over special values, what they are escaped to,
\* a byte that makes up for a lost escape and the limit of a byte; and data whose
\* sum does not fit 16 bits.  Headers and sums with and without special bytes.
Values == {2, 238, 240, 242, 255}
MCHeaders == {<<2, 0, 1>>, <<255, 1, 7>>, <<3, 0, 242>>}
MCData == UNION {[1..n -> Values] : n \in 0..3} \cup {[i \in 1..258 |-> 255]}
MCChangedAt == 1..12
MCXorEsp == [b \in 0..255 |-> b ^^ 242]

\* The arguments of main, none, and the longest.
Longest == "012345678901234567890123456789012345678901234567890123456789012"
MCAssetIds == {"assetID1", Longest}
MCUrls == {"url1", "", Longest}

\* Lengths of id and secret around the ends of a block and of the buffer, every
\* character distinct from its neighbours and from the padding; every value of
\* a byte in some digest.
Characters(first, length) == [i \in 1..length |-> 33 + ((first + i) % 90)]
MCGadgetIds == {Characters(0, length) : length \in {1, 10, 63, 64, 80}}
MCSecrets == {Characters(7, length) : length \in {0, 45, 64, 118, 119}}
MCDigests == {[b \in 1..32 |-> 32 * k + b - 1] : k \in 0..7}
=============================================================================
