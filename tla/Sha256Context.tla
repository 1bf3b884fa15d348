--------------------------- MODULE Sha256Context ---------------------------
(***************************************************************************)
(* The functions of DeviceSecret/sha256.c on a context.  The message comes *)
(* in pieces of any length: what does not fill a block is kept in a buffer *)
(* until the next piece or the end, which appends the padding.  What a     *)
(* block does to the state is a parameter (see Sha256SelfTest), and so are *)
(* the sizes, for TLC to get to the limits of the counters.                *)
(***************************************************************************)
EXTENDS Integers, Sequences, SequencesExt

CONSTANTS
    BlockSize,        \* 64
    WordBytes,        \* bytes of a word in the buffer: 4
    WordModulus,      \* 2^32
    Compress(_, _),   \* mbedtls_internal_sha256_process: state and block
    InitialState(_),  \* of SHA-256 for 0, of SHA-224 for 1
    Leading(_)        \* the words of a state that are the digest of SHA-224

LengthAt == BlockSize - 2 * WordBytes

SizesAssumption ==
    /\ BlockSize \in Nat /\ WordBytes \in Nat \ {0} /\ LengthAt > 0
    /\ WordModulus \in Nat \ {0} /\ WordModulus % 8 = 0 /\ WordModulus % BlockSize = 0

Zeros(n) == [i \in 1..n |-> 0]

\* memcpy(buffer + at, bytes, Len(bytes))
Copy(buffer, at, bytes) ==
    [i \in 1..BlockSize |->
        IF i \in (at + 1)..(at + Len(bytes)) THEN bytes[i - at] ELSE buffer[i]]

PutWord(n) == [i \in 1..WordBytes |-> (n \div 256^(WordBytes - i)) % 256]

-----------------------------------------------------------------------------
\* All of the context is zero.
sha256_init == [total |-> <<0, 0>>, state |-> <<>>, buffer |-> Zeros(BlockSize), is224 |-> 0]

\* The buffer keeps what was in it.
sha256_starts_ret(ctx, is224) ==
    [ctx EXCEPT !.total = <<0, 0>>, !.state = InitialState(is224), !.is224 = is224]

Left(ctx) == ctx.total[1] % BlockSize

\* Mutant: the carry is missed when the sum is zero.
CountedWithoutCarry(total, ilen) ==
    LET low == (total[1] + ilen) % WordModulus
    IN  <<low, IF low # 0 /\ low < ilen THEN (total[2] + 1) % WordModulus ELSE total[2]>>

\* The number of bytes in two words.
Counted(total, ilen) ==
    LET low == (total[1] + ilen) % WordModulus
    IN  <<low, IF low < ilen % WordModulus THEN (total[2] + 1) % WordModulus
                                           ELSE total[2]>>

\* Mutant: a piece that just fills the buffer is only stored.
FillsLate(ctx, ilen) == Left(ctx) # 0 /\ ilen > BlockSize - Left(ctx)

\* The buffer was in use and becomes full.
Fills(ctx, ilen) == Left(ctx) # 0 /\ ilen >= BlockSize - Left(ctx)

sha256_update_ret(ctx, input) ==
    LET ilen == Len(input)
        fill == IF Fills(ctx, ilen) THEN BlockSize - Left(ctx) ELSE 0
        full == Copy(ctx.buffer, Left(ctx), SubSeq(input, 1, fill))
        left == IF fill = 0 THEN Left(ctx) ELSE 0
        rest == SubSeq(input, fill + 1, ilen)
        whole == BlockSize * (Len(rest) \div BlockSize)
        blocks == (IF fill = 0 THEN <<>> ELSE <<full>>)
                  \o [j \in 1..(whole \div BlockSize) |->
                         SubSeq(rest, BlockSize * (j - 1) + 1, BlockSize * j)]
    IN  [ctx EXCEPT
            !.total = Counted(@, ilen),
            !.state = FoldLeft(Compress, @, blocks),
            !.buffer = Copy(full, left, SubSeq(rest, whole + 1, Len(rest)))]

\* Mutant: a length that just fits is put into the next block.
RoomNeeded(used) == used < LengthAt

\* Enough room for the length behind the first used bytes.
LengthFits(used) == used <= LengthAt

BitCount(total) ==
    PutWord((total[1] \div (WordModulus \div 8)) + ((total[2] * 8) % WordModulus))
    \o PutWord((total[1] * 8) % WordModulus)

sha256_finish_ret(ctx) ==
    LET used == Left(ctx) + 1
        marked == Copy(ctx.buffer, Left(ctx), <<128>>)
        end == IF LengthFits(used) THEN LengthAt ELSE BlockSize
        padded == Copy(marked, used, Zeros(end - used))
        state == IF LengthFits(used) THEN ctx.state ELSE Compress(ctx.state, padded)
        buffer == IF LengthFits(used) THEN padded ELSE Copy(padded, 0, Zeros(LengthAt))
        last == Copy(buffer, LengthAt, BitCount(ctx.total))
    IN  [ctx EXCEPT !.state = Compress(state, last), !.buffer = last]

\* What sha256_finish_ret stores in output.
Output(ctx) == IF ctx.is224 = 0 THEN ctx.state ELSE Leading(ctx.state)

sha256_free == sha256_init

-----------------------------------------------------------------------------
(***************************************************************************)
(* The reference: FIPS 180 pads the whole message and cuts it into blocks. *)
(***************************************************************************)
Padded(m) ==
    m \o <<128>> \o Zeros((LengthAt - (Len(m) + 1)) % BlockSize)
      \o PutWord(((8 * Len(m)) \div WordModulus) % WordModulus)
      \o PutWord((8 * Len(m)) % WordModulus)

BlocksOf(m) ==
    [j \in 1..(Len(Padded(m)) \div BlockSize) |->
        SubSeq(Padded(m), BlockSize * (j - 1) + 1, BlockSize * j)]
=============================================================================
