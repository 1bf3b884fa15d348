---------------------------- MODULE DeviceSecret ----------------------------
(***************************************************************************)
(* DeviceSecret/create_secret.c: main puts the gadget id and the secret of *)
(* the device type one after the other, hashes them, and writes the digest *)
(* as text.  The blocks that are hashed are those that the functions of    *)
(* Sha256Context make; which digest belongs to them is left open.          *)
(***************************************************************************)
EXTENDS Integers, Sequences, SequencesExt

CONSTANTS
    Ids, Secrets,  \* gadgetId and device_secret, as sequences of characters
    Digests        \* what 32 bytes a digest may be

SecretSize == 200

\* Strings end before their first zero, and strcat does not look at the size of
\* secret.
SecretAssumption ==
    /\ Ids \cup Secrets \subseteq Seq(1..255)
    /\ \A id \in Ids, s \in Secrets : Len(id) + Len(s) < SecretSize
    /\ \A d \in Digests : d \in [1..32 -> 0..255]

VARIABLES
    gadgetId, device_secret,
    stage,  \* "concatenate", "hash", "convert" or "done"
    secret, blocks, token, index, dst

vars == <<gadgetId, device_secret, stage, secret, blocks, token, index, dst>>

Keep(kept, block) == Append(kept, block)
Nothing(is224) == <<>>
Same(kept) == kept

\* Counters of 30 bits, for messages of a few hundred bytes.
Context == INSTANCE Sha256Context WITH
    BlockSize <- 64, WordBytes <- 4, WordModulus <- 2^30,
    Compress <- Keep, InitialState <- Nothing, Leading <- Same

\* main
Concatenate ==
    /\ stage = "concatenate" /\ stage' = "hash"
    /\ secret' = gadgetId \o device_secret
    /\ UNCHANGED <<gadgetId, device_secret, blocks, token, index, dst>>

\* Mutant: a signed char would do for the length.
LengthInSevenBits(length) == length % 128

\* The len of sha256 is an uint8_t.
LengthPassed(length) == length % 256

\* No function of the context reports an error.
sha256 ==
    /\ stage = "hash" /\ stage' = "convert"
    /\ LET source == SubSeq(secret, 1, LengthPassed(Len(secret)))
           started == Context!sha256_starts_ret(Context!sha256_init, 0)
           updated == Context!sha256_update_ret(started, source)
       IN  blocks' = Context!sha256_finish_ret(updated).state
    /\ token' \in Digests
    /\ UNCHANGED <<gadgetId, device_secret, secret, index, dst>>

\* Mutant: nine counts as a letter.
CharacterLate(value) == IF value > 8 THEN 97 + value - 10 ELSE 48 + value

\* 'a' is 97, '0' is 48.
Character(value) == IF value > 9 THEN 97 + value - 10 ELSE 48 + value

convert_to_utf8 ==
    /\ stage = "convert"
    /\ IF index < 32
       THEN /\ dst' = dst \o <<Character(token[index + 1] \div 16),
                               Character(token[index + 1] % 16)>>
            /\ index' = (index + 1) % 256 /\ UNCHANGED stage
       ELSE dst' = Append(dst, 0) /\ stage' = "done" /\ UNCHANGED index
    /\ UNCHANGED <<gadgetId, device_secret, secret, blocks, token>>

Init ==
    /\ gadgetId \in Ids /\ device_secret \in Secrets
    /\ stage = "concatenate" /\ secret = <<>> /\ blocks = <<>>
    /\ token = [b \in 1..32 |-> 0] /\ index = 0 /\ dst = <<>>

Next == Concatenate \/ sha256 \/ convert_to_utf8

Spec == Init /\ [][Next]_vars

-----------------------------------------------------------------------------
\* Every character of id and secret is hashed, though the length has one byte:
\* the blocks, read one after the other, begin with the whole of both, in
\* order, and what follows is the padding's first byte.
WholeSecretHashed ==
    stage = "convert" =>
        IsPrefix(gadgetId \o device_secret \o <<128>>, FlattenSeq(blocks))

\* The value of a hexadecimal digit.
Digit(character) ==
    CHOOSE v \in -1..15 :
        \/ character = 48 + v /\ v \in 0..9
        \/ character = 87 + v /\ v \in 10..15
        \/ v = -1 /\ character \notin 48..57 \cup 97..102

\* The text fits dst, ends with a zero and gives the token back: of two tokens
\* that differ the texts do, too.
TextIsToken ==
    stage = "done" =>
        /\ Len(dst) = 65 /\ dst[65] = 0
        /\ \A b \in 1..32 : 16 * Digit(dst[2 * b - 1]) + Digit(dst[2 * b]) = token[b]
=============================================================================
