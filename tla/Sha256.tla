------------------------------- MODULE Sha256 -------------------------------
(***************************************************************************)
(* Contexts of DeviceSecret/sha256.c as their callers use them: a message  *)
(* comes in pieces of any lengths, a context is used again, or cloned in   *)
(* the middle of a message.  The deprecated functions are the same without *)
(* the return values, which are always 0.                                  *)
(***************************************************************************)
EXTENDS Sha256Context

CONSTANTS
    Contexts,
    Pieces,     \* lengths of the pieces
    MaxLength,  \* bound: bytes of a message
    MaxStarts   \* bound: messages

\* A length that does not fit a word would be counted without what is beyond
\* (line 272): the callers' pieces are shorter.
PiecesAssumption ==
    /\ Contexts \subseteq Nat /\ Pieces \subseteq 0..(WordModulus - 1) /\ MaxLength \in Nat
    /\ MaxStarts \in Nat

VARIABLES
    ctx,
    stageOf,  \* "none", "init", "started" or "finished"
    message,  \* history: what the context was given since it was started
    output,
    starts    \* history: how many messages were started

sha256Vars == <<ctx, stageOf, message, output, starts>>

\* The next n bytes for c: a context has bytes of its own.
Bytes(c, n) == [i \in 1..n |-> (64 * c + Len(message[c]) + i) % 128]

mbedtls_sha256_init(c) ==
    /\ stageOf[c] = "none"
    /\ ctx' = [ctx EXCEPT ![c] = sha256_init]
    /\ stageOf' = [stageOf EXCEPT ![c] = "init"]
    /\ UNCHANGED <<message, output, starts>>

mbedtls_sha256_starts_ret(c, is224) ==
    /\ stageOf[c] # "none" /\ starts < MaxStarts
    /\ starts' = starts + 1
    /\ ctx' = [ctx EXCEPT ![c] = sha256_starts_ret(@, is224)]
    /\ stageOf' = [stageOf EXCEPT ![c] = "started"]
    /\ message' = [message EXCEPT ![c] = <<>>]
    /\ output' = [output EXCEPT ![c] = <<>>]

mbedtls_sha256_update_ret(c, n) ==
    /\ stageOf[c] = "started" /\ Len(message[c]) + n <= MaxLength
    /\ ctx' = [ctx EXCEPT ![c] = sha256_update_ret(@, Bytes(c, n))]
    /\ message' = [message EXCEPT ![c] = @ \o Bytes(c, n)]
    /\ UNCHANGED <<stageOf, output, starts>>

mbedtls_sha256_finish_ret(c) ==
    /\ stageOf[c] = "started"
    /\ ctx' = [ctx EXCEPT ![c] = sha256_finish_ret(@)]
    /\ output' = [output EXCEPT ![c] = Output(ctx'[c])]
    /\ stageOf' = [stageOf EXCEPT ![c] = "finished"]
    /\ UNCHANGED <<message, starts>>

\* Mutant: the block that is not full yet is not copied.
CloneWithoutBuffer(dst, src) ==
    /\ dst # src /\ stageOf[dst] # "none" /\ stageOf[src] = "started"
    /\ ctx' = [ctx EXCEPT ![dst] = [ctx[src] EXCEPT !.buffer = ctx[dst].buffer]]
    /\ stageOf' = [stageOf EXCEPT ![dst] = "started"]
    /\ message' = [message EXCEPT ![dst] = message[src]]
    /\ output' = [output EXCEPT ![dst] = <<>>]
    /\ UNCHANGED starts

mbedtls_sha256_clone(dst, src) ==
    /\ dst # src /\ stageOf[dst] # "none" /\ stageOf[src] = "started"
    /\ ctx' = [ctx EXCEPT ![dst] = ctx[src]]
    /\ stageOf' = [stageOf EXCEPT ![dst] = "started"]
    /\ message' = [message EXCEPT ![dst] = message[src]]
    /\ output' = [output EXCEPT ![dst] = <<>>]
    /\ UNCHANGED starts

mbedtls_sha256_free(c) ==
    /\ stageOf[c] # "none"
    /\ ctx' = [ctx EXCEPT ![c] = sha256_free]
    /\ stageOf' = [stageOf EXCEPT ![c] = "none"]
    /\ message' = [message EXCEPT ![c] = <<>>]
    /\ output' = [output EXCEPT ![c] = <<>>]
    /\ UNCHANGED starts

Sha256Init ==
    /\ ctx = [c \in Contexts |-> sha256_init]
    /\ stageOf = [c \in Contexts |-> "none"]
    /\ message = [c \in Contexts |-> <<>>]
    /\ output = [c \in Contexts |-> <<>>]
    /\ starts = 0

Sha256Next ==
    \E c \in Contexts :
        \/ mbedtls_sha256_init(c)
        \/ \E is224 \in {0, 1} : mbedtls_sha256_starts_ret(c, is224)
        \/ \E n \in Pieces : mbedtls_sha256_update_ret(c, n)
        \/ mbedtls_sha256_finish_ret(c)
        \/ \E src \in Contexts : mbedtls_sha256_clone(c, src)
        \/ mbedtls_sha256_free(c)

Sha256Spec == Sha256Init /\ [][Sha256Next]_sha256Vars

-----------------------------------------------------------------------------
\* However the message was cut into pieces, and whatever an earlier message or
\* another context left in the buffer, the output is the digest of the message:
\* the same blocks are processed as if it had come whole, counters that went
\* over a word included.
DigestOfMessage ==
    \A c \in Contexts : stageOf[c] = "finished" =>
        LET state == FoldLeft(Compress, InitialState(ctx[c].is224), BlocksOf(message[c]))
        IN  output[c] = IF ctx[c].is224 = 0 THEN state ELSE Leading(state)
=============================================================================
