--------------------------- MODULE Sha256SelfTest ---------------------------
(***************************************************************************)
(* mbedtls_internal_sha256_process of DeviceSecret/sha256.c, and the self  *)
(* test that compares digests with those of FIPS 180-2.  A word is the set *)
(* of its bits: exclusive or is the symmetric difference, a shift moves    *)
(* the elements.  One step is one round of the compression.                *)
(*                                                                         *)
(* Both builds are modelled: the loop of MBEDTLS_SHA256_SMALLER, which     *)
(* moves the words of A after each round, and the unrolled one, which      *)
(* leaves them in place and lets the names go round.  The blocks are those *)
(* that the functions of Sha256Context make of the test's message.  The    *)
(* two tests with a million bytes are left out.                            *)
(***************************************************************************)
EXTENDS Integers, Sequences, SequencesExt

CONSTANT Smaller  \* is MBEDTLS_SHA256_SMALLER defined?

VARIABLES
    smaller,
    i,        \* the test
    blocks,   \* what is left of its message
    state,    \* of the context
    round,    \* of the block, 64 when they are done
    A, W,
    ret       \* "running", "passed" or "failed"

vars == <<smaller, i, blocks, state, round, A, W, ret>>

-----------------------------------------------------------------------------
(***************************************************************************)
(* Words, from two numbers of 16 bits, and what is done with them.         *)
(***************************************************************************)
Bits(n) == {b \in 0..15 : (n \div 2^b) % 2 = 1}
Word(high, low) == {b + 16 : b \in Bits(high)} \cup Bits(low)
Words(numbers) ==
    [w \in 1..(Len(numbers) \div 2) |-> Word(numbers[2 * w - 1], numbers[2 * w])]

Xor(x, y) == (x \ y) \cup (y \ x)

\* Addition modulo 2^32: the bits that both have are carried.
Plus[x \in SUBSET (0..31), y \in SUBSET (0..31)] ==
    IF y = {} THEN x
    ELSE Plus[Xor(x, y), {b + 1 : b \in (x \cap y) \ {31}}]

SHR(x, n) == {b - n : b \in {c \in x : c >= n}}
ROTR(x, n) == {(b - n) % 32 : b \in x}

S0(x) == Xor(Xor(ROTR(x, 7), ROTR(x, 18)), SHR(x, 3))
S1(x) == Xor(Xor(ROTR(x, 17), ROTR(x, 19)), SHR(x, 10))
S2(x) == Xor(Xor(ROTR(x, 2), ROTR(x, 13)), ROTR(x, 22))

\* Mutant: a shift for the last rotation.
S3Shifted(x) == Xor(Xor(ROTR(x, 6), ROTR(x, 11)), SHR(x, 25))

S3(x) == Xor(Xor(ROTR(x, 6), ROTR(x, 11)), ROTR(x, 25))
F0(x, y, z) == (x \cap y) \cup (z \cap (x \cup y))
F1(x, y, z) == Xor(z, x \cap Xor(y, z))

K == Words(<<
    \h428A, \h2F98, \h7137, \h4491, \hB5C0, \hFBCF, \hE9B5, \hDBA5,
    \h3956, \hC25B, \h59F1, \h11F1, \h923F, \h82A4, \hAB1C, \h5ED5,
    \hD807, \hAA98, \h1283, \h5B01, \h2431, \h85BE, \h550C, \h7DC3,
    \h72BE, \h5D74, \h80DE, \hB1FE, \h9BDC, \h06A7, \hC19B, \hF174,
    \hE49B, \h69C1, \hEFBE, \h4786, \h0FC1, \h9DC6, \h240C, \hA1CC,
    \h2DE9, \h2C6F, \h4A74, \h84AA, \h5CB0, \hA9DC, \h76F9, \h88DA,
    \h983E, \h5152, \hA831, \hC66D, \hB003, \h27C8, \hBF59, \h7FC7,
    \hC6E0, \h0BF3, \hD5A7, \h9147, \h06CA, \h6351, \h1429, \h2967,
    \h27B7, \h0A85, \h2E1B, \h2138, \h4D2C, \h6DFC, \h5338, \h0D13,
    \h650A, \h7354, \h766A, \h0ABB, \h81C2, \hC92E, \h9272, \h2C85,
    \hA2BF, \hE8A1, \hA81A, \h664B, \hC24B, \h8B70, \hC76C, \h51A3,
    \hD192, \hE819, \hD699, \h0624, \hF40E, \h3585, \h106A, \hA070,
    \h19A4, \hC116, \h1E37, \h6C08, \h2748, \h774C, \h34B0, \hBCB5,
    \h391C, \h0CB3, \h4ED8, \hAA4A, \h5B9C, \hCA4F, \h682E, \h6FF3,
    \h748F, \h82EE, \h78A5, \h636F, \h84C8, \h7814, \h8CC7, \h0208,
    \h90BE, \hFFFA, \hA450, \h6CEB, \hBEF9, \hA3F7, \hC671, \h78F2>>)

State(is224) == Words(
    IF is224 = 0
    THEN <<\h6A09, \hE667, \hBB67, \hAE85, \h3C6E, \hF372, \hA54F, \hF53A,
           \h510E, \h527F, \h9B05, \h688C, \h1F83, \hD9AB, \h5BE0, \hCD19>>
    ELSE <<\hC105, \h9ED8, \h367C, \hD507, \h3070, \hDD17, \hF70E, \h5939,
           \hFFC0, \h0B31, \h6858, \h1511, \h64F9, \h8FA7, \hBEFA, \h4FA4>>)

\* GET_UINT32_BE, byte by byte.
GetWord(data, w) ==
    Word(256 * data[4 * w + 1] + data[4 * w + 2], 256 * data[4 * w + 3] + data[4 * w + 4])

-----------------------------------------------------------------------------
(***************************************************************************)
(* The blocks of a message given to the context in one piece, and the      *)
(* tests.  Counters of 30 bits: TLC's numbers have 31, the messages a few  *)
(* hundred.                                                                *)
(***************************************************************************)
Keep(kept, block) == Append(kept, block)
Nothing(is224) == <<>>
Same(kept) == kept

Context == INSTANCE Sha256Context WITH
    BlockSize <- 64, WordBytes <- 4, WordModulus <- 2^30,
    Compress <- Keep, InitialState <- Nothing, Leading <- Same

Blocks(message) ==
    LET started == Context!sha256_starts_ret(Context!sha256_init, 0)
    IN  Context!sha256_finish_ret(Context!sha256_update_ret(started, message)).state

\* "abc", and "abcdbcdecdef..." with 56 letters, which needs a second block
\* for its length.
sha256_test_buf == <<
    [n \in 1..3 |-> 96 + n],
    [n \in 1..56 |-> 97 + ((n - 1) \div 4) + ((n - 1) % 4)]>>

Tests == {0, 1, 3, 4}
Message(test) == sha256_test_buf[(test % 3) + 1]
Is224(test) == IF test < 3 THEN 1 ELSE 0

sha256_test_sum == [test \in Tests |-> Words(
    CASE test = 0 -> <<\h2309, \h7D22, \h3405, \hD822, \h8642, \hA477, \hBDA2, \h55B3,
                    \h2AAD, \hBCE4, \hBDA0, \hB3F7, \hE36C, \h9DA7>>
      [] test = 1 -> <<\h7538, \h8B16, \h5127, \h76CC, \h5DBA, \h5DA1, \hFD89, \h0150,
                    \hB0C6, \h455C, \hB4F5, \h8B19, \h5252, \h2525>>
      [] test = 3 -> <<\hBA78, \h16BF, \h8F01, \hCFEA, \h4141, \h40DE, \h5DAE, \h2223,
                    \hB003, \h61A3, \h9617, \h7A9C, \hB410, \hFF61, \hF200, \h15AD>>
      [] test = 4 -> <<\h248D, \h6A61, \hD206, \h38B8, \hE5C0, \h2693, \h0C3E, \h6039,
                    \hA33C, \hE459, \h64FF, \h2167, \hF6EC, \hEDD4, \h19DB, \h06C1>>)]

-----------------------------------------------------------------------------
StartTest(test) ==
    /\ i' = test
    /\ blocks' = Blocks(Message(test))
    /\ state' = State(Is224(test))
    /\ A' = State(Is224(test)) /\ W' = <<>> /\ round' = 0

\* W[t], of the block or, after the block, of what was before it.
R(t) ==
    IF t < 16 THEN GetWord(Head(blocks), t)
    ELSE Plus[Plus[S1(W[t - 1]), W[t - 6]], Plus[S0(W[t - 14]), W[t - 15]]]

\* What P puts in place of d and of h, the words of A being a to h.
P(a, x, k) ==
    LET temp1 == Plus[Plus[Plus[a[8], S3(a[5])], Plus[F1(a[5], a[6], a[7]), k]], x]
        temp2 == Plus[S2(a[1]), F0(a[1], a[2], a[3])]
    IN  <<Plus[a[4], temp1], Plus[temp1, temp2]>>

\* h becomes a, and every other word moves on.
Moved(new) == <<new[2], A[1], A[2], A[3], new[1], A[5], A[6], A[7]>>

\* Where the unrolled round t has its n-th argument.
Place(t, n) == ((n - 1 - t) % 8) + 1

InPlace(t, new) ==
    [A EXCEPT ![Place(t, 4)] = new[1], ![Place(t, 8)] = new[2]]

Round ==
    /\ ret = "running" /\ round < 64
    /\ \E x \in {R(round)} :
          \E new \in {P(IF smaller THEN A ELSE [n \in 1..8 |-> A[Place(round, n)]],
                        x, K[round + 1])} :
             /\ W' = Append(W, x)
             /\ A' = IF smaller THEN Moved(new) ELSE InPlace(round, new)
    /\ round' = round + 1
    /\ UNCHANGED <<smaller, i, blocks, state, ret>>

EndBlock ==
    /\ ret = "running" /\ round = 64 /\ blocks # <<>>
    /\ state' = [n \in 1..8 |-> Plus[state[n], A[n]]]
    /\ blocks' = Tail(blocks)
    /\ IF Len(blocks) = 1 THEN UNCHANGED <<A, W, round>>
       ELSE A' = state' /\ W' = <<>> /\ round' = 0
    /\ UNCHANGED <<smaller, i, ret>>

\* Only the words that belong to the digest are compared.
SumAgrees == SubSeq(state, 1, 8 - Is224(i)) = sha256_test_sum[i]

EndTest ==
    /\ ret = "running" /\ blocks = <<>>
    /\ IF ~SumAgrees
       THEN ret' = "failed" /\ UNCHANGED <<i, blocks, state, round, A, W>>
       ELSE IF \A test \in Tests : test <= i
            THEN ret' = "passed" /\ UNCHANGED <<i, blocks, state, round, A, W>>
            ELSE /\ StartTest(CHOOSE test \in Tests :
                        test > i /\ \A other \in Tests : other > i => test <= other)
                 /\ UNCHANGED ret
    /\ UNCHANGED smaller

Init ==
    /\ smaller \in Smaller
    /\ i = 0 /\ blocks = Blocks(Message(0))
    /\ state = State(1) /\ A = State(1) /\ W = <<>> /\ round = 0
    /\ ret = "running"

Next == Round \/ EndBlock \/ EndTest

Spec == Init /\ [][Next]_vars
LiveSpec == Spec /\ WF_vars(Next)

-----------------------------------------------------------------------------
\* Both builds compute the digests of FIPS 180-2 for SHA-224 and SHA-256, of a
\* message in one block and of one whose length needs a second one: the self
\* test comes to its end, and returns 0.
SelfTestPasses == <>(ret = "passed")
=============================================================================
