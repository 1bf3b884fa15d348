---------------------------- MODULE SharedLemmas ----------------------------
(***************************************************************************)
(* Facts that proofs in this project share, about natural numbers          *)
(* (induction, counting round a modulus), about sequences, and about folds *)
(* over sequences.                                                         *)
(***************************************************************************)
EXTENDS Integers, SequencesExt, SequenceTheorems, WellFoundedInduction, TLAPS

\* What a fold does with each element: proofs that fold give it a value.
CONSTANT Op(_, _)

(***************************************************************************)
(* Induction.  The theorems that the library has take operators as         *)
(* parameters; the one on sets that have a least element does not, and     *)
(* what is needed follows from it.                                         *)
(***************************************************************************)
NatRel == {ss \in Nat \X Nat : ss[1] < ss[2]}

LEMMA NatWellFounded == IsWellFoundedOn(NatRel, Nat)
  BY NatLessThanWellFounded, Zenon DEF OpToRel, NatRel

\* A set that has 0 and, with each number, the next, has all numbers.
LEMMA SetInduction ==
    ASSUME NEW T, 0 \in T, \A n \in Nat : n \in T => n + 1 \in T
    PROVE  Nat \subseteq T
<1> DEFINE U == {n \in Nat : n \notin T}
<1> SUFFICES ASSUME U # {} PROVE FALSE
  OBVIOUS
<1>1. PICK x \in U : \A y \in U : ~(<<y, x>> \in NatRel)
  BY NatWellFounded, WFMin, U \subseteq Nat
<1>2. x - 1 \in Nat /\ x - 1 < x
  OBVIOUS
<1>3. x - 1 \notin U
  BY <1>1, <1>2 DEF NatRel
<1> QED
  BY <1>2, <1>3

-----------------------------------------------------------------------------
\* A number that is less than the modulus stays as it is.
LEMMA ModSmall ==
    ASSUME NEW n \in Nat, NEW m \in Nat, n < m
    PROVE  n % m = n
  OBVIOUS

LEMMA ModRange ==
    ASSUME NEW n \in Nat, NEW m \in Nat, m > 0
    PROVE  n % m \in 0..m - 1
  OBVIOUS

\* Multiples of m are m apart.
LEMMA MultiplesApart ==
    ASSUME NEW m \in Nat, NEW a \in Int, NEW b \in Int, a < b
    PROVE  m * b - m * a >= m
<1>1. b - a >= 1 /\ m * b - m * a = m * (b - a)
  OBVIOUS
<1>2. m * (b - a) >= m
  BY <1>1
<1> QED
  BY <1>1, <1>2

\* Division with remainder, as the library leaves it to the prover.
LEMMA ModSplit ==
    ASSUME NEW n \in Int, NEW m \in Nat, m > 0
    PROVE  /\ n = m * (n \div m) + (n % m)
           /\ n \div m \in Int /\ n % m \in 0..m - 1
  OBVIOUS

LEMMA DivType ==
    ASSUME NEW n \in Nat, NEW m \in Nat, m > 0
    PROVE  n \div m \in Nat
<1> DEFINE q == n \div m
<1>1. n = m * q + (n % m) /\ q \in Int /\ n % m \in 0..m - 1
  BY ModSplit
<1> HIDE DEF q
<1>2. ~(q < 0)
  <2> SUFFICES ASSUME q < 0 PROVE FALSE
    OBVIOUS
  <2>1. m * 0 - m * q >= m
    BY <1>1, MultiplesApart
  <2>2. m * q \in Int /\ m * 0 = 0
    BY <1>1
  <2> QED
    BY <1>1, <2>1, <2>2
<1> QED
  BY <1>1, <1>2 DEF q

LEMMA Quotient ==
    ASSUME NEW n \in Nat, NEW m \in Nat, m > 0
    PROVE  \E k \in Nat, r \in 0..m - 1 : n = m * k + r /\ m * k <= n /\ n < m * k + m
<1>1. PICK k \in Nat : k = n \div m
  BY DivType
<1>2. PICK r \in 0..m - 1 : r = n % m
  BY ModRange
<1>3. n = m * k + r /\ m * k \in Nat
  BY <1>1, <1>2, ModSplit
<1> QED
  BY <1>3

\* Numbers less than m apart have different remainders.
LEMMA ModDiffer ==
    ASSUME NEW n \in Nat, NEW d \in Nat, NEW m \in Nat, 0 < d, d < m
    PROVE  n % m # (n + d) % m
<1> SUFFICES ASSUME n % m = (n + d) % m
             PROVE  FALSE
  OBVIOUS
<1> DEFINE a == n \div m
           b == (n + d) \div m
<1>1. n + d \in Nat /\ m > 0
  OBVIOUS
<1>2. n = m * a + (n % m) /\ a \in Int /\ n % m \in Int
  BY <1>1, ModSplit
<1>3. n + d = m * b + (n % m) /\ b \in Int
  BY <1>1, ModSplit
<1> HIDE DEF a, b
<1>4. m * b - m * a = d /\ m * a \in Int /\ m * b \in Int
  BY <1>2, <1>3
<1>5. a < b
  <2>1. a # b
    BY <1>4
  <2>2. ~(b < a)
    BY <1>2, <1>3, <1>4, MultiplesApart
  <2> QED
    BY <1>2, <1>3, <2>1, <2>2
<1> QED
  BY <1>2, <1>3, <1>4, <1>5, MultiplesApart

\* There is one quotient and one remainder.
LEMMA DivisionUnique ==
    ASSUME NEW n \in Int, NEW m \in Nat, NEW k \in Int, NEW r \in 0..m - 1, n = m * k + r
    PROVE  n % m = r /\ n \div m = k
<1> DEFINE j == n \div m
<1>1. m > 0
  OBVIOUS
<1>2. n = m * j + (n % m) /\ j \in Int /\ n % m \in 0..m - 1
  BY <1>1, ModSplit
<1> HIDE DEF j
<1>3. m * k + r = m * j + (n % m) /\ m * k \in Int /\ m * j \in Int
  BY <1>2
<1>4. ~(k < j) /\ ~(j < k)
  BY <1>2, <1>3, MultiplesApart
<1>5. k = j
  BY <1>2, <1>4
<1> QED
  BY <1>2, <1>3, <1>5 DEF j

LEMMA ModUnique ==
    ASSUME NEW n \in Nat, NEW m \in Nat, NEW k \in Int, NEW r \in 0..m - 1, n = m * k + r
    PROVE  n % m = r
  BY DivisionUnique

\* Counting on from a remainder.
LEMMA ModSuccessor ==
    ASSUME NEW n \in Nat, NEW m \in Nat, m > 0
    PROVE  ((n % m) + 1) % m = (n + 1) % m
<1> DEFINE r == n % m
           k == n \div m
<1>1. n = m * k + r /\ k \in Int /\ r \in 0..m - 1 /\ n + 1 \in Nat
  BY ModSplit
<1> HIDE DEF r, k
<1>2. CASE r + 1 < m
  <2>1. r + 1 \in 0..m - 1 /\ n + 1 = m * k + (r + 1)
    BY <1>1, <1>2
  <2>2. (n + 1) % m = r + 1
    BY <1>1, <2>1, ModUnique, Zenon
  <2>3. (r + 1) % m = r + 1
    BY <1>2, <2>1
  <2> QED
    BY <2>2, <2>3 DEF r
<1>3. CASE r + 1 = m
  <2>1. /\ n + 1 = m * (k + 1) + 0 /\ k + 1 \in Int
        /\ m = m * 1 + 0 /\ 1 \in Int /\ 0 \in 0..m - 1
    BY <1>1, <1>3
  <2>2. (n + 1) % m = 0
    BY <1>1, <2>1, ModUnique, Zenon
  <2>3. m % m = 0
    BY <2>1, ModUnique, Zenon
  <2> QED
    BY <1>3, <2>2, <2>3 DEF r
<1> QED
  BY <1>1, <1>2, <1>3 DEF r

\* A remainder of a multiple of the modulus has the same remainder.
LEMMA ModOfMod ==
    ASSUME NEW n \in Nat, NEW m \in Nat, NEW b \in Nat, m > 0, b > 0, m % b = 0
    PROVE  (n % m) % b = n % b
<1> DEFINE q == n \div m
           r == n % m
           k == m \div b
           j == r \div b
           t == r % b
<1>1. n = m * q + r /\ q \in Int /\ r \in Nat
  BY ModSplit
<1>2. m = b * k /\ k \in Int
  BY ModSplit
<1> HIDE DEF q, r, k
<1>3. r = b * j + t /\ j \in Int /\ t \in 0..b - 1
  BY <1>1, ModSplit
<1> HIDE DEF j, t
<1>4. (b * k) * q = b * (k * q) /\ k * q \in Int
  BY <1>1, <1>2
<1>5. b * (k * q) + b * j = b * (k * q + j) /\ k * q + j \in Int
  BY <1>3, <1>4
<1>6. n = b * (k * q + j) + t
  BY <1>1, <1>2, <1>3, <1>4, <1>5
<1>7. n % b = t
  BY <1>3, <1>5, <1>6, ModUnique
<1>8. r % b = t
  BY <1>1, <1>3, ModUnique
<1> QED
  BY <1>7, <1>8 DEF r

\* A number of 16 bits is its two bytes.
LEMMA TwoByteNumber ==
    ASSUME NEW n \in Nat, n < 65536
    PROVE  /\ n \div 256 \in 0..255 /\ n % 256 \in 0..255
           /\ 256 * (n \div 256) + (n % 256) = n
<1>1. PICK q \in Nat : q = n \div 256
  BY DivType
<1>2. PICK r \in 0..255 : r = n % 256
  BY ModRange
<1>3. 256 * q + r = n
  BY <1>1, <1>2, ModSplit
<1>4. q \in 0..255
  BY <1>3
<1> QED
  BY <1>1, <1>2, <1>3, <1>4

-----------------------------------------------------------------------------
(***************************************************************************)
(* Sequences.                                                              *)
(***************************************************************************)
LEMMA AppendSecond ==
    ASSUME NEW a, NEW b
    PROVE  Append(<<a>>, b) = <<a, b>>
<1> DEFINE S == {a, b}
           s == Append(<<a>>, b)
           t == <<a, b>>
<1>1. <<a>> \in Seq(S) /\ b \in S
  OBVIOUS
<1>2. s \in Seq(S) /\ Len(s) = 2 /\ s[1] = a /\ s[2] = b
  BY <1>1
<1>3. t \in Seq(S) /\ Len(t) = 2 /\ t[1] = a /\ t[2] = b
  OBVIOUS
<1> HIDE DEF s, t, S
<1>4. \A i \in 1..Len(s) : s[i] = t[i]
  BY <1>2, <1>3
<1> QED
  <2>1. s = t
    BY <1>2, <1>3, <1>4, SeqEqual
  <2> QED
    BY <2>1 DEF s, t

LEMMA AppendThird ==
    ASSUME NEW a, NEW b, NEW c
    PROVE  Append(<<a, b>>, c) = <<a, b, c>>
<1> DEFINE S == {a, b, c}
           s == Append(<<a, b>>, c)
           t == <<a, b, c>>
<1>1. <<a, b>> \in Seq(S) /\ c \in S
  OBVIOUS
<1>2. s \in Seq(S) /\ Len(s) = 3 /\ s[1] = a /\ s[2] = b /\ s[3] = c
  BY <1>1
<1>3. t \in Seq(S) /\ Len(t) = 3 /\ t[1] = a /\ t[2] = b /\ t[3] = c
  OBVIOUS
<1> HIDE DEF s, t, S
<1>4. \A i \in 1..Len(s) : s[i] = t[i]
  BY <1>2, <1>3
<1> QED
  <2>1. s = t
    BY <1>2, <1>3, <1>4, SeqEqual
  <2> QED
    BY <2>1 DEF s, t

LEMMA Joined ==
    ASSUME NEW S, NEW s \in Seq(S), NEW t \in Seq(S)
    PROVE  /\ s \o t \in Seq(S) /\ Len(s \o t) = Len(s) + Len(t)
           /\ \A i \in 1..Len(s) : (s \o t)[i] = s[i]
           /\ \A i \in 1..Len(t) : (s \o t)[Len(s) + i] = t[i]
<1>1. Len(s) \in Nat /\ Len(t) \in Nat
  OBVIOUS
<1>2. \A i \in 1..(Len(s) + Len(t)) :
         (s \o t)[i] = IF i <= Len(s) THEN s[i] ELSE t[i - Len(s)]
  BY ConcatProperties
<1>3. \A i \in 1..Len(s) : (s \o t)[i] = s[i]
  BY <1>1, <1>2
<1>4. ASSUME NEW i \in 1..Len(t)
      PROVE  (s \o t)[Len(s) + i] = t[i]
  <2>1. Len(s) + i \in 1..(Len(s) + Len(t)) /\ ~(Len(s) + i <= Len(s))
        /\ Len(s) + i - Len(s) = i
    BY <1>1
  <2> QED
    BY <1>2, <2>1
<1> QED
  BY <1>3, <1>4, ConcatProperties

\* u is s, of length l, with t, of length n, behind it.
IsJoin(S, s, t, u, l, n) ==
    /\ u \in Seq(S) /\ l \in Nat /\ n \in Nat /\ Len(u) = l + n
    /\ \A i \in 1..l : u[i] = s[i]
    /\ \A i \in 1..n : u[l + i] = t[i]

LEMMA JoinedTo ==
    ASSUME NEW S, NEW s \in Seq(S), NEW t \in Seq(S), NEW u, NEW l, NEW n,
           u = s \o t, l = Len(s), n = Len(t)
    PROVE  IsJoin(S, s, t, u, l, n)
<1>1. /\ s \o t \in Seq(S) /\ Len(s \o t) = Len(s) + Len(t)
      /\ \A i \in 1..Len(s) : (s \o t)[i] = s[i]
      /\ \A i \in 1..Len(t) : (s \o t)[Len(s) + i] = t[i]
  BY Joined
<1>2. Len(s) \in Nat /\ Len(t) \in Nat
  OBVIOUS
<1> QED
  BY <1>1, <1>2, Zenon DEF IsJoin

LEMMA Piece ==
    ASSUME NEW S, NEW s \in Seq(S), NEW m \in 1..Len(s), NEW n \in m..Len(s)
    PROVE  /\ SubSeq(s, m, n) \in Seq(S) /\ Len(SubSeq(s, m, n)) = n - m + 1
           /\ \A i \in 1..(n - m + 1) : SubSeq(s, m, n)[i] = s[m + i - 1]
<1>1. \A i \in m..n : s[i] \in S
  OBVIOUS
<1>2. m \in Int /\ n \in Int /\ m <= n
  OBVIOUS
<1> QED
  BY <1>1, <1>2, SubSeqProperties

-----------------------------------------------------------------------------
(***************************************************************************)
(* FoldLeft folds the set of the indices, greatest first.  A trace has the *)
(* values of a fold over the indices in T, from the first.                 *)
(***************************************************************************)
Trace(g, base, seq, T, n) ==
    /\ g = [i \in 0..n |-> g[i]]
    /\ g[0] = base
    /\ \A i \in 1..n : g[i] = IF i \in T THEN Op(g[i - 1], seq[i]) ELSE g[i - 1]

LEMMA TraceExists ==
    ASSUME NEW base, NEW seq, NEW T, NEW n \in Nat
    PROVE  \E g : Trace(g, base, seq, T, n)
<1> DEFINE S == {k \in Nat : \E g : Trace(g, base, seq, T, k)}
<1>1. 0 \in S
  <2>1. Trace([i \in 0..0 |-> base], base, seq, T, 0)
    BY DEF Trace
  <2> QED
    BY <2>1
<1>2. ASSUME NEW k \in Nat, k \in S
      PROVE  k + 1 \in S
  <2>1. PICK g : Trace(g, base, seq, T, k)
    BY <1>2
  <2> DEFINE h == [i \in 0..(k + 1) |->
                      IF i <= k THEN g[i]
                      ELSE IF i \in T THEN Op(g[k], seq[i]) ELSE g[k]]
  <2>2. h[0] = base /\ \A i \in 0..k : h[i] = g[i]
    BY <2>1 DEF Trace
  <2>3. h[k + 1] = IF k + 1 \in T THEN Op(g[k], seq[k + 1]) ELSE g[k]
    OBVIOUS
  <2>4. h = [i \in 0..(k + 1) |-> h[i]]
    OBVIOUS
  <2> HIDE DEF h
  <2>5. ASSUME NEW i \in 1..(k + 1)
        PROVE  h[i] = IF i \in T THEN Op(h[i - 1], seq[i]) ELSE h[i - 1]
    <3>1. CASE i = k + 1
      <4>1. i - 1 = k /\ h[k] = g[k]
        BY <2>2, <3>1
      <4> QED
        BY <2>3, <3>1, <4>1
    <3>2. CASE i # k + 1
      <4>1. i \in 1..k /\ i \in 0..k /\ i - 1 \in 0..k
        BY <3>2
      <4> QED
        BY <2>1, <2>2, <4>1 DEF Trace
    <3> QED
      BY <3>1, <3>2
  <2>6. Trace(h, base, seq, T, k + 1)
    BY <2>2, <2>4, <2>5 DEF Trace
  <2> QED
    BY <2>6
<1> HIDE DEF S
<1>3. n \in S
  BY <1>1, <1>2, SetInduction
<1> QED
  BY <1>3 DEF S

\* Traces that agree in what they fold up to k have the same values up to k.
LEMMA TracesAgree ==
    ASSUME NEW base, NEW seq, NEW seq2, NEW T, NEW T2, NEW n \in Nat, NEW n2 \in Nat,
           NEW g, Trace(g, base, seq, T, n),
           NEW h, Trace(h, base, seq2, T2, n2),
           NEW k \in Nat, k <= n, k <= n2,
           \A i \in 1..k : (i \in T <=> i \in T2) /\ seq[i] = seq2[i]
    PROVE  g[k] = h[k]
<1> DEFINE S == {i \in Nat : i <= k => g[i] = h[i]}
<1>1. 0 \in S
  BY DEF Trace
<1>2. ASSUME NEW i \in Nat, i \in S
      PROVE  i + 1 \in S
  <2> SUFFICES ASSUME i + 1 <= k
               PROVE  g[i + 1] = h[i + 1]
    OBVIOUS
  <2>1. g[i] = h[i] /\ (i + 1) - 1 = i
    BY <1>2
  <2>2. i + 1 \in 1..k /\ i + 1 \in 1..n /\ i + 1 \in 1..n2
    OBVIOUS
  <2>3. g[i + 1] = IF i + 1 \in T THEN Op(g[i], seq[i + 1]) ELSE g[i]
    BY <2>1, <2>2, Zenon DEF Trace
  <2>4. h[i + 1] = IF i + 1 \in T2 THEN Op(h[i], seq2[i + 1]) ELSE h[i]
    BY <2>1, <2>2, Zenon DEF Trace
  <2>5. (i + 1 \in T <=> i + 1 \in T2) /\ seq[i + 1] = seq2[i + 1]
    BY <2>2
  <2> QED
    BY <2>1, <2>3, <2>4, <2>5
<1> HIDE DEF S
<1>3. k \in S
  BY <1>1, <1>2, SetInduction
<1> QED
  BY <1>3 DEF S

\* Behind the last index that it folds a trace stays as it is.
LEMMA TraceRests ==
    ASSUME NEW base, NEW seq, NEW T, NEW n \in Nat, NEW g, Trace(g, base, seq, T, n),
           NEW k \in Nat, k <= n, \A i \in T : i <= k
    PROVE  g[n] = g[k]
<1> DEFINE S == {i \in Nat : k + i <= n => g[k + i] = g[k]}
<1>1. 0 \in S
  <2>1. k + 0 = k
    OBVIOUS
  <2> QED
    BY <2>1
<1>2. ASSUME NEW i \in Nat, i \in S
      PROVE  i + 1 \in S
  <2> SUFFICES ASSUME k + (i + 1) <= n
               PROVE  g[k + (i + 1)] = g[k]
    OBVIOUS
  <2>1. g[k + i] = g[k] /\ (k + (i + 1)) - 1 = k + i
    BY <1>2
  <2>2. k + (i + 1) \in 1..n /\ k + (i + 1) \notin T
    OBVIOUS
  <2> QED
    BY <2>1, <2>2 DEF Trace
<1> HIDE DEF S
<1>3. n - k \in S
  BY <1>1, <1>2, SetInduction
<1> QED
  BY <1>3 DEF S

LEMMA MaxIs ==
    ASSUME NEW n \in Nat, NEW T \in SUBSET (1..n), T # {}
    PROVE  Max(T) \in T /\ \A i \in T : i <= Max(T)
<1> DEFINE S == {k \in Nat : \A U \in SUBSET (1..k) :
                      U # {} => \E m \in U : \A i \in U : m >= i}
<1>1. 0 \in S
  <2>1. \A U \in SUBSET (1..0) : U = {}
    OBVIOUS
  <2> QED
    BY <2>1
<1>2. ASSUME NEW k \in Nat, k \in S
      PROVE  k + 1 \in S
  <2> SUFFICES ASSUME NEW U \in SUBSET (1..(k + 1)), U # {}
               PROVE  \E m \in U : \A i \in U : m >= i
    OBVIOUS
  <2>1. CASE k + 1 \in U
    BY <2>1
  <2>2. CASE k + 1 \notin U
    <3>1. U \in SUBSET (1..k)
      BY <2>2
    <3> QED
      BY <1>2, <3>1
  <2> QED
    BY <2>1, <2>2
<1> HIDE DEF S
<1>3. n \in S
  BY <1>1, <1>2, SetInduction
<1>4. \E m \in T : \A i \in T : m >= i
  BY <1>3 DEF S
<1>5. Max(T) \in T /\ \A i \in T : Max(T) >= i
  BY <1>4 DEF Max
<1> QED
  BY <1>5

\* The recursive function that FoldLeft is defined by.
FoldStep(f, base, seq, T) ==
    IF T = {} THEN base ELSE Op(f[T \ {Max(T)}], seq[Max(T)])

Folder(base, seq) ==
    CHOOSE f : f = [T \in SUBSET (DOMAIN seq) |-> FoldStep(f, base, seq, T)]

LEMMA FolderExists ==
    ASSUME NEW base, NEW seq, NEW n \in Nat, DOMAIN seq = 1..n
    PROVE  \A T \in SUBSET (1..n) :
              Folder(base, seq)[T] = FoldStep(Folder(base, seq), base, seq, T)
<1> DEFINE G(T) == CHOOSE g : Trace(g, base, seq, T, n)
           f == [T \in SUBSET (1..n) |-> G(T)[n]]
<1>1. \A T : Trace(G(T), base, seq, T, n)
  BY TraceExists, Zenon
<1> HIDE DEF G
<1>0. ASSUME NEW T, NEW k \in Nat, k <= n, \A i \in T : i <= k
      PROVE  G(T)[n] = G(T)[k]
  <2>1. PICK g : g = G(T) /\ Trace(g, base, seq, T, n)
    BY <1>1
  <2>2. g[n] = g[k]
    BY <1>0, <2>1, TraceRests, Z3
  <2> QED
    BY <2>1, <2>2
<1>2. ASSUME NEW T \in SUBSET (1..n)
      PROVE  G(T)[n] = FoldStep(f, base, seq, T)
  <2>1. CASE T = {}
    <3>1. G(T)[n] = G(T)[0]
      BY <1>1, <2>1, TraceRests
    <3> QED
      BY <1>1, <2>1, <3>1 DEF FoldStep, Trace
  <2>2. CASE T # {}
    <3> DEFINE m == Max(T)
               U == T \ {m}
    <3>1. m \in T /\ (\A i \in T : i <= m) /\ m \in 1..n
      BY <2>2, MaxIs
    <3> HIDE DEF m
    <3>2. m \in Nat /\ m - 1 \in Nat /\ m <= n /\ m - 1 <= n /\ \A i \in U : i <= m - 1
      BY <3>1
    <3> HIDE DEF U
    <3>0. m \in Nat /\ m <= n /\ \A i \in T : i <= m
      BY <3>1, <3>2
    <3>3. G(T)[n] = G(T)[m]
      BY <1>0, <3>0
    <3>4. G(U)[n] = G(U)[m - 1]
      BY <1>0, <3>2
    <3>5. \A i \in 1..(m - 1) : (i \in T <=> i \in U) /\ seq[i] = seq[i]
      BY <3>1 DEF U
    <3>6. G(T)[m - 1] = G(U)[m - 1]
      BY <1>1, <3>2, <3>5, TracesAgree
    <3>7. G(T)[m] = Op(G(T)[m - 1], seq[m])
      BY <1>1, <3>1 DEF Trace
    <3>8. f[U] = G(U)[n]
      BY DEF U
    <3>9. G(T)[n] = Op(f[U], seq[m])
      BY <3>3, <3>4, <3>6, <3>7, <3>8
    <3> QED
      BY <2>2, <3>9 DEF m, U, FoldStep
  <2> QED
    BY <2>1, <2>2
<1>3. f = [T \in SUBSET (DOMAIN seq) |-> FoldStep(f, base, seq, T)]
  BY <1>2
<1> HIDE DEF f
<1>4. Folder(base, seq)
        = [T \in SUBSET (DOMAIN seq) |-> FoldStep(Folder(base, seq), base, seq, T)]
  BY <1>3, Zenon DEF Folder
<1> QED
  BY <1>4

LEMMA FoldIsFolder ==
    ASSUME NEW base, NEW seq
    PROVE  FoldLeft(Op, base, seq) = Folder(base, seq)[DOMAIN seq]
  BY DEF FoldLeft, MapThenFoldSet, Folder, FoldStep

\* A fold is the last value of the trace of all indices.
LEMMA FoldTraced ==
    ASSUME NEW base, NEW seq, NEW n \in Nat, DOMAIN seq = 1..n,
           NEW g, Trace(g, base, seq, 1..n, n)
    PROVE  FoldLeft(Op, base, seq) = g[n]
<1> DEFINE F == Folder(base, seq)
           S == {k \in Nat : k <= n => F[1..k] = g[k]}
<1>1. \A T \in SUBSET (1..n) : F[T] = FoldStep(F, base, seq, T)
  BY FolderExists
<1>2. FoldLeft(Op, base, seq) = F[1..n]
  BY FoldIsFolder
<1> HIDE DEF F
<1>3. 0 \in S
  <2>1. 1..0 = {} /\ 1..0 \in SUBSET (1..n)
    OBVIOUS
  <2>2. F[1..0] = base
    BY <1>1, <2>1 DEF FoldStep
  <2> QED
    BY <2>2 DEF Trace
<1>4. ASSUME NEW k \in Nat, k \in S
      PROVE  k + 1 \in S
  <2> SUFFICES ASSUME k + 1 <= n
               PROVE  F[1..(k + 1)] = g[k + 1]
    OBVIOUS
  <2> DEFINE T == 1..(k + 1)
  <2>1. T \in SUBSET (1..n) /\ T # {} /\ k + 1 \in T
    OBVIOUS
  <2>2. Max(T) = k + 1
    <3>1. Max(T) \in T /\ \A i \in T : i <= Max(T)
      BY <2>1, MaxIs
    <3> QED
      BY <3>1
  <2>3. T \ {k + 1} = 1..k
    OBVIOUS
  <2> HIDE DEF T
  <2>4. F[T] = Op(F[1..k], seq[k + 1])
    BY <1>1, <2>1, <2>2, <2>3 DEF FoldStep
  <2>5. g[k + 1] = Op(g[k], seq[k + 1])
    <3>1. k + 1 \in 1..n /\ (k + 1) - 1 = k
      OBVIOUS
    <3> QED
      BY <3>1 DEF Trace
  <2> QED
    BY <1>4, <2>4, <2>5 DEF T
<1> HIDE DEF S
<1>5. n \in S
  BY <1>3, <1>4, SetInduction
<1> QED
  BY <1>2, <1>5 DEF S

Fold(base, seq) == FoldLeft(Op, base, seq)

LEMMA FoldNone ==
    ASSUME NEW base
    PROVE  Fold(base, <<>>) = base
<1>1. PICK g : Trace(g, base, <<>>, 1..0, 0)
  BY TraceExists
<1>2. DOMAIN <<>> = 1..0
  OBVIOUS
<1> QED
  BY <1>1, <1>2, FoldTraced DEF Trace, Fold

LEMMA FoldOneMore ==
    ASSUME NEW X, NEW base, NEW seq \in Seq(X), NEW x \in X
    PROVE  Fold(base, Append(seq, x)) = Op(Fold(base, seq), x)
<1> DEFINE n == Len(seq)
           more == Append(seq, x)
<1>1. /\ n \in Nat /\ n + 1 \in Nat /\ DOMAIN seq = 1..n /\ DOMAIN more = 1..(n + 1)
      /\ more[n + 1] = x /\ \A i \in 1..n : more[i] = seq[i]
  OBVIOUS
<1> HIDE DEF n, more
<1>2. PICK g : Trace(g, base, seq, 1..n, n)
  BY <1>1, TraceExists
<1>3. PICK h : Trace(h, base, more, 1..(n + 1), n + 1)
  BY <1>1, TraceExists
<1>4. g[n] = h[n]
  <2>1. n <= n /\ n <= n + 1
        /\ \A i \in 1..n : (i \in 1..n <=> i \in 1..(n + 1)) /\ seq[i] = more[i]
    BY <1>1
  <2> QED
    BY <1>1, <1>2, <1>3, <2>1, TracesAgree
<1>5. h[n + 1] = Op(h[n], x)
  <2>1. n + 1 \in 1..(n + 1) /\ (n + 1) - 1 = n
    BY <1>1
  <2> QED
    BY <1>1, <1>3, <2>1 DEF Trace
<1>6. FoldLeft(Op, base, seq) = g[n]
  BY <1>1, <1>2, FoldTraced
<1>7. FoldLeft(Op, base, more) = h[n + 1]
  BY <1>1, <1>3, FoldTraced
<1> QED
  BY <1>4, <1>5, <1>6, <1>7 DEF more, Fold

LEMMA FoldConcat ==
    ASSUME NEW X, NEW base, NEW seq \in Seq(X), NEW rest \in Seq(X)
    PROVE  Fold(base, seq \o rest) = Fold(Fold(base, seq), rest)
<1> DEFINE mid == Fold(base, seq)
           S == {n \in Nat : \A t \in Seq(X) :
                    Len(t) = n => Fold(base, seq \o t) = Fold(mid, t)}
<1> HIDE DEF mid
<1>1. 0 \in S
  <2> SUFFICES ASSUME NEW t \in Seq(X), Len(t) = 0
               PROVE  Fold(base, seq \o t) = Fold(mid, t)
    OBVIOUS
  <2>1. t = <<>> /\ seq \o t = seq
    OBVIOUS
  <2> QED
    BY <2>1, FoldNone DEF mid
<1>2. ASSUME NEW n \in Nat, n \in S
      PROVE  n + 1 \in S
  <2> SUFFICES ASSUME NEW t \in Seq(X), Len(t) = n + 1
               PROVE  Fold(base, seq \o t) = Fold(mid, t)
    OBVIOUS
  <2> DEFINE a == SubSeq(t, 1, n)
             x == t[n + 1]
  <2>1. a \in Seq(X) /\ Len(a) = n /\ x \in X
    OBVIOUS
  <2>2. t = Append(a, x)
    OBVIOUS
  <2> HIDE DEF a, x
  <2>3. PICK w \in Seq(X) : w = seq \o a /\ seq \o t = Append(w, x)
    <3>1. seq \o a \in Seq(X)
      BY <2>1
    <3>2. seq \o Append(a, x) = Append(seq \o a, x)
      BY <2>1
    <3> QED
      BY <2>2, <3>1, <3>2
  <2>4. Fold(base, seq \o a) = Fold(mid, a)
    BY <1>2, <2>1
  <2>5. Fold(base, seq \o t) = Op(Fold(base, seq \o a), x)
    <3>1. Fold(base, Append(w, x)) = Op(Fold(base, w), x)
      BY <2>1, FoldOneMore
    <3> QED
      BY <2>3, <3>1, Zenon
  <2>6. Fold(mid, t) = Op(Fold(mid, a), x)
    BY <2>1, <2>2, FoldOneMore
  <2> QED
    BY <2>4, <2>5, <2>6
<1> HIDE DEF S
<1>3. Len(rest) \in S
  BY <1>1, <1>2, SetInduction
<1> QED
  BY <1>3 DEF S, mid

\* A fold, element by element.
LEMMA FoldPrefix ==
    ASSUME NEW X, NEW base, NEW seq \in Seq(X)
    PROVE  /\ Fold(base, SubSeq(seq, 1, 0)) = base
           /\ \A k \in 0..Len(seq) - 1 :
                 Fold(base, SubSeq(seq, 1, k + 1)) = Op(Fold(base, SubSeq(seq, 1, k)), seq[k + 1])
           /\ Fold(base, SubSeq(seq, 1, Len(seq))) = Fold(base, seq)
<1>1. SubSeq(seq, 1, 0) = <<>> /\ SubSeq(seq, 1, Len(seq)) = seq
  OBVIOUS
<1>2. ASSUME NEW k \in 0..Len(seq) - 1
      PROVE  Fold(base, SubSeq(seq, 1, k + 1)) = Op(Fold(base, SubSeq(seq, 1, k)), seq[k + 1])
  <2>1. SubSeq(seq, 1, k) \in Seq(X) /\ seq[k + 1] \in X
        /\ SubSeq(seq, 1, k + 1) = Append(SubSeq(seq, 1, k), seq[k + 1])
    OBVIOUS
  <2> DEFINE s == SubSeq(seq, 1, k)
             x == seq[k + 1]
  <2>2. s \in Seq(X) /\ x \in X
    BY <2>1
  <2> HIDE DEF s, x
  <2>3. Fold(base, Append(s, x)) = Op(Fold(base, s), x)
    BY <2>2, FoldOneMore
  <2> QED
    BY <2>1, <2>3, Zenon DEF s, x
<1> QED
  BY <1>1, <1>2, FoldNone, Zenon

-----------------------------------------------------------------------------
(***************************************************************************)
(* Folds that are taken by halves.                                         *)
(***************************************************************************)
Halves(f, nothing, parts, n, i) ==
    IF n = 0 THEN nothing
    ELSE IF n = 1 THEN parts[i]
    ELSE Op(f[n \div 2][i], f[n - n \div 2][i + n \div 2])

Halver(nothing, parts) ==
    CHOOSE f : f = [n \in Nat |-> [i \in Nat |-> Halves(f, nothing, parts, n, i)]]

\* The first of its values: what is of more than m parts is left open.
HalvesTo(f, nothing, parts, m) ==
    /\ f = [n \in 0..m |-> f[n]]
    /\ \A n \in 0..m : f[n] = [i \in Nat |-> Halves(f, nothing, parts, n, i)]

LEMMA HalfBetween ==
    ASSUME NEW n \in Nat, n # 0, n # 1
    PROVE  /\ n \div 2 \in 1..n - 1 /\ n - n \div 2 \in 1..n - 1
           /\ n \div 2 \in Nat /\ n - n \div 2 \in Nat
<1>1. PICK q \in Nat : q = n \div 2
  BY DivType
<1>2. PICK r \in 0..1 : r = n % 2
  BY ModRange
<1>3. n = 2 * q + r
  BY <1>1, <1>2, ModSplit
<1>4. q \in 1..n - 1 /\ n - q \in 1..n - 1
  BY <1>3
<1> QED
  BY <1>1, <1>4

\* What is of n parts depends on what is of less.
LEMMA HalvesSame ==
    ASSUME NEW f, NEW g, NEW nothing, NEW parts, NEW n \in Nat, NEW i \in Nat,
           \A k \in 0..n - 1 : f[k] = g[k]
    PROVE  Halves(f, nothing, parts, n, i) = Halves(g, nothing, parts, n, i)
<1>1. CASE n = 0 \/ n = 1
  BY <1>1 DEF Halves
<1>2. CASE n # 0 /\ n # 1
  <2>1. n \div 2 \in 0..n - 1 /\ n - n \div 2 \in 0..n - 1
    BY <1>2, HalfBetween
  <2>2. f[n \div 2] = g[n \div 2] /\ f[n - n \div 2] = g[n - n \div 2]
    BY <2>1
  <2> QED
    BY <1>2, <2>2, Zenon DEF Halves
<1> QED
  BY <1>1, <1>2

LEMMA HalvesToAgree ==
    ASSUME NEW nothing, NEW parts, NEW m \in Nat, NEW m2 \in Nat, NEW f, NEW g,
           HalvesTo(f, nothing, parts, m), HalvesTo(g, nothing, parts, m2)
    PROVE  \A n \in Nat : n <= m /\ n <= m2 => f[n] = g[n]
<1> DEFINE S == {j \in Nat : \A n \in 0..j : n <= m /\ n <= m2 => f[n] = g[n]}
<1>1. ASSUME NEW n \in Nat, n <= m, n <= m2, \A k \in 0..n - 1 : f[k] = g[k]
      PROVE  f[n] = g[n]
  <2>1. n \in 0..m /\ n \in 0..m2
    BY <1>1
  <2>2. /\ f[n] = [i \in Nat |-> Halves(f, nothing, parts, n, i)]
        /\ g[n] = [i \in Nat |-> Halves(g, nothing, parts, n, i)]
    BY <2>1, Zenon DEF HalvesTo
  <2>3. \A i \in Nat : Halves(f, nothing, parts, n, i) = Halves(g, nothing, parts, n, i)
    BY <1>1, HalvesSame
  <2> QED
    BY <2>2, <2>3
<1>2. 0 \in S
  <2>1. f[0] = g[0]
    BY <1>1
  <2> QED
    BY <2>1
<1>3. ASSUME NEW j \in Nat, j \in S
      PROVE  j + 1 \in S
  <2> SUFFICES ASSUME NEW n \in 0..(j + 1), n <= m, n <= m2
               PROVE  f[n] = g[n]
    OBVIOUS
  <2>1. CASE n \in 0..j
    BY <1>3, <2>1
  <2>2. CASE n = j + 1
    <3>1. \A k \in 0..n - 1 : f[k] = g[k]
      BY <1>3, <2>2
    <3> QED
      BY <1>1, <3>1
  <2> QED
    BY <2>1, <2>2
<1> HIDE DEF S
<1>4. \A j \in Nat : j \in S
  BY <1>2, <1>3, SetInduction
<1>5. ASSUME NEW n \in Nat, n <= m, n <= m2
      PROVE  f[n] = g[n]
  BY <1>4, <1>5 DEF S
<1> QED
  BY <1>5

LEMMA HalvesToExists ==
    ASSUME NEW nothing, NEW parts, NEW m \in Nat
    PROVE  \E f : HalvesTo(f, nothing, parts, m)
<1> DEFINE S == {j \in Nat : \E f : HalvesTo(f, nothing, parts, j)}
<1>1. 0 \in S
  <2> DEFINE f == [n \in 0..0 |-> [i \in Nat |-> nothing]]
  <2>1. HalvesTo(f, nothing, parts, 0)
    BY DEF HalvesTo, Halves
  <2> QED
    BY <2>1
<1>2. ASSUME NEW j \in Nat, j \in S
      PROVE  j + 1 \in S
  <2>1. PICK f : HalvesTo(f, nothing, parts, j)
    BY <1>2
  <2> DEFINE g == [n \in 0..(j + 1) |->
                      IF n <= j THEN f[n] ELSE [i \in Nat |-> Halves(f, nothing, parts, n, i)]]
  <2>2. /\ g = [n \in 0..(j + 1) |-> g[n]]
        /\ \A n \in 0..j : g[n] = f[n]
        /\ g[j + 1] = [i \in Nat |-> Halves(f, nothing, parts, j + 1, i)]
    OBVIOUS
  <2> HIDE DEF g
  <2>3. ASSUME NEW n \in 0..(j + 1)
        PROVE  g[n] = [i \in Nat |-> Halves(g, nothing, parts, n, i)]
    <3>1. \A k \in 0..n - 1 : f[k] = g[k]
      <4>1. \A k \in 0..n - 1 : k \in 0..j
        OBVIOUS
      <4> QED
        BY <2>2, <4>1
    <3>2. \A i \in Nat : Halves(f, nothing, parts, n, i) = Halves(g, nothing, parts, n, i)
      BY <3>1, HalvesSame
    <3>3. g[n] = [i \in Nat |-> Halves(f, nothing, parts, n, i)]
      <4>1. CASE n \in 0..j
        BY <2>1, <2>2, <4>1 DEF HalvesTo
      <4>2. CASE n = j + 1
        BY <2>2, <4>2
      <4> QED
        BY <4>1, <4>2
    <3> QED
      BY <3>2, <3>3
  <2>4. HalvesTo(g, nothing, parts, j + 1)
    BY <2>2, <2>3 DEF HalvesTo
  <2> QED
    BY <2>4
<1> HIDE DEF S
<1>3. m \in S
  BY <1>1, <1>2, SetInduction
<1> QED
  BY <1>3 DEF S

LEMMA HalverExists ==
    ASSUME NEW nothing, NEW parts
    PROVE  \A n \in Nat, i \in Nat :
              Halver(nothing, parts)[n][i] = Halves(Halver(nothing, parts), nothing, parts, n, i)
<1> DEFINE G(m) == CHOOSE f : HalvesTo(f, nothing, parts, m)
           h == [n \in Nat |-> G(n)[n]]
<1>1. \A m \in Nat : HalvesTo(G(m), nothing, parts, m)
  BY HalvesToExists, Zenon
<1> HIDE DEF G
<1>2. ASSUME NEW n \in Nat
      PROVE  h[n] = [i \in Nat |-> Halves(h, nothing, parts, n, i)]
  <2>1. PICK f : f = G(n) /\ HalvesTo(f, nothing, parts, n)
    BY <1>1
  <2>2. ASSUME NEW k \in 0..n - 1
        PROVE  f[k] = h[k]
    <3>1. k \in Nat /\ k <= n /\ k <= k
      OBVIOUS
    <3>2. PICK g : g = G(k) /\ HalvesTo(g, nothing, parts, k)
      BY <1>1, <3>1
    <3>3. \A i \in Nat : i <= n /\ i <= k => f[i] = g[i]
      BY <2>1, <3>1, <3>2, HalvesToAgree
    <3>4. f[k] = g[k]
      BY <3>1, <3>3
    <3> QED
      BY <3>1, <3>2, <3>4
  <2>3. n \in 0..n
    OBVIOUS
  <2>4. h[n] = f[n] /\ f[n] = [i \in Nat |-> Halves(f, nothing, parts, n, i)]
    BY <2>1, <2>3 DEF HalvesTo
  <2> HIDE DEF h
  <2>5. \A i \in Nat : Halves(f, nothing, parts, n, i) = Halves(h, nothing, parts, n, i)
    BY <2>2, HalvesSame
  <2> QED
    BY <2>4, <2>5
<1>3. h = [n \in Nat |-> [i \in Nat |-> Halves(h, nothing, parts, n, i)]]
  BY <1>2
<1> HIDE DEF h
<1>4. Halver(nothing, parts)
        = [n \in Nat |-> [i \in Nat |-> Halves(Halver(nothing, parts), nothing, parts, n, i)]]
  BY <1>3, Zenon DEF Halver
<1>5. PICK f : f = Halver(nothing, parts)
  OBVIOUS
<1>6. f = [n \in Nat |-> [i \in Nat |-> Halves(f, nothing, parts, n, i)]]
  BY <1>4, <1>5, Zenon
<1>7. \A n \in Nat, i \in Nat : f[n][i] = Halves(f, nothing, parts, n, i)
  BY <1>6
<1> QED
  BY <1>5, <1>7, Zenon

\* Op does not care how V is put together, and nothing adds nothing.
Joins(V, nothing) ==
    /\ nothing \in V
    /\ \A a, b \in V : Op(a, b) \in V
    /\ \A a \in V : Op(nothing, a) = a /\ Op(a, nothing) = a
    /\ \A a, b, c \in V : Op(Op(a, b), c) = Op(a, Op(b, c))

LEMMA FoldFrom ==
    ASSUME NEW V, NEW nothing, Joins(V, nothing), NEW a \in V, NEW t \in Seq(V)
    PROVE  Fold(nothing, t) \in V /\ Fold(a, t) = Op(a, Fold(nothing, t))
<1> DEFINE S == {n \in Nat : \A u \in Seq(V) : Len(u) = n =>
                    Fold(nothing, u) \in V /\ Fold(a, u) = Op(a, Fold(nothing, u))}
<1>1. 0 \in S
  <2> SUFFICES ASSUME NEW u \in Seq(V), Len(u) = 0
               PROVE  Fold(nothing, u) \in V /\ Fold(a, u) = Op(a, Fold(nothing, u))
    OBVIOUS
  <2>1. u = <<>>
    OBVIOUS
  <2>2. Fold(nothing, u) = nothing /\ Fold(a, u) = a
    BY <2>1, FoldNone, Zenon
  <2> QED
    BY <2>2, Zenon DEF Joins
<1>2. ASSUME NEW n \in Nat, n \in S
      PROVE  n + 1 \in S
  <2> SUFFICES ASSUME NEW u \in Seq(V), Len(u) = n + 1
               PROVE  Fold(nothing, u) \in V /\ Fold(a, u) = Op(a, Fold(nothing, u))
    OBVIOUS
  <2> DEFINE w == SubSeq(u, 1, n)
             x == u[n + 1]
  <2>1. w \in Seq(V) /\ Len(w) = n /\ x \in V
    OBVIOUS
  <2>2. u = Append(w, x)
    OBVIOUS
  <2> HIDE DEF w, x
  <2>3. Fold(nothing, u) = Op(Fold(nothing, w), x) /\ Fold(a, u) = Op(Fold(a, w), x)
    BY <2>1, <2>2, FoldOneMore
  <2>4. Fold(nothing, w) \in V /\ Fold(a, w) = Op(a, Fold(nothing, w))
    BY <1>2, <2>1
  <2>5. PICK b \in V : b = Fold(nothing, w)
    BY <2>4
  <2>6. Op(b, x) \in V /\ Op(Op(a, b), x) = Op(a, Op(b, x))
    BY <2>1 DEF Joins
  <2>7. Fold(nothing, u) = Op(b, x) /\ Fold(a, u) = Op(Op(a, b), x)
    BY <2>3, <2>4, <2>5, Zenon
  <2> QED
    BY <2>6, <2>7, Zenon
<1> HIDE DEF S
<1>3. Len(t) \in S
  BY <1>1, <1>2, SetInduction
<1> QED
  BY <1>3 DEF S

LEMMA FoldJoins ==
    ASSUME NEW V, NEW nothing, Joins(V, nothing), NEW s \in Seq(V), NEW t \in Seq(V)
    PROVE  /\ Fold(nothing, s) \in V /\ Fold(nothing, t) \in V
           /\ Fold(nothing, s \o t) = Op(Fold(nothing, s), Fold(nothing, t))
<1>1. nothing \in V
  BY DEF Joins
<1>2. Fold(nothing, s) \in V /\ Fold(nothing, t) \in V
  BY <1>1, FoldFrom
<1>3. Fold(nothing, s \o t) = Fold(Fold(nothing, s), t)
  BY FoldConcat
<1>4. PICK a \in V : a = Fold(nothing, s)
  BY <1>2
<1>5. Fold(a, t) = Op(a, Fold(nothing, t))
  BY FoldFrom
<1> QED
  BY <1>2, <1>3, <1>4, <1>5, Zenon

LEMMA FoldOfOne ==
    ASSUME NEW V, NEW nothing, Joins(V, nothing), NEW x \in V
    PROVE  Fold(nothing, <<x>>) = x
<1>1. <<>> \in Seq(V) /\ Append(<<>>, x) = <<x>>
  OBVIOUS
<1>2. Fold(nothing, Append(<<>>, x)) = Op(Fold(nothing, <<>>), x)
  <2>1. PICK s \in Seq(V) : s = <<>>
    BY <1>1
  <2>2. Fold(nothing, Append(s, x)) = Op(Fold(nothing, s), x)
    BY FoldOneMore
  <2> QED
    BY <2>1, <2>2, Zenon
<1>3. Op(nothing, x) = x
  BY DEF Joins
<1> QED
  BY <1>1, <1>2, <1>3, FoldNone, Zenon

LEMMA OneElement ==
    ASSUME NEW V, NEW s \in Seq(V), NEW i \in 1..Len(s)
    PROVE  SubSeq(s, i, i) = <<s[i]>>
<1> DEFINE t == SubSeq(s, i, i)
           u == <<s[i]>>
<1>1. t \in Seq(V) /\ Len(t) = 1 /\ t[1] = s[i]
  <2>1. i \in i..Len(s) /\ i - i + 1 = 1 /\ i + 1 - 1 = i /\ 1 \in 1..1
    OBVIOUS
  <2>2. /\ t \in Seq(V) /\ Len(t) = i - i + 1
        /\ \A k \in 1..(i - i + 1) : t[k] = s[i + k - 1]
    BY <2>1, Piece
  <2> QED
    BY <2>1, <2>2
<1>2. u \in Seq(V) /\ Len(u) = 1 /\ u[1] = s[i]
  OBVIOUS
<1> HIDE DEF t, u
<1>3. \A k \in 1..Len(t) : t[k] = u[k]
  BY <1>1, <1>2
<1>4. t = u
  BY <1>1, <1>2, <1>3, SeqEqual
<1> QED
  BY <1>4 DEF t, u

\* By halves or one by one.
LEMMA HalvedIsFold ==
    ASSUME NEW V, NEW nothing, Joins(V, nothing), NEW parts \in Seq(V)
    PROVE  Halver(nothing, parts)[Len(parts)][1] = Fold(nothing, parts)
<1> DEFINE h == Halver(nothing, parts)
           From(n, i) == SubSeq(parts, i, i + n - 1)
           len == Len(parts)
<1>1. \A n \in Nat, i \in Nat : h[n][i] = Halves(h, nothing, parts, n, i)
  BY HalverExists
<1> HIDE DEF h
<1>2. len \in Nat
  OBVIOUS
<1>3. ASSUME NEW n \in Nat, NEW i \in Nat, i >= 1, i + n <= len + 1,
             \A k \in 0..n - 1 : \A j \in Nat :
                j >= 1 /\ j + k <= len + 1 => h[k][j] = Fold(nothing, From(k, j))
      PROVE  h[n][i] = Fold(nothing, From(n, i))
  <2>1. h[n][i] = Halves(h, nothing, parts, n, i)
    BY <1>1
  <2>2. CASE n = 0
    <3>1. From(n, i) = <<>>
      BY <2>2
    <3> QED
      BY <2>1, <2>2, <3>1, FoldNone, Zenon DEF Halves
  <2>3. CASE n = 1
    <3>1. i \in 1..len /\ i + n - 1 = i
      BY <1>2, <1>3, <2>3
    <3>2. parts[i] \in V /\ SubSeq(parts, i, i) = <<parts[i]>>
      BY <3>1, OneElement
    <3>3. From(n, i) = <<parts[i]>>
      BY <3>1, <3>2, Zenon
    <3>4. Fold(nothing, <<parts[i]>>) = parts[i]
      BY <3>2, FoldOfOne
    <3>5. n # 0
      BY <2>3
    <3> QED
      BY <2>1, <2>3, <3>3, <3>4, <3>5, Zenon DEF Halves
  <2>4. CASE n # 0 /\ n # 1
    <3>1. PICK q \in Nat : q = n \div 2 /\ q \in 1..n - 1 /\ n - q \in 1..n - 1
      BY <2>4, HalfBetween
    <3>2. /\ q \in 0..n - 1 /\ i + q <= len + 1
          /\ n - q \in 0..n - 1 /\ i + q \in Nat /\ i + q >= 1 /\ (i + q) + (n - q) <= len + 1
      BY <1>2, <1>3, <3>1
    <3>3. h[q][i] = Fold(nothing, From(q, i)) /\ h[n - q][i + q] = Fold(nothing, From(n - q, i + q))
      BY <1>3, <3>2
    <3>4. From(q, i) \in Seq(V) /\ From(n - q, i + q) \in Seq(V)
      <4>1. i \in 1..len /\ i + q - 1 \in i..len
        BY <1>2, <1>3, <3>1
      <4>2. i + q \in 1..len /\ (i + q) + (n - q) - 1 \in (i + q)..len
        BY <1>2, <1>3, <3>1
      <4> QED
        BY <4>1, <4>2, Piece
    <3>5. From(q, i) \o From(n - q, i + q) = From(n, i)
      <4>1. (i + q) + (n - q) - 1 = i + n - 1
        BY <3>1
      <4>2. /\ i \in 1..len + 1 /\ i + q - 1 \in (i - 1)..len
            /\ i + n - 1 \in (i + q - 1)..len /\ i + q = (i + q - 1) + 1
        BY <1>2, <1>3, <3>1
      <4>3. SubSeq(parts, i, i + q - 1) \o SubSeq(parts, i + q, i + n - 1)
              = SubSeq(parts, i, i + n - 1)
        BY <4>2
      <4> QED
        BY <4>1, <4>3, Zenon
    <3> HIDE DEF From
    <3>6. Fold(nothing, From(n, i)) = Op(Fold(nothing, From(q, i)), Fold(nothing, From(n - q, i + q)))
      BY <3>4, <3>5, FoldJoins
    <3> QED
      BY <2>1, <2>4, <3>1, <3>3, <3>6, Zenon DEF Halves
  <2> QED
    BY <2>2, <2>3, <2>4
<1> HIDE DEF From
<1> DEFINE S == {m \in Nat : \A k \in 0..m : \A j \in Nat :
                    j >= 1 /\ j + k <= len + 1 => h[k][j] = Fold(nothing, From(k, j))}
<1>4. 0 \in S
  BY <1>3
<1>5. ASSUME NEW m \in Nat, m \in S
      PROVE  m + 1 \in S
  <2> SUFFICES ASSUME NEW k \in 0..(m + 1), NEW j \in Nat, j >= 1, j + k <= len + 1
               PROVE  h[k][j] = Fold(nothing, From(k, j))
    OBVIOUS
  <2>1. CASE k \in 0..m
    BY <1>5, <2>1
  <2>2. CASE k = m + 1
    <3>1. \A n \in 0..k - 1 : \A l \in Nat :
             l >= 1 /\ l + n <= len + 1 => h[n][l] = Fold(nothing, From(n, l))
      BY <1>5, <2>2
    <3> QED
      BY <1>3, <3>1
  <2> QED
    BY <2>1, <2>2
<1> HIDE DEF S
<1>6. len \in S
  BY <1>2, <1>4, <1>5, SetInduction
<1>7. h[len][1] = Fold(nothing, From(len, 1))
  BY <1>2, <1>6 DEF S
<1>8. From(len, 1) = parts
  <2>1. SubSeq(parts, 1, 1 + len - 1) = parts
    OBVIOUS
  <2> QED
    BY <2>1 DEF From
<1> QED
  BY <1>7, <1>8, Zenon DEF h
=============================================================================
