------------------------ MODULE Sha256ContextProofs ------------------------
(***************************************************************************)
(* Proofs about the functions of sha256.c on a context (Sha256Context):    *)
(* for every size of a block and a word, every Compress, and pieces of any *)
(* lengths.  Sha256 has them of contexts that take turns, DeviceSecret of  *)
(* the one that it hashes the secret with.                                 *)
(***************************************************************************)
EXTENDS Sha256Context, SharedLemmas

Folding == INSTANCE SharedLemmas WITH Op <- Compress

LEMMA FoldingIs ==
    ASSUME NEW base, NEW seq
    PROVE  Folding!Fold(base, seq) = FoldLeft(Compress, base, seq)
  BY DEF Folding!Fold, FoldLeft, MapThenFoldSet, Max,
     Folding!FoldLeft, Folding!MapThenFoldSet, Folding!Max

-----------------------------------------------------------------------------
(***************************************************************************)
(* A sequence of bytes, cut into blocks.                                   *)
(***************************************************************************)
Octet == 0..255 \cup {PutWord(n)[i] : n \in Int, i \in 1..WordBytes}

Block(p, j) == [i \in 1..BlockSize |-> p[BlockSize * (j - 1) + i]]
Blocks(p, n) == [j \in 1..n |-> Block(p, j)]

\* What a buffer holds; SizesAssumption makes the size positive.
Buffer == [1..BlockSize -> Octet]

LEMMA Sizes ==
    ASSUME SizesAssumption
    PROVE  /\ BlockSize \in Nat /\ BlockSize > 0
           /\ WordBytes \in Nat /\ WordBytes > 0
           /\ LengthAt \in Nat /\ LengthAt > 0 /\ LengthAt + 2 * WordBytes = BlockSize
           /\ WordModulus \in Nat /\ WordModulus > 0
           /\ WordModulus % 8 = 0 /\ WordModulus % BlockSize = 0
  BY DEF SizesAssumption, LengthAt

LEMMA BlockEnds ==
    ASSUME SizesAssumption, NEW n \in Nat, NEW j \in 1..n
    PROVE  /\ BlockSize * n \in Nat
           /\ BlockSize * (j - 1) \in Nat
           /\ BlockSize * j = BlockSize * (j - 1) + BlockSize
           /\ BlockSize * (j - 1) + BlockSize <= BlockSize * n
<1>1. /\ BlockSize \in Nat /\ j - 1 \in Nat /\ n - j \in Nat
  BY Sizes
<1>2. /\ BlockSize * n \in Nat /\ BlockSize * j \in Nat
      /\ BlockSize * (j - 1) \in Nat /\ BlockSize * (n - j) \in Nat
  BY <1>1
<1>3. BlockSize * j = BlockSize * (j - 1) + BlockSize
  BY <1>1
<1>4. BlockSize * n = BlockSize * j + BlockSize * (n - j)
  BY <1>1
<1> QED
  BY <1>2, <1>3, <1>4

LEMMA BlockIsSubSeq ==
    ASSUME SizesAssumption, NEW p \in Seq(Octet), NEW n \in Nat, BlockSize * n <= Len(p),
           NEW j \in 1..n
    PROVE  SubSeq(p, BlockSize * (j - 1) + 1, BlockSize * j) = Block(p, j)
<1> DEFINE a == BlockSize * (j - 1)
           e == BlockSize * n
<1>1. a \in Nat /\ BlockSize * j = a + BlockSize /\ a + BlockSize <= e /\ BlockSize \in Nat
  BY BlockEnds, Sizes
<1>2. e <= Len(p) /\ e \in Nat
  BY BlockEnds
<1> HIDE DEF a, e
<1>3. SubSeq(p, a + 1, a + BlockSize) = [i \in 1..BlockSize |-> p[a + i]]
  BY <1>1, <1>2
<1> QED
  BY <1>1, <1>3 DEF a, Block

LEMMA BlocksAreSubSeqs ==
    ASSUME SizesAssumption, NEW p \in Seq(Octet), NEW n \in Nat, BlockSize * n <= Len(p)
    PROVE  [j \in 1..n |-> SubSeq(p, BlockSize * (j - 1) + 1, BlockSize * j)] = Blocks(p, n)
  BY BlockIsSubSeq DEF Blocks

LEMMA BlocksType ==
    ASSUME SizesAssumption, NEW p \in Seq(Octet), NEW n \in Nat, BlockSize * n <= Len(p)
    PROVE  Blocks(p, n) \in Seq(Buffer) /\ Len(Blocks(p, n)) = n
<1>1. ASSUME NEW j \in 1..n
      PROVE  Block(p, j) \in Buffer
  <2> DEFINE a == BlockSize * (j - 1)
             e == BlockSize * n
  <2>1. a \in Nat /\ a + BlockSize <= e /\ e \in Nat /\ BlockSize \in Nat
    BY BlockEnds, Sizes
  <2>2. e <= Len(p)
    OBVIOUS
  <2> HIDE DEF a, e
  <2>3. [i \in 1..BlockSize |-> p[a + i]] \in [1..BlockSize -> Octet]
    BY <2>1, <2>2
  <2> QED
    BY <2>3 DEF a, Block, Buffer
<1> QED
  BY <1>1 DEF Blocks

LEMMA BlocksOneMore ==
    ASSUME NEW p, NEW n \in Nat
    PROVE  Blocks(p, n + 1) = Append(Blocks(p, n), Block(p, n + 1))
<1>1. Len(Blocks(p, n)) = n /\ \A j \in 1..n : Blocks(p, n)[j] = Block(p, j)
  BY DEF Blocks
<1>2. Blocks(p, n + 1) = [j \in 1..(n + 1) |-> IF j = n + 1 THEN Block(p, n + 1)
                                               ELSE Blocks(p, n)[j]]
  BY <1>1 DEF Blocks
<1> HIDE DEF Blocks
<1> QED
  BY <1>1, <1>2

LEMMA BlocksSame ==
    ASSUME SizesAssumption, NEW p, NEW q, NEW n \in Nat,
           \A i \in 1..(BlockSize * n) : p[i] = q[i]
    PROVE  Blocks(p, n) = Blocks(q, n)
<1>1. ASSUME NEW j \in 1..n
      PROVE  Block(p, j) = Block(q, j)
  <2> DEFINE a == BlockSize * (j - 1)
             e == BlockSize * n
  <2>1. a \in Nat /\ a + BlockSize <= e /\ BlockSize \in Nat /\ e \in Nat
    BY BlockEnds, Sizes
  <2>2. \A i \in 1..e : p[i] = q[i]
    OBVIOUS
  <2> HIDE DEF a, e
  <2>3. \A i \in 1..BlockSize : a + i \in 1..e
    BY <2>1
  <2> QED
    BY <2>2, <2>3 DEF a, Block
<1> QED
  BY <1>1 DEF Blocks

\* The blocks of two sequences, of which the first has no part of a block.
LEMMA BlocksConcat ==
    ASSUME SizesAssumption, NEW p \in Seq(Octet), NEW q \in Seq(Octet),
           NEW n \in Nat, NEW k \in Nat, Len(p) = BlockSize * n, BlockSize * k <= Len(q)
    PROVE  Blocks(p \o q, n + k) = Blocks(p, n) \o Blocks(q, k)
<1> DEFINE b == BlockSize
           P == b * n
<1>1. b \in Nat /\ P \in Nat
  BY Sizes, BlockEnds
<1>2. Len(Blocks(p, n)) = n /\ Len(Blocks(q, k)) = k
  BY DEF Blocks
<1>3. ASSUME NEW j \in 1..n
      PROVE  Block(p \o q, j) = Block(p, j)
  <2> DEFINE a == b * (j - 1)
  <2>1. a \in Nat /\ a + b <= Len(p)
    BY BlockEnds
  <2> HIDE DEF a
  <2>2. \A i \in 1..b : (p \o q)[a + i] = p[a + i]
    BY <1>1, <2>1
  <2> QED
    BY <2>2 DEF a, Block
<1>4. ASSUME NEW j \in 1..k
      PROVE  Block(p \o q, n + j) = Block(q, j)
  <2> DEFINE a == b * (j - 1)
             e == b * k
  <2>0. a \in Nat /\ a + b <= e /\ e \in Nat /\ e <= Len(q)
    BY BlockEnds
  <2>2. b * ((n + j) - 1) = P + a
    BY <1>1
  <2> HIDE DEF a, P, e
  <2>1. a \in Nat /\ a + b <= Len(q)
    BY <1>1, <2>0
  <2>3. \A i \in 1..b : (p \o q)[P + a + i] = q[a + i]
    BY <1>1, <2>1 DEF P
  <2>4. \A i \in 1..b : (p \o q)[b * ((n + j) - 1) + i] = q[b * (j - 1) + i]
    BY <2>2, <2>3 DEF a
  <2> QED
    BY <2>4 DEF Block
<1>5. \A j \in 1..(n + k) : Block(p \o q, j) = IF j <= n THEN Block(p, j) ELSE Block(q, j - n)
  <2> SUFFICES ASSUME NEW j \in 1..(n + k)
               PROVE  Block(p \o q, j) = IF j <= n THEN Block(p, j) ELSE Block(q, j - n)
    OBVIOUS
  <2>1. CASE j <= n
    BY <1>3, <2>1
  <2>2. CASE ~(j <= n)
    <3>1. j - n \in 1..k /\ n + (j - n) = j
      BY <2>2
    <3>2. Block(p \o q, n + (j - n)) = Block(q, j - n)
      BY <1>4, <3>1
    <3> QED
      BY <2>2, <3>1, <3>2
  <2> QED
    BY <2>1, <2>2
<1>6. /\ p \o q \in Seq(Octet) /\ n + k \in Nat
      /\ BlockSize * (n + k) <= Len(p \o q)
  <2>1. BlockSize * (n + k) = BlockSize * n + BlockSize * k
    BY Sizes
  <2>2. BlockSize * k \in Nat
    BY Sizes, SMTT(40)
  <2>3. p \o q \in Seq(Octet) /\ Len(p \o q) = Len(p) + Len(q)
    BY ConcatProperties
  <2> QED
    BY <1>1, <2>1, <2>2, <2>3
<1>7. /\ Blocks(p, n) \in Seq(Buffer) /\ Blocks(q, k) \in Seq(Buffer)
      /\ Blocks(p \o q, n + k) \in Seq(Buffer) /\ Len(Blocks(p \o q, n + k)) = n + k
  <2>1. BlockSize * n <= Len(p)
    BY <1>1
  <2>2. Blocks(p, n) \in Seq(Buffer)
    BY <2>1, BlocksType
  <2>3. Blocks(q, k) \in Seq(Buffer)
    BY BlocksType
  <2> DEFINE r == p \o q
             m == n + k
  <2>4. r \in Seq(Octet) /\ m \in Nat /\ BlockSize * m <= Len(r)
    BY <1>6
  <2> HIDE DEF r, m
  <2>5. Blocks(r, m) \in Seq(Buffer) /\ Len(Blocks(r, m)) = m
    BY <2>4, BlocksType
  <2> QED
    BY <2>2, <2>3, <2>5 DEF r, m
<1>8. /\ \A j \in 1..(n + k) : Blocks(p \o q, n + k)[j] = Block(p \o q, j)
      /\ \A j \in 1..n : Blocks(p, n)[j] = Block(p, j)
      /\ \A j \in 1..k : Blocks(q, k)[j] = Block(q, j)
  BY DEF Blocks
<1> DEFINE s == Blocks(p, n)
           t == Blocks(q, k)
           st == Blocks(p \o q, n + k)
<1>9. s \o t \in Seq(Buffer) /\ Len(s \o t) = n + k
  BY <1>2, <1>7, ConcatProperties, ZenonT(40)
<1>10. \A j \in 1..(n + k) : (s \o t)[j] = IF j <= n THEN s[j] ELSE t[j - n]
  BY <1>2, <1>7, ConcatProperties
<1>11. \A j \in 1..(n + k) : st[j] = (s \o t)[j]
  <2> SUFFICES ASSUME NEW j \in 1..(n + k)
               PROVE  st[j] = (s \o t)[j]
    OBVIOUS
  <2>1. j <= n => j \in 1..n
    OBVIOUS
  <2>2. ~(j <= n) => j - n \in 1..k
    OBVIOUS
  <2>3. st[j] = IF j <= n THEN Block(p, j) ELSE Block(q, j - n)
    BY <1>5, <1>8
  <2>4. (s \o t)[j] = IF j <= n THEN s[j] ELSE t[j - n]
    BY <1>10
  <2> HIDE DEF s, t, st
  <2> QED
    BY <1>8, <2>1, <2>2, <2>3, <2>4 DEF s, t
<1> HIDE DEF s, t, st
<1>12. st \in Seq(Buffer) /\ Len(st) = n + k
  BY <1>7 DEF st
<1>13. st = s \o t
  BY <1>9, <1>11, <1>12, SeqEqual
<1> QED
  BY <1>13 DEF s, t, st

-----------------------------------------------------------------------------
(***************************************************************************)
(* The buffer.                                                             *)
(***************************************************************************)
LEMMA CopyType ==
    ASSUME SizesAssumption, NEW held \in Buffer, NEW at \in Nat, NEW u \in Seq(Octet)
    PROVE  Copy(held, at, u) \in Buffer
<1>1. \A i \in 1..BlockSize : i \in (at + 1)..(at + Len(u)) => u[i - at] \in Octet
  OBVIOUS
<1>2. \A i \in 1..BlockSize : held[i] \in Octet
  BY DEF Buffer
<1> QED
  BY <1>1, <1>2 DEF Copy, Buffer

LEMMA CopyNothing ==
    ASSUME SizesAssumption, NEW held \in Buffer, NEW at \in Nat
    PROVE  Copy(held, at, <<>>) = held
<1>1. \A i : ~(i \in (at + 1)..(at + 0))
  OBVIOUS
<1>2. Copy(held, at, <<>>) = [i \in 1..BlockSize |-> held[i]]
  BY <1>1 DEF Copy
<1> QED
  BY <1>2 DEF Buffer

\* Copies behind one another are one copy.
LEMMA CopyCopy ==
    ASSUME SizesAssumption, NEW held, NEW at \in Nat, NEW u \in Seq(Octet),
           NEW v \in Seq(Octet)
    PROVE  Copy(Copy(held, at, u), at + Len(u), v) = Copy(held, at, u \o v)
<1> DEFINE n == Len(u)
           m == Len(v)
           uv == u \o v
<1>1. n \in Nat /\ m \in Nat /\ Len(uv) = n + m
  BY ConcatProperties
<1>2. /\ \A i \in 1..n : uv[i] = u[i]
      /\ \A i \in 1..m : uv[n + i] = v[i]
  OBVIOUS
<1>3. Copy(held, at, u) = [i \in 1..BlockSize |->
                            IF i \in (at + 1)..(at + n) THEN u[i - at] ELSE held[i]]
  BY DEF Copy
<1>4. Copy(Copy(held, at, u), at + n, v)
        = [i \in 1..BlockSize |->
             IF i \in (at + n + 1)..(at + n + m) THEN v[i - (at + n)]
             ELSE Copy(held, at, u)[i]]
  BY DEF Copy
<1>5. Copy(held, at, uv) = [i \in 1..BlockSize |->
                             IF i \in (at + 1)..(at + (n + m)) THEN uv[i - at] ELSE held[i]]
  BY <1>1 DEF Copy
<1> HIDE DEF n, m, uv
<1>6. ASSUME NEW i \in 1..BlockSize
      PROVE  (IF i \in (at + n + 1)..(at + n + m) THEN v[i - (at + n)]
              ELSE Copy(held, at, u)[i])
               = IF i \in (at + 1)..(at + (n + m)) THEN uv[i - at] ELSE held[i]
  <2>0. i \in Int
    OBVIOUS
  <2>1. CASE i \in (at + n + 1)..(at + n + m)
    <3>1. i - (at + n) \in 1..m /\ n + (i - (at + n)) = i - at
      BY <1>1, <2>0, <2>1
    <3>2. i \in (at + 1)..(at + (n + m))
      BY <1>1, <2>0, <2>1
    <3>3. uv[i - at] = v[i - (at + n)]
      BY <1>2, <3>1
    <3> QED
      BY <2>1, <3>2, <3>3
  <2>2. CASE i \in (at + 1)..(at + n)
    <3>1. i - at \in 1..n
      BY <1>1, <2>0, <2>2
    <3>2. i \in (at + 1)..(at + (n + m)) /\ ~(i \in (at + n + 1)..(at + n + m))
      BY <1>1, <2>0, <2>2
    <3>3. uv[i - at] = u[i - at]
      BY <1>2, <3>1
    <3>4. Copy(held, at, u)[i] = u[i - at]
      BY <1>3, <2>2
    <3> QED
      BY <3>2, <3>3, <3>4
  <2>3. CASE ~(i \in (at + 1)..(at + (n + m)))
    <3>1. ~(i \in (at + n + 1)..(at + n + m)) /\ ~(i \in (at + 1)..(at + n))
      BY <1>1, <2>0, <2>3
    <3>2. Copy(held, at, u)[i] = held[i]
      BY <1>3, <3>1
    <3> QED
      BY <2>3, <3>1, <3>2
  <2>4. \/ i \in (at + n + 1)..(at + n + m) \/ i \in (at + 1)..(at + n)
        \/ ~(i \in (at + 1)..(at + (n + m)))
    BY <1>1, <2>0
  <2> QED
    BY <2>1, <2>2, <2>3, <2>4
<1>7. Copy(Copy(held, at, u), at + n, v) = Copy(held, at, uv)
  BY <1>4, <1>5, <1>6
<1> QED
  BY <1>7 DEF n, uv

(***************************************************************************)
(* What a context holds of the message m: n blocks in the state, the l     *)
(* bytes behind them in the buffer.                                        *)
(***************************************************************************)
Holds(held, state, base, m, n, l) ==
    /\ m \in Seq(Octet) /\ held \in Buffer
    /\ n \in Nat /\ l \in 0..BlockSize - 1 /\ Len(m) = BlockSize * n + l
    /\ state = Folding!Fold(base, Blocks(m, n))
    /\ \A i \in 1..l : held[i] = m[BlockSize * n + i]

LEMMA HoldsTypes ==
    ASSUME SizesAssumption, NEW held, NEW state, NEW base, NEW m, NEW n, NEW l,
           Holds(held, state, base, m, n, l)
    PROVE  /\ BlockSize \in Nat /\ BlockSize > 0 /\ n \in Nat
           /\ l \in Nat /\ l < BlockSize
           /\ BlockSize * n \in Nat /\ BlockSize * n <= Len(m)
           /\ Len(m) = BlockSize * n + l
           /\ m \in Seq(Octet) /\ held \in Buffer
           /\ state = Folding!Fold(base, Blocks(m, n))
           /\ \A i \in 1..l : held[i] = m[BlockSize * n + i]
<1>1. BlockSize \in Nat /\ BlockSize > 0 /\ n \in Nat /\ l \in 0..BlockSize - 1
  BY Sizes DEF Holds
<1>2. BlockSize * n \in Nat /\ Len(m) = BlockSize * n + l
  BY <1>1 DEF Holds
<1>3. BlockSize * n <= Len(m) /\ l \in Nat /\ l < BlockSize
  BY <1>1, <1>2
<1> QED
  BY <1>1, <1>2, <1>3 DEF Holds

LEMMA HoldsNothing ==
    ASSUME SizesAssumption, NEW held \in Buffer, NEW base
    PROVE  Holds(held, base, base, <<>>, 0, 0)
<1>1. Blocks(<<>>, 0) = <<>>
  BY DEF Blocks
<1>2. BlockSize * 0 + 0 = 0 /\ 0 \in 0..BlockSize - 1
  BY Sizes
<1>3. <<>> \in Seq(Octet) /\ Len(<<>>) = 0
  OBVIOUS
<1> QED
  BY <1>1, <1>2, <1>3, Folding!FoldNone DEF Holds

\* Blocks of what is there do not change when something is added.
LEMMA BlocksLonger ==
    ASSUME SizesAssumption, NEW p \in Seq(Octet), NEW q \in Seq(Octet), NEW n \in Nat,
           BlockSize * n <= Len(p)
    PROVE  Blocks(p \o q, n) = Blocks(p, n)
<1> DEFINE e == BlockSize * n
<1>1. e \in Nat /\ e <= Len(p)
  BY Sizes
<1>2. \A i \in 1..e : (p \o q)[i] = p[i]
  <2> HIDE DEF e
  <2> QED
    BY <1>1
<1> QED
  BY <1>2, BlocksSame

\* A piece that does not fill the block is stored.
LEMMA StoresPiece ==
    ASSUME SizesAssumption, NEW held, NEW state, NEW base, NEW m, NEW n, NEW l,
           Holds(held, state, base, m, n, l), NEW u \in Seq(Octet), l + Len(u) < BlockSize
    PROVE  Holds(Copy(held, l, u), state, base, m \o u, n, l + Len(u))
<1> DEFINE e == BlockSize * n
           k == Len(u)
<1>1. /\ m \in Seq(Octet) /\ held \in Buffer /\ n \in Nat /\ l \in Nat /\ k \in Nat
      /\ Len(m) = e + l /\ e \in Nat /\ BlockSize \in Nat
      /\ \A i \in 1..l : held[i] = m[e + i]
  <2>1. k \in Nat
    OBVIOUS
  <2> HIDE DEF k
  <2> QED
    BY <2>1, HoldsTypes
<1>2. /\ m \o u \in Seq(Octet) /\ Len(m \o u) = e + (l + k)
      /\ l + k \in 0..BlockSize - 1
  BY <1>1, SMTT(40)
<1>3. Copy(held, l, u) \in Buffer
  BY <1>1, CopyType
<1>4. state = Folding!Fold(base, Blocks(m \o u, n))
  BY <1>1, BlocksLonger DEF Holds
<1> HIDE DEF e
<1>5. ASSUME NEW i \in 1..(l + k)
      PROVE  Copy(held, l, u)[i] = (m \o u)[e + i]
  <2>1. Copy(held, l, u)[i] = IF i \in (l + 1)..(l + k) THEN u[i - l] ELSE held[i]
    BY <1>1 DEF Copy
  <2>2. CASE i \in (l + 1)..(l + k)
    <3>1. (m \o u)[e + i] = u[i - l]
      BY <1>1, <2>2
    <3> QED
      BY <2>1, <2>2, <3>1
  <2>3. CASE i \in 1..l
    <3>1. (m \o u)[e + i] = m[e + i]
      BY <1>1, <2>3
    <3>2. ~(i \in (l + 1)..(l + k))
      BY <1>1, <2>3
    <3> QED
      BY <1>1, <2>1, <2>3, <3>1, <3>2
  <2> QED
    BY <1>1, <2>2, <2>3
<1> QED
  BY <1>1, <1>2, <1>3, <1>4, <1>5 DEF Holds, e

\* A piece that just fills it makes a block.
LEMMA FillsBlock ==
    ASSUME SizesAssumption, NEW held, NEW state, NEW base, NEW m, NEW n, NEW l,
           Holds(held, state, base, m, n, l), NEW u \in Seq(Octet), l + Len(u) = BlockSize
    PROVE  Holds(Copy(held, l, u), Compress(state, Copy(held, l, u)), base, m \o u, n + 1, 0)
<1> DEFINE b == BlockSize
           e == BlockSize * n
           k == Len(u)
           mu == m \o u
           full == Copy(held, l, u)
<1>1. /\ m \in Seq(Octet) /\ held \in Buffer /\ n \in Nat /\ l \in Nat /\ k \in Nat
      /\ Len(m) = e + l /\ e \in Nat /\ b \in Nat /\ b > 0
      /\ \A i \in 1..l : held[i] = m[e + i]
  BY HoldsTypes
<1>2. mu \in Seq(Octet) /\ Len(mu) = e + b
  <2>1. mu \in Seq(Octet) /\ Len(mu) = Len(m) + Len(u)
    BY <1>1, ConcatProperties
  <2> HIDE DEF e, mu
  <2>2. Len(m) = e + l /\ e \in Nat /\ l \in Nat /\ Len(u) \in Nat
    BY <1>1
  <2>3. (e + l) + Len(u) = e + b
    BY <2>2
  <2> QED
    BY <2>1, <2>2, <2>3
<1>3. full \in Buffer
  BY <1>1, CopyType
<1>4. b * (n + 1) = e + b /\ b * ((n + 1) - 1) = e
  BY <1>1
<1>5. Blocks(mu, n) = Blocks(m, n)
  BY HoldsTypes, BlocksLonger
<1>6. full = [i \in 1..b |-> IF i \in (l + 1)..(l + k) THEN u[i - l] ELSE held[i]]
  BY DEF Copy
<1> HIDE DEF e, full
<1>7. ASSUME NEW i \in 1..b
      PROVE  full[i] = mu[e + i]
  <2>1. CASE i \in (l + 1)..(l + k)
    <3>1. mu[e + i] = u[i - l]
      BY <1>1, <2>1
    <3> QED
      BY <1>6, <2>1, <3>1
  <2>2. CASE i \in 1..l
    <3>1. mu[e + i] = m[e + i]
      BY <1>1, <2>2
    <3>2. ~(i \in (l + 1)..(l + k))
      BY <1>1, <2>2
    <3> QED
      BY <1>1, <1>6, <2>2, <3>1, <3>2
  <2> QED
    BY <1>1, <2>1, <2>2
<1> HIDE DEF mu
<1>8. full = Block(mu, n + 1)
  <2>1. full = [i \in 1..b |-> full[i]]
    BY <1>3 DEF Buffer
  <2>2. full = [i \in 1..b |-> mu[e + i]]
    BY <1>7, <2>1
  <2> QED
    BY <1>4, <2>2 DEF Block
<1>9. Blocks(mu, n + 1) = Append(Blocks(m, n), full)
  BY <1>1, <1>5, <1>8, BlocksOneMore
<1>10. PICK s \in Seq(Buffer) : s = Blocks(m, n)
  BY HoldsTypes, BlocksType
<1>11. Folding!Fold(base, Blocks(mu, n + 1)) = Compress(Folding!Fold(base, Blocks(m, n)), full)
  <2>1. Folding!Fold(base, Append(s, full)) = Compress(Folding!Fold(base, s), full)
    BY <1>3, Folding!FoldOneMore
  <2> QED
    BY <1>9, <1>10, <2>1, Zenon
<1>12. Compress(state, full) = Folding!Fold(base, Blocks(mu, n + 1))
  BY <1>11 DEF Holds
<1>13. /\ n + 1 \in Nat /\ 0 \in 0..BlockSize - 1 /\ Len(mu) = BlockSize * (n + 1) + 0
       /\ \A i \in 1..0 : full[i] = mu[BlockSize * (n + 1) + i]
  BY <1>1, <1>2, <1>4
<1>14. Holds(full, Compress(state, full), base, mu, n + 1, 0)
  BY <1>2, <1>3, <1>12, <1>13 DEF Holds
<1> QED
  BY <1>14 DEF full, mu

\* Whole blocks are processed from where they are, the rest is stored.
LEMMA TakesBlocks ==
    ASSUME SizesAssumption, NEW held, NEW state, NEW base, NEW m, NEW n,
           Holds(held, state, base, m, n, 0), NEW u \in Seq(Octet), NEW k \in Nat,
           BlockSize * k <= Len(u), Len(u) < BlockSize * k + BlockSize
    PROVE  Holds(Copy(held, 0, SubSeq(u, BlockSize * k + 1, Len(u))),
                 Folding!Fold(state, Blocks(u, k)), base, m \o u, n + k, Len(u) - BlockSize * k)
<1> DEFINE b == BlockSize
           e == BlockSize * n
           w == BlockSize * k
           l == Len(u) - w
           mu == m \o u
           rest == SubSeq(u, w + 1, Len(u))
           after == Copy(held, 0, rest)
<1>1. /\ m \in Seq(Octet) /\ held \in Buffer /\ n \in Nat
      /\ Len(m) = e /\ e \in Nat /\ b \in Nat /\ b > 0
  <2>1. /\ m \in Seq(Octet) /\ held \in Buffer /\ n \in Nat
        /\ Len(m) = e + 0 /\ e \in Nat /\ b \in Nat /\ b > 0
    BY HoldsTypes
  <2> HIDE DEF e
  <2> QED
    BY <2>1
<1>2. w \in Nat /\ l \in 0..b - 1 /\ Len(u) = w + l
  <2>1. w \in Nat /\ w <= Len(u) /\ Len(u) < w + b /\ Len(u) \in Nat
    BY <1>1
  <2> HIDE DEF w
  <2> QED
    BY <1>1, <2>1
<1>3. b * (n + k) = e + w
  BY <1>1
<1>4. Blocks(mu, n + k) = Blocks(m, n) \o Blocks(u, k)
  BY <1>1, BlocksConcat
<1>5. Blocks(m, n) \in Seq(Buffer) /\ Blocks(u, k) \in Seq(Buffer)
  <2>1. BlockSize * n <= Len(m)
    BY <1>1
  <2> QED
    BY <1>1, <2>1, BlocksType
<1>6. Folding!Fold(state, Blocks(u, k)) = Folding!Fold(base, Blocks(mu, n + k))
  <2>1. Folding!Fold(base, Blocks(m, n) \o Blocks(u, k)) = Folding!Fold(Folding!Fold(base, Blocks(m, n)), Blocks(u, k))
    BY <1>5, Folding!FoldConcat
  <2> QED
    BY <1>4, <2>1 DEF Holds
<1>7. mu \in Seq(Octet) /\ Len(mu) = e + w + l
  BY <1>1, <1>2
<1> HIDE DEF w, l, e
<1>8. rest \in Seq(Octet) /\ Len(rest) = l /\ \A i \in 1..l : rest[i] = u[w + i]
  BY <1>2
<1> HIDE DEF rest
<1>9. after \in Buffer
  BY <1>1, <1>8, CopyType
<1>10. ASSUME NEW i \in 1..l
       PROVE  after[i] = mu[e + w + i]
  <2>1. i \in 1..b /\ i \in (0 + 1)..(0 + l) /\ i - 0 = i
    BY <1>1, <1>2
  <2>2. after[i] = rest[i]
    BY <1>8, <2>1 DEF Copy
  <2>3. w + i \in 1..Len(u)
    BY <1>2
  <2>4. mu[e + (w + i)] = u[w + i]
    BY <1>1, <1>2, <2>3
  <2>5. e + (w + i) = e + w + i
    BY <1>1, <1>2
  <2> QED
    BY <1>8, <2>2, <2>4, <2>5
<1> HIDE DEF after, mu
<1>11. /\ n + k \in Nat /\ Len(mu) = b * (n + k) + l
       /\ \A i \in 1..l : after[i] = mu[b * (n + k) + i]
  BY <1>1, <1>3, <1>7, <1>10
<1>12. Holds(after, Folding!Fold(state, Blocks(u, k)), base, mu, n + k, l)
  BY <1>2, <1>6, <1>7, <1>9, <1>11 DEF Holds
<1> QED
  BY <1>12 DEF after, rest, w, l, mu

-----------------------------------------------------------------------------
(***************************************************************************)
(* The counters.                                                           *)
(***************************************************************************)
Counts(total, len) ==
    total = <<len % WordModulus, (len \div WordModulus) % WordModulus>>

LEMMA NothingCounts ==
    ASSUME SizesAssumption
    PROVE  Counts(<<0, 0>>, 0)
<1> DEFINE w == WordModulus
<1>1. w \in Nat /\ 0 \in 0..w - 1 /\ 0 = w * 0 + 0
  BY Sizes
<1> HIDE DEF w
<1>2. 0 % w = 0 /\ 0 \div w = 0
  BY <1>1, DivisionUnique
<1> QED
  BY <1>2 DEF Counts, w

LEMMA CountedCounts ==
    ASSUME SizesAssumption, NEW len \in Nat, NEW total, Counts(total, len),
           NEW ilen \in 0..WordModulus - 1
    PROVE  Counts(Counted(total, ilen), len + ilen)
<1> DEFINE w == WordModulus
           r == len % w
           q == len \div w
           low == (r + ilen) % w
<1>1. w \in Nat /\ w > 0 /\ ilen \in 0..w - 1
  BY Sizes
<1>2. len = w * q + r /\ q \in Int /\ r \in 0..w - 1
  BY <1>1, ModSplit
<1>3. total = <<r, q % w>>
  BY DEF Counts
<1>4. Counted(total, ilen)
        = <<low, IF low < ilen % w THEN ((q % w) + 1) % w ELSE q % w>>
  BY <1>3 DEF Counted
<1> HIDE DEF w, r, q
<1>5. ilen % w = ilen
  BY <1>1, ModSmall
<1>6. q \in Nat
  BY <1>1, DivType DEF q
<1>7. CASE r + ilen < w
  <2>1. PICK t \in Int, s \in 0..w - 1 : t = len + ilen /\ s = r + ilen /\ t = w * q + s
    BY <1>1, <1>2, <1>7
  <2>2. (len + ilen) % w = r + ilen /\ (len + ilen) \div w = q
    <3>1. /\ t \in Int /\ w \in Nat /\ q \in Int /\ s \in 0..w - 1
          /\ t = w * q + s
      BY <1>1, <1>2, <2>1
    <3>2. t % w = s /\ t \div w = q
      BY <3>1, DivisionUnique, ZenonT(40)
    <3> QED
      BY <2>1, <3>2
  <2>3. low = r + ilen
    BY <1>1, <1>2, <1>7, ModSmall
  <2>4. ~(low < ilen)
    BY <1>1, <1>2, <2>3
  <2> HIDE DEF low
  <2> QED
    BY <1>4, <1>5, <2>2, <2>3, <2>4 DEF Counts, w
<1>8. CASE ~(r + ilen < w)
  <2>1. /\ len + ilen = w * (q + 1) + (r + ilen - w) /\ r + ilen - w \in 0..w - 1
        /\ q + 1 \in Int /\ len + ilen \in Int
    BY <1>1, <1>2, <1>8
  <2>2. (len + ilen) % w = r + ilen - w /\ (len + ilen) \div w = q + 1
    BY <1>1, <2>1, DivisionUnique
  <2>3. r + ilen = w * 1 + (r + ilen - w) /\ r + ilen \in Int
    BY <1>1, <1>2
  <2>4. low = r + ilen - w
    BY <1>1, <2>1, <2>3, DivisionUnique
  <2>5. low < ilen
    BY <1>1, <1>2, <2>4
  <2>6. ((q % w) + 1) % w = (q + 1) % w
    BY <1>1, <1>6, ModSuccessor
  <2> HIDE DEF low
  <2> QED
    BY <1>4, <1>5, <2>2, <2>4, <2>5, <2>6 DEF Counts, w
<1> QED
  BY <1>7, <1>8

\* The quotient by 8 * h of eight times a number.
LEMMA EightFold ==
    ASSUME NEW h \in Nat, h > 0, NEW n \in Nat
    PROVE  /\ (8 * n) \div (8 * h) = n \div h
           /\ (8 * n) % (8 * h) = 8 * (n % h)
           /\ (8 * n) % (8 * h) \in 0..8 * h - 8
<1> DEFINE a == n \div h
           b == n % h
<1>1. n = h * a + b /\ a \in Int /\ b \in 0..h - 1
  BY ModSplit
<1> HIDE DEF a, b
<1>2. (8 * h) * a = 8 * (h * a) /\ h * a \in Int
  BY <1>1
<1>3. 8 * n = (8 * h) * a + 8 * b
  BY <1>1, <1>2
<1> DEFINE m == 8 * h
           k == 8 * n
           c == 8 * b
<1>4. m \in Nat /\ k \in Int /\ c \in 0..m - 1 /\ c \in 0..m - 8
  BY <1>1
<1>5. k = m * a + c
  BY <1>3
<1> HIDE DEF m, k, c
<1>6. k % m = c /\ k \div m = a
  BY <1>1, <1>4, <1>5, DivisionUnique
<1> QED
  BY <1>4, <1>6 DEF m, k, c, a, b

\* The bits of the message, modulo the square of the modulus of a word.
LEMMA BitsCounted ==
    ASSUME SizesAssumption, NEW len \in Nat, NEW total, Counts(total, len)
    PROVE  BitCount(total) = PutWord(((8 * len) \div WordModulus) % WordModulus)
                               \o PutWord((8 * len) % WordModulus)
<1> DEFINE w == WordModulus
           h == w \div 8
           r == len % w
           q == len \div w
           a == r \div h
           d == q % w
           c == q \div w
<1>1. w \in Nat /\ w > 0 /\ w % 8 = 0
  BY Sizes
<1>2. w = 8 * h /\ h \in Nat /\ h > 0
  <2>1. w = 8 * (w \div 8) + (w % 8) /\ w \div 8 \in Int
    BY <1>1, ModSplit
  <2> HIDE DEF w
  <2> QED
    BY <1>1, <2>1
<1>3. total = <<r, d>>
  BY DEF Counts
<1>4. BitCount(total) = PutWord(a + ((d * 8) % w)) \o PutWord((r * 8) % w)
  BY <1>3 DEF BitCount
<1> HIDE DEF w, h
<1>5. len = w * q + r /\ q \in Int /\ r \in 0..w - 1
  BY <1>1, ModSplit
<1> HIDE DEF r, q
<1>6. q = w * c + d /\ c \in Int /\ d \in 0..w - 1
  BY <1>1, <1>5, ModSplit
<1> HIDE DEF d, c
<1>7. (8 * r) \div w = a /\ (8 * r) % w \in 0..w - 1
  BY <1>2, <1>5, EightFold
<1>8. a \in 0..7
  <2>1. r = h * a + (r % h) /\ a \in Int /\ r % h \in 0..h - 1
    BY <1>2, <1>5, ModSplit
  <2> HIDE DEF a
  <2>2. r < h * 8 /\ r >= 0 /\ h * a \in Int
    BY <1>2, <1>5, <2>1
  <2>3. ~(8 <= a)
    <3> SUFFICES ASSUME 7 < a PROVE FALSE
      BY <2>1
    <3>1. h * a - h * 7 >= h
      BY <1>2, <2>1, MultiplesApart
    <3> QED
      BY <1>2, <2>1, <2>2, <3>1
  <2>4. ~(a < 0)
    <3> SUFFICES ASSUME a < 0 PROVE FALSE
      OBVIOUS
    <3>1. h * 0 - h * a >= h
      BY <1>2, <2>1, MultiplesApart
    <3> QED
      BY <1>2, <2>1, <2>2, <3>1
  <2> QED
    BY <2>1, <2>3, <2>4
<1> DEFINE b == (8 * r) % w
           f == (8 * d) % w
           e == (8 * d) \div w
<1>9. 8 * r = w * a + b /\ b \in 0..w - 1
  <2>1. 8 * r = w * ((8 * r) \div w) + b
    BY <1>1, <1>5, ModSplit
  <2> QED
    BY <1>7, <2>1
<1>10. 8 * d = w * e + f /\ e \in Int /\ f \in 0..w - 8
  <2>1. 8 * d = w * e + f /\ e \in Int
    BY <1>1, <1>6, ModSplit
  <2>2. f \in 0..w - 8
    BY <1>2, <1>6, EightFold
  <2> QED
    BY <2>1, <2>2
<1> HIDE DEF a, b, e, f
<1>11. 8 * len = w * (8 * q + a) + b /\ 8 * q + a \in Int
  <2>1. w * (8 * q + a) = 8 * (w * q) + w * a /\ w * q \in Int /\ w * a \in Int
    BY <1>1, <1>5, <1>8
  <2> QED
    BY <1>5, <1>8, <1>9, <2>1
<1>12. (8 * len) \div w = 8 * q + a /\ (8 * len) % w = b
  BY <1>1, <1>9, <1>11, DivisionUnique
<1>13. 8 * q + a = w * (8 * c + e) + (f + a) /\ 8 * c + e \in Int /\ f + a \in 0..w - 1
  <2>1. w * (8 * c + e) = 8 * (w * c) + w * e /\ w * c \in Int /\ w * e \in Int
    BY <1>1, <1>6, <1>10
  <2> QED
    BY <1>1, <1>6, <1>8, <1>10, <2>1
<1>14. (8 * q + a) % w = f + a
  BY <1>1, <1>11, <1>13, DivisionUnique
<1>15. /\ (d * 8) % w = f /\ (r * 8) % w = b /\ a + f = f + a
  <2>1. d * 8 = 8 * d /\ r * 8 = 8 * r
    BY <1>5, <1>6
  <2>2. a + f = f + a
    BY <1>8, <1>10
  <2> QED
    BY <2>1, <2>2 DEF f, b
<1> QED
  BY <1>4, <1>12, <1>14, <1>15 DEF w

-----------------------------------------------------------------------------
(***************************************************************************)
(* The functions on a context.                                             *)
(***************************************************************************)
IsContext(c) ==
    c = [total |-> c.total, state |-> c.state, buffer |-> c.buffer, is224 |-> c.is224]

\* What is copied to the buffer before a block, and what is left after it.
FillOf(c, u) == IF Fills(c, Len(u)) THEN BlockSize - Left(c) ELSE 0
FullOf(c, u) == Copy(c.buffer, Left(c), SubSeq(u, 1, FillOf(c, u)))
RestOf(c, u) == SubSeq(u, FillOf(c, u) + 1, Len(u))

LEMMA UpdateIs ==
    ASSUME SizesAssumption, NEW c, IsContext(c), NEW u \in Seq(Octet),
           RestOf(c, u) \in Seq(Octet), NEW k \in Nat,
           BlockSize * k <= Len(RestOf(c, u)), Len(RestOf(c, u)) < BlockSize * k + BlockSize
    PROVE  /\ IsContext(sha256_update_ret(c, u))
           /\ sha256_update_ret(c, u).total = Counted(c.total, Len(u))
           /\ sha256_update_ret(c, u).state
                = Folding!Fold(c.state, (IF FillOf(c, u) = 0 THEN <<>> ELSE <<FullOf(c, u)>>)
                                  \o Blocks(RestOf(c, u), k))
           /\ sha256_update_ret(c, u).buffer
                = Copy(FullOf(c, u), IF FillOf(c, u) = 0 THEN Left(c) ELSE 0,
                       SubSeq(RestOf(c, u), BlockSize * k + 1, Len(RestOf(c, u))))
           /\ sha256_update_ret(c, u).is224 = c.is224
<1> DEFINE b == BlockSize
           rest == RestOf(c, u)
           w == b * k
<1>1. b \in Nat /\ b > 0 /\ w \in Int /\ Len(rest) \in Nat
  BY Sizes, SMTT(40)
<1>2. Len(rest) \div b = k
  <2>1. PICK v \in Int, r \in 0..b - 1 : v = Len(rest) /\ v = b * k + r
    <3>1. w <= Len(rest) /\ Len(rest) < w + b
      OBVIOUS
    <3> HIDE DEF w
    <3>2. Len(rest) = w + (Len(rest) - w) /\ Len(rest) - w \in 0..b - 1
      BY <1>1, <3>1
    <3> QED
      BY <3>2 DEF w
  <2>2. v \div b = k
    BY <1>1, <2>1, DivisionUnique
  <2> QED
    BY <2>1, <2>2
<1>3. (b * k) \div b = k
  <2>1. PICK v \in Int : v = b * k /\ v = b * k + 0 /\ 0 \in 0..b - 1
    BY <1>1
  <2> HIDE DEF b
  <2> QED
    BY <1>1, <2>1, DivisionUnique
<1>4. [j \in 1..k |-> SubSeq(rest, b * (j - 1) + 1, b * j)] = Blocks(rest, k)
  BY BlocksAreSubSeqs
<1>5. sha256_update_ret(c, u)
        = [c EXCEPT
            !.total = Counted(@, Len(u)),
            !.state = Folding!Fold(@, (IF FillOf(c, u) = 0 THEN <<>> ELSE <<FullOf(c, u)>>)
                  \o [j \in 1..((b * (Len(rest) \div b)) \div b) |->
                         SubSeq(rest, b * (j - 1) + 1, b * j)]),
            !.buffer = Copy(FullOf(c, u), IF FillOf(c, u) = 0 THEN Left(c) ELSE 0,
                            SubSeq(rest, b * (Len(rest) \div b) + 1, Len(rest)))]
  BY FoldingIs, Zenon DEF sha256_update_ret, FillOf, FullOf, RestOf
<1> HIDE DEF rest, b
<1>6. sha256_update_ret(c, u)
        = [c EXCEPT
            !.total = Counted(@, Len(u)),
            !.state = Folding!Fold(@, (IF FillOf(c, u) = 0 THEN <<>> ELSE <<FullOf(c, u)>>)
                                \o Blocks(rest, k)),
            !.buffer = Copy(FullOf(c, u), IF FillOf(c, u) = 0 THEN Left(c) ELSE 0,
                            SubSeq(rest, b * k + 1, Len(rest)))]
  BY <1>2, <1>3, <1>4, <1>5
<1> QED
  BY <1>6, Zenon DEF IsContext, rest, b

\* Whatever the length of a piece, the context holds the message with it.
LEMMA UpdateHolds ==
    ASSUME SizesAssumption, NEW c, IsContext(c), NEW base, NEW m, NEW n, NEW l,
           Holds(c.buffer, c.state, base, m, n, l), Left(c) = l, NEW u \in Seq(Octet)
    PROVE  \E n2, l2 : Holds(sha256_update_ret(c, u).buffer, sha256_update_ret(c, u).state,
                             base, m \o u, n2, l2)
<1> DEFINE b == BlockSize
           fill == FillOf(c, u)
           full == FullOf(c, u)
           rest == RestOf(c, u)
<1>1. /\ b \in Nat /\ b > 0 /\ n \in Nat /\ l \in Nat /\ l < b
      /\ m \in Seq(Octet) /\ c.buffer \in Buffer /\ Len(u) \in Nat
  BY HoldsTypes
<1>2. ASSUME NEW t \in Seq(Octet)
      PROVE  \E k \in Nat : b * k <= Len(t) /\ Len(t) < b * k + b
  <2>1. PICK v \in Nat : v = Len(t)
    OBVIOUS
  <2> HIDE DEF b
  <2> QED
    BY <1>1, <2>1, Quotient
<1>3. CASE Fills(c, Len(u))
  <2>1. fill = b - l /\ fill \in 1..Len(u) /\ l # 0
    BY <1>1, <1>3 DEF FillOf, Fills
  <2> DEFINE x == SubSeq(u, 1, fill)
  <2>2. /\ x \in Seq(Octet) /\ Len(x) = fill /\ rest \in Seq(Octet) /\ u = x \o rest
    <3> HIDE DEF fill
    <3>1. rest = SubSeq(u, fill + 1, Len(u))
      BY DEF RestOf, fill
    <3> HIDE DEF rest
    <3>2. x \in Seq(Octet) /\ Len(x) = fill /\ \A i \in 1..fill : x[i] = u[i]
      BY <2>1
    <3>3. /\ rest \in Seq(Octet) /\ Len(rest) = Len(u) - fill
          /\ \A i \in 1..(Len(u) - fill) : rest[i] = u[fill + i]
      BY <2>1, <3>1
    <3> HIDE DEF x
    <3>4. /\ x \o rest \in Seq(Octet) /\ Len(x \o rest) = Len(u)
          /\ \A i \in 1..Len(u) : (x \o rest)[i] = u[i]
      <4>1. /\ x \o rest \in Seq(Octet) /\ Len(x \o rest) = fill + (Len(u) - fill)
            /\ \A i \in 1..(fill + (Len(u) - fill)) :
                  (x \o rest)[i] = IF i <= fill THEN x[i] ELSE rest[i - fill]
        <5>1. x \in Seq(Octet) /\ rest \in Seq(Octet)
          BY <3>2, <3>3
        <5>2. /\ x \o rest \in Seq(Octet) /\ Len(x \o rest) = Len(x) + Len(rest)
              /\ \A i \in 1..(Len(x) + Len(rest)) :
                    (x \o rest)[i] = IF i <= Len(x) THEN x[i] ELSE rest[i - Len(x)]
          BY <5>1, ConcatProperties
        <5> QED
          BY <3>2, <3>3, <5>2, Zenon
      <4>2. fill + (Len(u) - fill) = Len(u) /\ fill \in Nat /\ Len(u) \in Nat
        BY <1>1, <2>1
      <4>3. ASSUME NEW i \in 1..Len(u)
            PROVE  (IF i <= fill THEN x[i] ELSE rest[i - fill]) = u[i]
        <5>1. CASE i <= fill
          BY <3>2, <4>2, <5>1
        <5>2. CASE ~(i <= fill)
          <6>1. i - fill \in 1..(Len(u) - fill) /\ fill + (i - fill) = i
            BY <4>2, <5>2
          <6> QED
            BY <3>3, <5>2, <6>1
        <5> QED
          BY <5>1, <5>2
      <4> QED
        BY <4>1, <4>2, <4>3
    <3>5. u = x \o rest
      BY <3>4, SeqEqual
    <3> QED
      BY <3>2, <3>3, <3>5
  <2>3. full = Copy(c.buffer, l, x)
    BY DEF FullOf
  <2> HIDE DEF x, full, fill, rest
  <2>4. Holds(full, Compress(c.state, full), base, m \o x, n + 1, 0)
    <3>1. l + Len(x) = BlockSize
      BY <1>1, <2>1, <2>2
    <3> QED
      BY <2>2, <2>3, <3>1, FillsBlock
  <2>5. PICK k \in Nat : b * k <= Len(rest) /\ Len(rest) < b * k + b
    BY <1>2, <2>2
  <2> DEFINE buffer == Copy(full, 0, SubSeq(rest, b * k + 1, Len(rest)))
  <2>6. Holds(buffer, Folding!Fold(Compress(c.state, full), Blocks(rest, k)), base, (m \o x) \o rest,
              (n + 1) + k, Len(rest) - b * k)
    BY <2>2, <2>4, <2>5, TakesBlocks
  <2>7. (m \o x) \o rest = m \o u
    BY <1>1, <2>2, ConcatAssociative, SMTT(40)
  <2>8. Folding!Fold(c.state, <<full>> \o Blocks(rest, k)) = Folding!Fold(Compress(c.state, full), Blocks(rest, k))
    <3>1. full \in Buffer
      BY <2>4 DEF Holds
    <3>2. PICK none \in Seq(Buffer) : none = <<>>
      BY EmptySeq
    <3>3. PICK one \in Seq(Buffer) : one = <<full>> /\ one = Append(none, full)
      <4>1. Append(<<>>, full) = <<full>> /\ <<full>> \in Seq(Buffer)
        BY <3>1
      <4> QED
        BY <3>2, <4>1, Zenon
    <3>4. PICK s \in Seq(Buffer) : s = Blocks(rest, k)
      BY <2>2, <2>5, BlocksType
    <3>5. Folding!Fold(c.state, Append(none, full)) = Compress(Folding!Fold(c.state, none), full)
      BY <3>1, Folding!FoldOneMore
    <3>6. Folding!Fold(c.state, one) = Compress(c.state, full)
      BY <3>2, <3>3, <3>5, Folding!FoldNone, Zenon
    <3>7. Folding!Fold(c.state, one \o s) = Folding!Fold(Folding!Fold(c.state, one), s)
      BY Folding!FoldConcat
    <3> QED
      BY <3>3, <3>4, <3>6, <3>7, Zenon
  <2>9. fill # 0
    BY <2>1
  <2>10. /\ sha256_update_ret(c, u).state = Folding!Fold(c.state, <<full>> \o Blocks(rest, k))
         /\ sha256_update_ret(c, u).buffer = buffer
    BY <2>2, <2>5, <2>9, UpdateIs DEF fill, full, rest
  <2> HIDE DEF buffer
  <2>11. Holds(sha256_update_ret(c, u).buffer, sha256_update_ret(c, u).state,
               base, m \o u, (n + 1) + k, Len(rest) - b * k)
    BY <2>6, <2>7, <2>8, <2>10
  <2> QED
    BY <2>11
<1>4. CASE ~Fills(c, Len(u))
  <2>1. fill = 0
    BY <1>4 DEF FillOf
  <2>2. SubSeq(u, 1, 0) = <<>> /\ SubSeq(u, 1, Len(u)) = u
    OBVIOUS
  <2>3. full = c.buffer
    BY <1>1, <2>1, <2>2, CopyNothing DEF FullOf
  <2>4. rest = u
    BY <2>1, <2>2 DEF RestOf
  <2>5. PICK k \in Nat : b * k <= Len(u) /\ Len(u) < b * k + b
    BY <1>2
  <2>6. Blocks(u, k) \in Seq(Buffer)
    BY <2>5, BlocksType
  <2>7. <<>> \o Blocks(u, k) = Blocks(u, k)
    BY <2>6, ConcatEmptySeq
  <2>8. /\ sha256_update_ret(c, u).state = Folding!Fold(c.state, Blocks(u, k))
        /\ sha256_update_ret(c, u).buffer
             = Copy(c.buffer, l, SubSeq(u, b * k + 1, Len(u)))
    <3>1. /\ sha256_update_ret(c, u).state
               = Folding!Fold(c.state, (IF fill = 0 THEN <<>> ELSE <<full>>) \o Blocks(rest, k))
          /\ sha256_update_ret(c, u).buffer
               = Copy(full, IF fill = 0 THEN Left(c) ELSE 0,
                      SubSeq(rest, b * k + 1, Len(rest)))
      BY <2>4, <2>5, UpdateIs
    <3> HIDE DEF fill, full, rest, b
    <3> QED
      BY <2>1, <2>3, <2>4, <2>7, <3>1, Zenon
  <2>9. CASE l = 0
    <3>1. Holds(Copy(c.buffer, 0, SubSeq(u, b * k + 1, Len(u))), Folding!Fold(c.state, Blocks(u, k)),
                base, m \o u, n + k, Len(u) - b * k)
      BY <2>5, <2>9, TakesBlocks
    <3>2. Holds(sha256_update_ret(c, u).buffer, sha256_update_ret(c, u).state,
                base, m \o u, n + k, Len(u) - b * k)
      BY <2>8, <2>9, <3>1, Zenon
    <3> QED
      BY <3>2
  <2>10. CASE l # 0
    <3>1. l + Len(u) < b
      BY <1>1, <1>4, <2>10 DEF Fills
    <3>2. k = 0
      <4>1. b * k < b
        BY <1>1, <2>5, <3>1
      <4>2. b * k - b * 0 >= b \/ ~(0 < k)
        BY <1>1, MultiplesApart
      <4> QED
        BY <1>1, <4>1, <4>2
    <3>3. b * k + 1 = 1 /\ Blocks(u, k) = <<>>
      BY <1>1, <3>2 DEF Blocks
    <3>4. /\ sha256_update_ret(c, u).state = c.state
          /\ sha256_update_ret(c, u).buffer = Copy(c.buffer, l, u)
      BY <2>2, <2>8, <3>3, Folding!FoldNone
    <3>5. Holds(Copy(c.buffer, l, u), c.state, base, m \o u, n, l + Len(u))
      BY <3>1, StoresPiece
    <3>6. Holds(sha256_update_ret(c, u).buffer, sha256_update_ret(c, u).state,
                base, m \o u, n, l + Len(u))
      BY <3>4, <3>5, Zenon
    <3> QED
      BY <3>6
  <2> QED
    BY <2>9, <2>10
<1> QED
  BY <1>3, <1>4

LEMMA ZerosType ==
    ASSUME NEW n \in Nat
    PROVE  Zeros(n) \in Seq(Octet) /\ Len(Zeros(n)) = n
<1>1. 0 \in Octet
  BY DEF Octet
<1> QED
  BY <1>1 DEF Zeros

LEMMA ZerosConcat ==
    ASSUME NEW n \in Nat, NEW k \in Nat
    PROVE  Zeros(n) \o Zeros(k) = Zeros(n + k)
<1>1. /\ Zeros(n) \in Seq(Octet) /\ Len(Zeros(n)) = n
      /\ Zeros(k) \in Seq(Octet) /\ Len(Zeros(k)) = k
      /\ Zeros(n + k) \in Seq(Octet) /\ Len(Zeros(n + k)) = n + k
  BY ZerosType
<1>2. /\ \A i \in 1..n : Zeros(n)[i] = 0
      /\ \A i \in 1..k : Zeros(k)[i] = 0
      /\ \A i \in 1..(n + k) : Zeros(n + k)[i] = 0
  BY DEF Zeros
<1> DEFINE a == Zeros(n)
           b == Zeros(k)
           c == Zeros(n + k)
<1> HIDE DEF a, b, c
<1>3. /\ a \in Seq(Octet) /\ Len(a) = n /\ b \in Seq(Octet) /\ Len(b) = k
      /\ c \in Seq(Octet) /\ Len(c) = n + k
      /\ \A i \in 1..n : a[i] = 0
      /\ \A i \in 1..k : b[i] = 0
      /\ \A i \in 1..(n + k) : c[i] = 0
  BY <1>1, <1>2 DEF a, b, c
<1>4. /\ a \o b \in Seq(Octet) /\ Len(a \o b) = n + k
      /\ \A i \in 1..(n + k) : (a \o b)[i] = IF i <= n THEN a[i] ELSE b[i - n]
  BY <1>3, ConcatProperties
<1>5. \A i \in 1..(n + k) : (a \o b)[i] = 0
  <2> SUFFICES ASSUME NEW i \in 1..(n + k)
               PROVE  (a \o b)[i] = 0
    OBVIOUS
  <2>1. i <= n => i \in 1..n
    OBVIOUS
  <2>2. ~(i <= n) => i - n \in 1..k
    OBVIOUS
  <2> QED
    BY <1>3, <1>4, <2>1, <2>2
<1>6. a \o b = c
  BY <1>3, <1>4, <1>5, SeqEqual
<1> QED
  BY <1>6 DEF a, b, c

LEMMA WordType ==
    ASSUME SizesAssumption, NEW n \in Int
    PROVE  PutWord(n) \in Seq(Octet) /\ Len(PutWord(n)) = WordBytes
<1>1. \A i \in 1..WordBytes : PutWord(n)[i] \in Octet
  BY SMTT(40) DEF Octet
<1>2. PutWord(n) = [i \in 1..WordBytes |-> PutWord(n)[i]] /\ WordBytes \in Nat
  BY Sizes DEF PutWord
<1> QED
  BY <1>1, <1>2

\* What ends a message: a bit that is set.
Mark == <<128>>

\* The last block, when there is room for the length behind the message.
LEMMA FinishWithRoom ==
    ASSUME NEW c, IsContext(c), LengthFits(Left(c) + 1), NEW last,
           last = Copy(Copy(Copy(c.buffer, Left(c), Mark), Left(c) + 1,
                            Zeros(LengthAt - (Left(c) + 1))),
                       LengthAt, BitCount(c.total))
    PROVE  /\ IsContext(sha256_finish_ret(c))
           /\ sha256_finish_ret(c).is224 = c.is224
           /\ sha256_finish_ret(c).buffer = last
           /\ sha256_finish_ret(c).state = Compress(c.state, last)
<1>1. sha256_finish_ret(c) = [c EXCEPT !.state = Compress(c.state, last), !.buffer = last]
  BY DEF sha256_finish_ret, Mark
<1> QED
  BY <1>1, Zenon DEF IsContext

\* The last two blocks, when there is none.
LEMMA FinishWithoutRoom ==
    ASSUME NEW c, IsContext(c), ~LengthFits(Left(c) + 1), NEW padded, NEW last,
           padded = Copy(Copy(c.buffer, Left(c), Mark), Left(c) + 1,
                         Zeros(BlockSize - (Left(c) + 1))),
           last = Copy(Copy(padded, 0, Zeros(LengthAt)), LengthAt, BitCount(c.total))
    PROVE  /\ IsContext(sha256_finish_ret(c))
           /\ sha256_finish_ret(c).is224 = c.is224
           /\ sha256_finish_ret(c).buffer = last
           /\ sha256_finish_ret(c).state = Compress(Compress(c.state, padded), last)
<1>1. sha256_finish_ret(c) = [c EXCEPT !.state = Compress(Compress(c.state, padded), last),
                                       !.buffer = last]
  BY DEF sha256_finish_ret, Mark
<1> QED
  BY <1>1, ZenonT(40) DEF IsContext

\* The padding of a message of len bytes.
PaddingOf(len) == Zeros((LengthAt - (len + 1)) % BlockSize)

LEMMA PaddingIs ==
    ASSUME SizesAssumption, NEW n \in Nat, NEW l \in Nat, l < BlockSize,
           NEW len \in Nat, len = BlockSize * n + l
    PROVE  /\ l + 1 <= LengthAt => PaddingOf(len) = Zeros(LengthAt - (l + 1))
           /\ ~(l + 1 <= LengthAt) => PaddingOf(len)
                                        = Zeros(BlockSize - (l + 1)) \o Zeros(LengthAt)
<1> DEFINE b == BlockSize
           e == b * n
<1>1. /\ b \in Nat /\ b > 0 /\ e \in Nat /\ LengthAt \in Nat /\ LengthAt > 0
      /\ LengthAt < b /\ len = e + l
  BY Sizes
<1>2. b * (-n) = -e /\ b * (-n - 1) = -e - b
  BY <1>1
<1> HIDE DEF b, e
<1>3. CASE l + 1 <= LengthAt
  <2>1. PICK v \in Int, q \in Int, r \in 0..b - 1 :
           v = LengthAt - (len + 1) /\ r = LengthAt - (l + 1) /\ v = b * q + r
    <3>1. LengthAt - (len + 1) = b * (-n) + (LengthAt - (l + 1)) /\ -n \in Int
      BY <1>1, <1>2
    <3>2. LengthAt - (len + 1) \in Int /\ LengthAt - (l + 1) \in 0..b - 1
      BY <1>1, <1>3
    <3> QED
      BY <3>1, <3>2
  <2>2. v % b = r
    <3>1. v \in Int /\ q \in Int /\ r \in 0..b - 1 /\ b \in Nat /\ v = b * q + r
      BY <1>1, <2>1
    <3> HIDE <2>1
    <3> QED
      BY <3>1, DivisionUnique, Zenon
  <2> QED
    BY <1>3, <2>1, <2>2 DEF PaddingOf, b
<1>4. CASE ~(l + 1 <= LengthAt)
  <2>1. PICK v \in Int, q \in Int, r \in 0..b - 1 :
           /\ v = LengthAt - (len + 1) /\ r = (b - (l + 1)) + LengthAt
           /\ v = b * q + r
    <3>1. /\ LengthAt - (len + 1) = b * (-n - 1) + ((b - (l + 1)) + LengthAt)
          /\ -n - 1 \in Int
      BY <1>1, <1>2
    <3>2. LengthAt - (len + 1) \in Int /\ (b - (l + 1)) + LengthAt \in 0..b - 1
      BY <1>1, <1>4 DEF b
    <3> QED
      BY <3>1, <3>2
  <2>2. v % b = r
    <3>1. v \in Int /\ q \in Int /\ r \in 0..b - 1 /\ b \in Nat /\ v = b * q + r
      BY <1>1, <2>1
    <3> HIDE <2>1
    <3> QED
      BY <3>1, DivisionUnique, Zenon
  <2>3. b - (l + 1) \in Nat
    BY <1>1 DEF b
  <2>4. Zeros(b - (l + 1)) \o Zeros(LengthAt) = Zeros(r)
    BY <1>1, <2>1, <2>3, ZerosConcat
  <2> QED
    BY <1>4, <2>1, <2>2, <2>4 DEF PaddingOf, b
<1> QED
  BY <1>3, <1>4

LEMMA MarkType == Mark \in Seq(Octet) /\ Len(Mark) = 1
<1>1. 128 \in Octet
  BY DEF Octet
<1> QED
  BY <1>1 DEF Mark

\* Bytes behind bytes.
LEMMA Behind ==
    ASSUME NEW u \in Seq(Octet), NEW v \in Seq(Octet)
    PROVE  u \o v \in Seq(Octet) /\ Len(u \o v) = Len(u) + Len(v)
  BY ConcatProperties

LEMMA Associative ==
    ASSUME NEW u \in Seq(Octet), NEW v \in Seq(Octet), NEW w \in Seq(Octet)
    PROVE  (u \o v) \o w = u \o (v \o w)
  BY ConcatAssociative

\* The state after finish is that of the blocks of the padded message.
LEMMA FinishHolds ==
    ASSUME SizesAssumption, NEW c, IsContext(c), NEW base, NEW m, NEW n, NEW l,
           Holds(c.buffer, c.state, base, m, n, l), Left(c) = l,
           NEW bits \in Seq(Octet), BitCount(c.total) = bits, Len(bits) = 2 * WordBytes
    PROVE  /\ IsContext(sha256_finish_ret(c))
           /\ sha256_finish_ret(c).is224 = c.is224
           /\ \E k : Holds(sha256_finish_ret(c).buffer, sha256_finish_ret(c).state, base,
                           ((m \o Mark) \o PaddingOf(Len(m))) \o bits, k, 0)
<1> DEFINE a == Mark
           L == LengthAt
<1>1. /\ n \in Nat /\ l \in Nat /\ l < BlockSize /\ Len(m) \in Nat
      /\ Len(m) = BlockSize * n + l
  BY HoldsTypes
<1>6. m \in Seq(Octet)
  BY HoldsTypes
<1>7. l \in Nat
  BY HoldsTypes
<1>2. /\ BlockSize \in Nat /\ BlockSize > 0 /\ L \in Nat /\ L > 0
      /\ L + Len(bits) = BlockSize /\ Len(bits) \in Nat
  BY Sizes
<1>3. Len(a) = 1
  BY MarkType
<1>8. a \in Seq(Octet)
  BY MarkType
<1> HIDE DEF a, L
<1>4. CASE l + 1 <= L
  <2>1. PICK z \in Seq(Octet) : z = Zeros(L - (l + 1)) /\ Len(z) = L - (l + 1)
    <3>1. L - (l + 1) \in Nat
      BY <1>1, <1>2, <1>4
    <3> QED
      BY <3>1, ZerosType
  <2>2. z = PaddingOf(Len(m))
    BY <1>1, <1>4, <2>1, PaddingIs DEF L
  <2> DEFINE p == (a \o z) \o bits
             last == Copy(Copy(Copy(c.buffer, l, a), l + 1, z), L, bits)
  <2>3. /\ a \o z \in Seq(Octet) /\ Len(a \o z) = 1 + (L - (l + 1))
        /\ p \in Seq(Octet) /\ Len(p) = 1 + (L - (l + 1)) + Len(bits)
        /\ m \o p = ((m \o a) \o z) \o bits
    <3>1. /\ a \o z \in Seq(Octet) /\ Len(a \o z) = Len(a) + Len(z)
          /\ (a \o z) \o bits \in Seq(Octet)
          /\ Len((a \o z) \o bits) = Len(a) + Len(z) + Len(bits)
          /\ m \o ((a \o z) \o bits) = ((m \o a) \o z) \o bits
      <4>1. z \in Seq(Octet) /\ bits \in Seq(Octet) /\ a \in Seq(Octet) /\ m \in Seq(Octet)
        BY <1>6, <1>8, <2>1
      <4>2. a \o z \in Seq(Octet) /\ Len(a \o z) = Len(a) + Len(z)
        BY <4>1, Behind, Zenon
      <4>3. /\ (a \o z) \o bits \in Seq(Octet)
            /\ Len((a \o z) \o bits) = Len(a \o z) + Len(bits)
        BY <4>1, <4>2, Behind, Zenon
      <4>4. m \o (a \o z) = (m \o a) \o z
        BY <4>1, Associative, ZenonT(40)
      <4>5. m \o ((a \o z) \o bits) = (m \o (a \o z)) \o bits
        BY <4>1, <4>2, Associative, ZenonT(40)
      <4> QED
        BY <4>2, <4>3, <4>4, <4>5, Zenon
    <3> QED
      BY <1>3, <2>1, <3>1, Zenon
  <2>4. last = Copy(c.buffer, l, p)
    <3>1. Copy(Copy(c.buffer, l, a), l + Len(a), z) = Copy(c.buffer, l, a \o z)
      BY <1>7, <1>8, CopyCopy, ZenonT(40)
    <3>4. a \o z \in Seq(Octet)
      BY <2>3
    <3>2. Copy(Copy(c.buffer, l, a \o z), l + Len(a \o z), bits) = Copy(c.buffer, l, p)
      BY <1>7, <3>4, CopyCopy, ZenonT(40)
    <3>3. l + Len(a \o z) = L
      BY <1>1, <1>2, <2>3
    <3> QED
      BY <1>3, <3>1, <3>2, <3>3, Zenon
  <2>5. l + Len(p) = BlockSize
    BY <1>1, <1>2, <2>3
  <2> HIDE DEF p
  <2>6. Holds(last, Compress(c.state, last), base, m \o p, n + 1, 0)
    BY <2>3, <2>4, <2>5, FillsBlock
  <2>7. LengthFits(Left(c) + 1)
    BY <1>4 DEF LengthFits, L
  <2>8. /\ IsContext(sha256_finish_ret(c)) /\ sha256_finish_ret(c).is224 = c.is224
        /\ sha256_finish_ret(c).buffer = last
        /\ sha256_finish_ret(c).state = Compress(c.state, last)
    BY <2>1, <2>7, FinishWithRoom, ZenonT(40) DEF L, a
  <2> HIDE DEF last
  <2>9. Holds(sha256_finish_ret(c).buffer, sha256_finish_ret(c).state, base,
              ((m \o a) \o PaddingOf(Len(m))) \o bits, n + 1, 0)
    BY <2>2, <2>3, <2>6, <2>8, Zenon
  <2> QED
    BY <2>8, <2>9, Zenon DEF a
<1>5. CASE ~(l + 1 <= L)
  <2>1. PICK z \in Seq(Octet) : z = Zeros(BlockSize - (l + 1)) /\ Len(z) = BlockSize - (l + 1)
    <3>1. BlockSize - (l + 1) \in Nat
      BY <1>1, <1>2
    <3> QED
      BY <3>1, ZerosType
  <2>2. PICK y \in Seq(Octet) : y = Zeros(L) /\ Len(y) = L
    BY <1>2, ZerosType
  <2>3. z \o y = PaddingOf(Len(m))
    BY <1>1, <1>5, <2>1, <2>2, PaddingIs DEF L
  <2> DEFINE padded == Copy(Copy(c.buffer, l, a), l + 1, z)
             last == Copy(Copy(padded, 0, y), L, bits)
             az == a \o z
             yb == y \o bits
  <2>4. /\ az \in Seq(Octet) /\ Len(az) = 1 + (BlockSize - (l + 1))
        /\ yb \in Seq(Octet) /\ Len(yb) = L + Len(bits)
    <3>1. /\ az \in Seq(Octet) /\ Len(az) = Len(a) + Len(z)
          /\ yb \in Seq(Octet) /\ Len(yb) = Len(y) + Len(bits)
      BY <1>8, ConcatProperties
    <3> QED
      BY <1>3, <2>1, <2>2, <3>1, Zenon
  <2>5. padded = Copy(c.buffer, l, az)
    <3>1. Copy(Copy(c.buffer, l, a), l + Len(a), z) = Copy(c.buffer, l, a \o z)
      <4>1. z \in Seq(Octet) /\ a \in Seq(Octet) /\ l \in Nat
        BY <1>7, <1>8, <2>1
      <4> QED
        BY <4>1, CopyCopy, ZenonT(40)
    <3> QED
      BY <1>3, <3>1, Zenon
  <2>6. l + Len(az) = BlockSize
    BY <1>1, <1>2, <2>4
  <2>7. Holds(padded, Compress(c.state, padded), base, m \o az, n + 1, 0)
    <3> HIDE DEF az, padded
    <3> QED
      BY <2>4, <2>5, <2>6, FillsBlock
  <2> HIDE DEF padded
  <2>8. last = Copy(padded, 0, yb)
    <3>1. Copy(Copy(padded, 0, y), 0 + Len(y), bits) = Copy(padded, 0, y \o bits)
      BY CopyCopy
    <3>2. 0 + Len(y) = L
      BY <1>2, <2>2
    <3> QED
      BY <3>1, <3>2, Zenon
  <2>9. 0 + Len(yb) = BlockSize
    BY <1>2, <2>4
  <2>10. Holds(last, Compress(Compress(c.state, padded), last), base, (m \o az) \o yb,
               (n + 1) + 1, 0)
    <3> HIDE DEF az, yb, last
    <3> QED
      BY <2>4, <2>7, <2>8, <2>9, FillsBlock
  <2>11. (m \o az) \o yb = ((m \o a) \o (z \o y)) \o bits
    <3>1. /\ z \in Seq(Octet) /\ y \in Seq(Octet) /\ bits \in Seq(Octet)
          /\ a \in Seq(Octet) /\ m \in Seq(Octet)
      BY <1>6, <1>8, <2>1, <2>2
    <3>2. m \o a \in Seq(Octet)
      BY <3>1, Behind, Zenon
    <3>3. (m \o a) \o z \in Seq(Octet)
      BY <3>1, <3>2, Behind, Zenon
    <3>4. m \o (a \o z) = (m \o a) \o z
      BY <3>1, Associative, ZenonT(40)
    <3>5. ((m \o a) \o z) \o (y \o bits) = (((m \o a) \o z) \o y) \o bits
      BY <3>1, <3>3, Associative, ZenonT(40)
    <3>6. ((m \o a) \o z) \o y = (m \o a) \o (z \o y)
      BY <3>1, <3>2, Associative, ZenonT(40)
    <3> QED
      BY <3>4, <3>5, <3>6, Zenon DEF az, yb
  <2>12. ~LengthFits(Left(c) + 1)
    BY <1>5 DEF LengthFits, L
  <2>13. /\ IsContext(sha256_finish_ret(c)) /\ sha256_finish_ret(c).is224 = c.is224
         /\ sha256_finish_ret(c).buffer = last
         /\ sha256_finish_ret(c).state = Compress(Compress(c.state, padded), last)
    <3>1. /\ padded = Copy(Copy(c.buffer, Left(c), Mark), Left(c) + 1,
                             Zeros(BlockSize - (Left(c) + 1)))
          /\ last = Copy(Copy(padded, 0, Zeros(LengthAt)), LengthAt, BitCount(c.total))
      BY <2>1, <2>2, Zenon DEF L, a, padded
    <3> HIDE DEF last
    <3> QED
      BY <2>12, <3>1, FinishWithoutRoom, ZenonT(40)
  <2> HIDE DEF last, az, yb
  <2>14. Holds(sha256_finish_ret(c).buffer, sha256_finish_ret(c).state, base,
               ((m \o a) \o PaddingOf(Len(m))) \o bits, (n + 1) + 1, 0)
    BY <2>3, <2>10, <2>11, <2>13, Zenon
  <2> QED
    BY <2>13, <2>14, Zenon DEF a
<1> QED
  BY <1>4, <1>5

\* The padded message, and the blocks it is cut into.
LEMMA PaddedIs ==
    ASSUME SizesAssumption, NEW m \in Seq(Octet), NEW total, Counts(total, Len(m))
    PROVE  /\ BitCount(total) \in Seq(Octet) /\ Len(BitCount(total)) = 2 * WordBytes
           /\ ((m \o Mark) \o PaddingOf(Len(m))) \o BitCount(total) = Padded(m)
<1>1. PICK len \in Nat : len = Len(m)
  OBVIOUS
<1>2. /\ BlockSize \in Nat /\ BlockSize > 0 /\ LengthAt \in Nat
      /\ WordModulus \in Nat /\ WordModulus > 0 /\ WordBytes \in Nat
  BY Sizes
<1>3. PICK z \in Seq(Octet) : z = PaddingOf(len)
  <2>1. LengthAt - (len + 1) \in Int
    BY <1>2
  <2>2. (LengthAt - (len + 1)) % BlockSize \in Nat
    BY <1>2, <2>1
  <2> QED
    BY <2>2, ZerosType DEF PaddingOf
<1>4. PICK hi \in Int, lo \in Int :
         /\ hi = ((8 * len) \div WordModulus) % WordModulus
         /\ lo = (8 * len) % WordModulus
  <2>1. 8 * len \in Nat
    BY <1>1
  <2>2. (8 * len) \div WordModulus \in Nat
    BY <1>2, <2>1, DivType
  <2> QED
    BY <1>2, <2>1, <2>2
<1>5. BitCount(total) = PutWord(hi) \o PutWord(lo)
  BY <1>1, <1>4, BitsCounted
<1>6. PICK y \in Seq(Octet) : y = PutWord(hi) /\ Len(y) = WordBytes
  BY <1>4, WordType
<1>7. PICK t \in Seq(Octet) : t = PutWord(lo) /\ Len(t) = WordBytes
  BY <1>4, WordType
<1>8. PICK a \in Seq(Octet) : a = Mark
  BY MarkType
<1>9. y \o t \in Seq(Octet) /\ Len(y \o t) = WordBytes + WordBytes
  BY <1>6, <1>7, Behind, SMTT(40)
<1>10. PICK maz \in Seq(Octet) : maz = (m \o a) \o z
  <2>1. m \o a \in Seq(Octet)
    BY <1>8, Behind
  <2> QED
    BY <1>3, <2>1, Behind
<1>11. maz \o (y \o t) = (maz \o y) \o t
  <2>1. maz \in Seq(Octet) /\ y \in Seq(Octet) /\ t \in Seq(Octet)
    BY <1>6, <1>7, <1>10
  <2> QED
    BY <2>1, Associative, Zenon
<1>12. Padded(m) = (((m \o a) \o z) \o y) \o t
  BY <1>1, <1>3, <1>4, <1>6, <1>7, <1>8, Zenon DEF Mark, Padded, PaddingOf
<1>13. WordBytes + WordBytes = 2 * WordBytes
  BY <1>2
<1> QED
  <2>1. BitCount(total) = y \o t
    BY <1>5, <1>6, <1>7
  <2>2. BitCount(total) \in Seq(Octet) /\ Len(BitCount(total)) = 2 * WordBytes
    BY <1>9, <1>13, <2>1, Zenon
  <2>3. ((m \o Mark) \o PaddingOf(Len(m))) \o BitCount(total) = Padded(m)
    BY <1>1, <1>3, <1>8, <1>10, <1>11, <1>12, <2>1, Zenon
  <2> QED
    BY <2>2, <2>3

LEMMA BlocksOfAre ==
    ASSUME SizesAssumption, NEW held, NEW state, NEW base, NEW m, NEW k,
           Holds(held, state, base, Padded(m), k, 0)
    PROVE  /\ k \in Nat /\ Len(Padded(m)) = BlockSize * k /\ Padded(m) \in Seq(Octet)
           /\ BlocksOf(m) = Blocks(Padded(m), k)
           /\ state = Folding!Fold(base, Blocks(Padded(m), k))
<1> DEFINE p == Padded(m)
<1>1. /\ BlockSize \in Nat /\ BlockSize > 0 /\ k \in Nat
      /\ BlockSize * k \in Nat /\ BlockSize * k <= Len(p)
      /\ Len(p) = BlockSize * k + 0 /\ p \in Seq(Octet)
      /\ state = Folding!Fold(base, Blocks(p, k))
  BY HoldsTypes
<1> HIDE DEF p
<1>2. Len(p) \div BlockSize = k
  <2>1. PICK v \in Int, r \in 0..BlockSize - 1 : v = Len(p) /\ r = 0 /\ v = BlockSize * k + r
    BY <1>1
  <2>2. v \in Int /\ BlockSize \in Nat /\ k \in Int /\ r \in 0..BlockSize - 1
        /\ v = BlockSize * k + r
    BY <1>1, <2>1
  <2>3. v \div BlockSize = k
    BY <2>2, DivisionUnique, Zenon
  <2> QED
    BY <2>1, <2>3
<1>3. [j \in 1..k |-> SubSeq(p, BlockSize * (j - 1) + 1, BlockSize * j)] = Blocks(p, k)
  BY <1>1, BlocksAreSubSeqs
<1>4. BlocksOf(m) = Blocks(p, k)
  BY <1>2, <1>3 DEF BlocksOf, p
<1>5. Len(p) = BlockSize * k
  <2> DEFINE e == BlockSize * k
  <2>1. e \in Nat /\ Len(p) = e + 0
    BY <1>1
  <2> HIDE DEF e
  <2>2. Len(p) = e
    BY <2>1
  <2> QED
    BY <2>2 DEF e
<1> QED
  BY <1>1, <1>4, <1>5, Zenon DEF p

LEMMA BlocksOfIs ==
    ASSUME SizesAssumption, NEW held, NEW state, NEW base, NEW m, NEW k,
           Holds(held, state, base, Padded(m), k, 0)
    PROVE  FoldLeft(Compress, base, BlocksOf(m)) = state
<1>1. BlocksOf(m) = Blocks(Padded(m), k) /\ state = Folding!Fold(base, Blocks(Padded(m), k))
  BY BlocksOfAre
<1> QED
  BY <1>1, FoldingIs, Zenon

\* The counter says how much is in the buffer.
LEMMA LeftIs ==
    ASSUME SizesAssumption, NEW c, NEW len \in Nat, Counts(c.total, len),
           NEW n \in Nat, NEW l \in Nat, l < BlockSize, len = BlockSize * n + l
    PROVE  Left(c) = l
<1>1. /\ BlockSize \in Nat /\ BlockSize > 0 /\ WordModulus \in Nat /\ WordModulus > 0
      /\ WordModulus % BlockSize = 0
  BY Sizes
<1>2. c.total[1] = len % WordModulus
  BY DEF Counts
<1>3. (len % WordModulus) % BlockSize = len % BlockSize
  BY <1>1, ModOfMod, ZenonT(40)
<1>4. len % BlockSize = l
  <2>1. /\ len \in Int /\ n \in Int /\ l \in 0..BlockSize - 1 /\ BlockSize \in Nat
        /\ len = BlockSize * n + l
    BY <1>1
  <2> QED
    BY <2>1, DivisionUnique, Zenon
<1> QED
  BY <1>2, <1>3, <1>4 DEF Left

-----------------------------------------------------------------------------
(***************************************************************************)
(* The contexts.                                                           *)
(***************************************************************************)
Digest(is224, m) ==
    LET state == FoldLeft(Compress, InitialState(is224), BlocksOf(m))
    IN  IF is224 = 0 THEN state ELSE Leading(state)

\* A context that was given m since it was started.
HoldsMessage(x, m) ==
    /\ Counts(x.total, Len(m))
    /\ \E n, l : Holds(x.buffer, x.state, InitialState(x.is224), m, n, l)

ContextSound(x, ph, m, out) ==
    /\ IsContext(x) /\ x.buffer \in Buffer /\ m \in Seq(Octet)
    /\ ph = "started" => HoldsMessage(x, m)
    /\ ph = "finished" => out = Digest(x.is224, m)

LEMMA UpdateKeeps ==
    ASSUME NEW x, IsContext(x), NEW u
    PROVE  /\ IsContext(sha256_update_ret(x, u))
           /\ sha256_update_ret(x, u).total = Counted(x.total, Len(u))
           /\ sha256_update_ret(x, u).is224 = x.is224
<1>1. \E s, b : sha256_update_ret(x, u)
                  = [x EXCEPT !.total = Counted(@, Len(u)), !.state = s, !.buffer = b]
  BY Zenon DEF sha256_update_ret
<1>2. PICK s, b : sha256_update_ret(x, u)
                    = [x EXCEPT !.total = Counted(@, Len(u)), !.state = s, !.buffer = b]
  BY <1>1
<1> QED
  BY <1>2, Zenon DEF IsContext

\* Processing a piece keeps a context sound.
LEMMA UpdateSound ==
    ASSUME SizesAssumption, NEW x, IsContext(x), NEW m, HoldsMessage(x, m), m \in Seq(Octet),
           NEW u \in Seq(Octet), Len(u) \in 0..WordModulus - 1, NEW out
    PROVE  ContextSound(sha256_update_ret(x, u), "started", m \o u, out)
<1> DEFINE y == sha256_update_ret(x, u)
<1>1. PICK n, l : Holds(x.buffer, x.state, InitialState(x.is224), m, n, l)
  BY DEF HoldsMessage
<1>2. /\ n \in Nat /\ l \in Nat /\ l < BlockSize /\ Len(m) = BlockSize * n + l /\ Len(m) \in Nat
  BY <1>1, HoldsTypes
<1>3. Left(x) = l
  BY <1>2, LeftIs DEF HoldsMessage
<1>4. /\ IsContext(y) /\ y.total = Counted(x.total, Len(u)) /\ y.is224 = x.is224
  BY <1>1, <1>3, UpdateKeeps
<1>5. PICK n2, l2 : Holds(y.buffer, y.state, InitialState(x.is224), m \o u, n2, l2)
  BY <1>1, <1>3, UpdateHolds
<1>6. m \o u \in Seq(Octet) /\ Len(m \o u) = Len(m) + Len(u)
  BY Behind
<1>7. Counts(Counted(x.total, Len(u)), Len(m) + Len(u))
  BY <1>2, CountedCounts DEF HoldsMessage
<1> HIDE DEF y
<1>8. y.buffer \in Buffer
  BY <1>5 DEF Holds
<1>9. HoldsMessage(y, m \o u)
  BY <1>4, <1>5, <1>6, <1>7, Zenon DEF HoldsMessage
<1>10. ContextSound(y, "started", m \o u, out)
  BY <1>4, <1>6, <1>8, <1>9 DEF ContextSound
<1> QED
  BY <1>10 DEF y

\* Finishing processes the blocks of the padded message.
LEMMA FinishIs ==
    ASSUME SizesAssumption, NEW x, IsContext(x), NEW m, HoldsMessage(x, m), m \in Seq(Octet)
    PROVE  /\ IsContext(sha256_finish_ret(x)) /\ sha256_finish_ret(x).is224 = x.is224
           /\ sha256_finish_ret(x).buffer \in Buffer
           /\ sha256_finish_ret(x).state
                = FoldLeft(Compress, InitialState(x.is224), BlocksOf(m))
           /\ \E k \in Nat : Len(Padded(m)) = BlockSize * k /\ Padded(m) \in Seq(Octet)
                            /\ BlocksOf(m) = Blocks(Padded(m), k)
<1> DEFINE y == sha256_finish_ret(x)
           base == InitialState(x.is224)
           bits == BitCount(x.total)
<1>1. PICK n, l : Holds(x.buffer, x.state, base, m, n, l)
  BY DEF HoldsMessage
<1>2. /\ n \in Nat /\ l \in Nat /\ l < BlockSize /\ Len(m) = BlockSize * n + l /\ Len(m) \in Nat
  BY <1>1, HoldsTypes
<1>3. Left(x) = l
  BY <1>2, LeftIs DEF HoldsMessage
<1>4. /\ bits \in Seq(Octet) /\ Len(bits) = 2 * WordBytes
      /\ ((m \o Mark) \o PaddingOf(Len(m))) \o bits = Padded(m)
  BY PaddedIs DEF HoldsMessage
<1>5. /\ IsContext(y) /\ y.is224 = x.is224
      /\ \E k : Holds(y.buffer, y.state, base,
                      ((m \o Mark) \o PaddingOf(Len(m))) \o bits, k, 0)
  <2> HIDE DEF y, base
  <2> QED
    BY <1>1, <1>3, <1>4, FinishHolds DEF y
<1> HIDE DEF y, bits
<1>6. PICK k : Holds(y.buffer, y.state, base, Padded(m), k, 0)
  BY <1>4, <1>5, Zenon
<1>7. FoldLeft(Compress, base, BlocksOf(m)) = y.state
  BY <1>6, BlocksOfIs
<1>8. y.buffer \in Buffer
  BY <1>6 DEF Holds
<1>9. /\ k \in Nat /\ Len(Padded(m)) = BlockSize * k /\ Padded(m) \in Seq(Octet)
      /\ BlocksOf(m) = Blocks(Padded(m), k)
  BY <1>6, BlocksOfAre
<1> QED
  BY <1>5, <1>7, <1>8, <1>9 DEF y

LEMMA FinishSound ==
    ASSUME SizesAssumption, NEW x, IsContext(x), NEW m, HoldsMessage(x, m), m \in Seq(Octet)
    PROVE  ContextSound(sha256_finish_ret(x), "finished", m, Output(sha256_finish_ret(x)))
<1> DEFINE y == sha256_finish_ret(x)
<1>1. /\ IsContext(y) /\ y.is224 = x.is224 /\ y.buffer \in Buffer
      /\ y.state = FoldLeft(Compress, InitialState(x.is224), BlocksOf(m))
  BY FinishIs
<1> HIDE DEF y
<1>2. Output(y) = Digest(y.is224, m)
  BY <1>1 DEF Output, Digest
<1>3. ContextSound(y, "finished", m, Output(y))
  BY <1>1, <1>2 DEF ContextSound
<1> QED
  BY <1>3 DEF y

LEMMA InitSound ==
    ASSUME SizesAssumption, NEW out
    PROVE  /\ ContextSound(sha256_init, "init", <<>>, out)
           /\ ContextSound(sha256_init, "none", <<>>, out)
<1>1. sha256_init.buffer \in Buffer
  <2>1. 0 \in Octet
    BY DEF Octet
  <2> QED
    BY <2>1 DEF sha256_init, Zeros, Buffer
<1>2. IsContext(sha256_init)
  BY DEF sha256_init, IsContext
<1>3. <<>> \in Seq(Octet)
  OBVIOUS
<1> QED
  BY <1>1, <1>2, <1>3 DEF ContextSound

\* Starting: the buffer stays.
LEMMA StartsIs ==
    ASSUME NEW x, IsContext(x), NEW kind
    PROVE  /\ IsContext(sha256_starts_ret(x, kind))
           /\ sha256_starts_ret(x, kind).total = <<0, 0>>
           /\ sha256_starts_ret(x, kind).state = InitialState(kind)
           /\ sha256_starts_ret(x, kind).buffer = x.buffer
           /\ sha256_starts_ret(x, kind).is224 = kind
<1>1. PICK s : s = InitialState(kind)
  OBVIOUS
<1>2. PICK z : z = <<0, 0>>
  OBVIOUS
<1>3. sha256_starts_ret(x, kind)
        = [x EXCEPT !.total = z, !.state = s, !.is224 = kind]
  BY <1>1, <1>2, Zenon DEF sha256_starts_ret
<1>4. IsContext(sha256_starts_ret(x, kind))
  BY <1>3, Zenon DEF IsContext
<1>5. /\ sha256_starts_ret(x, kind).total = z
      /\ sha256_starts_ret(x, kind).state = s
      /\ sha256_starts_ret(x, kind).is224 = kind
  BY <1>3, Zenon DEF IsContext
<1>6. sha256_starts_ret(x, kind).buffer = x.buffer
  BY <1>3, Zenon DEF IsContext
<1> QED
  BY <1>1, <1>2, <1>4, <1>5, <1>6, Zenon

-----------------------------------------------------------------------------
(***************************************************************************)
(* A message that comes as a whole.                                        *)
(***************************************************************************)
LEMMA OnePiece ==
    ASSUME SizesAssumption, NEW x, IsContext(x), x.buffer \in Buffer, NEW kind,
           NEW m \in Seq(Octet), Len(m) \in 0..WordModulus - 1
    PROVE  /\ sha256_finish_ret(sha256_update_ret(sha256_starts_ret(x, kind), m)).state
                = FoldLeft(Compress, InitialState(kind), BlocksOf(m))
           /\ \E k \in Nat : Len(Padded(m)) = BlockSize * k /\ Padded(m) \in Seq(Octet)
                            /\ BlocksOf(m) = Blocks(Padded(m), k)
<1> DEFINE s == sha256_starts_ret(x, kind)
           u == sha256_update_ret(s, m)
<1>1. /\ IsContext(s) /\ s.total = <<0, 0>> /\ s.state = InitialState(kind)
      /\ s.buffer = x.buffer /\ s.is224 = kind
  BY StartsIs, Zenon
<1> HIDE DEF s
<1>2. Holds(s.buffer, s.state, InitialState(s.is224), <<>>, 0, 0)
  BY <1>1, HoldsNothing
<1>3. HoldsMessage(s, <<>>)
  BY <1>1, <1>2, NothingCounts DEF HoldsMessage
<1>4. <<>> \in Seq(Octet) /\ <<>> \o m = m
  OBVIOUS
<1>5. PICK out : out = <<>>
  OBVIOUS
<1>6. ContextSound(u, "started", <<>> \o m, out)
  BY <1>1, <1>3, <1>4, UpdateSound
<1>7. u.is224 = s.is224
  <2>1. /\ Counts(s.total, 0) /\ 0 \in Nat /\ 0 < BlockSize /\ 0 = BlockSize * 0 + 0
        /\ BlockSize \in Nat
    BY <1>1, Sizes, NothingCounts
  <2>2. Left(s) = 0
    BY <2>1, LeftIs
  <2> QED
    BY <1>1, <1>2, <2>2, UpdateKeeps
<1> HIDE DEF u
<1>8. IsContext(u) /\ HoldsMessage(u, m)
  BY <1>4, <1>6 DEF ContextSound
<1> QED
  BY <1>1, <1>7, <1>8, FinishIs DEF s, u

\* What FlattenSeq does with blocks: the beginnings of p grow by a block each.
LEMMA BlockByBlock ==
    ASSUME SizesAssumption, NEW p \in Seq(Octet), NEW n \in Nat, Len(p) = BlockSize * n,
           NEW j \in 1..n
    PROVE  /\ SubSeq(p, 1, BlockSize * (j - 1)) \o Block(p, j) = SubSeq(p, 1, BlockSize * j)
           /\ j = 1 => Block(p, j) = SubSeq(p, 1, BlockSize * j)
<1> DEFINE a == BlockSize * (j - 1)
           b == BlockSize * j
           e == BlockSize * n
<1>1. /\ a \in Nat /\ b = a + BlockSize /\ b <= e /\ BlockSize \in Nat /\ e \in Nat
      /\ j = 1 => a = 0
  <2>1. a \in Nat /\ b = a + BlockSize /\ b <= e /\ BlockSize \in Nat /\ e \in Nat
    BY BlockEnds, Sizes
  <2>2. j = 1 => j - 1 = 0 /\ BlockSize * 0 = 0
    BY <2>1
  <2> QED
    BY <2>1, <2>2, Zenon
<1>2. SubSeq(p, a + 1, b) = Block(p, j)
  BY BlockIsSubSeq
<1>3. Len(p) = e
  OBVIOUS
<1> HIDE DEF a, b, e
<1>4. SubSeq(p, 1, a) \o SubSeq(p, a + 1, b) = SubSeq(p, 1, b)
  BY <1>1, <1>3
<1>5. j = 1 => SubSeq(p, a + 1, b) = SubSeq(p, 1, b)
  BY <1>1
<1> QED
  BY <1>2, <1>4, <1>5, Zenon DEF a, b

Flattener(seqs) ==
    CHOOSE f : f = [i \in 1..Len(seqs) |-> IF i = 1 THEN seqs[i] ELSE f[i - 1] \o seqs[i]]

LEMMA FlattenIs ==
    ASSUME NEW seqs
    PROVE  FlattenSeq(seqs) = IF Len(seqs) = 0 THEN seqs ELSE Flattener(seqs)[Len(seqs)]
  BY DEF FlattenSeq, Flattener

LEMMA BlocksFlattened ==
    ASSUME SizesAssumption, NEW p \in Seq(Octet), NEW n \in Nat, n > 0, Len(p) = BlockSize * n
    PROVE  FlattenSeq(Blocks(p, n)) = p
<1> DEFINE q == Blocks(p, n)
           Whole(i) == SubSeq(p, 1, BlockSize * i)
           f == [i \in 1..n |-> Whole(i)]
           g == Flattener(q)
<1>1. Len(q) = n /\ \A j \in 1..n : q[j] = Block(p, j)
  BY DEF Blocks
<1>2. \A j \in 1..n : /\ Whole(j - 1) \o q[j] = Whole(j)
                      /\ j = 1 => q[j] = Whole(j)
  BY <1>1, BlockByBlock
<1>3. Whole(n) = p
  BY BlockEnds, Sizes
<1>4. FlattenSeq(q) = IF Len(q) = 0 THEN q ELSE g[Len(q)]
  BY FlattenIs
<1> HIDE DEF q, Whole
<1>5. ASSUME NEW i \in 1..n
      PROVE  f[i] = IF i = 1 THEN q[i] ELSE f[i - 1] \o q[i]
  <2>1. CASE i = 1
    BY <1>2, <2>1
  <2>2. CASE i # 1
    <3>1. i - 1 \in 1..n /\ f[i - 1] = Whole(i - 1) /\ f[i] = Whole(i)
      BY <2>2
    <3> QED
      BY <1>2, <2>2, <3>1
  <2> QED
    BY <2>1, <2>2
<1>6. f = [i \in 1..Len(q) |-> IF i = 1 THEN q[i] ELSE f[i - 1] \o q[i]]
  BY <1>1, <1>5
<1> HIDE DEF f
<1>7. g = [i \in 1..Len(q) |-> IF i = 1 THEN q[i] ELSE g[i - 1] \o q[i]]
  BY <1>6, Zenon DEF Flattener
<1> HIDE DEF g
<1> DEFINE S == {i \in Nat : i + 1 <= n => g[i + 1] = Whole(i + 1)}
<1>8. 0 \in S
  BY <1>1, <1>2, <1>7
<1>9. ASSUME NEW i \in Nat, i \in S
      PROVE  i + 1 \in S
  <2> SUFFICES ASSUME (i + 1) + 1 <= n
               PROVE  g[(i + 1) + 1] = Whole((i + 1) + 1)
    OBVIOUS
  <2>1. g[i + 1] = Whole(i + 1)
    BY <1>9
  <2>2. PICK j \in 1..n : j = (i + 1) + 1 /\ j # 1 /\ j - 1 = i + 1
    OBVIOUS
  <2>3. g[j] = g[j - 1] \o q[j]
    BY <1>1, <1>7, <2>2
  <2>4. g[j] = Whole(j)
    BY <1>2, <2>1, <2>2, <2>3
  <2> QED
    BY <2>2, <2>4
<1> HIDE DEF S
<1>10. n - 1 \in S
  BY <1>8, <1>9, SetInduction
<1>11. g[n] = Whole(n)
  <2>1. n - 1 \in Nat /\ (n - 1) + 1 = n
    OBVIOUS
  <2> QED
    BY <1>10, <2>1 DEF S
<1>12. FlattenSeq(q) = p
  BY <1>1, <1>3, <1>4, <1>11
<1> QED
  BY <1>12 DEF q
=============================================================================
