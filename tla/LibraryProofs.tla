--------------------------- MODULE LibraryProofs ---------------------------
(***************************************************************************)
(* Proofs about what the programs of the repository use as libraries.      *)
(* First the packet lists (PacketList): for every heap, any number of      *)
(* packets in a message, and any number of runs and of lost nodes.  Then   *)
(* what is used of mbed TLS.  The contexts of SHA-256 (Sha256): for every  *)
(* size of a block and a word, any number of contexts and pieces of any    *)
(* lengths.  The configuration and the setters of the platform layer       *)
(* (MbedtlsPlatform): for every configuration that check_config.h lets     *)
(* pass, not only those that a few edits make of two, and any number of    *)
(* calls of setters.  Last its default functions for the seed file         *)
(* (NvSeed): for every size of a seed, any number of writes, failures and  *)
(* crashes.                                                                *)
(***************************************************************************)
EXTENDS PacketList, Sha256, MbedtlsPlatform, NvSeed, Sha256ContextProofs,
        FiniteSetTheorems

-----------------------------------------------------------------------------
(***************************************************************************)
(* Recursive functions on the natural numbers.                             *)
(***************************************************************************)
\* The first m values of a function that begins with a and steps from each
\* value to the next.
Steps(m, a, step, X) ==
    {g \in [0..m -> X] : g[0] = a /\ \A n \in 1..m : g[n] = step[g[n - 1]]}

LEMMA StepsExist ==
    ASSUME NEW X, NEW a \in X, NEW step \in [X -> X], NEW m \in Nat
    PROVE  \E g : g \in Steps(m, a, step, X)
<1> DEFINE T == {n \in Nat : \E g : g \in Steps(n, a, step, X)}
<1>1. 0 \in T
  <2>1. [i \in 0..0 |-> a] \in Steps(0, a, step, X)
    BY DEF Steps
  <2> QED
    BY <2>1
<1>2. ASSUME NEW n \in Nat, n \in T
      PROVE  n + 1 \in T
  <2>1. PICK g : g \in Steps(n, a, step, X)
    BY <1>2
  <2>2. /\ g \in [0..n -> X] /\ g[0] = a
        /\ \A i \in 1..n : g[i] = step[g[i - 1]]
    BY <2>1 DEF Steps
  <2> DEFINE h == [i \in 0..(n + 1) |-> IF i = n + 1 THEN step[g[n]] ELSE g[i]]
  <2>3. h \in [0..(n + 1) -> X] /\ h[0] = a
    BY <2>2
  <2>4. \A i \in 1..(n + 1) : h[i] = step[h[i - 1]]
    BY <2>2
  <2>5. h \in Steps(n + 1, a, step, X)
    BY <2>3, <2>4 DEF Steps
  <2> QED
    BY <2>5
<1> HIDE DEF T
<1>3. m \in T
  BY <1>1, <1>2, SetInduction
<1> QED
  BY <1>3 DEF T

LEMMA StepsAgree ==
    ASSUME NEW X, NEW a, NEW step, NEW m \in Nat, NEW k \in Nat,
           NEW g \in Steps(m, a, step, X), NEW h \in Steps(k, a, step, X)
    PROVE  \A n \in Nat : n <= m /\ n <= k => g[n] = h[n]
<1> DEFINE T == {n \in Nat : n <= m /\ n <= k => g[n] = h[n]}
<1>1. 0 \in T
  BY DEF Steps
<1>2. ASSUME NEW n \in Nat, n \in T
      PROVE  n + 1 \in T
  <2> SUFFICES ASSUME n + 1 <= m /\ n + 1 <= k
               PROVE  g[n + 1] = h[n + 1]
    OBVIOUS
  <2>1. g[n] = h[n]
    BY <1>2
  <2>2. n + 1 \in 1..m /\ n + 1 \in 1..k /\ (n + 1) - 1 = n
    OBVIOUS
  <2> QED
    BY <2>1, <2>2 DEF Steps
<1> HIDE DEF T
<1>3. Nat \subseteq T
  BY <1>1, <1>2, SetInduction
<1> QED
  BY <1>3 DEF T

\* A function of which all values are like that exists.
LEMMA Iteration ==
    ASSUME NEW X, NEW a \in X, NEW step \in [X -> X]
    PROVE  \E f \in [Nat -> X] :
              /\ f[0] = a
              /\ \A n \in Nat : f[n + 1] = step[f[n]]
<1> DEFINE S(n) == CHOOSE g : g \in Steps(n, a, step, X)
           f == [n \in Nat |-> S(n)[n]]
<1>1. \A n \in Nat : S(n) \in Steps(n, a, step, X)
  BY StepsExist, Zenon
<1> HIDE DEF S
<1>2. f \in [Nat -> X] /\ f[0] = a
  BY <1>1 DEF Steps
<1>3. ASSUME NEW n \in Nat
      PROVE  f[n + 1] = step[f[n]]
  <2>1. S(n) \in Steps(n, a, step, X) /\ S(n + 1) \in Steps(n + 1, a, step, X)
    BY <1>1
  <2>2. S(n)[n] = S(n + 1)[n]
    BY <2>1, StepsAgree
  <2>3. S(n + 1)[n + 1] = step[S(n + 1)[n]]
    BY <2>1 DEF Steps
  <2> QED
    BY <2>2, <2>3
<1> QED
  BY <1>2, <1>3

-----------------------------------------------------------------------------
(***************************************************************************)
(* Walks: what a loop finds that goes from a node to the next.             *)
(***************************************************************************)
Pointers == Nodes \cup {NULL}

Walks == [Pointers -> Seq(Nodes)]
NoWalk == [at \in Pointers |-> <<>>]
Longer(nx) ==
    [w \in Walks |-> [at \in Pointers |->
        IF at = NULL THEN <<>> ELSE <<at>> \o w[nx[at]]]]

WalkBody(nx, f) ==
    [n \in Nat |-> [at \in Pointers |->
        IF n = 0 \/ at = NULL THEN <<>> ELSE <<at>> \o f[n - 1][nx[at]]]]
Walker(nx) == CHOOSE f : f = WalkBody(nx, f)

LEMMA LongerType ==
    ASSUME NEW nx \in [Nodes -> Pointers]
    PROVE  NoWalk \in Walks /\ Longer(nx) \in [Walks -> Walks]
<1>1. ASSUME NEW w \in Walks, NEW at \in Pointers
      PROVE  (IF at = NULL THEN <<>> ELSE <<at>> \o w[nx[at]]) \in Seq(Nodes)
  <2>1. CASE at # NULL
    <3>1. at \in Nodes /\ nx[at] \in Pointers
      BY <2>1 DEF Pointers
    <3>2. <<at>> \in Seq(Nodes) /\ w[nx[at]] \in Seq(Nodes)
      BY <3>1 DEF Walks
    <3> QED
      BY <2>1, <3>2
  <2> QED
    BY <2>1
<1> QED
  BY <1>1 DEF NoWalk, Longer, Walks

LEMMA WalksIterate ==
    ASSUME NEW step, step \in [Walks -> Walks]
    PROVE  \E f \in [Nat -> Walks] :
              f[0] = NoWalk /\ \A n \in Nat : f[n + 1] = step[f[n]]
<1>1. NoWalk \in Walks
  BY DEF NoWalk, Walks
<1> QED
  BY <1>1, Iteration

LEMMA WalkerExists ==
    ASSUME NEW nx \in [Nodes -> Pointers]
    PROVE  Walker(nx) = WalkBody(nx, Walker(nx))
<1>1. PICK f \in [Nat -> Walks] :
         f[0] = NoWalk /\ \A n \in Nat : f[n + 1] = Longer(nx)[f[n]]
  BY LongerType, WalksIterate
<1>2. f = WalkBody(nx, f)
  <2>1. ASSUME NEW n \in Nat
        PROVE  f[n] = [at \in Pointers |->
                       IF n = 0 \/ at = NULL THEN <<>> ELSE <<at>> \o f[n - 1][nx[at]]]
    <3>1. CASE n = 0
      BY <1>1, <3>1 DEF NoWalk
    <3>2. CASE n # 0
      <4>1. n - 1 \in Nat /\ (n - 1) + 1 = n
        BY <3>2
      <4>2. f[n] = Longer(nx)[f[n - 1]] /\ f[n - 1] \in Walks
        BY <1>1, <4>1
      <4> QED
        BY <3>2, <4>2 DEF Longer
    <3> QED
      BY <3>1, <3>2
  <2> QED
    BY <1>1, <2>1 DEF WalkBody
<1> QED
  BY <1>2, Zenon DEF Walker

LEMMA WalkStep ==
    ASSUME NEW nx \in [Nodes -> Pointers], NEW n \in Nat, NEW at \in Pointers
    PROVE  Walker(nx)[n][at] =
              IF n = 0 \/ at = NULL THEN <<>> ELSE <<at>> \o Walker(nx)[n - 1][nx[at]]
<1> DEFINE F == Walker(nx)
<1>1. F = WalkBody(nx, F)
  BY WalkerExists
<1> HIDE DEF F
<1>2. F[n] = WalkBody(nx, F)[n]
  BY <1>1, Zenon
<1>3. F[n][at] = IF n = 0 \/ at = NULL THEN <<>> ELSE <<at>> \o F[n - 1][nx[at]]
  BY <1>2 DEF WalkBody
<1> QED
  BY <1>3 DEF F

LEMMA WalkIsWalker ==
    ASSUME NEW nx, NEW head
    PROVE  Walk(nx, head) = Walker(nx)[Cardinality(Nodes) + 1][head]
  BY Zenon DEF Walk, Walker, WalkBody, Pointers

\* The nodes of q are different, and each points to the next; the last, to none.
IsPath(nx, q, head) ==
    /\ q \in Seq(Nodes)
    /\ head = IF q = <<>> THEN NULL ELSE q[1]
    /\ \A i \in 1..Len(q) : nx[q[i]] = IF i = Len(q) THEN NULL ELSE q[i + 1]
    /\ \A i, j \in 1..Len(q) : q[i] = q[j] => i = j

LEMMA WalkFollows ==
    ASSUME NEW nx \in [Nodes -> Pointers], NEW q, NEW head,
           IsPath(nx, q, head), NEW m \in Nat
    PROVE  \A n \in Nat : n >= m /\ m <= Len(q) /\ m > 0 =>
             Walker(nx)[n][q[Len(q) - m + 1]] = SubSeq(q, Len(q) - m + 1, Len(q))
<1> DEFINE F == Walker(nx)
           P(k) == \A n \in Nat : n >= k /\ k <= Len(q) /\ k > 0 =>
                     F[n][q[Len(q) - k + 1]] = SubSeq(q, Len(q) - k + 1, Len(q))
           T == {k \in Nat : P(k)}
<1> HIDE DEF F
<1>0. q \in Seq(Nodes) /\ Len(q) \in Nat
  BY DEF IsPath
<1>1. 0 \in T
  OBVIOUS
<1>2. ASSUME NEW k \in Nat, k \in T
      PROVE  k + 1 \in T
  <2>5. k + 1 \in Nat
    OBVIOUS
  <2> SUFFICES ASSUME NEW n \in Nat, n >= k + 1, k + 1 <= Len(q)
               PROVE  F[n][q[Len(q) - (k + 1) + 1]]
                        = SubSeq(q, Len(q) - (k + 1) + 1, Len(q))
    BY <2>5, Zenon
  <2>0. Len(q) - (k + 1) + 1 = Len(q) - k
    BY <1>0
  <2> DEFINE i == Len(q) - k
  <2>1. /\ i \in 1..Len(q) /\ q[i] \in Nodes /\ q[i] # NULL /\ q[i] \in Pointers
        /\ n # 0 /\ n - 1 \in Nat
    <3>1. i \in 1..Len(q)
      BY <1>0
    <3>2. q[i] \in Nodes
      BY <1>0, <3>1
    <3>3. \A a \in Nodes : a # NULL /\ a \in Pointers
      BY HeapAssumption DEF Pointers
    <3>4. n # 0 /\ n - 1 \in Nat
      OBVIOUS
    <3> QED
      BY <3>1, <3>2, <3>3, <3>4
  <2>2. F[n][q[i]] = <<q[i]>> \o F[n - 1][nx[q[i]]]
    BY <2>1, WalkStep DEF F
  <2>3. F[n - 1][nx[q[i]]] = SubSeq(q, i + 1, Len(q))
    <3>1. CASE k = 0
      <4>1. nx[q[i]] = NULL /\ i = Len(q)
        BY <2>1, <3>1 DEF IsPath
      <4>2. F[n - 1][NULL] = <<>>
        BY <2>1, WalkStep DEF F, Pointers
      <4> QED
        BY <2>1, <4>1, <4>2, SubSeqEmpty
    <3>2. CASE k # 0
      <4>1. nx[q[i]] = q[i + 1] /\ i + 1 = Len(q) - k + 1
        BY <2>1, <3>2 DEF IsPath
      <4> QED
        BY <1>2, <2>1, <3>2, <4>1
    <3> QED
      BY <3>1, <3>2
  <2>4. SubSeq(q, i, Len(q)) = <<q[i]>> \o SubSeq(q, i + 1, Len(q))
    BY <2>1, SubSeqRecursiveFirst DEF IsPath
  <2> QED
    BY <2>0, <2>2, <2>3, <2>4
<1> HIDE DEF T
<1>3. m \in T
  BY <1>1, <1>2, SetInduction
<1> QED
  BY <1>3 DEF T, F

LEMMA NodePointers == \A a \in Nodes : a # NULL /\ a \in Pointers
  BY HeapAssumption DEF Pointers

\* There are not more nodes on a path than in memory.
LEMMA PathLength ==
    ASSUME NEW nx, NEW q, NEW head, IsPath(nx, q, head)
    PROVE  /\ Cardinality(Nodes) \in Nat
           /\ Len(q) \in Nat /\ Len(q) <= Cardinality(Nodes)
<1>1. q \in [1..Len(q) -> Nodes] /\ Len(q) \in Nat
  BY DEF IsPath
<1>2. q \in Injection(1..Len(q), Nodes)
  BY <1>1 DEF IsPath, Injection, IsInjective
<1>3. IsFiniteSet(Nodes)
  BY HeapAssumption
<1>4. Cardinality(1..Len(q)) <= Cardinality(Nodes)
  BY <1>2, <1>3, FS_Injection
<1>5. Cardinality(1..Len(q)) = Len(q)
  <2>1. Len(q) \in Int /\ 1 \in Int
    BY <1>1
  <2>2. Cardinality(1..Len(q)) = IF 1 > Len(q) THEN 0 ELSE Len(q) - 1 + 1
    BY <2>1, FS_Interval
  <2> QED
    BY <1>1, <2>2
<1> QED
  BY <1>1, <1>3, <1>4, <1>5, FS_CardinalityType

\* A loop that begins at its head finds a path.
LEMMA WalkIsPath ==
    ASSUME NEW nx \in [Nodes -> Pointers], NEW q, NEW head, IsPath(nx, q, head)
    PROVE  Walk(nx, head) = q
<1> DEFINE c == Cardinality(Nodes) + 1
<1>1. q \in Seq(Nodes) /\ Len(q) \in Nat /\ c \in Nat /\ c > 0 /\ Len(q) < c
  BY PathLength DEF IsPath
<1>2. Walk(nx, head) = Walker(nx)[c][head]
  BY WalkIsWalker
<1> HIDE DEF c
<1>3. CASE q = <<>>
  <2>1. head = NULL /\ NULL \in Pointers
    BY <1>3 DEF IsPath, Pointers
  <2>2. Walker(nx)[c][NULL] = <<>>
    BY <1>1, <2>1, WalkStep
  <2> QED
    BY <1>2, <1>3, <2>1, <2>2
<1>4. CASE q # <<>>
  <2>1. head = q[1] /\ Len(q) > 0 /\ Len(q) - Len(q) + 1 = 1
    BY <1>1, <1>4 DEF IsPath
  <2>2. \A n \in Nat : n >= Len(q) /\ Len(q) <= Len(q) /\ Len(q) > 0 =>
           Walker(nx)[n][q[Len(q) - Len(q) + 1]]
             = SubSeq(q, Len(q) - Len(q) + 1, Len(q))
    BY <1>1, WalkFollows
  <2>3. Walker(nx)[c][q[1]] = SubSeq(q, 1, Len(q))
    BY <1>1, <2>1, <2>2
  <2>4. SubSeq(q, 1, Len(q)) = q
    BY <1>1, SubSeqFull
  <2> QED
    BY <1>2, <2>1, <2>3, <2>4
<1> QED
  BY <1>3, <1>4

-----------------------------------------------------------------------------
(***************************************************************************)
(* Paths: what helpers.c does to them.                                     *)
(***************************************************************************)
Apart(q, r) == \A i \in 1..Len(q), j \in 1..Len(r) : q[i] # r[j]

\* What is written elsewhere does not change a path.
LEMMA PathElsewhere ==
    ASSUME NEW nx, NEW nx2, NEW q, NEW head, IsPath(nx, q, head),
           \A i \in 1..Len(q) : nx2[q[i]] = nx[q[i]]
    PROVE  IsPath(nx2, q, head)
  BY DEF IsPath

\* A node that is on no path becomes one of its own.
LEMMA PathOfNode ==
    ASSUME NEW nx, NEW n \in Nodes, nx[n] = NULL
    PROVE  IsPath(nx, <<n>>, n)
  BY DEF IsPath

\* The last node of a path is made to point at the head of another.
LEMMA PathJoined ==
    ASSUME NEW nx \in [Nodes -> Pointers], NEW q, NEW head, IsPath(nx, q, head),
           NEW r, NEW added, IsPath(nx, r, added), r # <<>>, q # <<>>, Apart(q, r),
           NEW nx2, nx2 = [nx EXCEPT ![Last(q)] = added]
    PROVE  IsPath(nx2, q \o r, head)
<1>1. /\ q \in Seq(Nodes) /\ r \in Seq(Nodes) /\ q \o r \in Seq(Nodes)
      /\ Len(q) \in Nat \ {0} /\ Len(r) \in Nat \ {0}
      /\ Len(q \o r) = Len(q) + Len(r)
      /\ \A i \in 1..Len(q) : (q \o r)[i] = q[i] /\ q[i] \in Nodes
      /\ \A i \in 1..Len(r) : (q \o r)[Len(q) + i] = r[i] /\ r[i] \in Nodes
  BY DEF IsPath
<1>2. \A i \in (Len(q) + 1)..Len(q \o r) :
         i - Len(q) \in 1..Len(r) /\ (q \o r)[i] = r[i - Len(q)]
  <2> TAKE i \in (Len(q) + 1)..Len(q \o r)
  <2>1. i - Len(q) \in 1..Len(r) /\ Len(q) + (i - Len(q)) = i
    BY <1>1
  <2> QED
    BY <1>1, <2>1
<1>3. Last(q) = q[Len(q)] /\ Len(q) \in 1..Len(q) /\ q[Len(q)] \in Nodes
  BY <1>1 DEF Last
<1>4. /\ nx2[q[Len(q)]] = added
      /\ \A a \in Nodes : a # q[Len(q)] => nx2[a] = nx[a]
  BY <1>3
<1>5. head = (q \o r)[1] /\ q \o r # <<>>
  BY <1>1 DEF IsPath
<1>6. ASSUME NEW i \in 1..Len(q \o r)
      PROVE  nx2[(q \o r)[i]] = IF i = Len(q \o r) THEN NULL ELSE (q \o r)[i + 1]
  <2>1. CASE i < Len(q)
    <3>1. i \in 1..Len(q) /\ i + 1 \in 1..Len(q) /\ i # Len(q) /\ i # Len(q \o r)
      BY <1>1, <2>1
    <3>2. q[i] # q[Len(q)]
      BY <1>3, <3>1 DEF IsPath
    <3>3. nx2[q[i]] = nx[q[i]] /\ nx[q[i]] = q[i + 1]
      BY <1>1, <1>4, <3>1, <3>2 DEF IsPath
    <3> QED
      BY <1>1, <3>1, <3>3
  <2>2. CASE i = Len(q)
    <3>1. added = r[1] /\ 1 \in 1..Len(r) /\ i # Len(q \o r)
      BY <1>1, <2>2 DEF IsPath
    <3>2. (q \o r)[i] = q[Len(q)] /\ (q \o r)[i + 1] = r[1]
      BY <1>1, <1>3, <2>2, <3>1
    <3> QED
      BY <1>4, <3>1, <3>2
  <2>3. CASE i > Len(q)
    <3> DEFINE j == i - Len(q)
    <3>1. /\ j \in 1..Len(r) /\ i = Len(q) + j
          /\ i = Len(q \o r) <=> j = Len(r)
          /\ j # Len(r) => j + 1 \in 1..Len(r) /\ i + 1 = Len(q) + (j + 1)
      <4>1. Len(q) \in Nat /\ Len(r) \in Nat /\ Len(q \o r) = Len(q) + Len(r)
        BY <1>1
      <4> QED
        BY <4>1, <2>3
    <3>2. r[j] # q[Len(q)]
      BY <1>3, <3>1 DEF Apart
    <3>3. nx2[r[j]] = nx[r[j]]
      BY <1>1, <1>4, <3>1, <3>2
    <3>4. nx[r[j]] = IF j = Len(r) THEN NULL ELSE r[j + 1]
      BY <3>1 DEF IsPath
    <3>5. (q \o r)[i] = r[j] /\ (j # Len(r) => (q \o r)[i + 1] = r[j + 1])
      BY <1>1, <3>1
    <3> QED
      BY <3>1, <3>3, <3>4, <3>5
  <2>4. i < Len(q) \/ i = Len(q) \/ i > Len(q)
    <3>1. Len(q) \in Nat /\ Len(q \o r) \in Nat
      BY <1>1
    <3> QED
      BY <3>1
  <2> QED
    BY <2>1, <2>2, <2>3, <2>4
<1>7. ASSUME NEW i \in 1..Len(q \o r), NEW j \in 1..Len(q \o r),
             (q \o r)[i] = (q \o r)[j]
      PROVE  i = j
  <2>1. CASE i <= Len(q) /\ j <= Len(q)
    <3>1. i \in 1..Len(q) /\ j \in 1..Len(q)
      BY <1>1, <2>1
    <3> QED
      BY <1>1, <1>7, <3>1 DEF IsPath
  <2>2. CASE i > Len(q) /\ j > Len(q)
    <3>1. i \in (Len(q) + 1)..Len(q \o r) /\ j \in (Len(q) + 1)..Len(q \o r)
      BY <1>1, <2>2
    <3>2. i - Len(q) = j - Len(q)
      BY <1>2, <1>7, <3>1 DEF IsPath
    <3> QED
      BY <1>1, <3>1, <3>2
  <2>3. CASE i <= Len(q) /\ j > Len(q)
    <3>1. i \in 1..Len(q) /\ j \in (Len(q) + 1)..Len(q \o r)
      BY <1>1, <2>3
    <3> QED
      BY <1>1, <1>2, <1>7, <3>1 DEF Apart
  <2>4. CASE i > Len(q) /\ j <= Len(q)
    <3>1. j \in 1..Len(q) /\ i \in (Len(q) + 1)..Len(q \o r)
      BY <1>1, <2>4
    <3> QED
      BY <1>1, <1>2, <1>7, <3>1 DEF Apart
  <2> QED
    BY <1>1, <2>1, <2>2, <2>3, <2>4
<1> QED
  BY <1>1, <1>5, <1>6, <1>7 DEF IsPath

LEMMA PathInjective ==
    ASSUME NEW nx, NEW q, NEW head, IsPath(nx, q, head)
    PROVE  IsInjective(q)
<1>1. DOMAIN q = 1..Len(q)
  BY DEF IsPath
<1> QED
  BY <1>1 DEF IsPath, IsInjective

\* From a node on a path a loop comes to another one on it, or to the end.
LEMMA PathStep ==
    ASSUME NEW nx, NEW q, NEW head, IsPath(nx, q, head), NEW at \in ToSet(q)
    PROVE  nx[at] = NULL \/ nx[at] \in ToSet(q)
<1>1. Len(q) \in Nat /\ DOMAIN q = 1..Len(q)
  BY DEF IsPath
<1>2. PICK i \in 1..Len(q) : at = q[i]
  BY <1>1 DEF ToSet
<1>3. i # Len(q) => i + 1 \in 1..Len(q)
  <2>1. Len(q) \in Nat
    BY <1>1
  <2> QED
    BY <2>1
<1> QED
  BY <1>1, <1>2, <1>3 DEF IsPath, ToSet

LEMMA PathHead ==
    ASSUME NEW nx, NEW q, NEW head, IsPath(nx, q, head)
    PROVE  /\ head = NULL <=> q = <<>>
           /\ head = NULL \/ head \in ToSet(q)
           /\ head \in Pointers
<1>1. CASE q = <<>>
  BY <1>1 DEF IsPath, Pointers
<1>2. CASE q # <<>>
  <2>1. q \in Seq(Nodes) /\ 1 \in DOMAIN q /\ head = q[1] /\ q[1] \in Nodes
    BY <1>2 DEF IsPath
  <2> QED
    BY <1>2, <2>1, NodePointers DEF ToSet
<1> QED
  BY <1>1, <1>2

LEMMA EmptyPath == \A nx : IsPath(nx, <<>>, NULL)
  BY DEF IsPath

LEMMA SetOfConcat ==
    ASSUME NEW q \in Seq(Nodes), NEW r \in Seq(Nodes)
    PROVE  ToSet(q \o r) = ToSet(q) \cup ToSet(r)
<1>1. /\ Len(q) \in Nat /\ Len(r) \in Nat /\ Len(q \o r) = Len(q) + Len(r)
      /\ DOMAIN q = 1..Len(q) /\ DOMAIN r = 1..Len(r)
      /\ DOMAIN (q \o r) = 1..(Len(q) + Len(r))
      /\ \A i \in 1..Len(q) : (q \o r)[i] = q[i]
      /\ \A i \in 1..Len(r) : (q \o r)[Len(q) + i] = r[i]
  OBVIOUS
<1>2. ASSUME NEW i \in 1..(Len(q) + Len(r)), i \notin 1..Len(q)
      PROVE  i - Len(q) \in 1..Len(r) /\ Len(q) + (i - Len(q)) = i
  BY <1>1, <1>2
<1>3. \A i \in 1..Len(q) : i \in 1..(Len(q) + Len(r))
  BY <1>1
<1>4. \A i \in 1..Len(r) : Len(q) + i \in 1..(Len(q) + Len(r))
  BY <1>1
<1>5. \A a : a \in ToSet(q \o r) <=> \E i \in 1..(Len(q) + Len(r)) : a = (q \o r)[i]
  BY <1>1, Zenon DEF ToSet
<1>6. \A a : /\ a \in ToSet(q) <=> \E i \in 1..Len(q) : a = q[i]
             /\ a \in ToSet(r) <=> \E i \in 1..Len(r) : a = r[i]
  BY <1>1, Zenon DEF ToSet
<1>7. ASSUME NEW a \in ToSet(q \o r)
      PROVE  a \in ToSet(q) \cup ToSet(r)
  <2>1. PICK i \in 1..(Len(q) + Len(r)) : a = (q \o r)[i]
    BY <1>5
  <2> QED
    BY <2>1, <1>1, <1>2, <1>6
<1>8. ASSUME NEW a \in ToSet(q) \cup ToSet(r)
      PROVE  a \in ToSet(q \o r)
  BY <1>1, <1>3, <1>4, <1>5, <1>6
<1> QED
  BY <1>7, <1>8

-----------------------------------------------------------------------------
(***************************************************************************)
(* Memory.                                                                 *)
(***************************************************************************)
\* malloc gives an address that is free.
LEMMA FreeAddress ==
    ASSUME NEW all \in SUBSET Nat, NEW used, all \ used # {}
    PROVE  Free(all, used) \in all \ used
<1> DEFINE S == all \ used
<1>1. S \subseteq Nat
  OBVIOUS
<1>2. PICK a \in S : \A b \in S : ~(<<b, a>> \in NatRel)
  BY <1>1, NatWellFounded, WFMin
<1>3. ASSUME NEW b \in S
      PROVE  a <= b
  <2>1. a \in Nat /\ b \in Nat
    BY <1>1
  <2>2. ~(b < a)
    BY <1>2, <2>1 DEF NatRel
  <2> QED
    BY <2>1, <2>2
<1> QED
  BY <1>3, Zenon DEF Free

LEMMA NewAddresses ==
    /\ NodeLeft => NewNode \in Nodes \ nodes
    /\ BufferLeft => NewBuffer \in Buffers \ buffers
<1>1. Nodes \in SUBSET Nat /\ Buffers \in SUBSET Nat
  BY HeapAssumption
<1> QED
  BY <1>1, FreeAddress DEF NodeLeft, BufferLeft, NewNode, NewBuffer

\* Each node that is allocated has a buffer of its own; the others were lost.
Owners ==
    /\ \A m, n \in nodes : data[m] = data[n] => m = n
    /\ \A n \in nodes : data[n] \in buffers
    /\ Cardinality(buffers \ {data[n] : n \in nodes}) = lost

LEMMA OwnersAdd ==
    ASSUME Owners, nodes \subseteq Nodes, data \in [Nodes -> Buffers \cup {NULL}],
           NEW n \in Nodes \ nodes, NEW b \in Buffers \ buffers,
           nodes' = nodes \cup {n}, buffers' = buffers \cup {b},
           data' = [data EXCEPT ![n] = b], lost' = lost
    PROVE  Owners'
<1>1. /\ \A m \in nodes : data'[m] = data[m] /\ m # n
      /\ data'[n] = b
  OBVIOUS
<1>2. {data'[m] : m \in nodes'} = {data[m] : m \in nodes} \cup {b}
  BY <1>1
<1>3. buffers' \ {data'[m] : m \in nodes'} = buffers \ {data[m] : m \in nodes}
  BY <1>2
<1>4. \A m \in nodes' : data'[m] \in buffers'
  BY <1>1 DEF Owners
<1>5. \A m, k \in nodes' : data'[m] = data'[k] => m = k
  BY <1>1 DEF Owners
<1> QED
  BY <1>3, <1>4, <1>5 DEF Owners

LEMMA OwnersLose ==
    ASSUME Owners, buffers \subseteq Buffers, NEW b \in Buffers \ buffers,
           nodes' = nodes, data' = data, buffers' = buffers \cup {b}, lost' = lost + 1
    PROVE  Owners'
<1> DEFINE D == {data[n] : n \in nodes}
           D2 == {data'[n] : n \in nodes'}
<1>1. D2 = D
  OBVIOUS
<1>2. D \subseteq buffers
  BY DEF Owners
<1>3. buffers' \ D2 = (buffers \ D) \cup {b}
  BY <1>1, <1>2
<1>4. IsFiniteSet(buffers \ D)
  BY HeapAssumption, FS_Subset, buffers \ D \in SUBSET Buffers
<1>5. Cardinality((buffers \ D) \cup {b}) = Cardinality(buffers \ D) + 1
  BY <1>4, FS_AddElement
<1>6. \A n \in nodes' : data'[n] \in buffers'
  BY DEF Owners
<1>7. \A m, n \in nodes' : data'[m] = data'[n] => m = n
  BY DEF Owners
<1> QED
  BY <1>3, <1>5, <1>6, <1>7 DEF Owners

LEMMA OwnersFree ==
    ASSUME Owners, NEW S \in SUBSET nodes,
           nodes' = nodes \ S, buffers' = buffers \ {data[n] : n \in S},
           data' = data, lost' = lost
    PROVE  Owners'
<1>1. \A n \in nodes' : data'[n] \in buffers'
  BY DEF Owners
<1>2. \A m, n \in nodes' : data'[m] = data'[n] => m = n
  BY DEF Owners
<1>3. buffers' \ {data'[n] : n \in nodes'} = buffers \ {data[n] : n \in nodes}
  OBVIOUS
<1> QED
  BY <1>1, <1>2, <1>3 DEF Owners

-----------------------------------------------------------------------------
(***************************************************************************)
(* What the functions of helpers.c do to the list they are given.          *)
(***************************************************************************)
LEMMA LastOnPath ==
    ASSUME NEW nx, NEW q, NEW head, IsPath(nx, q, head), q # <<>>
    PROVE  Last(q) \in ToSet(q) /\ Last(q) \in Nodes
<1>1. q \in Seq(Nodes) /\ Len(q) \in DOMAIN q /\ q[Len(q)] \in Nodes
  BY DEF IsPath
<1> QED
  BY <1>1 DEF Last, ToSet

LEMMA OnPath ==
    ASSUME NEW nx, NEW q, NEW head, IsPath(nx, q, head)
    PROVE  /\ \A a : a \in ToSet(q) <=> \E i \in 1..Len(q) : q[i] = a
           /\ ToSet(q) \subseteq Nodes
<1>1. DOMAIN q = 1..Len(q) /\ \A i \in 1..Len(q) : q[i] \in Nodes
  BY DEF IsPath
<1> QED
  BY <1>1 DEF ToSet

\* Where nodes point when n was added to a list.
Added(list, n) == [Link(list, n) EXCEPT ![n] = NULL]

LEMMA AddedPath ==
    ASSUME next \in [Nodes -> Pointers], NEW list, NEW q, IsPath(next, q, list),
           NEW n \in Nodes \ ToSet(q)
    PROVE  /\ Added(list, n) \in [Nodes -> Pointers]
           /\ IsPath(Added(list, n), q \o <<n>>, Head1(list, n))
           /\ \A a \in Nodes :
                 a \notin ToSet(q) \cup {n} => Added(list, n)[a] = next[a]
<1> DEFINE nx2 == Added(list, n)
<1>0. nx2 = [Link(list, n) EXCEPT ![n] = NULL]
  BY DEF Added
<1> HIDE DEF nx2
<1> SUFFICES /\ nx2 \in [Nodes -> Pointers]
             /\ IsPath(nx2, q \o <<n>>, Head1(list, n))
             /\ \A a \in Nodes : a \notin ToSet(q) \cup {n} => nx2[a] = next[a]
  BY DEF nx2
<1> DEFINE nx1 == [next EXCEPT ![n] = NULL]
<1>1. nx1 \in [Nodes -> Pointers] /\ nx1[n] = NULL /\ \A a \in Nodes \ {n} : nx1[a] = next[a]
  BY DEF Pointers
<1>2. IsPath(nx1, <<n>>, n)
  BY <1>1, PathOfNode
<1>3. n \in Pointers /\ NULL \in Pointers
  BY NodePointers DEF Pointers
<1>4. CASE q = <<>>
  <2>1. list = NULL
    BY <1>4, PathHead
  <2>2. nx2 = nx1
    BY <1>0, <2>1 DEF Link
  <2>3. q \o <<n>> = <<n>>
    BY <1>4
  <2> QED
    BY <1>1, <1>2, <2>1, <2>2, <2>3 DEF Head1
<1>5. CASE q # <<>>
  <2>1. list # NULL /\ Chain(list) = q
    BY <1>5, PathHead, WalkIsPath DEF Chain
  <2>2. Last(q) \in ToSet(q) /\ Last(q) \in Nodes /\ Last(q) # n
    BY <1>5, LastOnPath
  <2>3. nx2 = [nx1 EXCEPT ![Last(q)] = n]
    <3>1. nx2 = [[next EXCEPT ![Last(q)] = n] EXCEPT ![n] = NULL]
      BY <1>0, <2>1 DEF Link
    <3> QED
      BY <2>2, <3>1
  <2>4. IsPath(nx1, q, list)
    <3>1. \A i \in 1..Len(q) : q[i] \in Nodes \ {n}
      BY OnPath
    <3> QED
      BY <1>1, <3>1, PathElsewhere
  <2>5. Apart(q, <<n>>)
    BY OnPath DEF Apart
  <2>6. <<n>> # <<>>
    OBVIOUS
  <2> HIDE DEF nx1
  <2>7. IsPath(nx2, q \o <<n>>, list)
    BY <1>1, <1>2, <1>5, <2>3, <2>4, <2>5, <2>6, PathJoined
  <2>8. nx2 \in [Nodes -> Pointers] /\ \A a \in Nodes \ {Last(q)} : nx2[a] = nx1[a]
    BY <1>1, <1>3, <2>2, <2>3
  <2> QED
    BY <1>1, <2>1, <2>2, <2>7, <2>8 DEF Head1
<1> QED
  BY <1>4, <1>5

LEMMA AppendedPath ==
    ASSUME next \in [Nodes -> Pointers], NEW dst, NEW q, IsPath(next, q, dst),
           NEW src, NEW r, IsPath(next, r, src), Apart(q, r),
           NEW nx2, nx2 = IF src = NULL THEN next ELSE Link(dst, src)
    PROVE  /\ nx2 \in [Nodes -> Pointers]
           /\ IsPath(nx2, q \o r, IF src = NULL THEN dst ELSE Head1(dst, src))
           /\ \A a \in Nodes : a \notin ToSet(q) => nx2[a] = next[a]
<1>1. q \in Seq(Nodes) /\ r \in Seq(Nodes)
  BY DEF IsPath
<1>2. CASE src = NULL
  <2>1. r = <<>> /\ q \o r = q
    BY <1>1, <1>2, PathHead
  <2> QED
    BY <1>2, <2>1
<1>3. CASE src # NULL /\ dst = NULL
  <2>1. q = <<>> /\ q \o r = r
    BY <1>1, <1>3, PathHead
  <2> QED
    BY <1>3, <2>1 DEF Link, Head1
<1>4. CASE src # NULL /\ dst # NULL
  <2>1. q # <<>> /\ r # <<>> /\ Chain(dst) = q /\ src \in Pointers
    BY <1>4, PathHead, WalkIsPath DEF Chain
  <2>2. Last(q) \in ToSet(q) /\ Last(q) \in Nodes
    BY <2>1, LastOnPath
  <2>3. nx2 = [next EXCEPT ![Last(q)] = src]
    BY <1>4, <2>1 DEF Link
  <2>4. IsPath(nx2, q \o r, dst)
    BY <2>1, <2>3, PathJoined
  <2> QED
    BY <1>4, <2>1, <2>2, <2>3, <2>4 DEF Head1
<1> QED
  BY <1>2, <1>3, <1>4

-----------------------------------------------------------------------------
(***************************************************************************)
(* The inductive invariant.  Who owns a node follows from where it can be  *)
(* reached: what is allocated is on the paths from the three variables     *)
(* that hold a list, of which some hold none in some phases, and no two    *)
(* paths meet.  That is what appendList and freeList rely on without       *)
(* looking.                                                                *)
(***************************************************************************)
HeapTypeOK ==
    /\ nodes \subseteq Nodes /\ buffers \subseteq Buffers
    /\ next \in [Nodes -> Pointers] /\ data \in [Nodes -> Buffers \cup {NULL}]
    /\ serial \in [Buffers -> Nat] /\ expected \in Seq(Nat)
    /\ left \in Nat /\ lost \in Nat

\* T, R and C are what is on the lists of runSample, of receivePackets and of
\* buildStreamPacket.
Reached(T, R, C) ==
    /\ IsPath(next, T, txPackets)
    /\ IsPath(next, R, response)
    /\ IsPath(next, C, created)
    /\ Apart(T, R) /\ Apart(T, C) /\ Apart(R, C)
    /\ nodes = ToSet(T) \cup ToSet(R) \cup ToSet(C)

InPhase(T, R, C) ==
    /\ phase \in {"main", "create"} => T = <<>> /\ R = <<>>
    /\ phase \in {"main", "gadget", "echo"} => C = <<>>
    /\ phase = "echo" => R = <<>>
    /\ phase \in {"gadget", "echo"} => node = NULL \/ node \in ToSet(T)
    /\ phase = "answer" => node \in ToSet(T)

Filled(T, R, C) ==
    /\ phase \in {"gadget", "answer"} => Contents(R \o C) = expected
    /\ phase = "echo" => Contents(T) = expected

ListsInv(T, R, C) == Reached(T, R, C) /\ InPhase(T, R, C) /\ Filled(T, R, C)

ListInv ==
    /\ HeapTypeOK /\ Owners /\ NothingFreedIsUsed
    /\ \E T, R, C \in Seq(Nodes) : ListsInv(T, R, C)

-----------------------------------------------------------------------------
(***************************************************************************)
(* What is on the lists, and in it.                                        *)
(***************************************************************************)
LEMMA OtherPath ==
    ASSUME NEW q, NEW head, IsPath(next, q, head), NEW nx2,
           \A a \in ToSet(q) : nx2[a] = next[a]
    PROVE  IsPath(nx2, q, head)
<1>1. \A i \in 1..Len(q) : q[i] \in ToSet(q)
  BY OnPath
<1> QED
  BY <1>1, PathElsewhere

LEMMA ApartSets ==
    ASSUME NEW q \in Seq(Nodes), NEW r \in Seq(Nodes)
    PROVE  Apart(q, r) <=> ToSet(q) \cap ToSet(r) = {}
<1>1. DOMAIN q = 1..Len(q) /\ DOMAIN r = 1..Len(r)
  OBVIOUS
<1> QED
  BY <1>1, Zenon DEF Apart, ToSet

\* A node added to one of the lists is on none of the others.
LEMMA AddedSet ==
    ASSUME NEW q \in Seq(Nodes), NEW n \in Nodes
    PROVE  q \o <<n>> \in Seq(Nodes) /\ ToSet(q \o <<n>>) = ToSet(q) \cup {n}
<1>1. <<n>> \in Seq(Nodes) /\ q \o <<n>> \in Seq(Nodes)
  OBVIOUS
<1>2. ToSet(<<n>>) = {n}
  BY DEF ToSet
<1>3. ToSet(q \o <<n>>) = ToSet(q) \cup ToSet(<<n>>)
  BY <1>1, SetOfConcat
<1> QED
  BY <1>1, <1>2, <1>3

LEMMA ContentsKept ==
    ASSUME NEW q, ToSet(q) \subseteq nodes, Owners,
           \A n \in nodes : data'[n] = data[n],
           \A b \in buffers : serial'[b] = serial[b]
    PROVE  Contents(q)' = Contents(q)
<1>1. \A i \in DOMAIN q : q[i] \in nodes
  BY DEF ToSet
<1>2. \A i \in DOMAIN q : serial'[data'[q[i]]] = serial[data[q[i]]]
  BY <1>1 DEF Owners
<1> QED
  BY <1>2 DEF Contents

LEMMA ContentsAdd ==
    ASSUME NEW q \in Seq(Nodes), ToSet(q) \subseteq nodes, HeapTypeOK, Owners,
           NEW n \in Nodes \ nodes, NEW b \in Buffers \ buffers, NEW k,
           data' = [data EXCEPT ![n] = b], serial' = [serial EXCEPT ![b] = k]
    PROVE  Contents(q \o <<n>>)' = Append(Contents(q), k)
<1> DEFINE L == Len(q)
<1>1. L \in Nat /\ DOMAIN q = 1..L /\ L + 1 \in 1..(L + 1)
  OBVIOUS
<1>2. /\ DOMAIN (q \o <<n>>) = 1..(L + 1)
      /\ \A i \in 1..L : (q \o <<n>>)[i] = q[i]
      /\ (q \o <<n>>)[L + 1] = n
  BY <1>1
<1>3. \A i \in 1..L : serial'[data'[q[i]]] = serial[data[q[i]]]
  <2> TAKE i \in 1..L
  <2>1. q[i] \in nodes /\ q[i] # n /\ q[i] \in Nodes
    BY <1>1 DEF ToSet, HeapTypeOK
  <2>2. data'[q[i]] = data[q[i]] /\ data[q[i]] \in buffers /\ data[q[i]] # b
    BY <2>1 DEF Owners, HeapTypeOK
  <2>3. data[q[i]] \in Buffers
    BY <2>2 DEF HeapTypeOK
  <2> QED
    BY <2>2, <2>3 DEF HeapTypeOK
<1>4. serial'[data'[n]] = k
  BY DEF HeapTypeOK
<1>5. Contents(q \o <<n>>)' =
        [i \in 1..(L + 1) |-> IF i = L + 1 THEN k ELSE serial[data[q[i]]]]
  <2>1. Contents(q \o <<n>>)' =
          [i \in DOMAIN (q \o <<n>>) |-> serial'[data'[(q \o <<n>>)[i]]]]
    BY DEF Contents
  <2> HIDE DEF L
  <2>2. \A i \in 1..(L + 1) : serial'[data'[(q \o <<n>>)[i]]] =
          IF i = L + 1 THEN k ELSE serial[data[q[i]]]
    <3> TAKE i \in 1..(L + 1)
    <3>1. CASE i = L + 1
      BY <1>2, <1>4, <3>1
    <3>2. CASE i # L + 1
      <4>1. i \in 1..L
        BY <1>1, <3>2
      <4> QED
        BY <1>2, <1>3, <3>2, <4>1
    <3> QED
      BY <3>1, <3>2
  <2>3. [i \in 1..(L + 1) |-> serial'[data'[(q \o <<n>>)[i]]]] =
        [i \in 1..(L + 1) |-> IF i = L + 1 THEN k ELSE serial[data[q[i]]]]
    BY <2>2
  <2> QED
    BY <1>2, <2>1, <2>3, Zenon
<1>6. Contents(q) = [i \in 1..L |-> serial[data[q[i]]]]
  BY <1>1 DEF Contents
<1>7. Len(Contents(q)) = L
  BY <1>1, <1>6
<1>8. Append(Contents(q), k) =
        [i \in 1..(L + 1) |-> IF i = L + 1 THEN k ELSE serial[data[q[i]]]]
  <2>1. Append(Contents(q), k) =
          [i \in 1..(L + 1) |-> IF i = L + 1 THEN k ELSE Contents(q)[i]]
    BY <1>1, <1>6, <1>7
  <2>2. \A i \in 1..(L + 1) : i # L + 1 => Contents(q)[i] = serial[data[q[i]]]
    <3> TAKE i \in 1..(L + 1)
    <3>1. i # L + 1 => i \in 1..L
      BY <1>1
    <3> QED
      BY <1>6, <3>1
  <2> QED
    BY <2>1, <2>2
<1> QED
  BY <1>5, <1>8

LEMMA ReachedTypes ==
    ASSUME NEW T, NEW R, NEW C, Reached(T, R, C)
    PROVE  /\ T \in Seq(Nodes) /\ R \in Seq(Nodes) /\ C \in Seq(Nodes)
           /\ ToSet(T) \cap ToSet(R) = {} /\ ToSet(T) \cap ToSet(C) = {}
           /\ ToSet(R) \cap ToSet(C) = {}
           /\ nodes = ToSet(T) \cup ToSet(R) \cup ToSet(C)
<1>1. T \in Seq(Nodes) /\ R \in Seq(Nodes) /\ C \in Seq(Nodes)
  BY DEF Reached, IsPath
<1> QED
  BY <1>1, ApartSets DEF Reached

-----------------------------------------------------------------------------
(***************************************************************************)
(* The actions.                                                            *)
(***************************************************************************)
\* A packet is put at the end of a list that holds q: what the other lists hold
\* stays, and the contents of any that is not apart from it can be followed.
LEMMA AddToTail ==
    ASSUME HeapTypeOK, Owners, NEW list, NEW q, IsPath(next, q, list),
           ToSet(q) \subseteq nodes, BufferLeft, NEW k \in Nat, lost' = lost,
           PacketList_addToTail(list, NewBuffer),
           buffers' = buffers \cup {NewBuffer},
           serial' = [serial EXCEPT ![NewBuffer] = k]
    PROVE  \E n \in Nodes \ nodes :
              /\ n = NewNode
              /\ nodes' = nodes \cup {n}
              /\ nodes' \subseteq Nodes /\ buffers' \subseteq Buffers
              /\ next' \in [Nodes -> Pointers]
              /\ data' \in [Nodes -> Buffers \cup {NULL}]
              /\ serial' \in [Buffers -> Nat]
              /\ Owners'
              /\ IsPath(next', q \o <<n>>, Head1(list, n))
              /\ \A r, head : IsPath(next, r, head) /\ ToSet(r) \subseteq nodes \ ToSet(q)
                    => IsPath(next', r, head)
              /\ \A r \in Seq(Nodes) : ToSet(r) \subseteq nodes
                    => Contents(r \o <<n>>)' = Append(Contents(r), k)
              /\ \A r : ToSet(r) \subseteq nodes => Contents(r)' = Contents(r)
<1>1. PICK n \in Nodes \ nodes, b \in Buffers \ buffers : n = NewNode /\ b = NewBuffer
  BY NewAddresses DEF PacketList_addToTail
<1>2. /\ nodes' = nodes \cup {n} /\ buffers' = buffers \cup {b}
      /\ next' = [Link(list, n) EXCEPT ![n] = NULL]
      /\ data' = [data EXCEPT ![n] = b] /\ serial' = [serial EXCEPT ![b] = k]
  BY <1>1 DEF PacketList_addToTail
<1>3. /\ next' \in [Nodes -> Pointers] /\ IsPath(next', q \o <<n>>, Head1(list, n))
      /\ \A a \in Nodes : a \notin ToSet(q) \cup {n} => next'[a] = next[a]
  <2>1. next \in [Nodes -> Pointers] /\ n \in Nodes \ ToSet(q)
    BY DEF HeapTypeOK
  <2>2. next' = Added(list, n)
    BY <1>2 DEF Added
  <2>3. /\ Added(list, n) \in [Nodes -> Pointers]
        /\ IsPath(Added(list, n), q \o <<n>>, Head1(list, n))
        /\ \A a \in Nodes : a \notin ToSet(q) \cup {n} => Added(list, n)[a] = next[a]
    BY <2>1, AddedPath
  <2> QED
    BY <2>2, <2>3
<1>4. /\ nodes' \subseteq Nodes /\ buffers' \subseteq Buffers
      /\ data' \in [Nodes -> Buffers \cup {NULL}] /\ serial' \in [Buffers -> Nat]
  BY <1>2 DEF HeapTypeOK
<1>5. Owners'
  BY <1>2, OwnersAdd DEF HeapTypeOK
<1>6. ASSUME NEW r, NEW head, IsPath(next, r, head), ToSet(r) \subseteq nodes \ ToSet(q)
      PROVE  IsPath(next', r, head)
  <2>1. \A a \in ToSet(r) : next'[a] = next[a]
    BY <1>3, <1>6 DEF HeapTypeOK
  <2> QED
    BY <1>6, <2>1, OtherPath
<1>7. \A r \in Seq(Nodes) : ToSet(r) \subseteq nodes
         => Contents(r \o <<n>>)' = Append(Contents(r), k)
  BY <1>2, ContentsAdd
<1>8. ASSUME NEW r, ToSet(r) \subseteq nodes
      PROVE  Contents(r)' = Contents(r)
  <2>1. \A m \in nodes : data'[m] = data[m]
    BY <1>2 DEF HeapTypeOK
  <2>2. \A c \in buffers : serial'[c] = serial[c]
    BY <1>2 DEF HeapTypeOK
  <2> QED
    BY <1>8, <2>1, <2>2, ContentsKept
<1> QED
  BY <1>1, <1>2, <1>3, <1>4, <1>5, <1>6, <1>7, <1>8, Zenon

LEMMA BuildInv == ListInv /\ BuildPacket => ListInv'
<1> SUFFICES ASSUME ListInv, BuildPacket
             PROVE  ListInv'
  OBVIOUS
<1>1. PICK T, R, C \in Seq(Nodes) : ListsInv(T, R, C)
  BY DEF ListInv
<1>2. Reached(T, R, C) /\ InPhase(T, R, C) /\ Filled(T, R, C)
  BY <1>1 DEF ListsInv
<1>3. left \in Nat /\ left' \in Nat /\ left' = left - 1
  BY DEF BuildPacket, ListInv, HeapTypeOK
<1>4. PICK n \in Nodes \ nodes :
         /\ n = NewNode
         /\ nodes' = nodes \cup {n}
         /\ nodes' \subseteq Nodes /\ buffers' \subseteq Buffers
         /\ next' \in [Nodes -> Pointers]
         /\ data' \in [Nodes -> Buffers \cup {NULL}]
         /\ serial' \in [Buffers -> Nat]
         /\ Owners'
         /\ IsPath(next', C \o <<n>>, Head1(created, n))
         /\ \A r, head : IsPath(next, r, head) /\ ToSet(r) \subseteq nodes \ ToSet(C)
               => IsPath(next', r, head)
         /\ \A r \in Seq(Nodes) : ToSet(r) \subseteq nodes
               => Contents(r \o <<n>>)' = Append(Contents(r), left)
         /\ \A r : ToSet(r) \subseteq nodes => Contents(r)' = Contents(r)
  <2>1. IsPath(next, C, created) /\ ToSet(C) \subseteq nodes
    BY <1>2, ReachedTypes DEF Reached
  <2>2. HeapTypeOK /\ Owners
    BY DEF ListInv
  <2> QED
    BY <1>3, <2>1, <2>2, AddToTail DEF BuildPacket
<1> DEFINE C1 == C \o <<n>>
<1>5. /\ C1 \in Seq(Nodes) /\ ToSet(C1) = ToSet(C) \cup {n}
      /\ ToSet(T) \cap ToSet(R) = {} /\ ToSet(T) \cap ToSet(C) = {}
      /\ ToSet(R) \cap ToSet(C) = {}
      /\ nodes = ToSet(T) \cup ToSet(R) \cup ToSet(C)
  BY <1>2, AddedSet, ReachedTypes
<1>6. Reached(T, R, C1)'
  <2>1. IsPath(next', T, txPackets') /\ IsPath(next', R, response')
    BY <1>2, <1>4, <1>5 DEF BuildPacket, Reached
  <2>2. IsPath(next', C1, created')
    BY <1>4 DEF BuildPacket
  <2>3. Apart(T, R) /\ Apart(T, C1) /\ Apart(R, C1)
    <3>1. /\ ToSet(T) \cap ToSet(R) = {} /\ ToSet(T) \cap ToSet(C1) = {}
          /\ ToSet(R) \cap ToSet(C1) = {}
      BY <1>5
    <3> HIDE DEF C1
    <3> QED
      BY <1>5, <3>1, ApartSets
  <2>4. nodes' = ToSet(T) \cup ToSet(R) \cup ToSet(C1)
    BY <1>4, <1>5
  <2> HIDE DEF C1
  <2> QED
    BY <2>1, <2>2, <2>3, <2>4 DEF Reached
<1>7. InPhase(T, R, C1)'
  BY <1>2, <1>4 DEF InPhase, BuildPacket
<1>8. Filled(T, R, C1)' /\ expected' \in Seq(Nat)
  <2>1. CASE phase = "create"
    BY <2>1 DEF BuildPacket, Filled, ListInv, HeapTypeOK
  <2>2. CASE phase = "answer"
    <3>1. R \o C \in Seq(Nodes) /\ ToSet(R \o C) \subseteq nodes
      BY <1>5, SetOfConcat
    <3>2. R \o C1 = (R \o C) \o <<n>>
      BY ConcatAssociative, <<n>> \in Seq(Nodes)
    <3>3. Contents((R \o C) \o <<n>>)' = Append(Contents(R \o C), left)
      BY <1>4, <3>1
    <3>4. Contents(R \o C) = expected
      BY <1>2, <2>2 DEF Filled
    <3>5. expected' = Append(expected, left) /\ phase' = "answer"
      BY <2>2 DEF BuildPacket
    <3>6. Contents(R \o C1)' = expected'
      BY <3>2, <3>3, <3>4, <3>5
    <3>7. expected' \in Seq(Nat)
      BY <1>3, <3>5 DEF ListInv, HeapTypeOK
    <3> QED
      BY <3>5, <3>6, <3>7 DEF Filled
  <2> QED
    BY <2>1, <2>2 DEF BuildPacket
<1>9. HeapTypeOK' /\ NothingFreedIsUsed'
  BY <1>3, <1>4, <1>8 DEF BuildPacket, ListInv, HeapTypeOK, NothingFreedIsUsed
<1> HIDE DEF C1
<1> QED
  BY <1>4, <1>5, <1>6, <1>7, <1>8, <1>9 DEF ListInv, ListsInv

LEMMA BuildLostInv == ListInv /\ BuildPacketLost => ListInv'
<1> SUFFICES ASSUME ListInv, BuildPacketLost
             PROVE  ListInv'
  OBVIOUS
<1>1. PICK T, R, C \in Seq(Nodes) : ListsInv(T, R, C)
  BY DEF ListInv
<1>2. Reached(T, R, C) /\ InPhase(T, R, C) /\ Filled(T, R, C)
  BY <1>1 DEF ListsInv
<1>3. PICK b \in Buffers \ buffers : b = NewBuffer
  BY NewAddresses DEF BuildPacketLost
<1>4. /\ buffers' = buffers \cup {b} /\ serial' = [serial EXCEPT ![b] = left]
      /\ nodes' = nodes /\ data' = data /\ lost' = lost + 1
  BY <1>3 DEF BuildPacketLost
<1>5. HeapTypeOK' /\ NothingFreedIsUsed'
  BY <1>4 DEF BuildPacketLost, ListInv, HeapTypeOK, NothingFreedIsUsed
<1>6. Owners'
  BY <1>4, OwnersLose DEF ListInv, HeapTypeOK
<1>7. Reached(T, R, C)' /\ InPhase(T, R, C)'
  BY <1>2 DEF BuildPacketLost, Reached, InPhase
<1>8. \A q : ToSet(q) \subseteq nodes => Contents(q)' = Contents(q)
  <2>1. \A c \in buffers : serial'[c] = serial[c]
    BY <1>4 DEF ListInv, HeapTypeOK
  <2>2. \A m \in nodes : data'[m] = data[m]
    BY <1>4
  <2> QED
    BY <2>1, <2>2, ContentsKept DEF ListInv
<1>9. Filled(T, R, C)'
  <2>1. ToSet(T) \subseteq nodes /\ ToSet(R \o C) \subseteq nodes
    BY <1>2, ReachedTypes, SetOfConcat
  <2> QED
    BY <1>2, <1>8, <2>1 DEF BuildPacketLost, Filled
<1> QED
  BY <1>5, <1>6, <1>7, <1>9 DEF ListInv, ListsInv

\* While memory stays as it is, so does what is known of it.
LEMMA SameMemory ==
    ASSUME HeapTypeOK, Owners, UNCHANGED <<nodes, buffers, next, data, serial, lost>>,
           left' \in Nat, expected' \in Seq(Nat)
    PROVE  /\ HeapTypeOK' /\ Owners'
           /\ \A q : Contents(q)' = Contents(q)
  BY DEF HeapTypeOK, Owners, Contents

LEMMA StartRunInv == ListInv /\ StartRun => ListInv'
<1> SUFFICES ASSUME ListInv, StartRun
             PROVE  ListInv'
  OBVIOUS
<1>1. PICK T, R, C \in Seq(Nodes) : ListsInv(T, R, C)
  BY DEF ListInv
<1>2. left' \in Nat
  BY HeapAssumption DEF StartRun
<1>3. HeapTypeOK' /\ Owners'
  BY <1>2, SameMemory DEF StartRun, heap, ListInv, HeapTypeOK
<1>4. Reached(T, R, C)' /\ InPhase(T, R, C)' /\ Filled(T, R, C)'
  BY <1>1 DEF StartRun, heap, ListsInv, Reached, InPhase, Filled
<1> QED
  BY <1>3, <1>4 DEF StartRun, ListInv, ListsInv, NothingFreedIsUsed

LEMMA BuildExitsInv == ListInv /\ BuildPacketExits => ListInv'
<1> SUFFICES ASSUME ListInv, BuildPacketExits
             PROVE  ListInv'
  OBVIOUS
<1>1. PICK T, R, C \in Seq(Nodes) : ListsInv(T, R, C)
  BY DEF ListInv
<1>2. HeapTypeOK' /\ Owners'
  BY SameMemory DEF BuildPacketExits, heap, ListInv, HeapTypeOK
<1>3. Reached(T, R, C)' /\ InPhase(T, R, C)' /\ Filled(T, R, C)'
  BY <1>1 DEF BuildPacketExits, heap, ListsInv, Reached, InPhase, Filled
<1> QED
  BY <1>2, <1>3 DEF BuildPacketExits, ListInv, ListsInv, NothingFreedIsUsed

\* The list that was created is the one of runSample.
LEMMA ReceiveAsGadgetInv == ListInv /\ ReceiveAsGadget => ListInv'
<1> SUFFICES ASSUME ListInv, ReceiveAsGadget
             PROVE  ListInv'
  OBVIOUS
<1>1. PICK T, R, C \in Seq(Nodes) : ListsInv(T, R, C)
  BY DEF ListInv
<1>2. Reached(T, R, C) /\ T = <<>> /\ R = <<>>
  BY <1>1 DEF ReceiveAsGadget, ListsInv, InPhase
<1>3. HeapTypeOK' /\ Owners'
  <2>1. expected' \in Seq(Nat)
    BY DEF ReceiveAsGadget
  <2> QED
    BY <2>1, SameMemory DEF ReceiveAsGadget, heap, ListInv, HeapTypeOK
<1>4. Reached(C, <<>>, <<>>)'
  <2>1. IsPath(next, C, created) /\ response = NULL /\ nodes = ToSet(C)
    BY <1>2, PathHead, ReachedTypes DEF Reached, ToSet
  <2>2. ToSet(<<>>) = {} /\ Apart(C, <<>>) /\ Apart(<<>>, <<>>)
    BY DEF ToSet, Apart
  <2> QED
    BY <2>1, <2>2, EmptyPath DEF ReceiveAsGadget, heap, Reached
<1>5. InPhase(C, <<>>, <<>>)'
  <2>1. node' = NULL \/ node' \in ToSet(C)
    BY <1>2, PathHead DEF ReceiveAsGadget, Reached
  <2>2. phase' \in {"exited", "gadget"}
    BY DEF ReceiveAsGadget
  <2> QED
    BY <2>1, <2>2 DEF InPhase
<1>6. Filled(C, <<>>, <<>>)'
  <2>1. Contents(<<>> \o <<>>)' = <<>>
    BY DEF Contents
  <2>2. phase' # "echo" /\ expected' = <<>>
    BY DEF ReceiveAsGadget
  <2> QED
    BY <2>1, <2>2 DEF Filled
<1>7. NothingFreedIsUsed'
  BY DEF ReceiveAsGadget, ListInv, NothingFreedIsUsed
<1>8. <<>> \in Seq(Nodes)
  OBVIOUS
<1> QED
  BY <1>3, <1>4, <1>5, <1>6, <1>7, <1>8 DEF ListInv, ListsInv

\* A node that is reached has not been freed, and nor has its packet.
LEMMA NodeUsed ==
    ASSUME Owners, NothingFreedIsUsed, node \in nodes,
           undefined' = (undefined \/ node \notin nodes \/ data[node] \notin buffers)
    PROVE  NothingFreedIsUsed'
<1>1. data[node] \in buffers
  BY DEF Owners
<1> QED
  BY <1>1 DEF NothingFreedIsUsed

LEMMA DecodeInv == ListInv /\ DecodePacket => ListInv'
<1> SUFFICES ASSUME ListInv, DecodePacket
             PROVE  ListInv'
  OBVIOUS
<1>1. PICK T, R, C \in Seq(Nodes) : ListsInv(T, R, C)
  BY DEF ListInv
<1>2. Reached(T, R, C) /\ InPhase(T, R, C) /\ Filled(T, R, C)
  BY <1>1 DEF ListsInv
<1>3. /\ C = <<>> /\ node \in ToSet(T) /\ phase = "gadget" /\ phase' = "answer"
      /\ HeapTypeOK /\ Owners /\ left' \in Nat
      /\ UNCHANGED <<txPackets, created, node>>
  BY <1>2, HeapAssumption DEF DecodePacket, InPhase, ListInv
<1>4. /\ ToSet(T) \cap ToSet(R) = {} /\ ToSet(T) \cap ToSet(C) = {}
      /\ ToSet(R) \cap ToSet(C) = {}
      /\ nodes = ToSet(T) \cup ToSet(R) \cup ToSet(C)
  BY <1>2, ReachedTypes
<1>5. NothingFreedIsUsed'
  BY <1>3, <1>4, NodeUsed DEF DecodePacket, ListInv
<1>6. Contents(R \o C) = expected /\ R \o C = R
  BY <1>2, <1>3 DEF Filled
<1>7. CASE UNCHANGED <<heap, response, serial, expected, lost>>
  <2>1. HeapTypeOK' /\ Owners' /\ \A q : Contents(q)' = Contents(q)
    BY <1>3, <1>7, SameMemory DEF heap, HeapTypeOK
  <2>2. Reached(T, R, C)' /\ InPhase(T, R, C)'
    BY <1>2, <1>3, <1>7 DEF heap, Reached, InPhase
  <2>3. Filled(T, R, C)'
    BY <1>3, <1>6, <1>7, <2>1 DEF Filled
  <2> QED
    BY <1>5, <2>1, <2>2, <2>3 DEF ListInv, ListsInv
<1>8. CASE /\ Room /\ BufferLeft
           /\ buffers' = buffers \cup {NewBuffer}
           /\ PacketList_addToTail(response, NewBuffer)
           /\ response' = Head1(response, NewNode)
           /\ serial' = [serial EXCEPT ![NewBuffer] = MaxPackets + 1]
           /\ expected' = Append(expected, MaxPackets + 1)
           /\ UNCHANGED lost
  <2>1. IsPath(next, R, response) /\ ToSet(R) \subseteq nodes
    BY <1>2, <1>4 DEF Reached
  <2>2. MaxPackets + 1 \in Nat
    BY HeapAssumption
  <2>3. PICK n \in Nodes \ nodes :
           /\ n = NewNode
           /\ nodes' = nodes \cup {n}
           /\ nodes' \subseteq Nodes /\ buffers' \subseteq Buffers
           /\ next' \in [Nodes -> Pointers]
           /\ data' \in [Nodes -> Buffers \cup {NULL}]
           /\ serial' \in [Buffers -> Nat]
           /\ Owners'
           /\ IsPath(next', R \o <<n>>, Head1(response, n))
           /\ \A r, head : IsPath(next, r, head) /\ ToSet(r) \subseteq nodes \ ToSet(R)
                 => IsPath(next', r, head)
           /\ \A r \in Seq(Nodes) : ToSet(r) \subseteq nodes
                 => Contents(r \o <<n>>)' = Append(Contents(r), MaxPackets + 1)
           /\ \A r : ToSet(r) \subseteq nodes => Contents(r)' = Contents(r)
    BY <1>3, <1>8, <2>1, <2>2, AddToTail
  <2> DEFINE R1 == R \o <<n>>
  <2>4. R1 \in Seq(Nodes) /\ ToSet(R1) = ToSet(R) \cup {n}
    BY AddedSet
  <2>5. IsPath(next', T, txPackets') /\ IsPath(next', C, created')
    BY <1>2, <1>3, <1>4, <2>3 DEF Reached
  <2>6. IsPath(next', R1, response')
    BY <1>8, <2>3
  <2>7. Contents(R1)' = expected'
    BY <1>4, <1>6, <1>8, <2>3
  <2> HIDE DEF R1
  <2>8. Apart(T, R1) /\ Apart(T, C) /\ Apart(R1, C)
    BY <1>4, <2>3, <2>4, ApartSets
  <2>9. nodes' = ToSet(T) \cup ToSet(R1) \cup ToSet(C)
    BY <1>4, <2>3, <2>4
  <2>10. Reached(T, R1, C)'
    BY <2>5, <2>6, <2>8, <2>9 DEF Reached
  <2>11. InPhase(T, R1, C)'
    BY <1>3 DEF InPhase
  <2>12. Filled(T, R1, C)'
    <3>1. R1 \o C = R1
      BY <1>3, <2>4
    <3> QED
      BY <1>3, <2>7, <3>1 DEF Filled
  <2>13. HeapTypeOK'
    BY <1>3, <1>8, <2>2, <2>3 DEF HeapTypeOK
  <2> QED
    BY <1>5, <2>3, <2>4, <2>10, <2>11, <2>12, <2>13 DEF ListInv, ListsInv
<1>9. CASE /\ lost < MaxLost /\ lost' = lost + 1 /\ BufferLeft
           /\ buffers' = buffers \cup {NewBuffer}
           /\ UNCHANGED <<nodes, next, data, response, serial, expected>>
  <2>1. PICK b \in Buffers \ buffers : b = NewBuffer
    BY <1>9, NewAddresses
  <2>2. HeapTypeOK'
    BY <1>3, <1>9, <2>1 DEF HeapTypeOK
  <2>3. Owners'
    BY <1>3, <1>9, <2>1, OwnersLose DEF HeapTypeOK
  <2>4. Reached(T, R, C)' /\ InPhase(T, R, C)'
    BY <1>2, <1>3, <1>9 DEF Reached, InPhase
  <2>5. Filled(T, R, C)'
    <3>1. Contents(R)' = Contents(R)
      BY <1>9 DEF Contents
    <3> QED
      BY <1>3, <1>6, <1>9, <3>1 DEF Filled
  <2> QED
    BY <1>5, <2>2, <2>3, <2>4, <2>5 DEF ListInv, ListsInv
<1> QED
  BY <1>7, <1>8, <1>9 DEF DecodePacket

\* The answer goes to the end of the response; the list that is received is not
\* touched, so that the loop goes on in it.
LEMMA AppendAnswerInv == ListInv /\ AppendAnswer => ListInv'
<1> SUFFICES ASSUME ListInv, AppendAnswer
             PROVE  ListInv'
  OBVIOUS
<1>1. PICK T, R, C \in Seq(Nodes) : ListsInv(T, R, C)
  BY DEF ListInv
<1>2. Reached(T, R, C) /\ InPhase(T, R, C) /\ Filled(T, R, C)
  BY <1>1 DEF ListsInv
<1>3. /\ node \in ToSet(T) /\ phase = "answer" /\ phase' = "gadget"
      /\ HeapTypeOK /\ Owners /\ NothingFreedIsUsed
  BY <1>2 DEF AppendAnswer, InPhase, ListInv
<1>4. /\ ToSet(T) \cap ToSet(R) = {} /\ ToSet(T) \cap ToSet(C) = {}
      /\ ToSet(R) \cap ToSet(C) = {}
      /\ nodes = ToSet(T) \cup ToSet(R) \cup ToSet(C)
      /\ ToSet(T) \subseteq Nodes
  BY <1>2, ReachedTypes DEF ListInv, HeapTypeOK
<1>5. /\ next' \in [Nodes -> Pointers]
      /\ IsPath(next', R \o C, response')
      /\ \A a \in Nodes : a \notin ToSet(R) => next'[a] = next[a]
  <2>1. next' = IF created = NULL THEN next ELSE Link(response, created)
    BY DEF AppendAnswer, PacketList_appendList
  <2>2. /\ next \in [Nodes -> Pointers] /\ IsPath(next, R, response)
        /\ IsPath(next, C, created) /\ Apart(R, C)
    BY <1>2, <1>3 DEF HeapTypeOK, Reached
  <2>3. \A nx2 : nx2 = (IF created = NULL THEN next ELSE Link(response, created)) =>
          /\ nx2 \in [Nodes -> Pointers]
          /\ IsPath(nx2, R \o C, IF created = NULL THEN response ELSE Head1(response, created))
          /\ \A a \in Nodes : a \notin ToSet(R) => nx2[a] = next[a]
    BY <2>2, AppendedPath
  <2>4. response' = IF created = NULL THEN response ELSE Head1(response, created)
    BY DEF AppendAnswer
  <2> QED
    BY <2>1, <2>3, <2>4
<1>6. IsPath(next', T, txPackets')
  <2>1. \A a \in ToSet(T) : next'[a] = next[a]
    BY <1>4, <1>5
  <2> QED
    BY <1>2, <2>1, OtherPath DEF AppendAnswer, Reached
<1>7. node' = NULL \/ node' \in ToSet(T)
  BY <1>3, <1>6, PathStep DEF AppendAnswer
<1> DEFINE R1 == R \o C
<1>8. R1 \in Seq(Nodes) /\ ToSet(R1) = ToSet(R) \cup ToSet(C) /\ <<>> \in Seq(Nodes)
  BY SetOfConcat
<1>9. Contents(R1)' = expected'
  <2>1. Contents(R1) = expected
    BY <1>2, <1>3 DEF Filled
  <2> QED
    BY <2>1 DEF AppendAnswer, Contents
<1> HIDE DEF R1
<1>10. Reached(T, R1, <<>>)'
  <2>1. Apart(T, R1)
    BY <1>4, <1>8, ApartSets
  <2>2. Apart(T, <<>>) /\ Apart(R1, <<>>) /\ ToSet(<<>>) = {}
    BY DEF Apart, ToSet
  <2>3. nodes' = ToSet(T) \cup ToSet(R1) \cup ToSet(<<>>)
    BY <1>4, <1>8, <2>2 DEF AppendAnswer
  <2>4. IsPath(next', <<>>, created')
    BY EmptyPath DEF AppendAnswer
  <2>5. IsPath(next', R1, response')
    BY <1>5 DEF R1
  <2> QED
    BY <1>6, <2>1, <2>2, <2>3, <2>4, <2>5 DEF Reached
<1>11. InPhase(T, R1, <<>>)'
  BY <1>3, <1>7 DEF InPhase
<1>12. Filled(T, R1, <<>>)'
  <2>1. R1 \o <<>> = R1
    BY <1>8
  <2> QED
    BY <1>3, <1>9, <2>1 DEF Filled
<1>13. HeapTypeOK' /\ Owners' /\ NothingFreedIsUsed'
  BY <1>3, <1>5 DEF AppendAnswer, HeapTypeOK, Owners, NothingFreedIsUsed
<1> QED
  BY <1>8, <1>10, <1>11, <1>12, <1>13 DEF ListInv, ListsInv

LEMMA FreeList ==
    ASSUME HeapTypeOK, Owners, NothingFreedIsUsed, NEW list, NEW q,
           IsPath(next, q, list), ToSet(q) \subseteq nodes,
           PacketList_freeList(list), UNCHANGED <<lost, left, expected, serial>>
    PROVE  /\ HeapTypeOK' /\ Owners' /\ NothingFreedIsUsed'
           /\ nodes' = nodes \ ToSet(q) /\ next' = next /\ data' = data
<1>1. Chain(list) = q
  BY WalkIsPath DEF Chain, HeapTypeOK
<1>2. Freed(list) = [nodes |-> ToSet(q), buffers |-> {data[n] : n \in ToSet(q)}]
  BY <1>1 DEF Freed
<1>3. /\ Freed(list).nodes = ToSet(q)
      /\ Freed(list).buffers = {data[n] : n \in ToSet(q)}
  BY <1>2
<1>4. /\ nodes' = nodes \ ToSet(q) /\ buffers' = buffers \ {data[n] : n \in ToSet(q)}
      /\ next' = next /\ data' = data
  BY <1>3, Zenon DEF PacketList_freeList
<1>5. Owners'
  BY <1>4, OwnersFree
<1>6. IsInjective(q) /\ {data[n] : n \in ToSet(q)} \subseteq buffers
  BY DEF IsPath, IsInjective, Owners
<1>7. NothingFreedIsUsed'
  BY <1>1, <1>3, <1>6, Zenon DEF PacketList_freeList, NothingFreedIsUsed
<1>8. HeapTypeOK'
  BY <1>4 DEF HeapTypeOK
<1> QED
  BY <1>4, <1>5, <1>7, <1>8

\* What was received is freed; the response is apart from it.
LEMMA ReceiveAsEchoInv == ListInv /\ ReceiveAsEcho => ListInv'
<1> SUFFICES ASSUME ListInv, ReceiveAsEcho
             PROVE  ListInv'
  OBVIOUS
<1>1. PICK T, R, C \in Seq(Nodes) : ListsInv(T, R, C)
  BY DEF ListInv
<1>2. /\ Reached(T, R, C) /\ C = <<>> /\ phase' = "echo"
      /\ Contents(R \o C) = expected /\ R \o C = R
  BY <1>1 DEF ReceiveAsEcho, ListsInv, InPhase, Filled
<1>3. /\ ToSet(T) \cap ToSet(R) = {} /\ ToSet(C) = {}
      /\ nodes = ToSet(T) \cup ToSet(R) \cup ToSet(C)
  <2>1. ToSet(<<>>) = {}
    BY DEF ToSet
  <2> QED
    BY <1>2, <2>1, ReachedTypes
<1>4. /\ HeapTypeOK' /\ Owners' /\ NothingFreedIsUsed'
      /\ nodes' = nodes \ ToSet(T) /\ next' = next /\ data' = data
  BY <1>2, <1>3, FreeList DEF ReceiveAsEcho, ListInv, Reached
<1>5. Reached(R, <<>>, <<>>)'
  <2>1. nodes' = ToSet(R) \cup ToSet(<<>>) \cup ToSet(<<>>)
    BY <1>2, <1>3, <1>4
  <2>2. Apart(R, <<>>) /\ Apart(<<>>, <<>>)
    BY DEF Apart
  <2>3. /\ IsPath(next', R, txPackets') /\ IsPath(next', <<>>, response')
        /\ IsPath(next', <<>>, created')
    BY <1>2, <1>4, EmptyPath DEF ReceiveAsEcho, Reached
  <2> QED
    BY <2>1, <2>2, <2>3 DEF Reached
<1>6. InPhase(R, <<>>, <<>>)'
  <2>1. node' = NULL \/ node' \in ToSet(R)
    BY <1>2, PathHead DEF ReceiveAsEcho, Reached
  <2> QED
    BY <1>2, <2>1 DEF InPhase
<1>7. Filled(R, <<>>, <<>>)'
  <2>1. Contents(R)' = Contents(R)
    BY <1>4 DEF ReceiveAsEcho, Contents
  <2> QED
    BY <1>2, <2>1 DEF ReceiveAsEcho, Filled
<1>8. <<>> \in Seq(Nodes)
  OBVIOUS
<1> QED
  BY <1>4, <1>5, <1>6, <1>7, <1>8 DEF ListInv, ListsInv

LEMMA DecodeResponseInv == ListInv /\ DecodeResponse => ListInv'
<1> SUFFICES ASSUME ListInv, DecodeResponse
             PROVE  ListInv'
  OBVIOUS
<1>1. PICK T, R, C \in Seq(Nodes) : ListsInv(T, R, C)
  BY DEF ListInv
<1>2. /\ Reached(T, R, C) /\ InPhase(T, R, C) /\ Filled(T, R, C)
      /\ phase = "echo" /\ phase' = "echo" /\ node \in ToSet(T)
  BY <1>1 DEF DecodeResponse, ListsInv, InPhase
<1>3. NothingFreedIsUsed'
  <2>1. node \in nodes
    BY <1>2, ReachedTypes
  <2> QED
    BY <2>1, NodeUsed DEF DecodeResponse, ListInv
<1>4. HeapTypeOK' /\ Owners' /\ \A q : Contents(q)' = Contents(q)
  BY SameMemory DEF DecodeResponse, heap, ListInv, HeapTypeOK
<1>5. Reached(T, R, C)'
  BY <1>2 DEF DecodeResponse, heap, Reached
<1>6. node' = NULL \/ node' \in ToSet(T)
  BY <1>2, PathStep DEF DecodeResponse, Reached
<1>7. InPhase(T, R, C)'
  BY <1>2, <1>6 DEF InPhase
<1>8. Filled(T, R, C)'
  BY <1>2, <1>4 DEF DecodeResponse, Filled
<1> QED
  BY <1>3, <1>4, <1>5, <1>7, <1>8 DEF ListInv, ListsInv

LEMMA FinishRunInv == ListInv /\ FinishRun => ListInv'
<1> SUFFICES ASSUME ListInv, FinishRun
             PROVE  ListInv'
  OBVIOUS
<1>1. PICK T, R, C \in Seq(Nodes) : ListsInv(T, R, C)
  BY DEF ListInv
<1>2. Reached(T, R, C) /\ R = <<>> /\ C = <<>> /\ phase' = "main"
  BY <1>1 DEF FinishRun, ListsInv, InPhase
<1>3. ToSet(<<>>) = {} /\ nodes = ToSet(T)
  BY <1>2, ReachedTypes DEF ToSet
<1>4. /\ HeapTypeOK' /\ Owners' /\ NothingFreedIsUsed'
      /\ nodes' = nodes \ ToSet(T) /\ next' = next /\ data' = data
  BY <1>2, <1>3, FreeList DEF FinishRun, ListInv, Reached
<1>5. Reached(<<>>, <<>>, <<>>)'
  <2>1. nodes' = ToSet(<<>>) \cup ToSet(<<>>) \cup ToSet(<<>>)
    BY <1>3, <1>4
  <2>2. Apart(<<>>, <<>>)
    BY DEF Apart
  <2>3. response' = NULL /\ created' = NULL /\ txPackets' = NULL
    BY <1>2, PathHead DEF FinishRun, Reached
  <2> QED
    BY <2>1, <2>2, <2>3, EmptyPath DEF Reached
<1>6. InPhase(<<>>, <<>>, <<>>)' /\ Filled(<<>>, <<>>, <<>>)'
  BY <1>2 DEF InPhase, Filled
<1>7. <<>> \in Seq(Nodes)
  OBVIOUS
<1> QED
  BY <1>4, <1>5, <1>6, <1>7 DEF ListInv, ListsInv

LEMMA InitListInv == Init => ListInv
<1> SUFFICES ASSUME Init
             PROVE  ListInv
  OBVIOUS
<1>1. HeapTypeOK /\ NothingFreedIsUsed
  BY DEF Init, HeapTypeOK, NothingFreedIsUsed, Pointers
<1>2. Owners
  <2>1. buffers \ {data[n] : n \in nodes} = {}
    BY DEF Init
  <2> QED
    BY <2>1, FS_EmptySet DEF Init, Owners
<1>3. Reached(<<>>, <<>>, <<>>)
  BY EmptyPath DEF Init, Reached, Apart, ToSet
<1>4. InPhase(<<>>, <<>>, <<>>) /\ Filled(<<>>, <<>>, <<>>)
  BY DEF Init, InPhase, Filled
<1>5. <<>> \in Seq(Nodes)
  OBVIOUS
<1> QED
  BY <1>1, <1>2, <1>3, <1>4, <1>5 DEF ListInv, ListsInv

LEMMA ListInductive == Spec => []ListInv
<1>1. ListInv /\ [Next]_vars => ListInv'
  <2> SUFFICES ASSUME ListInv, [Next]_vars
               PROVE  ListInv'
    OBVIOUS
  <2>1. CASE UNCHANGED vars
    <3>1. PICK T, R, C \in Seq(Nodes) : ListsInv(T, R, C)
      BY DEF ListInv
    <3>2. HeapTypeOK' /\ Owners'
      BY <2>1, SameMemory DEF vars, heap, ListInv, HeapTypeOK
    <3>3. Reached(T, R, C)' /\ InPhase(T, R, C)' /\ Filled(T, R, C)'
      BY <2>1, <3>1 DEF vars, heap, ListsInv, Reached, InPhase, Filled, Contents
    <3> QED
      BY <2>1, <3>2, <3>3 DEF vars, ListInv, ListsInv, NothingFreedIsUsed
  <2>2. CASE Next
    BY <2>2, StartRunInv, BuildInv, BuildLostInv, BuildExitsInv, ReceiveAsGadgetInv,
       DecodeInv, AppendAnswerInv, ReceiveAsEchoInv, DecodeResponseInv, FinishRunInv
       DEF Next
  <2> QED
    BY <2>1, <2>2
<1> QED
  BY <1>1, InitListInv, PTL DEF Spec

-----------------------------------------------------------------------------
(***************************************************************************)
(* The properties follow from what is on the paths.                        *)
(***************************************************************************)
LEMMA ChainsReached ==
    ASSUME HeapTypeOK, NEW T, NEW R, NEW C, Reached(T, R, C)
    PROVE  Chain(txPackets) = T /\ Chain(response) = R /\ Chain(created) = C
<1>1. next \in [Nodes -> Pointers]
  BY DEF HeapTypeOK
<1>2. IsPath(next, T, txPackets) /\ IsPath(next, R, response) /\ IsPath(next, C, created)
  BY DEF Reached
<1> QED
  BY <1>1, <1>2, WalkIsPath DEF Chain

LEMMA InjectiveConcat ==
    ASSUME NEW q \in Seq(Nodes), NEW r \in Seq(Nodes),
           IsInjective(q), IsInjective(r), Apart(q, r)
    PROVE  IsInjective(q \o r)
<1>1. /\ Len(q) \in Nat /\ Len(r) \in Nat
      /\ DOMAIN q = 1..Len(q) /\ DOMAIN r = 1..Len(r)
      /\ DOMAIN (q \o r) = 1..(Len(q) + Len(r))
      /\ \A i \in 1..Len(q) : (q \o r)[i] = q[i]
      /\ \A i \in 1..Len(r) : (q \o r)[Len(q) + i] = r[i]
  OBVIOUS
<1>2. ASSUME NEW i \in 1..(Len(q) + Len(r)), i \notin 1..Len(q)
      PROVE  i - Len(q) \in 1..Len(r) /\ Len(q) + (i - Len(q)) = i
  BY <1>1, <1>2
<1>3. ASSUME NEW i \in 1..(Len(q) + Len(r)), NEW j \in 1..(Len(q) + Len(r)),
             (q \o r)[i] = (q \o r)[j]
      PROVE  i = j
  <2>1. CASE i \in 1..Len(q) /\ j \in 1..Len(q)
    BY <1>1, <1>3, <2>1 DEF IsInjective
  <2>2. CASE i \notin 1..Len(q) /\ j \notin 1..Len(q)
    <3>1. /\ i - Len(q) \in 1..Len(r) /\ Len(q) + (i - Len(q)) = i
          /\ j - Len(q) \in 1..Len(r) /\ Len(q) + (j - Len(q)) = j
      BY <1>2, <2>2
    <3>2. i - Len(q) = j - Len(q)
      BY <1>1, <1>3, <3>1 DEF IsInjective
    <3> QED
      BY <1>1, <3>1, <3>2
  <2>3. CASE i \in 1..Len(q) /\ j \notin 1..Len(q)
    BY <1>1, <1>2, <1>3, <2>3 DEF Apart
  <2>4. CASE i \notin 1..Len(q) /\ j \in 1..Len(q)
    BY <1>1, <1>2, <1>3, <2>4 DEF Apart
  <2> QED
    BY <2>1, <2>2, <2>3, <2>4
<1> QED
  BY <1>1, <1>3 DEF IsInjective

LEMMA OwnedOnce == ListInv => EachOwnedOnce
<1> SUFFICES ASSUME ListInv
             PROVE  EachOwnedOnce
  OBVIOUS
<1>1. PICK T, R, C \in Seq(Nodes) : Reached(T, R, C)
  BY DEF ListInv, ListsInv
<1>2. Listed = T \o R \o C
  BY <1>1, ChainsReached DEF Listed, ListInv
<1>3. IsInjective(T) /\ IsInjective(R) /\ IsInjective(C)
  <2>1. IsPath(next, T, txPackets) /\ IsPath(next, R, response) /\ IsPath(next, C, created)
    BY <1>1 DEF Reached
  <2> QED
    BY <2>1, PathInjective
<1>4. /\ ToSet(T) \cap ToSet(R) = {} /\ ToSet(T) \cap ToSet(C) = {}
      /\ ToSet(R) \cap ToSet(C) = {}
      /\ nodes = ToSet(T) \cup ToSet(R) \cup ToSet(C)
  BY <1>1, ReachedTypes
<1>5. /\ T \o R \in Seq(Nodes) /\ T \o R \o C \in Seq(Nodes)
      /\ ToSet(T \o R) = ToSet(T) \cup ToSet(R)
  BY SetOfConcat
<1>6. ToSet(Listed) = nodes
  BY <1>2, <1>4, <1>5, SetOfConcat
<1>7. IsInjective(Listed)
  <2>1. Apart(T, R) /\ Apart(T \o R, C)
    BY <1>4, <1>5, ApartSets
  <2>2. IsInjective(T \o R)
    BY <1>3, <2>1, InjectiveConcat
  <2> QED
    BY <1>2, <1>3, <1>5, <2>1, <2>2, InjectiveConcat
<1>8. IsInjective([i \in DOMAIN Listed |-> data[Listed[i]]])
  <2>1. \A i \in DOMAIN Listed : Listed[i] \in nodes
    BY <1>6 DEF ToSet
  <2>2. \A i, j \in DOMAIN Listed : data[Listed[i]] = data[Listed[j]] => i = j
    BY <1>7, <2>1 DEF IsInjective, ListInv, Owners
  <2> QED
    BY <2>2 DEF IsInjective
<1> QED
  BY <1>6, <1>7, <1>8 DEF EachOwnedOnce, ListInv, Owners

LEMMA FilledInOrder == ListInv => ResponseInOrder
<1> SUFFICES ASSUME ListInv
             PROVE  ResponseInOrder
  OBVIOUS
<1>1. PICK T, R, C \in Seq(Nodes) : Reached(T, R, C) /\ Filled(T, R, C)
  BY DEF ListInv, ListsInv
<1>2. Chain(txPackets) = T /\ Chain(response) = R /\ Chain(created) = C
  BY <1>1, ChainsReached DEF ListInv
<1> QED
  BY <1>1, <1>2 DEF Filled, ResponseInOrder

(***************************************************************************)
(* Every node that is allocated is on one list, once, and has a buffer of  *)
(* its own; what is on no list was lost where addToTail found no memory    *)
(* (helpers.c:43).  In every order of building, receiving and freeing, for *)
(* any heap, appendList never links a list to itself or to one that it     *)
(* shares a node with, which it does not look for (helpers.c:61-72), and   *)
(* its walk comes to an end.                                               *)
(***************************************************************************)
THEOREM ListsOwnedOnce == Spec => []EachOwnedOnce
  BY ListInductive, OwnedOnce, PTL

(***************************************************************************)
(* freeList is never given a node or a packet that was freed before        *)
(* (helpers.c:74-82), and receivePackets reads none that was (rx.c:357),   *)
(* although the addresses are given out again.                             *)
(***************************************************************************)
THEOREM ListsUseNothingFreed == Spec => []NothingFreedIsUsed
<1>1. ListInv => NothingFreedIsUsed
  BY DEF ListInv
<1> QED
  BY <1>1, ListInductive, PTL

(***************************************************************************)
(* The Echo device is given the gadget's acknowledgements and answers in   *)
(* the order in which they were made, whatever nodes were lost among them. *)
(***************************************************************************)
THEOREM ListsInOrder == Spec => []ResponseInOrder
  BY ListInductive, FilledInOrder, PTL

-----------------------------------------------------------------------------
\* One value for each context.
PerContext(f) == f = [c \in Contexts |-> f[c]]

HashInv ==
    /\ PerContext(ctx) /\ PerContext(stageOf) /\ PerContext(message) /\ PerContext(output)
    /\ \A c \in Contexts : ContextSound(ctx[c], stageOf[c], message[c], output[c])

\* What processing a piece does to the rest of a context.

\* A step changes what belongs to one context.
LEMMA OneContext ==
    ASSUME HashInv, NEW c \in Contexts, NEW x, NEW ph, NEW m, NEW out,
           ContextSound(x, ph, m, out),
           ctx' = [ctx EXCEPT ![c] = x], stageOf' = [stageOf EXCEPT ![c] = ph],
           message' = [message EXCEPT ![c] = m], output' = [output EXCEPT ![c] = out]
    PROVE  HashInv'
<1>1. /\ PerContext(ctx') /\ PerContext(stageOf') /\ PerContext(message') /\ PerContext(output')
  BY DEF HashInv, PerContext
<1>2. ASSUME NEW d \in Contexts
      PROVE  ContextSound(ctx'[d], stageOf'[d], message'[d], output'[d])
  <2>1. CASE d = c
    <3>1. ctx'[d] = x /\ stageOf'[d] = ph /\ message'[d] = m /\ output'[d] = out
      BY <2>1 DEF HashInv, PerContext
    <3> QED
      BY <3>1
  <2>2. CASE d # c
    <3>1. /\ ctx'[d] = ctx[d] /\ stageOf'[d] = stageOf[d]
          /\ message'[d] = message[d] /\ output'[d] = output[d]
      BY <2>2 DEF HashInv, PerContext
    <3> QED
      BY <3>1 DEF HashInv
  <2> QED
    BY <2>1, <2>2
<1> QED
  BY <1>1, <1>2 DEF HashInv

LEMMA BytesType ==
    ASSUME PiecesAssumption, NEW c \in Contexts, NEW n \in Nat, message[c] \in Seq(Octet)
    PROVE  Bytes(c, n) \in Seq(Octet) /\ Len(Bytes(c, n)) = n
<1>1. ASSUME NEW i \in 1..n
      PROVE  (64 * c + Len(message[c]) + i) % 128 \in Octet
  <2>1. PICK v \in Nat : v = 64 * c + Len(message[c]) + i
    <3>1. c \in Nat
      BY DEF PiecesAssumption
    <3>2. Len(message[c]) \in Nat
      OBVIOUS
    <3>3. PICK k \in Nat : k = Len(message[c])
      BY <3>2
    <3>4. 64 * c + k + i \in Nat
      BY <3>1
    <3> QED
      BY <3>3, <3>4
  <2>2. v % 128 \in 0..127
    OBVIOUS
  <2> QED
    BY <2>1, <2>2 DEF Octet
<1> QED
  BY <1>1 DEF Bytes

LEMMA HashInit == SizesAssumption /\ Sha256Init => HashInv
  BY InitSound DEF Sha256Init, HashInv, PerContext

LEMMA HashStep == SizesAssumption /\ PiecesAssumption /\ HashInv /\ [Sha256Next]_sha256Vars => HashInv'
<1> SUFFICES ASSUME SizesAssumption, PiecesAssumption, HashInv, [Sha256Next]_sha256Vars
             PROVE  HashInv'
  OBVIOUS
<1>1. CASE UNCHANGED sha256Vars
  BY <1>1, Zenon DEF sha256Vars, HashInv
<1>2. CASE Sha256Next
  <2> PICK c \in Contexts :
        \/ mbedtls_sha256_init(c)
        \/ \E is224 \in {0, 1} : mbedtls_sha256_starts_ret(c, is224)
        \/ \E n \in Pieces : mbedtls_sha256_update_ret(c, n)
        \/ mbedtls_sha256_finish_ret(c)
        \/ \E src \in Contexts : mbedtls_sha256_clone(c, src)
        \/ mbedtls_sha256_free(c)
    BY <1>2 DEF Sha256Next
  <2>1. /\ IsContext(ctx[c]) /\ ctx[c].buffer \in Buffer /\ message[c] \in Seq(Octet)
        /\ stageOf[c] = "started" => HoldsMessage(ctx[c], message[c])
    BY DEF HashInv, ContextSound
  <2>2. /\ message = [message EXCEPT ![c] = message[c]]
        /\ output = [output EXCEPT ![c] = output[c]]
        /\ stageOf = [stageOf EXCEPT ![c] = stageOf[c]]
    BY DEF HashInv, PerContext
  <2>3. CASE mbedtls_sha256_init(c)
    <3>1. ContextSound(sha256_init, "init", message[c], output[c])
      BY <2>1, InitSound DEF ContextSound
    <3> QED
      BY <2>2, <2>3, <3>1, OneContext DEF mbedtls_sha256_init
  <2>4. ASSUME NEW is224 \in {0, 1}, mbedtls_sha256_starts_ret(c, is224)
        PROVE  HashInv'
    <3> DEFINE y == sha256_starts_ret(ctx[c], is224)
    <3>1. /\ IsContext(y) /\ y.total = <<0, 0>> /\ y.state = InitialState(is224)
          /\ y.buffer = ctx[c].buffer /\ y.is224 = is224
      BY <2>1, StartsIs
    <3>2. ctx' = [ctx EXCEPT ![c] = y]
      BY <2>4 DEF mbedtls_sha256_starts_ret, HashInv, PerContext
    <3> HIDE DEF y
    <3>3. Holds(y.buffer, y.state, InitialState(y.is224), <<>>, 0, 0)
      BY <2>1, <3>1, HoldsNothing
    <3>4. HoldsMessage(y, <<>>)
      BY <3>1, <3>3, NothingCounts DEF HoldsMessage
    <3>5. ContextSound(y, "started", <<>>, <<>>)
      BY <2>1, <3>1, <3>4 DEF ContextSound
    <3> QED
      BY <2>4, <3>2, <3>5, OneContext DEF mbedtls_sha256_starts_ret
  <2>5. ASSUME NEW n \in Pieces, mbedtls_sha256_update_ret(c, n)
        PROVE  HashInv'
    <3> DEFINE y == sha256_update_ret(ctx[c], Bytes(c, n))
    <3>1. n \in 0..WordModulus - 1 /\ n \in Nat
      BY DEF PiecesAssumption
    <3>2. Bytes(c, n) \in Seq(Octet) /\ Len(Bytes(c, n)) \in 0..WordModulus - 1
      BY <2>1, <3>1, BytesType
    <3>3. ContextSound(y, "started", message[c] \o Bytes(c, n), output[c])
      BY <2>1, <2>5, <3>2, UpdateSound DEF mbedtls_sha256_update_ret
    <3>4. /\ ctx' = [ctx EXCEPT ![c] = y]
          /\ message' = [message EXCEPT ![c] = message[c] \o Bytes(c, n)]
          /\ stageOf' = [stageOf EXCEPT ![c] = "started"]
          /\ output' = [output EXCEPT ![c] = output[c]]
      BY <2>2, <2>5, Zenon DEF mbedtls_sha256_update_ret
    <3> HIDE DEF y
    <3> QED
      BY <3>3, <3>4, OneContext
  <2>6. CASE mbedtls_sha256_finish_ret(c)
    <3> DEFINE y == sha256_finish_ret(ctx[c])
    <3>1. ContextSound(y, "finished", message[c], Output(y))
      BY <2>1, <2>6, FinishSound DEF mbedtls_sha256_finish_ret
    <3>2. /\ ctx' = [ctx EXCEPT ![c] = y]
          /\ message' = [message EXCEPT ![c] = message[c]]
          /\ stageOf' = [stageOf EXCEPT ![c] = "finished"]
      BY <2>2, <2>6, Zenon DEF mbedtls_sha256_finish_ret
    <3> HIDE DEF y
    <3>3. ctx'[c] = y
      BY <3>2 DEF HashInv, PerContext
    <3>4. output' = [output EXCEPT ![c] = Output(y)]
      BY <2>6, <3>3, Zenon DEF mbedtls_sha256_finish_ret
    <3> QED
      BY <3>1, <3>2, <3>4, OneContext
  <2>7. ASSUME NEW src \in Contexts, mbedtls_sha256_clone(c, src)
        PROVE  HashInv'
    <3>1. ContextSound(ctx[src], "started", message[src], <<>>)
      BY <2>7 DEF mbedtls_sha256_clone, HashInv, ContextSound
    <3> QED
      BY <2>7, <3>1, OneContext DEF mbedtls_sha256_clone
  <2>8. CASE mbedtls_sha256_free(c)
    <3> QED
      BY <2>8, InitSound, OneContext DEF mbedtls_sha256_free, sha256_free
  <2> QED
    BY <2>3, <2>4, <2>5, <2>6, <2>7, <2>8
<1> QED
  BY <1>1, <1>2

\* However a message is cut into pieces, in whatever order the contexts are
\* used, cloned and freed, a finished context has put out the digest of the
\* blocks of its padded message: for every size of a block and of a word, and
\* whatever a block does to the state.
THEOREM HashIsDigestOfMessage ==
    ASSUME SizesAssumption, PiecesAssumption
    PROVE  Sha256Spec => []DigestOfMessage
<1>1. Sha256Init => HashInv
  BY HashInit
<1>2. HashInv /\ [Sha256Next]_sha256Vars => HashInv'
  BY HashStep
<1>3. HashInv => DigestOfMessage
  <2> SUFFICES ASSUME HashInv, NEW c \in Contexts, stageOf[c] = "finished"
               PROVE  output[c] = Digest(ctx[c].is224, message[c])
    BY DEF DigestOfMessage, Digest
  <2> QED
    BY DEF HashInv, ContextSound
<1> QED
  BY <1>1, <1>2, <1>3, PTL DEF Sha256Spec

-----------------------------------------------------------------------------
(***************************************************************************)
(* The platform layer.  The inductive invariant: a configuration that runs *)
(* is one that was not refused, also with what was corrected in it; a      *)
(* pointer that was not set has its default, and one that was has what it  *)
(* was set to.                                                             *)
(***************************************************************************)
SetterPointers ==
    /\ \A f \in Functions :
          /\ set[f] = {} => pointer[f] = Uninit(f)
          /\ set[f] # {} =>
               set[f] = {pointer[f]} /\ pointer[f] \in Given /\ IsDeclared(f)
    /\ set["calloc"] = set["free"]

PlatformInv ==
    /\ options \subseteq Options /\ macros \subseteq Macros
    /\ stage \in {"edit", "refused", "running", "testing"}
    /\ ~Compiled => set = [f \in Functions |-> {}]
    /\ Compiled => check_config /\ Corrected = macros /\ SetterPointers
    /\ stage = "testing" => block = Called("calloc")

-----------------------------------------------------------------------------
(***************************************************************************)
(* What the correction of check_config.h does.                             *)
(***************************************************************************)
LEMMA CorrectedMacros ==
    ASSUME macros' = Corrected, options' = options
    PROVE  /\ \A f \in Functions :
                /\ Macro(f)' <=> Macro(f)
                /\ Std(f)' <=> Std(f)
                /\ AltC(f)' <=> AltC(f)
                /\ Alt(f)' <=> AltC(f)
                /\ f # "snprintf" => (Alt(f)' <=> Alt(f))
           /\ Corrected' = macros'
<1>1. \A f \in Functions :
         /\ Macro(f)' <=> Macro(f)
         /\ Std(f)' <=> Std(f)
         /\ f # "snprintf" => (Alt(f)' <=> Alt(f))
  BY DEF Corrected, Macro, Std, Alt
<1>2. Corrected' = macros'
  <2>1. CASE On("_WIN32") /\ ~Alt("snprintf") /\ ~Macro("snprintf")
    BY <2>1 DEF Corrected, On, Alt
  <2>2. CASE ~(On("_WIN32") /\ ~Alt("snprintf") /\ ~Macro("snprintf"))
    BY <2>2 DEF Corrected, On, Alt, Macro
  <2> QED
    BY <2>1, <2>2
<1>3. \A f \in Functions :
         (AltC(f)' <=> AltC(f)) /\ (Alt(f)' <=> AltC(f))
  BY <1>2 DEF AltC, Alt
<1> QED
  BY <1>1, <1>2, <1>3

\* A configuration that is accepted would be accepted again once corrected.
LEMMA CorrectedChecked ==
    ASSUME check_config, macros' = Corrected, options' = options
    PROVE  check_config'
<1>1. \A o : On(o)' <=> On(o)
  BY DEF On
<1>2. \A f \in {"printf", "fprintf", "snprintf", "exit"} : PrintingRules(f)'
  BY <1>1, CorrectedMacros DEF check_config, PrintingRules,
       Functions
<1>3. TimeRules'
  BY <1>1, CorrectedMacros DEF check_config, TimeRules,
       Functions
<1>4. MemoryRules'
  <2>1. \A f \in Memory : f \in Functions
    BY DEF Memory, Functions
  <2>2. Macro("calloc")' = Macro("free")'
    <3>1. Macro("calloc") = Macro("free")
      BY DEF check_config, MemoryRules
    <3>2. /\ Macro("calloc")' <=> Macro("calloc")
          /\ Macro("free")' <=> Macro("free")
      BY <2>1, CorrectedMacros DEF Memory
    <3> QED
      BY <3>1, <3>2 DEF Macro
  <2> QED
    BY <1>1, <2>1, <2>2, CorrectedMacros DEF check_config, MemoryRules
<1>5. SeedRules'
  BY <1>1, CorrectedMacros DEF check_config, SeedRules,
       Functions, SeedFunctions
<1> QED
  BY <1>1, <1>2, <1>3, <1>4, <1>5 DEF check_config

\* While the configuration stays, so does all that depends on nothing else.
LEMMA SameConfiguration ==
    ASSUME options' = options, macros' = macros
    PROVE  /\ check_config' = check_config
           /\ Corrected' = Corrected
           /\ \A f : /\ Uninit(f)' = Uninit(f)
                     /\ IsDeclared(f)' = IsDeclared(f)
           /\ pointer' = pointer => \A f : Called(f)' = Called(f)
<1>1. \A f : /\ On(f)' = On(f) /\ Alt(f)' = Alt(f)
             /\ Macro(f)' = Macro(f) /\ Std(f)' = Std(f)
  BY DEF On, Alt, Macro, Std
<1>2. Corrected' = Corrected
  BY <1>1, Zenon DEF Corrected
<1>3. check_config' = check_config
  <2>1. \A f : PrintingRules(f)' = PrintingRules(f)
    BY <1>1, <1>2, Zenon DEF PrintingRules, AltC
  <2>2. /\ TimeRules' = TimeRules
        /\ MemoryRules' = MemoryRules
        /\ SeedRules' = SeedRules
    BY <1>1, Zenon DEF TimeRules, MemoryRules, SeedRules
  <2> QED
    BY <1>1, <2>1, <2>2, Zenon DEF check_config
<1>4. \A f : Default(f)' = Default(f)
  BY <1>1, Zenon DEF Default
<1>5. \A f : MacroUsed(f)' = MacroUsed(f)
  BY <1>1, Zenon DEF MacroUsed
<1>6. \A f : HasPointer(f)' = HasPointer(f)
  BY <1>1, Zenon DEF HasPointer, Available
<1>7. \A f : Uninit(f)' = Uninit(f) /\ IsDeclared(f)' = IsDeclared(f)
  BY <1>4, <1>5, <1>6, Zenon DEF Uninit, IsDeclared
<1>8. pointer' = pointer => \A f : Called(f)' = Called(f)
  BY <1>1, <1>4, <1>5, <1>7, Zenon DEF Called
<1> QED
  BY <1>2, <1>3, <1>7, <1>8

\* A setter is declared for both functions of a pair, or for neither.
LEMMA PairDeclared ==
    ASSUME NEW f, NEW g,
           {f, g} \subseteq Memory \/ {f, g} \subseteq SeedFunctions
    PROVE  IsDeclared(f) = IsDeclared(g)
<1>1. CASE {f, g} \subseteq Memory
  <2>1. /\ f \in Memory /\ g \in Memory /\ f # "time" /\ g # "time"
        /\ f \notin SeedFunctions /\ g \notin SeedFunctions
    BY <1>1 DEF Memory, SeedFunctions
  <2>2. Available(f) = Available(g)
    BY <2>1 DEF Available, Memory
  <2>3. MacroUsed(f) = MacroUsed(g)
    BY <2>1 DEF MacroUsed
  <2> QED
    BY <2>1, <2>2, <2>3, Zenon DEF IsDeclared, HasPointer
<1>2. CASE {f, g} \subseteq SeedFunctions
  <2>1. /\ f \in SeedFunctions /\ g \in SeedFunctions /\ f # "time" /\ g # "time"
        /\ f \notin Memory /\ g \notin Memory
    BY <1>2 DEF Memory, SeedFunctions
  <2>2. Available(f) = Available(g)
    BY <2>1 DEF Available, SeedFunctions
  <2> QED
    BY <2>1, <2>2, Zenon DEF IsDeclared, HasPointer
<1> QED
  BY <1>1, <1>2

-----------------------------------------------------------------------------
LEMMA InitPlatformInv ==
    ASSUME StartAssumption, PlatformInit
    PROVE  PlatformInv
<1>1. PICK c \in Start : options = c.options /\ macros = c.macros
  BY DEF PlatformInit
<1>2. c \in [options : SUBSET Options, macros : SUBSET Macros]
  BY <1>1 DEF StartAssumption
<1> QED
  BY <1>1, <1>2 DEF PlatformInit, PlatformInv, Compiled

LEMMA CompileInv ==
    ASSUME PlatformInv, Compile
    PROVE  PlatformInv'
<1>1. macros' = Corrected /\ options' = options /\ check_config /\ stage' = "running"
  BY DEF Compile
<1>2. check_config' /\ Corrected' = macros'
  BY <1>1, CorrectedMacros, CorrectedChecked
<1>3. macros' \subseteq Macros
  BY <1>1 DEF PlatformInv, Corrected, Macros, Functions,
       Memory, SeedFunctions
<1>4. SetterPointers'
  <2>1. \A f \in Functions : set'[f] = {} /\ pointer'[f] = Uninit(f)'
    <3>1. \A f \in Functions : set'[f] = {}
      BY DEF Compile, PlatformInv, Compiled
    <3>2. \A f \in Functions : Uninit(f)' = Uninit(f)
      <4>1. \A o : On(o)' <=> On(o)
        BY <1>1 DEF On
      <4> QED
        BY <1>1, <4>1, CorrectedMacros DEF Uninit, Default
    <3> QED
      BY <3>1, <3>2 DEF Compile
  <2> QED
    BY <2>1 DEF SetterPointers, Functions
<1> QED
  BY <1>1, <1>2, <1>3, <1>4 DEF PlatformInv, Compiled

LEMMA SetterInv ==
    ASSUME PlatformInv, NEW f \in Functions, NEW given \in Given,
           mbedtls_platform_set(f, given)
    PROVE  PlatformInv'
<1>1. /\ options' = options /\ macros' = macros
      /\ stage = "running" /\ stage' = "running" /\ IsDeclared(f)
      /\ pointer' = [g \in Functions |->
                        IF g \in Together(f) THEN given ELSE pointer[g]]
      /\ set' = [g \in Functions |->
             IF g = f \/ \E pair \in {Memory, SeedFunctions} : {f, g} \subseteq pair
             THEN {given} ELSE set[g]]
  BY DEF mbedtls_platform_set
<1>2. \A g : g \in Together(f)
               <=> g = f \/ \E pair \in {Memory, SeedFunctions} : {f, g} \subseteq pair
  BY DEF Together, Memory, SeedFunctions
<1>3. \A g \in Together(f) : IsDeclared(g)
  BY <1>1, <1>2, PairDeclared
<1>4. /\ check_config /\ Corrected = macros /\ SetterPointers
      /\ options \subseteq Options /\ macros \subseteq Macros
  BY <1>1 DEF PlatformInv, Compiled
<1>5. SetterPointers'
  <2>1. ASSUME NEW g \in Functions
        PROVE  /\ set'[g] = {} => pointer'[g] = Uninit(g)'
               /\ set'[g] # {} =>
                    set'[g] = {pointer'[g]} /\ pointer'[g] \in Given /\ IsDeclared(g)'
    <3>1. Uninit(g)' = Uninit(g) /\ IsDeclared(g)' = IsDeclared(g)
      BY <1>1, SameConfiguration
    <3>2. CASE g \in Together(f)
      BY <1>1, <1>2, <1>3, <3>1, <3>2
    <3>3. CASE g \notin Together(f)
      BY <1>1, <1>2, <1>4, <3>1, <3>3 DEF SetterPointers
    <3> QED
      BY <3>2, <3>3
  <2>2. set'["calloc"] = set'["free"]
    <3>1. "calloc" \in Together(f) <=> "free" \in Together(f)
      BY DEF Together, Memory, SeedFunctions
    <3>2. "calloc" \in Functions /\ "free" \in Functions /\ set["calloc"] = set["free"]
      BY <1>4 DEF Functions, SetterPointers
    <3> QED
      BY <1>1, <1>2, <3>1, <3>2
  <2> QED
    BY <2>1, <2>2 DEF SetterPointers
<1> QED
  BY <1>1, <1>4, <1>5, SameConfiguration DEF PlatformInv, Compiled

LEMMA NextPlatformInv ==
    ASSUME PlatformInv, [PlatformNext]_(platformVars)
    PROVE  PlatformInv'
<1>1. ASSUME NEW o \in Options, ChangeOption(o)
      PROVE  PlatformInv'
  BY <1>1 DEF ChangeOption, PlatformInv, Compiled
<1>2. ASSUME NEW m \in Macros, ChangeMacro(m)
      PROVE  PlatformInv'
  BY <1>2 DEF ChangeMacro, PlatformInv, Compiled
<1>3. CASE Refuse
  BY <1>3 DEF Refuse, PlatformInv, Compiled
<1>4. ASSUME options' = options, macros' = macros, pointer' = pointer, set' = set, Compiled,
             stage' \in {"running", "testing"},
             stage' = "testing" => block' = Called("calloc")
      PROVE  PlatformInv'
  <2>1. SetterPointers'
    BY <1>4, SameConfiguration DEF PlatformInv, SetterPointers
  <2> QED
    BY <1>4, <2>1, SameConfiguration DEF PlatformInv, Compiled
<1>5. CASE StartSelfTest
  BY <1>4, <1>5 DEF StartSelfTest, Compiled
<1>6. CASE EndSelfTest
  BY <1>4, <1>6 DEF EndSelfTest, Compiled
<1>7. CASE UNCHANGED platformVars
  <2>1. CASE Compiled
    BY <1>4, <1>7, <2>1 DEF platformVars, Compiled, PlatformInv
  <2>2. CASE ~Compiled
    BY <1>7, <2>2 DEF platformVars, Compiled, PlatformInv
  <2> QED
    BY <2>1, <2>2
<1> QED
  BY <1>1, <1>2, <1>3, <1>5, <1>6, <1>7, CompileInv, SetterInv DEF PlatformNext

-----------------------------------------------------------------------------
(***************************************************************************)
(* What the rules of check_config.h say of each kind of macro.             *)
(***************************************************************************)
LEMMA AltDeclares ==
    ASSUME check_config, Corrected = macros,
           NEW f \in Functions \ (Memory \cup SeedFunctions), Alt(f)
    PROVE  IsDeclared(f)
<1>1. AltC(f)
  BY DEF AltC, Alt
<1>2. f \in {"printf", "fprintf", "snprintf", "exit"} \/ f = "time"
  BY DEF Functions, Memory, SeedFunctions
<1>3. On("PLATFORM_C") /\ Available(f)
  BY <1>1, <1>2 DEF check_config, PrintingRules, TimeRules,
       Available, SeedFunctions
<1> QED
  BY <1>3 DEF IsDeclared, HasPointer

LEMMA MacroCalled ==
    ASSUME check_config, Corrected = macros, NEW f \in Functions, Macro(f),
           f \in SeedFunctions => MacroUsed(f)
    PROVE  MacroUsed(f) /\ ~IsDeclared(f)
<1>1. CASE f \in Memory
  <2>1. MacroUsed(f)
    BY <1>1, Zenon DEF MacroUsed, check_config, MemoryRules,
         Macro, Memory
  <2> QED
    BY <1>1, <2>1 DEF IsDeclared
<1>2. CASE f \in SeedFunctions
  BY <1>2 DEF check_config, SeedRules, IsDeclared,
       HasPointer, Memory, SeedFunctions
<1>3. CASE f \notin Memory \cup SeedFunctions
  <2>1. f \in {"printf", "fprintf", "snprintf", "exit"} \/ f = "time"
    BY <1>3 DEF Functions, Memory, SeedFunctions
  <2>2. ~Alt(f)
    BY <2>1 DEF check_config, PrintingRules, TimeRules,
         AltC, Alt
  <2> QED
    BY <1>3, <2>2 DEF MacroUsed, IsDeclared, HasPointer
<1> QED
  BY <1>1, <1>2, <1>3

LEMMA StdDeclares ==
    ASSUME check_config, Corrected = macros, NEW f \in Functions, Std(f)
    PROVE  IsDeclared(f)
<1>1. CASE f \in Memory
  BY <1>1 DEF check_config, MemoryRules, IsDeclared,
       HasPointer, Available, MacroUsed,
     Memory, SeedFunctions
<1>2. CASE f \in SeedFunctions
  BY <1>2 DEF check_config, SeedRules, IsDeclared,
       HasPointer, Available, Memory, SeedFunctions
<1>3. CASE f \notin Memory \cup SeedFunctions
  <2>1. f \in {"printf", "fprintf", "snprintf", "exit"} \/ f = "time"
    BY <1>3 DEF Functions, Memory, SeedFunctions
  <2>2. Alt(f)
    BY <2>1 DEF check_config, PrintingRules, TimeRules,
         AltC, Alt
  <2> QED
    BY <1>3, <2>2, AltDeclares
<1> QED
  BY <1>1, <1>2, <1>3

LEMMA NoneIgnored ==
    ASSUME PlatformInv
    PROVE  NoMacroIgnored
<1> SUFFICES ASSUME Compiled, NEW m \in macros
             PROVE  LET f == m[1]
                    IN  CASE m[2] = "ALT" -> IsDeclared(f)
                          [] m[2] = "MACRO" ->
                                 IF f \in SeedFunctions /\ ~MacroUsed(f)
                                 THEN Called(f) \in {"file", "none"}
                                 ELSE Called(f) = "own macro"
                          [] m[2] = "STD" ->
                                 /\ IsDeclared(f)
                                 /\ set[f] = {} => Called(f) = "own default"
  BY Zenon DEF NoMacroIgnored
<1>1. check_config /\ Corrected = macros /\ SetterPointers /\ m \in Macros
  BY DEF PlatformInv
<1>2. PICK f \in Functions, k \in {"ALT", "MACRO", "STD"} : m = <<f, k>>
  BY <1>1 DEF Macros
<1>3. m[1] = f /\ m[2] = k
  BY <1>2
<1>4. CASE k = "ALT"
  <2>1. Alt(f) /\ f \in Functions \ (Memory \cup SeedFunctions)
    BY <1>1, <1>2, <1>4 DEF Alt, Macros
  <2> QED
    BY <1>1, <1>3, <1>4, <2>1, AltDeclares
<1>5. CASE k = "MACRO"
  <2>1. Macro(f)
    BY <1>2, <1>5 DEF Macro
  <2>2. ASSUME f \in SeedFunctions => MacroUsed(f)
        PROVE  Called(f) = "own macro"
    <3>1. MacroUsed(f) /\ ~IsDeclared(f)
      BY <1>1, <2>1, <2>2, MacroCalled
    <3> QED
      BY <3>1 DEF Called
  <2>3. ASSUME f \in SeedFunctions, ~MacroUsed(f)
        PROVE  Called(f) \in {"file", "none"}
    <3>1. ~IsDeclared(f) /\ f # "snprintf"
      BY <1>1, <2>1, <2>3 DEF check_config, SeedRules, IsDeclared,
           HasPointer, Memory, SeedFunctions
    <3> QED
      BY <2>3, <3>1 DEF Called
  <2> QED
    BY <1>3, <1>5, <2>2, <2>3
<1>6. CASE k = "STD"
  <2>1. Std(f)
    BY <1>2, <1>6 DEF Std
  <2>2. IsDeclared(f)
    BY <1>1, <2>1, StdDeclares
  <2>3. Uninit(f) = "own default"
    BY <2>1 DEF Uninit, Default
  <2>4. set[f] = {} => Called(f) = "own default"
    BY <1>1, <2>2, <2>3 DEF SetterPointers, Called
  <2> QED
    BY <1>3, <1>6, <2>2, <2>4
<1> QED
  BY <1>4, <1>5, <1>6

LEMMA EndSomewhere ==
    ASSUME PlatformInv
    PROVE  CallsEndSomewhere
<1> SUFFICES ASSUME Compiled, NEW f \in Functions, Available(f)
             PROVE  IF set[f] # {} THEN set[f] = {Called(f)}
                    ELSE Called(f) = "none" <=>
                            /\ ~IsDeclared(f) /\ ~MacroUsed(f)
                            /\ \/ f = "snprintf" /\ On("PLATFORM_NO_STD_FUNCTIONS")
                               \/ /\ f \in SeedFunctions
                                  /\ On("PLATFORM_NO_STD_FUNCTIONS") \/ ~On("FS_IO")
  BY DEF CallsEndSomewhere
<1>1. SetterPointers
  BY DEF PlatformInv
<1>2. CASE set[f] # {}
  BY <1>1, <1>2 DEF SetterPointers, Called
<1>3. CASE set[f] = {} /\ IsDeclared(f)
  <2>1. Called(f) = Uninit(f)
    BY <1>1, <1>3 DEF SetterPointers, Called
  <2> QED
    BY <1>3, <2>1 DEF Uninit
<1>4. CASE set[f] = {} /\ ~IsDeclared(f)
  <2>1. CASE MacroUsed(f)
    BY <1>4, <2>1 DEF Called
  <2>2. CASE ~MacroUsed(f) /\ f = "snprintf"
    <3>1. On("PLATFORM_C") /\ f \notin SeedFunctions /\ f \notin Memory /\ f # "time"
      BY <2>2 DEF Available, SeedFunctions, Memory
    <3>2. ~Std(f)
      <4>1. check_config /\ Corrected = macros
        BY DEF PlatformInv
      <4> QED
        BY <1>4, <4>1, StdDeclares
    <3>3. Called(f) = Default(f)
      BY <1>4, <2>2, <3>1 DEF Called
    <3>4. Default(f) = "none" <=> On("PLATFORM_NO_STD_FUNCTIONS")
      BY <3>1, <3>2 DEF Default
    <3> QED
      BY <1>4, <2>2, <3>1, <3>3, <3>4
  <2>3. CASE ~MacroUsed(f) /\ f \in SeedFunctions
    BY <1>4, <2>3 DEF Called, SeedFunctions
  <2>4. CASE ~MacroUsed(f) /\ f # "snprintf" /\ f \notin SeedFunctions
    BY <1>4, <2>4 DEF Called
  <2> QED
    BY <2>1, <2>2, <2>3, <2>4
<1> QED
  BY <1>2, <1>3, <1>4

LEMMA NoneStandard ==
    ASSUME StartAssumption, PlatformInv
    PROVE  NoStandardFunctionCalled
<1> SUFFICES ASSUME Compiled, On("PLATFORM_C"), On("PLATFORM_NO_STD_FUNCTIONS"),
                    NEW f \in Functions, Available(f),
                    HasPointer(f) \/ MacroUsed(f)
             PROVE  Called(f) \notin Standard
  BY DEF NoStandardFunctionCalled
<1>1. SetterPointers
  BY DEF PlatformInv
<1>2. CASE IsDeclared(f) /\ set[f] # {}
  BY <1>1, <1>2 DEF SetterPointers, Called, StartAssumption
<1>3. CASE IsDeclared(f) /\ set[f] = {}
  <2>1. Called(f) = Uninit(f)
    BY <1>1, <1>3 DEF SetterPointers, Called
  <2>2. Uninit(f) \in {"own default", "uninit"}
    BY DEF Uninit, Default
  <2> QED
    BY <2>1, <2>2 DEF Standard
<1>4. CASE ~IsDeclared(f)
  <2>1. MacroUsed(f)
    BY <1>4 DEF IsDeclared
  <2> QED
    BY <1>4, <2>1 DEF Called, Standard
<1> QED
  BY <1>2, <1>3, <1>4

LEMMA FreedThere ==
    ASSUME PlatformInv
    PROVE  FreedWhereAllocated
<1> DEFINE Torn == IsDeclared("free") /\ set["free"] = {} /\ Std("calloc") # Std("free")
<1> SUFFICES ASSUME stage = "testing"
             PROVE  Called("free") = Called("calloc") <=> ~Torn
  BY DEF FreedWhereAllocated, PlatformInv
<1>1. SetterPointers
  BY DEF PlatformInv, Compiled
<1>2. "calloc" \in Functions /\ "free" \in Functions /\ Memory = {"calloc", "free"}
  BY DEF Functions, Memory
<1>3. IsDeclared("free") = IsDeclared("calloc")
  BY <1>2, PairDeclared
<1>4. MacroUsed("free") = MacroUsed("calloc")
  BY Zenon DEF MacroUsed, Memory, SeedFunctions
<1>5. CASE Torn
  <2>1. /\ Called("free") = pointer["free"] /\ Called("calloc") = pointer["calloc"]
        /\ set["calloc"] = {}
    BY <1>1, <1>2, <1>3, <1>5 DEF Called, SetterPointers
  <2>2. pointer["free"] = Uninit("free") /\ pointer["calloc"] = Uninit("calloc")
    BY <1>1, <1>2, <1>5, <2>1 DEF SetterPointers
  <2>3. \A f \in Memory : Uninit(f) = "own default" <=> Std(f)
    BY <1>2 DEF Uninit, Default, SeedFunctions
  <2>4. (Std("calloc") /\ ~Std("free")) \/ (~Std("calloc") /\ Std("free"))
    BY <1>5 DEF Std
  <2> QED
    BY <1>2, <1>5, <2>1, <2>2, <2>3, <2>4
<1>6. CASE ~IsDeclared("free")
  BY <1>3, <1>4, <1>6 DEF Called, SeedFunctions
<1>7. CASE IsDeclared("free") /\ (set["free"] # {} \/ Std("calloc") = Std("free"))
  <2>1. Std("calloc") = Std("free") => Uninit("free") = Uninit("calloc")
    BY Zenon DEF Uninit, Default, SeedFunctions
  <2>2. pointer["free"] = pointer["calloc"]
    BY <1>1, <1>2, <1>7, <2>1 DEF SetterPointers
  <2> QED
    BY <1>3, <1>7, <2>2 DEF Called
<1> QED
  BY <1>5, <1>6, <1>7

-----------------------------------------------------------------------------
(***************************************************************************)
(* The invariant holds of every configuration, accepted or not.            *)
(***************************************************************************)
LEMMA PlatformInductive == StartAssumption => (PlatformSpec => []PlatformInv)
<1> SUFFICES ASSUME StartAssumption
             PROVE  PlatformSpec => []PlatformInv
  OBVIOUS
<1>1. PlatformInit => PlatformInv
  BY InitPlatformInv
<1>2. PlatformInv /\ [PlatformNext]_(platformVars) => PlatformInv'
  BY NextPlatformInv
<1> QED
  BY <1>1, <1>2, PTL DEF PlatformSpec

(***************************************************************************)
(* What check_config.h lets pass, platform.h and platform.c make of it     *)
(* what it says: an _ALT a pointer that can be set, a STD_ the default, a  *)
(* _MACRO what is called, but for one macro of the two of the seed without *)
(* the other, which is ignored (platform.h:299).  A call ends in what was  *)
(* set last, in either function of a pair, and before that in a function   *)
(* that exists, but for the names that are left undefined, which are those *)
(* CallsEndSomewhere lists; and with MBEDTLS_PLATFORM_NO_STD_FUNCTIONS in  *)
(* no standard one where there is another (config.h:176).                  *)
(***************************************************************************)
THEOREM PlatformConfigured ==
    StartAssumption => (PlatformSpec => []ConfiguredIsCalled)
<1> SUFFICES ASSUME StartAssumption
             PROVE  PlatformSpec => []ConfiguredIsCalled
  OBVIOUS
<1>1. PlatformInv => ConfiguredIsCalled
  BY NoneIgnored, EndSomewhere, NoneStandard DEF ConfiguredIsCalled
<1> QED
  BY <1>1, PlatformInductive, PTL

(***************************************************************************)
(* The self test of SHA-256 frees its buffer where it has it from, but for *)
(* the configurations with a default of their own for only one of calloc   *)
(* and free, as long as nothing is set: in these it never does             *)
(* (sha256.c:486, 553; platform.c:52-88).                                  *)
(***************************************************************************)
THEOREM PlatformFreesWhereAllocated ==
    StartAssumption => (PlatformSpec => []FreedWhereAllocated)
<1>1. PlatformInv => FreedWhereAllocated
  BY FreedThere
<1> QED
  BY <1>1, PlatformInductive, PTL

-----------------------------------------------------------------------------
(***************************************************************************)
(* The seed file.                                                          *)
(***************************************************************************)
Byte == Int \X Int

\* Bytes from the beginning of seed k, and maybe more after the whole of it.
BeginsSeed(bytes, k) ==
    /\ bytes \in Seq(Byte)
    /\ \A i \in 1..Len(bytes) : i <= Size => bytes[i] = <<k, i>>

\* A write has emptied the file before any byte is on its way into it.
WriteInv ==
    /\ progress \in {"idle", "opened", "written"}
    /\ progress # "idle" => file = <<>> /\ called = "write"
    /\ progress # "written" => pending = <<>>
    /\ BeginsSeed(pending, newest)

\* Whatever was cut off and wherever, what the file has is of the newest seed.
FileInv == newest \in Nat /\ seeds \in Nat /\ BeginsSeed(file, newest)

SeedInv == WriteInv /\ FileInv /\ WholeSeedOrNone

-----------------------------------------------------------------------------
(***************************************************************************)
(* Lemmas on beginnings of a seed.                                         *)
(***************************************************************************)
\* A seed is a sequence of as many bytes as it has.
LEMMA SeedIsSequence ==
    ASSUME SeedAssumption, NEW k \in Nat
    PROVE  /\ Seed(k) \in Seq(Byte) /\ Len(Seed(k)) = Size
           /\ \A i \in 1..Size : Seed(k)[i] = <<k, i>>
  BY DEF SeedAssumption, Seed, Byte

\* The beginning of a beginning is one.
LEMMA Beginning ==
    ASSUME NEW bytes, NEW k, BeginsSeed(bytes, k), NEW n \in 0..Len(bytes)
    PROVE  /\ BeginsSeed(SubSeq(bytes, 1, n), k)
           /\ Len(SubSeq(bytes, 1, n)) = n
<1>1. n \in Int /\ 1 \in Int /\ \A i \in 1..n : bytes[i] \in Byte
  BY DEF BeginsSeed
<1>2. /\ SubSeq(bytes, 1, n) \in Seq(Byte)
      /\ Len(SubSeq(bytes, 1, n)) = n
      /\ \A i \in 1..n : SubSeq(bytes, 1, n)[i] = bytes[i]
  BY <1>1 DEF BeginsSeed
<1> QED
  BY <1>2 DEF BeginsSeed

\* The empty sequence begins every seed.
LEMMA NothingBegins ==
    ASSUME NEW k
    PROVE  BeginsSeed(<<>>, k)
  BY DEF BeginsSeed

\* Sequence extensionality: the whole of it is the seed.
LEMMA WholeBeginning ==
    ASSUME SeedAssumption, NEW k \in Nat, NEW bytes, BeginsSeed(bytes, k),
           Len(bytes) = Size
    PROVE  bytes = Seed(k)
<1>1. bytes = [i \in 1..Size |-> bytes[i]]
  BY DEF BeginsSeed
<1>2. \A i \in 1..Size : bytes[i] = <<k, i>>
  BY DEF BeginsSeed, SeedAssumption
<1> QED
  BY <1>1, <1>2 DEF Seed

\* Into an empty file comes the beginning of what was written.
LEMMA StoredBegins ==
    ASSUME file = <<>>, NEW k, BeginsSeed(pending, k), NEW n \in 0..Len(pending)
    PROVE  BeginsSeed(Stored(n), k)
<1>1. SubSeq(file, n + 1, Len(file)) = <<>>
  BY SubSeqEmpty, n + 1 \in Int, Len(file) = 0, 0 < n + 1
<1>2. SubSeq(pending, 1, n) \in Seq(Byte)
  BY Beginning DEF BeginsSeed
<1>3. Stored(n) = SubSeq(pending, 1, n)
  BY <1>1, <1>2 DEF Stored
<1> QED
  BY <1>3, Beginning

-----------------------------------------------------------------------------
LEMMA InitSeedInv ==
    ASSUME SeedAssumption, SeedInit
    PROVE  SeedInv
<1>1. BeginsSeed(file, 0)
  <2>1. CASE file = <<>>
    BY <2>1, NothingBegins
  <2>2. CASE file = Seed(0)
    BY <2>2, SeedIsSequence DEF BeginsSeed
  <2>3. CASE file = SubSeq(Seed(0), 1, Size - 1)
    <3>1. BeginsSeed(Seed(0), 0) /\ Size - 1 \in 0..Len(Seed(0))
      BY SeedIsSequence DEF BeginsSeed, SeedAssumption
    <3> QED
      BY <2>3, <3>1, Beginning
  <2>4. CASE file = Append(Seed(0), <<0, 0>>)
    <3>1. /\ Seed(0) \in Seq(Byte) /\ Len(Seed(0)) = Size /\ Size \in Nat
          /\ \A i \in 1..Size : Seed(0)[i] = <<0, i>>
      BY SeedIsSequence DEF SeedAssumption
    <3>2. <<0, 0>> \in Byte
      BY DEF Byte
    <3>3. /\ file \in Seq(Byte) /\ Len(file) = Size + 1
          /\ \A i \in 1..Size : file[i] = Seed(0)[i]
      BY <2>4, <3>1, <3>2
    <3> QED
      BY <3>1, <3>3 DEF BeginsSeed
  <2> QED
    BY <2>1, <2>2, <2>3, <2>4 DEF SeedInit
<1> QED
  BY <1>1, NothingBegins DEF SeedInit, SeedInv, WriteInv, FileInv, WholeSeedOrNone,
     ReadReturned

LEMMA NextSeedInv ==
    ASSUME SeedAssumption, SeedInv, [SeedNext]_(seedVars)
    PROVE  SeedInv'
<1> USE DEF SeedInv, WriteInv, FileInv, WholeSeedOrNone, ReadReturned
<1>1. CASE OpenToWrite
  BY <1>1, NothingBegins DEF OpenToWrite
<1>2. CASE Write
  <2>1. PICK n \in 0..Size : pending' = SubSeq(Seed(newest), 1, n)
    BY <1>2 DEF Write
  <2>2. BeginsSeed(Seed(newest), newest) /\ Len(Seed(newest)) = Size
    BY SeedIsSequence DEF BeginsSeed
  <2>3. BeginsSeed(pending', newest)
    BY <2>1, <2>2, Beginning
  <2> QED
    BY <1>2, <2>3 DEF Write
<1>3. CASE Close
  <2>1. PICK n \in 0..Len(pending) : file' = Stored(n)
    BY <1>3 DEF Close, BeginsSeed
  <2>2. BeginsSeed(file', newest)
    BY <1>3, <2>1, StoredBegins DEF Close
  <2> QED
    BY <1>3, <2>2, NothingBegins DEF Close
<1>4. CASE Crash
  <2>1. PICK n \in 0..Len(pending) : file' = Stored(n)
    BY <1>4 DEF Crash
  <2>2. BeginsSeed(file', newest)
    BY <1>4, <2>1, StoredBegins DEF Crash
  <2> QED
    BY <1>4, <2>2, NothingBegins DEF Crash
<1>5. CASE ReadNothing
  BY <1>5, Size # -1 DEF ReadNothing, SeedAssumption
<1>6. CASE Read
  <2> DEFINE there == IF Len(file) < Size THEN Len(file) ELSE Size
             read(n) == SubSeq(file, 1, n)
  <2>1. PICK n \in 0..there :
          IF n = Size THEN buf' = read(n) /\ ret' = n
                      ELSE buf' = Short(read(n)) /\ ret' = -1
    BY <1>6 DEF Read
  <2>2. n \in 0..Len(file) /\ Len(file) \in Nat
    BY <2>1 DEF BeginsSeed, SeedAssumption
  <2>3. BeginsSeed(read(n), newest) /\ Len(read(n)) = n
    BY <2>2, Beginning
  <2>4. n = Size => buf' = Seed(newest)
    BY <2>1, <2>3, WholeBeginning
  <2>5. Size # -1
    BY DEF SeedAssumption
  <2> QED
    BY <1>6, <2>1, <2>4, <2>5 DEF Read, Short
<1>7. CASE Clear
  BY <1>7 DEF Clear
<1>8. CASE UNCHANGED seedVars
  BY <1>8 DEF seedVars
<1> QED
  BY <1>1, <1>2, <1>3, <1>4, <1>5, <1>6, <1>7, <1>8 DEF SeedNext

(***************************************************************************)
(* What mbedtls_platform_std_nv_seed_read returns as a seed is the whole   *)
(* of the one that was written last, and what it returns with an error has *)
(* no byte of a seed, however often the writes before failed or the        *)
(* process crashed in them (platform.c:236-271).                           *)
(***************************************************************************)
THEOREM SeedWholeOrNone == SeedAssumption => (SeedSpec => []WholeSeedOrNone)
<1> SUFFICES ASSUME SeedAssumption
             PROVE  SeedSpec => []WholeSeedOrNone
  OBVIOUS
<1>1. SeedInit => SeedInv
  BY InitSeedInv
<1>2. SeedInv /\ [SeedNext]_(seedVars) => SeedInv'
  BY NextSeedInv
<1>3. SeedInv => WholeSeedOrNone
  BY DEF SeedInv
<1> QED
  BY <1>1, <1>2, <1>3, PTL DEF SeedSpec
=============================================================================
