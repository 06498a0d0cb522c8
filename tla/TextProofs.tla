----------------------------- MODULE TextProofs -------------------------------
(***************************************************************************)
(* Proofs about the functions on strings: for strings, separators, formats *)
(* and files of any length each returns what its callers rely on, and so   *)
(* the calls that Runtime makes have StringsRight.                         *)
(*                                                                         *)
(* The functions are recursions over positions.  A recursive definition    *)
(* chooses a function that satisfies its equation, and says nothing unless *)
(* there is one: this is what RecursiveDefinition gives, once, for all of  *)
(* them.  Induction is over sets of numbers, which have least members.     *)
(***************************************************************************)
EXTENDS Runtime, SequenceTheorems, FiniteSetTheorems, WellFoundedInduction, TLAPS

\* A set of numbers that is not empty has a least.
LEMMA LeastOf ==
    ASSUME NEW T \in SUBSET Nat, T # {}
    PROVE  \E m \in T : \A k \in T : m <= k
<1> DEFINE R == OpToRel(<, Nat)
<1>1. \E m \in T : \A k \in T : <<k, m>> \notin R
  <2>1. IsWellFoundedOn(R, Nat)
    BY NatLessThanWellFounded
  <2> HIDE DEF R
  <2> QED
    BY <2>1, WFMin
<1>2. \A k, m \in Nat : k < m => <<k, m>> \in R
  BY DEF OpToRel
<1> HIDE DEF R
<1>3. PICK m \in T : \A k \in T : <<k, m>> \notin R
  BY <1>1
<1>4. \A k \in T : ~(k < m)
  BY <1>2, <1>3
<1>5. \A k \in T : k \in Nat /\ m \in Nat
  BY <1>3
<1>6. \A k \in T : m <= k
  BY <1>4, <1>5
<1> QED
  BY <1>6

\* Induction: a set that has 0, and n + 1 with every n, has all numbers.
LEMMA NatByInduction ==
    ASSUME NEW T \in SUBSET Nat, 0 \in T, \A n \in T : n + 1 \in T
    PROVE  T = Nat
<1> SUFFICES ASSUME T # Nat
             PROVE  FALSE
  OBVIOUS
<1>1. PICK m \in Nat \ T : \A k \in Nat \ T : m <= k
  BY LeastOf
<1>2. m # 0 /\ m - 1 \in Nat
  BY <1>1
<1>3. m - 1 \in T
  BY <1>1, <1>2
<1>4. m = (m - 1) + 1
  BY <1>1
<1> QED
  BY <1>1, <1>3, <1>4

\* What defines a function on D by recursion over smaller members: step takes the value
\* at x from those at members of lesser size.
IsRecursion(D, V, size, bound, step) ==
    /\ V # {} /\ bound \in Nat
    /\ size \in [D -> Nat] /\ \A x \in D : size[x] < bound
    /\ step \in [D \X [D -> V] -> V]
    /\ \A x \in D : \A f, g \in [D -> V] :
           (\A y \in D : size[y] < size[x] => f[y] = g[y]) => step[<<x, f>>] = step[<<x, g>>]

\* A recursion over smaller members defines a function: of the sets of members up to each
\* size, none is the least for which it does not.
LEMMA RecursiveDefinition ==
    ASSUME NEW D, NEW V, NEW size, NEW bound, NEW step, IsRecursion(D, V, size, bound, step)
    PROVE  \E f \in [D -> V] : \A x \in D : f[x] = step[<<x, f>>]
<1> USE DEF IsRecursion
<1> DEFINE Fits(f, n) == \A x \in D : size[x] < n => f[x] = step[<<x, f>>]
           T == {n \in Nat : \E f \in [D -> V] : Fits(f, n)}
<1>1. 0 \in T
  <2>1. PICK v : v \in V
    OBVIOUS
  <2>2. [x \in D |-> v] \in [D -> V]
    BY <2>1
  <2>3. \A x \in D : ~(size[x] < 0)
    OBVIOUS
  <2>4. Fits([x \in D |-> v], 0)
    BY <2>3
  <2> HIDE DEF Fits
  <2> QED
    BY <2>2, <2>4
<1>2. ASSUME NEW n \in T
      PROVE  n + 1 \in T
  <2>1. n \in Nat
    OBVIOUS
  <2>2. PICK f \in [D -> V] : Fits(f, n)
    OBVIOUS
  <2> DEFINE g == [x \in D |-> IF size[x] < n THEN f[x] ELSE step[<<x, f>>]]
  <2>3. \A x \in D : step[<<x, f>>] \in V
    BY <2>2
  <2>4. g \in [D -> V]
    BY <2>2, <2>3
  <2>5. ASSUME NEW x \in D, size[x] < n + 1
        PROVE  g[x] = step[<<x, g>>]
    <3>1. size[x] \in Nat
      OBVIOUS
    <3>2. \A y \in D : size[y] < size[x] => f[y] = g[y]
      BY <2>5, <3>1, <2>1
    <3>3. step[<<x, f>>] = step[<<x, g>>]
      <4> HIDE DEF g
      <4> QED
        BY <3>2, <2>4, <2>2
    <3>4. g[x] = step[<<x, f>>]
      BY <2>2
    <3> QED
      BY <3>3, <3>4
  <2>6. Fits(g, n + 1)
    <3> HIDE DEF g
    <3> QED
      BY <2>5
  <2> HIDE DEF g, Fits
  <2> QED
    BY <2>1, <2>4, <2>6
<1>3. T = Nat
  <2> HIDE DEF T
  <2>1. T \in SUBSET Nat
    BY DEF T
  <2> QED
    BY <1>1, <1>2, <2>1, NatByInduction
<1>4. PICK f \in [D -> V] : Fits(f, bound)
  BY <1>3
<1> QED
  BY <1>4

\* What Min chooses.
LEMMA MinOf ==
    ASSUME NEW S \in SUBSET Nat, S # {}
    PROVE  Min(S) \in S /\ \A i \in S : Min(S) <= i
<1>1. \E m \in S : \A k \in S : m <= k
  BY LeastOf
<1> QED
  BY <1>1 DEF Min

\* What Max chooses.
LEMMA MaxOf ==
    ASSUME NEW n \in Nat, NEW S \in SUBSET (0..n), S # {}
    PROVE  Max(S) \in S /\ \A i \in S : i <= Max(S)
<1> DEFINE T == {n - i : i \in S}
<1>1. T \in SUBSET Nat /\ T # {}
  <2>1. \A i \in S : n - i \in Nat
    OBVIOUS
  <2>2. PICK i : i \in S
    OBVIOUS
  <2> QED
    BY <2>1, <2>2
<1>2. PICK k \in T : \A j \in T : k <= j
  <2> HIDE DEF T
  <2> QED
    BY <1>1, LeastOf
<1>3. PICK m \in S : k = n - m
  OBVIOUS
<1>4. ASSUME NEW i \in S
      PROVE  m >= i
  <2>1. n - i \in T
    OBVIOUS
  <2>2. n - m <= n - i
    BY <1>2, <1>3, <2>1
  <2> QED
    BY <2>2
<1>5. Max(S) \in S /\ \A i \in S : Max(S) >= i
  BY <1>3, <1>4 DEF Max
<1> QED
  BY <1>5

\* What is iterated, and its results: step takes the i-th result from the one before.
Iterable(V, base, n, step) == base \in V /\ n \in Nat /\ step \in [(1..n) \X V -> V]

Iterates(acc, V, base, n, step) ==
    /\ acc \in [0..n -> V]
    /\ acc[0] = base
    /\ \A i \in 1..n : acc[i - 1] \in V /\ acc[i] = step[<<i, acc[i - 1]>>]

\* What is iterated has its results.
LEMMA Iteration ==
    ASSUME NEW V, NEW base, NEW n, NEW step, Iterable(V, base, n, step)
    PROVE  \E acc : Iterates(acc, V, base, n, step)
<1> USE DEF Iterable
<1> DEFINE T == {k \in Nat : k <= n => \E acc \in [0..k -> V] :
                    acc[0] = base /\ \A i \in 1..k : acc[i] = step[<<i, acc[i - 1]>>]}
<1>1. 0 \in T
  <2>1. [i \in 0..0 |-> base] \in [0..0 -> V]
    OBVIOUS
  <2>2. [i \in 0..0 |-> base][0] = base /\ 1..0 = {}
    OBVIOUS
  <2> QED
    BY <2>1, <2>2
<1>2. ASSUME NEW k \in T
      PROVE  k + 1 \in T
  <2>1. k \in Nat
    OBVIOUS
  <2>2. SUFFICES ASSUME k + 1 <= n
                 PROVE  \E acc \in [0..(k + 1) -> V] :
                           acc[0] = base /\ \A i \in 1..(k + 1) : acc[i] = step[<<i, acc[i - 1]>>]
    BY <2>1
  <2>3. PICK acc \in [0..k -> V] :
            acc[0] = base /\ \A i \in 1..k : acc[i] = step[<<i, acc[i - 1]>>]
    BY <2>1, <2>2
  <2> DEFINE more == [i \in 0..(k + 1) |-> IF i <= k THEN acc[i] ELSE step[<<k + 1, acc[k]>>]]
  <2>4. k + 1 \in 1..n /\ acc[k] \in V
    BY <2>1, <2>2, <2>3
  <2>5. step[<<k + 1, acc[k]>>] \in V
    BY <2>4
  <2>6. more \in [0..(k + 1) -> V]
    BY <2>1, <2>3, <2>5
  <2>7. more[0] = base
    BY <2>1, <2>3
  <2>8. ASSUME NEW i \in 1..(k + 1)
        PROVE  more[i] = step[<<i, more[i - 1]>>]
    <3>1. CASE i <= k
      <4>1. i \in 1..k /\ i - 1 \in 0..k
        BY <2>1, <3>1
      <4>2. more[i] = acc[i] /\ more[i - 1] = acc[i - 1]
        BY <2>1, <4>1
      <4> QED
        BY <2>3, <4>1, <4>2
    <3>2. CASE i = k + 1
      <4>1. more[i] = step[<<k + 1, acc[k]>>] /\ more[i - 1] = acc[k]
        BY <2>1, <3>2
      <4> QED
        BY <3>2, <4>1
    <3> QED
      BY <2>1, <3>1, <3>2
  <2> HIDE DEF more
  <2> QED
    BY <2>6, <2>7, <2>8
<1>3. n \in T
  <2> HIDE DEF T
  <2>1. T \in SUBSET Nat
    BY DEF T
  <2> QED
    BY <1>1, <1>2, <2>1, NatByInduction
<1>4. PICK acc \in [0..n -> V] : acc[0] = base /\ \A i \in 1..n : acc[i] = step[<<i, acc[i - 1]>>]
  BY <1>3
<1>5. \A i \in 1..n : acc[i - 1] \in V
  OBVIOUS
<1> QED
  BY <1>4, <1>5 DEF Iterates

\* What FlattenSeq concatenates, one sequence after the other.
Flattens(flat, C, seqs) ==
    /\ flat \in [0..Len(seqs) -> Seq(C)]
    /\ flat[0] = <<>>
    /\ \A i \in 1..Len(seqs) : flat[i - 1] \in Seq(C) /\ flat[i] = flat[i - 1] \o seqs[i]
    /\ FlattenSeq(seqs) = flat[Len(seqs)]

\* FlattenSeq concatenates the sequences, the first of them first.
LEMMA Flattening ==
    ASSUME NEW C, NEW seqs \in Seq(Seq(C))
    PROVE  \E flat : Flattens(flat, C, seqs)
<1> DEFINE n == Len(seqs)
           step == [p \in (1..n) \X Seq(C) |-> p[2] \o seqs[p[1]]]
<1>1. n \in Nat /\ \A i \in 1..n : seqs[i] \in Seq(C)
  OBVIOUS
<1>2. Iterable(Seq(C), <<>>, n, step)
  BY <1>1 DEF Iterable
<1>3. PICK flat : Iterates(flat, Seq(C), <<>>, n, step)
  BY <1>2, Iteration
<1>5. ASSUME NEW i \in 1..n
      PROVE  flat[i - 1] \in Seq(C) /\ flat[i] = flat[i - 1] \o seqs[i]
  <2>1. flat[i - 1] \in Seq(C) /\ flat[i] = step[<<i, flat[i - 1]>>]
    BY <1>3 DEF Iterates
  <2>2. step[<<i, flat[i - 1]>>] = flat[i - 1] \o seqs[i]
    BY <2>1
  <2> QED
    BY <2>1, <2>2
<1>0. flat[0] = <<>> /\ flat \in [0..n -> Seq(C)]
  BY <1>3 DEF Iterates
<1>8. 1 \in 1..n => flat[1] = <<>> \o seqs[1]
  <2>1. 1 \in 1..n => flat[1] = flat[1 - 1] \o seqs[1]
    BY ONLY <1>5
  <2>2. flat[1 - 1] = <<>>
    BY <1>0
  <2> QED
    BY <2>1, <2>2
<1> HIDE DEF step
<1>6. CASE n = 0
  <2>1. seqs = <<>>
    BY <1>6
  <2>2. FlattenSeq(seqs) = seqs
    BY <1>6 DEF FlattenSeq
  <2> QED
    BY <1>0, <1>5, <1>6, <2>1, <2>2 DEF Flattens
<1>7. CASE n # 0
  <2> DEFINE F == CHOOSE flatten : flatten = [i \in 1..Len(seqs) |->
                      IF i = 1 THEN seqs[i] ELSE flatten[i - 1] \o seqs[i]]
             w == [i \in 1..n |-> flat[i]]
  <2>1. FlattenSeq(seqs) = F[n]
    BY <1>7 DEF FlattenSeq
  <2>2. w = [i \in 1..Len(seqs) |-> IF i = 1 THEN seqs[i] ELSE w[i - 1] \o seqs[i]]
    <3>1. ASSUME NEW i \in 1..n
          PROVE  w[i] = IF i = 1 THEN seqs[i] ELSE w[i - 1] \o seqs[i]
      <4>1. CASE i = 1
        <5>1. flat[1] = <<>> \o seqs[1]
          BY <1>8, <4>1
        <5>2. <<>> \o seqs[1] = seqs[1]
          BY <1>1, <4>1
        <5> QED
          BY <4>1, <5>1, <5>2
      <4>2. CASE i # 1
        <5>1. i - 1 \in 1..n
          BY <1>1, <4>2
        <5>2. w[i - 1] = flat[i - 1] /\ w[i] = flat[i]
          BY <5>1
        <5> QED
          BY <1>5, <4>2, <5>2
      <4> QED
        BY <4>1, <4>2
    <3> QED
      BY <3>1
  <2>3. F = [i \in 1..Len(seqs) |-> IF i = 1 THEN seqs[i] ELSE F[i - 1] \o seqs[i]]
    BY <2>2
  <2> HIDE DEF F
  <2> DEFINE T == {k \in Nat : k + 1 \in 1..n => F[k + 1] = flat[k + 1]}
  <2>4. 0 \in T
    <3>1. 1 \in 1..n
      BY <1>1, <1>7
    <3>2. F[1] = seqs[1]
      BY <2>3, <3>1
    <3>3. flat[1] = <<>> \o seqs[1]
      BY <1>8, <3>1
    <3>4. <<>> \o seqs[1] = seqs[1]
      BY <1>1, <3>1
    <3> QED
      BY <3>2, <3>3, <3>4
  <2>5. ASSUME NEW k \in T
        PROVE  k + 1 \in T
    <3>1. SUFFICES ASSUME k + 2 \in 1..n
                   PROVE  F[k + 2] = flat[k + 2]
      OBVIOUS
    <3>2. k \in Nat /\ k + 1 \in 1..n /\ k + 2 # 1 /\ (k + 2) - 1 = k + 1
      BY <1>1, <3>1
    <3>3. F[k + 2] = F[k + 1] \o seqs[k + 2]
      BY <2>3, <3>1, <3>2
    <3>4. flat[k + 2] = flat[k + 1] \o seqs[k + 2]
      BY <1>5, <3>1, <3>2
    <3> QED
      BY <3>2, <3>3, <3>4
  <2>6. T = Nat
    <3> HIDE DEF T
    <3>1. T \in SUBSET Nat
      BY DEF T
    <3> QED
      BY <2>4, <2>5, <3>1, NatByInduction
  <2>7. n - 1 \in T
    <3>1. n - 1 \in Nat
      BY <1>1, <1>7
    <3> HIDE DEF T
    <3> QED
      BY <2>6, <3>1
  <2>8. F[n] = flat[n]
    BY <1>1, <1>7, <2>7
  <2> QED
    BY <1>0, <1>5, <2>1, <2>8 DEF Flattens
<1> QED
  BY <1>1, <1>6, <1>7

\* The last position of a set of them, and the others.
LEMMA MaxPosition ==
    ASSUME NEW n \in Nat, NEW S \in SUBSET (1..n), S # {}
    PROVE  Max(S) \in S /\ Max(S) \in 1..n /\ S \ {Max(S)} \in SUBSET (1..n)
<1>1. S \in SUBSET (0..n)
  OBVIOUS
<1>2. Max(S) \in S
  BY <1>1, MaxOf
<1> QED
  BY <1>2

\* The sets of the first k positions, from which the last is taken.
LEMMA FirstPositions ==
    ASSUME NEW n \in Nat
    PROVE  /\ 1..0 = {}
           /\ \A k \in 0..n : 1..k \in SUBSET (1..n)
           /\ \A k \in 1..n : /\ 1..k \in SUBSET (1..n) /\ 1..k # {}
                              /\ Max(1..k) = k /\ (1..k) \ {k} = 1..(k - 1)
<1>1. ASSUME NEW k \in 1..n
      PROVE  Max(1..k) = k
  <2>1. k \in Nat /\ 1..k \in SUBSET (0..k) /\ k \in 1..k
    OBVIOUS
  <2>2. Max(1..k) \in 1..k /\ \A i \in 1..k : i <= Max(1..k)
    BY <2>1, MaxOf
  <2> DEFINE m == Max(1..k)
  <2>3. m \in 1..k /\ k <= m
    BY <2>1, <2>2
  <2> HIDE DEF m
  <2>4. m = k
    BY <2>1, <2>3
  <2> QED
    BY <2>4 DEF m
<1>2. \A k \in 1..n : (1..k) \ {k} = 1..(k - 1) /\ k \in 1..k
  OBVIOUS
<1> QED
  BY <1>1, <1>2

\* The recursion of FoldLeft, over the sets of positions.
FoldsSets(it, V, base, n, step) ==
    \A S \in SUBSET (1..n) :
        /\ it[S] \in V
        /\ it[S] = IF S = {} THEN base ELSE step[<<Max(S), it[S \ {Max(S)}]>>]

\* The recursion of FoldLeft has a value for each set of positions.
LEMMA FoldRecursion ==
    ASSUME NEW V, NEW base, NEW n, NEW step, Iterable(V, base, n, step)
    PROVE  \E it : FoldsSets(it, V, base, n, step)
<1> USE DEF Iterable
<1> DEFINE D == SUBSET (1..n)
           size == [S \in D |-> Cardinality(S)]
           whole(S, f) == IF S = {} THEN base ELSE step[<<Max(S), f[S \ {Max(S)}]>>]
           rec == [p \in D \X [D -> V] |-> whole(p[1], p[2])]
<1>1. ASSUME NEW S \in D
      PROVE  IsFiniteSet(S) /\ Cardinality(S) \in Nat /\ Cardinality(S) <= n
  <2>1. IsFiniteSet(1..n) /\ Cardinality(1..n) = n
    <3>1. IsFiniteSet(1..n) /\ Cardinality(1..n) = IF 1 > n THEN 0 ELSE n - 1 + 1
      BY FS_Interval
    <3> QED
      BY <3>1
  <2>2. IsFiniteSet(S) /\ Cardinality(S) <= Cardinality(1..n)
    BY <2>1, FS_Subset
  <2> QED
    BY <2>1, <2>2, FS_CardinalityType
<1>2. ASSUME NEW S \in D, S # {}
      PROVE  Max(S) \in 1..n /\ S \ {Max(S)} \in D /\ size[S \ {Max(S)}] < size[S]
  <2>1. S \in SUBSET (0..n)
    OBVIOUS
  <2>2. Max(S) \in S
    BY <1>2, <2>1, MaxOf
  <2>3. Cardinality(S \ {Max(S)}) = Cardinality(S) - 1
    BY <1>1, <2>2, FS_RemoveElement
  <2>4. Max(S) \in 1..n /\ S \ {Max(S)} \in D
    BY <2>2
  <2> QED
    BY <1>1, <2>3, <2>4
<1>3. ASSUME NEW S \in D, NEW f \in [D -> V]
      PROVE  whole(S, f) \in V
  BY <1>2
<1>4. \A S \in D : \A f \in [D -> V] : rec[<<S, f>>] = whole(S, f)
  OBVIOUS
<1>5. rec \in [D \X [D -> V] -> V]
  <2> HIDE DEF whole, D
  <2> QED
    BY <1>3
<1>6. ASSUME NEW S \in D, NEW f \in [D -> V], NEW g \in [D -> V],
             \A R \in D : size[R] < size[S] => f[R] = g[R]
      PROVE  rec[<<S, f>>] = rec[<<S, g>>]
  <2>1. whole(S, f) = whole(S, g)
    BY <1>2, <1>6
  <2> QED
    BY <1>4, <2>1
<1>7. n + 1 \in Nat /\ size \in [D -> Nat] /\ \A S \in D : size[S] < n + 1
  BY <1>1
<1>8. IsRecursion(D, V, size, n + 1, rec)
  <2> HIDE DEF D, size, rec, whole
  <2> QED
    BY <1>5, <1>6, <1>7 DEF IsRecursion
<1>9. PICK it \in [D -> V] : \A S \in D : it[S] = rec[<<S, it>>]
  <2> HIDE DEF D, size, rec, whole
  <2> QED
    BY <1>8, RecursiveDefinition
<1>10. \A S \in D : it[S] \in V /\ it[S] = whole(S, it)
  BY <1>4, <1>9
<1> QED
  BY <1>10 DEF FoldsSets

-----------------------------------------------------------------------------
(***************************************************************************)
(* Cookies and the start.                                                  *)
(***************************************************************************)

\* The 16 digits, and the value of each.
LEMMA HexDigits ==
    /\ Hex \in Seq(ToSet(Hex)) /\ Len(Hex) = 16
    /\ \A i \in 0..15 : Hex[i + 1] \in ToSet(Hex) /\ Value(Hex[i + 1]) = i
<1>1. Len(Hex) = 16 /\ DOMAIN Hex = 1..16
  BY DEF Hex
<1>2. \A i, j \in 0..15 : Hex[i + 1] = Hex[j + 1] => i = j
  BY DEF Hex
<1>3. \A i \in 0..15 : i + 1 \in DOMAIN Hex
  BY <1>1
<1>4. ASSUME NEW i \in 0..15
      PROVE  Value(Hex[i + 1]) = i
  BY <1>2 DEF Value
<1>5. Hex \in Seq(ToSet(Hex))
  BY DEF Hex, ToSet
<1> QED
  BY <1>1, <1>3, <1>4, <1>5 DEF ToSet

\* A byte is the one of its two digits.
LEMMA HighAndLow ==
    ASSUME NEW b \in 0..255
    PROVE  b \div 16 \in 0..15 /\ b % 16 \in 0..15 /\ b = 16 * (b \div 16) + (b % 16)
<1>1. b \in Int /\ 0 <= b /\ b <= 255
  OBVIOUS
<1> QED
  BY <1>1, SMT

\* Two characters after s.
LEMMA TwoMore ==
    ASSUME NEW C, NEW s \in Seq(C), NEW p \in Seq(C), Len(p) = 2
    PROVE  /\ Len(s \o p) = Len(s) + 2
           /\ \A j \in 1..Len(s) : (s \o p)[j] = s[j]
           /\ (s \o p)[Len(s) + 1] = p[1] /\ (s \o p)[Len(s) + 2] = p[2]
<1>1. /\ Len(s \o p) = Len(s) + Len(p)
      /\ \A j \in 1..(Len(s) + Len(p)) : (s \o p)[j] = IF j <= Len(s) THEN s[j] ELSE p[j - Len(s)]
  BY ConcatProperties
<1> DEFINE m == Len(s)
<1>2. m \in Nat
  OBVIOUS
<1> HIDE DEF m
<1>3. \A j \in 1..(m + 2) : (s \o p)[j] = IF j <= m THEN s[j] ELSE p[j - m]
  <2>1. Len(s) + Len(p) = m + 2
    BY DEF m
  <2> QED
    BY ONLY <1>1, <2>1 DEF m
<1>4. (m + 1) - m = 1 /\ (m + 2) - m = 2
  BY <1>2
<1>5. ASSUME NEW j \in 1..m
      PROVE  (s \o p)[j] = s[j]
  <2>1. j \in 1..(m + 2) /\ j <= m
    BY <1>2
  <2> QED
    BY ONLY <1>3, <2>1
<1>6. m + 1 \in 1..(m + 2) /\ ~(m + 1 <= m) /\ m + 2 \in 1..(m + 2) /\ ~(m + 2 <= m)
  BY <1>2
<1>7. (s \o p)[m + 1] = p[(m + 1) - m] /\ (s \o p)[m + 2] = p[(m + 2) - m]
  BY ONLY <1>3, <1>6
<1> QED
  BY <1>1, <1>4, <1>5, <1>7 DEF m

\* A cookie of any bytes is read back as it was printed.
THEOREM PrintedIsRead ==
    ASSUME NEW data \in Seq(0..255)
    PROVE  FirstConCookie(to_printable(data), Len(data)) = {data}
<1> DEFINE n == Len(data)
           high(i) == data[i] \div 16
           low(i) == data[i] % 16
           pairs == [i \in DOMAIN data |-> <<Hex[data[i] \div 16 + 1], Hex[(data[i] % 16) + 1]>>]
           C == ToSet(Hex)
           printable == to_printable(data)
<1>1. n \in Nat /\ DOMAIN data = 1..n /\ \A i \in 1..n : data[i] \in 0..255
  BY LenProperties, ElementOfSeq
<1>2. ASSUME NEW i \in 1..n
      PROVE  high(i) \in 0..15 /\ low(i) \in 0..15 /\ data[i] = 16 * high(i) + low(i)
  <2>1. data[i] \in 0..255
    BY <1>1
  <2> QED
    BY <2>1, HighAndLow
<1>3. \A i \in 1..n : Hex[high(i) + 1] \in C /\ Hex[low(i) + 1] \in C
  <2> HIDE DEF high, low, C
  <2> QED
    BY <1>2, HexDigits DEF C
<1> HIDE DEF high, low
<1>4. pairs = [i \in 1..n |-> <<Hex[high(i) + 1], Hex[low(i) + 1]>>]
  BY <1>1 DEF high, low
<1>5. printable = FlattenSeq(pairs)
  BY DEF to_printable
<1> HIDE DEF pairs, C, printable
<1>6. pairs \in Seq(Seq(C)) /\ Len(pairs) = n
  BY <1>1, <1>3, <1>4
<1>7. PICK flat \in [0..n -> Seq(C)] :
          /\ flat[0] = <<>>
          /\ \A i \in 1..n : flat[i] = flat[i - 1] \o pairs[i]
          /\ printable = flat[n]
  <2>1. PICK flat : Flattens(flat, C, pairs)
    BY <1>6, Flattening
  <2> QED
    BY <1>5, <1>6, <2>1 DEF Flattens
<1> DEFINE Printed(k) ==
        /\ Len(flat[k]) = 2 * k
        /\ \A i \in 1..k : flat[k][2 * i - 1] = Hex[high(i) + 1] /\ flat[k][2 * i] = Hex[low(i) + 1]
           T == {k \in Nat : k <= n => Printed(k)}
<1>8. 0 \in T
  BY <1>7
<1>9. ASSUME NEW k \in T
      PROVE  k + 1 \in T
  <2>1. SUFFICES ASSUME k + 1 <= n
                 PROVE  Printed(k + 1)
    OBVIOUS
  <2>2. k \in Nat /\ k \in 0..n /\ k + 1 \in 1..n /\ (k + 1) - 1 = k
    BY <1>1, <2>1
  <2>3. Printed(k)
    BY <2>2
  <2> DEFINE p == <<Hex[high(k + 1) + 1], Hex[low(k + 1) + 1]>>
  <2>4. flat[k + 1] = flat[k] \o p
    BY <1>4, <1>7, <2>2
  <2>5. flat[k] \in Seq(C) /\ Len(flat[k]) = 2 * k
    BY <1>7, <2>2, <2>3
  <2>6. p \in Seq(C) /\ Len(p) = 2 /\ p[1] = Hex[high(k + 1) + 1] /\ p[2] = Hex[low(k + 1) + 1]
    BY <1>3, <2>2
  <2> HIDE DEF p
  <2>7. /\ Len(flat[k + 1]) = 2 * (k + 1)
        /\ \A j \in 1..(2 * k) : flat[k + 1][j] = flat[k][j]
        /\ flat[k + 1][2 * k + 1] = p[1] /\ flat[k + 1][2 * k + 2] = p[2]
    <3>1. 2 * k + 2 = 2 * (k + 1)
      BY <2>2
    <3>2. /\ Len(flat[k] \o p) = Len(flat[k]) + 2
          /\ \A j \in 1..Len(flat[k]) : (flat[k] \o p)[j] = flat[k][j]
          /\ (flat[k] \o p)[Len(flat[k]) + 1] = p[1] /\ (flat[k] \o p)[Len(flat[k]) + 2] = p[2]
      BY <2>5, <2>6, TwoMore
    <3> QED
      BY ONLY <2>4, <2>5, <3>1, <3>2
  <2>8. ASSUME NEW i \in 1..(k + 1)
        PROVE  /\ flat[k + 1][2 * i - 1] = Hex[high(i) + 1]
               /\ flat[k + 1][2 * i] = Hex[low(i) + 1]
    <3>1. CASE i <= k
      <4>1. i \in 1..k /\ 2 * i - 1 \in 1..(2 * k) /\ 2 * i \in 1..(2 * k)
        BY <2>2, <3>1
      <4> QED
        BY <2>3, <2>7, <4>1
    <3>2. CASE i = k + 1
      <4>1. 2 * i - 1 = 2 * k + 1 /\ 2 * i = 2 * k + 2
        BY <2>2, <3>2
      <4> QED
        BY <2>6, <2>7, <3>2, <4>1
    <3> QED
      BY <2>2, <3>1, <3>2
  <2> QED
    BY <2>7, <2>8
<1>10. Printed(n)
  <2> HIDE DEF Printed
  <2>1. T \in SUBSET Nat
    OBVIOUS
  <2>2. T = Nat
    <3> HIDE DEF T
    <3> QED
      BY <1>8, <1>9, <2>1, NatByInduction
  <2> QED
    BY <1>1, <2>2
<1>11. printable \in Seq(C) /\ Len(printable) = 2 * n
  BY <1>1, <1>7, <1>10
<1>12. ToSet(printable) \subseteq C
  BY <1>11 DEF ToSet
<1>13. ASSUME NEW i \in 1..n
       PROVE  16 * Value(printable[2 * i - 1]) + Value(printable[2 * i]) = data[i]
  <2>1. printable[2 * i - 1] = Hex[high(i) + 1] /\ printable[2 * i] = Hex[low(i) + 1]
    BY <1>7, <1>10
  <2>2. Value(printable[2 * i - 1]) = high(i) /\ Value(printable[2 * i]) = low(i)
    BY <1>2, <2>1, HexDigits
  <2> QED
    BY <1>2, <2>2
<1>14. [i \in 1..n |-> 16 * Value(printable[2 * i - 1]) + Value(printable[2 * i])] = data
  <2>1. data = [i \in 1..n |-> data[i]]
    BY <1>1
  <2> QED
    BY <1>13, <2>1
<1> QED
  BY <1>11, <1>12, <1>14 DEF FirstConCookie, C

-----------------------------------------------------------------------------
(***************************************************************************)
(* What is joined.                                                         *)
(***************************************************************************)

\* Concatenation, where only what is known of it matters.
Cat(s, t) == s \o t

\* Strings concatenated are a string.
LEMMA CatType == \A C : \A s, t \in Seq(C) : Cat(s, t) \in Seq(C) /\ Len(Cat(s, t)) = Len(s) + Len(t)
  BY ConcatProperties DEF Cat

\* The order in which they are concatenated is all that matters.
LEMMA CatAssociative ==
    \A C : \A s, t, u \in Seq(C) : Cat(Cat(s, t), u) = Cat(s, Cat(t, u))
  BY ConcatAssociative DEF Cat

\* The empty string adds nothing.
LEMMA CatEmpty == \A C : \A s \in Seq(C) : Cat(s, <<>>) = s /\ Cat(<<>>, s) = s
  BY ConcatEmptySeq DEF Cat

\* The list of r with p in front of it.
LEMMA OneBefore ==
    ASSUME NEW V, NEW p \in V, NEW r \in Seq(V)
    PROVE  /\ Cat(<<p>>, r) # <<>> /\ Head(Cat(<<p>>, r)) = p /\ Tail(Cat(<<p>>, r)) = r
           /\ \A k \in 1..Len(Cat(<<p>>, r)) :
                 Cat(<<p>>, r)[k] = p \/ \E l \in 1..Len(r) : Cat(<<p>>, r)[k] = r[l]
<1> DEFINE q == <<p>> \o r
<1>1. <<p>> \in Seq(V) /\ Len(<<p>>) = 1 /\ <<p>>[1] = p /\ Len(r) \in Nat
  OBVIOUS
<1>2. /\ q \in Seq(V) /\ Len(q) = Len(<<p>>) + Len(r)
      /\ \A i \in 1..(Len(<<p>>) + Len(r)) : q[i] = IF i <= Len(<<p>>) THEN <<p>>[i] ELSE r[i - Len(<<p>>)]
  BY <1>1, ConcatProperties
<1> HIDE DEF q
<1>3. Len(q) = 1 + Len(r) /\ \A i \in 1..(1 + Len(r)) : q[i] = IF i <= 1 THEN p ELSE r[i - 1]
  BY <1>1, <1>2
<1>4. q[1] = p
  BY <1>1, <1>3
<1>5. \A i \in 1..Len(r) : i + 1 \in 1..(1 + Len(r)) /\ q[i + 1] = r[i]
  BY <1>1, <1>3
<1>6. q # <<>> /\ Head(q) = p
  BY <1>1, <1>2, <1>3, <1>4
<1>7. /\ Tail(q) \in Seq(V) /\ Len(Tail(q)) = Len(r)
      /\ \A i \in 1..Len(Tail(q)) : Tail(q)[i] = q[i + 1]
  BY <1>1, <1>2, <1>3, <1>6, HeadTailProperties
<1>8. Tail(q) = r
  BY <1>5, <1>7, SeqEqual
<1>9. ASSUME NEW k \in 1..Len(q)
      PROVE  q[k] = p \/ \E l \in 1..Len(r) : q[k] = r[l]
  <2>1. CASE k = 1
    BY <1>4, <2>1
  <2>2. CASE k # 1
    <3>1. k - 1 \in 1..Len(r) /\ k = (k - 1) + 1
      BY <1>1, <1>3, <2>2
    <3>2. q[k] = r[k - 1]
      BY <1>5, <3>1
    <3> QED
      BY <3>1, <3>2
  <2> QED
    BY <2>1, <2>2
<1> QED
  BY <1>6, <1>8, <1>9 DEF q, Cat

Joined(base, list, sep) == FoldLeft(LAMBDA total, s : total \o sep \o s, base, list)

\* acc[i] is base followed by the first i of list, each after sep.
Joins(acc, C, base, list, sep) ==
    /\ acc \in [0..Len(list) -> Seq(C)]
    /\ acc[0] = base
    /\ \A i \in 1..Len(list) : acc[i] = Cat(Cat(acc[i - 1], sep), list[i])
    /\ Joined(base, list, sep) = acc[Len(list)]

\* string_join puts the separator between the strings, one after the other.
LEMMA Joining ==
    ASSUME NEW C, NEW base \in Seq(C), NEW list \in Seq(Seq(C)), NEW sep \in Seq(C)
    PROVE  \E acc : Joins(acc, C, base, list, sep)
<1> DEFINE n == Len(list)
           V == Seq(C)
           step == [p \in (1..n) \X V |-> p[2] \o sep \o list[p[1]]]
           D == SUBSET (1..n)
           F == CHOOSE iter : iter = [s \in SUBSET DOMAIN list |->
                    IF s = {} THEN base
                    ELSE LET x == Max(s) IN iter[s \ {x}] \o sep \o list[x]]
<1>1. n \in Nat /\ DOMAIN list = 1..n /\ \A i \in 1..n : list[i] \in Seq(C)
  BY LenProperties, ElementOfSeq
<1>2. Joined(base, list, sep) = F[1..n]
  BY <1>1 DEF Joined, FoldLeft, MapThenFoldSet
<1>3. ASSUME NEW i \in 1..n, NEW v \in V
      PROVE  step[<<i, v>>] = v \o sep \o list[i] /\ v \o sep \o list[i] \in V
  <2>1. list[i] \in Seq(C)
    BY <1>1
  <2> QED
    BY <2>1, ConcatProperties
<1>4. Iterable(V, base, n, step)
  <2>1. step \in [(1..n) \X V -> V]
    <3>1. \A p \in (1..n) \X V : p[2] \o sep \o list[p[1]] \in V
      <4> HIDE DEF V
      <4>1. ASSUME NEW p \in (1..n) \X V
            PROVE  p[1] \in 1..n /\ p[2] \in V
        OBVIOUS
      <4> QED
        BY <1>3, <4>1
    <3> QED
      BY <3>1
  <2> QED
    BY <1>1, <2>1 DEF Iterable
<1>5. PICK it : \A S \in D : it[S] \in V /\ it[S] = IF S = {} THEN base ELSE step[<<Max(S), it[S \ {Max(S)}]>>]
  <2>1. \E it : FoldsSets(it, V, base, n, step)
    <3> HIDE DEF V, step, n
    <3> QED
      BY <1>4, FoldRecursion
  <2> QED
    BY <2>1 DEF FoldsSets
<1>6. ASSUME NEW S \in D, S # {}
      PROVE  Max(S) \in 1..n /\ S \ {Max(S)} \in D
  BY <1>1, <1>6, MaxPosition
<1> DEFINE g == [S \in D |-> it[S]]
<1>7. ASSUME NEW S \in D
      PROVE  g[S] = IF S = {} THEN base ELSE g[S \ {Max(S)}] \o sep \o list[Max(S)]
  <2>1. CASE S = {}
    BY <1>5, <2>1
  <2>2. CASE S # {}
    <3>1. Max(S) \in 1..n /\ S \ {Max(S)} \in D
      BY <1>6, <2>2
    <3>2. it[S \ {Max(S)}] \in V
      BY <1>5, <3>1
    <3>3. it[S] = it[S \ {Max(S)}] \o sep \o list[Max(S)]
      <4> HIDE DEF V, step
      <4> QED
        BY <1>3, <1>5, <2>2, <3>1, <3>2
    <3> QED
      BY <2>2, <3>1, <3>3
  <2> QED
    BY <2>1, <2>2
<1>8. g = [s \in SUBSET DOMAIN list |->
              IF s = {} THEN base ELSE LET x == Max(s) IN g[s \ {x}] \o sep \o list[x]]
  <2>1. SUBSET DOMAIN list = D /\ DOMAIN g = D
    BY <1>1
  <2> HIDE DEF D
  <2>2. g = [s \in D |-> g[s]]
    OBVIOUS
  <2> HIDE DEF g
  <2> QED
    BY <1>7, <2>1, <2>2
<1>9. F = [s \in SUBSET DOMAIN list |->
              IF s = {} THEN base ELSE LET x == Max(s) IN F[s \ {x}] \o sep \o list[x]]
  <2> HIDE DEF g
  <2> QED
    BY <1>8
<1>10. ASSUME NEW S \in D
       PROVE  F[S] = IF S = {} THEN base ELSE F[S \ {Max(S)}] \o sep \o list[Max(S)]
  <2>1. S \in SUBSET DOMAIN list
    BY <1>1
  <2> HIDE DEF F
  <2> QED
    BY <1>9, <2>1
<1> HIDE DEF F, g
<1> DEFINE acc == [k \in 0..n |-> F[1..k]]
<1>11. acc[0] = base
  <2>1. 1..0 = {} /\ 1..0 \in D
    BY <1>1, FirstPositions
  <2>2. F[1..0] = base
    BY <1>10, <2>1
  <2> QED
    BY <1>1, <2>2
<1>12. ASSUME NEW k \in 1..n
       PROVE  acc[k] = acc[k - 1] \o sep \o list[k]
  <2>1. 1..k \in D /\ 1..k # {} /\ Max(1..k) = k /\ (1..k) \ {k} = 1..(k - 1)
    BY <1>1, FirstPositions
  <2>2. acc[k] = F[1..k] /\ acc[k - 1] = F[1..(k - 1)]
    BY <1>1
  <2>3. F[1..k] = F[(1..k) \ {k}] \o sep \o list[k]
    BY <1>10, <2>1
  <2> QED
    BY <2>1, <2>2, <2>3
<1> HIDE DEF acc
<1>13. \A k \in 0..n : acc[k] \in V
  <2> DEFINE T == {k \in Nat : k <= n => acc[k] \in V}
  <2>1. 0 \in T
    BY <1>11
  <2>2. ASSUME NEW k \in T
        PROVE  k + 1 \in T
    <3>1. CASE k + 1 <= n
      <4>1. k \in Nat /\ k + 1 \in 1..n /\ (k + 1) - 1 = k /\ acc[k] \in V
        BY <1>1, <3>1
      <4>2. acc[k + 1] = acc[k] \o sep \o list[k + 1]
        BY <1>12, <4>1
      <4>3. acc[k] \o sep \o list[k + 1] \in V
        BY ONLY <1>3, <4>1
      <4>4. acc[k + 1] \in V
        <5> HIDE DEF V
        <5> QED
          BY ONLY <4>2, <4>3
      <4> QED
        BY ONLY <4>1, <4>4
    <3> QED
      BY <3>1
  <2>3. T \in SUBSET Nat
    OBVIOUS
  <2>4. T = Nat
    <3> HIDE DEF T
    <3> QED
      BY <2>1, <2>2, <2>3, NatByInduction
  <2> QED
    BY <1>1, <2>4
<1>14. acc \in [0..n -> V]
  <2>1. acc = [k \in 0..n |-> acc[k]]
    BY DEF acc
  <2> HIDE DEF V
  <2> QED
    BY <1>13, <2>1
<1>15. acc[n] = F[1..n]
  BY <1>1 DEF acc
<1>16. Joined(base, list, sep) = acc[n]
  BY <1>2, <1>15
<1>17. \A i \in 1..n : acc[i] = Cat(Cat(acc[i - 1], sep), list[i])
  BY <1>12 DEF Cat
<1> HIDE DEF V
<1> QED
  BY <1>11, <1>14, <1>16, <1>17 DEF Joins, V

\* What is joined after p is what is joined without p, after p and a separator.
LEMMA JoinedAfter ==
    ASSUME NEW C, NEW p \in Seq(C), NEW list \in Seq(Seq(C)), list # <<>>, NEW sep \in Seq(C)
    PROVE  /\ Joined(Head(list), Tail(list), sep) \in Seq(C)
           /\ Joined(p, list, sep) = Cat(Cat(p, sep), Joined(Head(list), Tail(list), sep))
<1> DEFINE h == Head(list)
           t == Tail(list)
           n == Len(t)
<1>1. /\ h \in Seq(C) /\ t \in Seq(Seq(C)) /\ n \in Nat /\ Len(list) = n + 1
      /\ h = list[1] /\ \A i \in 1..n : t[i] = list[i + 1]
  BY HeadTailProperties
<1>2. PICK acc : Joins(acc, C, p, list, sep)
  BY Joining
<1> HIDE DEF h, t, n
<1>3. PICK bcc : Joins(bcc, C, h, t, sep)
  BY <1>1, Joining
<1>4. /\ acc[0] = p /\ \A i \in 1..(n + 1) : acc[i] = Cat(Cat(acc[i - 1], sep), list[i])
      /\ bcc[0] = h /\ \A i \in 0..n : bcc[i] \in Seq(C)
      /\ \A i \in 1..n : bcc[i] = Cat(Cat(bcc[i - 1], sep), t[i])
      /\ Joined(p, list, sep) = acc[n + 1] /\ Joined(h, t, sep) = bcc[n]
  BY <1>1, <1>2, <1>3 DEF Joins, n
<1> DEFINE T == {i \in Nat : i <= n => acc[i + 1] = Cat(Cat(p, sep), bcc[i])}
<1>5. 0 \in T
  <2>1. 1 \in 1..(n + 1) /\ 1 - 1 = 0
    BY <1>1
  <2>2. acc[1] = Cat(Cat(acc[1 - 1], sep), list[1])
    BY <1>4, <2>1
  <2>3. acc[0 + 1] = Cat(Cat(p, sep), bcc[0])
    BY <1>1, <1>4, <2>1, <2>2
  <2> QED
    BY <2>3
<1>6. ASSUME NEW i \in T
      PROVE  i + 1 \in T
  <2>1. CASE i + 1 <= n
    <3>1. i \in Nat /\ i <= n
      BY <1>1, <2>1
    <3>2. /\ i + 2 \in 1..(n + 1) /\ (i + 2) - 1 = i + 1
          /\ i + 1 \in 1..n /\ (i + 1) - 1 = i /\ i \in 0..n /\ (i + 1) + 1 = i + 2
      BY <1>1, <2>1, <3>1
    <3>3. acc[i + 1] = Cat(Cat(p, sep), bcc[i])
      BY <3>1
    <3>4. acc[i + 2] = Cat(Cat(acc[i + 1], sep), list[i + 2])
      BY <1>4, <3>2
    <3>5. bcc[i + 1] = Cat(Cat(bcc[i], sep), t[i + 1])
      BY <1>4, <3>2
    <3>6. t[i + 1] = list[(i + 1) + 1] /\ t[i + 1] \in Seq(C)
      BY <1>1, <3>2, ElementOfSeq DEF n
    <3>7. bcc[i] \in Seq(C)
      BY <1>4, <3>2
    <3> DEFINE ps == Cat(p, sep)
    <3>8. ps \in Seq(C)
      BY CatType
    <3> HIDE DEF ps
    <3>9. Cat(Cat(Cat(ps, bcc[i]), sep), t[i + 1]) = Cat(ps, Cat(Cat(bcc[i], sep), t[i + 1]))
      <4>1. Cat(Cat(ps, bcc[i]), sep) = Cat(ps, Cat(bcc[i], sep))
        BY <3>7, <3>8, CatAssociative
      <4>2. Cat(bcc[i], sep) \in Seq(C)
        BY <3>7, CatType
      <4> QED
        BY <3>6, <3>8, <4>1, <4>2, CatAssociative
    <3>10. acc[(i + 1) + 1] = Cat(Cat(p, sep), bcc[i + 1])
      BY <3>2, <3>3, <3>4, <3>5, <3>6, <3>9 DEF ps
    <3> QED
      BY <3>1, <3>10
  <2> QED
    BY <2>1
<1>7. n \in T
  <2>1. T \in SUBSET Nat
    OBVIOUS
  <2>2. T = Nat
    <3> HIDE DEF T
    <3> QED
      BY <1>5, <1>6, <2>1, NatByInduction
  <2> QED
    BY <1>1, <2>2
<1>8. bcc[n] \in Seq(C)
  <2>1. n \in 0..n
    BY <1>1
  <2> QED
    BY <1>4, <2>1
<1>9. acc[n + 1] = Cat(Cat(p, sep), bcc[n])
  BY <1>1, <1>7
<1> QED
  BY <1>4, <1>8, <1>9 DEF h, t

-----------------------------------------------------------------------------
(***************************************************************************)
(* What is split.                                                          *)
(***************************************************************************)

\* Where sep is found in s.
Places(s, sep, from) ==
    {i \in from..(Len(s) - Len(sep) + 1) : SubSeq(s, i, i + Len(sep) - 1) = sep}

\* rest[from] are the parts of s from there on.
Splits(rest, C, s, sep) ==
    /\ rest[1] = string_split(s, sep)
    /\ \A from \in 1..(Len(s) + 1) :
          /\ rest[from] \in Seq(Seq(C))
          /\ rest[from] = IF Places(s, sep, from) = {} THEN <<SubSeq(s, from, Len(s))>>
                          ELSE LET found == Min(Places(s, sep, from))
                               IN  Cat(<<SubSeq(s, from, found - 1)>>, rest[found + Len(sep)])

\* A part of a string, and its characters.
LEMMA PartIsSeq ==
    ASSUME NEW C, NEW s \in Seq(C), NEW i \in 1..(Len(s) + 1), NEW j \in 0..Len(s)
    PROVE  /\ SubSeq(s, i, j) \in Seq(C)
           /\ Len(SubSeq(s, i, j)) = IF i <= j THEN j - i + 1 ELSE 0
           /\ \A k \in 1..(j - i + 1) : SubSeq(s, i, j)[k] = s[i + k - 1]
<1>1. \A k \in i..j : s[k] \in C
  OBVIOUS
<1>2. i \in Int /\ j \in Int
  OBVIOUS
<1>3. \A k \in 1..(j - i + 1) : SubSeq(s, i, j)[k] = s[i + k - 1]
  OBVIOUS
<1> QED
  BY <1>1, <1>2, <1>3, SubSeqProperties

\* The first place of sep is within s, and the search goes on after it.
LEMMA FirstPlace ==
    ASSUME NEW C, NEW s \in Seq(C), NEW sep \in Seq(C), sep # <<>>,
           NEW from \in 1..(Len(s) + 1), Places(s, sep, from) # {}
    PROVE  LET found == Min(Places(s, sep, from))
           IN  /\ found \in from..(Len(s) - Len(sep) + 1)
               /\ SubSeq(s, found, found + Len(sep) - 1) = sep
               /\ found - 1 \in 0..Len(s)
               /\ found + Len(sep) \in (from + 1)..(Len(s) + 1)
               /\ \A i \in Places(s, sep, from) : found <= i
<1> DEFINE P == Places(s, sep, from)
<1>1. Len(s) \in Nat /\ Len(sep) \in Nat /\ Len(sep) >= 1
  OBVIOUS
<1>2. P \in SUBSET Nat
  BY <1>1 DEF Places
<1>3. Min(P) \in P /\ \A i \in P : Min(P) <= i
  BY <1>2, MinOf
<1> DEFINE found == Min(P)
<1> HIDE DEF found
<1>4. found \in from..(Len(s) - Len(sep) + 1) /\ SubSeq(s, found, found + Len(sep) - 1) = sep
  BY <1>3 DEF Places, found
<1>5. found - 1 \in 0..Len(s) /\ found + Len(sep) \in (from + 1)..(Len(s) + 1)
  BY <1>1, <1>4
<1> QED
  BY <1>3, <1>4, <1>5 DEF found

\* string_split splits s from each place on.
LEMMA Splitting ==
    ASSUME NEW C, NEW s \in Seq(C), NEW sep \in Seq(C), s # <<>>, sep # <<>>
    PROVE  \E rest : Splits(rest, C, s, sep)
<1> DEFINE n == Len(s)
           m == Len(sep)
           D == 1..(n + 1)
           V == Seq(Seq(C))
           P(from) == {i \in from..(n - m + 1) : SubSeq(s, i, i + m - 1) = sep}
           body(from, f) == IF P(from) = {} THEN <<SubSeq(s, from, n)>>
                            ELSE LET found == Min(P(from))
                                 IN  <<SubSeq(s, from, found - 1)>> \o f[found + m]
           size == [from \in D |-> n + 1 - from]
           step == [p \in D \X [D -> V] |-> body(p[1], p[2])]
           F == CHOOSE rest : rest = [from \in 1..(n + 1) |-> body(from, rest)]
<1>1. string_split(s, sep) = F[1]
  BY DEF string_split
<1>2. n \in Nat /\ m \in Nat /\ m >= 1 /\ n >= 1
  OBVIOUS
<1>3. ASSUME NEW from \in D, P(from) # {}
      PROVE  /\ Min(P(from)) - 1 \in 0..n
             /\ Min(P(from)) + m \in D /\ size[Min(P(from)) + m] < size[from]
  <2>1. P(from) = Places(s, sep, from)
    BY DEF Places
  <2>2. Min(P(from)) - 1 \in 0..n /\ Min(P(from)) + m \in (from + 1)..(n + 1)
    <3> HIDE DEF P
    <3> QED
      BY <1>3, <2>1, FirstPlace
  <2> HIDE DEF P
  <2> QED
    BY <1>2, <2>2
<1>4. ASSUME NEW from \in D, NEW f, P(from) # {} => f[Min(P(from)) + m] \in V
      PROVE  body(from, f) \in V
  <2>1. CASE P(from) = {}
    <3>1. SubSeq(s, from, n) \in Seq(C)
      BY <1>2, PartIsSeq
    <3>2. <<SubSeq(s, from, n)>> \in V
      BY <3>1
    <3> QED
      BY <2>1, <3>2
  <2>2. CASE P(from) # {}
    <3>1. SubSeq(s, from, Min(P(from)) - 1) \in Seq(C)
      <4> HIDE DEF P
      <4> QED
        BY <1>3, <2>2, PartIsSeq
    <3>2. <<SubSeq(s, from, Min(P(from)) - 1)>> \in V
      BY <3>1
    <3>3. <<SubSeq(s, from, Min(P(from)) - 1)>> \o f[Min(P(from)) + m] \in V
      <4> HIDE DEF P
      <4> QED
        BY <1>4, <2>2, <3>2, ConcatProperties
    <3> QED
      BY <2>2, <3>3
  <2> QED
    BY <2>1, <2>2
<1> HIDE DEF P, F, V
<1>5. \A from \in D : \A f \in [D -> V] : step[<<from, f>>] = body(from, f) /\ body(from, f) \in V
  BY <1>3, <1>4
<1>6. IsRecursion(D, V, size, n + 1, step)
  <2>1. V # {}
    <3>1. <<>> \in V
      BY DEF V
    <3> QED
      BY <3>1
  <2>2. n + 1 \in Nat /\ size \in [D -> Nat] /\ \A x \in D : size[x] < n + 1
    BY <1>2
  <2>3. step \in [D \X [D -> V] -> V]
    <3> HIDE DEF D, body
    <3> QED
      BY <1>5
  <2>4. ASSUME NEW from \in D, NEW f \in [D -> V], NEW g \in [D -> V],
               \A y \in D : size[y] < size[from] => f[y] = g[y]
        PROVE  step[<<from, f>>] = step[<<from, g>>]
    <3>1. body(from, f) = body(from, g)
      BY <1>3, <2>4
    <3> QED
      BY <1>5, <3>1
  <2> HIDE DEF D, size, step
  <2> QED
    BY <2>1, <2>2, <2>3, <2>4 DEF IsRecursion
<1>7. PICK g \in [D -> V] : \A x \in D : g[x] = step[<<x, g>>]
  <2> HIDE DEF D, size, step
  <2> QED
    BY <1>6, RecursiveDefinition
<1>8. g = [from \in 1..(n + 1) |-> body(from, g)]
  <2>1. g = [from \in D |-> g[from]]
    OBVIOUS
  <2>2. \A from \in D : g[from] = body(from, g)
    BY <1>5, <1>7
  <2> HIDE DEF body
  <2> QED
    BY <2>1, <2>2
<1>9. F = [from \in 1..(n + 1) |-> body(from, F)]
  <2> HIDE DEF body
  <2> QED
    BY <1>8 DEF F
<1>10. \A from \in D : F[from] = body(from, F)
  <2> HIDE DEF body
  <2> QED
    BY <1>9
<1> DEFINE T == {k \in Nat : \A from \in D : size[from] < k => F[from] \in V}
<1>11. 0 \in T
  BY <1>2
<1>12. ASSUME NEW k \in T
       PROVE  k + 1 \in T
  <2>1. ASSUME NEW from \in D, size[from] < k + 1
        PROVE  F[from] \in V
    <3>1. P(from) # {} => F[Min(P(from)) + m] \in V
      <4>1. SUFFICES ASSUME P(from) # {}
                     PROVE  F[Min(P(from)) + m] \in V
        OBVIOUS
      <4> DEFINE y == Min(P(from)) + m
      <4>2. y \in D /\ size[y] < size[from]
        BY <1>3, <4>1
      <4>3. size[y] \in Nat /\ size[from] \in Nat /\ k \in Nat
        BY <1>2, <4>2
      <4> HIDE DEF y, size
      <4>4. size[y] < k
        BY <2>1, <4>2, <4>3
      <4>5. F[y] \in V
        BY <4>2, <4>4
      <4> QED
        BY <4>5 DEF y
    <3>2. body(from, F) \in V
      BY <1>4, <3>1
    <3> QED
      BY <1>10, <3>2
  <2> HIDE DEF size
  <2> QED
    BY <2>1
<1>13. \A from \in D : F[from] \in V
  <2>1. T \in SUBSET Nat
    OBVIOUS
  <2>2. T = Nat
    <3> HIDE DEF T
    <3> QED
      BY <1>11, <1>12, <2>1, NatByInduction
  <2>3. n + 1 \in T
    BY <1>2, <2>2
  <2> QED
    BY <1>2, <2>3
<1>14. \A from \in D : P(from) = Places(s, sep, from)
  BY DEF P, Places
<1> QED
  BY <1>1, <1>10, <1>13, <1>14 DEF Splits, Cat, V

\* A part of a part is a part of the whole.
LEMMA PartOfPart ==
    ASSUME NEW C, NEW s \in Seq(C), NEW from \in 1..(Len(s) + 1), NEW to \in (from - 1)..Len(s),
           NEW i \in 1..(to - from + 2), NEW j \in (i - 1)..(to - from + 1)
    PROVE  SubSeq(SubSeq(s, from, to), i, j) = SubSeq(s, from + i - 1, from + j - 1)
<1> DEFINE p == SubSeq(s, from, to)
           a == SubSeq(p, i, j)
           b == SubSeq(s, from + i - 1, from + j - 1)
<1>1. Len(s) \in Nat /\ from \in Nat /\ to \in Int /\ i \in Nat /\ j \in Int
  OBVIOUS
<1>2. to \in 0..Len(s)
  BY <1>1
<1>3. p \in Seq(C) /\ Len(p) = to - from + 1 /\ \A k \in 1..(to - from + 1) : p[k] = s[from + k - 1]
  <2>1. /\ p \in Seq(C)
        /\ Len(p) = IF from <= to THEN to - from + 1 ELSE 0
        /\ \A k \in 1..(to - from + 1) : p[k] = s[from + k - 1]
    BY <1>2, PartIsSeq
  <2> QED
    BY <1>1, <2>1
<1> HIDE DEF p
<1>4. a \in Seq(C) /\ Len(a) = j - i + 1 /\ \A k \in 1..(j - i + 1) : a[k] = p[i + k - 1]
  <2>1. i \in 1..(Len(p) + 1) /\ j \in 0..Len(p)
    BY <1>1, <1>3
  <2>2. /\ a \in Seq(C)
        /\ Len(a) = IF i <= j THEN j - i + 1 ELSE 0
        /\ \A k \in 1..(j - i + 1) : a[k] = p[i + k - 1]
    BY <1>3, <2>1, PartIsSeq
  <2> QED
    BY <1>1, <2>2
<1>5. b \in Seq(C) /\ Len(b) = j - i + 1 /\ \A k \in 1..(j - i + 1) : b[k] = s[from + i - 1 + k - 1]
  <2> DEFINE x == from + i - 1
             y == from + j - 1
  <2>1. x \in 1..(Len(s) + 1) /\ y \in 0..Len(s) /\ y - x + 1 = j - i + 1 /\ (x <= y <=> i <= j)
    BY <1>1
  <2> HIDE DEF x, y
  <2>2. /\ SubSeq(s, x, y) \in Seq(C)
        /\ Len(SubSeq(s, x, y)) = IF x <= y THEN y - x + 1 ELSE 0
        /\ \A k \in 1..(y - x + 1) : SubSeq(s, x, y)[k] = s[x + k - 1]
    BY <2>1, PartIsSeq
  <2>3. /\ SubSeq(s, x, y) \in Seq(C)
        /\ Len(SubSeq(s, x, y)) = j - i + 1
        /\ \A k \in 1..(j - i + 1) : SubSeq(s, x, y)[k] = s[x + k - 1]
    BY <1>1, <2>1, <2>2
  <2> QED
    BY <2>3 DEF x, y
<1> HIDE DEF a, b
<1>6. ASSUME NEW k \in 1..Len(a)
      PROVE  a[k] = b[k]
  <2>1. k \in 1..(j - i + 1) /\ i + k - 1 \in 1..(to - from + 1)
    BY <1>1, <1>4
  <2>2. a[k] = s[from + (i + k - 1) - 1] /\ b[k] = s[from + i - 1 + k - 1]
    BY <1>3, <1>4, <1>5, <2>1
  <2>3. from + (i + k - 1) - 1 = from + i - 1 + k - 1
    BY <1>1, <2>1
  <2> QED
    BY <2>2, <2>3
<1>7. a = b
  BY <1>4, <1>5, <1>6, SeqEqual
<1> QED
  BY <1>7 DEF a, b, p

\* A part of s that ends before each place of sep does has no sep in it.
LEMMA NotWithin ==
    ASSUME NEW C, NEW s \in Seq(C), NEW sep \in Seq(C), sep # <<>>,
           NEW from \in 1..(Len(s) + 1), NEW to \in (from - 1)..Len(s),
           \A i \in Places(s, sep, from) : i + Len(sep) - 1 > to
    PROVE  ~Within(sep, SubSeq(s, from, to))
<1> DEFINE p == SubSeq(s, from, to)
           m == Len(sep)
<1>1. Len(s) \in Nat /\ from \in Nat /\ to \in 0..Len(s) /\ m \in Nat /\ m >= 1
  OBVIOUS
<1>2. Len(p) = to - from + 1
  <2>1. Len(p) = IF from <= to THEN to - from + 1 ELSE 0
    BY <1>1, PartIsSeq
  <2> QED
    BY <1>1, <2>1
<1> HIDE DEF p, m
<1>9. SUFFICES ASSUME Within(sep, p)
               PROVE  FALSE
  BY DEF p
<1>3. PICK i \in 1..(to - from + 1 - m + 1) : SubSeq(p, i, i + m - 1) = sep
  <2>1. \E i \in 1..(Len(p) - m + 1) : SubSeq(p, i, i + m - 1) = sep
    BY <1>9 DEF Within, m
  <2>2. PICK i \in 1..(Len(p) - m + 1) : SubSeq(p, i, i + m - 1) = sep
    BY <2>1
  <2>3. i \in 1..(to - from + 1 - m + 1)
    BY <1>1, <1>2
  <2> QED
    BY <2>2, <2>3, Zenon
<1>4. i \in 1..(to - from + 2) /\ i + m - 1 \in (i - 1)..(to - from + 1)
  BY <1>1
<1>5. SubSeq(p, i, i + m - 1) = SubSeq(s, from + i - 1, from + (i + m - 1) - 1)
  <2> DEFINE j == i + m - 1
  <2>1. i \in 1..(to - from + 2) /\ j \in (i - 1)..(to - from + 1)
    BY <1>4
  <2> HIDE DEF j
  <2>2. SubSeq(SubSeq(s, from, to), i, j) = SubSeq(s, from + i - 1, from + j - 1)
    BY ONLY <2>1, PartOfPart, s \in Seq(C), from \in 1..(Len(s) + 1), to \in (from - 1)..Len(s)
  <2> QED
    BY <2>2 DEF p, j
<1>6. from + (i + m - 1) - 1 = (from + i - 1) + m - 1 /\ from + i - 1 \in from..(Len(s) - m + 1)
  BY <1>1
<1>7. from + i - 1 \in Places(s, sep, from)
  BY <1>3, <1>5, <1>6 DEF Places, m
<1>8. (from + i - 1) + m - 1 > to
  BY <1>7 DEF m
<1> QED
  BY <1>1, <1>8

\* A string that is split is joined again by the separator, which is in none of the parts.
THEOREM SplitIsJoined ==
    ASSUME NEW C, NEW s \in Seq(C), NEW sep \in Seq(C), s # <<>>, sep # <<>>
    PROVE  /\ string_join(string_split(s, sep), sep) = c_str(s)
           /\ \A part \in ToSet(string_split(s, sep)) : ~Within(sep, part)
<1> DEFINE n == Len(s)
           m == Len(sep)
<1>1. n \in Nat /\ m \in Nat /\ m >= 1
  OBVIOUS
<1>2. PICK rest : Splits(rest, C, s, sep)
  BY Splitting
<1> DEFINE Right(from) ==
        /\ rest[from] # <<>>
        /\ Joined(Head(rest[from]), Tail(rest[from]), sep) = SubSeq(s, from, n)
        /\ \A k \in 1..Len(rest[from]) : ~Within(sep, rest[from][k])
           T == {k \in Nat : \A from \in 1..(n + 1) : n + 1 - from < k => Right(from)}
<1>3. 0 \in T
  BY <1>1
<1>4. ASSUME NEW from \in 1..(n + 1), Places(s, sep, from) = {}
      PROVE  Right(from)
  <2> DEFINE p == SubSeq(s, from, n)
  <2>1. p \in Seq(C)
    BY <1>1, PartIsSeq
  <2>2. rest[from] = <<p>>
    BY <1>2, <1>4 DEF Splits
  <2>3. ~Within(sep, p)
    BY <1>1, <1>4, NotWithin
  <2> HIDE DEF p
  <2>4. PICK acc : Joins(acc, C, p, <<>>, sep)
    <3>1. <<>> \in Seq(Seq(C))
      OBVIOUS
    <3> QED
      BY <2>1, <3>1, Joining
  <2>5. Joined(p, <<>>, sep) = p
    BY <2>4 DEF Joins
  <2>6. <<p>> # <<>> /\ Len(<<p>>) = 1 /\ <<p>>[1] = p /\ Head(<<p>>) = p /\ Tail(<<p>>) = <<>>
    BY <2>1
  <2>7. \A k \in 1..1 : ~Within(sep, <<p>>[k])
    BY <2>3, <2>6
  <2>8. Joined(Head(<<p>>), Tail(<<p>>), sep) = p
    BY <2>5, <2>6
  <2> QED
    BY <2>2, <2>6, <2>7, <2>8 DEF p
<1>5. ASSUME NEW from \in 1..(n + 1), Places(s, sep, from) # {},
             Right(Min(Places(s, sep, from)) + m)
      PROVE  Right(from)
  <2> DEFINE found == Min(Places(s, sep, from))
             next == found + m
             p == SubSeq(s, from, found - 1)
             r == rest[next]
  <2>1. /\ found \in from..(n - m + 1) /\ SubSeq(s, found, found + m - 1) = sep
        /\ next \in (from + 1)..(n + 1) /\ \A i \in Places(s, sep, from) : found <= i
    BY <1>5, FirstPlace
  <2>2. rest[from] = Cat(<<p>>, r) /\ r \in Seq(Seq(C))
    <3> HIDE DEF found
    <3>1. next \in 1..(n + 1)
      BY <1>1, <2>1
    <3> QED
      BY <1>2, <1>5, <3>1 DEF Splits, found
  <2>3. r # <<>> /\ Joined(Head(r), Tail(r), sep) = SubSeq(s, next, n) /\ \A k \in 1..Len(r) : ~Within(sep, r[k])
    BY <1>5
  <2> HIDE DEF found
  <2>4. found \in Nat /\ from \in Nat /\ found - 1 \in 0..n /\ found - 1 \in (from - 1)..n
    BY <1>1, <2>1
  <2>5. p \in Seq(C)
    BY <2>4, PartIsSeq
  <2>6. ~Within(sep, p)
    <3>1. ASSUME NEW i \in Places(s, sep, from)
          PROVE  i + m - 1 > found - 1
      <4>1. found <= i /\ i \in Int
        BY <2>1 DEF Places
      <4> QED
        BY <1>1, <2>4, <4>1
    <3> QED
      BY <2>4, <3>1, NotWithin
  <2>7. Cat(Cat(p, sep), SubSeq(s, next, n)) = SubSeq(s, from, n)
    <3>1. SubSeq(s, from, found - 1) \o SubSeq(s, found, found + m - 1) = SubSeq(s, from, found + m - 1)
      <4>1. found - 1 \in (from - 1)..n /\ found + m - 1 \in (found - 1)..n /\ (found - 1) + 1 = found
        BY <1>1, <2>1, <2>4
      <4> QED
        BY <4>1, ConcatAdjacentSubSeq
    <3>2. SubSeq(s, from, found + m - 1) \o SubSeq(s, next, n) = SubSeq(s, from, n)
      <4>1. found + m - 1 \in (from - 1)..n /\ n \in (found + m - 1)..n /\ (found + m - 1) + 1 = next
        BY <1>1, <2>1, <2>4
      <4> QED
        BY <4>1, ConcatAdjacentSubSeq
    <3> QED
      BY <2>1, <3>1, <3>2 DEF Cat
  <2> HIDE DEF next, p, r
  <2>8. Joined(p, r, sep) = SubSeq(s, from, n)
    <3>1. Joined(p, r, sep) = Cat(Cat(p, sep), Joined(Head(r), Tail(r), sep))
      BY <2>2, <2>3, <2>5, JoinedAfter
    <3> QED
      BY <2>3, <2>7, <3>1
  <2>9. /\ Cat(<<p>>, r) # <<>> /\ Head(Cat(<<p>>, r)) = p /\ Tail(Cat(<<p>>, r)) = r
        /\ \A k \in 1..Len(Cat(<<p>>, r)) : Cat(<<p>>, r)[k] = p \/ \E l \in 1..Len(r) : Cat(<<p>>, r)[k] = r[l]
    BY <2>2, <2>5, OneBefore
  <2> QED
    BY <2>2, <2>3, <2>6, <2>8, <2>9
<1> HIDE DEF Right
<1>6. ASSUME NEW k \in T
      PROVE  k + 1 \in T
  <2>1. ASSUME NEW from \in 1..(n + 1), n + 1 - from < k + 1
        PROVE  Right(from)
    <3>1. CASE Places(s, sep, from) = {}
      BY <1>4, <3>1
    <3>2. CASE Places(s, sep, from) # {}
      <4> DEFINE next == Min(Places(s, sep, from)) + m
      <4>1. next \in (from + 1)..(n + 1)
        BY <3>2, FirstPlace
      <4>2. k \in Nat /\ from \in Nat
        BY <1>1
      <4> HIDE DEF next
      <4>3. next \in 1..(n + 1) /\ n + 1 - next < k
        BY <1>1, <2>1, <4>1, <4>2
      <4>4. Right(next)
        BY <4>3
      <4> QED
        BY <1>5, <3>2, <4>4 DEF next
    <3> QED
      BY <3>1, <3>2
  <2> QED
    BY <2>1
<1>7. Right(1)
  <2>1. T \in SUBSET Nat
    OBVIOUS
  <2>2. T = Nat
    <3> HIDE DEF T
    <3> QED
      BY <1>3, <1>6, <2>1, NatByInduction
  <2>3. n + 1 \in T
    <3> HIDE DEF T
    <3> QED
      BY <1>1, <2>2
  <2>4. 1 \in 1..(n + 1) /\ n + 1 - 1 < n + 1
    BY <1>1
  <2> QED
    BY <2>3, <2>4
<1> DEFINE L == string_split(s, sep)
<1>8. L = rest[1] /\ L \in Seq(Seq(C))
  <2>1. 1 \in 1..(n + 1)
    BY <1>1
  <2> QED
    BY <1>2, <2>1 DEF Splits
<1>9. L # <<>> /\ Joined(Head(L), Tail(L), sep) = s /\ \A k \in 1..Len(L) : ~Within(sep, L[k])
  <2>1. SubSeq(s, 1, n) = s
    BY SubSeqFull
  <2> QED
    BY <1>7, <1>8, <2>1 DEF Right
<1> HIDE DEF L
<1>10. string_join(L, sep) = c_str(s)
  BY <1>9 DEF string_join, Joined
<1>11. DOMAIN L = 1..Len(L)
  BY <1>8
<1> QED
  BY <1>9, <1>10, <1>11 DEF L, ToSet

-----------------------------------------------------------------------------
(***************************************************************************)
(* What is formatted.                                                      *)
(***************************************************************************)

At(fmt, pos) == IF pos \in DOMAIN fmt THEN fmt[pos] ELSE "end"

\* What is put out for the rest of fmt when k arguments are used.
Rest(rest, fmt, args, pos, k) ==
    LET c    == At(fmt, pos)
        next == At(fmt, pos + 1)
    IN  CASE c = "end" -> IF k < Len(args) THEN Raised ELSE <<>>
          [] doubled(c, next) -> Cat(<<c>>, rest[<<pos + 2, k>>])
          [] c = "{" /\ next = "}" ->
                IF k < Len(args) THEN Cat(args[k + 1], rest[<<pos + 2, k + 1>>]) ELSE Raised
          [] c = "{" /\ next \notin {"{", "}"} ->
                IF k < Len(args) /\ next # "end" THEN rest[<<pos + 1, k>>] ELSE Raised
          [] c = "}" /\ ~doubled(c, next) -> Raised
          [] OTHER -> Cat(<<c>>, rest[<<pos + 1, k>>])

Formats(rest, V, fmt, args) ==
    /\ format(fmt, args) = IF Contains(rest[<<1, 0>>], "raised") THEN Raised ELSE rest[<<1, 0>>]
    /\ \A pos \in 1..(Len(fmt) + 1), k \in 0..Len(args) :
          rest[<<pos, k>>] \in V /\ rest[<<pos, k>>] = Rest(rest, fmt, args, pos, k)

\* f and g agree on what follows.
Agree(f, g, fmt, args, pos) ==
    \A q \in (pos + 1)..(Len(fmt) + 1), j \in 0..Len(args) : f[<<q, j>>] = g[<<q, j>>]

\* What is put out for the rest does not depend on what f is elsewhere.
RestOf(f, fmt, args, pos, k) ==
    \A g : Agree(f, g, fmt, args, pos) => Rest(f, fmt, args, pos, k) = Rest(g, fmt, args, pos, k)

\* The rest needs what follows only, and is a string.
LEMMA RestStep ==
    ASSUME NEW C, "raised" \in C, "end" \notin C, NEW fmt \in Seq(C), NEW args \in Seq(Seq(C)),
           NEW f, NEW pos \in 1..(Len(fmt) + 1), NEW k \in 0..Len(args),
           \A q \in (pos + 1)..(Len(fmt) + 1), j \in 0..Len(args) : f[<<q, j>>] \in Seq(C)
    PROVE  /\ Rest(f, fmt, args, pos, k) \in Seq(C)
           /\ RestOf(f, fmt, args, pos, k)
<1> SUFFICES Rest(f, fmt, args, pos, k) \in Seq(C)
             /\ \A g : Agree(f, g, fmt, args, pos) => Rest(f, fmt, args, pos, k) = Rest(g, fmt, args, pos, k)
  BY DEF RestOf
<1>0. \A g : Agree(f, g, fmt, args, pos) =>
         \A q \in (pos + 1)..(Len(fmt) + 1), j \in 0..Len(args) : f[<<q, j>>] = g[<<q, j>>]
  BY DEF Agree
<1> DEFINE c == At(fmt, pos)
           next == At(fmt, pos + 1)
<1>1. Len(fmt) \in Nat /\ Len(args) \in Nat /\ pos \in Nat /\ k \in Nat /\ DOMAIN fmt = 1..Len(fmt)
  OBVIOUS
<1>2. Raised \in Seq(C) /\ <<>> \in Seq(C)
  BY DEF Raised
<1>3. /\ c = "end" \/ (c \in C /\ pos <= Len(fmt))
      /\ next = "end" \/ (next \in C /\ pos + 1 <= Len(fmt))
  BY <1>1 DEF At
<1>4. c # "end" => <<c>> \in Seq(C) /\ pos + 1 \in (pos + 1)..(Len(fmt) + 1)
  BY <1>1, <1>3
<1>5. next # "end" => pos + 2 \in (pos + 1)..(Len(fmt) + 1)
  BY <1>1, <1>3
<1>6. k < Len(args) => args[k + 1] \in Seq(C) /\ k + 1 \in 0..Len(args)
  <2>1. k < Len(args) => k + 1 \in 1..Len(args)
    BY <1>1
  <2> QED
    BY <1>1, <2>1, ElementOfSeq
<1> HIDE DEF c, next
<1>7. \A x : Rest(x, fmt, args, pos, k) =
         CASE c = "end" -> IF k < Len(args) THEN Raised ELSE <<>>
           [] doubled(c, next) -> Cat(<<c>>, x[<<pos + 2, k>>])
           [] c = "{" /\ next = "}" ->
                 IF k < Len(args) THEN Cat(args[k + 1], x[<<pos + 2, k + 1>>]) ELSE Raised
           [] c = "{" /\ next \notin {"{", "}"} ->
                 IF k < Len(args) /\ next # "end" THEN x[<<pos + 1, k>>] ELSE Raised
           [] c = "}" /\ ~doubled(c, next) -> Raised
           [] OTHER -> Cat(<<c>>, x[<<pos + 1, k>>])
  BY DEF Rest, c, next
<1>8. CASE c = "end"
  <2>1. \A x : Rest(x, fmt, args, pos, k) = IF k < Len(args) THEN Raised ELSE <<>>
    BY <1>7, <1>8 DEF doubled
  <2> QED
    BY <1>2, <2>1
<1>9. CASE c # "end" /\ doubled(c, next)
  <2>1. \A x : Rest(x, fmt, args, pos, k) = Cat(<<c>>, x[<<pos + 2, k>>])
    BY <1>7, <1>9 DEF doubled
  <2>2. next # "end"
    BY <1>9 DEF doubled
  <2>3. f[<<pos + 2, k>>] \in Seq(C)
    BY <1>5, <2>2
  <2>4. Cat(<<c>>, f[<<pos + 2, k>>]) \in Seq(C)
    BY <1>4, <1>9, <2>3, CatType
  <2> QED
    BY <1>0, <1>1, <1>5, <2>1, <2>2, <2>4
<1>10. CASE c = "{" /\ next = "}"
  <2>1. \A x : Rest(x, fmt, args, pos, k) =
           IF k < Len(args) THEN Cat(args[k + 1], x[<<pos + 2, k + 1>>]) ELSE Raised
    BY <1>7, <1>10 DEF doubled
  <2>2. CASE k < Len(args)
    <3>1. f[<<pos + 2, k + 1>>] \in Seq(C)
      BY <1>5, <1>6, <1>10, <2>2
    <3>2. Cat(args[k + 1], f[<<pos + 2, k + 1>>]) \in Seq(C)
      BY <1>6, <2>2, <3>1, CatType
    <3> QED
      BY <1>0, <1>5, <1>6, <1>10, <2>1, <2>2, <3>2
  <2>3. CASE ~(k < Len(args))
    BY <1>2, <2>1, <2>3
  <2> QED
    BY <2>2, <2>3
<1>11. CASE c = "{" /\ next \notin {"{", "}"}
  <2>1. \A x : Rest(x, fmt, args, pos, k) =
           IF k < Len(args) /\ next # "end" THEN x[<<pos + 1, k>>] ELSE Raised
    BY <1>7, <1>11 DEF doubled
  <2>2. f[<<pos + 1, k>>] \in Seq(C)
    BY <1>4, <1>11
  <2> QED
    BY <1>0, <1>1, <1>2, <1>4, <1>11, <2>1, <2>2
<1>12. CASE c = "}" /\ ~doubled(c, next)
  <2>1. \A x : Rest(x, fmt, args, pos, k) = Raised
    BY <1>7, <1>12 DEF doubled
  <2> QED
    BY <1>2, <2>1
<1>13. CASE c \notin {"end", "{", "}"}
  <2>1. \A x : Rest(x, fmt, args, pos, k) = Cat(<<c>>, x[<<pos + 1, k>>])
    BY <1>7, <1>13 DEF doubled
  <2>2. f[<<pos + 1, k>>] \in Seq(C)
    BY <1>4, <1>13
  <2>3. Cat(<<c>>, f[<<pos + 1, k>>]) \in Seq(C)
    BY <1>4, <1>13, <2>2, CatType
  <2> QED
    BY <1>0, <1>1, <1>4, <1>13, <2>1, <2>3
<1> QED
  BY <1>8, <1>9, <1>10, <1>11, <1>12, <1>13 DEF doubled

\* format puts out something for the rest of fmt, from each place with each count.
LEMMA Formatting ==
    ASSUME NEW C, "raised" \in C, "end" \notin C, NEW fmt \in Seq(C), NEW args \in Seq(Seq(C))
    PROVE  \E rest : Formats(rest, Seq(C), fmt, args)
<1> DEFINE n == Len(fmt)
           m == Len(args)
           D == (1..(n + 1)) \X (0..m)
           V == Seq(C)
           at(pos) == IF pos \in DOMAIN fmt THEN fmt[pos] ELSE "end"
           F == CHOOSE rest : rest = [p \in (1..(Len(fmt) + 1)) \X (0..Len(args)) |->
                    LET pos == p[1]
                        k   == p[2]
                    IN  CASE at(pos) = "end" -> IF k < Len(args) THEN Raised ELSE <<>>
                          [] doubled(at(pos), at(pos + 1)) -> <<at(pos)>> \o rest[<<pos + 2, k>>]
                          [] at(pos) = "{" /\ at(pos + 1) = "}" ->
                                IF k < Len(args) THEN args[k + 1] \o rest[<<pos + 2, k + 1>>] ELSE Raised
                          [] at(pos) = "{" /\ at(pos + 1) \notin {"{", "}"} ->
                                IF k < Len(args) /\ at(pos + 1) # "end" THEN rest[<<pos + 1, k>>]
                                ELSE Raised
                          [] at(pos) = "}" /\ ~doubled(at(pos), at(pos + 1)) -> Raised
                          [] OTHER -> <<at(pos)>> \o rest[<<pos + 1, k>>]]
           G == CHOOSE rest : rest = [p \in D |-> Rest(rest, fmt, args, p[1], p[2])]
           size == [p \in D |-> n + 1 - p[1]]
           step == [p \in D \X [D -> V] |-> Rest(p[2], fmt, args, p[1][1], p[1][2])]
<1>1. format(fmt, args) = IF Contains(F[<<1, 0>>], "raised") THEN Raised ELSE F[<<1, 0>>]
  BY DEF format
<1>2. F = G
  BY DEF Rest, At, Cat
<1> HIDE DEF F
<1>3. n \in Nat /\ m \in Nat
  OBVIOUS
<1>4. ASSUME NEW pos \in 1..(n + 1), NEW k \in 0..m, NEW f,
             \A q \in (pos + 1)..(n + 1), j \in 0..m : f[<<q, j>>] \in V
      PROVE  Rest(f, fmt, args, pos, k) \in V /\ RestOf(f, fmt, args, pos, k)
  BY <1>4, RestStep
<1>5. ASSUME NEW p \in D, NEW f \in [D -> V]
      PROVE  step[<<p, f>>] = Rest(f, fmt, args, p[1], p[2]) /\ Rest(f, fmt, args, p[1], p[2]) \in V
  <2>1. p[1] \in 1..(n + 1) /\ p[2] \in 0..m
    OBVIOUS
  <2>2. \A q \in (p[1] + 1)..(n + 1), j \in 0..m : f[<<q, j>>] \in V
    BY <1>3, <2>1
  <2> QED
    BY <1>4, <2>1, <2>2
<1>6. IsRecursion(D, V, size, n + 1, step)
  <2>1. V # {}
    <3>1. <<>> \in V
      OBVIOUS
    <3> QED
      BY <3>1
  <2>2. n + 1 \in Nat /\ size \in [D -> Nat] /\ \A x \in D : size[x] < n + 1
    BY <1>3
  <2>3. step \in [D \X [D -> V] -> V]
    <3> HIDE DEF D, V
    <3> QED
      BY <1>5
  <2>4. ASSUME NEW p \in D, NEW f \in [D -> V], NEW g \in [D -> V],
               \A y \in D : size[y] < size[p] => f[y] = g[y]
        PROVE  step[<<p, f>>] = step[<<p, g>>]
    <3>1. p[1] \in 1..(n + 1) /\ p[2] \in 0..m
      OBVIOUS
    <3>2. \A q \in (p[1] + 1)..(n + 1), j \in 0..m : <<q, j>> \in D /\ size[<<q, j>>] < size[p]
      BY <1>3, <3>1
    <3>3. \A q \in (p[1] + 1)..(n + 1), j \in 0..m : f[<<q, j>>] \in V /\ f[<<q, j>>] = g[<<q, j>>]
      <4> HIDE DEF size, D
      <4> QED
        BY <2>4, <3>2
    <3>4. Rest(f, fmt, args, p[1], p[2]) = Rest(g, fmt, args, p[1], p[2])
      <4>1. \A q \in (p[1] + 1)..(n + 1), j \in 0..m : f[<<q, j>>] \in V
        BY <3>3
      <4>2. Agree(f, g, fmt, args, p[1])
        BY <3>3 DEF Agree
      <4>3. RestOf(f, fmt, args, p[1], p[2])
        BY <1>4, <3>1, <4>1
      <4> QED
        BY <4>2, <4>3 DEF RestOf
    <3> HIDE DEF step
    <3> QED
      BY <1>5, <3>4
  <2> HIDE DEF D, size, step, V
  <2> QED
    BY <2>1, <2>2, <2>3, <2>4 DEF IsRecursion
<1>7. PICK g \in [D -> V] : \A x \in D : g[x] = step[<<x, g>>]
  <2> HIDE DEF D, size, step, V
  <2> QED
    BY <1>6, RecursiveDefinition
<1>8. g = [p \in D |-> Rest(g, fmt, args, p[1], p[2])]
  <2>1. g = [p \in D |-> g[p]]
    OBVIOUS
  <2>2. \A p \in D : g[p] = Rest(g, fmt, args, p[1], p[2])
    <3> HIDE DEF step
    <3> QED
      BY <1>5, <1>7
  <2> QED
    BY <2>1, <2>2
<1>9. G = [p \in D |-> Rest(G, fmt, args, p[1], p[2])]
  BY <1>8
<1> HIDE DEF G
<1>10. \A pos \in 1..(n + 1), k \in 0..m : G[<<pos, k>>] = Rest(G, fmt, args, pos, k)
  <2>1. ASSUME NEW pos \in 1..(n + 1), NEW k \in 0..m
        PROVE  G[<<pos, k>>] = Rest(G, fmt, args, pos, k)
    <3>1. <<pos, k>> \in D /\ <<pos, k>>[1] = pos /\ <<pos, k>>[2] = k
      OBVIOUS
    <3> HIDE DEF D
    <3> QED
      BY <1>9, <3>1
  <2> QED
    BY <2>1
<1> DEFINE T == {l \in Nat : \A pos \in 1..(n + 1), k \in 0..m : n + 1 - pos < l => G[<<pos, k>>] \in V}
<1>11. 0 \in T
  BY <1>3
<1>12. ASSUME NEW l \in T
       PROVE  l + 1 \in T
  <2>1. ASSUME NEW pos \in 1..(n + 1), NEW k \in 0..m, n + 1 - pos < l + 1
        PROVE  G[<<pos, k>>] \in V
    <3>1. \A q \in (pos + 1)..(n + 1), j \in 0..m : G[<<q, j>>] \in V
      <4>1. \A q \in (pos + 1)..(n + 1) : q \in 1..(n + 1) /\ n + 1 - q < l
        BY <1>3, <2>1
      <4> HIDE DEF V
      <4> QED
        BY <4>1
    <3>2. Rest(G, fmt, args, pos, k) \in V
      BY <1>4, <3>1
    <3> QED
      BY <1>10, <3>2
  <2> HIDE DEF V
  <2> QED
    BY <2>1
<1>13. \A pos \in 1..(n + 1), k \in 0..m : G[<<pos, k>>] \in V
  <2>1. T \in SUBSET Nat
    OBVIOUS
  <2>2. T = Nat
    <3> HIDE DEF T
    <3> QED
      BY <1>11, <1>12, <2>1, NatByInduction
  <2>3. n + 1 \in T
    <3> HIDE DEF T
    <3> QED
      BY <1>3, <2>2
  <2>4. \A pos \in 1..(n + 1) : n + 1 - pos < n + 1
    BY <1>3
  <2> HIDE DEF V
  <2> QED
    BY <2>3, <2>4
<1> QED
  BY <1>1, <1>2, <1>10, <1>13 DEF Formats

\* A position, where an argument is put.
IsHole(t) == t = <<"{", "}">>

\* The positions among the first i pieces of a format string, and what a piece stands for.
Before(fmt, i) == Cardinality({j \in 1..i : fmt[j] = <<"{", "}">>})

PutFor(fmt, args, i) ==
    CASE fmt[i] = <<"{", "}">> -> args[Before(fmt, i)]
      [] fmt[i] \in {<<"{", "{">>, <<"}", "}">>} -> <<Head(fmt[i])>>
      [] OTHER -> fmt[i]

\* How many of X there are up to i.
Upto(X, i) == Cardinality({j \in 1..i : j \in X})

\* Counting goes up by one at each member, and nowhere else.
LEMMA CountingUpto ==
    ASSUME NEW X, NEW n \in Nat
    PROVE  /\ Upto(X, 0) = 0
           /\ \A i \in 0..n : Upto(X, i) \in Nat /\ Upto(X, i) <= Upto(X, n)
           /\ \A i \in 1..n : Upto(X, i) = IF i \in X THEN Upto(X, i - 1) + 1
                                               ELSE Upto(X, i - 1)
<1> DEFINE pos(j) == j \in X
           S(i) == {j \in 1..i : pos(j)}
<1> HIDE DEF pos
<1>1. \A i \in 0..n : IsFiniteSet(S(i)) /\ Cardinality(S(i)) \in Nat
  <2>1. ASSUME NEW i \in 0..n
        PROVE  IsFiniteSet(S(i))
    <3>1. IsFiniteSet(1..i)
      <4>1. 1 \in Int /\ i \in Int
        OBVIOUS
      <4> QED
        BY <4>1, FS_Interval
    <3>2. S(i) \in SUBSET (1..i)
      OBVIOUS
    <3> QED
      BY <3>1, <3>2, FS_Subset
  <2> HIDE DEF S
  <2> QED
    BY <2>1, FS_CardinalityType
<1>2. S(0) = {}
  OBVIOUS
<1>3. \A i \in 0..n : S(i) \in SUBSET S(n)
  OBVIOUS
<1>4. \A i \in 1..n : S(i) = IF pos(i) THEN S(i - 1) \cup {i} ELSE S(i - 1)
  OBVIOUS
<1>5. \A i \in 1..n : i \notin S(i - 1) /\ i - 1 \in 0..n
  OBVIOUS
<1>6. n \in 0..n
  OBVIOUS
<1>7. \A i : Upto(X, i) = Cardinality(S(i))
  BY DEF Upto, pos
<1> HIDE DEF S
<1>8. Cardinality(S(0)) = 0
  BY <1>2, FS_EmptySet
<1>9. \A i \in 0..n : Cardinality(S(i)) <= Cardinality(S(n))
  BY <1>1, <1>3, <1>6, FS_Subset
<1>10. ASSUME NEW i \in 1..n
       PROVE  Cardinality(S(i)) = IF pos(i) THEN Cardinality(S(i - 1)) + 1
                                  ELSE Cardinality(S(i - 1))
  <2>1. Cardinality(S(i - 1) \cup {i}) = Cardinality(S(i - 1)) + 1
    BY <1>1, <1>5, FS_AddElement
  <2> QED
    BY <1>4, <2>1
<1> QED
  BY <1>1, <1>7, <1>8, <1>9, <1>10 DEF pos

\* The positions are counted one by one.
LEMMA Counting ==
    ASSUME NEW fmt, NEW n \in Nat
    PROVE  /\ Before(fmt, 0) = 0
           /\ \A i \in 0..n : Before(fmt, i) \in Nat /\ Before(fmt, i) <= Before(fmt, n)
           /\ \A i \in 1..n : Before(fmt, i) = IF IsHole(fmt[i]) THEN Before(fmt, i - 1) + 1
                                               ELSE Before(fmt, i - 1)
<1> DEFINE X == {j \in Nat : IsHole(fmt[j])}
<1>1. \A i \in Nat : Before(fmt, i) = Upto(X, i)
  <2>1. ASSUME NEW i \in Nat
        PROVE  {j \in 1..i : IsHole(fmt[j])} = {j \in 1..i : j \in X}
    OBVIOUS
  <2>2. \A i : Before(fmt, i) = Cardinality({j \in 1..i : IsHole(fmt[j])})
    BY DEF Before, IsHole
  <2> HIDE DEF X
  <2> QED
    BY <2>1, <2>2 DEF Upto
<1>2. \A i \in 1..n : i \in X <=> IsHole(fmt[i])
  OBVIOUS
<1> HIDE DEF X
<1>3. /\ Upto(X, 0) = 0
      /\ \A i \in 0..n : Upto(X, i) \in Nat /\ Upto(X, i) <= Upto(X, n)
      /\ \A i \in 1..n : Upto(X, i) = IF i \in X THEN Upto(X, i - 1) + 1 ELSE Upto(X, i - 1)
  BY CountingUpto
<1>4. \A i \in 1..n : i \in Nat /\ i - 1 \in Nat
  OBVIOUS
<1>5. \A i \in 0..n : i \in Nat
  OBVIOUS
<1> QED
  BY <1>1, <1>2, <1>3, <1>4, <1>5

\* t comes after the first characters of s.
IsAt(s, before, t) == /\ before + Len(t) <= Len(s)
                      /\ \A j \in 1..Len(t) : s[before + j] = t[j]

\* Each of the n pieces is where those before it end.
InPlaces(flat, seqs, n) ==
    \A i \in 1..n : /\ Len(flat[i]) = Len(flat[i - 1]) + Len(seqs[i])
                    /\ IsAt(flat[n], Len(flat[i - 1]), seqs[i])

\* A concatenation has its pieces one after the other.
LEMMA Pieces ==
    ASSUME NEW C, NEW seqs \in Seq(Seq(C)), NEW flat, Flattens(flat, C, seqs)
    PROVE  InPlaces(flat, seqs, Len(seqs))
<1> DEFINE n == Len(seqs)
           s == flat[n]
<1>1. n \in Nat /\ \A i \in 1..n : seqs[i] \in Seq(C)
  OBVIOUS
<1>2. \A i \in 0..n : flat[i] \in Seq(C) /\ Len(flat[i]) \in Nat
  <2>1. \A i \in 0..n : flat[i] \in Seq(C)
    BY DEF Flattens
  <2> QED
    BY <2>1
<1>10. \A i : i \in 0..n => Len(flat[i]) \in Nat
  BY <1>2
<1>9. Flattens(flat, C, seqs) /\ n = Len(seqs)
  OBVIOUS
<1> HIDE DEF n
<1>3. ASSUME NEW i \in 1..n
      PROVE  /\ Len(flat[i]) = Len(flat[i - 1]) + Len(seqs[i])
             /\ \A j \in 1..Len(flat[i - 1]) : flat[i][j] = flat[i - 1][j]
             /\ \A j \in 1..Len(seqs[i]) : flat[i][Len(flat[i - 1]) + j] = seqs[i][j]
             /\ Len(seqs[i]) \in Nat
  <2> DEFINE a == flat[i - 1]
             t == seqs[i]
  <2>1. a \in Seq(C) /\ t \in Seq(C) /\ flat[i] = a \o t
    BY <1>1, <1>9 DEF Flattens
  <2> HIDE DEF a, t
  <2>2. /\ Len(a \o t) = Len(a) + Len(t)
        /\ \A j \in 1..(Len(a) + Len(t)) : (a \o t)[j] = IF j <= Len(a) THEN a[j] ELSE t[j - Len(a)]
    BY <2>1, ConcatProperties
  <2>3. Len(a) \in Nat /\ Len(t) \in Nat
    BY <2>1
  <2>4. \A j \in 1..Len(t) : Len(a) + j \in 1..(Len(a) + Len(t)) /\ ~(Len(a) + j <= Len(a)) /\ (Len(a) + j) - Len(a) = j
    BY <2>3
  <2>5. \A j \in 1..Len(a) : j \in 1..(Len(a) + Len(t)) /\ j <= Len(a)
    BY <2>3
  <2>6. \A j \in 1..Len(t) : (a \o t)[Len(a) + j] = t[j]
    BY <2>2, <2>4
  <2>7. \A j \in 1..Len(a) : (a \o t)[j] = a[j]
    BY <2>2, <2>5
  <2> QED
    BY <2>1, <2>2, <2>3, <2>6, <2>7 DEF a, t
<1> DEFINE Inside(i) == Len(flat[i]) <= Len(s) /\ \A j \in 1..Len(flat[i]) : s[j] = flat[i][j]
           T == {k \in Nat : k \in 0..n => Inside(n - k)}
<1>4. 0 \in T
  BY <1>1, <1>2
<1>5. ASSUME NEW k \in T
      PROVE  k + 1 \in T
  <2>1. SUFFICES ASSUME k + 1 \in 0..n
                 PROVE  Inside(n - (k + 1))
    OBVIOUS
  <2> DEFINE i == n - k
  <2>2. i \in 1..n /\ i - 1 \in 0..n /\ i - 1 = n - (k + 1) /\ i \in 0..n /\ k \in 0..n
    BY <1>1, <2>1
  <2>3. Inside(i)
    BY <2>2
  <2> HIDE DEF i
  <2>4. Inside(i - 1)
    <3>1. Len(flat[i - 1]) \in Nat /\ Len(flat[i]) \in Nat /\ Len(flat[n]) \in Nat
      <4>1. n \in 0..n
        BY <1>1
      <4> QED
        BY ONLY <1>10, <2>2, <4>1
    <3>2. Len(flat[i - 1]) <= Len(flat[i]) /\ \A j \in 1..Len(flat[i - 1]) : j \in 1..Len(flat[i])
      <4>1. Len(flat[i]) = Len(flat[i - 1]) + Len(seqs[i]) /\ Len(seqs[i]) \in Nat
        BY <1>3, <2>2
      <4> DEFINE x == Len(flat[i - 1])
                 y == Len(flat[i])
                 z == Len(seqs[i])
      <4>2. x \in Nat /\ y \in Nat /\ z \in Nat /\ y = x + z
        BY <3>1, <4>1
      <4> HIDE DEF x, y, z
      <4>3. x <= y /\ \A j \in 1..x : j \in 1..y
        BY <4>2
      <4> QED
        BY <4>3 DEF x, y
    <3>3. \A j \in 1..Len(flat[i - 1]) : flat[i][j] = flat[i - 1][j]
      BY <1>3, <2>2
    <3> QED
      BY <2>3, <3>1, <3>2, <3>3
  <2> QED
    BY <2>2, <2>4
<1>6. T = Nat
  <2>1. T \in SUBSET Nat
    OBVIOUS
  <2> HIDE DEF T
  <2> QED
    BY <1>4, <1>5, <2>1, NatByInduction
<1>7. ASSUME NEW i \in 1..n
      PROVE  Inside(i)
  <2>1. n - i \in T /\ n - i \in 0..n /\ n - (n - i) = i
    <3>1. n - i \in Nat /\ n - i \in 0..n /\ n - (n - i) = i
      BY <1>1
    <3> HIDE DEF T
    <3> QED
      BY <1>6, <3>1
  <2> QED
    BY <2>1
<1>8. ASSUME NEW i \in 1..n
      PROVE  \A j \in 1..Len(seqs[i]) : s[Len(flat[i - 1]) + j] = seqs[i][j]
  <2> DEFINE x == Len(flat[i - 1])
             y == Len(flat[i])
             z == Len(seqs[i])
  <2>1. i - 1 \in 0..n
    BY <1>1
  <2>2. x \in Nat
    BY <1>10, <2>1
  <2>3. y = x + z
    BY <1>3
  <2>4. z \in Nat
    BY <1>3
  <2>5. \A j \in 1..z : x + j \in 1..y
    <3> HIDE DEF x, y, z
    <3> QED
      BY <2>2, <2>3, <2>4
  <2> QED
    BY <1>3, <1>7, <2>5
<1> QED
  <2>1. ASSUME NEW i \in 1..n
        PROVE  Len(flat[i]) = Len(flat[i - 1]) + Len(seqs[i]) /\ IsAt(s, Len(flat[i - 1]), seqs[i])
    BY <1>3, <1>7, <1>8 DEF IsAt
  <2> QED
    BY <2>1 DEF InPlaces, n

\* The documented pieces of a format string: a position, a brace that is doubled, any other
\* character.
IsPiece(t) ==
    \/ t \in {<<"{", "{">>, <<"}", "}">>, <<"{", "}">>}
    \/ \E c : c \notin {"{", "}", "end", "raised"} /\ t = <<c>>

\* Sequences of one and of two.
LEMMA OneOrTwo ==
    \A a, b : /\ Len(<<a>>) = 1 /\ <<a>>[1] = a /\ Head(<<a>>) = a
              /\ Len(<<a, b>>) = 2 /\ <<a, b>>[1] = a /\ <<a, b>>[2] = b /\ Head(<<a, b>>) = a
  OBVIOUS

\* What is put out for a piece, and for what is after it.
PutsOut(rest, args, before, k, t) ==
    rest[<<before + 1, k>>] =
        IF IsHole(t)
        THEN IF k < Len(args) THEN Cat(args[k + 1], rest[<<before + Len(t) + 1, k + 1>>]) ELSE Raised
        ELSE Cat(<<Head(t)>>, rest[<<before + Len(t) + 1, k>>])

\* format takes one piece after the other: at a position it puts out the next argument, for
\* any other piece its first character (common.hpp).
LEMMA OnePiece ==
    ASSUME NEW C, "end" \notin C, NEW fmt \in Seq(C), NEW args \in Seq(Seq(C)),
           NEW rest, Formats(rest, Seq(C), fmt, args),
           NEW before \in Nat, NEW k \in 0..Len(args), NEW t, IsPiece(t),
           IsAt(fmt, before, t)
    PROVE  PutsOut(rest, args, before, k, t)
<1> USE DEF PutsOut
<1> DEFINE pos == before + 1
<1>1. Len(fmt) \in Nat /\ Len(args) \in Nat /\ k \in Nat /\ DOMAIN fmt = 1..Len(fmt)
  OBVIOUS
<1>4. before + Len(t) <= Len(fmt) /\ \A j \in 1..Len(t) : fmt[before + j] = t[j]
  BY DEF IsAt
<1>2. CASE t \in {<<"{", "{">>, <<"}", "}">>, <<"{", "}">>}
  <2>1. Len(t) = 2
    BY <1>2, OneOrTwo
  <2>2. fmt[before + 1] = t[1] /\ fmt[before + 2] = t[2]
    BY <1>4, <2>1
  <2>3. pos \in 1..(Len(fmt) + 1) /\ pos \in DOMAIN fmt /\ pos + 1 \in DOMAIN fmt /\ pos + 1 = before + 2
    BY <1>1, <1>4, <2>1
  <2>4. At(fmt, pos) = t[1] /\ At(fmt, pos + 1) = t[2]
    BY <2>2, <2>3 DEF At
  <2>5. rest[<<pos, k>>] = Rest(rest, fmt, args, pos, k)
    BY <2>3 DEF Formats
  <2>6. pos + 2 = before + Len(t) + 1
    BY <2>1
  <2> HIDE DEF pos
  <2>7. CASE t = <<"{", "{">>
    <3>1. t[1] = "{" /\ t[2] = "{" /\ Head(t) = "{" /\ t # <<"{", "}">>
      BY ONLY <2>7, OneOrTwo
    <3>2. Rest(rest, fmt, args, pos, k) = Cat(<<"{">>, rest[<<pos + 2, k>>])
      BY <2>4, <3>1 DEF Rest, doubled
    <3> QED
      BY <2>5, <2>6, <3>1, <3>2 DEF pos, IsHole
  <2>8. CASE t = <<"}", "}">>
    <3>1. t[1] = "}" /\ t[2] = "}" /\ Head(t) = "}" /\ t # <<"{", "}">>
      BY ONLY <2>8, OneOrTwo
    <3>2. Rest(rest, fmt, args, pos, k) = Cat(<<"}">>, rest[<<pos + 2, k>>])
      BY <2>4, <3>1 DEF Rest, doubled
    <3> QED
      BY <2>5, <2>6, <3>1, <3>2 DEF pos, IsHole
  <2>9. CASE t = <<"{", "}">>
    <3>1. t[1] = "{" /\ t[2] = "}"
      BY ONLY <2>9, OneOrTwo
    <3>2. Rest(rest, fmt, args, pos, k) =
             IF k < Len(args) THEN Cat(args[k + 1], rest[<<pos + 2, k + 1>>]) ELSE Raised
      BY <2>4, <3>1 DEF Rest, doubled
    <3> QED
      BY <2>5, <2>6, <2>9, <3>2 DEF pos, IsHole
  <2> QED
    BY <1>2, <2>7, <2>8, <2>9
<1>3. CASE t \notin {<<"{", "{">>, <<"}", "}">>, <<"{", "}">>}
  <2>1. PICK c : c \notin {"{", "}", "end", "raised"} /\ t = <<c>>
    BY <1>3 DEF IsPiece
  <2>2. Len(t) = 1 /\ t[1] = c /\ Head(t) = c
    BY ONLY <2>1, OneOrTwo
  <2>3. fmt[before + 1] = c
    BY <1>4, <2>2
  <2>4. pos \in 1..(Len(fmt) + 1) /\ pos \in DOMAIN fmt
    BY <1>1, <1>4, <2>2
  <2>5. At(fmt, pos) = c
    BY <2>3, <2>4 DEF At
  <2>6. rest[<<pos, k>>] = Rest(rest, fmt, args, pos, k)
    BY <2>4 DEF Formats
  <2>7. pos + 1 = before + Len(t) + 1
    BY <2>2
  <2> HIDE DEF pos
  <2>8. Rest(rest, fmt, args, pos, k) = Cat(<<c>>, rest[<<pos + 1, k>>])
    BY <2>1, <2>5 DEF Rest, doubled
  <2> QED
    BY <1>3, <2>2, <2>6, <2>7, <2>8 DEF pos, IsHole
<1> QED
  BY <1>2, <1>3

\* Raised is told from what is put out by what is in it.
LEMMA RaisedAfter ==
    ASSUME NEW C, "raised" \in C, NEW s \in Seq(C), NEW t \in Seq(C), Contains(t, "raised")
    PROVE  Contains(Cat(s, t), "raised")
<1>1. PICK i \in 1..Len(t) : t[i] = "raised"
  BY DEF Contains
<1>2. Len(s) \in Nat /\ Len(t) \in Nat /\ i \in Nat
  OBVIOUS
<1>3. /\ Len(s \o t) = Len(s) + Len(t)
      /\ \A j \in 1..(Len(s) + Len(t)) : (s \o t)[j] = IF j <= Len(s) THEN s[j] ELSE t[j - Len(s)]
  BY ConcatProperties
<1>4. Len(s) + i \in 1..(Len(s) + Len(t)) /\ ~(Len(s) + i <= Len(s)) /\ (Len(s) + i) - Len(s) = i
  BY <1>2
<1>5. (s \o t)[Len(s) + i] = "raised"
  BY <1>1, <1>3, <1>4
<1> QED
  BY <1>3, <1>4, <1>5 DEF Contains, Cat

\* What a piece stands for: an argument, or its first character.
LEMMA PutIs ==
    ASSUME NEW fmt, NEW args, NEW i, IsPiece(fmt[i])
    PROVE  PutFor(fmt, args, i) = IF IsHole(fmt[i]) THEN args[Before(fmt, i)] ELSE <<Head(fmt[i])>>
<1> DEFINE t == fmt[i]
<1>1. CASE t \in {<<"{", "{">>, <<"}", "}">>, <<"{", "}">>}
  <2>1. <<"{", "{">> # <<"{", "}">> /\ <<"}", "}">> # <<"{", "}">>
    BY ONLY OneOrTwo
  <2> QED
    BY <1>1, <2>1 DEF PutFor, IsHole
<1>2. CASE t \notin {<<"{", "{">>, <<"}", "}">>, <<"{", "}">>}
  <2>1. PICK c : t = <<c>>
    BY <1>2 DEF IsPiece
  <2>2. <<Head(t)>> = t
    BY ONLY <2>1, OneOrTwo
  <2> QED
    BY <1>2, <2>2 DEF PutFor, IsHole
<1> QED
  BY <1>1, <1>2

\* A piece has a first character.
LEMMA PieceNotEmpty == ASSUME NEW A, NEW t \in Seq(A), IsPiece(t) PROVE <<Head(t)>> \in Seq(A)
<1>1. t # <<>>
  <2>1. Len(t) \in {1, 2}
    <3>1. CASE t \in {<<"{", "{">>, <<"}", "}">>, <<"{", "}">>}
      BY ONLY <3>1, OneOrTwo
    <3>2. CASE t \notin {<<"{", "{">>, <<"}", "}">>, <<"{", "}">>}
      <4>1. PICK c : t = <<c>>
        BY <3>2 DEF IsPiece
      <4> QED
        BY ONLY <4>1, OneOrTwo
    <3> QED
      BY <3>1, <3>2, Zenon
  <2> QED
    BY <2>1
<1>2. Head(t) \in A
  BY <1>1
<1> QED
  BY <1>2

\* A format string takes as many arguments as it has positions.
THEOREM FormatTakes ==
    ASSUME NEW A, "raised" \notin A, "end" \notin A,
           NEW fmt \in Seq(Seq(A)), \A i \in 1..Len(fmt) : IsPiece(fmt[i]),
           NEW args \in Seq(Seq(A))
    PROVE  format(FlattenSeq(fmt), args) =
               IF Before(fmt, Len(fmt)) # Len(args) THEN Raised
               ELSE FlattenSeq([i \in DOMAIN fmt |-> PutFor(fmt, args, i)])
<1> DEFINE n == Len(fmt)
           m == Len(args)
           C == A \cup {"raised"}
           B(i) == Before(fmt, i)
<1>1. /\ n \in Nat /\ m \in Nat /\ DOMAIN fmt = 1..n
      /\ \A i \in 1..n : fmt[i] \in Seq(A)
      /\ \A i \in 1..m : args[i] \in Seq(A)
  OBVIOUS
<1>0. /\ n = Len(fmt) /\ m = Len(args)
      /\ fmt \in Seq(Seq(A)) /\ args \in Seq(Seq(A)) /\ \A i \in 1..n : IsPiece(fmt[i])
  OBVIOUS
<1>2. \A s : s \in Seq(A) => s \in Seq(C)
  OBVIOUS
<1>3. fmt \in Seq(Seq(C)) /\ args \in Seq(Seq(C)) /\ "raised" \in C /\ "end" \notin C
  <2>1. Seq(A) \subseteq Seq(C)
    BY <1>2
  <2> HIDE DEF C
  <2>2. fmt \in Seq(Seq(C)) /\ args \in Seq(Seq(C))
    BY <2>1
  <2> QED
    BY <2>2 DEF C
<1> HIDE DEF C
<1>4. PICK flat : Flattens(flat, C, fmt)
  BY <1>3, Flattening
<1> DEFINE s == flat[n]
<1>5. s \in Seq(C) /\ FlattenSeq(fmt) = s /\ flat[0] = <<>>
  <2>1. flat \in [0..n -> Seq(C)] /\ n \in 0..n
    BY <1>1, <1>4 DEF Flattens
  <2> QED
    BY <1>4, <2>1 DEF Flattens
<1> HIDE DEF s
<1>6. PICK rest : Formats(rest, Seq(C), s, args)
  BY <1>3, <1>5, Formatting
<1>7. /\ B(0) = 0
      /\ \A i \in 0..n : B(i) \in Nat /\ B(i) <= B(n)
      /\ \A i \in 1..n : B(i) = IF IsHole(fmt[i]) THEN B(i - 1) + 1 ELSE B(i - 1)
  BY <1>1, Counting
<1>22. \A i \in 1..n : B(i) = IF IsHole(fmt[i]) THEN B(i - 1) + 1 ELSE B(i - 1)
  BY <1>7
<1>23. \A i \in 0..n : B(i) \in Nat /\ B(i) <= B(n)
  BY <1>7
<1> DEFINE q == [i \in 1..n |-> IF B(i) <= m THEN PutFor(fmt, args, i) ELSE <<>>]
<1> HIDE DEF B, n, m
<1>8. \A i \in 1..n : PutFor(fmt, args, i) = IF IsHole(fmt[i]) THEN args[B(i)] ELSE <<Head(fmt[i])>>
  BY <1>0, PutIs DEF B
<1>9. q \in Seq(Seq(A)) /\ Len(q) = n
  <2>1. ASSUME NEW i \in 1..n, B(i) <= m
        PROVE  PutFor(fmt, args, i) \in Seq(A)
    <3>1. CASE IsHole(fmt[i])
      <4>1. i - 1 \in 0..n
        BY <1>1
      <4>2. B(i) = B(i - 1) + 1 /\ B(i - 1) \in Nat
        BY <1>7, <3>1, <4>1
      <4>3. B(i) \in 1..m
        BY <1>1, <2>1, <4>2
      <4> QED
        BY <1>1, <1>8, <3>1, <4>3
    <3>2. CASE ~IsHole(fmt[i])
      <4>1. <<Head(fmt[i])>> \in Seq(A)
        <5>1. fmt[i] \in Seq(A) /\ IsPiece(fmt[i])
          BY <1>0, <1>1
        <5> QED
          BY <5>1, PieceNotEmpty
      <4> QED
        BY <1>8, <3>2, <4>1
    <3> QED
      BY <3>1, <3>2
  <2>2. \A i \in 1..n : q[i] \in Seq(A)
    BY <2>1
  <2> QED
    BY <1>1, <2>2
<1>10. PICK out : Flattens(out, A, q)
  BY <1>9, Flattening
<1>11. /\ out[0] = <<>> /\ FlattenSeq(q) = out[n]
       /\ \A i \in 0..n : out[i] \in Seq(A)
       /\ \A i \in 1..n : out[i] = Cat(out[i - 1], q[i])
  <2>1. out \in [0..n -> Seq(A)]
    BY <1>9, <1>10 DEF Flattens
  <2> QED
    BY <1>9, <1>10, <2>1 DEF Flattens, Cat
<1>12. \A i \in 0..n : Len(flat[i]) \in Nat
  <2>1. \A i \in 0..n : flat[i] \in Seq(C)
    BY <1>0, <1>4 DEF Flattens
  <2> QED
    BY <2>1
<1>24. InPlaces(flat, fmt, n)
  BY <1>0, <1>3, <1>4, Pieces
<1>25. \A i \in 1..n : Len(flat[i]) = Len(flat[i - 1]) + Len(fmt[i]) /\ IsAt(s, Len(flat[i - 1]), fmt[i])
  BY <1>24 DEF InPlaces, s
<1>13. /\ \A p \in 1..(Len(s) + 1), k \in 0..m : rest[<<p, k>>] \in Seq(C)
       /\ format(s, args) = IF Contains(rest[<<1, 0>>], "raised") THEN Raised ELSE rest[<<1, 0>>]
       /\ \A k \in 0..m : rest[<<Len(s) + 1, k>>] = IF k < m THEN Raised ELSE <<>>
  <2>1. Len(s) \in Nat /\ DOMAIN s = 1..Len(s)
    BY <1>5
  <2>2. At(s, Len(s) + 1) = "end" /\ Len(s) + 1 \in 1..(Len(s) + 1)
    BY <2>1 DEF At
  <2>3. \A k \in 0..m : Rest(rest, s, args, Len(s) + 1, k) = IF k < m THEN Raised ELSE <<>>
    BY <1>0, <2>2 DEF Rest, doubled
  <2>4. /\ format(s, args) = IF Contains(rest[<<1, 0>>], "raised") THEN Raised ELSE rest[<<1, 0>>]
        /\ \A p \in 1..(Len(s) + 1), k \in 0..m :
              rest[<<p, k>>] \in Seq(C) /\ rest[<<p, k>>] = Rest(rest, s, args, p, k)
    BY <1>0, <1>6 DEF Formats
  <2> QED
    BY <2>2, <2>3, <2>4
<1> DEFINE first == rest[<<1, 0>>]
           Claim(i) == IF B(i) <= m THEN first = Cat(out[i], rest[<<Len(flat[i]) + 1, B(i)>>])
                       ELSE Contains(first, "raised")
           T == {i \in Nat : i \in 0..n => Claim(i)}
<1> HIDE DEF q
<1>14. Contains(Raised, "raised") /\ Raised \in Seq(C)
  <2>1. Len(<<"raised">>) = 1 /\ <<"raised">>[1] = "raised"
    OBVIOUS
  <2> QED
    BY <1>3, <2>1 DEF Contains, Raised
<1>15. Claim(0)
  <2>1. 1 \in 1..(Len(s) + 1) /\ 0 \in 0..m /\ Len(<<>>) + 1 = 1
    BY <1>1, <1>5
  <2>2. first \in Seq(C)
    BY <1>13, <2>1
  <2>3. Cat(<<>>, first) = first
    BY <2>2, CatEmpty
  <2>4. B(0) = 0 /\ 0 <= m
    BY <1>1, <1>7
  <2>5. Len(flat[0]) + 1 = 1
    BY <1>5, <2>1
  <2>6. Cat(out[0], rest[<<Len(flat[0]) + 1, B(0)>>]) = first
    BY <1>11, <2>3, <2>4, <2>5
  <2> QED
    BY <2>4, <2>6
<1>16. ASSUME NEW i \in 1..n, Claim(i - 1)
       PROVE  Claim(i)
  <2> DEFINE k == B(i - 1)
             before == Len(flat[i - 1])
             next == before + Len(fmt[i]) + 1
  <2>1. i - 1 \in 0..n /\ i \in 0..n
    BY <1>1
  <2>2. k \in Nat /\ before \in Nat /\ B(i) \in Nat /\ next = Len(flat[i]) + 1 /\ Len(flat[i]) <= Len(s)
    <3>1. Len(flat[i]) = before + Len(fmt[i]) /\ before + Len(fmt[i]) <= Len(s)
      BY <1>25 DEF IsAt
    <3>2. before \in Nat
      BY <1>12, <2>1
    <3>3. k \in Nat /\ B(i) \in Nat
      BY <1>23, <2>1
    <3> QED
      BY <3>1, <3>2, <3>3
  <2>5. B(i) = IF IsHole(fmt[i]) THEN k + 1 ELSE k
    BY <1>22
  <2> HIDE DEF k
  <2>3. CASE ~(k <= m)
    <3>1. Contains(first, "raised") /\ ~(B(i) <= m)
      <4>1. ~(B(i) <= m)
        BY <1>1, <2>2, <2>3, <2>5
      <4> QED
        BY <1>16, <2>3, <4>1 DEF k
    <3> QED
      BY <3>1
  <2>4. CASE k <= m
    <3>1. first = Cat(out[i - 1], rest[<<before + 1, k>>]) /\ k \in 0..m
      BY <1>1, <1>16, <2>2, <2>4 DEF k
    <3>2. rest[<<before + 1, k>>] =
              IF IsHole(fmt[i])
              THEN IF k < m THEN Cat(args[k + 1], rest[<<next, k + 1>>]) ELSE Raised
              ELSE Cat(<<Head(fmt[i])>>, rest[<<next, k>>])
      <4>1. IsAt(s, before, fmt[i])
        BY <1>25
      <4>2. IsPiece(fmt[i])
        BY <1>0
      <4>3. k \in 0..Len(args) /\ before \in Nat 
        BY <1>0, <2>2, <3>1
      <4> HIDE DEF before
      <4>4. PutsOut(rest, args, before, k, fmt[i])
        BY <1>3, <1>5, <1>6, <4>1, <4>2, <4>3, OnePiece
      <4> QED
        BY <1>0, <4>4 DEF PutsOut
    <3>3. out[i - 1] \in Seq(C) /\ next \in 1..(Len(s) + 1) /\ out[i] = Cat(out[i - 1], q[i])
      <4>2. next \in 1..(Len(s) + 1)
        <5> DEFINE x == Len(flat[i])
                   y == Len(s)
        <5>1. y \in Nat
          BY <1>5
        <5>2. x \in Nat
          BY <1>12, <2>1
        <5>3. x <= y /\ next = x + 1
          BY <2>2
        <5> HIDE DEF x, y, next
        <5>4. next \in 1..(y + 1)
          BY <5>1, <5>2, <5>3
        <5> QED
          BY <5>4 DEF y
      <4>3. out[i - 1] \in Seq(C)
        BY <1>2, <1>11, <2>1
      <4> QED
        BY <1>11, <4>2, <4>3
    <3>4. CASE IsHole(fmt[i]) /\ k < m
      <4>1. B(i) = k + 1 /\ B(i) <= m /\ k + 1 \in 0..m /\ k + 1 \in 1..m
        BY <1>1, <2>2, <2>5, <3>4
      <4>2. q[i] = args[k + 1] /\ q[i] \in Seq(C)
        <5>1. q[i] = args[k + 1]
          BY <1>8, <3>4, <4>1 DEF q
        <5> QED
          BY <1>1, <1>2, <4>1, <5>1
      <4>3. rest[<<next, k + 1>>] \in Seq(C)
        BY <1>13, <3>3, <4>1
      <4> HIDE DEF before, next
      <4>4. Cat(out[i - 1], Cat(q[i], rest[<<next, k + 1>>])) = Cat(Cat(out[i - 1], q[i]), rest[<<next, k + 1>>])
        BY <3>3, <4>2, <4>3, CatAssociative
      <4>5. first = Cat(out[i], rest[<<next, B(i)>>])
        BY <3>1, <3>2, <3>3, <3>4, <4>1, <4>2, <4>4
      <4> QED
        BY <2>2, <4>1, <4>5
    <3>5. CASE IsHole(fmt[i]) /\ ~(k < m)
      <4>1. ~(B(i) <= m)
        BY <1>1, <2>2, <2>5, <3>5
      <4>2. rest[<<before + 1, k>>] = Raised
        BY <3>2, <3>5
      <4>3. Contains(Cat(out[i - 1], Raised), "raised")
        BY <1>3, <1>14, <3>3, RaisedAfter
      <4> QED
        BY <3>1, <4>1, <4>2, <4>3
    <3>6. CASE ~IsHole(fmt[i])
      <4>1. B(i) = k
        BY <2>5, <3>6
      <4>2. q[i] = <<Head(fmt[i])>> /\ q[i] \in Seq(C)
        <5>1. q[i] = <<Head(fmt[i])>>
          BY <1>8, <2>4, <3>6, <4>1 DEF q
        <5> QED
          <6>1. fmt[i] \in Seq(A) /\ IsPiece(fmt[i])
            BY <1>0, <1>1
          <6>2. <<Head(fmt[i])>> \in Seq(A)
            BY <6>1, PieceNotEmpty
          <6> QED
            BY <1>2, <5>1, <6>2
      <4>3. rest[<<next, k>>] \in Seq(C)
        <5>1. \A p \in 1..(Len(s) + 1), j \in 0..m : rest[<<p, j>>] \in Seq(C)
          BY <1>13
        <5> HIDE DEF before, next
        <5> QED
          BY <3>1, <3>3, <5>1
      <4> HIDE DEF before, next
      <4>4. Cat(out[i - 1], Cat(q[i], rest[<<next, k>>])) = Cat(Cat(out[i - 1], q[i]), rest[<<next, k>>])
        <5>1. q[i] \in Seq(C) /\ out[i - 1] \in Seq(C)
          BY <3>3, <4>2
        <5> QED
          BY ONLY <4>3, <5>1, CatAssociative
      <4>5. first = Cat(out[i], rest[<<next, B(i)>>])
        BY <3>1, <3>2, <3>3, <3>6, <4>1, <4>2, <4>4
      <4> QED
        BY <2>2, <2>4, <4>1, <4>5
    <3> QED
      BY <3>4, <3>5, <3>6
  <2> QED
    BY <2>3, <2>4
<1> HIDE DEF Claim
<1>17. 0 \in T
  BY <1>15
<1>18. ASSUME NEW i \in T
       PROVE  i + 1 \in T
  <2>1. SUFFICES ASSUME i + 1 \in 0..n
                 PROVE  Claim(i + 1)
    OBVIOUS
  <2>2. i + 1 \in 1..n /\ (i + 1) - 1 = i /\ i \in 0..n
    BY <1>1, <2>1
  <2>3. Claim((i + 1) - 1)
    BY <2>2
  <2> QED
    BY <1>16, <2>2, <2>3
<1>19. Claim(n)
  <2>1. T \in SUBSET Nat
    OBVIOUS
  <2>2. T = Nat
    <3> HIDE DEF T
    <3> QED
      BY <1>17, <1>18, <2>1, NatByInduction
  <2> QED
    BY <1>1, <2>2
<1>20. CASE B(n) = m
  <2>1. first = Cat(out[n], rest[<<Len(s) + 1, m>>])
    BY <1>1, <1>19, <1>20 DEF Claim, s
  <2>2. rest[<<Len(s) + 1, m>>] = <<>>
    BY <1>1, <1>13
  <2>3. out[n] \in Seq(A)
    BY <1>1, <1>11
  <2>4. first = out[n]
    BY <2>1, <2>2, <2>3, CatEmpty
  <2>5. ~Contains(first, "raised")
    BY <2>3, <2>4 DEF Contains
  <2>6. q = [i \in DOMAIN fmt |-> PutFor(fmt, args, i)]
    <3>1. \A i \in 1..n : B(i) <= m
      <4>1. \A i \in 1..n : i \in 0..n
        BY <1>1
      <4> QED
        BY <1>20, <1>23, <4>1
    <3> QED
      BY <1>1, <3>1 DEF q
  <2> QED
    BY <1>0, <1>5, <1>11, <1>13, <1>20, <2>4, <2>5, <2>6 DEF B
<1>21. CASE B(n) # m
  <2>1. Contains(first, "raised")
    <3>1. CASE B(n) <= m
      <4>1. B(n) \in 0..m /\ B(n) < m
        <5>1. n \in 0..n
          BY <1>1
        <5>2. B(n) \in Nat
          BY <1>23, <5>1
        <5> QED
          BY <1>1, <1>21, <3>1, <5>2
      <4>2. first = Cat(out[n], Raised)
        BY <1>13, <1>19, <3>1, <4>1 DEF Claim, s
      <4>3. out[n] \in Seq(C)
        BY <1>1, <1>2, <1>11
      <4> QED
        BY <1>3, <1>14, <4>2, <4>3, RaisedAfter
    <3>2. CASE ~(B(n) <= m)
      BY <1>19, <3>2 DEF Claim
    <3> QED
      BY <3>1, <3>2
  <2> QED
    BY <1>0, <1>5, <1>13, <1>21, <2>1 DEF B
<1> QED
  BY <1>20, <1>21

-----------------------------------------------------------------------------
(***************************************************************************)
(* What a host file is read as.                                            *)
(***************************************************************************)

\* A digit is no blank and no sign.
LEMMA DigitsPlain ==
    \A c \in Digits : c \notin Space /\ c \notin {"-", "+"} /\ Value(c) \in Nat
<1>1. Digits = {"0", "1", "2", "3", "4", "5", "6", "7", "8", "9"}
  <2>1. 1..10 = {1, 2, 3, 4, 5, 6, 7, 8, 9, 10}
    OBVIOUS
  <2>2. Digits = {Hex[i] : i \in {1, 2, 3, 4, 5, 6, 7, 8, 9, 10}}
    BY <2>1 DEF Digits
  <2>3. Digits = {Hex[1], Hex[2], Hex[3], Hex[4], Hex[5], Hex[6], Hex[7], Hex[8], Hex[9], Hex[10]}
    BY <2>2
  <2> QED
    BY <2>3 DEF Hex
<1>2. \A c \in {"0", "1", "2", "3", "4", "5", "6", "7", "8", "9"} : c \notin {" ", "\t", "\n", "\r"}
  BY Zenon
<1>3. \A c \in {"0", "1", "2", "3", "4", "5", "6", "7", "8", "9"} : c \notin {"-", "+"}
  BY Zenon
<1>4. ASSUME NEW c \in Digits
      PROVE  Value(c) \in Nat
  <2>1. PICK i \in 1..10 : c = Hex[i]
    BY DEF Digits
  <2>2. i - 1 \in 0..15 /\ (i - 1) + 1 = i
    OBVIOUS
  <2>3. Value(Hex[(i - 1) + 1]) = i - 1
    BY <2>2, HexDigits
  <2> QED
    BY <2>1, <2>2, <2>3
<1> QED
  BY <1>1, <1>2, <1>3, <1>4 DEF Space

\* s from a to b is what is left of it without the characters of cutset around it.
Trimmed(s, cutset, a, b) ==
    /\ a \in 1..Len(s) /\ b \in 1..Len(s) /\ a <= b
    /\ s[a] \notin cutset /\ s[b] \notin cutset
    /\ \A k \in 1..Len(s) : s[k] \notin cutset => k \in a..b
    /\ string_trim(s, cutset) = SubSeq(s, a, b)

\* string_trim leaves nothing of a blank string, and otherwise what is between the blanks
\* around it.
LEMMA Trimming ==
    ASSUME NEW C, NEW s \in Seq(C), NEW cutset
    PROVE  IF ToSet(s) \subseteq cutset THEN string_trim(s, cutset) = <<>>
           ELSE string_trim(s, cutset) # <<>> /\ \E a, b : Trimmed(s, cutset, a, b)
<1> DEFINE kept == {i \in DOMAIN s : s[i] \notin cutset}
<1>1. Len(s) \in Nat /\ DOMAIN s = 1..Len(s)
  OBVIOUS
<1>2. ToSet(s) \subseteq cutset <=> kept = {}
  BY DEF ToSet
<1>3. string_trim(s, cutset) = IF kept = {} THEN <<>> ELSE SubSeq(s, Min(kept), Max(kept))
  BY DEF string_trim
<1>4. ASSUME kept # {}
      PROVE  string_trim(s, cutset) # <<>> /\ \E a, b : Trimmed(s, cutset, a, b)
  <2> DEFINE a == Min(kept)
             b == Max(kept)
  <2>1. kept \in SUBSET Nat /\ kept \in SUBSET (0..Len(s))
    BY <1>1
  <2>2. a \in kept /\ \A i \in kept : a <= i
    <3> HIDE DEF kept
    <3> QED
      BY <1>4, <2>1, MinOf
  <2>3. b \in kept /\ \A i \in kept : i <= b
    <3> HIDE DEF kept
    <3> QED
      BY <1>1, <1>4, <2>1, MaxOf
  <2>4. string_trim(s, cutset) = SubSeq(s, a, b)
    BY <1>3, <1>4
  <2> HIDE DEF a, b
  <2>5. a \in 1..Len(s) /\ b \in 1..Len(s) /\ s[a] \notin cutset /\ s[b] \notin cutset /\ a <= b
    BY <1>1, <2>2, <2>3
  <2>6. \A k \in 1..Len(s) : s[k] \notin cutset => k \in a..b
    BY <1>1, <2>2, <2>3, <2>5
  <2>7. Len(SubSeq(s, a, b)) = b - a + 1
    <3>1. a \in 1..(Len(s) + 1) /\ b \in 0..Len(s)
      BY <1>1, <2>5
    <3> QED
      BY <2>5, <3>1, PartIsSeq
  <2>8. SubSeq(s, a, b) # <<>>
    <3>1. b - a + 1 # 0
      BY <1>1, <2>5
    <3> QED
      BY <2>7, <3>1
  <2> QED
    BY <2>4, <2>5, <2>6, <2>8 DEF Trimmed
<1> QED
  BY <1>2, <1>3, <1>4

\* A string that does not begin with a blank is not trimmed in front.
LEMMA NothingInFront ==
    ASSUME NEW C, NEW s \in Seq(C), NEW cutset, s # <<>>, s[1] \notin cutset
    PROVE  string_trim_front(s, cutset) = s
<1> DEFINE kept == {i \in DOMAIN s : s[i] \notin cutset}
<1>1. Len(s) \in Nat /\ DOMAIN s = 1..Len(s) /\ 1 \in 1..Len(s)
  OBVIOUS
<1>2. 1 \in kept /\ kept \in SUBSET Nat /\ kept # {} /\ \A i \in kept : 1 <= i
  BY <1>1
<1>3. string_trim_front(s, cutset) = IF kept = {} THEN <<>> ELSE SubSeq(s, Min(kept), Len(s))
  BY DEF string_trim_front
<1> HIDE DEF kept
<1>4. Min(kept) \in kept /\ \A i \in kept : Min(kept) <= i
  BY <1>2, MinOf
<1>5. Min(kept) = 1
  <2> DEFINE m == Min(kept)
  <2>1. m \in Nat /\ m <= 1 /\ 1 <= m
    BY <1>2, <1>4
  <2> HIDE DEF m
  <2>2. m = 1
    BY <2>1
  <2> QED
    BY <2>2 DEF m
<1>6. SubSeq(s, 1, Len(s)) = s
  BY SubSeqFull
<1> QED
  BY <1>2, <1>3, <1>5, <1>6

\* The number that is written with the characters of d.
Numeral(d) == FoldLeft(LAMBDA v, c : 10 * v + Value(c), 0, d)

\* Digits are the digits of a number.
LEMMA NumeralIsNat == ASSUME NEW d \in Seq(Digits) PROVE Numeral(d) \in Nat
<1> DEFINE n == Len(d)
           V == Nat
           step == [p \in (1..n) \X V |-> 10 * p[2] + Value(d[p[1]])]
           D == SUBSET (1..n)
           F == CHOOSE iter : iter = [s \in SUBSET DOMAIN d |->
                    IF s = {} THEN 0
                    ELSE LET x == Max(s) IN 10 * iter[s \ {x}] + Value(d[x])]
<1>1. n \in Nat /\ DOMAIN d = 1..n /\ \A i \in 1..n : d[i] \in Digits
  BY LenProperties, ElementOfSeq
<1>2. Numeral(d) = F[1..n]
  BY <1>1 DEF Numeral, FoldLeft, MapThenFoldSet
<1>3. ASSUME NEW i \in 1..n, NEW v \in V
      PROVE  step[<<i, v>>] = 10 * v + Value(d[i]) /\ 10 * v + Value(d[i]) \in V
  <2>1. Value(d[i]) \in Nat
    BY <1>1, DigitsPlain
  <2> QED
    BY <2>1
<1>4. Iterable(V, 0, n, step)
  <2>1. step \in [(1..n) \X V -> V]
    <3>1. \A p \in (1..n) \X V : 10 * p[2] + Value(d[p[1]]) \in V
      <4> HIDE DEF V
      <4>1. ASSUME NEW p \in (1..n) \X V
            PROVE  p[1] \in 1..n /\ p[2] \in V
        OBVIOUS
      <4> QED
        BY <1>3, <4>1
    <3> QED
      BY <3>1
  <2> QED
    BY <1>1, <2>1 DEF Iterable
<1>5. PICK it : \A S \in D : it[S] \in V /\ it[S] = IF S = {} THEN 0 ELSE step[<<Max(S), it[S \ {Max(S)}]>>]
  <2>1. \E it : FoldsSets(it, V, 0, n, step)
    <3> HIDE DEF V, step, n
    <3> QED
      BY <1>4, FoldRecursion
  <2> QED
    BY <2>1 DEF FoldsSets
<1>6. ASSUME NEW S \in D, S # {}
      PROVE  Max(S) \in 1..n /\ S \ {Max(S)} \in D
  BY <1>1, <1>6, MaxPosition
<1> DEFINE g == [S \in D |-> it[S]]
<1>7. ASSUME NEW S \in D
      PROVE  g[S] = IF S = {} THEN 0 ELSE 10 * g[S \ {Max(S)}] + Value(d[Max(S)])
  <2>1. CASE S = {}
    BY <1>5, <2>1
  <2>2. CASE S # {}
    <3>1. Max(S) \in 1..n /\ S \ {Max(S)} \in D
      BY <1>6, <2>2
    <3>2. it[S \ {Max(S)}] \in V
      BY <1>5, <3>1
    <3>3. it[S] = 10 * it[S \ {Max(S)}] + Value(d[Max(S)])
      <4> HIDE DEF V, step
      <4> QED
        BY <1>3, <1>5, <2>2, <3>1, <3>2
    <3> QED
      BY <2>2, <3>1, <3>3
  <2> QED
    BY <2>1, <2>2
<1>8. g = [s \in SUBSET DOMAIN d |->
              IF s = {} THEN 0 ELSE LET x == Max(s) IN 10 * g[s \ {x}] + Value(d[x])]
  <2>1. SUBSET DOMAIN d = D /\ DOMAIN g = D
    BY <1>1
  <2> HIDE DEF D
  <2>2. g = [s \in D |-> g[s]]
    OBVIOUS
  <2> HIDE DEF g
  <2> QED
    BY <1>7, <2>1, <2>2
<1>9. F = [s \in SUBSET DOMAIN d |->
              IF s = {} THEN 0 ELSE LET x == Max(s) IN 10 * F[s \ {x}] + Value(d[x])]
  <2> HIDE DEF g
  <2> QED
    BY <1>8
<1>10. ASSUME NEW S \in D
       PROVE  F[S] = IF S = {} THEN 0 ELSE 10 * F[S \ {Max(S)}] + Value(d[Max(S)])
  <2>1. S \in SUBSET DOMAIN d
    BY <1>1
  <2> HIDE DEF F
  <2> QED
    BY <1>9, <2>1
<1> HIDE DEF F, g
<1> DEFINE acc == [k \in 0..n |-> F[1..k]]
           T == {k \in Nat : k <= n => acc[k] \in Nat}
<1>11. 0 \in T
  <2>1. 1..0 = {} /\ 1..0 \in D
    BY <1>1, FirstPositions
  <2>2. F[1..0] = 0
    BY <1>10, <2>1
  <2> QED
    BY <1>1, <2>2
<1>12. ASSUME NEW k \in 1..n
       PROVE  acc[k] = 10 * acc[k - 1] + Value(d[k])
  <2>1. 1..k \in D /\ 1..k # {} /\ Max(1..k) = k /\ (1..k) \ {k} = 1..(k - 1)
    BY <1>1, FirstPositions
  <2>2. acc[k] = F[1..k] /\ acc[k - 1] = F[1..(k - 1)]
    BY <1>1
  <2>3. F[1..k] = 10 * F[(1..k) \ {k}] + Value(d[k])
    BY <1>10, <2>1
  <2> QED
    BY <2>1, <2>2, <2>3
<1>13. acc[n] = F[1..n]
  BY <1>1
<1> HIDE DEF acc
<1>14. ASSUME NEW k \in T
       PROVE  k + 1 \in T
  <2>1. CASE k + 1 <= n
    <3>1. k \in Nat /\ k + 1 \in 1..n /\ (k + 1) - 1 = k /\ acc[k] \in Nat
      BY <1>1, <2>1
    <3>2. acc[k + 1] = 10 * acc[k] + Value(d[k + 1]) /\ Value(d[k + 1]) \in Nat
      BY <1>1, <1>12, <3>1, DigitsPlain
    <3> QED
      BY <3>1, <3>2
  <2> QED
    BY <2>1
<1>15. T = Nat
  <2>1. T \in SUBSET Nat
    OBVIOUS
  <2> HIDE DEF T
  <2> QED
    BY <1>11, <1>14, <2>1, NatByInduction
<1> QED
  BY <1>1, <1>2, <1>13, <1>15

\* The sign in front of a number, what is after it, and how many digits that begins with.
Signed(t) == t # <<>> /\ t[1] \in {"-", "+"}
Unsigned(t) == IF Signed(t) THEN Tail(t) ELSE t
Leading(b) == Max({i \in 0..Len(b) : \A j \in 1..i : b[j] \in Digits})

\* std::stoi in the terms above.
LEMMA StoiIs ==
    ASSUME NEW s
    PROVE  LET t == string_trim_front(s, Space)
               n == Leading(Unsigned(t))
               d == SubSeq(Unsigned(t), 1, n)
           IN  stoi(s) = IF n = 0 \/ Numeral(d) > INT_MAX THEN {}
                         ELSE {IF Signed(t) /\ t[1] = "-" THEN -Numeral(d) ELSE Numeral(d)}
  BY DEF stoi, Signed, Unsigned, Leading, Numeral

\* The digits in front end at the first that is none.
LEMMA LeadingDigits ==
    ASSUME NEW C, NEW b \in Seq(C)
    PROVE  /\ Leading(b) \in 0..Len(b)
           /\ \A j \in 1..Leading(b) : b[j] \in Digits
           /\ Leading(b) < Len(b) => b[Leading(b) + 1] \notin Digits
<1> DEFINE S == {i \in 0..Len(b) : \A j \in 1..i : b[j] \in Digits}
           n == Leading(b)
<1>1. Len(b) \in Nat
  OBVIOUS
<1>2. 0 \in S /\ S \in SUBSET (0..Len(b))
  BY <1>1
<1>3. n \in S /\ \A i \in S : i <= n
  <2>1. S # {}
    BY <1>2
  <2> HIDE DEF S
  <2>2. Max(S) \in S /\ \A i \in S : i <= Max(S)
    BY <1>1, <1>2, <2>1, MaxOf
  <2> QED
    BY <2>2 DEF Leading, S
<1> HIDE DEF n
<1>4. n \in 0..Len(b) /\ \A j \in 1..n : b[j] \in Digits
  BY <1>3
<1>5. ASSUME n < Len(b), b[n + 1] \in Digits
      PROVE  FALSE
  <2>1. n + 1 \in 0..Len(b) /\ \A j \in 1..(n + 1) : j \in 1..n \/ j = n + 1
    BY <1>1, <1>4, <1>5
  <2>2. n + 1 \in S
    BY <1>4, <1>5, <2>1
  <2>3. n + 1 <= n
    BY <1>3, <2>2
  <2> QED
    BY <1>4, <2>3
<1> QED
  BY <1>4, <1>5 DEF n

\* Digits alone are read as their number, unless it is too large.
LEMMA DigitsAreRead ==
    ASSUME NEW d \in Seq(Digits), d # <<>>
    PROVE  stoi(d) = IF Numeral(d) > INT_MAX THEN {} ELSE {Numeral(d)}
<1>1. Len(d) \in Nat /\ Len(d) # 0 /\ 1 \in 1..Len(d)
  OBVIOUS
<1>2. d[1] \in Digits
  BY <1>1
<1>3. string_trim_front(d, Space) = d
  <2>1. d[1] \notin Space
    BY <1>2, DigitsPlain
  <2> QED
    BY <2>1, NothingInFront
<1>4. ~Signed(d) /\ Unsigned(d) = d
  <2>1. d[1] \notin {"-", "+"}
    BY <1>2, DigitsPlain
  <2> QED
    BY <2>1 DEF Signed, Unsigned
<1>5. Leading(d) = Len(d)
  <2> DEFINE n == Leading(d)
  <2>1. n \in 0..Len(d) /\ (n < Len(d) => d[n + 1] \notin Digits)
    BY LeadingDigits
  <2> HIDE DEF n
  <2>2. n < Len(d) => n + 1 \in 1..Len(d)
    BY <1>1, <2>1
  <2>3. n < Len(d) => d[n + 1] \in Digits
    BY <2>2
  <2>4. n = Len(d)
    BY <1>1, <2>1, <2>3
  <2> QED
    BY <2>4 DEF n
<1>6. SubSeq(d, 1, Len(d)) = d
  BY SubSeqFull
<1>7. stoi(d) = LET n == Leading(Unsigned(d))
                    e == SubSeq(Unsigned(d), 1, n)
                IN  IF n = 0 \/ Numeral(e) > INT_MAX THEN {}
                    ELSE {IF Signed(d) /\ d[1] = "-" THEN -Numeral(e) ELSE Numeral(e)}
  BY <1>3, StoiIs
<1> QED
  BY <1>1, <1>4, <1>5, <1>6, <1>7

\* The number p is in s from i to j, after a plus at most.
NumberAt(s, i, j, p) ==
    /\ i \in 1..2 /\ (i = 2 => s[1] = "+") /\ j \in i..Len(s)
    /\ \A k \in i..j : s[k] \in Digits
    /\ j < Len(s) => s[j + 1] \notin Digits
    /\ stoi(SubSeq(s, i, j)) = {p}

\* A number that is positive has its digits in front, or after one plus.
LEMMA PositiveNumber ==
    ASSUME NEW C, NEW s \in Seq(C), s # <<>>, s[1] \notin Space, NEW p \in stoi(s), p > 0
    PROVE  \E i, j : NumberAt(s, i, j, p)
<1> DEFINE b == Unsigned(s)
           n == Leading(b)
           i == IF Signed(s) THEN 2 ELSE 1
           j == i + n - 1
           d == SubSeq(b, 1, n)
<1>1. Len(s) \in Nat /\ Len(s) >= 1
  OBVIOUS
<1>2. /\ b \in Seq(C) /\ Len(b) = Len(s) - i + 1
      /\ \A k \in 1..Len(b) : b[k] = s[i + k - 1]
  <2>1. CASE Signed(s)
    <3>1. b = Tail(s) /\ i = 2
      BY <2>1 DEF Unsigned
    <3>2. /\ Tail(s) \in Seq(C) /\ Len(Tail(s)) = Len(s) - 1
          /\ \A k \in 1..Len(Tail(s)) : Tail(s)[k] = s[k + 1]
      BY HeadTailProperties
    <3> HIDE DEF i, b
    <3>3. \A k \in 1..Len(Tail(s)) : i + k - 1 = k + 1
      BY <1>1, <3>1, <3>2
    <3> QED
      BY <1>1, <3>1, <3>2, <3>3
  <2>2. CASE ~Signed(s)
    <3>1. b = s /\ i = 1
      BY <2>2 DEF Unsigned
    <3> HIDE DEF i, b
    <3>2. \A k \in 1..Len(s) : i + k - 1 = k
      BY <1>1, <3>1
    <3> QED
      BY <1>1, <3>1, <3>2
  <2> QED
    BY <2>1, <2>2
<1>3. stoi(s) = IF n = 0 \/ Numeral(d) > INT_MAX THEN {}
                ELSE {IF Signed(s) /\ s[1] = "-" THEN -Numeral(d) ELSE Numeral(d)}
  <2>1. string_trim_front(s, Space) = s
    BY NothingInFront
  <2> QED
    BY <2>1, StoiIs
<1>4. i \in 1..2 /\ (i = 2 => Signed(s))
  OBVIOUS
<1> HIDE DEF b, i
<1>5. n \in 0..Len(b) /\ (\A k \in 1..n : b[k] \in Digits) /\ (n < Len(b) => b[n + 1] \notin Digits)
  BY <1>2, LeadingDigits
<1> HIDE DEF n
<1>6. n # 0 /\ ~(Numeral(d) > INT_MAX) /\ p = IF Signed(s) /\ s[1] = "-" THEN -Numeral(d) ELSE Numeral(d)
  <2> HIDE DEF d
  <2> QED
    BY <1>3
<1>7. n \in 1..Len(b) /\ Len(b) \in Nat /\ j \in i..Len(s) /\ i \in Nat /\ n \in Nat
  BY <1>1, <1>2, <1>4, <1>5, <1>6
<1>8. /\ d \in Seq(C) /\ Len(d) = n
      /\ \A k \in 1..n : d[k] = b[k]
  <2>1. 1 \in 1..(Len(b) + 1) /\ n \in 0..Len(b) /\ 1 <= n /\ n - 1 + 1 = n /\ \A k \in 1..n : 1 + k - 1 = k
    BY <1>7
  <2>2. /\ d \in Seq(C) /\ Len(d) = IF 1 <= n THEN n - 1 + 1 ELSE 0
        /\ \A k \in 1..(n - 1 + 1) : d[k] = b[1 + k - 1]
    BY <1>2, <2>1, PartIsSeq
  <2> QED
    BY <2>1, <2>2
<1>9. d = SubSeq(s, i, j)
  <2> DEFINE e == SubSeq(s, i, j)
  <2>1. i \in 1..(Len(s) + 1) /\ j \in 0..Len(s) /\ i <= j /\ j - i + 1 = n
    <3> DEFINE m == Len(s)
    <3>1. m \in Nat /\ i \in 1..2 /\ n \in Nat /\ n >= 1 /\ j \in i..m
      BY <1>1, <1>4, <1>7
    <3> HIDE DEF m
    <3>2. i \in 1..(m + 1) /\ j \in 0..m /\ i <= j /\ j - i + 1 = n
      BY <3>1
    <3> QED
      BY <3>2 DEF m
  <2> HIDE DEF j
  <2>2. e \in Seq(C) /\ Len(e) = n /\ \A k \in 1..n : e[k] = s[i + k - 1]
    BY <2>1, PartIsSeq
  <2>3. \A k \in 1..n : d[k] = s[i + k - 1]
    <3>1. \A k \in 1..n : k \in 1..Len(b)
      BY <1>7
    <3> QED
      BY <1>2, <1>8, <3>1
  <2> HIDE DEF d, e
  <2>4. d = e
    BY <1>8, <2>2, <2>3, SeqEqual
  <2> QED
    BY <2>4 DEF e
<1> HIDE DEF d
<1>10. d \in Seq(Digits) /\ d # <<>>
  <2>1. \A k \in 1..n : d[k] \in Digits
    BY <1>5, <1>8
  <2>2. d \in Seq(Digits)
    BY <1>8, <2>1
  <2> QED
    BY <1>6, <1>8, <2>2
<1>11. Numeral(d) \in Nat
  BY <1>10, NumeralIsNat
<1>12. p = Numeral(d) /\ ~(Signed(s) /\ s[1] = "-")
  <2> DEFINE x == Numeral(d)
  <2>1. x \in Nat /\ p = IF Signed(s) /\ s[1] = "-" THEN -x ELSE x
    BY <1>6, <1>11
  <2> HIDE DEF x
  <2>2. p = x /\ ~(Signed(s) /\ s[1] = "-")
    BY <2>1
  <2> QED
    BY <2>2 DEF x
<1>13. stoi(d) = {p}
  BY <1>6, <1>10, <1>12, DigitsAreRead
<1>14. i = 2 => s[1] = "+"
  BY <1>4, <1>12 DEF Signed
<1>15. \A k \in i..j : s[k] \in Digits
  <2>1. \A k \in i..j : k - i + 1 \in 1..n /\ k - i + 1 \in 1..Len(b) /\ i + (k - i + 1) - 1 = k
    BY <1>7
  <2>2. \A k \in i..j : b[k - i + 1] \in Digits /\ b[k - i + 1] = s[i + (k - i + 1) - 1]
    BY <1>2, <1>5, <2>1
  <2> QED
    BY <2>1, <2>2
<1>16. ASSUME j < Len(s)
       PROVE  s[j + 1] \notin Digits
  <2>1. n < Len(b) /\ n + 1 \in 1..Len(b) /\ i + (n + 1) - 1 = j + 1
    BY <1>1, <1>2, <1>7, <1>16
  <2> QED
    BY <1>2, <1>5, <2>1
<1>17. NumberAt(s, i, j, p)
  <2> HIDE DEF j
  <2> QED
    BY <1>4, <1>7, <1>9, <1>13, <1>14, <1>15, <1>16 DEF NumberAt
<1> QED
  BY <1>17

\* The places of one character are where it is.
LEMMA ColonPlaces ==
    ASSUME NEW C, NEW s \in Seq(C), NEW c, NEW from \in 1..(Len(s) + 1)
    PROVE  Places(s, <<c>>, from) = {i \in from..Len(s) : s[i] = c}
<1>1. Len(s) \in Nat /\ Len(<<c>>) = 1 /\ <<c>>[1] = c /\ Len(s) - 1 + 1 = Len(s)
  OBVIOUS
<1>2. ASSUME NEW i \in from..Len(s)
      PROVE  SubSeq(s, i, i + 1 - 1) = <<c>> <=> s[i] = c
  <2>1. i \in 1..(Len(s) + 1) /\ i \in 0..Len(s) /\ i + 1 - 1 = i /\ i - i + 1 = 1 /\ 1 \in 1..1
    BY <1>1
  <2>2. /\ SubSeq(s, i, i) \in Seq(C) /\ Len(SubSeq(s, i, i)) = 1
        /\ SubSeq(s, i, i)[1] = s[i + 1 - 1]
    BY <2>1, PartIsSeq
  <2> DEFINE e == SubSeq(s, i, i)
  <2>3. e \in Seq(C) /\ Len(e) = 1 /\ e[1] = s[i]
    BY <2>1, <2>2
  <2> HIDE DEF e
  <2>4. e = <<e[1]>>
    BY <2>3
  <2>5. e = <<c>> <=> s[i] = c
    BY <1>1, <2>3, <2>4
  <2> QED
    BY <2>1, <2>5 DEF e
<1>3. Places(s, <<c>>, from) = {i \in from..Len(s) : SubSeq(s, i, i + 1 - 1) = <<c>>}
  BY <1>1 DEF Places
<1> QED
  BY <1>2, <1>3

\* L are the parts of s between the positions of S, if those are fewer than two.
PartsOf(s, S, L) ==
    /\ S = {} => Len(L) = 1 /\ L[1] = s
    /\ S # {} => /\ Min(S) \in 1..Len(s) /\ L[1] = SubSeq(s, 1, Min(S) - 1)
                 /\ \/ Len(L) > 2
                    \/ Len(L) = 2 /\ S = {Min(S)} /\ L[2] = SubSeq(s, Min(S) + 1, Len(s))

\* Splitting by one character gives the parts between the places of it.
LEMMA SplitByOne ==
    ASSUME NEW C, NEW s \in Seq(C), s # <<>>, NEW c \in C
    PROVE  PartsOf(s, {i \in DOMAIN s : s[i] = c}, string_split(s, <<c>>))
<1> DEFINE n == Len(s)
           sep == <<c>>
           L == string_split(s, sep)
           S == {i \in DOMAIN s : s[i] = c}
           f == Min(S)
<1>1. n \in Nat /\ n >= 1 /\ DOMAIN s = 1..n /\ sep \in Seq(C) /\ sep # <<>> /\ Len(sep) = 1
  OBVIOUS
<1>2. PICK rest : Splits(rest, C, s, sep)
  BY <1>1, Splitting
<1>3. \A from \in 1..(n + 1) : Places(s, sep, from) = {i \in from..n : s[i] = c}
  BY ColonPlaces
<1> HIDE DEF sep
<1>4. L = rest[1] /\ \A from \in 1..(n + 1) : rest[from] \in Seq(Seq(C))
  BY <1>2 DEF Splits
<1>5. \A from \in 1..(n + 1) : Places(s, sep, from) = {} => rest[from] = <<SubSeq(s, from, n)>>
  BY <1>2 DEF Splits
<1>6. ASSUME NEW from \in 1..(n + 1), Places(s, sep, from) # {}
      PROVE  LET found == Min(Places(s, sep, from))
             IN  /\ rest[from] = Cat(<<SubSeq(s, from, found - 1)>>, rest[found + 1])
                 /\ SubSeq(s, from, found - 1) \in Seq(C)
                 /\ found \in from..n /\ \A i \in Places(s, sep, from) : found <= i
  <2> DEFINE found == Min(Places(s, sep, from))
  <2>1. rest[from] = Cat(<<SubSeq(s, from, found - 1)>>, rest[found + 1])
    BY <1>1, <1>2, <1>6 DEF Splits
  <2>2. found \in from..n /\ found - 1 \in 0..n /\ \A i \in Places(s, sep, from) : found <= i
    <3>1. found \in from..(n - Len(sep) + 1) /\ found - 1 \in 0..n /\ \A i \in Places(s, sep, from) : found <= i
      BY <1>1, <1>6, FirstPlace
    <3> HIDE DEF found
    <3> QED
      BY <1>1, <3>1
  <2> HIDE DEF found
  <2>3. SubSeq(s, from, found - 1) \in Seq(C)
    BY <2>2, PartIsSeq
  <2> QED
    BY <2>1, <2>2, <2>3 DEF found
<1> HIDE DEF L
<1>7. ASSUME NEW from \in 1..(n + 1)
      PROVE  Len(rest[from]) \in Nat /\ Len(rest[from]) >= 1
  <2>1. CASE Places(s, sep, from) = {}
    <3>1. rest[from] = <<SubSeq(s, from, n)>>
      BY <1>5, <2>1
    <3>2. Len(<<SubSeq(s, from, n)>>) = 1
      OBVIOUS
    <3> QED
      BY <3>1, <3>2
  <2>2. CASE Places(s, sep, from) # {}
    <3> DEFINE found == Min(Places(s, sep, from))
               p == SubSeq(s, from, found - 1)
               r == rest[found + 1]
    <3>1. rest[from] = Cat(<<p>>, r) /\ p \in Seq(C) /\ found \in from..n
      BY <1>6, <2>2
    <3> HIDE DEF found
    <3>2. found + 1 \in 1..(n + 1)
      BY <1>1, <3>1
    <3>3. r \in Seq(Seq(C))
      BY <1>4, <3>2
    <3> HIDE DEF p, r
    <3>4. <<p>> \in Seq(Seq(C)) /\ Len(<<p>>) = 1
      BY <3>1
    <3>5. Len(Cat(<<p>>, r)) = 1 + Len(r)
      BY ONLY <3>3, <3>4, CatType
    <3>6. Len(r) \in Nat
      BY <3>3
    <3> QED
      BY <3>1, <3>5, <3>6
  <2> QED
    BY <2>1, <2>2
<1>8. Places(s, sep, 1) = S
  <2>1. 1 \in 1..(n + 1)
    BY <1>1
  <2> QED
    BY <1>1, <1>3, <2>1
<1>9. CASE S = {}
  <2>1. 1 \in 1..(n + 1) /\ SubSeq(s, 1, n) = s
    BY <1>1, SubSeqFull
  <2>2. L = <<s>>
    <3> HIDE DEF S
    <3> QED
      BY <1>4, <1>5, <1>8, <1>9, <2>1
  <2>3. Len(<<s>>) = 1 /\ <<s>>[1] = s
    OBVIOUS
  <2>4. Len(L) = 1 /\ L[1] = s
    BY <2>2, <2>3
  <2> QED
    BY <1>9, <2>4 DEF L, sep, PartsOf
<1>10. CASE S # {}
  <2> DEFINE p == SubSeq(s, 1, f - 1)
             r == rest[f + 1]
  <2>1. L = Cat(<<p>>, r) /\ p \in Seq(C) /\ f \in 1..n /\ \A i \in S : f <= i
    <3>1. 1 \in 1..(n + 1)
      BY <1>1
    <3> HIDE DEF S
    <3> QED
      BY <1>4, <1>6, <1>8, <1>10, <3>1
  <2>2. f \in S
    <3>1. S \in SUBSET Nat
      BY <1>1
    <3> HIDE DEF S
    <3> QED
      BY <1>10, <3>1, MinOf
  <2>3. s[f] = c
    <3> HIDE DEF f
    <3> QED
      BY <2>2
  <2> HIDE DEF f
  <2>4. f + 1 \in 1..(n + 1)
    BY <1>1, <2>1
  <2>5. r \in Seq(Seq(C)) /\ Len(r) \in Nat /\ Len(r) >= 1
    BY <1>4, <1>7, <2>4
  <2> HIDE DEF p, r
  <2>6. /\ Len(L) = 1 + Len(r) /\ L[1] = p
        /\ \A k \in 1..Len(r) : L[k + 1] = r[k]
    <3>1. <<p>> \in Seq(Seq(C)) /\ Len(<<p>>) = 1 /\ <<p>>[1] = p
      BY <2>1
    <3>2. /\ Len(<<p>> \o r) = 1 + Len(r)
          /\ \A i \in 1..(1 + Len(r)) : (<<p>> \o r)[i] = IF i <= 1 THEN <<p>>[i] ELSE r[i - 1]
      BY <2>5, <3>1, ConcatProperties
    <3>3. L = <<p>> \o r
      BY <2>1 DEF Cat
    <3>4. \A k \in 1..Len(r) : k + 1 \in 1..(1 + Len(r)) /\ ~(k + 1 <= 1) /\ (k + 1) - 1 = k
      BY <2>5
    <3>5. 1 \in 1..(1 + Len(r))
      BY <2>5
    <3> QED
      BY <3>1, <3>2, <3>3, <3>4, <3>5
  <2>7. CASE Places(s, sep, f + 1) = {}
    <3>1. r = <<SubSeq(s, f + 1, n)>>
      BY <1>5, <2>4, <2>7 DEF r
    <3>2. Len(r) = 1 /\ r[1] = SubSeq(s, f + 1, n)
      BY <3>1
    <3>3. Len(L) = 2 /\ L[2] = SubSeq(s, f + 1, n)
      <4>1. 1 \in 1..Len(r) /\ 1 + 1 = 2
        BY <3>2
      <4> HIDE DEF n
      <4> QED
        BY <2>6, <3>2, <4>1
    <3>4. S = {f}
      <4>1. \A i \in (f + 1)..n : s[i] # c
        BY <1>3, <2>4, <2>7
      <4>2. \A i \in S : i \in f..n
        BY <1>1, <2>1
      <4>3. \A i \in f..n : i = f \/ i \in (f + 1)..n
        BY <1>1, <2>1
      <4> QED
        BY <2>2, <4>1, <4>2, <4>3
    <3> QED
      BY <1>10, <2>1, <2>3, <2>6, <3>3, <3>4 DEF L, sep, p, f, PartsOf
  <2>8. CASE Places(s, sep, f + 1) # {}
    <3> DEFINE found == Min(Places(s, sep, f + 1))
               a == SubSeq(s, f + 1, found - 1)
               b == rest[found + 1]
    <3>1. r = Cat(<<a>>, b) /\ a \in Seq(C) /\ found \in (f + 1)..n
      BY <1>6, <2>4, <2>8 DEF r
    <3> HIDE DEF found
    <3>2. found + 1 \in 1..(n + 1)
      BY <1>1, <2>1, <3>1
    <3>3. b \in Seq(Seq(C)) /\ Len(b) \in Nat /\ Len(b) >= 1
      BY <1>4, <1>7, <3>2
    <3> HIDE DEF a, b
    <3>4. <<a>> \in Seq(Seq(C)) /\ Len(<<a>>) = 1
      BY <3>1
    <3>5. Len(Cat(<<a>>, b)) = 1 + Len(b)
      BY <3>3, <3>4, CatType
    <3>6. Len(r) > 1
      BY <3>1, <3>3, <3>5
    <3>7. Len(L) > 2
      BY <2>5, <2>6, <3>6
    <3> QED
      BY <1>10, <2>1, <2>3, <2>6, <3>7 DEF L, sep, p, f, PartsOf
  <2> QED
    BY <2>7, <2>8
<1> QED
  BY <1>9, <1>10

\* The number p is read of s at i to j: from from on, only blanks are before it, or a plus.
ReadAt(s, from, i, j, p) ==
    /\ i \in from..Len(s) /\ j \in i..Len(s)
    /\ \A k \in from..(i - 1) : s[k] \in Space \/ (k = i - 1 /\ s[k] = "+")
    /\ \A k \in i..j : s[k] \in Digits
    /\ j < Len(s) => s[j + 1] \notin Digits
    /\ stoi(SubSeq(s, i, j)) = {p}

\* No number is read of an empty string.
LEMMA StoiOfNothing == stoi(<<>>) = {}
<1>1. string_trim_front(<<>>, Space) = <<>>
  BY DEF string_trim_front
<1>2. Unsigned(<<>>) = <<>>
  BY DEF Unsigned, Signed
<1>3. Leading(<<>>) = 0
  <2>1. <<>> \in Seq(Nat) /\ Len(<<>>) = 0
    OBVIOUS
  <2>2. Leading(<<>>) \in 0..0
    BY <2>1, LeadingDigits
  <2> QED
    BY <2>2
<1> QED
  BY <1>1, <1>2, <1>3, StoiIs

\* The number of processes is read of the digits after the blanks.
LEMMA NumberRead ==
    ASSUME NEW C, NEW w \in Seq(C), NEW p \in stoi(string_trim(w, Space)), p > 0
    PROVE  \E i, j : ReadAt(w, 1, i, j, p)
<1> DEFINE u == string_trim(w, Space)
<1>1. u # <<>>
  BY StoiOfNothing
<1>2. PICK a, b : Trimmed(w, Space, a, b)
  BY <1>1, Trimming
<1>3. /\ a \in 1..Len(w) /\ b \in 1..Len(w) /\ a <= b
      /\ w[a] \notin Space
      /\ \A k \in 1..Len(w) : w[k] \notin Space => k \in a..b
      /\ u = SubSeq(w, a, b) /\ Len(w) \in Nat
  BY <1>2 DEF Trimmed
<1>4. /\ u \in Seq(C) /\ Len(u) = b - a + 1 /\ \A k \in 1..(b - a + 1) : u[k] = w[a + k - 1]
  <2>1. a \in 1..(Len(w) + 1) /\ b \in 0..Len(w)
    BY <1>3
  <2>2. /\ SubSeq(w, a, b) \in Seq(C)
        /\ Len(SubSeq(w, a, b)) = IF a <= b THEN b - a + 1 ELSE 0
        /\ \A k \in 1..(b - a + 1) : SubSeq(w, a, b)[k] = w[a + k - 1]
    BY <2>1, PartIsSeq
  <2> HIDE DEF u
  <2> QED
    BY <1>3, <2>2
<1>5. u[1] \notin Space
  <2>1. 1 \in 1..(b - a + 1) /\ a + 1 - 1 = a
    BY <1>3
  <2> QED
    BY <1>3, <1>4, <2>1
<1>6. PICK x, y : NumberAt(u, x, y, p)
  <2>1. p \in stoi(u)
    OBVIOUS
  <2> HIDE DEF u
  <2> QED
    BY <1>1, <1>4, <1>5, <2>1, PositiveNumber
<1>7. /\ x \in 1..2 /\ (x = 2 => u[1] = "+") /\ y \in x..(b - a + 1)
      /\ \A k \in x..y : u[k] \in Digits
      /\ y < b - a + 1 => u[y + 1] \notin Digits
      /\ stoi(SubSeq(u, x, y)) = {p}
  <2> HIDE DEF u
  <2> QED
    BY <1>4, <1>6 DEF NumberAt
<1> DEFINE i == a + x - 1
           j == a + y - 1
           n == Len(w)
<1>8. /\ i \in 1..n /\ j \in i..n /\ n \in Nat /\ a \in 1..n /\ b \in 1..n /\ j <= b
      /\ x \in Nat /\ y \in Nat
  BY <1>3, <1>7
<1>9. SubSeq(u, x, y) = SubSeq(w, i, j)
  <2>1. /\ a \in 1..(Len(w) + 1) /\ b \in (a - 1)..Len(w)
        /\ x \in 1..(b - a + 2) /\ y \in (x - 1)..(b - a + 1)
    BY <1>3, <1>7
  <2>2. SubSeq(SubSeq(w, a, b), x, y) = SubSeq(w, a + x - 1, a + y - 1)
    BY <2>1, PartOfPart
  <2> QED
    BY <1>3, <2>2
<1> HIDE DEF u
<1>10. ASSUME NEW k \in 1..(i - 1)
       PROVE  w[k] \in Space \/ (k = i - 1 /\ w[k] = "+")
  <2>1. CASE k < a
    <3>1. k \in 1..Len(w) /\ k \notin a..b
      BY <1>8, <2>1
    <3> QED
      BY <1>3, <3>1
  <2>2. CASE ~(k < a)
    <3>1. x = 2 /\ k = a /\ k = i - 1 /\ a + 1 - 1 = a /\ 1 \in 1..(b - a + 1)
      BY <1>3, <1>7, <2>2
    <3>2. w[a] = u[1]
      BY <1>4, <3>1
    <3> QED
      BY <1>7, <3>1, <3>2
  <2> QED
    BY <2>1, <2>2
<1>11. ASSUME NEW k \in i..j
       PROVE  w[k] \in Digits
  <2>1. k - a + 1 \in x..y /\ k - a + 1 \in 1..(b - a + 1) /\ a + (k - a + 1) - 1 = k
    BY <1>3, <1>7
  <2>2. u[k - a + 1] \in Digits
    BY <1>7, <2>1
  <2>3. u[k - a + 1] = w[a + (k - a + 1) - 1]
    BY <1>4, <2>1
  <2> QED
    BY <2>1, <2>2, <2>3
<1>12. ASSUME j < n
       PROVE  w[j + 1] \notin Digits
  <2>1. CASE y < b - a + 1
    <3>1. y + 1 \in 1..(b - a + 1) /\ a + (y + 1) - 1 = j + 1
      BY <1>3, <1>7, <2>1
    <3> QED
      BY <1>4, <1>7, <2>1, <3>1
  <2>2. CASE ~(y < b - a + 1)
    <3>1. j + 1 \in 1..Len(w) /\ j + 1 \notin a..b
      BY <1>3, <1>7, <1>12, <2>2
    <3>2. w[j + 1] \in Space
      BY <1>3, <3>1
    <3> QED
      BY <3>2, DigitsPlain
  <2> QED
    BY <2>1, <2>2
<1>13. ReadAt(w, 1, i, j, p)
  <2>1. stoi(SubSeq(w, i, j)) = {p}
    BY <1>7, <1>9
  <2> HIDE DEF i, j
  <2> QED
    BY <1>8, <1>10, <1>11, <1>12, <2>1 DEF ReadAt
<1> QED
  BY <1>13

\* A number in a part of s is in s.
LEMMA ReadAfter ==
    ASSUME NEW C, NEW s \in Seq(C), NEW f \in 0..Len(s), NEW i, NEW j, NEW p,
           ReadAt(SubSeq(s, f + 1, Len(s)), 1, i, j, p)
    PROVE  ReadAt(s, f + 1, f + i, f + j, p)
<1> DEFINE n == Len(s)
           w == SubSeq(s, f + 1, n)
           m == n - f
<1>1. n \in Nat /\ f \in 0..n /\ m \in Nat
  OBVIOUS
<1>2. /\ w \in Seq(C) /\ Len(w) = m /\ \A k \in 1..m : w[k] = s[f + k]
  <2>1. f + 1 \in 1..(Len(s) + 1) /\ n \in 0..Len(s) /\ n - (f + 1) + 1 = m
    BY <1>1
  <2>2. /\ w \in Seq(C) /\ Len(w) = IF f + 1 <= n THEN n - (f + 1) + 1 ELSE 0
        /\ \A k \in 1..(n - (f + 1) + 1) : w[k] = s[(f + 1) + k - 1]
    BY <2>1, PartIsSeq
  <2> HIDE DEF w
  <2>3. (f + 1 <= n) \/ m = 0
    BY <1>1
  <2>4. \A k \in 1..m : (f + 1) + k - 1 = f + k
    BY <1>1
  <2>5. \A k \in 1..m : w[k] = s[f + k]
    BY <2>1, <2>2, <2>4
  <2>6. Len(w) = m
    BY <2>1, <2>2, <2>3
  <2> QED
    BY <2>2, <2>5, <2>6
<1>3. /\ i \in 1..m /\ j \in i..m
      /\ \A k \in 1..(i - 1) : w[k] \in Space \/ (k = i - 1 /\ w[k] = "+")
      /\ \A k \in i..j : w[k] \in Digits
      /\ j < m => w[j + 1] \notin Digits
      /\ stoi(SubSeq(w, i, j)) = {p}
  <2>1. ReadAt(w, 1, i, j, p)
    OBVIOUS
  <2> HIDE DEF w
  <2> QED
    BY <1>2, <2>1 DEF ReadAt
<1>4. SubSeq(w, i, j) = SubSeq(s, f + i, f + j)
  <2>1. /\ f + 1 \in 1..(Len(s) + 1) /\ n \in ((f + 1) - 1)..Len(s)
        /\ i \in 1..(n - (f + 1) + 2) /\ j \in (i - 1)..(n - (f + 1) + 1)
        /\ (f + 1) + i - 1 = f + i /\ (f + 1) + j - 1 = f + j
    <3>1. n \in Nat /\ f \in 0..n /\ i \in 1..(n - f) /\ j \in i..(n - f)
      BY <1>1, <1>3
    <3> HIDE DEF n
    <3>2. /\ f + 1 \in 1..(n + 1) /\ n \in ((f + 1) - 1)..n
          /\ i \in 1..(n - (f + 1) + 2) /\ j \in (i - 1)..(n - (f + 1) + 1)
          /\ (f + 1) + i - 1 = f + i /\ (f + 1) + j - 1 = f + j
      BY <3>1
    <3> QED
      BY <3>2 DEF n
  <2>2. SubSeq(w, i, j) = SubSeq(s, (f + 1) + i - 1, (f + 1) + j - 1)
    BY <2>1, PartOfPart
  <2> QED
    BY <2>1, <2>2
<1> HIDE DEF w
<1>5. f + i \in (f + 1)..n /\ f + j \in (f + i)..n
  BY <1>1, <1>3
<1>6. ASSUME NEW k \in (f + 1)..(f + i - 1)
      PROVE  s[k] \in Space \/ (k = f + i - 1 /\ s[k] = "+")
  <2>1. k - f \in 1..(i - 1) /\ k - f \in 1..m /\ f + (k - f) = k /\ (k - f = i - 1 => k = f + i - 1)
    BY <1>1, <1>3
  <2>2. w[k - f] = s[f + (k - f)]
    BY <1>2, <2>1
  <2>3. w[k - f] \in Space \/ (k - f = i - 1 /\ w[k - f] = "+")
    BY <1>3, <2>1
  <2> QED
    BY <2>1, <2>2, <2>3
<1>7. ASSUME NEW k \in (f + i)..(f + j)
      PROVE  s[k] \in Digits
  <2>1. k - f \in i..j /\ k - f \in 1..m /\ f + (k - f) = k
    BY <1>1, <1>3
  <2>2. w[k - f] = s[f + (k - f)]
    BY <1>2, <2>1
  <2> QED
    BY <1>3, <2>1, <2>2
<1>8. ASSUME f + j < n
      PROVE  s[f + j + 1] \notin Digits
  <2>1. j < m /\ j + 1 \in 1..m /\ f + (j + 1) = f + j + 1
    BY <1>1, <1>3, <1>8
  <2>2. w[j + 1] = s[f + (j + 1)]
    BY <1>2, <2>1
  <2> QED
    BY <1>3, <2>1, <2>2
<1>9. stoi(SubSeq(s, f + i, f + j)) = {p}
  BY <1>3, <1>4
<1> QED
  BY <1>5, <1>6, <1>7, <1>8, <1>9 DEF ReadAt

\* The host that is named before end.
HostAt(line, end, name) ==
    \E i, j \in 1..(end - 1) :
        /\ i <= j /\ name = SubSeq(line, i, j)
        /\ line[i] \notin Space /\ line[j] \notin Space
        /\ \A k \in 1..(end - 1) : line[k] \notin Space => k \in i..j

\* The host is what is between the blanks before end.
LEMMA HostRead ==
    ASSUME NEW C, NEW s \in Seq(C), NEW end \in 1..(Len(s) + 1), NEW w, w = SubSeq(s, 1, end - 1),
           string_trim(w, Space) # <<>>
    PROVE  HostAt(s, end, string_trim(w, Space))
<1>1. Len(s) \in Nat /\ end \in Nat
  OBVIOUS
<1>2. w \in Seq(C) /\ Len(w) = end - 1 /\ \A k \in 1..(end - 1) : w[k] = s[k]
  <2>1. 1 \in 1..(Len(s) + 1) /\ end - 1 \in 0..Len(s) /\ (end - 1) - 1 + 1 = end - 1
    BY <1>1
  <2>2. /\ w \in Seq(C) /\ Len(w) = IF 1 <= end - 1 THEN (end - 1) - 1 + 1 ELSE 0
        /\ \A k \in 1..((end - 1) - 1 + 1) : w[k] = s[1 + k - 1]
    BY <2>1, PartIsSeq
  <2>3. (1 <= end - 1) \/ end - 1 = 0
    BY <1>1
  <2>4. \A k \in 1..(end - 1) : 1 + k - 1 = k
    BY <1>1
  <2> QED
    BY <2>1, <2>2, <2>3, <2>4
<1>3. PICK a, b : Trimmed(w, Space, a, b)
  BY <1>2, Trimming
<1>4. /\ a \in 1..(end - 1) /\ b \in 1..(end - 1) /\ a <= b
      /\ w[a] \notin Space /\ w[b] \notin Space
      /\ \A k \in 1..(end - 1) : w[k] \notin Space => k \in a..b
      /\ string_trim(w, Space) = SubSeq(w, a, b)
  BY <1>2, <1>3 DEF Trimmed
<1>5. SubSeq(w, a, b) = SubSeq(s, a, b)
  <2>1. /\ 1 \in 1..(Len(s) + 1) /\ end - 1 \in (1 - 1)..Len(s)
        /\ a \in 1..((end - 1) - 1 + 2) /\ b \in (a - 1)..((end - 1) - 1 + 1)
        /\ 1 + a - 1 = a /\ 1 + b - 1 = b
    BY <1>1, <1>4
  <2>2. SubSeq(SubSeq(s, 1, end - 1), a, b) = SubSeq(s, 1 + a - 1, 1 + b - 1)
    BY <2>1, PartOfPart
  <2> QED
    BY <2>1, <2>2
<1>6. s[a] \notin Space /\ s[b] \notin Space /\ \A k \in 1..(end - 1) : s[k] \notin Space => k \in a..b
  BY <1>2, <1>4
<1> QED
  BY <1>4, <1>5, <1>6 DEF HostAt

\* That line names e, where S are the colons in it, and end the first or the end.
NamesWith(line, e, S, end) ==
    /\ Cardinality(S) <= 1
    /\ \E i, j \in 1..(end - 1) :
          /\ i <= j /\ e.hostname = SubSeq(line, i, j)
          /\ line[i] \notin Space /\ line[j] \notin Space
          /\ \A k \in 1..(end - 1) : line[k] \notin Space => k \in i..j
    /\ IF S = {} THEN e.process_num = 1
       ELSE \E i, j \in (end + 1)..Len(line) :
               /\ i <= j
               /\ \A k \in (end + 1)..(i - 1) :
                     line[k] \in Space \/ (k = i - 1 /\ line[k] = "+")
               /\ \A k \in i..j : line[k] \in Digits
               /\ j < Len(line) => line[j + 1] \notin Digits
               /\ e.process_num > 0 /\ stoi(SubSeq(line, i, j)) = {e.process_num}

\* A line names what was read of it.
LEMMA NamesIs ==
    ASSUME NEW line, NEW e, NEW S, NEW end,
           Cardinality(S) <= 1, HostAt(line, end, e.hostname),
           S = {} => e.process_num = 1,
           S # {} => e.process_num > 0 /\ \E i, j : ReadAt(line, end + 1, i, j, e.process_num),
           end \in Nat, Len(line) \in Nat
    PROVE  NamesWith(line, e, S, end)
<1>1. ASSUME S # {}
      PROVE  \E i, j \in (end + 1)..Len(line) :
                   /\ i <= j
                   /\ \A k \in (end + 1)..(i - 1) :
                         line[k] \in Space \/ (k = i - 1 /\ line[k] = "+")
                   /\ \A k \in i..j : line[k] \in Digits
                   /\ j < Len(line) => line[j + 1] \notin Digits
                   /\ e.process_num > 0 /\ stoi(SubSeq(line, i, j)) = {e.process_num}
  <2>1. PICK i, j : ReadAt(line, end + 1, i, j, e.process_num)
    BY <1>1
  <2>2. /\ i \in (end + 1)..Len(line) /\ j \in i..Len(line)
        /\ \A k \in (end + 1)..(i - 1) : line[k] \in Space \/ (k = i - 1 /\ line[k] = "+")
        /\ \A k \in i..j : line[k] \in Digits
        /\ j < Len(line) => line[j + 1] \notin Digits
        /\ stoi(SubSeq(line, i, j)) = {e.process_num}
    BY <2>1 DEF ReadAt
  <2>3. i <= j /\ j \in (end + 1)..Len(line)
    BY <2>2
  <2> QED
    BY <1>1, <2>2, <2>3
<1>2. \E i, j \in 1..(end - 1) :
              /\ i <= j /\ e.hostname = SubSeq(line, i, j)
              /\ line[i] \notin Space /\ line[j] \notin Space
              /\ \A k \in 1..(end - 1) : line[k] \notin Space => k \in i..j
  BY DEF HostAt
<1> QED
  BY <1>1, <1>2, Zenon DEF NamesWith

\* An entry is what its line names.
THEOREM EntryNames ==
    ASSUME NEW C, ":" \in C, NEW line \in Seq(C), NEW e \in parse_host_file_entry(line)
    PROVE  Names(line, e)
<1> DEFINE L == string_split(line, <<":">>)
           H == string_trim(L[1], Space)
           N == IF Len(L) = 1 THEN {1} ELSE stoi(string_trim(L[2], Space))
           S == {i \in DOMAIN line : line[i] = ":"}
           end == IF S = {} THEN Len(line) + 1 ELSE Min(S)
           n == Len(line)
<1>1. PICK q \in N : /\ e = [hostname |-> H, process_num |-> q] /\ q > 0
                     /\ ~(Len(L) > 2) /\ H # <<>>
  BY DEF parse_host_file_entry
<1>2. n \in Nat /\ DOMAIN line = 1..n
  OBVIOUS
<1>3. line # <<>>
  <2>1. ASSUME line = <<>>
        PROVE  FALSE
    <3>1. L[1] = <<>>
      BY <2>1 DEF string_split
    <3>2. <<>> \in Seq(C) /\ ToSet(<<>>) \subseteq Space
      BY DEF ToSet
    <3>3. string_trim(<<>>, Space) = <<>>
      BY <3>2, Trimming
    <3> QED
      BY <1>1, <3>1, <3>3
  <2> QED
    BY <2>1
<1>4. /\ S = {} => Len(L) = 1 /\ L[1] = line
      /\ S # {} => /\ Min(S) \in 1..n /\ L[1] = SubSeq(line, 1, Min(S) - 1)
                   /\ Len(L) > 2 \/ (Len(L) = 2 /\ S = {Min(S)} /\ L[2] = SubSeq(line, Min(S) + 1, n))
  <2>1. PartsOf(line, S, L)
    BY <1>3, SplitByOne
  <2> HIDE DEF S, L
  <2> QED
    BY <2>1 DEF PartsOf
<1>5. e.hostname = H /\ e.process_num = q
  BY <1>1
<1>6. end \in 1..(n + 1) /\ L[1] = SubSeq(line, 1, end - 1)
  <2>1. CASE S = {}
    <3>1. (n + 1) - 1 = n /\ SubSeq(line, 1, n) = line
      BY <1>2, SubSeqFull
    <3>2. end = n + 1
      BY <2>1
    <3>3. L[1] = line
      BY <1>4, <2>1
    <3> HIDE DEF L, end
    <3> QED
      BY <1>2, <3>1, <3>2, <3>3
  <2>2. CASE S # {}
    <3>1. end = Min(S) /\ Min(S) \in 1..n /\ L[1] = SubSeq(line, 1, Min(S) - 1)
      BY <1>4, <2>2
    <3> HIDE DEF L, end, S
    <3> QED
      BY <1>2, <3>1
  <2> QED
    BY <2>1, <2>2
<1> HIDE DEF L
<1>10. Names(line, e) <=> NamesWith(line, e, S, end)
  BY DEF Names, NamesWith
<1>7. HostAt(line, end, H)
  <2> HIDE DEF end
  <2> QED
    BY <1>1, <1>6, HostRead
<1>8. CASE S = {}
  <2>1. q = 1
    <3>1. N = {1}
      BY <1>4, <1>8
    <3>2. q \in N
      OBVIOUS
    <3> HIDE DEF N
    <3> QED
      BY <3>1, <3>2
  <2>2. Cardinality(S) <= 1
    <3>1. Cardinality({}) = 0
      BY FS_EmptySet
    <3> HIDE DEF S
    <3> QED
      BY <1>8, <3>1
  <2>4. end \in Nat
    BY <1>2, <1>6
  <2> HIDE DEF S, end, H
  <2> QED
    BY <1>2, <1>5, <1>7, <1>8, <1>10, <2>1, <2>2, <2>4, NamesIs
<1>9. CASE S # {}
  <2>1. /\ Min(S) \in 1..n /\ Len(L) = 2 /\ S = {Min(S)} /\ L[2] = SubSeq(line, Min(S) + 1, n)
        /\ end = Min(S)
    BY <1>1, <1>4, <1>9
  <2> HIDE DEF end, S
  <2>2. Cardinality(S) <= 1
    <3>1. PICK x : S = {x}
      BY <2>1
    <3>2. \A y : Cardinality({y}) = 1
      BY FS_Singleton
    <3>3. Cardinality(S) = 1
      BY ONLY <3>1, <3>2
    <3> QED
      BY <3>3
  <2>3. q \in stoi(string_trim(SubSeq(line, end + 1, n), Space))
    <3>1. N = stoi(string_trim(L[2], Space))
      BY <2>1
    <3> HIDE DEF N
    <3> QED
      BY <2>1, <3>1
  <2>4. SubSeq(line, end + 1, n) \in Seq(C)
    <3>1. end + 1 \in 1..(Len(line) + 1) /\ n \in 0..Len(line)
      BY <1>2, <2>1
    <3> QED
      BY <3>1, PartIsSeq
  <2>5. PICK i, j : ReadAt(SubSeq(line, end + 1, n), 1, i, j, q)
    <3> HIDE DEF n
    <3> QED
      BY <1>1, <2>3, <2>4, NumberRead
  <2>6. ReadAt(line, end + 1, end + i, end + j, q)
    <3>1. end \in 0..Len(line)
      BY <1>2, <2>1
    <3> QED
      BY <2>5, <3>1, ReadAfter
  <2>8. end \in Nat
    BY <1>2, <1>6
  <2>9. e.process_num > 0 /\ \E x, y : ReadAt(line, end + 1, x, y, e.process_num)
    BY <1>1, <1>5, <2>6
  <2> HIDE DEF H
  <2> QED
    BY <1>2, <1>5, <1>7, <1>9, <1>10, <2>2, <2>8, <2>9, NamesIs
<1> QED
  BY <1>8, <1>9

\* What is read with one more line.
Appends(hosts, entries) == {Append(h, e) : h \in hosts, e \in entries}

ReadOne(hosts, line) ==
    IF string_trim(line, Space) = <<>> THEN hosts
    ELSE Appends(hosts, parse_host_file_entry(line))

\* acc[i] is what is read of the first i lines.
Reads(acc, E, lines) ==
    /\ acc[0] = {<<>>}
    /\ \A i \in 0..Len(lines) : acc[i] \in SUBSET Seq(E)
    /\ \A i \in 1..Len(lines) :
          acc[i] = ReadOne(acc[i - 1], lines[i])
    /\ read_host_file(lines) = acc[Len(lines)] \ {<<>>}

\* read_host_file reads one line after the other (coordinator.cpp).
LEMMA Reading ==
    ASSUME NEW C, NEW lines \in Seq(C), NEW E, \A i \in 1..Len(lines) : parse_host_file_entry(lines[i]) \subseteq E
    PROVE  \E acc : Reads(acc, E, lines)
<1> DEFINE n == Len(lines)
           V == SUBSET Seq(E)
           step == [p \in (1..n) \X V |-> ReadOne(p[2], lines[p[1]])]
           D == SUBSET (1..n)
           F == CHOOSE iter : iter = [s \in SUBSET DOMAIN lines |->
                    IF s = {} THEN {<<>>}
                    ELSE LET x == Max(s) IN ReadOne(iter[s \ {x}], lines[x])]
<1>1. n \in Nat /\ DOMAIN lines = 1..n
  BY LenProperties
<1>2. read_host_file(lines) = F[1..n] \ {<<>>}
  BY <1>1 DEF read_host_file, ReadOne, Appends, FoldLeft, MapThenFoldSet
<1>3. ASSUME NEW i \in 1..n, NEW v \in V
      PROVE  step[<<i, v>>] = ReadOne(v, lines[i]) /\ ReadOne(v, lines[i]) \in V
  <2>1. \A h \in v, e \in parse_host_file_entry(lines[i]) : Append(h, e) \in Seq(E)
    <3>1. ASSUME NEW h \in v, NEW e \in parse_host_file_entry(lines[i])
          PROVE  Append(h, e) \in Seq(E)
      <4>1. h \in Seq(E) /\ e \in E
        OBVIOUS
      <4> QED
        BY <4>1, AppendProperties
    <3> QED
      BY <3>1
  <2>2. ReadOne(v, lines[i]) \in V
    BY <2>1 DEF ReadOne, Appends
  <2>3. <<i, v>> \in (1..n) \X V
    OBVIOUS
  <2> HIDE DEF V
  <2> QED
    BY <2>2, <2>3
<1>4. Iterable(V, {<<>>}, n, step)
  <2>1. step \in [(1..n) \X V -> V]
    <3>1. \A p \in (1..n) \X V : ReadOne(p[2], lines[p[1]]) \in V
      <4> HIDE DEF V
      <4>1. ASSUME NEW p \in (1..n) \X V
            PROVE  p[1] \in 1..n /\ p[2] \in V
        OBVIOUS
      <4> QED
        BY <1>3, <4>1
    <3> HIDE DEF V
    <3> QED
      BY <3>1
  <2>2. {<<>>} \in V
    OBVIOUS
  <2> HIDE DEF V, step
  <2> QED
    BY <1>1, <2>1, <2>2 DEF Iterable
<1>5. PICK it : \A S \in D : it[S] \in V /\ it[S] = IF S = {} THEN {<<>>} ELSE step[<<Max(S), it[S \ {Max(S)}]>>]
  <2>1. \E it : FoldsSets(it, V, {<<>>}, n, step)
    <3> HIDE DEF V, step, n
    <3> QED
      BY <1>4, FoldRecursion
  <2> HIDE DEF V, step
  <2> QED
    BY <2>1 DEF FoldsSets
<1>6. ASSUME NEW S \in D, S # {}
      PROVE  Max(S) \in 1..n /\ S \ {Max(S)} \in D
  BY <1>1, <1>6, MaxPosition
<1> DEFINE g == [S \in D |-> it[S]]
<1> HIDE DEF V
<1>7. ASSUME NEW S \in D
      PROVE  g[S] = IF S = {} THEN {<<>>} ELSE ReadOne(g[S \ {Max(S)}], lines[Max(S)])
  <2>1. CASE S = {}
    BY <1>5, <2>1
  <2>2. CASE S # {}
    <3>1. Max(S) \in 1..n /\ S \ {Max(S)} \in D
      BY <1>6, <2>2
    <3>2. it[S \ {Max(S)}] \in V
      BY <1>5, <3>1
    <3>3. it[S] = ReadOne(it[S \ {Max(S)}], lines[Max(S)])
      <4> HIDE DEF V, step
      <4> QED
        BY <1>3, <1>5, <2>2, <3>1, <3>2
    <3> QED
      BY <2>2, <3>1, <3>3
  <2> QED
    BY <2>1, <2>2
<1>8. g = [s \in SUBSET DOMAIN lines |->
              IF s = {} THEN {<<>>} ELSE LET x == Max(s) IN ReadOne(g[s \ {x}], lines[x])]
  <2>1. SUBSET DOMAIN lines = D /\ DOMAIN g = D
    BY <1>1
  <2> HIDE DEF D
  <2>2. g = [s \in D |-> g[s]]
    OBVIOUS
  <2> HIDE DEF g
  <2> QED
    BY <1>7, <2>1, <2>2
<1>9. F = [s \in SUBSET DOMAIN lines |->
              IF s = {} THEN {<<>>} ELSE LET x == Max(s) IN ReadOne(F[s \ {x}], lines[x])]
  <2> HIDE DEF g
  <2> QED
    BY <1>8
<1>10. ASSUME NEW S \in D
       PROVE  F[S] = IF S = {} THEN {<<>>} ELSE ReadOne(F[S \ {Max(S)}], lines[Max(S)])
  <2>1. S \in SUBSET DOMAIN lines
    BY <1>1
  <2> HIDE DEF F
  <2> QED
    BY <1>9, <2>1
<1> HIDE DEF F, g
<1> DEFINE acc == [k \in 0..n |-> F[1..k]]
<1>11. acc[0] = {<<>>}
  <2>1. 1..0 = {} /\ 1..0 \in D
    BY <1>1, FirstPositions
  <2>2. F[1..0] = {<<>>}
    BY <1>10, <2>1
  <2> QED
    BY <1>1, <2>2
<1>12. ASSUME NEW k \in 1..n
       PROVE  acc[k] = ReadOne(acc[k - 1], lines[k])
  <2>1. 1..k \in D /\ 1..k # {} /\ Max(1..k) = k /\ (1..k) \ {k} = 1..(k - 1)
    BY <1>1, FirstPositions
  <2>2. acc[k] = F[1..k] /\ acc[k - 1] = F[1..(k - 1)]
    BY <1>1
  <2>3. F[1..k] = ReadOne(F[(1..k) \ {k}], lines[k])
    BY <1>10, <2>1
  <2> QED
    BY <2>1, <2>2, <2>3
<1>13. acc[n] = F[1..n]
  BY <1>1
<1> HIDE DEF acc
<1> DEFINE T == {k \in Nat : k <= n => acc[k] \in V}
<1>14. 0 \in T
  <2>1. {<<>>} \in V
    BY DEF V
  <2> QED
    BY <1>11, <2>1
<1>15. ASSUME NEW k \in T
       PROVE  k + 1 \in T
  <2>1. CASE k + 1 <= n
    <3>1. k \in Nat /\ k + 1 \in 1..n /\ (k + 1) - 1 = k /\ acc[k] \in V
      BY <1>1, <2>1
    <3>2. acc[k + 1] = ReadOne(acc[k], lines[k + 1])
      BY <1>12, <3>1
    <3>3. ReadOne(acc[k], lines[k + 1]) \in V
      BY <1>3, <3>1
    <3> QED
      BY <3>1, <3>2, <3>3
  <2> QED
    BY <2>1
<1>16. \A k \in 0..n : acc[k] \in V
  <2>1. T \in SUBSET Nat
    OBVIOUS
  <2>2. T = Nat
    <3> HIDE DEF T
    <3> QED
      BY <1>14, <1>15, <2>1, NatByInduction
  <2> QED
    BY <1>1, <2>2
<1>17. Reads(acc, E, lines)
  <2>2. \A i \in 0..n : acc[i] \in SUBSET Seq(E)
    BY <1>16 DEF V
  <2>3. read_host_file(lines) = acc[n] \ {<<>>}
    BY <1>2, <1>13
  <2> QED
    BY <1>11, <1>12, <2>2, <2>3 DEF Reads
<1> QED
  BY <1>17

\* The lines that are not blank, and what the hosts of a file are.
NotBlank(lines) == {i \in 1..Len(lines) : ~(ToSet(lines[i]) \subseteq Space)}

HostsOf(lines, X, k, hosts) ==
    /\ Len(hosts) = Upto(X, k)
    /\ \A i \in 1..k : i \in X => /\ Upto(X, i) \in 1..Upto(X, k)
                                  /\ Names(lines[i], hosts[Upto(X, i)])

\* Each host list grows by each entry.
LEMMA Appended ==
    ASSUME NEW v, NEW P, NEW g
    PROVE  g \in Appends(v, P) <=> \E h \in v, e \in P : g = Append(h, e)
<1>1. ASSUME g \in Appends(v, P)
      PROVE  \E h \in v, e \in P : g = Append(h, e)
  BY <1>1 DEF Appends
<1>2. ASSUME \E h \in v, e \in P : g = Append(h, e)
      PROVE  g \in Appends(v, P)
  BY <1>2 DEF Appends
<1> QED
  BY <1>1, <1>2, Zenon

\* With a line that is not blank there is one more host, which it names, unless it names
\* none; a blank line changes nothing.
LEMMA OneMoreHost ==
    ASSUME NEW C, ":" \in C, NEW lines \in Seq(Seq(C)), NEW E, NEW acc, Reads(acc, E, lines),
           NEW X, X = NotBlank(lines), NEW k \in 1..Len(lines)
    PROVE  /\ (\A h \in acc[k - 1] : HostsOf(lines, X, k - 1, h)) => \A h \in acc[k] : HostsOf(lines, X, k, h)
           /\ acc[k - 1] # {} /\ (k \in X => parse_host_file_entry(lines[k]) # {}) => acc[k] # {}
<1>1. Len(lines) \in Nat /\ lines[k] \in Seq(C) /\ k \in Nat /\ k >= 1 /\ k - 1 \in 0..k /\ k \in 1..k
  OBVIOUS
<1>2. acc[k - 1] \in SUBSET Seq(E) /\ acc[k] = ReadOne(acc[k - 1], lines[k])
  <2>1. k - 1 \in 0..Len(lines)
    OBVIOUS
  <2> QED
    BY <2>1 DEF Reads
<1>3. k \in X <=> string_trim(lines[k], Space) # <<>>
  <2>1. k \in X <=> ~(ToSet(lines[k]) \subseteq Space)
    BY DEF NotBlank
  <2> QED
    BY <1>1, <2>1, Trimming
<1>4. /\ \A i \in 0..k : Upto(X, i) \in Nat
      /\ Upto(X, k) = IF k \in X THEN Upto(X, k - 1) + 1 ELSE Upto(X, k - 1)
  BY <1>1, CountingUpto
<1>5. Upto(X, k - 1) \in Nat /\ Upto(X, k) \in Nat
  BY <1>1, <1>4
<1>6. \A i \in 1..k : i = k \/ i \in 1..(k - 1)
  BY <1>1
<1>7. CASE k \notin X
  <2>1. acc[k] = acc[k - 1]
    BY <1>2, <1>3, <1>7 DEF ReadOne
  <2>2. Upto(X, k) = Upto(X, k - 1)
    BY <1>4, <1>7
  <2>3. ASSUME NEW h, HostsOf(lines, X, k - 1, h)
        PROVE  HostsOf(lines, X, k, h)
    BY <1>6, <1>7, <2>2, <2>3 DEF HostsOf
  <2> QED
    BY <1>7, <2>1, <2>3
<1>8. CASE k \in X
  <2> DEFINE P == parse_host_file_entry(lines[k])
             u == Upto(X, k - 1)
  <2>1. /\ \A g \in acc[k] : \E h \in acc[k - 1], e \in P : g = Append(h, e)
        /\ \A h \in acc[k - 1], e \in P : Append(h, e) \in acc[k]
    <3>1. string_trim(lines[k], Space) # <<>>
      BY <1>3, <1>8
    <3>2. acc[k] = Appends(acc[k - 1], P)
      BY <1>2, <3>1 DEF ReadOne
    <3> HIDE DEF P
    <3>3. ASSUME NEW g
          PROVE  g \in acc[k] <=> \E h \in acc[k - 1], e \in P : g = Append(h, e)
      <4>1. g \in Appends(acc[k - 1], P) <=> \E h \in acc[k - 1], e \in P : g = Append(h, e)
        BY Appended
      <4> QED
        BY <3>2, <4>1
    <3> QED
      BY <3>3, Zenon
  <2>2. Upto(X, k) = u + 1
    BY <1>4, <1>8
  <2>3. \A e \in P : Names(lines[k], e)
    BY <1>1, EntryNames
  <2> HIDE DEF P, u
  <2>4. ASSUME NEW h \in acc[k - 1], HostsOf(lines, X, k - 1, h), NEW e \in P
        PROVE  HostsOf(lines, X, k, Append(h, e))
    <3> DEFINE a == Append(h, e)
    <3>1. /\ Len(h) = u /\ u \in Nat
          /\ \A i \in 1..(k - 1) : i \in X => Upto(X, i) \in 1..u /\ Names(lines[i], h[Upto(X, i)])
      BY <1>5, <2>4 DEF HostsOf, u
    <3>2. Len(a) = u + 1 /\ a[u + 1] = e /\ \A l \in 1..u : a[l] = h[l]
      <4>1. h \in Seq(E \cup {e})
        <5>1. h \in Seq(E)
          BY <1>2
        <5> QED
          BY <5>1
      <4>2. /\ Len(a) = Len(h) + 1 /\ (\A i \in 1..Len(h) : a[i] = h[i]) /\ a[Len(h) + 1] = e
        BY <4>1, AppendProperties
      <4> HIDE DEF a
      <4> QED
        BY <3>1, <4>2
    <3> HIDE DEF a
    <3>3. ASSUME NEW i \in 1..k, i \in X
          PROVE  Upto(X, i) \in 1..(u + 1) /\ Names(lines[i], a[Upto(X, i)])
      <4>1. CASE i = k
        <5>1. u + 1 \in 1..(u + 1)
          BY <3>1
        <5> QED
          BY <2>2, <2>3, <3>2, <4>1, <5>1
      <4>2. CASE i # k
        <5>1. Upto(X, i) \in 1..u /\ Names(lines[i], h[Upto(X, i)])
          BY <1>6, <3>1, <3>3, <4>2
        <5>2. Upto(X, i) \in 1..(u + 1)
          BY <3>1, <5>1
        <5> QED
          BY <3>2, <5>1, <5>2
      <4> QED
        BY <4>1, <4>2
    <3>4. HostsOf(lines, X, k, a)
      BY <2>2, <3>2, <3>3 DEF HostsOf
    <3> QED
      BY <3>4 DEF a
  <2>5. acc[k - 1] # {} /\ P # {} => acc[k] # {}
    BY <2>1
  <2>6. ASSUME \A h \in acc[k - 1] : HostsOf(lines, X, k - 1, h), NEW g \in acc[k]
        PROVE  HostsOf(lines, X, k, g)
    <3>1. PICK h \in acc[k - 1], e \in P : g = Append(h, e)
      BY <2>1
    <3> QED
      BY <2>4, <2>6, <3>1
  <2>7. acc[k - 1] # {} /\ (k \in X => P # {}) => acc[k] # {}
    BY <1>8, <2>5
  <2> QED
    BY <2>6, <2>7 DEF P
<1> QED
  BY <1>7, <1>8

\* The hosts of a file are those its lines name, in their order.
THEOREM FileIsRead ==
    ASSUME NEW C, ":" \in C, NEW lines \in Seq(Seq(C)), NEW X, X = NotBlank(lines)
    PROVE  /\ \A hosts \in read_host_file(lines) : hosts # <<>> /\ HostsOf(lines, X, Len(lines), hosts)
           /\ read_host_file(lines) = {} =>
                  \/ Upto(X, Len(lines)) = 0
                  \/ \E i \in 1..Len(lines) :
                        i \in X /\ ~\E e \in parse_host_file_entry(lines[i]) : Names(lines[i], e)
<1> DEFINE n == Len(lines)
           E == UNION {parse_host_file_entry(lines[i]) : i \in 1..n}
<1>1. n \in Nat /\ \A i \in 1..n : lines[i] \in Seq(C)
  OBVIOUS
<1>2. \A i \in 1..n : parse_host_file_entry(lines[i]) \subseteq E
  OBVIOUS
<1> HIDE DEF E
<1>3. PICK acc : Reads(acc, E, lines)
  BY <1>2, Reading
<1>4. acc[0] = {<<>>} /\ read_host_file(lines) = acc[n] \ {<<>>} /\ acc[n] \in SUBSET Seq(E)
  <2>1. n \in 0..n
    BY <1>1
  <2> QED
    BY <1>3, <2>1 DEF Reads
<1> DEFINE Right(k) == \A h \in acc[k] : HostsOf(lines, X, k, h)
           Left(k) == (\A i \in 1..k : i \in X => parse_host_file_entry(lines[i]) # {}) => acc[k] # {}
           T == {k \in Nat : k <= n => Right(k) /\ Left(k)}
<1>5. 0 \in T
  <2>1. Upto(X, 0) = 0 /\ Len(<<>>) = 0
    <3>1. 0 \in Nat
      OBVIOUS
    <3>2. Upto(X, 0) = 0
      BY <3>1, CountingUpto
    <3> QED
      BY <3>2
  <2>2. HostsOf(lines, X, 0, <<>>)
    BY <2>1 DEF HostsOf
  <2> QED
    BY <1>4, <2>2
<1>6. ASSUME NEW k \in T
      PROVE  k + 1 \in T
  <2>1. SUFFICES ASSUME k + 1 <= n
                 PROVE  Right(k + 1) /\ Left(k + 1)
    OBVIOUS
  <2>2. k \in Nat /\ k + 1 \in 1..n /\ (k + 1) - 1 = k /\ Right(k) /\ Left(k)
    BY <1>1, <2>1
  <2>3. /\ (\A h \in acc[k] : HostsOf(lines, X, k, h)) => \A h \in acc[k + 1] : HostsOf(lines, X, k + 1, h)
        /\ acc[k] # {} /\ (k + 1 \in X => parse_host_file_entry(lines[k + 1]) # {}) => acc[k + 1] # {}
    <3> DEFINE l == k + 1
    <3>1. l \in 1..Len(lines)
      BY <2>2
    <3> HIDE DEF l
    <3>2. /\ (\A h \in acc[l - 1] : HostsOf(lines, X, l - 1, h)) => \A h \in acc[l] : HostsOf(lines, X, l, h)
          /\ acc[l - 1] # {} /\ (l \in X => parse_host_file_entry(lines[l]) # {}) => acc[l] # {}
      BY <1>3, <3>1, OneMoreHost
    <3>3. l - 1 = k
      BY <2>2 DEF l
    <3> QED
      BY <3>2, <3>3 DEF l
  <2>4. \A i \in 1..k : i \in 1..(k + 1)
    BY <2>2
  <2>5. k + 1 \in 1..(k + 1)
    BY <2>2
  <2> QED
    BY <2>2, <2>3, <2>4, <2>5
<1>7. T = Nat
  <2>1. T \in SUBSET Nat
    OBVIOUS
  <2> HIDE DEF T
  <2> QED
    BY <1>5, <1>6, <2>1, NatByInduction
<1>8. Right(n) /\ Left(n)
  <2>1. n \in T /\ n <= n
    <3> HIDE DEF T
    <3> QED
      BY <1>1, <1>7
  <2> QED
    BY <2>1
<1>9. ASSUME read_host_file(lines) = {}, Upto(X, n) # 0
      PROVE  \E i \in 1..n : i \in X /\ ~\E e \in parse_host_file_entry(lines[i]) : Names(lines[i], e)
  <2>1. acc[n] = {}
    <3>1. ASSUME NEW h \in acc[n]
          PROVE  FALSE
      <4>1. h = <<>>
        BY <1>4, <1>9
      <4>2. Len(h) = Upto(X, n)
        BY <1>8 DEF HostsOf
      <4>3. Len(<<>>) = 0
        OBVIOUS
      <4> QED
        BY <1>9, <4>1, <4>2, <4>3
    <3> QED
      BY <3>1
  <2>2. PICK i \in 1..n : i \in X /\ parse_host_file_entry(lines[i]) = {}
    BY <1>8, <2>1
  <2> QED
    BY <2>2
<1> QED
  BY <1>4, <1>8, <1>9

-----------------------------------------------------------------------------
(***************************************************************************)
(* The calls of the program.  What each yields is what its caller relies   *)
(* on, so it is after the one step that calls a function on strings.       *)
(***************************************************************************)

\* A bounded sequence is a sequence.
LEMMA BoundedIsSeq == ASSUME NEW S, NEW n \in Nat, NEW s \in BoundedSeq(S, n) PROVE s \in Seq(S)
<1>1. PICK m \in 0..n : s \in [1..m -> S]
  BY DEF BoundedSeq, SeqOf
<1> QED
  BY <1>1

\* The properties of a call c.  Those of format are in terms of what FormatTakes says.
SplitOf(c) ==
    c.op = "string_split" /\ <<>> \notin ToSet(c.args) =>
        /\ string_join(c.result, c.args[2]) = c_str(c.args[1])
        /\ \A part \in ToSet(c.result) : ~Within(c.args[2], part)

FormatOf(c) ==
    c.op = "format" =>
        c.result = IF Before(c.args[1], Len(c.args[1])) # Len(c.args[2]) THEN Raised
                   ELSE FlattenSeq([i \in DOMAIN c.args[1] |-> PutFor(c.args[1], c.args[2], i)])

HostFileOf(c) ==
    c.op = "read_host_file" =>
        /\ \A hosts \in c.result : hosts # <<>> /\ HostsOf(c.args, NotBlank(c.args), Len(c.args), hosts)
        /\ c.result = {} =>
              \/ Upto(NotBlank(c.args), Len(c.args)) = 0
              \/ \E i \in 1..Len(c.args) :
                    i \in NotBlank(c.args) /\ ~\E e \in parse_host_file_entry(c.args[i]) : Names(c.args[i], e)

\* string_split as it is called: the separator is in no part.
LEMMA SplitCalled ==
    ASSUME NEW s \in Strings, NEW sep \in Strings, <<>> \notin ToSet(<<s, sep>>)
    PROVE  /\ string_join(string_split(s, sep), sep) = c_str(s)
           /\ \A part \in ToSet(string_split(s, sep)) : ~Within(sep, part)
<1>1. s \in Seq(Char) /\ sep \in Seq(Char)
  BY TextAssumption
<1>2. s # <<>> /\ sep # <<>>
  <2>1. ToSet(<<s, sep>>) = {s, sep}
    BY DEF ToSet
  <2> QED
    BY <2>1
<1> QED
  BY <1>1, <1>2, SplitIsJoined

\* format as it is called.
LEMMA FormatCalled ==
    ASSUME NEW fmt \in BoundedSeq(Tokens, 4), NEW n \in 0..3
    PROVE  LET args == [i \in 1..n |-> <<Hex[i]>>]
           IN  format(FlattenSeq(fmt), args) =
                   IF Before(fmt, Len(fmt)) # Len(args) THEN Raised
                   ELSE FlattenSeq([i \in DOMAIN fmt |-> PutFor(fmt, args, i)])
<1> DEFINE args == [i \in 1..n |-> <<Hex[i]>>]
           A == Char \cup ToSet(Hex)
<1>1. fmt \in Seq(Tokens)
  BY BoundedIsSeq
<1>2. \A t \in Tokens : t \in Seq(A)
  <2>1. ASSUME NEW t \in Tokens
        PROVE  t \in Seq(A)
    <3>1. t \in Seq(Char)
      BY TextAssumption
    <3> QED
      BY <3>1
  <2> QED
    BY <2>1
<1>3. "raised" \notin A /\ "end" \notin A
  <2>1. "raised" \notin Char /\ "end" \notin Char
    BY TextAssumption
  <2>2. "raised" \notin ToSet(Hex) /\ "end" \notin ToSet(Hex)
    BY DEF ToSet, Hex
  <2> QED
    BY <2>1, <2>2
<1>4. \A t \in Tokens : IsPiece(t)
  <2>1. \A c \in Char : c # "raised" /\ c # "end"
    BY TextAssumption
  <2> QED
    BY <2>1, TokenAssumption, Zenon DEF IsPiece
<1>5. args \in Seq(Seq(A))
  <2>1. ASSUME NEW i \in 1..n
        PROVE  <<Hex[i]>> \in Seq(A)
    <3>1. Hex[i] \in ToSet(Hex)
      <4>1. i \in DOMAIN Hex
        BY DEF Hex
      <4> QED
        BY <4>1 DEF ToSet
    <3> QED
      BY <3>1
  <2> HIDE DEF A
  <2> QED
    BY <2>1
<1> HIDE DEF A, args
<1>6. fmt \in Seq(Seq(A)) /\ \A i \in 1..Len(fmt) : IsPiece(fmt[i])
  <2>1. \A i \in 1..Len(fmt) : fmt[i] \in Tokens
    BY <1>1
  <2> QED
    BY <1>1, <1>2, <1>4, <2>1
<1>7. format(FlattenSeq(fmt), args) =
          IF Before(fmt, Len(fmt)) # Len(args) THEN Raised
          ELSE FlattenSeq([i \in DOMAIN fmt |-> PutFor(fmt, args, i)])
  BY <1>3, <1>5, <1>6, FormatTakes
<1> QED
  BY <1>7, Zenon DEF args

\* read_host_file as it is called.
LEMMA HostFileCalled ==
    ASSUME NEW file \in BoundedSeq(Lines, 2)
    PROVE  /\ \A hosts \in read_host_file(file) : hosts # <<>> /\ HostsOf(file, NotBlank(file), Len(file), hosts)
           /\ read_host_file(file) = {} =>
                  \/ Upto(NotBlank(file), Len(file)) = 0
                  \/ \E i \in 1..Len(file) :
                        i \in NotBlank(file) /\ ~\E e \in parse_host_file_entry(file[i]) : Names(file[i], e)
<1> DEFINE C == Char \cup {":"}
<1>1. file \in Seq(Lines)
  BY BoundedIsSeq
<1>2. Lines \subseteq Seq(C)
  <2>1. ASSUME NEW l \in Lines
        PROVE  l \in Seq(C)
    <3>1. l \in Seq(Char)
      BY TextAssumption
    <3> QED
      BY <3>1
  <2> QED
    BY <2>1
<1>3. ":" \in C
  OBVIOUS
<1> HIDE DEF C
<1>4. file \in Seq(Seq(C))
  BY <1>1, <1>2
<1> QED
  BY <1>3, <1>4, FileIsRead

\* What is said of a call gives the property of the call that a step made.
LEMMA SplitAfter == ASSUME NEW c, call' = c, SplitOf(c) PROVE SplitJoins'
  BY DEF SplitOf, SplitJoins

\* The same for format.
LEMMA FormatAfter == ASSUME NEW c, call' = c, FormatOf(c) PROVE FormatRight'
<1>1. FormatOf(call')
  OBVIOUS
<1>2. FormatOf(call') => FormatRight'
  BY Zenon DEF FormatOf, FormatRight, Before, PutFor
<1> QED
  BY <1>1, <1>2, Zenon

\* The same for read_host_file.
LEMMA HostFileAfter ==
    ASSUME NEW c, call' = c, c.args \in Seq(Lines), HostFileOf(c)
    PROVE  HostFileRight'
<1> DEFINE file == call'.args
           n == Len(file)
           X == NotBlank(file)
           blank(l) == ToSet(l) \subseteq Space
           upto(i) == Cardinality({j \in 1..i : ~blank(file[j])})
<1>1. SUFFICES ASSUME call'.op = "read_host_file"
               PROVE  /\ \A hosts \in call'.result :
                            /\ hosts # <<>> /\ Len(hosts) = upto(n)
                            /\ \A i \in DOMAIN file : ~blank(file[i]) => Names(file[i], hosts[upto(i)])
                      /\ call'.result = {} =>
                            \/ upto(n) = 0
                            \/ \E i \in DOMAIN file :
                                  ~blank(file[i]) /\ ~\E e \in parse_host_file_entry(file[i]) : Names(file[i], e)
  BY Zenon DEF HostFileRight
<1>2. n \in Nat /\ DOMAIN file = 1..n
  OBVIOUS
<1>3. \A i \in 1..n : i \in X <=> ~blank(file[i])
  BY DEF NotBlank
<1>4. \A i \in 1..n : upto(i) = Upto(X, i)
  <2>1. ASSUME NEW i \in 1..n
        PROVE  upto(i) = Upto(X, i)
    <3>1. \A j \in 1..i : j \in 1..n
      BY <1>2
    <3>2. {j \in 1..i : ~blank(file[j])} = {j \in 1..i : j \in X}
      <4> HIDE DEF X, n, blank
      <4> QED
        BY <1>3, <3>1
    <3> QED
      BY <3>2 DEF Upto
  <2> QED
    BY <2>1
<1>5. upto(n) = Upto(X, n)
  <2>1. CASE n \in 1..n
    BY <1>4, <2>1
  <2>2. CASE n \notin 1..n
    <3>1. 1..n = {}
      BY <1>2, <2>2
    <3>2. {j \in 1..n : ~blank(file[j])} = {j \in 1..n : j \in X}
      <4> HIDE DEF X, n, blank
      <4> QED
        BY <3>1
    <3> QED
      BY <3>2 DEF Upto
  <2> QED
    BY <2>1, <2>2
<1>6. /\ \A hosts \in call'.result : hosts # <<>> /\ HostsOf(file, X, n, hosts)
      /\ call'.result = {} =>
            \/ Upto(X, n) = 0
            \/ \E i \in 1..n :
                  i \in X /\ ~\E e \in parse_host_file_entry(file[i]) : Names(file[i], e)
  <2>1. HostFileOf(call')
    OBVIOUS
  <2> QED
    BY <1>1, <2>1, Zenon DEF HostFileOf
<1> HIDE DEF X, n, blank, upto
<1>7. ASSUME NEW hosts \in call'.result
      PROVE  /\ hosts # <<>> /\ Len(hosts) = upto(n)
             /\ \A i \in DOMAIN file : ~blank(file[i]) => Names(file[i], hosts[upto(i)])
  <2>1. HostsOf(file, X, n, hosts)
    BY <1>6
  <2>2. Len(hosts) = Upto(X, n) /\ \A i \in 1..n : i \in X => Names(file[i], hosts[Upto(X, i)])
    BY <2>1, Zenon DEF HostsOf
  <2> QED
    BY <1>2, <1>3, <1>4, <1>5, <1>6, <2>2
<1> QED
  BY <1>2, <1>3, <1>5, <1>6, <1>7

\* Any other call leaves a property of one function true.
LEMMA OtherCalls ==
    ASSUME NEW c, call' = c
    PROVE  /\ c.op # "string_split" => SplitJoins'
           /\ c.op # "format" => FormatRight'
           /\ c.op # "read_host_file" => HostFileRight'
           /\ c.op # "cookie" => CookieRight'
<1>1. c.op # "string_split" => SplitJoins'
  BY DEF SplitJoins
<1>2. c.op # "format" => FormatRight'
  BY Zenon DEF FormatRight
<1>3. c.op # "read_host_file" => HostFileRight'
  BY Zenon DEF HostFileRight
<1>4. c.op # "cookie" => CookieRight'
  BY DEF CookieRight
<1> QED
  BY <1>1, <1>2, <1>3, <1>4, Zenon

\* A cookie of two bytes.
LEMMA CookieCalled ==
    ASSUME NEW a \in Bytes, NEW b \in Bytes
    PROVE  FirstConCookie(to_printable(<<a, b>>), 2) = {<<a, b>>}
<1>1. <<a, b>> \in Seq(0..255) /\ Len(<<a, b>>) = 2
  BY TextAssumption
<1> QED
  BY <1>1, PrintedIsRead

\* What is split, formatted, read from a host file or printed is what it should be, whatever
\* strings, lines, format strings and bytes the functions are called with.
THEOREM StringsKept == Spec => []StringsRight
<1>1. Init => StringsRight
  <2> SUFFICES ASSUME Init
               PROVE  StringsRight
    OBVIOUS
  <2>1. call.op = "none"
    BY DEF Init, NoCall
  <2>2. SplitJoins
    BY <2>1 DEF SplitJoins
  <2>3. FormatRight
    BY <2>1, Zenon DEF FormatRight
  <2>4. HostFileRight
    BY <2>1, Zenon DEF HostFileRight
  <2>5. CookieRight
    BY <2>1 DEF CookieRight
  <2> QED
    BY <2>2, <2>3, <2>4, <2>5, Zenon DEF StringsRight
<1>2. StringsRight /\ [Next]_vars => StringsRight'
  <2> SUFFICES ASSUME StringsRight, [Next]_vars
               PROVE  StringsRight'
    OBVIOUS
  <2>1. CASE call' = call
    <3>1. SplitJoins'
      BY <2>1, SMT DEF StringsRight, SplitJoins
    <3>2. FormatRight'
      <4>1. FormatOf(call)
        BY Zenon DEF StringsRight, FormatRight, FormatOf, Before, PutFor
      <4> QED
        BY <2>1, <4>1, FormatAfter
    <3>3. HostFileRight'
      BY <2>1, Zenon DEF StringsRight, HostFileRight
    <3>4. CookieRight'
      BY <2>1, SMT DEF StringsRight, CookieRight
    <3> QED
      BY <3>1, <3>2, <3>3, <3>4, Zenon DEF StringsRight
  <2>2. ASSUME Split
        PROVE  StringsRight'
    <3>1. PICK s, sep \in Strings : Calls("string_split", <<s, sep>>, string_split(s, sep))
      BY <2>2 DEF Split
    <3> DEFINE c == [op |-> "string_split", args |-> <<s, sep>>, result |-> string_split(s, sep)]
    <3>2. call' = c
      BY <3>1 DEF Calls
    <3>3. SplitOf(c)
      BY SplitCalled DEF SplitOf
    <3>4. c.op = "string_split"
      OBVIOUS
    <3> HIDE DEF c
    <3> QED
      BY <3>2, <3>3, <3>4, SplitAfter, OtherCalls DEF StringsRight
  <2>3. ASSUME Format
        PROVE  StringsRight'
    <3>1. PICK fmt \in BoundedSeq(Tokens, 4), n \in 0..3 :
              LET args == [i \in 1..n |-> <<Hex[i]>>]
              IN  Calls("format", <<fmt, args>>, format(FlattenSeq(fmt), args))
      BY <2>3 DEF Format
    <3> DEFINE args == [i \in 1..n |-> <<Hex[i]>>]
               c == [op |-> "format", args |-> <<fmt, args>>, result |-> format(FlattenSeq(fmt), args)]
    <3>2. call' = c
      BY <3>1 DEF Calls
    <3>3. FormatOf(c)
      <4>1. format(FlattenSeq(fmt), args) =
                IF Before(fmt, Len(fmt)) # Len(args) THEN Raised
                ELSE FlattenSeq([i \in DOMAIN fmt |-> PutFor(fmt, args, i)])
        BY FormatCalled
      <4> HIDE DEF args
      <4> QED
        BY <4>1 DEF FormatOf
    <3>4. c.op = "format"
      OBVIOUS
    <3> HIDE DEF c
    <3> QED
      BY <3>2, <3>3, <3>4, FormatAfter, OtherCalls DEF StringsRight
  <2>4. ASSUME ReadHostFile
        PROVE  StringsRight'
    <3>1. PICK file \in BoundedSeq(Lines, 2) : Calls("read_host_file", file, read_host_file(file))
      BY <2>4 DEF ReadHostFile
    <3> DEFINE c == [op |-> "read_host_file", args |-> file, result |-> read_host_file(file)]
    <3>2. call' = c
      BY <3>1 DEF Calls
    <3>3. HostFileOf(c)
      BY HostFileCalled DEF HostFileOf
    <3>4. c.op = "read_host_file" /\ c.args \in Seq(Lines)
      BY BoundedIsSeq
    <3> HIDE DEF c
    <3> QED
      BY <3>2, <3>3, <3>4, HostFileAfter, OtherCalls DEF StringsRight
  <2>5. ASSUME StartUp
        PROVE  StringsRight'
    <3>1. PICK host, port \in Ports : Calls("thallium_init", <<host, port>>, thallium_init(host, port))
      BY <2>5 DEF StartUp
    <3> DEFINE c == [op |-> "thallium_init", args |-> <<host, port>>, result |-> thallium_init(host, port)]
    <3>2. call' = c
      BY <3>1 DEF Calls
    <3>3. c.op = "thallium_init"
      OBVIOUS
    <3> HIDE DEF c
    <3> QED
      BY <3>2, <3>3, OtherCalls DEF StringsRight
  <2>6. ASSUME Cookie
        PROVE  StringsRight'
    <3>1. PICK a, b \in Bytes : Calls("cookie", <<a, b>>, FirstConCookie(to_printable(<<a, b>>), 2))
      BY <2>6 DEF Cookie
    <3> DEFINE c == [op |-> "cookie", args |-> <<a, b>>, result |-> FirstConCookie(to_printable(<<a, b>>), 2)]
    <3>2. call' = c
      BY <3>1 DEF Calls
    <3>3. c.op = "cookie" /\ c.result = {c.args}
      BY CookieCalled
    <3> HIDE DEF c
    <3>4. CookieRight'
      BY <3>2, <3>3 DEF CookieRight
    <3> QED
      BY <3>2, <3>3, <3>4, OtherCalls DEF StringsRight
  <2>7. ASSUME finishes \/ functions
        PROVE  call' = call
    BY <2>7 DEF finishes, functions, Submit, BlockedRemote, RemoteSubmit, Register, Lookup,
                CallSerialized, CallBoxed, Run, libVars
  <2> QED
    BY <2>1, <2>2, <2>3, <2>4, <2>5, <2>6, <2>7 DEF Next, strings, vars, libVars
<1> QED
  BY <1>1, <1>2, PTL DEF Spec

=============================================================================
