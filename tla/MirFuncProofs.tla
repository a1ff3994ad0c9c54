--------------------------- MODULE MirFuncProofs ---------------------------
(***************************************************************************)
(* Facts about the functions the allocator reads: instructions are         *)
(* numbered in layout order, and the places that want a register are the   *)
(* least set that holds its readers and is closed backwards.  Both are     *)
(* computed by recursion, so the facts rest on induction, stated here for  *)
(* sets of natural numbers.                                                *)
(***************************************************************************)
EXTENDS MirFunc, FiniteSetTheorems, WellFoundedInduction, TLAPS

(* A set of natural numbers has a least one.                               *)
LEMMA LeastNatural ==
  ASSUME NEW T \in SUBSET Nat, T # {}
  PROVE  \E x \in T : \A y \in T : x <= y
<1> DEFINE R == {p \in Nat \X Nat : p[1] < p[2]}
<1>1. IsWellFoundedOn(R, Nat)
  BY NatLessThanWellFounded DEF OpToRel
<1>2. \A x, y \in Nat : y < x => <<y, x>> \in R
  OBVIOUS
<1> HIDE DEF R
<1>3. PICK x \in T : \A y \in T : ~(<<y, x>> \in R)
  BY <1>1, WFMin
<1>4. \A y \in T : ~(y < x)
  BY <1>2, <1>3
<1>5. \A y \in T : x <= y
  BY <1>4
<1> QED
  BY <1>5

(* Induction, for the members of a set.                                    *)
LEMMA Induction ==
  ASSUME NEW S, 0 \in S, \A n \in Nat : n \in S => n + 1 \in S
  PROVE  \A n \in Nat : n \in S
<1> DEFINE T == {n \in Nat : n \notin S}
<1> SUFFICES ASSUME T # {} PROVE FALSE
  OBVIOUS
<1>1. T \in SUBSET Nat
  OBVIOUS
<1>2. PICK x \in T : \A y \in T : x <= y
  <2> HIDE DEF T
  <2> QED
    BY <1>1, LeastNatural
<1>3. x \in Nat /\ x # 0 /\ x \notin S
  BY <1>2
<1>4. x - 1 \in Nat /\ ~(x <= x - 1) /\ (x - 1) + 1 = x
  BY <1>3
<1>5. x - 1 \in S
  BY <1>2, <1>4
<1> QED
  BY <1>3, <1>4, <1>5

(* The members of S reached from a, one step at a time.                    *)
Iteration(g, S, a, step) ==
  /\ g \in [Nat -> S]
  /\ g[0] = a
  /\ \A n \in Nat : g[n + 1] = step[<<g[n], n>>]

(* A step on the members of a set can be taken any number of times.        *)
LEMMA Iterates ==
  ASSUME NEW S, NEW a \in S, NEW step, \A x \in S, n \in Nat : step[<<x, n>>] \in S
  PROVE  \E g : Iteration(g, S, a, step)
<1> DEFINE Upto(n) == {h \in [0..n -> S] : /\ h[0] = a
                                           /\ \A k \in 0..(n - 1) : h[k + 1] = step[<<h[k], k>>]}
           D == {n \in Nat : Upto(n) # {}}
<1>1. \A n \in Nat : n \in D
  <2>1. 0 \in D
    <3>1. [k \in 0..0 |-> a] \in Upto(0)
      OBVIOUS
    <3> QED
      BY <3>1
  <2>2. ASSUME NEW n \in Nat, n \in D PROVE n + 1 \in D
    <3>1. PICK h \in Upto(n) : TRUE
      BY <2>2
    <3> DEFINE j == [k \in 0..(n + 1) |-> IF k = n + 1 THEN step[<<h[n], n>>] ELSE h[k]]
    <3>2. j \in [0..(n + 1) -> S]
      BY <3>1
    <3>3. \A k \in 0..n : j[k + 1] = step[<<j[k], k>>]
      <4> SUFFICES ASSUME NEW k \in 0..n PROVE j[k + 1] = step[<<j[k], k>>]
        OBVIOUS
      <4>1. j[k] = h[k]
        OBVIOUS
      <4>2. CASE k = n
        <5>1. n + 1 \in 0..(n + 1)
          OBVIOUS
        <5>2. j[n + 1] = step[<<h[n], n>>]
          BY <5>1
        <5> QED
          BY <4>1, <4>2, <5>2
      <4>3. CASE k # n
        <5>1. k \in 0..(n - 1) /\ k + 1 \in 0..(n + 1) /\ k + 1 # n + 1
          BY <4>3
        <5> QED
          BY <3>1, <4>1, <5>1
      <4> QED
        BY <4>2, <4>3
    <3>4. j[0] = a
      BY <3>1
    <3>5. j \in Upto(n + 1)
      <4>1. (n + 1) - 1 = n
        OBVIOUS
      <4> HIDE DEF j
      <4> QED
        BY <3>2, <3>3, <3>4, <4>1
    <3> HIDE DEF j, Upto
    <3>6. Upto(n + 1) # {} /\ n + 1 \in Nat
      BY <3>5
    <3> QED
      BY <3>6
  <2> HIDE DEF D
  <2> QED
    BY <2>1, <2>2, Induction
<1>2. ASSUME NEW m \in Nat, NEW n \in Nat, NEW h \in Upto(m), NEW j \in Upto(n)
      PROVE  \A k \in Nat : k <= m /\ k <= n => h[k] = j[k]
  <2> DEFINE E == {k \in Nat : k <= m /\ k <= n => h[k] = j[k]}
  <2>1. 0 \in E
    OBVIOUS
  <2>2. ASSUME NEW k \in Nat, k \in E PROVE k + 1 \in E
    <3> SUFFICES ASSUME k + 1 <= m, k + 1 <= n PROVE h[k + 1] = j[k + 1]
      OBVIOUS
    <3>1. k \in 0..(m - 1) /\ k \in 0..(n - 1) /\ h[k] = j[k]
      BY <2>2
    <3> QED
      BY <3>1
  <2>3. \A k \in Nat : k \in E
    <3> HIDE DEF E
    <3> QED
      BY <2>1, <2>2, Induction
  <2> QED
    BY <2>3
<1> DEFINE pick == [n \in Nat |-> CHOOSE h : h \in Upto(n)]
           g == [n \in Nat |-> pick[n][n]]
<1>3. \A n \in Nat : pick[n] \in Upto(n)
  BY <1>1
<1> HIDE DEF pick
<1>4. g \in [Nat -> S]
  BY <1>3
<1>5. g[0] = a
  BY <1>3
<1>6. ASSUME NEW n \in Nat PROVE g[n + 1] = step[<<g[n], n>>]
  <2>1. pick[n] \in Upto(n) /\ pick[n + 1] \in Upto(n + 1)
    BY <1>3
  <2>2. pick[n + 1][n] = pick[n][n]
    <3>1. n + 1 \in Nat /\ n <= n + 1 /\ n <= n
      OBVIOUS
    <3> HIDE DEF Upto
    <3> QED
      BY <1>2, <2>1, <3>1
  <2>3. pick[n + 1][n + 1] = step[<<pick[n + 1][n], n>>]
    <3>1. n \in 0..((n + 1) - 1)
      OBVIOUS
    <3> QED
      BY <2>1, <3>1
  <2> QED
    BY <2>2, <2>3
<1> QED
  BY <1>4, <1>5, <1>6 DEF Iteration

(* Two functions that agree at 0 and step alike agree up to n.             *)
LEMMA StepAlike ==
  ASSUME NEW n \in Nat, NEW f, NEW g, f[0] = g[0],
         \A i \in 1..n : f[i - 1] = g[i - 1] => f[i] = g[i]
  PROVE  \A i \in 0..n : f[i] = g[i]
<1> DEFINE E == {i \in Nat : i <= n => f[i] = g[i]}
<1>1. 0 \in E
  OBVIOUS
<1>2. ASSUME NEW i \in Nat, i \in E PROVE i + 1 \in E
  <2> SUFFICES ASSUME i + 1 <= n PROVE f[i + 1] = g[i + 1]
    OBVIOUS
  <2>1. i + 1 \in 1..n /\ (i + 1) - 1 = i /\ f[i] = g[i]
    BY <1>2
  <2> QED
    BY <2>1
<1>3. \A i \in Nat : i \in E
  <2> HIDE DEF E
  <2> QED
    BY <1>1, <1>2, Induction
<1> QED
  BY <1>3

-----------------------------------------------------------------------------
(* Sums and the numbering of instructions                                  *)

SumOf(s, n, f) == f = [i \in 0..n |-> IF i = 0 THEN 0 ELSE f[i - 1] + s[i]]

(* The sum of none is 0, and each number adds itself.                      *)
LEMMA SumFirstSteps ==
  ASSUME NEW s \in Seq(Nat)
  PROVE  /\ SumFirst(s, 0) = 0
         /\ \A n \in 0..Len(s) : SumFirst(s, n) \in Nat
         /\ \A n \in 1..Len(s) : SumFirst(s, n) = SumFirst(s, n - 1) + s[n]
<1>1. Len(s) \in Nat /\ \A i \in 1..Len(s) : s[i] \in Nat
  OBVIOUS
<1> DEFINE step == [p \in Nat \X Nat |-> p[1] + (IF p[2] + 1 <= Len(s) THEN s[p[2] + 1] ELSE 0)]
<1>2. \A x, n \in Nat : step[<<x, n>>] \in Nat
  BY <1>1
<1>3. \A x, n \in Nat : n + 1 <= Len(s) => step[<<x, n>>] = x + s[n + 1]
  OBVIOUS
<1> HIDE DEF step
<1>4. PICK g \in [Nat -> Nat] : g[0] = 0 /\ \A n \in Nat : g[n + 1] = step[<<g[n], n>>]
  <2>1. \E g : Iteration(g, Nat, 0, step)
    BY <1>2, Iterates
  <2> QED
    BY <2>1 DEF Iteration
<1>5. \A n \in 1..Len(s) : g[n] = g[n - 1] + s[n]
  <2> SUFFICES ASSUME NEW n \in 1..Len(s) PROVE g[n] = g[n - 1] + s[n]
    OBVIOUS
  <2>1. n - 1 \in Nat /\ (n - 1) + 1 = n /\ n <= Len(s)
    BY <1>1
  <2> QED
    BY <1>3, <1>4, <2>1
<1>6. ASSUME NEW n \in 0..Len(s) PROVE SumFirst(s, n) = g[n]
  <2> DEFINE h == [i \in 0..n |-> g[i]]
             f == CHOOSE e : SumOf(s, n, e)
  <2>1. n \in Nat /\ n <= Len(s)
    BY <1>1
  <2>2. SumOf(s, n, h)
    <3>1. \A i \in 0..n : h[i] = IF i = 0 THEN 0 ELSE h[i - 1] + s[i]
      <4>0. 0 \in 0..n /\ h[0] = 0 /\ \A i \in 0..n : i # 0 => i \in 1..n
        BY <1>4, <2>1
      <4> SUFFICES ASSUME NEW i \in 1..n PROVE h[i] = h[i - 1] + s[i]
        BY <4>0
      <4>1. i \in 1..Len(s) /\ i \in 0..n /\ i - 1 \in 0..n
        BY <2>1
      <4> QED
        BY <1>5, <4>1
    <3> QED
      BY <3>1 DEF SumOf
  <2>3. SumOf(s, n, f)
    <3> HIDE DEF h
    <3> QED
      BY <2>2
  <2>4. SumFirst(s, n) = f[n]
    BY DEF SumFirst, SumOf
  <2> HIDE DEF f, h
  <2>5. f[0] = g[0]
    BY <1>4, <2>1, <2>3 DEF SumOf
  <2>6. \A i \in 1..n : f[i - 1] = g[i - 1] => f[i] = g[i]
    <3> SUFFICES ASSUME NEW i \in 1..n PROVE f[i] = f[i - 1] + s[i] /\ g[i] = g[i - 1] + s[i]
      OBVIOUS
    <3>1. i \in 1..Len(s) /\ i \in 0..n /\ i # 0
      BY <2>1
    <3> QED
      BY <1>5, <2>3, <3>1 DEF SumOf
  <2>7. \A i \in 0..n : f[i] = g[i]
    BY <2>1, <2>5, <2>6, StepAlike
  <2> QED
    BY <2>1, <2>4, <2>7
<1>7. \A n \in 0..Len(s) : g[n] \in Nat
  BY <1>4
<1>8. 0 \in 0..Len(s) /\ \A n \in 1..Len(s) : n \in 0..Len(s) /\ n - 1 \in 0..Len(s)
  BY <1>1
<1> QED
  BY <1>4, <1>5, <1>6, <1>7, <1>8

(* Each block's instructions follow those of the block before it.          *)
LEMMA NumberedInOrder ==
  ASSUME NEW f \in MirFuncs
  PROVE  /\ Blocks(f) = 1..Len(f.code) /\ Len(f.code) \in Nat
         /\ FirstIndex(f, 1) = 0
         /\ \A b \in Blocks(f) : /\ Len(f.code[b]) \in Nat
                                 /\ FirstIndex(f, b) \in Nat
                                 /\ FirstIndex(f, b + 1) = FirstIndex(f, b) + Len(f.code[b])
<1> DEFINE s == [c \in Blocks(f) |-> Len(f.code[c])]
<1>1. Blocks(f) = 1..Len(f.code) /\ Len(f.code) \in Nat
  BY DEF MirFuncs, Blocks
<1>2. \A b \in Blocks(f) : Len(f.code[b]) \in Nat
  BY DEF MirFuncs, Blocks
<1>3. s \in Seq(Nat) /\ Len(s) = Len(f.code)
  BY <1>1, <1>2
<1>4. \A b : FirstIndex(f, b) = SumFirst(s, b - 1)
  BY DEF FirstIndex
<1>5. \A b \in Blocks(f) : s[b] = Len(f.code[b])
  OBVIOUS
<1> HIDE DEF s
<1>6. FirstIndex(f, 1) = 0
  BY <1>3, <1>4, SumFirstSteps
<1>7. ASSUME NEW b \in Blocks(f)
      PROVE  FirstIndex(f, b) \in Nat /\ FirstIndex(f, b + 1) = FirstIndex(f, b) + Len(f.code[b])
  <2>1. b \in 1..Len(s) /\ b - 1 \in 0..Len(s) /\ (b + 1) - 1 = b
    BY <1>1, <1>3, <1>7
  <2> QED
    BY <1>3, <1>4, <1>5, <2>1, SumFirstSteps
<1> QED
  BY <1>1, <1>2, <1>6, <1>7

(* No instruction of an earlier block is numbered beyond a later block.    *)
LEMMA EarlierBlocks ==
  ASSUME NEW f \in MirFuncs, NEW b \in Blocks(f)
  PROVE  \A c \in Blocks(f) : c > b => FirstIndex(f, c) >= FirstIndex(f, b) + Len(f.code[b])
<1> DEFINE E == {n \in Nat : b + 1 + n \in Blocks(f) =>
                               FirstIndex(f, b + 1 + n) >= FirstIndex(f, b) + Len(f.code[b])}
<1>1. 0 \in E
  <2>1. b + 1 + 0 = b + 1
    BY NumberedInOrder
  <2> QED
    BY <2>1, NumberedInOrder
<1>2. ASSUME NEW n \in Nat, n \in E PROVE n + 1 \in E
  <2> SUFFICES ASSUME b + 1 + (n + 1) \in Blocks(f)
               PROVE  FirstIndex(f, b + 1 + (n + 1)) >= FirstIndex(f, b) + Len(f.code[b])
    OBVIOUS
  <2> DEFINE c == b + 1 + n
  <2>1. c \in Blocks(f) /\ b + 1 + (n + 1) = c + 1
    <3>1. Blocks(f) = 1..Len(f.code) /\ Len(f.code) \in Nat
      BY NumberedInOrder
    <3>2. b \in Nat /\ b + 1 + (n + 1) <= Len(f.code)
      BY <3>1
    <3> QED
      BY <3>1, <3>2
  <2>2. FirstIndex(f, c) >= FirstIndex(f, b) + Len(f.code[b])
    BY <1>2, <2>1
  <2> HIDE DEF c
  <2>3. FirstIndex(f, c + 1) = FirstIndex(f, c) + Len(f.code[c])
    BY <2>1, NumberedInOrder
  <2>4. FirstIndex(f, c) \in Nat /\ Len(f.code[c]) \in Nat /\ FirstIndex(f, b) \in Nat
        /\ Len(f.code[b]) \in Nat
    BY <2>1, NumberedInOrder
  <2> QED
    BY <2>1, <2>2, <2>3, <2>4
<1>3. \A n \in Nat : n \in E
  <2> HIDE DEF E
  <2> QED
    BY <1>1, <1>2, Induction
<1> SUFFICES ASSUME NEW c \in Blocks(f), c > b
             PROVE  FirstIndex(f, c) >= FirstIndex(f, b) + Len(f.code[b])
  OBVIOUS
<1>4. c - (b + 1) \in Nat /\ b + 1 + (c - (b + 1)) = c
  BY NumberedInOrder
<1> QED
  BY <1>3, <1>4

-----------------------------------------------------------------------------
(* Places that want a register                                             *)

(* The values of a function on a finite set are finitely many.             *)
LEMMA ImageFinite ==
  ASSUME NEW D, IsFiniteSet(D), NEW h, h = [x \in D |-> h[x]]
  PROVE  IsFiniteSet({h[x] : x \in D})
<1> DEFINE T == {h[x] : x \in D}
<1>1. h \in [D -> T] /\ \A t \in T : \E x \in D : h[x] = t
  OBVIOUS
<1> HIDE DEF T
<1>2. h \in Surjection(D, T)
  BY <1>1 DEF Surjection
<1>3. IsFiniteSet(T)
  BY <1>2, FS_Surjection
<1> QED
  BY <1>3 DEF T

LEMMA FinitelyManyPlaces ==
  ASSUME NEW f \in MirFuncs
  PROVE  IsFiniteSet(Places(f))
<1> DEFINE h == [b \in Blocks(f) |-> {<<b, k>> : k \in 1..(Len(f.code[b]) + 1)}]
           All == {h[b] : b \in Blocks(f)}
<1>1. IsFiniteSet(Blocks(f))
  BY NumberedInOrder, FS_Interval
<1>2. IsFiniteSet(All)
  <2>1. h = [b \in Blocks(f) |-> h[b]]
    OBVIOUS
  <2> HIDE DEF h
  <2> QED
    BY <1>1, <2>1, ImageFinite
<1>3. ASSUME NEW b \in Blocks(f) PROVE IsFiniteSet(h[b])
  <2> DEFINE D == 1..(Len(f.code[b]) + 1)
             j == [k \in D |-> <<b, k>>]
  <2>1. IsFiniteSet(D)
    BY NumberedInOrder, FS_Interval
  <2>2. IsFiniteSet({j[k] : k \in D})
    <3>1. j = [k \in D |-> j[k]]
      OBVIOUS
    <3> HIDE DEF j, D
    <3> QED
      BY <2>1, <3>1, ImageFinite
  <2>3. h[b] = {j[k] : k \in D}
    OBVIOUS
  <2> QED
    BY <2>2, <2>3
<1>4. IsFiniteSet(UNION All)
  <2>1. \A T \in All : IsFiniteSet(T)
    BY <1>3
  <2> HIDE DEF All
  <2> QED
    BY <1>2, <2>1, FS_UNION
<1>5. Places(f) = UNION All
  BY DEF Places
<1> QED
  BY <1>4, <1>5

(* A chain of ever larger subsets of a finite set stops within as many     *)
(* steps as the set has members.                                           *)
LEMMA ChainStops ==
  ASSUME NEW P, IsFiniteSet(P), NEW g, \A n \in Nat : g[n] \in SUBSET P,
         \A n \in Nat : g[n] \subseteq g[n + 1],
         \A n \in Nat : g[n + 1] = g[n] => g[n + 2] = g[n + 1]
  PROVE  g[Cardinality(P) + 1] = g[Cardinality(P)]
<1> DEFINE N == Cardinality(P)
<1>1. /\ N \in Nat
      /\ \A n \in Nat : IsFiniteSet(g[n]) /\ Cardinality(g[n]) \in Nat /\ Cardinality(g[n]) <= N
  BY FS_CardinalityType, FS_Subset
<1> SUFFICES ASSUME g[N + 1] # g[N] PROVE FALSE
  OBVIOUS
<1>2. \A n \in Nat : n <= N => g[n + 1] # g[n]
  <2> DEFINE E == {k \in Nat : k <= N => g[N - k + 1] # g[N - k]}
  <2>1. 0 \in E
    BY <1>1
  <2>2. ASSUME NEW k \in Nat, k \in E PROVE k + 1 \in E
    <3> SUFFICES ASSUME k + 1 <= N PROVE g[N - (k + 1) + 1] # g[N - (k + 1)]
      OBVIOUS
    <3> DEFINE m == N - (k + 1)
    <3>1. m \in Nat /\ N - k = m + 1 /\ N - k + 1 = m + 2 /\ k <= N
      BY <1>1
    <3>2. g[m + 2] # g[m + 1]
      BY <2>2, <3>1
    <3> QED
      BY <3>1, <3>2
  <2>3. \A k \in Nat : k \in E
    <3> HIDE DEF E
    <3> QED
      BY <2>1, <2>2, Induction
  <2> SUFFICES ASSUME NEW n \in Nat, n <= N PROVE g[n + 1] # g[n]
    OBVIOUS
  <2>4. N - n \in Nat /\ N - n <= N /\ N - (N - n) = n
    BY <1>1
  <2> QED
    BY <2>3, <2>4
<1> HIDE DEF N
<1>3. \A n \in Nat : n <= N => Cardinality(g[n]) + 1 <= Cardinality(g[n + 1])
  <2> SUFFICES ASSUME NEW n \in Nat, n <= N
               PROVE  Cardinality(g[n]) + 1 <= Cardinality(g[n + 1])
    OBVIOUS
  <2>1. n + 1 \in Nat /\ g[n] \in SUBSET g[n + 1]
    OBVIOUS
  <2>2. Cardinality(g[n]) <= Cardinality(g[n + 1])
        /\ (Cardinality(g[n + 1]) = Cardinality(g[n]) => g[n + 1] = g[n])
    BY <1>1, <2>1, FS_Subset
  <2>3. Cardinality(g[n]) \in Nat /\ Cardinality(g[n + 1]) \in Nat
        /\ Cardinality(g[n + 1]) # Cardinality(g[n])
    BY <1>1, <1>2, <2>1, <2>2
  <2> QED
    BY ONLY <2>2, <2>3
<1>4. \A n \in Nat : n <= N + 1 => n <= Cardinality(g[n])
  <2> DEFINE E == {n \in Nat : n <= N + 1 => n <= Cardinality(g[n])}
  <2>1. 0 \in E
    BY <1>1
  <2>2. ASSUME NEW n \in Nat, n \in E PROVE n + 1 \in E
    <3> SUFFICES ASSUME n + 1 <= N + 1 PROVE n + 1 <= Cardinality(g[n + 1])
      OBVIOUS
    <3>1. n <= N /\ n <= N + 1 /\ n + 1 \in Nat
      BY <1>1
    <3> QED
      BY <1>1, <1>3, <2>2, <3>1
  <2> HIDE DEF E
  <2>3. \A n \in Nat : n \in E
    BY <2>1, <2>2, Induction
  <2> QED
    BY <2>3 DEF E
<1>5. N + 1 \in Nat /\ N + 1 <= N + 1
  BY <1>1
<1> QED
  BY <1>1, <1>4, <1>5

WithinOf(f, v, n, h) ==
  h = [k \in 0..n |-> IF k = 0 THEN Readers(f, v) ELSE Backed(f, v, h[k - 1])]

(* A step backwards only adds places, and from more places reaches more.   *)
LEMMA BackedGrows ==
  ASSUME NEW f, NEW v, NEW S \in SUBSET Places(f)
  PROVE  /\ Backed(f, v, S) \in SUBSET Places(f)
         /\ S \subseteq Backed(f, v, S)
         /\ \A W : S \subseteq W => Backed(f, v, S) \subseteq Backed(f, v, W)
BY DEF Backed, Passing

(* Going back as often as there are places reaches all there is to reach.  *)
LEMMA WantedIsReached ==
  ASSUME NEW f \in MirFuncs, NEW v
  PROVE  \E g : /\ \A n \in Nat : g[n] \in SUBSET Places(f)
                /\ g[0] = Readers(f, v)
                /\ \A n \in Nat : g[n + 1] = Backed(f, v, g[n])
                /\ WantedAt(f, v) = g[Cardinality(Places(f))]
                /\ WantedAt(f, v) = Backed(f, v, WantedAt(f, v))
<1> DEFINE P == Places(f)
           S == SUBSET P
           N == Cardinality(P)
           step == [p \in S \X Nat |-> Backed(f, v, p[1])]
<1>1. IsFiniteSet(P) /\ N \in Nat
  BY FinitelyManyPlaces, FS_CardinalityType
<1>2. Readers(f, v) \in S
  BY DEF Readers
<1>3. \A x \in S, n \in Nat : step[<<x, n>>] = Backed(f, v, x)
  OBVIOUS
<1>4. \A x \in S, n \in Nat : step[<<x, n>>] \in S
  BY <1>3, BackedGrows
<1> HIDE DEF S, step
<1>5. PICK g : Iteration(g, S, Readers(f, v), step)
  BY <1>2, <1>4, Iterates
<1>6. /\ \A n \in Nat : g[n] \in S
      /\ g[0] = Readers(f, v)
      /\ \A n \in Nat : g[n + 1] = Backed(f, v, g[n])
  BY <1>3, <1>5 DEF Iteration
<1> HIDE DEF P, N
<1>7. WantedAt(f, v) = g[N]
  <2> DEFINE h == [k \in 0..N |-> g[k]]
             w == CHOOSE e : WithinOf(f, v, N, e)
  <2>1. WithinOf(f, v, N, h)
    <3>1. 0 \in 0..N /\ h[0] = g[0]
      BY <1>1
    <3>2. ASSUME NEW k \in 0..N, k # 0 PROVE h[k] = Backed(f, v, h[k - 1])
      <4>1. k - 1 \in Nat /\ (k - 1) + 1 = k /\ k - 1 \in 0..N
        BY <1>1, <3>2
      <4>2. g[k] = Backed(f, v, g[k - 1])
        BY <1>6, <4>1
      <4> QED
        BY <4>1, <4>2
    <3>3. h = [k \in 0..N |-> IF k = 0 THEN Readers(f, v) ELSE Backed(f, v, h[k - 1])]
      BY <1>6, <3>1, <3>2
    <3> QED
      BY <3>3 DEF WithinOf
  <2>2. WithinOf(f, v, N, w)
    <3> HIDE DEF h
    <3> QED
      BY <2>1
  <2>3. WantedAt(f, v) = w[N]
    BY DEF WantedAt, WithinOf, N, P
  <2> HIDE DEF h, w
  <2>4. w[0] = g[0]
    BY <1>1, <1>6, <2>2 DEF WithinOf
  <2>5. \A k \in 1..N : w[k - 1] = g[k - 1] => w[k] = g[k]
    <3> SUFFICES ASSUME NEW k \in 1..N, w[k - 1] = g[k - 1] PROVE w[k] = g[k]
      OBVIOUS
    <3>1. k - 1 \in Nat /\ (k - 1) + 1 = k /\ k \in 0..N /\ k # 0
      BY <1>1
    <3>2. g[k] = Backed(f, v, g[k - 1])
      BY <1>6, <3>1
    <3>3. w[k] = Backed(f, v, w[k - 1])
      BY <2>2, <3>1 DEF WithinOf
    <3> QED
      BY <3>2, <3>3
  <2>6. \A k \in 0..N : w[k] = g[k]
    BY <1>1, <2>4, <2>5, StepAlike
  <2> QED
    BY <1>1, <2>3, <2>6
<1>8. g[N + 1] = g[N]
  <2>1. \A n \in Nat : g[n] \in SUBSET P
    BY <1>6 DEF S
  <2>2. \A n \in Nat : g[n] \subseteq g[n + 1]
    BY <1>6, <2>1, BackedGrows DEF P
  <2>3. \A n \in Nat : g[n + 1] = g[n] => g[n + 2] = g[n + 1]
    <3> SUFFICES ASSUME NEW n \in Nat, g[n + 1] = g[n] PROVE g[n + 2] = g[n + 1]
      OBVIOUS
    <3>1. n + 1 \in Nat /\ (n + 1) + 1 = n + 2
      OBVIOUS
    <3>2. g[n + 2] = Backed(f, v, g[n + 1])
      BY <1>6, <3>1
    <3> QED
      BY <1>6, <3>2
  <2> QED
    BY <1>1, <2>1, <2>2, <2>3, ChainStops DEF N
<1>9. WantedAt(f, v) = Backed(f, v, WantedAt(f, v))
  BY <1>1, <1>6, <1>7, <1>8
<1> QED
  BY <1>6, <1>7, <1>9 DEF S, P, N

(* The places that want v hold its readers and are closed backwards, and   *)
(* every set of places like that holds them.                               *)
THEOREM WantedIsLeast ==
  ASSUME NEW f \in MirFuncs, NEW v
  PROVE  /\ WantedAt(f, v) \in SUBSET Places(f)
         /\ Readers(f, v) \subseteq WantedAt(f, v)
         /\ \A p \in Passing(f, v) :
              After(f, p) \cap WantedAt(f, v) # {} => p \in WantedAt(f, v)
         /\ \A W : ( /\ Readers(f, v) \subseteq W
                     /\ \A p \in Passing(f, v) : After(f, p) \cap W # {} => p \in W )
                   => WantedAt(f, v) \subseteq W
<1> DEFINE N == Cardinality(Places(f))
<1>1. PICK g : /\ \A n \in Nat : g[n] \in SUBSET Places(f)
               /\ g[0] = Readers(f, v)
               /\ \A n \in Nat : g[n + 1] = Backed(f, v, g[n])
               /\ WantedAt(f, v) = g[N]
               /\ WantedAt(f, v) = Backed(f, v, WantedAt(f, v))
  BY WantedIsReached
<1>2. N \in Nat
  BY FinitelyManyPlaces, FS_CardinalityType
<1> HIDE DEF N
<1>3. ASSUME NEW W, Readers(f, v) \subseteq W,
             \A p \in Passing(f, v) : After(f, p) \cap W # {} => p \in W
      PROVE  \A n \in Nat : g[n] \subseteq W
  <2> DEFINE E == {n \in Nat : g[n] \subseteq W}
  <2>1. 0 \in E
    BY <1>1, <1>3
  <2>2. ASSUME NEW n \in Nat, n \in E PROVE n + 1 \in E
    <3>1. g[n + 1] = Backed(f, v, g[n]) /\ g[n] \subseteq W /\ n + 1 \in Nat
      BY <1>1, <2>2
    <3> QED
      BY <1>3, <3>1 DEF Backed
  <2> HIDE DEF E
  <2>3. \A n \in Nat : n \in E
    BY <2>1, <2>2, Induction
  <2> QED
    BY <2>3 DEF E
<1>4. Readers(f, v) \subseteq WantedAt(f, v)
  <2>1. \A n \in Nat : Readers(f, v) \subseteq g[n]
    <3> DEFINE E == {n \in Nat : Readers(f, v) \subseteq g[n]}
    <3>1. 0 \in E
      BY <1>1
    <3>2. ASSUME NEW n \in Nat, n \in E PROVE n + 1 \in E
      BY <1>1, <3>2 DEF Backed
    <3> HIDE DEF E
    <3>3. \A n \in Nat : n \in E
      BY <3>1, <3>2, Induction
    <3> QED
      BY <3>3 DEF E
  <2> QED
    BY <1>1, <1>2, <2>1
<1>5. \A p \in Passing(f, v) :
        After(f, p) \cap WantedAt(f, v) # {} => p \in WantedAt(f, v)
  BY <1>1 DEF Backed
<1>6. WantedAt(f, v) \in SUBSET Places(f)
  BY <1>1, <1>2
<1> QED
  BY <1>1, <1>2, <1>3, <1>4, <1>5, <1>6

(* A place wants v exactly when it reads v, or leads to a place that wants *)
(* v without writing v.                                                    *)
THEOREM WantedBackwards ==
  ASSUME NEW f \in MirFuncs, NEW v, NEW p \in Places(f)
  PROVE  p \in WantedAt(f, v) <=>
           \/ ~IsEnd(f, p) /\ v \in Reads(InstrAt(f, p))
           \/ /\ IsEnd(f, p) \/ v \notin InstrAt(f, p).def
              /\ After(f, p) \cap WantedAt(f, v) # {}
<1> DEFINE Good(q) == q \in Readers(f, v) \/ (q \in Passing(f, v) /\ After(f, q) \cap WantedAt(f, v) # {})
           W == {q \in WantedAt(f, v) : Good(q)}
<1>1. Readers(f, v) \subseteq W
  BY WantedIsLeast
<1>2. \A q \in Passing(f, v) : After(f, q) \cap W # {} => q \in W
  BY WantedIsLeast
<1>3. WantedAt(f, v) \subseteq W
  <2> HIDE DEF W
  <2> QED
    BY <1>1, <1>2, WantedIsLeast
<1>4. p \in WantedAt(f, v) <=> Good(p)
  BY <1>3, WantedIsLeast
<1> QED
  BY <1>4 DEF Readers, Passing
=============================================================================
