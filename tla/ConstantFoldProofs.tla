------------------------- MODULE ConstantFoldProofs -------------------------
(***************************************************************************)
(* Whatever the widths are, every constant the analysis accepts is one     *)
(* number to the fold, to C and to the program's doubles, inside the type  *)
(* C gives it and the window a double holds exactly; and an operator is    *)
(* refused only where one of the three would have parted or the window     *)
(* would have been left.  Powers of two, bits and division come first,     *)
(* then each kind of operator for each reader, then the operands on the    *)
(* stack.                                                                  *)
(***************************************************************************)
EXTENDS ConstantFold, FiniteSetTheorems, TLAPS

Sums == INSTANCE MirFuncProofs WITH VRegs <- {}

-----------------------------------------------------------------------------
(* Powers of two: 2^n is the number of subsets of n things.                *)
LEMMA Doubling ==
  ASSUME NEW n \in Nat
  PROVE  2 ^ n \in Nat /\ 2 ^ (n + 1) = 2 * 2 ^ n
<1> DEFINE U == 1..n
           V == 1..(n + 1)
           A == SUBSET U
           f == [T \in A |-> T \cup {n + 1}]
           B == {T \cup {n + 1} : T \in A}
<1>1. IsFiniteSet(U) /\ Cardinality(U) = n /\ IsFiniteSet(V) /\ Cardinality(V) = n + 1
  BY FS_Interval
<1>2. IsFiniteSet(A) /\ Cardinality(A) = 2 ^ n /\ IsFiniteSet(SUBSET V)
      /\ Cardinality(SUBSET V) = 2 ^ (n + 1)
  BY <1>1, FS_SUBSET
<1>3. \A i : i \in V <=> i \in U \/ i = n + 1
  OBVIOUS
<1>4. n + 1 \notin U
  OBVIOUS
<1> HIDE DEF U, V
<1>5. SUBSET V = A \cup B /\ A \cap B = {}
  <2>1. ASSUME NEW T \in SUBSET V PROVE T \in A \/ T \in B
    <3>1. CASE n + 1 \in T
      <4>1. T \ {n + 1} \in A /\ T = (T \ {n + 1}) \cup {n + 1}
        BY <1>3, <3>1
      <4> QED
        BY <4>1
    <3>2. CASE n + 1 \notin T
      BY <1>3, <3>2
    <3> QED
      BY <3>1, <3>2
  <2> QED
    BY <1>3, <1>4, <2>1
<1>6. f \in Bijection(A, B)
  <2>1. \A T, R \in A : T \cup {n + 1} = R \cup {n + 1} => T = R
    BY <1>4
  <2>2. f = [T \in A |-> f[T]] /\ \A T \in A : f[T] = T \cup {n + 1}
    OBVIOUS
  <2>3. \A T \in A : T \cup {n + 1} \in B
    OBVIOUS
  <2>4. \A R \in B : \E T \in A : R = T \cup {n + 1}
    OBVIOUS
  <2> HIDE DEF f, A, B
  <2>5. f \in [A -> B]
    BY <2>2, <2>3
  <2>6. \A R \in B : \E T \in A : f[T] = R
    BY <2>2, <2>4
  <2>7. \A T, R \in A : f[T] = f[R] => T = R
    BY <2>1, <2>2
  <2> QED
    BY <2>5, <2>6, <2>7 DEF Bijection, Injection, Surjection, IsInjective
<1>7. IsFiniteSet(B) /\ Cardinality(B) = Cardinality(A)
  BY <1>2, <1>6, FS_Bijection DEF ExistsBijection
<1>8. Cardinality(A) \in Nat
  BY <1>2, FS_CardinalityType
<1>9. Cardinality(A \cup B) = Cardinality(A) + Cardinality(B) - 0
  <2> HIDE DEF A, B
  <2> QED
    BY <1>2, <1>5, <1>7, FS_Union, FS_EmptySet
<1> HIDE DEF A, B
<1>10. 2 ^ (n + 1) = Cardinality(A) + Cardinality(A)
  BY <1>2, <1>5, <1>7, <1>8, <1>9
<1> QED
  BY <1>2, <1>8, <1>10

(* None of them is 0.                                                     *)
LEMMA PowerPositive ==
  ASSUME NEW n \in Nat
  PROVE  2 ^ n \in Nat \ {0}
<1> DEFINE E == {k \in Nat : 2 ^ k >= 1}
<1>1. 0 \in E
  OBVIOUS
<1>2. ASSUME NEW k \in Nat, k \in E PROVE k + 1 \in E
  BY <1>2, Doubling
<1> HIDE DEF E
<1>3. \A k \in Nat : k \in E
  BY <1>1, <1>2, Sums!Induction
<1> QED
  BY <1>3, Doubling DEF E

(* Powers multiply.                                                        *)
LEMMA PowerGrows ==
  ASSUME NEW m \in Nat, NEW n \in Nat
  PROVE  2 ^ (m + n) = 2 ^ m * 2 ^ n
<1> DEFINE E == {k \in Nat : 2 ^ (m + k) = 2 ^ m * 2 ^ k}
<1>1. 0 \in E
  BY Doubling
<1>2. ASSUME NEW k \in Nat, k \in E PROVE k + 1 \in E
  <2>1. /\ 2 ^ ((m + k) + 1) = 2 * 2 ^ (m + k)
        /\ 2 ^ (k + 1) = 2 * 2 ^ k
        /\ (m + k) + 1 = m + (k + 1)
    BY Doubling
  <2>2. 2 ^ m \in Nat /\ 2 ^ k \in Nat /\ 2 ^ (m + k) = 2 ^ m * 2 ^ k
    BY <1>2, Doubling
  <2>3. 2 * (2 ^ m * 2 ^ k) = 2 ^ m * (2 * 2 ^ k)
    BY <2>2
  <2> QED
    BY <2>1, <2>2, <2>3
<1> HIDE DEF E
<1>3. \A k \in Nat : k \in E
  BY <1>1, <1>2, Sums!Induction
<1> QED
  BY <1>3 DEF E

(* And they grow with the exponent, and only with it.                      *)
LEMMA PowerMonotone ==
  ASSUME NEW m \in Nat, NEW n \in Nat
  PROVE  m <= n <=> 2 ^ m <= 2 ^ n
<1>1. ASSUME NEW i \in Nat, NEW j \in Nat, i < j PROVE 2 ^ i < 2 ^ j
  <2> DEFINE d == (j - i) - 1
  <2>1. d \in Nat /\ (i + d) + 1 = j
    BY <1>1
  <2> HIDE DEF d
  <2>2. 2 ^ j = 2 * (2 ^ i * 2 ^ d)
    <3>1. i + d \in Nat
      BY <2>1
    <3>2. 2 ^ ((i + d) + 1) = 2 * 2 ^ (i + d)
      BY <3>1, Doubling
    <3>3. 2 ^ (i + d) = 2 ^ i * 2 ^ d
      BY <2>1, PowerGrows
    <3> QED
      BY <2>1, <3>2, <3>3
  <2>3. 2 ^ i \in Nat /\ 2 ^ d \in Nat /\ 2 ^ i >= 1 /\ 2 ^ d >= 1
    BY <2>1, PowerPositive
  <2>4. \A p, q \in Nat : p >= 1 /\ q >= 1 => 2 * (p * q) > p
    <3> SUFFICES ASSUME NEW p \in Nat, NEW q \in Nat, p >= 1, q >= 1
                 PROVE  2 * (p * q) > p
      OBVIOUS
    <3>1. p * q = p * (q - 1) + p
      OBVIOUS
    <3>2. p * (q - 1) \in Nat
      OBVIOUS
    <3>3. p * q \in Nat /\ p * q >= p
      BY <3>1, <3>2
    <3> QED
      BY <3>3
  <2>5. 2 * (2 ^ i * 2 ^ d) > 2 ^ i
    BY <2>3, <2>4
  <2> QED
    BY <2>2, <2>5
<1>2. 2 ^ m \in Nat /\ 2 ^ n \in Nat
  BY Doubling
<1> QED
  BY <1>1, <1>2
-----------------------------------------------------------------------------
(* What the widths come to.                                                *)
LEMMA Widths ==
  /\ IntBits \in Nat \ {0} /\ ExactBits \in Nat \ {0} /\ MachineBits \in Nat \ {0}
  /\ IntBits <= ExactBits
  /\ 2 ^ (IntBits - 1) = IntMax + 1
  /\ 2 ^ (MachineBits - 1) \in Nat /\ 2 ^ MachineBits = 2 * 2 ^ (MachineBits - 1)
  /\ 2 * ExactLimit <= 2 ^ (MachineBits - 1)
<1>1. IntBits # 0 /\ ExactBits # 0
  <2>1. \A n : n = 0 => 2 ^ n = 1
    OBVIOUS
  <2>2. 2 ^ IntBits >= 4 /\ 2 ^ ExactBits >= 4
    BY WidthsScale
  <2> QED
    BY <2>1, <2>2, WidthsScale
<1>2. 2 ^ IntBits <= 2 ^ ExactBits
  BY WidthsScale
<1>3. IntBits <= ExactBits
  BY <1>2, WidthsScale, PowerMonotone
<1>4. IntBits - 1 \in Nat /\ (IntBits - 1) + 1 = IntBits
  BY <1>1, WidthsScale
<1>5. 2 ^ (IntBits - 1) \in Nat /\ 2 ^ IntBits = 2 * 2 ^ (IntBits - 1)
  BY <1>4, Doubling
<1>6. MachineBits - 1 \in Nat /\ (MachineBits - 1) + 1 = MachineBits
  BY WidthsScale
<1>7. 2 ^ (MachineBits - 1) \in Nat /\ 2 ^ MachineBits = 2 * 2 ^ (MachineBits - 1)
  BY <1>6, Doubling
<1>8. ExactBits + 1 \in Nat /\ ExactBits + 1 <= MachineBits - 1
  BY WidthsScale
<1>9. 2 ^ (ExactBits + 1) <= 2 ^ (MachineBits - 1)
  BY <1>6, <1>8, PowerMonotone
<1>10. 2 ^ (ExactBits + 1) = 2 * 2 ^ ExactBits
  BY WidthsScale, Doubling
<1> QED
  BY <1>1, <1>3, <1>5, <1>7, <1>9, <1>10, WidthsScale

(* A number that fits so many bits is left as it is.                       *)
LEMMA WrappedSame ==
  ASSUME NEW n \in Nat \ {0}, NEW v \in Int, -(2 ^ (n - 1)) <= v, v < 2 ^ (n - 1)
  PROVE  Wrapped(n, v) = v
<1> DEFINE h == 2 ^ (n - 1)
<1>1. n - 1 \in Nat /\ (n - 1) + 1 = n
  OBVIOUS
<1>2. h \in Nat \ {0} /\ 2 ^ n = 2 * h
  BY <1>1, Doubling, PowerPositive
<1>3. -h <= v /\ v < h
  OBVIOUS
<1>4. Wrapped(n, v) = ((v + h) % 2 ^ n) - h
  BY DEF Wrapped
<1> HIDE DEF h
<1>5. (v + h) % (2 * h) = v + h
  BY <1>2, <1>3
<1> QED
  BY <1>2, <1>4, <1>5

(* Any other is moved by a whole multiple of their number.                 *)
LEMMA WrappedRange ==
  ASSUME NEW n \in Nat \ {0}, NEW v \in Int
  PROVE  /\ Wrapped(n, v) \in Int /\ -(2 ^ (n - 1)) <= Wrapped(n, v) /\ Wrapped(n, v) < 2 ^ (n - 1)
         /\ \E k \in Int : Wrapped(n, v) = v + k * 2 ^ n
<1> DEFINE h == 2 ^ (n - 1)
<1>1. n - 1 \in Nat /\ (n - 1) + 1 = n
  OBVIOUS
<1>2. h \in Nat \ {0} /\ 2 ^ n = 2 * h
  BY <1>1, Doubling, PowerPositive
<1>3. Wrapped(n, v) = ((v + h) % 2 ^ n) - h
  BY DEF Wrapped
<1> HIDE DEF h
<1> DEFINE q == (v + h) \div (2 * h)
           r == (v + h) % (2 * h)
<1>4. q \in Int /\ r \in Int /\ 0 <= r /\ r < 2 * h /\ v + h = (2 * h) * q + r
  BY <1>2
<1>5. Wrapped(n, v) = r - h
  BY <1>2, <1>3
<1> HIDE DEF q, r
<1>6. r - h = v + (-q) * (2 * h)
  BY <1>2, <1>4
<1>7. -q \in Int
  BY <1>4
<1>8. \E k \in Int : Wrapped(n, v) = v + k * 2 ^ n
  BY <1>2, <1>5, <1>6, <1>7
<1>9. -h <= r - h /\ r - h < h /\ r - h \in Int
  BY <1>2, <1>4
<1> QED
  BY <1>5, <1>8, <1>9 DEF h
-----------------------------------------------------------------------------
(* Bits, and what the three masks make of them.                            *)
LEMMA BitIs ==
  ASSUME NEW a \in Int, NEW n \in Nat
  PROVE  Bit(a, n) \in {0, 1}
<1> DEFINE p == 2 ^ n
           q == a \div p
<1>1. p \in Nat \ {0}
  BY PowerPositive
<1>2. Bit(a, n) = q % 2
  BY DEF Bit
<1> HIDE DEF p
<1>3. q \in Int
  BY <1>1
<1> HIDE DEF q
<1> QED
  BY <1>2, <1>3

(* A quotient and its rest, from any way to write the number with them.    *)
LEMMA RestOf ==
  ASSUME NEW m \in Nat \ {0}, NEW k \in Int, NEW r \in Int, 0 <= r, r < m
  PROVE  (m * k + r) % m = r /\ (m * k + r) \div m = k
<1> DEFINE a == m * k + r
           q == a \div m
           e == a % m
<1>1. a \in Int /\ a = m * k + r
  OBVIOUS
<1> HIDE DEF a
<1>2. q \in Int /\ e \in Int /\ 0 <= e /\ e < m /\ a = m * q + e
  BY <1>1
<1> HIDE DEF q, e
<1>3. m * (k - q) = e - r
  BY <1>1, <1>2
<1>4. k - q = 0
  <2>1. CASE k - q >= 1
    <3>1. m * (k - q) = m * ((k - q) - 1) + m /\ m * ((k - q) - 1) >= 0
      BY <1>2, <2>1
    <3> QED
      BY <1>2, <1>3, <3>1
  <2>2. CASE k - q <= -1
    <3>1. m * (k - q) = -(m * ((q - k) - 1)) - m /\ m * ((q - k) - 1) >= 0
      BY <1>2, <2>2
    <3> QED
      BY <1>2, <1>3, <3>1
  <2> QED
    BY <1>2, <2>1, <2>2
<1>5. k = q /\ r = e
  BY <1>2, <1>3, <1>4
<1> QED
  BY <1>5 DEF a, q, e

(* The rest of a number past its bit n is its rest past bits 0 to n - 1,   *)
(* but for that bit.                                                       *)
LEMMA NextBit ==
  ASSUME NEW a \in Int, NEW n \in Nat
  PROVE  a % 2 ^ (n + 1) = (a % 2 ^ n) + Bit(a, n) * 2 ^ n
<1> DEFINE p == 2 ^ n
           q == a \div p
           r == a % p
           e == q \div 2
           d == q % 2
<1>1. p \in Nat \ {0} /\ 2 ^ (n + 1) = 2 * p
  BY PowerPositive, Doubling
<1>2. Bit(a, n) = d
  BY DEF Bit
<1> HIDE DEF p
<1>3. q \in Int /\ r \in Int /\ 0 <= r /\ r < p /\ a = p * q + r
  BY <1>1
<1> HIDE DEF q, r
<1>4. e \in Int /\ d \in {0, 1} /\ q = 2 * e + d
  BY <1>3
<1> HIDE DEF e, d
<1>5. p * q = (2 * p) * e + p * d
  BY <1>1, <1>3, <1>4
<1>6. p * d \in Int /\ 0 <= p * d /\ p * d <= p
  <2>1. CASE d = 0
    BY <1>1, <2>1
  <2>2. CASE d = 1
    BY <1>1, <2>2
  <2> QED
    BY <1>4, <2>1, <2>2
<1>7. a = (2 * p) * e + (p * d + r) /\ 0 <= p * d + r /\ p * d + r < 2 * p
  <2>1. p * d = 0 \/ p * d = p
    BY <1>1, <1>4
  <2>2. (2 * p) * e \in Int
    BY <1>1, <1>4
  <2> QED
    BY <1>1, <1>3, <1>5, <1>6, <2>1, <2>2
<1>8. 2 * p \in Nat \ {0} /\ p * d + r \in Int
  BY <1>1, <1>3, <1>6
<1>9. a % (2 * p) = p * d + r
  BY <1>4, <1>7, <1>8, RestOf
<1>10. p * d = d * p
  BY <1>1, <1>4
<1>11. p * d + r = r + d * p
  BY <1>3, <1>6, <1>10
<1>12. a % 2 ^ (n + 1) = r + d * p
  BY <1>1, <1>9, <1>11
<1> QED
  BY <1>2, <1>12 DEF r, p

Sign(a) == IF a < 0 THEN 1 ELSE 0

(* Past the bits a number fits, every bit is its sign.                     *)
LEMMA BitsAbove ==
  ASSUME NEW w \in Nat, NEW a \in Int, -(2 ^ w) <= a, a < 2 ^ w, NEW n \in Nat, w <= n
  PROVE  Bit(a, n) = Sign(a)
<1> DEFINE p == 2 ^ n
<1>1. p \in Nat \ {0} /\ 2 ^ w \in Nat /\ 2 ^ w <= p
  BY PowerPositive, Doubling, PowerMonotone
<1>2. Bit(a, n) = (a \div p) % 2
  BY DEF Bit
<1>3. -p <= a /\ a < p
  <2> HIDE DEF p
  <2> QED
    BY <1>1
<1> HIDE DEF p
<1>4. CASE a < 0
  <2>1. a \div p = -1
    BY <1>1, <1>3, <1>4
  <2> QED
    BY <1>2, <1>4, <2>1 DEF Sign
<1>5. CASE a >= 0
  <2>1. a \div p = 0
    BY <1>1, <1>3, <1>5
  <2> QED
    BY <1>2, <1>5, <2>1 DEF Sign
<1> QED
  BY <1>4, <1>5

(* What a mask makes of two bits is a bit, and of two zeros a zero.        *)
LEMMA BitOfIs ==
  ASSUME NEW op \in Masks, NEW x \in {0, 1}, NEW y \in {0, 1}
  PROVE  BitOf(op, x, y) \in {0, 1} /\ (x = 0 /\ y = 0 => BitOf(op, x, y) = 0)
BY DEF BitOf, Masks
(* What OfBits adds up, one bit after another.                             *)
Adds(op, a, b, g) ==
  /\ g \in [Nat -> Int]
  /\ g[0] = 0
  /\ \A n \in Nat : g[n + 1] = g[n] + BitOf(op, Bit(a, n), Bit(b, n)) * 2 ^ n

Lowest(op, a, b, f) ==
  f = [k \in 0 .. MachineBits |->
         IF k = 0 THEN 0
         ELSE f[k - 1] + BitOf(op, Bit(a, k - 1), Bit(b, k - 1)) * 2 ^ (k - 1)]

(* The recursion in OfBits has its sums: those a running sum over all bits *)
(* has at the machine's width.                                             *)
LEMMA MaskAdds ==
  ASSUME NEW op \in Masks, NEW a \in Int, NEW b \in Int
  PROVE  \E g : Adds(op, a, b, g) /\ OfBits(op, a, b) = Wrapped(MachineBits, g[MachineBits])
<1> DEFINE worth == [n \in Nat |-> BitOf(op, Bit(a, n), Bit(b, n)) * 2 ^ n]
           step == [p \in Int \X Nat |-> p[1] + worth[p[2]]]
<1>1. \A n \in Nat : worth[n] \in Int
  <2> SUFFICES ASSUME NEW n \in Nat PROVE BitOf(op, Bit(a, n), Bit(b, n)) * 2 ^ n \in Int
    OBVIOUS
  <2>1. BitOf(op, Bit(a, n), Bit(b, n)) \in {0, 1} /\ 2 ^ n \in Nat
    BY BitIs, BitOfIs, Doubling
  <2> QED
    BY <2>1
<1>w. \A n \in Nat : worth[n] = BitOf(op, Bit(a, n), Bit(b, n)) * 2 ^ n
  OBVIOUS
<1> HIDE DEF worth
<1>2. \A x \in Int, n \in Nat : step[<<x, n>>] \in Int
  BY <1>1
<1>3. \A x \in Int, n \in Nat : step[<<x, n>>] = x + worth[n]
  OBVIOUS
<1> HIDE DEF step
<1>4. PICK g : Sums!Iteration(g, Int, 0, step)
  BY <1>2, Sums!Iterates
<1>5. g \in [Nat -> Int] /\ g[0] = 0 /\ \A n \in Nat : g[n + 1] = step[<<g[n], n>>]
  BY <1>4 DEF Sums!Iteration
<1>6. \A n \in Nat : g[n + 1] = g[n] + worth[n]
  BY <1>3, <1>5
<1>7. Adds(op, a, b, g)
  BY <1>5, <1>6, <1>w DEF Adds
<1>8. MachineBits \in Nat
  BY WidthsScale
<1> DEFINE h == [k \in 0 .. MachineBits |-> g[k]]
           f == CHOOSE e : Lowest(op, a, b, e)
<1>9. Lowest(op, a, b, h)
  <2>1. ASSUME NEW k \in 0 .. MachineBits, k # 0
        PROVE  h[k] = h[k - 1] + BitOf(op, Bit(a, k - 1), Bit(b, k - 1)) * 2 ^ (k - 1)
    <3>1. k - 1 \in Nat /\ k - 1 \in 0 .. MachineBits /\ (k - 1) + 1 = k
      BY <1>8, <2>1
    <3> DEFINE j == k - 1
    <3>2. h[k] = g[j + 1] /\ h[j] = g[j]
      BY <3>1
    <3>3. j \in Nat
      BY <3>1
    <3> HIDE DEF h, j
    <3>4. h[k] = h[j] + BitOf(op, Bit(a, j), Bit(b, j)) * 2 ^ j
      BY <1>7, <3>2, <3>3 DEF Adds
    <3> QED
      BY <3>4 DEF j
  <2>2. \A k \in 0 .. MachineBits : k = 0 => h[k] = 0
    BY <1>5
  <2>3. h = [k \in 0 .. MachineBits |-> h[k]]
    OBVIOUS
  <2> HIDE DEF h
  <2> QED
    BY <2>1, <2>2, <2>3 DEF Lowest
<1>10. Lowest(op, a, b, f)
  <2> HIDE DEF h
  <2> QED
    BY <1>9
<1>11. OfBits(op, a, b) = Wrapped(MachineBits, f[MachineBits])
  BY DEF OfBits, Lowest
<1> HIDE DEF f, h
<1> DEFINE E == {k \in Nat : k <= MachineBits => f[k] = g[k]}
<1>12. 0 \in E
  <2>1. 0 \in 0 .. MachineBits
    BY <1>8
  <2>2. f[0] = 0
    BY <1>10, <2>1 DEF Lowest
  <2> QED
    BY <1>5, <2>2
<1>13. ASSUME NEW k \in Nat, k \in E PROVE k + 1 \in E
  <2> SUFFICES ASSUME k + 1 <= MachineBits PROVE f[k + 1] = g[k + 1]
    OBVIOUS
  <2>1. k + 1 \in 0 .. MachineBits /\ k + 1 # 0 /\ (k + 1) - 1 = k /\ k <= MachineBits
    BY <1>8
  <2>2. f[k + 1] = f[k] + BitOf(op, Bit(a, k), Bit(b, k)) * 2 ^ k
    BY <1>10, <2>1 DEF Lowest
  <2>3. f[k] = g[k]
    BY <1>13, <2>1
  <2> QED
    BY <1>7, <2>2, <2>3 DEF Adds
<1> HIDE DEF E
<1>14. \A k \in Nat : k \in E
  BY <1>12, <1>13, Sums!Induction
<1>15. f[MachineBits] = g[MachineBits]
  BY <1>8, <1>14 DEF E
<1> QED
  BY <1>7, <1>11, <1>15

(* A mask of two numbers that fit w bits and a sign fits them too, and its *)
(* sign is what the mask makes of the two signs.                           *)
LEMMA MaskStays ==
  ASSUME NEW op \in Masks, NEW w \in Nat, w < MachineBits,
         NEW a \in Int, -(2 ^ w) <= a, a < 2 ^ w,
         NEW b \in Int, -(2 ^ w) <= b, b < 2 ^ w
  PROVE  /\ OfBits(op, a, b) \in Int
         /\ -(2 ^ w) <= OfBits(op, a, b) /\ OfBits(op, a, b) < 2 ^ w
         /\ a >= 0 /\ b >= 0 => OfBits(op, a, b) >= 0
<1>1. PICK g : Adds(op, a, b, g) /\ OfBits(op, a, b) = Wrapped(MachineBits, g[MachineBits])
  BY MaskAdds
<1> DEFINE s == BitOf(op, Sign(a), Sign(b))
           W == 2 ^ w
           h == 2 ^ (MachineBits - 1)
<1>2. s \in {0, 1} /\ (a >= 0 /\ b >= 0 => s = 0)
  BY BitOfIs DEF Sign
<1>3. \A n \in Nat : n >= w => BitOf(op, Bit(a, n), Bit(b, n)) = s
  BY BitsAbove
<1> HIDE DEF s
<1> DEFINE E == {n \in Nat : 0 <= g[n] /\ g[n] < 2 ^ n}
           U == {d \in Nat : g[w + d] = g[w] + s * (2 ^ (w + d) - 2 ^ w)}
<1>4. 0 \in E
  BY <1>1 DEF Adds
<1>5. ASSUME NEW n \in Nat, n \in E PROVE n + 1 \in E
  <2> DEFINE p == 2 ^ n
             d == BitOf(op, Bit(a, n), Bit(b, n))
  <2>1. p \in Nat \ {0} /\ 2 ^ (n + 1) = 2 * p
    BY PowerPositive, Doubling
  <2>2. g[n] \in Int /\ g[n + 1] = g[n] + d * p
    BY <1>1 DEF Adds
  <2>3. 0 <= g[n] /\ g[n] < p
    BY <1>5
  <2>4. d \in {0, 1}
    BY BitIs, BitOfIs
  <2> HIDE DEF p, d
  <2>5. d * p = 0 \/ d * p = p
    BY <2>1, <2>4
  <2>6. 0 <= g[n + 1] /\ g[n + 1] < 2 * p
    BY <2>1, <2>2, <2>3, <2>5
  <2> QED
    BY <2>1, <2>6
<1>6. 0 \in U
  <2>1. w + 0 = w /\ g[w] \in Int /\ 2 ^ w \in Nat
    BY <1>1, Doubling DEF Adds
  <2> QED
    BY <1>2, <2>1
<1>7. ASSUME NEW d \in Nat, d \in U PROVE d + 1 \in U
  <2> DEFINE p == 2 ^ (w + d)
  <2>1. w + d \in Nat /\ w + (d + 1) = (w + d) + 1 /\ w + d >= w
    OBVIOUS
  <2>2. p \in Nat /\ 2 ^ (w + (d + 1)) = 2 * p
    BY <2>1, Doubling
  <2>3. g[w + (d + 1)] = g[w + d] + s * p
    BY <1>1, <1>3, <2>1 DEF Adds
  <2>4. g[w + d] = g[w] + s * (p - W)
    BY <1>7
  <2>5. W \in Nat /\ g[w] \in Int
    BY <1>1, Doubling DEF Adds
  <2> HIDE DEF p, W
  <2>6. g[w + (d + 1)] = g[w] + s * (2 * p - W)
    BY <1>2, <2>2, <2>3, <2>4, <2>5
  <2> QED
    BY <2>2, <2>6 DEF W
<1> HIDE DEF E, U
<1>8. \A n \in Nat : n \in E
  BY <1>4, <1>5, Sums!Induction
<1>9. \A d \in Nat : d \in U
  BY <1>6, <1>7, Sums!Induction
<1>10. g[w] \in Int /\ 0 <= g[w] /\ g[w] < W
  BY <1>1, <1>8 DEF E, Adds
<1>11. g[MachineBits] = g[w] + s * (2 * h - W)
  <2>1. MachineBits - w \in Nat /\ w + (MachineBits - w) = MachineBits
    BY WidthsScale
  <2>2. g[w + (MachineBits - w)] = g[w] + s * (2 ^ (w + (MachineBits - w)) - 2 ^ w)
    BY <1>9, <2>1 DEF U
  <2>3. 2 ^ MachineBits = 2 * h
    BY Widths
  <2> QED
    BY <2>1, <2>2, <2>3
<1>12. h \in Nat \ {0} /\ W \in Nat \ {0} /\ W <= h /\ MachineBits \in Nat \ {0}
  <2>1. MachineBits - 1 \in Nat /\ w <= MachineBits - 1 /\ MachineBits \in Nat \ {0}
    BY WidthsScale
  <2> QED
    BY <2>1, PowerPositive, PowerMonotone
<1> DEFINE v == g[MachineBits]
<1>13. OfBits(op, a, b) = ((v + h) % (2 * h)) - h
  BY <1>1, Widths DEF Wrapped
<1> HIDE DEF h, W, v
<1>14. CASE s = 0
  <2>1. v = g[w]
    BY <1>10, <1>11, <1>12, <1>14 DEF v
  <2>2. (v + h) % (2 * h) = v + h
    BY <1>10, <1>12, <2>1
  <2>3. OfBits(op, a, b) = g[w]
    BY <1>10, <1>12, <1>13, <2>1, <2>2
  <2> QED
    BY <1>10, <1>12, <2>3 DEF W
<1>15. CASE s = 1
  <2>1. v = g[w] + (2 * h - W)
    BY <1>10, <1>11, <1>12, <1>15 DEF v
  <2> DEFINE r == (g[w] - W) + h
  <2>2. r \in Int /\ 0 <= r /\ r < 2 * h /\ v + h = (2 * h) * 1 + r /\ 2 * h \in Nat \ {0}
    BY <1>10, <1>12, <2>1
  <2>3. (v + h) % (2 * h) = r
    <3> HIDE DEF r
    <3> QED
      BY <2>2, RestOf
  <2>4. OfBits(op, a, b) = g[w] - W
    BY <1>10, <1>12, <1>13, <2>3
  <2>5. ~(a >= 0 /\ b >= 0)
    BY <1>2, <1>15
  <2>6. OfBits(op, a, b) \in Int /\ -W <= OfBits(op, a, b) /\ OfBits(op, a, b) < W
    BY <1>10, <1>12, <2>4
  <2> QED
    BY <2>5, <2>6 DEF W
<1> QED
  BY <1>2, <1>14, <1>15

(* Exclusive or with -1 turns every bit over.                              *)
LEMMA Complement ==
  ASSUME NEW w \in Nat, w < MachineBits, NEW a \in Int, -(2 ^ w) <= a, a < 2 ^ w
  PROVE  OfBits("^", a, -1) = -a - 1
<1> DEFINE h == 2 ^ (MachineBits - 1)
<1>1. PICK g : Adds("^", a, -1, g) /\ OfBits("^", a, -1) = Wrapped(MachineBits, g[MachineBits])
  BY MaskAdds DEF Masks
<1>2. h \in Nat \ {0} /\ 2 ^ MachineBits = 2 * h /\ -h <= a /\ a < h
  <2>1. MachineBits - 1 \in Nat /\ w <= MachineBits - 1
    BY WidthsScale
  <2>2. h \in Nat \ {0} /\ 2 ^ w \in Nat /\ 2 ^ w <= h
    BY <2>1, Doubling, PowerPositive, PowerMonotone
  <2> HIDE DEF h
  <2> QED
    BY <2>2, Widths DEF h
<1> DEFINE E == {n \in Nat : g[n] = 2 ^ n - 1 - (a % 2 ^ n)}
<1>3. 0 \in E
  <2>1. \A n : n = 0 => 2 ^ n = 1
    OBVIOUS
  <2>2. a % 1 = 0
    OBVIOUS
  <2> QED
    BY <1>1, <2>1, <2>2 DEF Adds
<1>4. ASSUME NEW n \in Nat, n \in E PROVE n + 1 \in E
  <2> DEFINE p == 2 ^ n
             d == Bit(a, n)
  <2>1. p \in Nat \ {0} /\ 2 ^ (n + 1) = 2 * p
    BY PowerPositive, Doubling
  <2>2. d \in {0, 1}
    BY BitIs
  <2>3. Bit(-1, n) = 1
    <3>1. -(2 ^ n) <= -1 /\ -1 < 2 ^ n
      BY <2>1
    <3> QED
      BY <3>1, BitsAbove DEF Sign
  <2>4. g[n + 1] = g[n] + BitOf("^", d, 1) * p
    BY <1>1, <2>3 DEF Adds
  <2>5. BitOf("^", d, 1) = 1 - d
    BY <2>2 DEF BitOf
  <2>6. a % 2 ^ (n + 1) = (a % p) + d * p
    BY NextBit
  <2>7. g[n] = p - 1 - (a % p)
    BY <1>4
  <2>8. a % p \in Int
    BY <2>1
  <2> HIDE DEF p, d
  <2>9. g[n + 1] = 2 * p - 1 - ((a % p) + d * p)
    <3>1. CASE d = 0
      BY <2>1, <2>4, <2>5, <2>7, <2>8, <3>1
    <3>2. CASE d = 1
      BY <2>1, <2>4, <2>5, <2>7, <2>8, <3>2
    <3> QED
      BY <2>2, <3>1, <3>2
  <2> QED
    BY <2>1, <2>6, <2>9
<1> HIDE DEF E
<1>5. MachineBits \in E
  BY <1>3, <1>4, WidthsScale, Sums!Induction
<1>6. g[MachineBits] = 2 * h - 1 - (a % (2 * h))
  BY <1>2, <1>5 DEF E
<1>7. OfBits("^", a, -1) = ((g[MachineBits] + h) % (2 * h)) - h
  BY <1>1, <1>2 DEF Wrapped
<1> HIDE DEF h
<1>8. CASE a >= 0
  <2>1. a % (2 * h) = a
    BY <1>2, <1>8
  <2> DEFINE r == h - 1 - a
  <2>2. g[MachineBits] + h = (2 * h) * 1 + r /\ r \in Int /\ 0 <= r /\ r < 2 * h
        /\ 2 * h \in Nat \ {0}
    BY <1>2, <1>6, <1>8, <2>1
  <2> HIDE DEF r
  <2>3. (g[MachineBits] + h) % (2 * h) = r
    BY <2>2, RestOf
  <2> QED
    BY <1>2, <1>7, <2>3 DEF r
<1>9. CASE a < 0
  <2>1. a % (2 * h) = a + 2 * h
    <3>1. a = (2 * h) * (-1) + (a + 2 * h) /\ a + 2 * h \in Int /\ 0 <= a + 2 * h
          /\ a + 2 * h < 2 * h /\ 2 * h \in Nat \ {0}
      BY <1>2, <1>9
    <3> QED
      BY <3>1, RestOf
  <2>2. (g[MachineBits] + h) % (2 * h) = h - 1 - a
    <3>1. g[MachineBits] + h = h - 1 - a /\ 0 <= h - 1 - a /\ h - 1 - a < 2 * h
      BY <1>2, <1>6, <1>9, <2>1
    <3> QED
      BY <1>2, <3>1
  <2> QED
    BY <1>2, <1>7, <2>2
<1> QED
  BY <1>8, <1>9
-----------------------------------------------------------------------------
(* The three types an operand may have, and what a conversion makes of a   *)
(* number.                                                                 *)
CTypes == {CInt, CUint, CLongLong}

(* The three types are three, and only unsigned is unsigned.               *)
LEMMA TypesApart ==
  /\ CInt # CUint /\ CInt # CLongLong /\ CUint # CLongLong
  /\ CInt.bits = IntBits /\ CUint.bits = IntBits /\ CLongLong.bits = MachineBits
  /\ ~CInt.unsigned /\ CUint.unsigned /\ ~CLongLong.unsigned
  /\ IntBits < MachineBits
<1>1. IntBits < MachineBits
  BY Widths, WidthsScale
<1>2. /\ CInt.bits = IntBits /\ CUint.bits = IntBits /\ CLongLong.bits = MachineBits
      /\ ~CInt.unsigned /\ CUint.unsigned /\ ~CLongLong.unsigned
  BY DEF CInt, CUint, CLongLong
<1>3. IntBits # MachineBits
  BY <1>1, WidthsScale
<1>4. CInt # CUint
  BY <1>2
<1>5. CInt # CLongLong /\ CUint # CLongLong
  BY <1>2, <1>3
<1> QED
  BY <1>1, <1>2, <1>4, <1>5

(* Two operands meet in one of the types, and in int only if both are int. *)
LEMMA UsualArithIs ==
  ASSUME NEW s \in CTypes, NEW t \in CTypes
  PROVE  /\ UsualArith(s, t) \in CTypes
         /\ UsualArith(s, t) = CInt => s = CInt /\ t = CInt
<1>1. CASE s = CLongLong
  <2>1. UsualArith(s, t) = CLongLong
    <3>1. CASE t = CLongLong
      BY <1>1, <3>1 DEF UsualArith, CLongLong
    <3>2. CASE t # CLongLong
      <4>1. s.bits > t.bits /\ ~(s.bits = t.bits) /\ ~(s.bits < t.bits)
        BY <1>1, <3>2, TypesApart, WidthsScale DEF CTypes
      <4> QED
        BY <1>1, <4>1 DEF UsualArith
    <3> QED
      BY <3>1, <3>2
  <2> QED
    BY <2>1, TypesApart DEF CTypes
<1>2. CASE s # CLongLong /\ t = CLongLong
  <2>1. s.bits < t.bits /\ ~(s.bits = t.bits) /\ ~(s.bits > t.bits)
    BY <1>2, TypesApart, WidthsScale DEF CTypes
  <2>2. UsualArith(s, t) = CLongLong
    BY <1>2, <2>1 DEF UsualArith
  <2> QED
    BY <2>2, TypesApart DEF CTypes
<1>3. CASE s # CLongLong /\ t # CLongLong
  <2>1. UsualArith(s, t) = IF s = CInt /\ t = CInt THEN CInt ELSE CUint
    <3>1. s.bits = t.bits /\ s \in {CInt, CUint} /\ t \in {CInt, CUint}
      BY <1>3, TypesApart DEF CTypes
    <3>2. UsualArith(s, t) = [s EXCEPT !.unsigned = s.unsigned \/ t.unsigned]
      <4>1. ~(s.bits < t.bits) /\ ~(s.bits > t.bits)
        BY <1>3, TypesApart, WidthsScale DEF CTypes
      <4> QED
        BY <3>1, <4>1 DEF UsualArith
    <3>3. CASE s = CInt /\ t = CInt
      BY <3>2, <3>3 DEF CInt
    <3>4. CASE s = CInt /\ t = CUint
      BY <3>2, <3>4, TypesApart DEF CInt, CUint
    <3>5. CASE s = CUint
      BY <3>2, <3>5, TypesApart DEF CUint
    <3> QED
      BY <3>1, <3>3, <3>4, <3>5
  <2> QED
    BY <2>1, TypesApart DEF CTypes
<1> QED
  BY <1>1, <1>2, <1>3

(* A converted number is one the unsigned type holds, and one the type     *)
(* holds already is not changed.                                           *)
LEMMA Conversions ==
  ASSUME NEW v \in Int
  PROVE  /\ \A u \in CTypes : Convert(u, v) \in Int /\ (Holds(u, v) => Convert(u, v) = v)
         /\ Convert(CUint, v) \in 0 .. UintMax
         /\ Convert(CLongLong, v) = v
<1> DEFINE n == UintMax + 1
<1>0. n \in Nat \ {0} /\ UintMax = n - 1
  BY WidthsScale
<1>1. Convert(CLongLong, v) = v
  BY TypesApart DEF Convert
<1>2. Convert(CUint, v) = v % n
  BY TypesApart DEF Convert
<1>3. Convert(CInt, v) = Wrapped(IntBits, v)
  BY TypesApart DEF Convert
<1>4. Convert(CUint, v) \in 0 .. UintMax /\ (v \in 0 .. UintMax => Convert(CUint, v) = v)
  <2> HIDE DEF n
  <2> QED
    BY <1>0, <1>2
<1>5. Wrapped(IntBits, v) \in Int /\ (v \in -(IntMax + 1) .. IntMax => Wrapped(IntBits, v) = v)
  <2>1. IntBits \in Nat \ {0} /\ 2 ^ (IntBits - 1) = IntMax + 1
    BY Widths
  <2>2. v \in -(IntMax + 1) .. IntMax => -(IntMax + 1) <= v /\ v < IntMax + 1
    BY WidthsScale
  <2> QED
    BY <2>1, <2>2, WrappedSame, WrappedRange
<1>6. Holds(CUint, v) => v \in 0 .. UintMax
  BY <1>0, TypesApart DEF Holds
<1>7. Holds(CInt, v) => v \in -(IntMax + 1) .. IntMax
  BY TypesApart DEF Holds
<1> QED
  BY <1>1, <1>3, <1>4, <1>5, <1>6, <1>7, WidthsScale DEF CTypes

(* Which numbers each type holds.                                          *)
LEMMA HoldsIs ==
  ASSUME NEW v \in Int
  PROVE  /\ Holds(CLongLong, v)
         /\ Holds(CUint, v) <=> v \in 0 .. UintMax
         /\ Holds(CInt, v) <=> v \in -(IntMax + 1) .. IntMax
BY TypesApart, WidthsScale DEF Holds

(* C's answer is undefined or a number its type holds.                     *)
LEMMA InTypeIs ==
  ASSUME NEW u \in CTypes, NEW v \in Int
  PROVE  /\ Holds(u, v) => InType(u, v) = v
         /\ InType(u, v) = Undefined \/ (InType(u, v) \in Int /\ Holds(u, InType(u, v)))
<1>1. CASE Holds(u, v)
  BY <1>1 DEF InType
<1>2. CASE ~Holds(u, v) /\ u.unsigned
  <2>1. u = CUint
    BY <1>2, TypesApart DEF CTypes
  <2>2. InType(u, v) = Convert(CUint, v)
    BY <1>2, <2>1 DEF InType
  <2>3. Convert(CUint, v) \in 0 .. UintMax
    BY Conversions
  <2> QED
    BY <1>2, <2>1, <2>2, <2>3, HoldsIs, WidthsScale
<1>3. CASE ~Holds(u, v) /\ ~u.unsigned
  BY <1>3 DEF InType
<1> QED
  BY <1>1, <1>2, <1>3

-----------------------------------------------------------------------------
(* Quotients rounded toward zero.                                          *)
LEMMA DivisionOf ==
  ASSUME NEW a \in Nat, NEW b \in Nat \ {0}
  PROVE  /\ a \div b \in Nat /\ a \div b <= a
         /\ a - (a \div b) * b \in 0 .. b - 1
         /\ (a \div b) * b \in Nat /\ (a \div b) * b <= a
<1> DEFINE q == a \div b
           r == a % b
<1>1. q \in Int /\ r \in 0 .. b - 1 /\ a = b * q + r
  OBVIOUS
<1>2. q >= 0
  OBVIOUS
<1> HIDE DEF q, r
<1>3. b * q = (b - 1) * q + q /\ (b - 1) * q >= 0 /\ b * q = q * b /\ q * b \in Int
  BY <1>1, <1>2
<1>4. a - q * b = r /\ q * b = (b - 1) * q + q /\ (b - 1) * q \in Int
  BY <1>1, <1>3
<1>5. q * b >= 0 /\ q * b <= a /\ q <= a
  BY <1>1, <1>2, <1>3, <1>4
<1> QED
  BY <1>1, <1>2, <1>4, <1>5 DEF q

(* A product, divided by one of its factors, is the other.                 *)
LEMMA ProductBack ==
  ASSUME NEW a \in Int, NEW b \in Int, b # 0
  PROVE  Quotient(a * b, b) = a
<1> DEFINE m == Abs(b)
           k == Abs(a)
<1>1. m \in Nat \ {0} /\ k \in Nat
  BY DEF Abs
<1>2. Abs(a * b) = m * k
  <2>1. CASE a >= 0 /\ b > 0
    <3>1. a * b >= 0 /\ a * b = b * a
      BY <2>1
    <3> QED
      BY <2>1, <3>1 DEF Abs
  <2>2. CASE a >= 0 /\ b < 0
    <3>1. a * (-b) >= 0 /\ a * b = -(a * (-b)) /\ a * (-b) = (-b) * a
      BY <2>2
    <3> QED
      BY <2>2, <3>1 DEF Abs
  <2>3. CASE a < 0 /\ b > 0
    <3>1. (-a) * b >= 0 /\ a * b = -((-a) * b) /\ (-a) * b = b * (-a)
      BY <2>3
    <3> QED
      BY <2>3, <3>1 DEF Abs
  <2>4. CASE a < 0 /\ b < 0
    <3>1. (-a) * (-b) >= 0 /\ a * b = (-a) * (-b) /\ (-a) * (-b) = (-b) * (-a)
      BY <2>4
    <3> QED
      BY <2>4, <3>1 DEF Abs
  <2> QED
    BY <2>1, <2>2, <2>3, <2>4
<1>3. (m * k) \div m = k
  <2> HIDE DEF m, k
  <2>1. m * k = m * k + 0 /\ (m * k + 0) \div m = k
    BY <1>1, RestOf
  <2> QED
    BY <2>1
<1>4. Quotient(a * b, b) = Signed((a * b < 0) # (b < 0), k)
  BY <1>2, <1>3 DEF Quotient
<1>5. CASE a = 0
  BY <1>4, <1>5 DEF Signed, Abs
<1>6. CASE a > 0
  <2>1. a * b < 0 <=> b < 0
    <3>1. CASE b > 0
      <4>1. a * b = a * (b - 1) + a /\ a * (b - 1) >= 0
        BY <1>6, <3>1
      <4> QED
        BY <1>6, <3>1, <4>1
    <3>2. CASE b < 0
      <4>1. a * b = -(a * ((-b) - 1)) - a /\ a * ((-b) - 1) >= 0
        BY <1>6, <3>2
      <4> QED
        BY <1>6, <3>2, <4>1
    <3> QED
      BY <3>1, <3>2
  <2> QED
    BY <1>4, <1>6, <2>1 DEF Signed, Abs
<1>7. CASE a < 0
  <2>1. a * b < 0 <=> ~(b < 0)
    <3>1. CASE b > 0
      <4>1. a * b = -((-a) * (b - 1)) + a /\ (-a) * (b - 1) >= 0
        BY <1>7, <3>1
      <4> QED
        BY <1>7, <3>1, <4>1
    <3>2. CASE b < 0
      <4>1. a * b = (-a) * ((-b) - 1) - a /\ (-a) * ((-b) - 1) >= 0
        BY <1>7, <3>2
      <4> QED
        BY <1>7, <3>2, <4>1
    <3> QED
      BY <3>1, <3>2
  <2> QED
    BY <1>4, <1>7, <2>1 DEF Signed, Abs
<1> QED
  BY <1>5, <1>6, <1>7

-----------------------------------------------------------------------------
(* The operators, one kind at a time.                                      *)
LEMMA PlainIs ==
  ASSUME NEW a \in Int, NEW b \in Int
  PROVE  /\ Plain("+", a, b) = a + b /\ Plain("-", a, b) = a - b /\ Plain("*", a, b) = a * b
         /\ Plain("/", a, b) = Quotient(a, b) /\ Plain("%", a, b) = Remainder(a, b)
         /\ Plain("<<", a, b) = a * 2 ^ b /\ Plain(">>", a, b) = a \div 2 ^ b
         /\ \A op \in Arith : Plain(op, a, b) \in Int
         /\ \A op \in Masks : Plain(op, a, b) = OfBits(op, a, b)
         /\ \A op \in Relations \cup Logical : Plain(op, a, b) \in {0, 1}
<1>1. /\ Plain("+", a, b) = a + b /\ Plain("-", a, b) = a - b /\ Plain("*", a, b) = a * b
      /\ Plain("/", a, b) = Quotient(a, b) /\ Plain("%", a, b) = Remainder(a, b)
      /\ Plain("<<", a, b) = a * 2 ^ b /\ Plain(">>", a, b) = a \div 2 ^ b
  BY DEF Plain, Masks, Relations
<1>2. \A op \in Masks : Plain(op, a, b) = OfBits(op, a, b)
  BY DEF Plain, Masks, Relations
<1>3. ASSUME NEW op \in Relations PROVE Plain(op, a, b) \in {0, 1}
  <2>1. Plain(op, a, b) = Truth(Compared(op, a, b))
    BY <1>3 DEF Plain, Masks, Relations
  <2> QED
    BY <2>1 DEF Truth
<1>4. ASSUME NEW op \in Logical PROVE Plain(op, a, b) \in {0, 1}
  BY <1>4 DEF Plain, Masks, Relations, Logical, Truth
<1>5. a + b \in Int /\ a - b \in Int /\ a * b \in Int
  OBVIOUS
<1>6. \A op \in Arith : Plain(op, a, b) \in Int
  BY <1>1, <1>5 DEF Arith
<1> QED
  BY <1>1, <1>2, <1>3, <1>4, <1>6

(* C's answer for numbers, one kind of operator at a time.                 *)
LEMMA CAnswerIs ==
  ASSUME NEW op \in Operators, NEW s, NEW t, NEW a \in Int, NEW b \in Int,
         NEW u, u = UsualArith(s, t), NEW ca, ca = Convert(u, a), NEW cb, cb = Convert(u, b)
  PROVE  /\ op \in Logical => CAnswer(op, s, t, a, b) = Plain(op, a, b)
         /\ op \in Relations => CAnswer(op, s, t, a, b) = Plain(op, ca, cb)
         /\ op \in Shifts =>
              CAnswer(op, s, t, a, b) =
                IF b \notin 0 .. s.bits - 1 \/ (op = "<<" /\ a < 0) THEN Undefined
                ELSE InType(s, Plain(op, a, b))
         /\ op \in Divides =>
              CAnswer(op, s, t, a, b) =
                IF cb = 0 \/ DivideUndefined(u, ca, cb) THEN Undefined
                ELSE InType(u, Plain(op, ca, cb))
         /\ op \in Arith \cup Masks => CAnswer(op, s, t, a, b) = InType(u, Plain(op, ca, cb))
<1>1. a # Undefined /\ b # Undefined
  BY UndefinedIsNoNumber
<1>2. CASE op \in Logical
  BY <1>1, <1>2 DEF CAnswer, Logical, Relations, Shifts, Divides, Arith, Masks
<1>3. CASE op \in Relations
  BY <1>1, <1>3 DEF CAnswer, Logical, Relations, Shifts, Divides, Arith, Masks
<1>4. CASE op \in Shifts
  BY <1>1, <1>4 DEF CAnswer, Logical, Relations, Shifts, Divides, Arith, Masks
<1>5. CASE op \in Divides
  BY <1>1, <1>5 DEF CAnswer, Logical, Relations, Shifts, Divides, Arith, Masks
<1>6. CASE op \in Arith \cup Masks
  BY <1>1, <1>6 DEF CAnswer, Logical, Relations, Shifts, Divides, Arith, Masks
<1> QED
  BY <1>2, <1>3, <1>4, <1>5, <1>6 DEF Operators

(* What passes both limits is a number.                                    *)
LEMMA WithinIs ==
  ASSUME NEW t \in CTypes, NEW v, WithinBoth(t, v)
  PROVE  v \in Int /\ -ExactLimit <= v /\ v <= ExactLimit /\ Holds(t, v)
BY WidthsScale DEF WithinBoth

(* Two numbers unsigned holds have quotients, rests and masks it holds.    *)
LEMMA UnsignedStays ==
  ASSUME NEW a \in 0 .. UintMax, NEW b \in 0 .. UintMax, NEW op \in Divides \cup Masks,
         op \in Divides => b # 0
  PROVE  Plain(op, a, b) \in 0 .. UintMax
<1>0. UintMax \in Nat /\ a \in Nat /\ b \in Nat /\ a <= UintMax /\ b <= UintMax
  BY WidthsScale
<1>1. CASE op \in Divides
  <2>1. b \in Nat \ {0} /\ ~(a < 0) /\ ~(b < 0)
    BY <1>0, <1>1
  <2>2. Quotient(a, b) = a \div b
    BY <2>1 DEF Quotient, Signed, Abs
  <2>3. a \div b \in 0 .. UintMax /\ a - (a \div b) * b \in 0 .. UintMax
    <3>1. a \div b \in Nat /\ a \div b <= a /\ a - (a \div b) * b \in 0 .. b - 1
      BY <1>0, <2>1, DivisionOf
    <3> QED
      BY <1>0, <3>1
  <2>4. op = "/" \/ op = "%"
    BY <1>1 DEF Divides
  <2>5. Plain("/", a, b) = a \div b /\ Plain("%", a, b) = a - (a \div b) * b
    <3>1. a \in Int /\ b \in Int
      BY <1>0
    <3>2. Plain("/", a, b) = Quotient(a, b) /\ Plain("%", a, b) = Remainder(a, b)
      BY <3>1, PlainIs
    <3> QED
      BY <2>2, <3>2 DEF Remainder
  <2> QED
    BY <2>3, <2>4, <2>5
<1>2. CASE op \in Masks
  <2>1. IntBits \in Nat /\ IntBits < MachineBits /\ UintMax + 1 = 2 ^ IntBits
    BY TypesApart, WidthsScale
  <2>2. a \in Int /\ b \in Int /\ a >= 0 /\ b >= 0 /\ -(2 ^ IntBits) <= a /\ a < 2 ^ IntBits
        /\ -(2 ^ IntBits) <= b /\ b < 2 ^ IntBits
    BY <1>0, <2>1
  <2>3. OfBits(op, a, b) \in Int /\ OfBits(op, a, b) < 2 ^ IntBits /\ OfBits(op, a, b) >= 0
    BY <1>2, <2>1, <2>2, MaskStays
  <2>4. Plain(op, a, b) = OfBits(op, a, b)
    BY <1>0, <1>2, PlainIs
  <2> QED
    BY <1>0, <2>1, <2>3, <2>4
<1> QED
  BY <1>1, <1>2

(* What C computes without undefined behaviour it computes without         *)
(* wrapping, except the sums of unsigned operands.                         *)
LEMMA AnswerUnchanged ==
  ASSUME NEW u \in CTypes, NEW a \in Int, NEW b \in Int,
         NEW ca, ca = Convert(u, a), NEW cb, cb = Convert(u, b),
         NEW op \in Divides \cup Masks, op \in Divides => cb # 0,
         InType(u, Plain(op, ca, cb)) # Undefined
  PROVE  InType(u, Plain(op, ca, cb)) = Plain(op, ca, cb) /\ Holds(u, Plain(op, ca, cb))
<1> DEFINE v == Plain(op, ca, cb)
<1>1. CASE Holds(u, v)
  BY <1>1 DEF InType
<1>2. CASE ~Holds(u, v) /\ u.unsigned
  <2>1. u = CUint
    BY <1>2, TypesApart DEF CTypes
  <2>2. ca \in 0 .. UintMax /\ cb \in 0 .. UintMax
    BY <2>1, Conversions
  <2>3. v \in 0 .. UintMax
    BY <2>2, UnsignedStays
  <2>4. v \in Int
    BY <2>3, WidthsScale
  <2> QED
    BY <1>2, <2>1, <2>3, <2>4, HoldsIs
<1>3. CASE ~Holds(u, v) /\ ~u.unsigned
  BY <1>3 DEF InType
<1> QED
  BY <1>1, <1>2, <1>3

(* A shift that leaves its answer inside the window starts inside the      *)
(* window divided by the shift.                                            *)
LEMMA ShiftRoom ==
  ASSUME NEW m \in Nat, NEW a \in Nat, NEW p \in Nat \ {0}
  PROVE  a <= m \div p <=> a * p <= m
<1> DEFINE q == m \div p
           r == m % p
<1>1. q \in Int /\ r \in Int /\ 0 <= r /\ r < p /\ m = p * q + r
  OBVIOUS
<1> HIDE DEF q, r
<1>2. a * p = p * q - p * (q - a)
  BY <1>1
<1>3. CASE a <= q
  <2>1. p * (q - a) >= 0 /\ p * (q - a) \in Int /\ p * q \in Int
    BY <1>1, <1>3
  <2> QED
    BY <1>1, <1>2, <1>3, <2>1
<1>4. CASE a > q
  <2>1. a * p = p * q + p * (a - q - 1) + p
    BY <1>1
  <2>2. p * (a - q - 1) >= 0 /\ p * (a - q - 1) \in Int /\ p * q \in Int
    BY <1>1, <1>4
  <2> QED
    BY <1>1, <1>4, <2>1, <2>2
<1> QED
  BY <1>1, <1>3, <1>4

(* Why an operator may be refused.                                         *)
Cause(op, s, t, a, b) ==
  \/ CAnswer(op, s, t, a, b) = Undefined
  \/ CAnswer(op, s, t, a, b) # Plain(op, a, b)
  \/ Plain(op, a, b) \notin -ExactLimit .. ExactLimit
  \/ op \in Masks /\ ~(InWindow(a) /\ InWindow(b))
  \/ op \in Shifts /\ ~(InWindow(a) /\ InWindow(Plain(op, a, b)))

(* No operator is of two kinds.                                            *)
LEMMA OperatorsApart ==
  ASSUME NEW op \in Operators
  PROVE  /\ op \in Shifts => op \notin Relations \cup Logical \cup Arith \cup Divides \cup Masks
         /\ op \in Relations => op \notin Logical \cup Arith \cup Divides \cup Masks
         /\ op \in Logical => op \notin Arith \cup Divides \cup Masks
         /\ op \in Arith => op \notin Divides \cup Masks
         /\ op \in Divides => op \notin Masks
         /\ op \in Logical \cup Relations \cup Shifts \cup Arith \cup Divides \cup Masks
BY DEF Operators, Arith, Divides, Masks, Shifts, Relations, Logical

(* What has no cause to be refused is accepted.                            *)
LEMMA CauseFound ==
  ASSUME NEW op \in Operators, NEW s \in CTypes, NEW t \in CTypes, NEW a, NEW b,
         WithinBoth(s, a), WithinBoth(t, b)
  PROVE  Accepted(op, s, t, a, b) \/ Cause(op, s, t, a, b)
<1> SUFFICES ASSUME ~Cause(op, s, t, a, b) PROVE Accepted(op, s, t, a, b)
  OBVIOUS
<1> DEFINE u == UsualArith(s, t)
           ca == Convert(u, a)
           cb == Convert(u, b)
           v == Plain(op, a, b)
<1>1. /\ a \in Int /\ -ExactLimit <= a /\ a <= ExactLimit /\ Holds(s, a)
      /\ b \in Int /\ -ExactLimit <= b /\ b <= ExactLimit /\ Holds(t, b)
  BY WithinIs
<1>2. u \in CTypes
  BY UsualArithIs
<1>3. /\ CAnswer(op, s, t, a, b) # Undefined
      /\ CAnswer(op, s, t, a, b) = v
      /\ v \in -ExactLimit .. ExactLimit
      /\ op \in Masks => InWindow(a) /\ InWindow(b)
      /\ op \in Shifts => InWindow(a) /\ InWindow(v)
  BY DEF Cause
<1>4. ca \in Int /\ cb \in Int
  BY <1>1, <1>2, Conversions
<1> HIDE DEF u, ca, cb, v
<1>5. CASE op \in Logical
  BY <1>5 DEF Accepted
<1>6. CASE op \in Relations
  <2>1. Plain(op, ca, cb) = v
    BY <1>1, <1>3, <1>6, CAnswerIs DEF u, ca, cb
  <2>2. ~ConvertedAnswerDiffers(op, u, a, b)
    BY <1>6, <2>1, OperatorsApart DEF ConvertedAnswerDiffers, ca, cb, v
  <2> QED
    BY <1>6, <2>2 DEF Accepted, u
<1>7. CASE op \in Shifts
  <2>1. b \in 0 .. s.bits - 1 /\ ~(op = "<<" /\ a < 0) /\ InType(s, v) = v /\ v # Undefined
    BY <1>1, <1>3, <1>7, CAnswerIs DEF v
  <2>2. ~ShiftRefused(op, s, a, b)
    <3> DEFINE room == BitwiseLimit \div 2 ^ b
    <3> SUFFICES ASSUME op = "<<" PROVE ~(a > room)
      BY <1>3, <1>7, <2>1 DEF ShiftRefused
    <3>1. a \in Nat /\ b \in Nat
      BY <1>1, <2>1
    <3>2. v = a * 2 ^ b
      BY <1>1, PlainIs DEF v
    <3>3. 2 ^ b \in Nat \ {0} /\ BitwiseLimit \in Nat
      BY <3>1, PowerPositive, WidthsScale DEF BitwiseLimit
    <3>4. v <= BitwiseLimit
      BY <1>3, <1>7, <3>3 DEF InWindow
    <3>5. a <= room /\ room \in Int
      BY <3>1, <3>2, <3>3, <3>4, ShiftRoom
    <3> HIDE DEF room
    <3> QED
      BY <3>1, <3>5
  <2>3. WithinBoth(s, v)
    BY <1>3, <2>1, InTypeIs, WidthsScale DEF WithinBoth
  <2>4. Folded(op, a, b) = v
    BY <1>7 DEF Folded, Shifts, v
  <2> QED
    BY <1>7, <2>2, <2>3, <2>4 DEF Accepted
<1>8. CASE op \in Masks
  <2>1. InType(u, Plain(op, ca, cb)) = v
    BY <1>1, <1>3, <1>8, CAnswerIs DEF u, ca, cb
  <2>2. Plain(op, ca, cb) = v /\ Holds(u, v)
    BY <1>1, <1>2, <1>3, <1>8, <2>1, AnswerUnchanged, OperatorsApart DEF ca, cb
  <2>3. ~ConvertedAnswerDiffers(op, u, a, b)
    BY <1>8, <2>2, OperatorsApart DEF ConvertedAnswerDiffers, ca, cb, v
  <2>4. Folded(op, a, b) = v /\ WithinBoth(u, v)
    BY <1>3, <1>8, <2>2 DEF Folded, Masks, v, WithinBoth
  <2> QED
    BY <1>3, <1>8, <2>3, <2>4, OperatorsApart DEF Accepted, u
<1>9. CASE op \in Divides
  <2>1. cb # 0 /\ ~DivideUndefined(u, ca, cb) /\ InType(u, Plain(op, ca, cb)) = v
    BY <1>1, <1>3, <1>9, CAnswerIs DEF u, ca, cb
  <2>2. Plain(op, ca, cb) = v /\ Holds(u, v)
    BY <1>1, <1>2, <1>3, <1>9, <2>1, AnswerUnchanged, OperatorsApart DEF ca, cb
  <2>3. b # 0
    <3>1. Holds(u, 0)
      BY <1>2, HoldsIs, WidthsScale DEF CTypes
    <3>2. Convert(u, 0) = 0
      BY <1>2, <3>1, Conversions
    <3> QED
      BY <2>1, <3>2 DEF cb
  <2>4. ~ConvertedAnswerDiffers(op, u, a, b)
    BY <1>9, <2>1, <2>2, OperatorsApart DEF ConvertedAnswerDiffers, ca, cb, v
  <2>5. Folded(op, a, b) = v /\ WithinBoth(u, v)
    BY <1>3, <1>9, <2>2 DEF Folded, Divides, v, WithinBoth
  <2> QED
    BY <1>9, <2>1, <2>3, <2>4, <2>5, OperatorsApart DEF Accepted, u, ca, cb
<1>10. CASE op \in Arith
  <2>1. InType(u, Plain(op, ca, cb)) = v
    BY <1>1, <1>3, <1>10, CAnswerIs DEF u, ca, cb
  <2>2. Plain(op, ca, cb) \in Int
    BY <1>4, <1>10, PlainIs
  <2>3. Holds(u, v)
    BY <1>2, <1>3, <2>1, <2>2, InTypeIs
  <2>4. ~ConvertedAnswerDiffers(op, u, a, b)
    BY <1>10, OperatorsApart DEF ConvertedAnswerDiffers
  <2>5. op = "*" => Wrapped(MachineBits, a * b) = a * b /\ v = a * b
    <3> SUFFICES ASSUME op = "*" PROVE Wrapped(MachineBits, a * b) = a * b /\ v = a * b
      OBVIOUS
    <3>1. v = a * b /\ a * b \in Int
      BY <1>1, PlainIs DEF v
    <3>2. -(2 ^ (MachineBits - 1)) <= a * b /\ a * b < 2 ^ (MachineBits - 1)
      BY <1>3, <3>1, Widths, WidthsScale
    <3> QED
      BY <3>1, <3>2, Widths, WrappedSame
  <2>6. Exact(op, a, b)
    BY <1>1, <2>5, ProductBack DEF Exact
  <2>7. Folded(op, a, b) = v /\ WithinBoth(u, v)
    BY <1>3, <2>3, <2>5 DEF Folded, v, WithinBoth
  <2> QED
    BY <1>10, <2>4, <2>6, <2>7, OperatorsApart DEF Accepted, u
<1> QED
  BY <1>5, <1>6, <1>7, <1>8, <1>9, <1>10, OperatorsApart

-----------------------------------------------------------------------------
(* C's answer is the fold's, for whatever is accepted.                     *)

(* A quotient tells its dividend to within one divisor.                    *)
LEMMA QuotientNear ==
  ASSUME NEW v \in Int, NEW a \in Int, NEW b \in Int, a # 0, b # 0, Quotient(v, b) = a
  PROVE  v - a * b < Abs(b) /\ a * b - v < Abs(b)
<1> DEFINE m == Abs(b)
           q == Abs(v) \div m
           r == Abs(v) % m
<1>1. m \in Nat \ {0} /\ Abs(v) \in Nat
  BY DEF Abs
<1>2. q \in Int /\ r \in Int /\ 0 <= r /\ r < m /\ Abs(v) = m * q + r /\ q >= 0
  BY <1>1
<1>3. a = Signed((v < 0) # (b < 0), q)
  BY DEF Quotient
<1> HIDE DEF m, q, r
<1>4. /\ b > 0 => m = b
      /\ b < 0 => m = -b
      /\ v >= 0 => Abs(v) = v
      /\ v < 0 => Abs(v) = -v
  BY DEF m, Abs
<1>5. CASE v >= 0 /\ b > 0
  <2>1. a = q /\ v = b * q + r /\ b * q = a * b
    BY <1>2, <1>3, <1>4, <1>5 DEF Signed
  <2> QED
    BY <1>1, <1>2, <2>1 DEF m
<1>6. CASE v >= 0 /\ b < 0
  <2>1. a = -q /\ v = (-b) * q + r /\ (-b) * q = a * b
    BY <1>2, <1>3, <1>4, <1>6 DEF Signed
  <2> QED
    BY <1>1, <1>2, <2>1 DEF m
<1>7. CASE v < 0 /\ b > 0
  <2>1. a = -q /\ -v = b * q + r /\ b * q = -(a * b)
    BY <1>2, <1>3, <1>4, <1>7 DEF Signed
  <2> QED
    BY <1>1, <1>2, <2>1 DEF m
<1>8. CASE v < 0 /\ b < 0
  <2>1. a = q /\ -v = (-b) * q + r /\ (-b) * q = -(a * b)
    BY <1>2, <1>3, <1>4, <1>8 DEF Signed
  <2> QED
    BY <1>1, <1>2, <2>1 DEF m
<1> QED
  BY <1>5, <1>6, <1>7, <1>8

(* An accepted product has not wrapped: the division Exact tries would     *)
(* not give its factor back.                                               *)
LEMMA FoldedIs ==
  ASSUME NEW op \in Operators, NEW s \in CTypes, NEW t \in CTypes, NEW a, NEW b,
         WithinBoth(s, a), WithinBoth(t, b), Accepted(op, s, t, a, b)
  PROVE  Folded(op, a, b) = Plain(op, a, b)
<1>1. CASE op # "*"
  BY <1>1 DEF Folded
<1>2. CASE op = "*"
  <2> DEFINE v == Wrapped(MachineBits, a * b)
             h == 2 ^ (MachineBits - 1)
  <2>1. /\ a \in Int /\ -ExactLimit <= a /\ a <= ExactLimit
        /\ b \in Int /\ -ExactLimit <= b /\ b <= ExactLimit
    BY WithinIs
  <2>2. Folded(op, a, b) = v /\ Plain(op, a, b) = a * b /\ a * b \in Int
    BY <1>2, <2>1, PlainIs DEF Folded
  <2>3. v \in -ExactLimit .. ExactLimit /\ Exact(op, a, b)
    BY <1>2, <2>2, OperatorsApart DEF Accepted, WithinBoth, Arith
  <2>4. h \in Nat /\ 2 ^ MachineBits = 2 * h /\ 2 * ExactLimit <= h /\ MachineBits \in Nat \ {0}
    BY Widths
  <2>5. CASE a = 0 \/ b = 0
    <3>1. a * b = 0
      BY <2>1, <2>5
    <3>2. -h <= 0 /\ 0 < h
      <4> HIDE DEF h
      <4> QED
        BY <2>4, WidthsScale
    <3>3. v = 0
      BY <2>4, <3>1, <3>2, WrappedSame
    <3> QED
      BY <2>2, <3>1, <3>3
  <2>6. CASE a # 0 /\ b # 0
    <3>1. Quotient(v, b) = a
      BY <1>2, <2>3, <2>6 DEF Exact
    <3>2. PICK k \in Int : v = a * b + k * 2 ^ MachineBits
      BY <2>2, <2>4, WrappedRange
    <3> HIDE DEF v, h
    <3>3. v \in Int
      BY <2>3, WidthsScale
    <3>4. v - a * b < Abs(b) /\ a * b - v < Abs(b)
      BY <2>1, <2>6, <3>1, <3>3, QuotientNear
    <3>5. Abs(b) <= ExactLimit /\ Abs(b) \in Int
      BY <2>1, WidthsScale DEF Abs
    <3>6. k * (2 * h) < h /\ -(k * (2 * h)) < h /\ h > 0
      BY <2>2, <2>4, <3>2, <3>3, <3>4, <3>5, WidthsScale
    <3>7. k = 0
      <4>1. CASE k >= 1
        <5>1. k * (2 * h) = (k - 1) * (2 * h) + 2 * h /\ (k - 1) * (2 * h) >= 0
          BY <2>4, <4>1
        <5> QED
          BY <2>4, <3>6, <5>1
      <4>2. CASE k <= -1
        <5>1. k * (2 * h) = -((-k - 1) * (2 * h)) - 2 * h /\ (-k - 1) * (2 * h) >= 0
          BY <2>4, <4>2
        <5> QED
          BY <2>4, <3>6, <5>1
      <4> QED
        BY <4>1, <4>2
    <3>8. v = a * b
      BY <2>2, <2>4, <3>2, <3>7
    <3> QED
      BY <2>2, <3>8
  <2> QED
    BY <2>5, <2>6
<1> QED
  BY <1>1, <1>2

(* Sums and products modulo the unsigned width do not depend on the        *)
(* operands' conversion.                                                   *)
LEMMA UnsignedSums ==
  ASSUME NEW a \in Int, NEW b \in Int, NEW op \in Arith, Plain(op, a, b) \in 0 .. UintMax
  PROVE  InType(CUint, Plain(op, Convert(CUint, a), Convert(CUint, b))) = Plain(op, a, b)
<1> DEFINE n == UintMax + 1
           ca == a % n
           cb == b % n
           p == a \div n
           q == b \div n
           v == Plain(op, a, b)
           w == Plain(op, ca, cb)
<1>1. n \in Nat \ {0} /\ UintMax = n - 1
  BY WidthsScale
<1>2. Convert(CUint, a) = ca /\ Convert(CUint, b) = cb
  BY TypesApart DEF Convert
<1>3. /\ ca \in Int /\ cb \in Int /\ p \in Int /\ q \in Int
      /\ a = n * p + ca /\ b = n * q + cb
  <2> HIDE DEF n
  <2> QED
    BY <1>1
<1> HIDE DEF ca, cb, p, q
<1>4. /\ Plain("+", a, b) = a + b /\ Plain("-", a, b) = a - b /\ Plain("*", a, b) = a * b
      /\ Plain("+", ca, cb) = ca + cb /\ Plain("-", ca, cb) = ca - cb
      /\ Plain("*", ca, cb) = ca * cb
  BY <1>3, PlainIs
<1> HIDE DEF n
<1>5. \E k \in Int : w = n * k + v
  <2>1. CASE op = "+"
    <3>1. ca + cb = n * (-(p + q)) + (a + b) /\ -(p + q) \in Int
      BY <1>1, <1>3
    <3> QED
      BY <1>4, <2>1, <3>1
  <2>2. CASE op = "-"
    <3>1. ca - cb = n * (q - p) + (a - b) /\ q - p \in Int
      BY <1>1, <1>3
    <3> QED
      BY <1>4, <2>2, <3>1
  <2>3. CASE op = "*"
    <3> DEFINE j == n * (p * q) + p * cb + ca * q
    <3>1. j \in Int /\ -j \in Int
      BY <1>1, <1>3
    <3>2. a * b = n * j + ca * cb
      <4>1. a * b = (n * p + ca) * (n * q + cb)
        BY <1>3
      <4>2. (n * p + ca) * (n * q + cb) = n * j + ca * cb
        BY <1>1, <1>3
      <4> QED
        BY <4>1, <4>2
    <3> HIDE DEF j
    <3>3. ca * cb \in Int /\ n * j \in Int /\ n * (-j) = -(n * j)
      BY <1>1, <1>3, <3>1
    <3>4. ca * cb = n * (-j) + a * b
      BY <3>2, <3>3
    <3> QED
      BY <1>4, <2>3, <3>1, <3>4
  <2> QED
    BY <2>1, <2>2, <2>3 DEF Arith
<1>6. v \in Int /\ 0 <= v /\ v < n
  BY <1>1
<1>7. w % n = v /\ w \in Int
  <2>1. PICK k \in Int : w = n * k + v
    BY <1>5
  <2> HIDE DEF v, w
  <2>2. (n * k + v) % n = v
    BY <1>1, <1>6, RestOf
  <2>3. n * k + v \in Int
    BY <1>1, <1>6
  <2> QED
    BY <2>1, <2>2, <2>3
<1> HIDE DEF v, w
<1>8. InType(CUint, w) = w % n
  <2>1. CASE Holds(CUint, w)
    <3>1. InType(CUint, w) = w
      BY <2>1, <1>7, InTypeIs DEF CTypes
    <3>2. w \in 0 .. UintMax
      BY <1>7, <2>1, HoldsIs
    <3> QED
      BY <1>1, <1>7, <3>1, <3>2
  <2>2. CASE ~Holds(CUint, w)
    <3>1. InType(CUint, w) = Convert(CUint, w)
      BY <2>2, TypesApart DEF InType
    <3> QED
      BY <3>1, TypesApart DEF Convert, n
  <2> QED
    BY <2>1, <2>2
<1> QED
  BY <1>2, <1>7, <1>8 DEF v, w

(* So C gives an accepted operator the fold's number.                      *)
LEMMA AnswerInC ==
  ASSUME NEW op \in Operators, NEW s \in CTypes, NEW t \in CTypes, NEW a, NEW b,
         WithinBoth(s, a), WithinBoth(t, b), Accepted(op, s, t, a, b)
  PROVE  CAnswer(op, s, t, a, b) = Plain(op, a, b)
<1> DEFINE u == UsualArith(s, t)
           ca == Convert(u, a)
           cb == Convert(u, b)
           v == Plain(op, a, b)
<1>1. /\ a \in Int /\ -ExactLimit <= a /\ a <= ExactLimit /\ Holds(s, a)
      /\ b \in Int /\ -ExactLimit <= b /\ b <= ExactLimit /\ Holds(t, b)
  BY WithinIs
<1>2. u \in CTypes /\ (u = CInt => s = CInt /\ t = CInt)
  BY UsualArithIs
<1>3. ca \in Int /\ cb \in Int
  BY <1>1, <1>2, Conversions
<1>f. Folded(op, a, b) = v
  BY FoldedIs
<1> HIDE DEF u, ca, cb, v
<1>5. CASE op \in Logical
  BY <1>1, <1>5, CAnswerIs DEF v
<1>6. CASE op \in Relations
  <2>1. CAnswer(op, s, t, a, b) = Plain(op, ca, cb)
    BY <1>1, <1>6, CAnswerIs DEF u, ca, cb
  <2>2. ~ConvertedAnswerDiffers(op, u, a, b)
    BY <1>6, OperatorsApart DEF Accepted, u
  <2> QED
    BY <1>6, <2>1, <2>2 DEF ConvertedAnswerDiffers, ca, cb
<1>7. CASE op \in Shifts
  <2>1. ~ShiftRefused(op, s, a, b) /\ WithinBoth(s, v)
    BY <1>7, <1>f, OperatorsApart DEF Accepted
  <2>2. b \in 0 .. s.bits - 1 /\ ~(op = "<<" /\ a < 0)
    BY <2>1 DEF ShiftRefused
  <2>3. CAnswer(op, s, t, a, b) = InType(s, v)
    BY <1>1, <1>7, <2>2, CAnswerIs DEF v
  <2> QED
    BY <2>1, <2>3, WithinIs, InTypeIs DEF v
<1>8. CASE op \in Divides \cup Masks
  <2>1. ~ConvertedAnswerDiffers(op, u, a, b) /\ WithinBoth(u, v)
        /\ (op \in Divides => b # 0 /\ ~DivideUndefined(u, ca, cb))
    BY <1>8, <1>f, OperatorsApart DEF Accepted, u, ca, cb
  <2>2. Plain(op, ca, cb) = v /\ (op \in Divides => cb # 0)
    <3>1. CASE op \in Masks
      BY <2>1, <3>1, OperatorsApart DEF ConvertedAnswerDiffers, ca, cb, v
    <3>2. CASE op \in Divides
      <4>1. ~DivideUndefined(CLongLong, a, b)
        <5>1. TypeMin(CLongLong) = -(2 ^ (MachineBits - 1))
          BY TypesApart DEF TypeMin
        <5> QED
          BY <1>1, <5>1, Widths, WidthsScale DEF DivideUndefined
      <4> QED
        BY <2>1, <3>2, <4>1 DEF ConvertedAnswerDiffers, ca, cb, v
    <3> QED
      BY <1>8, <3>1, <3>2
  <2>3. CAnswer(op, s, t, a, b) = InType(u, v)
    BY <1>1, <1>8, <2>1, <2>2, CAnswerIs DEF u, ca, cb
  <2> QED
    BY <1>2, <2>1, <2>3, WithinIs, InTypeIs DEF v
<1>9. CASE op \in Arith
  <2>1. WithinBoth(u, v)
    BY <1>9, <1>f, OperatorsApart DEF Accepted, u
  <2>2. v \in Int /\ Holds(u, v)
    BY <1>2, <2>1, WithinIs
  <2>3. CAnswer(op, s, t, a, b) = InType(u, Plain(op, ca, cb))
    BY <1>1, <1>9, CAnswerIs DEF u, ca, cb
  <2>4. CASE u = CUint
    <3>1. v \in 0 .. UintMax
      BY <2>2, <2>4, HoldsIs
    <3> QED
      BY <1>1, <1>9, <2>3, <2>4, <3>1, UnsignedSums DEF ca, cb, v
  <2>5. CASE u # CUint
    <3>1. Holds(u, a) /\ Holds(u, b)
      BY <1>1, <1>2, <2>5, HoldsIs DEF CTypes
    <3>2. ca = a /\ cb = b
      BY <1>1, <1>2, <3>1, Conversions DEF ca, cb
    <3> QED
      BY <1>2, <2>2, <2>3, <3>2, InTypeIs DEF v
  <2> QED
    BY <2>4, <2>5
<1> QED
  BY <1>5, <1>6, <1>7, <1>8, <1>9, OperatorsApart

-----------------------------------------------------------------------------
(* The program's answer is the fold's, its zero the positive one.          *)

(* A number of the window takes at most one bit more than a double holds.  *)
LEMMA LengthIs ==
  ASSUME NEW n \in Int, -ExactLimit <= n, n <= ExactLimit
  PROVE  /\ Length(n) \in 0 .. ExactBits + 1
         /\ Abs(n) < 2 ^ Length(n)
         /\ Length(n) > 0 => Abs(n) >= 2 ^ (Length(n) - 1)
<1> DEFINE a == Abs(n)
           T == {k \in Nat : a < 2 ^ k}
<1>1. a \in Nat /\ a <= ExactLimit
  BY WidthsScale DEF Abs
<1>2. /\ ExactBits \in Nat /\ ExactLimit = 2 ^ ExactBits /\ ExactLimit >= 1
      /\ 2 ^ (ExactBits + 1) = 2 * 2 ^ ExactBits /\ ExactBits + 1 <= 2 * MachineBits
      /\ MachineBits \in Nat
  BY WidthsScale, Doubling
<1> HIDE DEF a
<1>3. ExactBits + 1 \in T
  BY <1>1, <1>2
<1>4. PICK l \in T : \A k \in T : l <= k
  <2>1. T \in SUBSET Nat /\ T # {}
    BY <1>3
  <2> HIDE DEF T
  <2> QED
    BY <2>1, Sums!LeastNatural
<1>5. l \in Nat /\ l <= ExactBits + 1 /\ a < 2 ^ l
  BY <1>3, <1>4
<1>6. l > 0 => a >= 2 ^ (l - 1)
  <2> SUFFICES ASSUME l > 0, ~(a >= 2 ^ (l - 1)) PROVE FALSE
    OBVIOUS
  <2>1. l - 1 \in Nat /\ 2 ^ (l - 1) \in Nat
    BY <1>5, Doubling
  <2>2. l - 1 \in T
    BY <1>1, <2>1
  <2> QED
    BY <1>4, <1>5, <2>2
<1> HIDE DEF T
<1> DEFINE fits(k) == a < 2 ^ k /\ (k > 0 => a >= 2 ^ (k - 1))
<1>7. l \in 0 .. 2 * MachineBits /\ fits(l)
  BY <1>2, <1>5, <1>6
<1>8. Length(n) \in 0 .. 2 * MachineBits /\ fits(Length(n))
  BY <1>7 DEF Length, a
<1> DEFINE j == Length(n)
<1> HIDE DEF j
<1>9. j \in Nat /\ a < 2 ^ j /\ (j > 0 => a >= 2 ^ (j - 1))
  BY <1>2, <1>8 DEF j
<1>10. j <= ExactBits + 1
  <2> SUFFICES ASSUME j > ExactBits + 1 PROVE FALSE
    BY <1>2, <1>9
  <2>1. j - 1 \in Nat /\ ExactBits + 1 <= j - 1 /\ ExactBits + 1 \in Nat
    BY <1>2, <1>9
  <2>2. 2 ^ (ExactBits + 1) <= 2 ^ (j - 1) /\ 2 ^ (j - 1) \in Nat
    BY <2>1, PowerMonotone, Doubling
  <2> QED
    BY <1>1, <1>2, <1>9, <2>2
<1> QED
  BY <1>2, <1>9, <1>10 DEF j, a

(* A double holds exactly every whole number of the window.                *)
LEMMA RoundedSame ==
  ASSUME NEW n \in Int, -ExactLimit <= n, n <= ExactLimit
  PROVE  Rounded(n) = n
<1> DEFINE l == Length(n)
           drop == l - ExactBits
<1>1. l \in Nat /\ l <= ExactBits + 1 /\ (l > 0 => Abs(n) >= 2 ^ (l - 1)) /\ ExactBits \in Nat \ {0}
  BY LengthIs, Widths
<1>2. Rounded(n) = IF drop <= 0 THEN n ELSE Signed(n < 0, Nearest(Abs(n), 2 ^ drop) * 2 ^ drop)
  BY DEF Rounded
<1> HIDE DEF l
<1>3. CASE l <= ExactBits
  BY <1>1, <1>2, <1>3
<1>4. CASE l > ExactBits
  <2>1. drop = 1 /\ l - 1 = ExactBits
    BY <1>1, <1>4
  <2>2. Abs(n) >= ExactLimit /\ Abs(n) <= ExactLimit /\ Abs(n) \in Nat
    BY <1>1, <1>4, <2>1, WidthsScale DEF Abs
  <2>3. Abs(n) = ExactLimit
    BY <2>2, WidthsScale
  <2> DEFINE e == 2 ^ (ExactBits - 1)
  <2>4. ExactBits - 1 \in Nat /\ (ExactBits - 1) + 1 = ExactBits
    BY <1>1
  <2>5. e \in Nat /\ ExactLimit = 2 * e
    BY <2>4, Doubling, WidthsScale
  <2> HIDE DEF e
  <2>6. \A k : k = 1 => 2 ^ k = 2
    OBVIOUS
  <2>7. 2 ^ drop = 2
    BY <2>1, <2>6
  <2>8. (2 * e) \div 2 = e /\ (2 * e) % 2 = 0
    BY <2>5
  <2>9. Nearest(ExactLimit, 2) = e
    BY <2>5, <2>8 DEF Nearest
  <2>10. Rounded(n) = Signed(n < 0, e * 2)
    BY <1>1, <1>2, <1>4, <2>1, <2>3, <2>7, <2>9
  <2> QED
    BY <2>3, <2>5, <2>10 DEF Signed, Abs
<1> QED
  BY <1>1, <1>3, <1>4

(* Sums and differences that stay in the window are exact; a zero is       *)
(* negative only when both sides ask for it.                               *)
LEMMA FAddIs ==
  ASSUME NEW x, NEW y, x.n \in Int, y.n \in Int,
         -ExactLimit <= x.n + y.n, x.n + y.n <= ExactLimit
  PROVE  FAdd(x, y) = [neg |-> IF x.n + y.n = 0 THEN x.neg /\ y.neg ELSE x.n + y.n < 0,
                       n |-> x.n + y.n]
<1>1. x.n + y.n \in Int
  OBVIOUS
<1>2. Rounded(x.n + y.n) = x.n + y.n
  BY <1>1, RoundedSame
<1> QED
  BY <1>2 DEF FAdd, Number

LEMMA FSubIs ==
  ASSUME NEW x, NEW y, x.n \in Int, y.n \in Int,
         -ExactLimit <= x.n - y.n, x.n - y.n <= ExactLimit
  PROVE  FSub(x, y) = [neg |-> IF x.n - y.n = 0 THEN x.neg /\ ~y.neg ELSE x.n - y.n < 0,
                       n |-> x.n - y.n]
<1>1. x.n + (-y.n) = x.n - y.n /\ x.n - y.n \in Int
  OBVIOUS
<1>2. Rounded(x.n + (-y.n)) = x.n - y.n
  BY <1>1, RoundedSame
<1> QED
  BY <1>1, <1>2 DEF FSub, FAdd, Number

(* Adding the positive zero to a number of the window leaves it its own    *)
(* sign.                                                                   *)
LEMMA SignlessIs ==
  ASSUME NEW x, x.n \in Int, -ExactLimit <= x.n, x.n <= ExactLimit
  PROVE  SignlessZero(x) = [neg |-> x.n < 0, n |-> x.n]
<1>1. x.n + 0 = x.n
  OBVIOUS
<1>2. Rounded(x.n + 0) = x.n
  BY <1>1, RoundedSame
<1> QED
  BY <1>1, <1>2 DEF SignlessZero, FAdd, PlusZero, Number

(* The quotient of two doubles rounded to a double, then truncated, is the *)
(* truncated quotient: the rounding never reaches the next whole number,   *)
(* because the bits kept after the point are enough for the divisor.       *)
LEMMA RoundingStaysBelow ==
  ASSUME NEW q \in Nat, NEW r \in Nat, NEW b \in Nat \ {0}, NEW c \in Nat \ {0}, r < b,
         r > 0 => b < 2 * c, NEW a, a = q * b + r
  PROVE  Nearest(a * c, b) \div c = q
<1> DEFINE k == (r * c) \div b
           e == (r * c) % b
           j == b * k
           f == c * (b - r)
<1>1. r * c \in Nat
  OBVIOUS
<1>2. k \in Int /\ e \in Int /\ 0 <= e /\ e < b /\ r * c = b * k + e /\ k >= 0
  <2> DEFINE g == r * c
  <2>1. g \in Nat
    BY <1>1
  <2> HIDE DEF g
  <2>2. g \div b \in Int /\ g % b \in Int /\ 0 <= g % b /\ g % b < b /\ g = b * (g \div b) + (g % b)
        /\ g \div b >= 0
    BY <2>1
  <2> QED
    BY <2>2 DEF g
<1> HIDE DEF k, e
<1>3. k < c
  <2> SUFFICES ASSUME k >= c PROVE FALSE
    BY <1>2
  <2>1. b * k = b * c + b * (k - c) /\ b * (k - c) >= 0 /\ r * c = b * c - (b - r) * c
    BY <1>2
  <2>2. (b - r) * c = c * (b - r - 1) + c /\ c * (b - r - 1) >= 0
    OBVIOUS
  <2>3. b * c \in Int /\ b * (k - c) \in Int /\ c * (b - r - 1) \in Int
    BY <1>2
  <2> QED
    BY <1>2, <2>1, <2>2, <2>3
<1>4. (q * b + r) * c = b * (q * c + k) + e /\ q * c + k \in Int /\ q * c \in Nat
  <2>1. (q * b + r) * c = b * (q * c) + r * c
    OBVIOUS
  <2>2. b * (q * c + k) = b * (q * c) + b * k
    BY <1>2
  <2>3. q * c \in Nat /\ b * (q * c) \in Int /\ b * k \in Int
    BY <1>2
  <2> QED
    BY <1>2, <2>1, <2>2, <2>3
<1>5. (b * (q * c + k) + e) \div b = q * c + k /\ (b * (q * c + k) + e) % b = e
  BY <1>2, <1>4, RestOf
<1>6. Nearest((q * b + r) * c, b) =
        IF 2 * e > b \/ (2 * e = b /\ (q * c + k) % 2 = 1) THEN (q * c + k) + 1 ELSE q * c + k
  BY <1>4, <1>5 DEF Nearest
<1>7. k = c - 1 => 2 * e < b
  <2> SUFFICES ASSUME k = c - 1 PROVE 2 * e < b
    OBVIOUS
  <2>1. CASE r = 0
    <3>1. b * k + e = 0
      BY <1>2, <2>1
    <3>2. b * k >= 0 /\ b * k \in Int
      BY <1>2
    <3> QED
      BY <1>2, <3>1, <3>2
  <2>2. CASE r > 0
    <3>1. b * k = b * c - b /\ r * c = b * c - f
      OBVIOUS
    <3>2. f = c * (b - r - 1) + c /\ c * (b - r - 1) >= 0 /\ c * (b - r - 1) \in Int
      OBVIOUS
    <3>3. b * c \in Int /\ f \in Int /\ f >= c
      BY <3>2
    <3> HIDE DEF f
    <3>4. e = b - f
      BY <1>2, <3>1, <3>3
    <3> QED
      BY <1>2, <2>2, <3>3, <3>4
  <2> QED
    BY <2>1, <2>2
<1>8. \E d \in 0 .. c - 1 : Nearest((q * b + r) * c, b) = q * c + d
  <2>1. CASE 2 * e > b \/ (2 * e = b /\ (q * c + k) % 2 = 1)
    <3>1. 2 * e >= b
      BY <1>2, <2>1
    <3>2. k + 1 \in 0 .. c - 1 /\ (q * c + k) + 1 = q * c + (k + 1)
      BY <1>2, <1>3, <1>4, <1>7, <3>1
    <3> QED
      BY <1>6, <2>1, <3>2
  <2>2. CASE ~(2 * e > b \/ (2 * e = b /\ (q * c + k) % 2 = 1))
    <3>1. k \in 0 .. c - 1
      BY <1>2, <1>3
    <3> QED
      BY <1>6, <2>2, <3>1
  <2> QED
    BY <2>1, <2>2
<1>9. PICK d \in 0 .. c - 1 : Nearest((q * b + r) * c, b) = q * c + d
  BY <1>8
<1>10. q * c = c * q /\ d \in Int /\ 0 <= d /\ d < c
  OBVIOUS
<1>11. (c * q + d) \div c = q
  BY <1>10, RestOf
<1>12. Nearest((q * b + r) * c, b) \div c = q
  BY <1>9, <1>10, <1>11
<1> QED
  BY <1>12

(* A divisor is smaller than what the quotient's factor leaves of the      *)
(* dividend.                                                               *)
LEMMA DivisorSmall ==
  ASSUME NEW p \in Nat \ {0}, NEW q \in Nat, p <= q, NEW b \in Nat, NEW r \in Nat, r > 0,
         NEW c \in Nat, q * b + r <= p * c
  PROVE  b < c
<1> SUFFICES ASSUME b >= c PROVE FALSE
  OBVIOUS
<1>1. q * b = p * c + p * (b - c) + (q - p) * b
  OBVIOUS
<1>2. p * (b - c) >= 0 /\ (q - p) * b >= 0
  OBVIOUS
<1>3. p * c \in Int /\ p * (b - c) \in Int /\ (q - p) * b \in Int /\ q * b \in Int
  OBVIOUS
<1> QED
  BY <1>1, <1>2, <1>3

(* The program's quotient is C's, with the sign of the operands.           *)
LEMMA TruncDivIs ==
  ASSUME NEW a \in Int, -ExactLimit <= a, a <= ExactLimit,
         NEW b \in Int, -ExactLimit <= b, b <= ExactLimit, b # 0,
         NEW x, x.n = a, x.neg = (a < 0), NEW y, y.n = b, y.neg = (b < 0)
  PROVE  TruncDiv(x, y) = [neg |-> (a < 0) # (b < 0), n |-> Quotient(a, b)]
<1> DEFINE A == Abs(a)
           B == Abs(b)
           q == A \div B
           r == A % B
           l == Length(q)
           scale == IF l < ExactBits THEN 2 ^ (ExactBits - l) ELSE 1
<1>1. A \in Nat /\ A <= ExactLimit /\ B \in Nat \ {0} /\ B <= ExactLimit
  BY WidthsScale DEF Abs
<1>2. TruncDiv(x, y) = [neg |-> (a < 0) # (b < 0),
                        n |-> Signed((a < 0) # (b < 0), Nearest(A * scale, B) \div scale)]
  BY DEF TruncDiv, Number
<1>3. Quotient(a, b) = Signed((a < 0) # (b < 0), q)
  BY DEF Quotient
<1> HIDE DEF A, B
<1>4. q \in Nat /\ q <= A /\ r \in Nat /\ r < B /\ A = q * B + r
  <2>1. q \in Int /\ r \in Int /\ 0 <= r /\ r < B /\ A = B * q + r
    BY <1>1
  <2>2. q \in Nat /\ q <= A
    BY <1>1, DivisionOf
  <2>3. B * q = q * B
    BY <1>1, <2>2
  <2> QED
    BY <2>1, <2>2, <2>3
<1> HIDE DEF q, r
<1>5. l \in Nat /\ l <= ExactBits + 1 /\ (l > 0 => q >= 2 ^ (l - 1))
  <2>1. q \in Int /\ -ExactLimit <= q /\ q <= ExactLimit /\ Abs(q) = q
    BY <1>1, <1>4, WidthsScale DEF Abs
  <2> QED
    BY <2>1, LengthIs, WidthsScale
<1> HIDE DEF l
<1>6. scale \in Nat \ {0}
  <2>1. CASE l < ExactBits
    <3>1. ExactBits - l \in Nat
      BY <1>5, <2>1, WidthsScale
    <3> QED
      BY <2>1, <3>1, PowerPositive
  <2> QED
    BY <2>1
<1>7. r > 0 => B < 2 * scale
  <2> SUFFICES ASSUME r > 0 PROVE B < 2 * scale
    OBVIOUS
  <2>1. CASE l = 0
    <3>1. l < ExactBits /\ ExactBits - l = ExactBits
      BY <2>1, Widths
    <3>2. scale = ExactLimit
      BY <3>1, WidthsScale
    <3> HIDE DEF scale
    <3> QED
      BY <1>1, <3>2, WidthsScale
  <2>2. CASE l > 0 /\ l < ExactBits
    <3> DEFINE p == 2 ^ (l - 1)
               c == 2 ^ (ExactBits - l)
    <3>1. l - 1 \in Nat /\ ExactBits - l \in Nat /\ (l - 1) + ((ExactBits - l) + 1) = ExactBits
          /\ (ExactBits - l) + 1 \in Nat
      BY <1>5, <2>2, WidthsScale
    <3>2. p \in Nat \ {0} /\ c \in Nat /\ 2 ^ ((ExactBits - l) + 1) = 2 * c
      BY <3>1, PowerPositive, Doubling
    <3>3. 2 ^ ((l - 1) + ((ExactBits - l) + 1)) = p * 2 ^ ((ExactBits - l) + 1)
      BY <3>1, PowerGrows
    <3>4. ExactLimit = p * (2 * c)
      BY <3>1, <3>2, <3>3, WidthsScale
    <3>5. scale = c /\ p <= q
      BY <1>5, <2>2
    <3> HIDE DEF p, c, scale
    <3>6. q * B + r <= p * (2 * c) /\ 2 * c \in Nat
      BY <1>1, <1>4, <3>2, <3>4
    <3>7. B < 2 * c
      BY <1>1, <1>4, <3>2, <3>5, <3>6, DivisorSmall
    <3> QED
      BY <3>5, <3>7
  <2>3. CASE l >= ExactBits
    <3> DEFINE p == 2 ^ (ExactBits - 1)
    <3>1. ExactBits - 1 \in Nat /\ (ExactBits - 1) + 1 = ExactBits /\ l > 0 /\ l - 1 \in Nat
          /\ ExactBits - 1 <= l - 1
      BY <1>5, <2>3, Widths
    <3>2. p \in Nat \ {0} /\ ExactLimit = 2 * p
      BY <3>1, PowerPositive, Doubling, WidthsScale
    <3>3. p <= 2 ^ (l - 1) /\ 2 ^ (l - 1) \in Nat
      BY <3>1, PowerMonotone, Doubling
    <3>4. scale = 1
      BY <1>5, <2>3, WidthsScale
    <3> HIDE DEF p, scale
    <3>5. p <= q
      BY <1>4, <1>5, <3>1, <3>2, <3>3
    <3>6. q * B + r <= p * 2
      BY <1>1, <1>4, <3>2
    <3>7. B < 2
      BY <1>1, <1>4, <3>2, <3>5, <3>6, DivisorSmall
    <3> QED
      BY <3>4, <3>7
  <2> QED
    BY <1>5, <2>1, <2>2, <2>3, WidthsScale
<1> HIDE DEF scale
<1>8. Nearest(A * scale, B) \div scale = q
  BY <1>1, <1>4, <1>6, <1>7, RoundingStaysBelow
<1> QED
  BY <1>2, <1>3, <1>8

-----------------------------------------------------------------------------
(* The bitwise instructions read and write the numbers of the window.      *)
LEMMA ReadSame ==
  ASSUME NEW n \in Int, -ExactLimit < n, n < ExactLimit
  PROVE  ReadLong(n) = n
<1>1. Abs(n) \in Nat /\ Abs(n) < ExactLimit
  BY WidthsScale DEF Abs
<1>2. Abs(n) % ExactLimit = Abs(n)
  BY <1>1, WidthsScale
<1>3. ReadLong(n) = Signed(n < 0, Abs(n) % ExactLimit)
  BY WidthsScale DEF ReadLong
<1> QED
  BY <1>2, <1>3 DEF Signed, Abs

(* And neither conversion back changes a number of the window.             *)
LEMMA WriteSame ==
  ASSUME NEW n \in Int, -ExactLimit <= n, n < ExactLimit
  PROVE  WriteLong(Wrapped(MachineBits, n)) = n
<1>1. Wrapped(MachineBits, n) = n
  <2>1. -(2 ^ (MachineBits - 1)) <= n /\ n < 2 ^ (MachineBits - 1)
    BY Widths, WidthsScale
  <2> QED
    BY <2>1, Widths, WrappedSame
<1>2. Wrapped(ExactBits + 1, n) = n
  <2>1. ExactBits + 1 \in Nat \ {0} /\ (ExactBits + 1) - 1 = ExactBits
    BY WidthsScale
  <2>2. -(2 ^ ((ExactBits + 1) - 1)) <= n /\ n < 2 ^ ((ExactBits + 1) - 1)
    BY <2>1, WidthsScale
  <2> QED
    BY <2>1, <2>2, WrappedSame
<1> QED
  BY <1>1, <1>2 DEF WriteLong

(* So a bitwise call answers what the operator does, by either of its      *)
(* ways.                                                                   *)
LEMMA BitwiseIs ==
  ASSUME NEW op \in Masks \cup Shifts,
         NEW a \in Int, -ExactLimit < a, a < ExactLimit,
         NEW b \in Int, -ExactLimit < b, b < ExactLimit,
         op \in Shifts => b \in 0 .. MachineBits - 1,
         Plain(op, a, b) \in Int, -ExactLimit <= Plain(op, a, b), Plain(op, a, b) < ExactLimit
  PROVE  BitwiseCall(op, a, b) = Plain(op, a, b)
<1>1. ReadLong(a) = a /\ ReadLong(b) = b
  BY ReadSame
<1>2. op \in Shifts => ReadLong(b) % MachineBits = b
  BY <1>1, WidthsScale
<1>3. Instruction(op, a, b) = WriteLong(Wrapped(MachineBits, Plain(op, a, b)))
  BY <1>1, <1>2 DEF Instruction
<1>4. Instruction(op, a, b) = Plain(op, a, b)
  BY <1>3, WriteSame
<1> QED
  BY <1>4 DEF BitwiseCall

(* A mask of two numbers of the window is one a double holds.              *)
LEMMA MaskInWindow ==
  ASSUME NEW op \in Masks, NEW a \in Int, -ExactLimit <= a, a < ExactLimit,
         NEW b \in Int, -ExactLimit <= b, b < ExactLimit
  PROVE  /\ Plain(op, a, b) \in Int
         /\ -ExactLimit <= Plain(op, a, b) /\ Plain(op, a, b) < ExactLimit
<1>1. ExactBits \in Nat /\ ExactBits < MachineBits /\ ExactLimit = 2 ^ ExactBits
  BY WidthsScale
<1> QED
  BY <1>1, MaskStays, PlainIs

(* A quotient multiplied back does not leave the window.                   *)
LEMMA QuotientWithin ==
  ASSUME NEW a \in Int, -ExactLimit <= a, a <= ExactLimit, NEW b \in Int, b # 0
  PROVE  /\ Quotient(a, b) \in Int /\ Quotient(a, b) * b \in Int
         /\ -ExactLimit <= Quotient(a, b) * b /\ Quotient(a, b) * b <= ExactLimit
<1> DEFINE A == Abs(a)
           B == Abs(b)
           q == A \div B
<1>1. A \in Nat /\ A <= ExactLimit /\ B \in Nat \ {0} /\ (B = b \/ B = -b)
  BY WidthsScale DEF Abs
<1>2. Quotient(a, b) = q \/ Quotient(a, b) = -q
  BY DEF Quotient, Signed
<1> HIDE DEF A, B
<1>3. q \in Nat /\ q * B \in Nat /\ q * B <= A
  BY <1>1, DivisionOf
<1> HIDE DEF q
<1>4. Quotient(a, b) \in Int
  BY <1>2, <1>3
<1>5. Quotient(a, b) * b = q * B \/ Quotient(a, b) * b = -(q * B)
  <2>1. q * (-b) = -(q * b) /\ (-q) * b = -(q * b) /\ q * b \in Int
    BY <1>3
  <2> QED
    BY <1>1, <1>2, <2>1
<1> QED
  BY <1>1, <1>3, <1>4, <1>5, WidthsScale

(* The program's operators, one at a time.                                 *)
LEMMA ComputedCases ==
  ASSUME NEW x, NEW y
  PROVE  /\ Computed("+", x, y) = FAdd(x, y)
         /\ Computed("-", x, y) = FSub(x, y)
         /\ Computed("*", x, y) = SignlessZero(FMul(x, y))
         /\ Computed("/", x, y) = SignlessZero(TruncDiv(x, y))
         /\ Computed("%", x, y) = FSub(x, FMul(TruncDiv(x, y), y))
         /\ \A op \in Masks \cup Shifts :
              Computed(op, x, y) = [neg |-> BitwiseCall(op, x.n, y.n) < 0,
                                    n |-> BitwiseCall(op, x.n, y.n)]
         /\ \A op \in Relations \cup Logical :
              Computed(op, x, y) = [neg |-> FALSE, n |-> Plain(op, x.n, y.n)]
<1>1. /\ Computed("+", x, y) = FAdd(x, y)
      /\ Computed("-", x, y) = FSub(x, y)
      /\ Computed("*", x, y) = SignlessZero(FMul(x, y))
      /\ Computed("/", x, y) = SignlessZero(TruncDiv(x, y))
      /\ Computed("%", x, y) = FSub(x, FMul(TruncDiv(x, y), y))
  BY DEF Computed, Number, Masks, Shifts, Relations, Logical
<1>2. ASSUME NEW op \in Masks \cup Shifts
      PROVE  Computed(op, x, y) = [neg |-> BitwiseCall(op, x.n, y.n) < 0,
                                   n |-> BitwiseCall(op, x.n, y.n)]
  BY <1>2 DEF Computed, Number, Masks, Shifts, Relations, Logical
<1>3. ASSUME NEW op \in Relations \cup Logical
      PROVE  Computed(op, x, y) = [neg |-> FALSE, n |-> Plain(op, x.n, y.n)]
  BY <1>3 DEF Computed, Number, Masks, Shifts, Relations, Logical
<1> QED
  BY <1>1, <1>2, <1>3

(* An accepted operator computes the fold's number.                        *)
LEMMA ComputedIs ==
  ASSUME NEW op \in Operators, NEW s \in CTypes, NEW t \in CTypes, NEW a, NEW b,
         WithinBoth(s, a), WithinBoth(t, b), Accepted(op, s, t, a, b),
         NEW v, v = Plain(op, a, b),
         NEW x, x.n = a, x.neg = (a < 0), NEW y, y.n = b, y.neg = (b < 0)
  PROVE  Computed(op, x, y) = [neg |-> v < 0, n |-> v]
<1>1. /\ a \in Int /\ -ExactLimit <= a /\ a <= ExactLimit
      /\ b \in Int /\ -ExactLimit <= b /\ b <= ExactLimit
      /\ ExactLimit \in Nat
  BY WithinIs, WidthsScale
<1>2. CASE op \in Relations \cup Logical
  <2>1. Computed(op, x, y) = [neg |-> FALSE, n |-> v]
    BY <1>2, ComputedCases
  <2>2. v \in {0, 1}
    BY <1>1, <1>2, PlainIs
  <2>3. (v < 0) = FALSE
    BY <2>2
  <2> QED
    BY <2>1, <2>3
<1>3. CASE op \in Masks \cup Shifts
  <2>1. Computed(op, x, y) = [neg |-> BitwiseCall(op, a, b) < 0, n |-> BitwiseCall(op, a, b)]
    BY <1>3, ComputedCases
  <2>2. BitwiseCall(op, a, b) = v
    <3>1. CASE op \in Masks
      <4>1. InWindow(a) /\ InWindow(b)
        BY <3>1, OperatorsApart DEF Accepted
      <4>2. -ExactLimit < a /\ a < ExactLimit /\ -ExactLimit < b /\ b < ExactLimit
        BY <1>1, <4>1 DEF InWindow, BitwiseLimit
      <4>3. v \in Int /\ -ExactLimit <= v /\ v < ExactLimit
        BY <1>1, <3>1, <4>2, MaskInWindow
      <4> QED
        BY <1>1, <3>1, <4>2, <4>3, BitwiseIs, OperatorsApart
    <3>2. CASE op \in Shifts
      <4>1. ~ShiftRefused(op, s, a, b)
        BY <3>2, OperatorsApart DEF Accepted
      <4>2. b \in 0 .. s.bits - 1 /\ InWindow(a)
            /\ (op = "<<" => ~(a < 0) /\ ~(a > BitwiseLimit \div 2 ^ b))
        BY <4>1 DEF ShiftRefused
      <4>3. s.bits \in Nat /\ s.bits <= MachineBits
        BY TypesApart, WidthsScale DEF CTypes
      <4>4. b \in 0 .. MachineBits - 1 /\ b \in Nat /\ b < ExactLimit /\ -ExactLimit < b
        BY <4>2, <4>3, WidthsScale
      <4>5. -ExactLimit < a /\ a < ExactLimit
        BY <1>1, <4>2 DEF InWindow, BitwiseLimit
      <4> DEFINE p == 2 ^ b
      <4>6. p \in Nat \ {0}
        BY <4>4, PowerPositive
      <4>7. CASE op = "<<"
        <5> DEFINE m == BitwiseLimit
                   room == m \div p
        <5>1. m \in Nat /\ m < ExactLimit /\ a \in Nat
          BY <1>1, <4>2, <4>7, WidthsScale DEF BitwiseLimit
        <5>2. ~(a > room)
          BY <4>2, <4>7
        <5> HIDE DEF p, m
        <5>3. room \in Int
          BY <4>6, <5>1
        <5> HIDE DEF room
        <5>4. a <= room
          BY <5>1, <5>2, <5>3
        <5>5. a * p <= m
          BY <4>6, <5>1, <5>4, ShiftRoom DEF room
        <5>6. v = a * p
          BY <1>1, <4>7, PlainIs DEF p
        <5>7. a * p \in Nat
          BY <4>6, <5>1
        <5>8. v \in Int /\ -ExactLimit <= v /\ v < ExactLimit
          BY <1>1, <5>1, <5>5, <5>6, <5>7
        <5> QED
          BY <1>1, <3>2, <4>4, <4>5, <5>8, BitwiseIs
      <4>8. CASE op = ">>"
        <5>1. v = a \div p
          BY <1>1, <4>8, PlainIs
        <5> HIDE DEF p
        <5> DEFINE q == a \div p
                   r == a % p
        <5>2. q \in Int /\ r \in Int /\ 0 <= r /\ r < p /\ a = p * q + r
          BY <1>1, <4>6
        <5> HIDE DEF q, r
        <5>3. p * q = q + (p - 1) * q /\ (p - 1) * q \in Int
          BY <4>6, <5>2
        <5>4. CASE q >= 0
          <6>1. (p - 1) * q >= 0
            BY <4>6, <5>2, <5>4
          <6>2. q <= a
            BY <1>1, <4>6, <5>2, <5>3, <6>1
          <6>3. v \in Int /\ -ExactLimit <= v /\ v < ExactLimit
            BY <1>1, <4>5, <5>1, <5>2, <5>4, <6>2 DEF q
          <6> QED
            BY <1>1, <3>2, <4>4, <4>5, <6>3, BitwiseIs
        <5>5. CASE q < 0
          <6>1. (p - 1) * q = -((p - 1) * (-q - 1)) - (p - 1) /\ (p - 1) * (-q - 1) >= 0
                /\ (p - 1) * (-q - 1) \in Int
            BY <4>6, <5>2, <5>5
          <6>2. q >= a
            BY <1>1, <4>6, <5>2, <5>3, <5>5, <6>1
          <6>3. v \in Int /\ -ExactLimit <= v /\ v < ExactLimit
            BY <1>1, <4>5, <5>1, <5>2, <5>5, <6>2 DEF q
          <6> QED
            BY <1>1, <3>2, <4>4, <4>5, <6>3, BitwiseIs
        <5> QED
          BY <5>2, <5>4, <5>5
      <4> QED
        BY <3>2, <4>7, <4>8 DEF Shifts
    <3> QED
      BY <1>3, <3>1, <3>2
  <2> QED
    BY <2>1, <2>2
<1>4. CASE op \in Arith \cup Divides
  <2>1. WithinBoth(UsualArith(s, t), v) /\ (op \in Divides => b # 0)
    BY <1>4, FoldedIs, OperatorsApart DEF Accepted
  <2>2. v \in Int /\ -ExactLimit <= v /\ v <= ExactLimit
    BY <2>1, UsualArithIs, WithinIs
  <2>p. /\ Plain("+", a, b) = a + b /\ Plain("-", a, b) = a - b /\ Plain("*", a, b) = a * b
        /\ Plain("/", a, b) = Quotient(a, b) /\ Plain("%", a, b) = Remainder(a, b)
    BY <1>1, PlainIs
  <2>3. CASE op = "+"
    <3>1. Computed(op, x, y) = FAdd(x, y)
      BY <2>3, ComputedCases
    <3>2. FAdd(x, y) = [neg |-> IF a + b = 0 THEN a < 0 /\ b < 0 ELSE a + b < 0, n |-> a + b]
      BY <1>1, <2>2, <2>3, <2>p, FAddIs
    <3> QED
      BY <1>1, <2>3, <2>p, <3>1, <3>2
  <2>4. CASE op = "-"
    <3>1. Computed(op, x, y) = FSub(x, y)
      BY <2>4, ComputedCases
    <3>2. FSub(x, y) = [neg |-> IF a - b = 0 THEN a < 0 /\ ~(b < 0) ELSE a - b < 0, n |-> a - b]
      BY <1>1, <2>2, <2>4, <2>p, FSubIs
    <3> QED
      BY <1>1, <2>4, <2>p, <3>1, <3>2
  <2>5. CASE op = "*"
    <3>1. Computed(op, x, y) = SignlessZero(FMul(x, y))
      BY <2>5, ComputedCases
    <3>2. a * b \in Int /\ Rounded(a * b) = v
      BY <2>2, <2>5, <2>p, RoundedSame
    <3> DEFINE z == FMul(x, y)
    <3>3. z.n = v
      BY <3>2 DEF FMul, Number
    <3> HIDE DEF z
    <3>4. SignlessZero(z) = [neg |-> v < 0, n |-> v]
      BY <2>2, <3>3, SignlessIs
    <3> QED
      BY <3>1, <3>4 DEF z
  <2>6. CASE op = "/"
    <3>1. Computed(op, x, y) = SignlessZero(TruncDiv(x, y))
      BY <2>6, ComputedCases
    <3> DEFINE z == TruncDiv(x, y)
    <3>2. z = [neg |-> (a < 0) # (b < 0), n |-> Quotient(a, b)]
      BY <1>1, <2>1, <2>6, TruncDivIs DEF Divides
    <3>3. z.n = v
      BY <2>6, <2>p, <3>2
    <3> HIDE DEF z
    <3>4. SignlessZero(z) = [neg |-> v < 0, n |-> v]
      BY <2>2, <3>3, SignlessIs
    <3> QED
      BY <3>1, <3>4 DEF z
  <2>7. CASE op = "%"
    <3> DEFINE q == Quotient(a, b)
    <3>1. Computed(op, x, y) = FSub(x, FMul(TruncDiv(x, y), y))
      BY <2>7, ComputedCases
    <3> DEFINE z == TruncDiv(x, y)
               w == FMul(z, y)
    <3>2. z = [neg |-> (a < 0) # (b < 0), n |-> q]
      BY <1>1, <2>1, <2>7, TruncDivIs DEF Divides
    <3>3. z.n = q /\ z.neg = ((a < 0) # (b < 0))
      BY <3>2
    <3> HIDE DEF z
    <3>4. q \in Int /\ q * b \in Int /\ -ExactLimit <= q * b /\ q * b <= ExactLimit
      BY <1>1, <2>1, <2>7, QuotientWithin DEF Divides
    <3>5. Rounded(z.n * y.n) = q * b
      BY <3>3, <3>4, RoundedSame
    <3>6. w.n = q * b /\ w.neg = (a < 0)
      BY <3>3, <3>5 DEF FMul, Number
    <3> HIDE DEF w
    <3>7. v = a - q * b
      BY <2>7, <2>p DEF Remainder
    <3> HIDE DEF q
    <3>8. FSub(x, w) = [neg |-> IF a - q * b = 0 THEN a < 0 /\ ~(a < 0) ELSE a - q * b < 0,
                        n |-> a - q * b]
      BY <1>1, <2>2, <3>4, <3>6, <3>7, FSubIs
    <3> QED
      BY <3>1, <3>7, <3>8 DEF w, z
  <2> QED
    BY <1>4, <2>3, <2>4, <2>5, <2>6, <2>7 DEF Arith, Divides
<1> QED
  BY <1>2, <1>3, <1>4, OperatorsApart

-----------------------------------------------------------------------------
(* What is known of an operand that has not been refused: its number fits, *)
(* and the three readers agree on it.                                      *)
Fits(x) == x.ctype \in CTypes /\ WithinBoth(x.ctype, x.value)
Agrees(x) == x.inC = x.value /\ x.run = [neg |-> x.value < 0, n |-> x.value]
Sound(x) == Fits(x) /\ Agrees(x)

(* The stack holds at most two operands, every one of them sound.          *)
StackSound ==
  \/ operands = <<>>
  \/ \E x : Sound(x) /\ operands = <<x>>
  \/ \E x, y : Sound(x) /\ Sound(y) /\ operands = <<x, y>>

(* A truth value fits int.                                                 *)
LEMMA TruthFits ==
  ASSUME NEW b \in BOOLEAN
  PROVE  WithinBoth(CInt, Truth(b))
BY WidthsScale DEF WithinBoth, Holds, CInt, CLongLong, CUint, Truth

(* A literal fits the type its spelling gives it.                          *)
LEMMA LiteralFits ==
  ASSUME NEW n \in Nat, NEW hex \in BOOLEAN, n <= ExactLimit
  PROVE  WithinBoth(LiteralType(n, hex), n)
<1> n \in -ExactLimit .. ExactLimit
  BY WidthsScale
<1>1. CASE n <= IntMax
  <2> LiteralType(n, hex) = CInt
    BY <1>1, WidthsScale DEF LiteralType
  <2> QED BY <1>1, WidthsScale DEF WithinBoth, Holds, CInt
<1>2. CASE n > IntMax /\ hex /\ n <= UintMax
  <2> LiteralType(n, hex) = CUint
    BY <1>2, WidthsScale DEF LiteralType
  <2> QED BY <1>2, WidthsScale DEF WithinBoth, Holds, CUint
<1>3. CASE n > IntMax /\ ~(hex /\ n <= UintMax)
  <2> LiteralType(n, hex) = CLongLong
    BY <1>3, WidthsScale DEF LiteralType
  <2> QED BY WidthsScale DEF WithinBoth, Holds, CLongLong
<1> QED BY <1>1, <1>2, <1>3, WidthsScale

(* What a cast to long long is handed fits long long.                      *)
LEMMA CastFits ==
  ASSUME NEW t, NEW v, WithinBoth(t, v)
  PROVE  WithinBoth(CLongLong, v)
BY WidthsScale DEF WithinBoth, Holds, CLongLong

(* An accepted operator's answer fits the type C computes it in.           *)
LEMMA AnswerFits ==
  ASSUME NEW op \in Operators, NEW s, NEW t, NEW a, NEW b, Accepted(op, s, t, a, b)
  PROVE  WithinBoth(OperatorType(op, s, t), Folded(op, a, b))
<1>1. CASE op \in Relations
  <2>1. OperatorType(op, s, t) = CInt
    BY <1>1 DEF OperatorType, Relations, Logical, Shifts
  <2>2. Folded(op, a, b) = Truth(Compared(op, a, b))
    BY <1>1 DEF Folded, Plain, Relations, Masks
  <2>3. Truth(Compared(op, a, b)) \in {Truth(TRUE), Truth(FALSE)}
    BY DEF Truth
  <2> QED BY <2>1, <2>2, <2>3, TruthFits
<1>2. CASE op \in Logical
  <2>1. OperatorType(op, s, t) = CInt
    BY <1>2 DEF OperatorType, Relations, Logical, Shifts
  <2>2. Folded(op, a, b) \in {Truth(TRUE), Truth(FALSE)}
    BY <1>2 DEF Folded, Plain, Logical, Masks, Relations, Truth
  <2> QED BY <2>1, <2>2, TruthFits
<1>3. CASE op \in Shifts
  BY <1>3 DEF Accepted, OperatorType, Shifts, Logical, Relations, Arith, Divides, Masks
<1>4. CASE op \in Arith \cup Divides \cup Masks
  BY <1>4 DEF Accepted, OperatorType, Shifts, Logical, Relations, Arith, Divides, Masks
<1> QED BY <1>1, <1>2, <1>3, <1>4 DEF Operators

-----------------------------------------------------------------------------
(* What each kind of step makes of sound operands is sound.                *)
LEMMA TruthSound ==
  ASSUME NEW b \in BOOLEAN, NEW c \in BOOLEAN, NEW d \in BOOLEAN, b = c, b = d
  PROVE  Sound(Operand(CInt, Truth(b), Truth(c), Number(FALSE, Truth(d))))
<1>1. Truth(b) \in {0, 1}
  BY DEF Truth
<1>2. (Truth(b) < 0) = FALSE
  BY <1>1
<1>3. Fits(Operand(CInt, Truth(b), Truth(c), Number(FALSE, Truth(d))))
  BY TruthFits DEF Fits, Operand, CTypes
<1>4. Agrees(Operand(CInt, Truth(b), Truth(c), Number(FALSE, Truth(d))))
  BY <1>2 DEF Agrees, Operand, Number
<1> QED
  BY <1>3, <1>4 DEF Sound

(* A literal is sound in the type its spelling gives it.                   *)
LEMMA LiteralSound ==
  ASSUME NEW n \in Nat, NEW hex \in BOOLEAN, n <= ExactLimit
  PROVE  Sound(Operand(LiteralType(n, hex), n, n, Number(FALSE, n)))
<1>1. (n < 0) = FALSE
  OBVIOUS
<1>2. LiteralType(n, hex) \in CTypes
  BY WidthsScale DEF LiteralType, CTypes
<1> QED
  BY <1>1, <1>2, LiteralFits DEF Sound, Fits, Agrees, Operand, Number

(* A sign or a complement, when its number fits.                           *)
LEMMA PrefixSound ==
  ASSUME NEW op \in {"-", "~"}, NEW x, Sound(x),
         NEW v, v = IF op = "~" THEN -x.value - 1 ELSE -x.value,
         op = "~" => InWindow(x.value), WithinBoth(x.ctype, v),
         NEW c, c = IF x.inC = Undefined THEN Undefined
                    ELSE InType(x.ctype, IF op = "-" THEN -x.inC
                                         ELSE IF x.ctype.unsigned THEN UintMax - x.inC
                                         ELSE -x.inC - 1),
         NEW n, n = BitwiseCall("^", x.run.n, -1),
         NEW run, run = IF op = "-" THEN FSub(PlusZero, x.run) ELSE Number(n < 0, n)
  PROVE  Sound(Operand(x.ctype, v, c, run))
<1> DEFINE a == x.value
           t == x.ctype
<1>1. /\ t \in CTypes /\ WithinBoth(t, a) /\ x.inC = a
      /\ x.run = [neg |-> a < 0, n |-> a]
  BY DEF Sound, Fits, Agrees
<1>2. /\ a \in Int /\ -ExactLimit <= a /\ a <= ExactLimit /\ Holds(t, a)
      /\ v \in Int /\ -ExactLimit <= v /\ v <= ExactLimit /\ Holds(t, v)
      /\ a # Undefined /\ ExactLimit \in Nat /\ ExactLimit > 1
  <2>1. a \in Int /\ -ExactLimit <= a /\ a <= ExactLimit /\ Holds(t, a)
    BY <1>1, WithinIs
  <2>2. v \in Int /\ -ExactLimit <= v /\ v <= ExactLimit /\ Holds(t, v)
    BY <1>1, WithinIs
  <2> QED
    BY <2>1, <2>2, UndefinedIsNoNumber, WidthsScale
<1>3. x.run.n = a /\ x.run.neg = (a < 0)
  BY <1>1
<1>4. CASE op = "-"
  <2>1. v = -a /\ c = InType(t, v)
    BY <1>1, <1>2, <1>4
  <2>2. c = v
    BY <1>1, <1>2, <2>1, InTypeIs
  <2>3. PlusZero.n = 0 /\ PlusZero.neg = FALSE
    BY DEF PlusZero, Number
  <2>4. PlusZero.n - x.run.n = v
    BY <1>2, <1>3, <2>1, <2>3
  <2>5. FSub(PlusZero, x.run) = [neg |-> IF v = 0 THEN PlusZero.neg /\ ~x.run.neg ELSE v < 0,
                                 n |-> v]
    BY <1>2, <1>3, <2>3, <2>4, FSubIs
  <2>6. (IF v = 0 THEN PlusZero.neg /\ ~x.run.neg ELSE v < 0) = (v < 0)
    BY <1>2, <2>3
  <2>7. run = [neg |-> v < 0, n |-> v]
    BY <1>4, <2>5, <2>6
  <2> QED
    BY <1>1, <2>2, <2>7 DEF Sound, Fits, Agrees, Operand
<1>5. CASE op = "~"
  <2>1. v = -a - 1
    BY <1>5
  <2>2. ~t.unsigned
    <3>1. t = CUint => FALSE
      BY <1>2, <2>1, HoldsIs, WidthsScale
    <3> QED
      BY <1>1, <3>1, TypesApart DEF CTypes
  <2>3. c = InType(t, v)
    BY <1>1, <1>2, <1>5, <2>1, <2>2
  <2>4. c = v
    BY <1>1, <1>2, <2>3, InTypeIs
  <2>5. -ExactLimit < a /\ a < ExactLimit
    BY <1>2, <1>5 DEF InWindow, BitwiseLimit
  <2>6. Plain("^", a, -1) = v
    <3>1. ExactBits \in Nat /\ ExactBits < MachineBits /\ ExactLimit = 2 ^ ExactBits
      BY WidthsScale
    <3>2. OfBits("^", a, -1) = -a - 1
      BY <1>2, <2>5, <3>1, Complement
    <3>3. "^" \in Masks /\ -1 \in Int
      BY DEF Masks
    <3>4. Plain("^", a, -1) = OfBits("^", a, -1)
      BY <1>2, <3>3, PlainIs
    <3> QED
      BY <2>1, <3>2, <3>4
  <2>7. n = v
    <3>1. "^" \in Masks \cup Shifts /\ "^" \notin Shifts /\ -1 \in Int
          /\ -ExactLimit < -1 /\ -1 < ExactLimit /\ v < ExactLimit
      BY <1>2, <2>1, <2>5 DEF Masks, Shifts
    <3> QED
      BY <1>2, <1>3, <2>5, <2>6, <3>1, BitwiseIs
  <2>8. run = [neg |-> v < 0, n |-> v]
    BY <1>5, <2>7 DEF Number
  <2> QED
    BY <1>1, <2>4, <2>8 DEF Sound, Fits, Agrees, Operand
<1> QED
  BY <1>4, <1>5

(* An operator between two, when it is accepted.                           *)
LEMMA InfixSound ==
  ASSUME NEW op \in Operators, NEW x, NEW y, Sound(x), Sound(y),
         Accepted(op, x.ctype, y.ctype, x.value, y.value)
  PROVE  Sound(Operand(OperatorType(op, x.ctype, y.ctype), Folded(op, x.value, y.value),
                       CAnswer(op, x.ctype, y.ctype, x.inC, y.inC), Computed(op, x.run, y.run)))
<1> DEFINE a == x.value  b == y.value  s == x.ctype  t == y.ctype
           v == Plain(op, a, b)
<1>1. /\ s \in CTypes /\ WithinBoth(s, a) /\ x.inC = a /\ x.run = [neg |-> a < 0, n |-> a]
      /\ t \in CTypes /\ WithinBoth(t, b) /\ y.inC = b /\ y.run = [neg |-> b < 0, n |-> b]
      /\ Accepted(op, s, t, a, b)
  BY DEF Sound, Fits, Agrees
<1>2. Folded(op, a, b) = v
  BY <1>1, FoldedIs
<1>3. CAnswer(op, s, t, a, b) = v
  BY <1>1, AnswerInC
<1>4. Computed(op, x.run, y.run) = [neg |-> v < 0, n |-> v]
  <2>1. x.run.n = a /\ x.run.neg = (a < 0) /\ y.run.n = b /\ y.run.neg = (b < 0)
    BY <1>1
  <2> HIDE DEF a, b, s, t, v
  <2> QED
    BY <1>1, <2>1, ComputedIs DEF v
<1>5. WithinBoth(OperatorType(op, s, t), v)
  BY <1>1, <1>2, AnswerFits
<1>6. OperatorType(op, s, t) \in CTypes
  BY <1>1, UsualArithIs DEF OperatorType, CTypes
<1> HIDE DEF v
<1> QED
  BY <1>1, <1>2, <1>3, <1>4, <1>5, <1>6 DEF Sound, Fits, Agrees, Operand

(* One of two arms, in the type C converts both to.                        *)
LEMMA ArmSound ==
  ASSUME NEW x, NEW y, Sound(x), Sound(y), NEW arm \in {x, y},
         NEW t, t = UsualArith(x.ctype, y.ctype), WithinBoth(t, arm.value)
  PROVE  Sound(Operand(t, arm.value,
                       IF arm.inC = Undefined THEN Undefined ELSE Convert(t, arm.inC), arm.run))
<1> DEFINE v == arm.value
<1>1. x.ctype \in CTypes /\ y.ctype \in CTypes /\ arm.inC = v /\ arm.run = [neg |-> v < 0, n |-> v]
  BY DEF Sound, Fits, Agrees
<1>2. t \in CTypes
  BY <1>1, UsualArithIs
<1>3. v \in Int /\ Holds(t, v) /\ v # Undefined
  BY <1>2, WithinIs, UndefinedIsNoNumber
<1>4. Convert(t, v) = v
  BY <1>2, <1>3, Conversions
<1> HIDE DEF v
<1> QED
  BY <1>1, <1>2, <1>3, <1>4 DEF Sound, Fits, Agrees, Operand, v

(* What a sound stack says of its ends.                                    *)
LEMMA EndsSound ==
  ASSUME StackSound, Len(operands) >= 1
  PROVE  Sound(Top) /\ Sound(Under)
<1>1. ASSUME NEW x, Sound(x), operands = <<x>> PROVE Sound(Top) /\ Sound(Under)
  BY <1>1 DEF Top, Under
<1>2. ASSUME NEW x, NEW y, Sound(x), Sound(y), operands = <<x, y>>
      PROVE Sound(Top) /\ Sound(Under)
  BY <1>2 DEF Top, Under
<1>3. operands # <<>>
  OBVIOUS
<1> QED BY <1>1, <1>2, <1>3 DEF StackSound

(* A sound operand can be put on the stack, or in the place of its top or  *)
(* of everything.                                                          *)
LEMMA PushSound ==
  ASSUME StackSound, NEW x, Sound(x), Push(x)
  PROVE  StackSound'
<1>1. CASE operands = <<>>
  <2> operands' = <<x>>
    BY <1>1 DEF Push
  <2> QED BY DEF StackSound, Sound, Fits, Agrees
<1>2. CASE operands # <<>>
  <2>1. operands' = <<Under, x>>
    BY <1>2 DEF Push
  <2>2. Len(operands) >= 1
    BY <1>2 DEF StackSound
  <2> QED BY <2>1, <2>2, EndsSound DEF StackSound, Sound, Fits, Agrees
<1> QED BY <1>1, <1>2

LEMMA ReplaceSound ==
  ASSUME StackSound, NEW x, Sound(x), Len(operands) >= 1, Replace(x)
  PROVE  StackSound'
<1>1. CASE Len(operands) = 1
  <2> operands' = <<x>>
    BY <1>1 DEF Replace
  <2> QED BY DEF StackSound, Sound, Fits, Agrees
<1>2. CASE Len(operands) # 1
  <2>1. operands' = <<Under, x>>
    BY <1>2 DEF Replace
  <2> QED BY <2>1, EndsSound DEF StackSound, Sound, Fits, Agrees
<1> QED BY <1>1, <1>2

LEMMA CombineSound ==
  ASSUME NEW x, Sound(x), Combine(x)
  PROVE  StackSound'
BY DEF Combine, StackSound, Sound, Fits, Agrees

-----------------------------------------------------------------------------
(* No step leaves an operand that is not sound.                            *)
LEMMA StackSoundKept ==
  StackSound /\ [Next]_vars => StackSound'
<1> SUFFICES ASSUME StackSound, [Next]_vars PROVE StackSound'
  OBVIOUS
<1>r. ASSUME Refuse PROVE StackSound'
  BY <1>r DEF Refuse, StackSound
<1>1. ASSUME NEW n \in Literals, NEW hex \in BOOLEAN, Literal(n, hex) PROVE StackSound'
  <2> n \in Nat
    BY LiteralsAreWritten
  <2>1. CASE n <= ExactLimit
    <3> DEFINE x == Operand(LiteralType(n, hex), n, n, Number(FALSE, n))
    <3>1. Sound(x)
      BY <2>1, LiteralSound
    <3>2. Push(x) /\ Len(operands) < 2
      BY <1>1, <2>1 DEF Literal
    <3> HIDE DEF x
    <3> QED BY <3>1, <3>2, PushSound
  <2> QED BY <1>1, <1>r, <2>1 DEF Literal
<1>2. ASSUME NEW op \in {"-", "~"}, Prefix(op) PROVE StackSound'
  <2>1. Len(operands) >= 1
    BY <1>2 DEF Prefix, Ready
  <2>2. PICK x : x = Top
    OBVIOUS
  <2>3. Sound(x)
    BY <2>1, <2>2, EndsSound
  <2> DEFINE v == IF op = "~" THEN -x.value - 1 ELSE -x.value
             c == IF x.inC = Undefined THEN Undefined
                  ELSE InType(x.ctype, IF op = "-" THEN -x.inC
                                       ELSE IF x.ctype.unsigned THEN UintMax - x.inC
                                       ELSE -x.inC - 1)
             n == BitwiseCall("^", x.run.n, -1)
             run == IF op = "-" THEN FSub(PlusZero, x.run) ELSE Number(n < 0, n)
             z == Operand(x.ctype, v, c, run)
  <2>4. IF (op = "~" => InWindow(x.value)) /\ WithinBoth(x.ctype, v) THEN Replace(z) ELSE Refuse
    BY <1>2, <2>2 DEF Prefix
  <2>5. CASE (op = "~" => InWindow(x.value)) /\ WithinBoth(x.ctype, v)
    <3>1. Sound(z)
      BY <2>3, <2>5, PrefixSound
    <3>2. Replace(z)
      BY <2>4, <2>5
    <3> HIDE DEF z
    <3> QED BY <2>1, <3>1, <3>2, ReplaceSound
  <2> HIDE DEF z
  <2> QED BY <1>r, <2>4, <2>5
<1>3. ASSUME NEW negated \in BOOLEAN, Test(negated) PROVE StackSound'
  <2>1. Len(operands) >= 1
    BY <1>3 DEF Test, Ready
  <2>2. PICK x : x = Top
    OBVIOUS
  <2>3. Sound(x) /\ x.inC = x.value /\ x.run.n = x.value /\ x.inC # Undefined
    <3>1. Sound(x)
      BY <2>1, <2>2, EndsSound
    <3>2. x.ctype \in CTypes /\ WithinBoth(x.ctype, x.value)
      BY <3>1 DEF Sound, Fits
    <3>3. x.value \in Int
      BY <3>2, WithinIs
    <3>4. x.inC = x.value /\ x.run.n = x.value
      BY <3>1 DEF Sound, Agrees
    <3> QED
      BY <3>1, <3>3, <3>4, UndefinedIsNoNumber
  <2> DEFINE b == (negated = (x.value = 0))
             c == (negated = (x.inC = 0))
             d == (negated = (x.run.n = 0))
             z == Operand(CInt, Truth(b), Truth(c), Number(FALSE, Truth(d)))
  <2>4. Replace(z)
    BY <1>3, <2>2, <2>3 DEF Test
  <2>5. b \in BOOLEAN /\ c \in BOOLEAN /\ d \in BOOLEAN /\ b = c /\ b = d
    BY <2>3
  <2>6. Sound(z)
    <3> HIDE DEF b, c, d
    <3> QED
      BY <2>5, TruthSound
  <2> HIDE DEF z
  <2> QED BY <2>1, <2>4, <2>6, ReplaceSound
<1>4. CASE CastLongLong
  <2> DEFINE x == Operand(CLongLong, Top.value, Top.inC, Top.run)
  <2>1. Len(operands) >= 1 /\ Replace(x)
    BY <1>4 DEF CastLongLong, Ready
  <2>2. Sound(x)
    BY <2>1, EndsSound, CastFits DEF Sound, Fits, Agrees, Operand, CTypes
  <2> HIDE DEF x
  <2> QED BY <2>1, <2>2, ReplaceSound
<1>5. ASSUME NEW op \in Operators, Infix(op) PROVE StackSound'
  <2>1. Len(operands) >= 1
    BY <1>5 DEF Infix, Ready
  <2>2. PICK x, y : x = Under /\ y = Top
    OBVIOUS
  <2>3. Sound(x) /\ Sound(y)
    BY <2>1, <2>2, EndsSound
  <2> DEFINE z == Operand(OperatorType(op, x.ctype, y.ctype), Folded(op, x.value, y.value),
                          CAnswer(op, x.ctype, y.ctype, x.inC, y.inC),
                          Computed(op, x.run, y.run))
  <2>4. IF Accepted(op, x.ctype, y.ctype, x.value, y.value) THEN Combine(z) ELSE Refuse
    BY <1>5, <2>2 DEF Infix
  <2>5. CASE Accepted(op, x.ctype, y.ctype, x.value, y.value)
    <3>1. Sound(z)
      BY <2>3, <2>5, InfixSound
    <3> HIDE DEF z
    <3> QED BY <2>4, <2>5, <3>1, CombineSound
  <2> HIDE DEF z
  <2> QED BY <1>r, <2>4, <2>5
<1>6. ASSUME NEW first \in BOOLEAN, Conditional(first) PROVE StackSound'
  <2>1. Len(operands) >= 1
    BY <1>6 DEF Conditional, Ready
  <2>2. PICK x, y : x = Under /\ y = Top
    OBVIOUS
  <2>3. Sound(x) /\ Sound(y)
    BY <2>1, <2>2, EndsSound
  <2> DEFINE arm == IF first THEN x ELSE y
             t == UsualArith(x.ctype, y.ctype)
             z == Operand(t, arm.value,
                          IF arm.inC = Undefined THEN Undefined ELSE Convert(t, arm.inC),
                          arm.run)
  <2>4. IF WithinBoth(t, arm.value) THEN Combine(z) ELSE Refuse
    BY <1>6, <2>2 DEF Conditional
  <2>5. CASE WithinBoth(t, arm.value)
    <3>1. arm \in {x, y}
      OBVIOUS
    <3>2. Sound(z)
      <4> HIDE DEF arm, t
      <4> QED BY <2>3, <2>5, <3>1, ArmSound DEF t
    <3> HIDE DEF z
    <3> QED BY <2>4, <2>5, <3>2, CombineSound
  <2> HIDE DEF z
  <2> QED BY <1>r, <2>4, <2>5
<1>7. CASE UNCHANGED vars
  BY <1>7 DEF vars, StackSound, Sound, Fits, Agrees
<1> QED BY <1>1, <1>2, <1>3, <1>4, <1>5, <1>6, <1>7 DEF Next

(* So every operand that is ever on the stack is sound.                    *)
LEMMA StackAlwaysSound == Spec => []StackSound
<1>1. Init => StackSound
  BY DEF Init, StackSound
<1> QED BY <1>1, StackSoundKept, PTL DEF Spec

(* Every operand of a sound stack is sound.                                *)
LEMMA MembersSound ==
  ASSUME StackSound, NEW i \in 1 .. Len(operands)
  PROVE  Sound(operands[i])
<1>1. CASE operands = <<>>
  BY <1>1
<1>2. ASSUME NEW x, Sound(x), operands = <<x>> PROVE Sound(operands[i])
  BY <1>2
<1>3. ASSUME NEW x, NEW y, Sound(x), Sound(y), operands = <<x, y>> PROVE Sound(operands[i])
  <2> i = 1 \/ i = 2
    BY <1>3
  <2> QED BY <1>3
<1> QED BY <1>1, <1>2, <1>3 DEF StackSound

(* Every constant the analysis accepts lies inside the exact window of a   *)
(* double and inside the type C gives its expression, for every width and  *)
(* every set of literals: nothing const.go lets past its two limits        *)
(* unchecked can leave them.                                               *)
THEOREM ConstantsFit == Spec => []AcceptedFits
<1>1. StackSound => AcceptedFits
  BY MembersSound DEF Sound, Fits, AcceptedFits
<1> QED BY <1>1, StackAlwaysSound, PTL

(* An accepted constant is one number to all its readers, for every width: *)
(* C's answer is defined and equal to it, and the program computes it,     *)
(* with the positive zero.                                                 *)
THEOREM OneNumber == Spec => []ReadersAgree
<1>1. StackSound => ReadersAgree
  <2> SUFFICES ASSUME StackSound, NEW i \in 1 .. Len(operands)
               PROVE  /\ operands[i].run = Number(operands[i].value < 0, operands[i].value)
                      /\ operands[i].inC = operands[i].value
    BY DEF ReadersAgree
  <2>1. Sound(operands[i])
    BY MembersSound
  <2> QED BY <2>1 DEF Sound, Agrees, Number
<1> QED BY <1>1, StackAlwaysSound, PTL

(* And no operator is refused without a cause, for every width: what C     *)
(* defines, a double holds and the windows of the bitwise operators allow  *)
(* is always folded, whatever a conversion made of the operands on the way.*)
THEOREM NoneRefusedInVain == Spec => []RefusedForCause
<1>1. StackSound => RefusedForCause
  <2> SUFFICES ASSUME StackSound, Len(operands) = 2, NEW op \in Operators
               PROVE  \/ Accepted(op, Under.ctype, Top.ctype, Under.value, Top.value)
                      \/ Cause(op, Under.ctype, Top.ctype, Under.value, Top.value)
    BY DEF RefusedForCause, Cause
  <2>1. Sound(Under) /\ Sound(Top)
    BY EndsSound
  <2> QED BY <2>1, CauseFound DEF Sound, Fits
<1> QED BY <1>1, StackAlwaysSound, PTL
=============================================================================
