------------------------------- MODULE Doubles -------------------------------
(***************************************************************************)
(* The numbers a register of the chip holds.  A double is an integer, a    *)
(* NaN, the negative zero or an infinity, which is an integer past every   *)
(* other.  Of a quotient that is not whole only what its truncation needs  *)
(* is kept: sign and whole part, past the infinities.                      *)
(***************************************************************************)
EXTENDS Integers, FiniteSets

CONSTANTS NaN, NegZero     \* the two doubles no literal can name

ASSUME LiteralsAssumption == NaN # NegZero /\ NaN \notin Int /\ NegZero \notin Int

LOCAL FSX == INSTANCE FiniteSetsExt

Infinity == 1000000
Fraction == 2000000

Number(v) == IF v = NegZero THEN 0 ELSE v

Magnitude(v) == IF Number(v) < 0 THEN -Number(v) ELSE Number(v)

Absolute(v) == IF v = NaN THEN NaN ELSE Magnitude(v)

Infinite(v) == v # NaN /\ Magnitude(v) = Infinity

Truth(b) == IF b THEN 1 ELSE 0

Sign(v) == IF v = NegZero \/ Number(v) < 0 THEN -1 ELSE 1

\* The number of that magnitude and sign, where a zero has one too.
WithSign(sign, magnitude) == IF magnitude = 0 /\ sign < 0 THEN NegZero ELSE sign * magnitude

Minus(v) == IF v = NaN THEN NaN ELSE WithSign(-Sign(v), Magnitude(v))

Sum(a, b) ==
  IF NaN \in {a, b} THEN NaN
  ELSE IF Infinite(a) THEN IF b = Minus(a) THEN NaN ELSE a
  ELSE IF Infinite(b) THEN b
  ELSE IF {a, b} = {NegZero} THEN NegZero ELSE Number(a) + Number(b)

Difference(a, b) == Sum(a, Minus(b))

Product(a, b) ==
  IF NaN \in {a, b} THEN NaN
  ELSE IF Infinite(a) \/ Infinite(b)
       THEN IF 0 \in {Number(a), Number(b)} THEN NaN ELSE Sign(a) * Sign(b) * Infinity
  ELSE WithSign(Sign(a) * Sign(b), Magnitude(a) * Magnitude(b))

Quotient(a, b) ==
  LET sign == Sign(a) * Sign(b)
      whole == Magnitude(a) \div Magnitude(b)
  IN  IF NaN \in {a, b} THEN NaN
      ELSE IF Infinite(a) THEN IF Infinite(b) THEN NaN ELSE sign * Infinity
      ELSE IF Infinite(b) THEN WithSign(sign, 0)
      ELSE IF Number(b) = 0 THEN IF Number(a) = 0 THEN NaN ELSE sign * Infinity
      ELSE IF Magnitude(a) % Magnitude(b) = 0 THEN WithSign(sign, whole)
      ELSE sign * (Fraction + whole)

Truncated(v) ==
  IF v # NaN /\ Magnitude(v) >= Fraction THEN WithSign(Sign(v), Magnitude(v) - Fraction) ELSE v

(* A bitwise instruction reads its operands through a conversion to a       *)
(* signed integer, which stops the chip at an infinity and takes a NaN for  *)
(* the least integer there is.  The answer is read back from fewer bits.    *)
LongBits == 16
KeptBits == 13

Converts(v) == ~Infinite(v)
ToLong(v)   == IF v = NaN THEN -(2 ^ (LongBits - 1)) ELSE Number(v)

FromLong(n) == ((n + 2 ^ KeptBits) % 2 ^ (KeptBits + 1)) - 2 ^ KeptBits

Bits(v) == {k \in 0..(LongBits - 1) : (v \div 2 ^ k) % 2 = 1}

OfBits(S) ==
  FSX!MapThenSumSet(LAMBDA k : IF k = LongBits - 1 THEN -(2 ^ k) ELSE 2 ^ k, S)

And(a, b) == FromLong(OfBits(Bits(ToLong(a)) \cap Bits(ToLong(b))))
Or(a, b)  == FromLong(OfBits(Bits(ToLong(a)) \cup Bits(ToLong(b))))
Xor(a, b) == LET x == Bits(ToLong(a))
                 y == Bits(ToLong(b))
             IN  FromLong(OfBits((x \cup y) \ (x \cap y)))
Not(a)    == FromLong(-ToLong(a) - 1)

(* A shift keeps the low bits of its distance. *)
MaxDistance == 3
Distance(n) == ToLong(n) % (MaxDistance + 1)

ShiftLeft(a, n)  == FromLong(ToLong(a) * 2 ^ Distance(n))
ShiftRight(a, n) == FromLong(ToLong(a) \div 2 ^ Distance(n))

(* A device operand is narrowed to a shorter integer without a check; what  *)
(* does not fit becomes the least one.                                      *)
MinNarrow == -8
MaxNarrow == 7

Narrowed(v) ==
  IF v # NaN /\ Number(Truncated(v)) \in MinNarrow..MaxNarrow
  THEN Number(Truncated(v)) ELSE MinNarrow

-----------------------------------------------------------------------------
(* Comparisons *)

Compares(pred, a, b) ==
  CASE pred = "eq" -> a = b [] pred = "ne" -> a # b
    [] pred = "lt" -> a < b [] pred = "le" -> a <= b
    [] pred = "gt" -> a > b [] pred = "ge" -> a >= b

(* The chip's comparisons: a NaN only ever differs. *)
Holds(pred, a, b) ==
  IF NaN \in {a, b} THEN pred = "ne" ELSE Compares(pred, Number(a), Number(b))

(* LLVM's: o and u say what a NaN answers, and an unsigned comparison sees  *)
(* a negative value past every other.                                       *)
Ordered   == [oeq |-> "eq", one |-> "ne", olt |-> "lt", ole |-> "le", ogt |-> "gt", oge |-> "ge"]
Unordered == [ueq |-> "eq", une |-> "ne", ult |-> "lt", ule |-> "le", ugt |-> "gt", uge |-> "ge"]
SignedPreds == {"eq", "ne", "lt", "le", "gt", "ge"}
PastAll   == 10 * Fraction

HoldsFloat(pred, a, b) ==
  LET isNaN == NaN \in {a, b}
  IN  CASE pred = "uno" -> isNaN
        [] pred = "ord" -> ~isNaN
        [] pred \in DOMAIN Ordered   -> ~isNaN /\ Compares(Ordered[pred], Number(a), Number(b))
        [] pred \in DOMAIN Unordered -> isNaN \/ Compares(Unordered[pred], Number(a), Number(b))

HoldsInt(pred, a, b) ==
  LET Unsigned(v) == IF v < 0 THEN v + PastAll ELSE v
  IN  IF pred \in SignedPreds THEN Compares(pred, a, b)
      ELSE Compares(Unordered[pred], Unsigned(a), Unsigned(b))

(* A truth value is one bit, which is 0 or -1 when read as signed.          *)
HoldsTruth(pred, a, b) ==
  IF pred \in SignedPreds THEN Compares(pred, -a, -b) ELSE Compares(Unordered[pred], a, b)
=============================================================================
