---------------------------- MODULE ConstantFold ----------------------------
(***************************************************************************)
(* Constant integer expressions, as sema/const.go folds them.  One number  *)
(* has three readers: the fold itself, which runs in int64; C, whose       *)
(* literals are int, unsigned or long long and whose operators convert     *)
(* their operands before they compute; and the program, which irgen writes *)
(* as operations on IEEE doubles and as bitwise instructions that read and *)
(* write whole numbers through two conversions that are not each other's   *)
(* inverse.  The analysis refuses an expression where the three could      *)
(* part.  An expression is read from its leaves up, on a stack of at most  *)
(* two operands, each holding what every reader makes of it.               *)
(*                                                                         *)
(* The widths are parameters: IntBits, ExactBits and MachineBits stand for *)
(* 32, 53 and 64.  Doubles that are no whole number, and constant          *)
(* expressions over them, are left out.                                    *)
(***************************************************************************)
EXTENDS Integers, Sequences

CONSTANTS
  IntBits, IntMax, UintMax,   \* int and unsigned: 32, MaxInt32, MaxUint32
  ExactBits, ExactLimit,      \* the whole numbers a double holds: 53, 2^53
  MachineBits,                \* long long and the fold's own int64: 64
  Literals,                   \* the literals a program writes
  Undefined                   \* what C leaves undefined

ASSUME WidthsScale ==
  /\ IntBits \in Nat /\ ExactBits \in Nat /\ MachineBits \in Nat
  /\ IntMax \in Nat \ {0} /\ UintMax = 2 * IntMax + 1 /\ UintMax + 1 = 2 ^ IntBits
  /\ ExactLimit \in Nat \ {0} /\ ExactLimit = 2 ^ ExactBits
  /\ UintMax < ExactLimit /\ ExactBits + 1 < MachineBits /\ MachineBits <= ExactLimit

ASSUME LiteralsAreWritten == Literals \subseteq Nat

ASSUME UndefinedIsNoNumber == Undefined \notin Int

VARIABLES
  operands,  \* what has been folded and not yet been used by an operator
  refused    \* whether the analysis has reported a mistake

vars == <<operands, refused>>

-----------------------------------------------------------------------------
(* C's types for an integer operand, after the integer promotions.         *)

CInt      == [bits |-> IntBits, unsigned |-> FALSE]
CUint     == [bits |-> IntBits, unsigned |-> TRUE]
CLongLong == [bits |-> MachineBits, unsigned |-> FALSE]

Holds(t, v) ==
  /\ t.unsigned => v >= 0
  /\ \/ t = CLongLong
     \/ t = CUint /\ v <= UintMax
     \/ t = CInt /\ v \in -(IntMax + 1) .. IntMax

TypeMin(t) == IF t.unsigned THEN 0 ELSE -(2 ^ (t.bits - 1))

\* Two's complement over that many bits.
Wrapped(bits, v) == ((v + 2 ^ (bits - 1)) % 2 ^ bits) - 2 ^ (bits - 1)

Convert(t, v) ==
  CASE t = CLongLong -> v
    [] t = CUint     -> v % (UintMax + 1)
    [] t = CInt      -> Wrapped(IntBits, v)

UsualArith(s, t) ==
  CASE s.bits = t.bits -> [s EXCEPT !.unsigned = s.unsigned \/ t.unsigned]
    [] s.bits > t.bits -> s
    [] s.bits < t.bits -> t

\* Seeded fault: a hexadecimal literal past unsigned is still given it.
HexPastUnsigned(n, hex) ==
  IF n <= IntMax THEN CInt ELSE IF hex THEN CUint ELSE CLongLong

LiteralType(n, hex) ==
  CASE n <= IntMax                        -> CInt
    [] n > IntMax /\ hex /\ n <= UintMax  -> CUint
    [] n > IntMax /\ ~(hex /\ n <= UintMax) -> CLongLong

-----------------------------------------------------------------------------
(* Whole-number arithmetic the three share: the definitions of C and of Go *)
(* for a quotient rounded toward zero, and bits in two's complement.       *)

Truth(b) == IF b THEN 1 ELSE 0
Abs(n) == IF n < 0 THEN -n ELSE n
Signed(negative, n) == IF negative THEN -n ELSE n

Quotient(a, b) == Signed((a < 0) # (b < 0), Abs(a) \div Abs(b))
Remainder(a, b) == a - Quotient(a, b) * b

Bit(n, k) == (n \div 2 ^ k) % 2

BitOf(op, x, y) ==
  CASE op = "&" -> x * y
    [] op = "|" -> x + y - x * y
    [] op = "^" -> (x + y) % 2

\* The sum of the lowest bits of what the operator makes of a and b.
OfBits(op, a, b) ==
  LET lowest[k \in 0 .. MachineBits] ==
        IF k = 0 THEN 0
        ELSE lowest[k - 1] + BitOf(op, Bit(a, k - 1), Bit(b, k - 1)) * 2 ^ (k - 1)
  IN Wrapped(MachineBits, lowest[MachineBits])

Compared(op, a, b) ==
  CASE op = "==" -> a = b
    [] op = "!=" -> a # b
    [] op = "<"  -> a < b
    [] op = "<=" -> a <= b
    [] op = ">"  -> a > b
    [] op = ">=" -> a >= b

Arith == {"+", "-", "*"}
Divides == {"/", "%"}
Masks == {"&", "|", "^"}
Shifts == {"<<", ">>"}
Relations == {"==", "!=", "<", "<=", ">", ">="}
Logical == {"&&", "||"}
Operators == Arith \cup Divides \cup Masks \cup Shifts \cup Relations \cup Logical

\* What an operator answers over two whole numbers, where it answers.
Plain(op, a, b) ==
  CASE op = "+"  -> a + b
    [] op = "-"  -> a - b
    [] op = "*"  -> a * b
    [] op = "/"  -> Quotient(a, b)
    [] op = "%"  -> Remainder(a, b)
    [] op = "<<" -> a * 2 ^ b
    [] op = ">>" -> a \div 2 ^ b
    [] op \in Masks     -> OfBits(op, a, b)
    [] op \in Relations -> Truth(Compared(op, a, b))
    [] op = "&&" -> Truth(a # 0 /\ b # 0)
    [] op = "||" -> Truth(a # 0 \/ b # 0)

-----------------------------------------------------------------------------
(* The fold and its refusals.                                              *)

BitwiseLimit == ExactLimit - 1

InWindow(v) == v \in -BitwiseLimit .. BitwiseLimit

DivideUndefined(t, a, b) == b = -1 /\ a = TypeMin(t)

\* Seeded fault: any operand the conversion changes is refused.
ConversionsRefused(op, t, a, b) == ~(Holds(t, a) /\ Holds(t, b))

\* Seeded fault: two operands are compared as they were written.
ComparedUnconverted(op, t, a, b) ==
  LET ca == Convert(t, a) cb == Convert(t, b)
  IN \/ op \in Masks /\ Plain(op, ca, cb) # Plain(op, a, b)
     \/ op \in Divides /\ b # 0 /\ cb # 0 /\ Plain(op, ca, cb) # Plain(op, a, b)

ConvertedAnswerDiffers(op, t, a, b) ==
  LET ca == Convert(t, a) cb == Convert(t, b)
  IN \/ op \in Masks \cup Relations /\ Plain(op, ca, cb) # Plain(op, a, b)
     \/ /\ op \in Divides
        /\ b # 0 /\ ~DivideUndefined(CLongLong, a, b)
        /\ cb # 0 => Plain(op, ca, cb) # Plain(op, a, b)

\* A product is the one sum of two operands an int64 can fail to hold.
Exact(op, a, b) ==
  op = "*" /\ a # 0 /\ b # 0 =>
    LET v == Wrapped(MachineBits, a * b) IN Quotient(v, b) = a

\* The type C computes the operator in.
OperatorType(op, s, t) ==
  CASE op \in Shifts -> s
    [] op \in Relations \cup Logical -> CInt
    [] op \notin Shifts \cup Relations \cup Logical -> UsualArith(s, t)

ShiftRefused(op, t, a, b) ==
  \/ b \notin 0 .. t.bits - 1
  \/ ~InWindow(a)
  \/ op = "<<" /\ (a < 0 \/ a > BitwiseLimit \div 2 ^ b)

\* The fold's wrapped number, which is the number itself unless Exact fails.
Folded(op, a, b) ==
  IF op = "*" THEN Wrapped(MachineBits, a * b) ELSE Plain(op, a, b)

WithinBoth(t, v) == Holds(t, v) /\ v \in -ExactLimit .. ExactLimit

Accepted(op, s, t, a, b) ==
  \/ op \in Logical
  \/ /\ op \in Relations
     /\ ~ConvertedAnswerDiffers(op, UsualArith(s, t), a, b)
  \/ /\ op \in Shifts
     /\ ~ShiftRefused(op, s, a, b)
     /\ WithinBoth(s, Folded(op, a, b))
  \/ LET u == UsualArith(s, t)
     IN /\ op \in Arith \cup Divides \cup Masks
        /\ ~ConvertedAnswerDiffers(op, u, a, b)
        /\ op \in Arith => Exact(op, a, b)
        /\ op \in Divides => b # 0 /\ ~DivideUndefined(u, Convert(u, a), Convert(u, b))
        /\ op \in Masks => InWindow(a) /\ InWindow(b)
        /\ WithinBoth(u, Folded(op, a, b))

-----------------------------------------------------------------------------
(* C's own answer: the operands converted, then a number, a number modulo  *)
(* the type's width, or nothing the language defines.                      *)

InType(t, v) ==
  CASE Holds(t, v)                  -> v
    [] ~Holds(t, v) /\ t.unsigned   -> Convert(t, v)
    [] ~Holds(t, v) /\ ~t.unsigned  -> Undefined

CAnswer(op, s, t, x, y) ==
  LET u == UsualArith(s, t)
      a == Convert(u, x)
      b == Convert(u, y)
  IN CASE x = Undefined \/ y = Undefined -> Undefined
       [] op \in Logical -> Plain(op, x, y)
       [] op \in Relations -> Plain(op, a, b)
       [] op \in Shifts ->
            IF y \notin 0 .. s.bits - 1 \/ (op = "<<" /\ x < 0) THEN Undefined
            ELSE InType(s, Plain(op, x, y))
       [] op \in Divides ->
            IF b = 0 \/ DivideUndefined(u, a, b) THEN Undefined
            ELSE InType(u, Plain(op, a, b))
       [] op \in Arith \cup Masks -> InType(u, Plain(op, a, b))

-----------------------------------------------------------------------------
(* The program's answer.  A number is a double that is whole, its sign kept *)
(* apart because a zero has one too.                                        *)

Number(negative, n) == [neg |-> negative, n |-> n]
PlusZero == Number(FALSE, 0)

\* How many bits a whole number takes.
Length(n) == CHOOSE k \in 0 .. 2 * MachineBits : Abs(n) < 2 ^ k /\ (k > 0 => Abs(n) >= 2 ^ (k - 1))

\* n / d to the nearest whole number, a half to the even one.
Nearest(n, d) ==
  LET q == n \div d
      r == n % d
  IN IF 2 * r > d \/ (2 * r = d /\ q % 2 = 1) THEN q + 1 ELSE q

\* A whole number as a double holds it, with ExactBits significant bits.
Rounded(n) ==
  LET drop == Length(n) - ExactBits
  IN IF drop <= 0 THEN n ELSE Signed(n < 0, Nearest(Abs(n), 2 ^ drop) * 2 ^ drop)

FAdd(x, y) ==
  LET n == Rounded(x.n + y.n)
  IN Number(IF n = 0 THEN x.neg /\ y.neg ELSE n < 0, n)

FSub(x, y) == FAdd(x, Number(~y.neg, -y.n))

FMul(x, y) == Number(x.neg # y.neg, Rounded(x.n * y.n))

\* The truncation of the rounded quotient: the bits after the point are as
\* many as the significant ones leave.
TruncDiv(x, y) ==
  LET q     == Abs(x.n) \div Abs(y.n)
      scale == IF Length(q) < ExactBits THEN 2 ^ (ExactBits - Length(q)) ELSE 1
  IN Number(x.neg # y.neg,
            Signed(x.neg # y.neg, Nearest(Abs(x.n) * scale, Abs(y.n)) \div scale))

SignlessZero(x) == FAdd(x, PlusZero)

\* What the machine reads a bitwise operand as, and an answer back from.
ReadLong(n) == Signed(n < 0, Abs(n) % 2 ^ ExactBits)
WriteLong(n) == Wrapped(ExactBits + 1, n)

Instruction(op, a, b) ==
  WriteLong(Wrapped(MachineBits, Plain(op, ReadLong(a),
                                       IF op \in Shifts THEN ReadLong(b) % MachineBits ELSE ReadLong(b))))

\* irgen folds the instruction over written-out operands in a narrower window.
WithinExactBits(v) == v \in -(2 ^ (ExactBits - 1)) .. 2 ^ (ExactBits - 1)

FoldBitwise(op, a, b) ==
  /\ WithinExactBits(a) /\ WithinExactBits(b)
  /\ op \in Shifts => b \in 0 .. MachineBits - 1
  /\ WithinExactBits(Plain(op, a, b))

BitwiseCall(op, a, b) ==
  IF FoldBitwise(op, a, b) THEN Plain(op, a, b) ELSE Instruction(op, a, b)

Computed(op, x, y) ==
  CASE op = "+" -> FAdd(x, y)
    [] op = "-" -> FSub(x, y)
    [] op = "*" -> SignlessZero(FMul(x, y))
    [] op = "/" -> SignlessZero(TruncDiv(x, y))
    [] op = "%" -> FSub(x, FMul(TruncDiv(x, y), y))
    [] op \in Masks \cup Shifts ->
         LET n == BitwiseCall(op, x.n, y.n) IN Number(n < 0, n)
    [] op \in Relations \cup Logical -> Number(FALSE, Plain(op, x.n, y.n))

-----------------------------------------------------------------------------
(* An operand: the fold's number and type, C's answer, the program's.      *)

Operand(t, v, c, run) == [ctype |-> t, value |-> v, inC |-> c, run |-> run]

Top == operands[Len(operands)]
Under == operands[1]

Push(x) ==
  operands' = (IF operands = <<>> THEN <<x>> ELSE <<Under, x>>) /\ UNCHANGED refused
Replace(x) ==
  operands' = (IF Len(operands) = 1 THEN <<x>> ELSE <<Under, x>>) /\ UNCHANGED refused
Combine(x) == operands' = <<x>> /\ UNCHANGED refused
Refuse == refused' = TRUE /\ operands' = <<>>

Ready(n) == ~refused /\ Len(operands) >= n

Literal(n, hex) ==
  /\ Ready(0) /\ Len(operands) < 2
  /\ IF n <= ExactLimit
     THEN Push(Operand(LiteralType(n, hex), n, n, Number(FALSE, n)))
     ELSE Refuse

\* '-' and '~' answer in the promoted type of their operand.
Prefix(op) ==
  LET x == Top
      v == IF op = "~" THEN -x.value - 1 ELSE -x.value
      c == IF x.inC = Undefined THEN Undefined
           ELSE InType(x.ctype, IF op = "-" THEN -x.inC
                                ELSE IF x.ctype.unsigned THEN UintMax - x.inC ELSE -x.inC - 1)
      n == BitwiseCall("^", x.run.n, -1)
  IN /\ Ready(1)
     /\ IF (op = "~" => InWindow(x.value)) /\ WithinBoth(x.ctype, v)
        THEN Replace(Operand(x.ctype, v, c,
                             IF op = "-" THEN FSub(PlusZero, x.run) ELSE Number(n < 0, n)))
        ELSE Refuse

\* '!' and a cast to bool read the operand for its truth alone.
Test(negated) ==
  LET x == Top
      v == Truth(negated = (x.value = 0))
  IN /\ Ready(1)
     /\ Replace(Operand(CInt, v,
                        IF x.inC = Undefined THEN Undefined ELSE Truth(negated = (x.inC = 0)),
                        Number(FALSE, Truth(negated = (x.run.n = 0)))))

CastLongLong == Ready(1) /\ Replace(Operand(CLongLong, Top.value, Top.inC, Top.run))

Infix(op) ==
  LET x == Under
      y == Top
      a == x.value
      b == y.value
  IN /\ Ready(2)
     /\ IF Accepted(op, x.ctype, y.ctype, a, b)
        THEN Combine(Operand(OperatorType(op, x.ctype, y.ctype), Folded(op, a, b),
                             CAnswer(op, x.ctype, y.ctype, x.inC, y.inC),
                             Computed(op, x.run, y.run)))
        ELSE Refuse

\* '?:' takes one arm's value in the type C converts both arms to.
Conditional(first) ==
  LET arm == IF first THEN Under ELSE Top
      t   == UsualArith(Under.ctype, Top.ctype)
  IN /\ Ready(2)
     /\ IF WithinBoth(t, arm.value)
        THEN Combine(Operand(t, arm.value,
                             IF arm.inC = Undefined THEN Undefined ELSE Convert(t, arm.inC),
                             arm.run))
        ELSE Refuse

Init == operands = <<>> /\ refused = FALSE

Next ==
  \/ \E n \in Literals, hex \in BOOLEAN : Literal(n, hex)
  \/ \E op \in {"-", "~"} : Prefix(op)
  \/ \E negated \in BOOLEAN : Test(negated)
  \/ CastLongLong
  \/ \E op \in Operators : Infix(op)
  \/ \E first \in BOOLEAN : Conditional(first)

Spec == Init /\ [][Next]_vars

-----------------------------------------------------------------------------
(* Every number the analysis accepts is one both windows hold: the exact   *)
(* whole numbers of a double, and the type C gives the expression (the     *)
(* limits const.go's constResult and checkWidth guard, which '!', casts    *)
(* and literals are let past).                                             *)
AcceptedFits ==
  \A i \in 1 .. Len(operands) : WithinBoth(operands[i].ctype, operands[i].value)

(* Three readers, one number.  The constant a case label, an array bound   *)
(* or a constexpr object becomes is the number the same expression         *)
(* computes at run time, its zero the positive one, so folding before or   *)
(* after instruction selection cannot be told apart; and it is a constant  *)
(* C defines with the same value (docs/microc.md, "Every MicroC program is *)
(* a valid C23 translation unit").                                         *)
ReadersAgree ==
  \A i \in 1 .. Len(operands) :
    /\ operands[i].run = Number(operands[i].value < 0, operands[i].value)
    /\ operands[i].inC = operands[i].value

(* An operator is refused for cause only: C leaves it undefined or answers *)
(* with another number, the number is not one a double holds exactly, or a *)
(* bitwise operand or a left shift's answer leaves the narrower window.    *)
(* In particular an operand that C converts to another number is let past  *)
(* where the answer stays the same, which is the rule of convertOperands   *)
(* and of docs/microc.md:579; the table at docs/microc.md:595, which names *)
(* every operand the common type does not hold, says more than they do.    *)
RefusedForCause ==
  Len(operands) = 2 =>
    LET x == Under
        y == Top
        a == x.value
        b == y.value
    IN \A op \in Operators :
         \/ Accepted(op, x.ctype, y.ctype, a, b)
         \/ CAnswer(op, x.ctype, y.ctype, a, b) = Undefined
         \/ CAnswer(op, x.ctype, y.ctype, a, b) # Plain(op, a, b)
         \/ Plain(op, a, b) \notin -ExactLimit .. ExactLimit
         \/ op \in Masks /\ ~(InWindow(a) /\ InWindow(b))
         \/ op \in Shifts /\ ~(InWindow(a) /\ InWindow(Plain(op, a, b)))
=============================================================================
