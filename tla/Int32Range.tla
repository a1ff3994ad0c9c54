----------------------------- MODULE Int32Range ------------------------------
(***************************************************************************)
(* isel/int32range.go: which values may lie outside the range the chip     *)
(* narrows a device operand into, where it would act on a number the       *)
(* program never computed.  Arithmetic is read as an interval, out of      *)
(* constants and out of what the condition of a select says of the arm it  *)
(* admits; what cannot be read is left to the flow of values.              *)
(*                                                                         *)
(* An end of an interval is kept in quarters: 4n is the number n, 4n - 1   *)
(* and 4n + 1 what lies right below and above it.  Operators that look for *)
(* an interval answer the empty set where none can be told.                *)
(***************************************************************************)
EXTENDS Addresses

Near(n, nudge) == 4 * n + (IF nudge < 0 THEN -1 ELSE IF nudge > 0 THEN 1 ELSE 0)
At(end)        == (end + 1) \div 4
Nudge(end)     == end - 4 * At(end)

Span(lo, hi) == [lo |-> lo, hi |-> hi]

(* insideInt32 *)
Inside(span)   == {span.lo, span.hi} \subseteq Near(MinNarrow, 0)..Near(MaxNarrow, 0)
Unranged(v)    == v = NaN \/ Number(v) \notin MinNarrow..MaxNarrow

-----------------------------------------------------------------------------
(* Interval forms *)

Hull(l, r) == Span(FSX!Min({l.lo, r.lo}), FSX!Max({l.hi, r.hi}))

SumOf(x, y)     == Near(At(x) + At(y), Nudge(x) + Nudge(y))
ProductOf(x, y) == Near(At(x) * At(y), At(x) * Nudge(y) + At(y) * Nudge(x))

(* A quotient that is not whole lies above the whole number below it; one   *)
(* by the least number over zero is out of any range.                       *)
QuotientOf(x, y) ==
  LET p == Sign(y) * At(x)
      q == IF y < 0 THEN -At(y) ELSE At(y)
  IN  IF q = 0 THEN Near(Sign(x) * Sign(y) * Infinity, 0)
      ELSE IF p % q # 0 THEN Near(p \div q, 1)
      ELSE Near(p \div q, Nudge(x) * At(y) - At(x) * Nudge(y))

EndsIn(s)   == {s.lo, s.hi}
Spanning(ends) == Span(FSX!Min(ends), FSX!Max(ends))

SumSpan(l, r)      == Span(SumOf(l.lo, r.lo), SumOf(l.hi, r.hi))
NegatedSpan(s)     == Span(-s.hi, -s.lo)
DifferenceSpan(l, r) == SumSpan(l, NegatedSpan(r))
ProductSpan(l, r)  == Spanning({ProductOf(x, y) : x \in EndsIn(l), y \in EndsIn(r)})
QuotientSpan(l, r) == Spanning({QuotientOf(x, y) : x \in EndsIn(l), y \in EndsIn(r)})

ClearOfZero(s) == s.lo > 0 \/ s.hi < 0

Floor(end) == 4 * (end \div 4)
Ceil(end)  == -Floor(-end)
TruncSpan(s) == LET Whole(end) == IF end < 0 THEN Ceil(end) ELSE Floor(end)
                IN  Span(Whole(s.lo), Whole(s.hi))

AbsSpan(s) ==
  IF s.lo >= 0 THEN s
  ELSE IF s.hi <= 0 THEN NegatedSpan(s) ELSE Span(0, FSX!Max({-s.lo, s.hi}))

(* shiftsBy: every distance is one the machine shifts left by as written.   *)
ShiftsBy(s) == Floor(s.lo) >= 0 /\ Ceil(s.hi) <= Near(MaxDistance, 0)

ShiftedSpan(l, r) ==
  ProductSpan(l, Span(Near(2 ^ At(Floor(r.lo)), 0), Near(2 ^ At(Ceil(r.hi)), 0)))

-----------------------------------------------------------------------------
(* What a condition says of the values it compares with constants           *)

(* A value held at or under an end, or at or over one. *)
Pin(value, under, end) == [value |-> value, under |-> under, end |-> end]

UpperBound  == [olt |-> TRUE, ole |-> TRUE, ogt |-> FALSE, oge |-> FALSE]
StrictBound == {"olt", "ogt"}

(* A comparison with its value on one side and a constant on the other; a   *)
(* magnitude held under a constant is held at both ends.                    *)
ComparisonBound(fn, item) ==
  LET side  == IF WholeLit(item.args[2]) THEN 2 ELSE 1
      value == item.args[3 - side]
      under == UpperBound[item.pred] = (side = 2)
      end   == Near(Number(item.args[side].lit),
                    IF item.pred \notin StrictBound THEN 0 ELSE IF under THEN -1 ELSE 1)
      of    == MakerOf(fn, value).args[1]
  IN  IF item.pred \notin DOMAIN UpperBound \/ ~WholeLit(item.args[side]) THEN {}
      ELSE IF ~Does(fn, value, {"icabs"}) THEN {Pin(value, under, end)}
      ELSE IF under THEN {Pin(of, TRUE, end), Pin(of, FALSE, -end)} ELSE {}

(* Both sides of a conjunction, which may be a select that fails to false.  *)
RECURSIVE Pinned(_, _)
Pinned(fn, cond) ==
  LET item == MakerOf(fn, cond)
  IN  IF \/ Does(fn, cond, {"and"})
         \/ Does(fn, cond, {"select"}) /\ item.args[3] = Lit(0)
      THEN Pinned(fn, item.args[1]) \cup Pinned(fn, item.args[2])
      ELSE IF Does(fn, cond, {"cmp"}) /\ item.type = "float" THEN ComparisonBound(fn, item)
      ELSE {}

EndsOf(pins, v, under) == {p.end : p \in {q \in pins : q.value = v /\ q.under = under}}

(* The values pinned on both sides, where the tightest pins hold them.      *)
CollectBounds(fn, cond) ==
  LET pins == Pinned(fn, cond)
      both == {v \in {p.value : p \in pins} : \A u \in BOOLEAN : EndsOf(pins, v, u) # {}}
  IN  [v \in both |-> Span(FSX!Max(EndsOf(pins, v, FALSE)), FSX!Min(EndsOf(pins, v, TRUE)))]

Tightest(held, stated) ==
  [v \in DOMAIN held \cup DOMAIN stated |->
     IF v \notin DOMAIN stated THEN held[v]
     ELSE IF v \notin DOMAIN held THEN stated[v]
     ELSE Span(FSX!Max({held[v].lo, stated[v].lo}), FSX!Min({held[v].hi, stated[v].hi}))]

-----------------------------------------------------------------------------
(* spanFrom: the range of a value, with some held between bounds by the     *)
(* tests around it.                                                         *)

RECURSIVE SpanFrom(_, _, _)
SpanFrom(fn, a, bounds) ==
  LET item == MakerOf(fn, a)
      Of(k) == SpanFrom(fn, item.args[k], bounds)
      Joined(Op(_, _)) == {Op(l, r) : l \in Of(1), r \in Of(2)}
      stated == CollectBounds(fn, item.args[1])
  IN  IF a \in DOMAIN bounds THEN {bounds[a]}
      ELSE IF WholeLit(a) THEN {Span(Near(Number(a.lit), 0), Near(Number(a.lit), 0))}
      ELSE IF ~IsVal(a) \/ Maker(fn, a) = {} THEN {}
      ELSE CASE item.do = "fadd" -> Joined(SumSpan)
             [] item.do = "fsub" -> Joined(DifferenceSpan)
             [] item.do = "fmul" -> Joined(ProductSpan)
             [] item.do = "fdiv" -> {QuotientSpan(l, r) : l \in Of(1), r \in {d \in Of(2) : ClearOfZero(d)}}
             [] item.do \in {"shl", "icshl"} ->
                  {ShiftedSpan(l, r) : l \in Of(1), r \in {d \in Of(2) : ShiftsBy(d)}}
             [] item.do \in {"fptosi", "sitofp", "freeze"} -> Of(1)
             [] item.do = "fneg"    -> {NegatedSpan(s) : s \in Of(1)}
             [] item.do = "ictrunc" -> {TruncSpan(s) : s \in Of(1)}
             [] item.do = "icabs"   -> {AbsSpan(s) : s \in Of(1)}
             [] item.do = "select"  ->
                  {Hull(l, r) :
                     l \in SpanFrom(fn, item.args[2], Tightest(bounds, stated)), r \in Of(3)}
             [] OTHER -> {}

SpanOf(fn, a) == SpanFrom(fn, a, <<>>)

-----------------------------------------------------------------------------
(* The rules of the flow *)

Int32Result(fn, item) ==
  \/ item.dst \in fn.pointers \cup {0} \/ IsTruth(fn, Val(item.dst))
  \/ item.do \in {"ptrtoint", "zext", "sext"}
  \/ \E s \in SpanOf(fn, Val(item.dst)) : Inside(s)

(* A shift whose own range cannot be told, by a distance that may be fine.  *)
ShiftCarries(fn, distance) == \A s \in SpanOf(fn, distance) : ShiftsBy(s)

(* What no interval was found for is as good as its operands.               *)
CarriesInt32(fn, item) ==
  /\ SpanOf(fn, Val(item.dst)) = {}
  /\ \/ item.do \in {"add", "sub", "mul", "fadd", "fsub", "fmul", "and", "or", "xor", "ashr",
                     "select", "fptosi", "sitofp", "freeze", "fneg", "icand", "ictrunc", "icabs"}
     \/ item.do \in {"shl", "icshl"} /\ ShiftCarries(fn, item.args[2])

Ranging == INSTANCE ValueFlow
             WITH Stops <- Int32Result, Carries <- CarriesInt32, Seeded <- Unranged

(* checkNarrowedOperands: the device hash of a batch store. *)
NarrowingRefused(prog) ==
  LET flow == Ranging!Reaches(prog)
  IN  \E f \in DOMAIN prog.funcs : \E i \in Items(prog.funcs[f]) :
        /\ i.do = "batch"
        /\ \/ IsVal(i.args[1]) /\ <<f, i.args[1].val>> \in flow
           \/ IsLit(i.args[1]) /\ Unranged(i.args[1].lit)
=============================================================================
