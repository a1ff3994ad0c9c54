------------------------------ MODULE Addresses ------------------------------
(***************************************************************************)
(* Memory addresses in selection (isel/address.go, mask.go and the part of *)
(* isel.go that places objects).  LLVM counts bytes and the chip slots of  *)
(* eight: where an address is fixed it becomes a literal, elsewhere the    *)
(* byte arithmetic is taken apart and done again in slots, and what it was *)
(* taken apart from is not selected unless something else reads it.        *)
(***************************************************************************)
EXTENDS MirCode, LlvmModule

CONSTANT NumCells      \* slots of the chip's memory

ASSUME NumCellsAssumption == NumCells \in Nat

FSX == INSTANCE FiniteSetsExt

(* An offset in the making: its constant part, what each run time value     *)
(* counts for, and the values taken apart on the way.  Operators that look  *)
(* for one answer the empty set where there is none.                        *)
Term(value, scale)             == [value |-> value, scale |-> scale, by |-> 1]
Offset(fixed, terms, visited)  == [fixed |-> fixed, terms |-> terms, visited |-> visited]
Plus(x, y) == Offset(x.fixed + y.fixed, x.terms \o y.terms, x.visited \o y.visited)
Sums(X, Y) == {Plus(x, y) : x \in X, y \in Y}

-----------------------------------------------------------------------------
(* inSlots, slotScale: of a byte stride the powers of two that make up a    *)
(* slot go; those that are not in it must be in the value, which is then    *)
(* divided by what is left.                                                 *)

DivisorOf(scale) == CHOOSE d \in {1, 2, 4, 8} :
                      scale % d = 0 /\ \A e \in {1, 2, 4, 8} : scale % e = 0 => e <= d

(* slotAlignment: a mask with low zero bits. *)
Aligned(fn, a, by) ==
  by = 1 \/ \E i \in Maker(fn, a) :
              i.do = "and" /\ \E k \in 1..2 : IsLit(i.args[k]) /\ i.args[k].lit % by = 0

SlotTerm(t) ==
  LET d == DivisorOf(t.scale)
  IN  [t EXCEPT !.scale = IF @ < 0 THEN -((-@) \div d) ELSE @ \div d, !.by = SlotBytes \div d]

InSlots(fn, offset) ==
  LET kept == SelectSeq(offset.terms, LAMBDA t : t.scale # 0)
      terms == [i \in DOMAIN kept |-> SlotTerm(kept[i])]
  IN  IF offset.fixed % SlotBytes = 0
         /\ \A i \in DOMAIN terms : Aligned(fn, terms[i].value, terms[i].by)
      THEN {[offset EXCEPT !.fixed = @ \div SlotBytes, !.terms = terms]} ELSE {}

-----------------------------------------------------------------------------
(* The pointer a number is the address of, where it is one.                 *)
PointerIn(fn, a) ==
  IF IsAddress(a) THEN {Place(a.addr, a.at)}
  ELSE {i.args[1] : i \in {x \in Maker(fn, a) : x.do = "ptrtoint"}}

(* A pointer's slot in bytes, scaled. *)
PointerOffset(places, pointer, outer) ==
  IF places = {} THEN {Offset(0, <<Term(pointer, outer * SlotBytes)>>, <<>>)}
  ELSE {Offset(outer * SlotBytes * p.slot, <<>>, <<>>) : p \in places}

RECURSIVE ConstantPlace(_, _, _), ByteOffset(_, _, _, _)

(* walkByteOffset *)
ByteOffset(prog, f, a, outer) ==
  LET fn == prog.funcs[f]
      item == MakerOf(fn, a)
      Through(offsets) == {[o EXCEPT !.visited = Append(@, a)] : o \in offsets}
      Scaled(value, scale) == {Offset(0, <<Term(value, scale)>>, <<>>)}
      Factor(k) == IsLit(item.args[k])
  IN  CASE IsLit(a) -> {Offset(outer * a.lit, <<>>, <<>>)}
        [] PointerIn(fn, a) # {} ->
             UNION {Through(PointerOffset(ConstantPlace(prog, f, p), p, outer)) : p \in PointerIn(fn, a)}
        [] Does(fn, a, {"add", "sub"}) ->
             Through(Sums(ByteOffset(prog, f, item.args[1], outer),
                          ByteOffset(prog, f, item.args[2], IF item.do = "sub" THEN -outer ELSE outer)))
        [] Does(fn, a, {"shl"}) /\ Factor(2) ->
             Through(Scaled(item.args[1], outer * 2 ^ item.args[2].lit))
        [] Does(fn, a, {"mul"}) /\ Factor(2) ->
             Through(Scaled(item.args[1], outer * item.args[2].lit))
        [] Does(fn, a, {"mul"}) /\ Factor(1) /\ ~Factor(2) ->
             Through(Scaled(item.args[2], outer * item.args[1].lit))
        [] Does(fn, a, {"and"}) -> Scaled(a, outer)
        [] OTHER -> {}

(* gepPlanOf: one index for each stride, in bytes. *)
IndexOffset(prog, f, index, stride) ==
  IF ~IsLit(index) /\ stride % SlotBytes = 0 THEN {Offset(0, <<Term(index, stride)>>, <<>>)}
  ELSE ByteOffset(prog, f, index, stride)

GepOffset(prog, f, gep) ==
  UNION {InSlots(prog.funcs[f], o) :
           o \in SX!FoldLeft(LAMBDA so, k : Sums(so, IndexOffset(prog, f, gep.args[k + 1], gep.strides[k])),
                             {Offset(0, <<>>, <<>>)}, [k \in DOMAIN gep.strides |-> k])}

(* constantSlot: where a pointer with nothing left to compute points, a     *)
(* number of slots from where the pointer it is made of does.               *)
FixedSteps(prog, f, a) ==
  IF IsPlace(a)
  THEN IF a.at % SlotBytes = 0 THEN {[from |-> Place(a.obj, 0), slots |-> a.at \div SlotBytes]} ELSE {}
  ELSE UNION {{[from |-> i.args[1], slots |-> o.fixed] :
                 o \in {x \in GepOffset(prog, f, i) : x.terms = <<>>}} :
                i \in {x \in Maker(prog.funcs[f], a) : x.do = "gep"}}

ConstantPlace(prog, f, a) ==
  IF ObjectAt(prog, f, a) # {}
  THEN {[slot |-> SlotsBefore(Objects(prog), k), object |-> k] : k \in ObjectAt(prog, f, a)}
  ELSE UNION {{[p EXCEPT !.slot = @ + s.slots] : p \in ConstantPlace(prog, f, s.from)} :
                s \in FixedSteps(prog, f, a)}

(* planPointerDiffs: a distance in bytes divided by the bytes of a slot,    *)
(* unless that is one instruction already.                                  *)
DividesBySlot(item) ==
  \/ item.do = "sdiv" /\ item.args[2] = Lit(SlotBytes)
  \/ item.do = "ashr" /\ item.args[2] = Lit(3)

DiffOffset(prog, f, item) ==
  IF ~DividesBySlot(item) THEN {}
  ELSE {o \in UNION {InSlots(prog.funcs[f], b) : b \in ByteOffset(prog, f, item.args[1], 1)} :
          \A i \in DOMAIN o.terms : o.terms[i].by = 1}

-----------------------------------------------------------------------------
(* mask.go *)

WholeLit(a) == IsLit(a) /\ a.lit # NaN /\ ~Infinite(a.lit)

RECURSIVE IsTruth(_, _)
IsTruth(fn, a) ==
  \/ Does(fn, a, {"cmp", "trunc"})
  \/ Does(fn, a, {"and", "select"}) /\ IsTruth(fn, MakerOf(fn, a).args[2])

(* truthSelect: the truth value itself, widened. *)
ChoosesTruth(item) == item.do = "select" /\ item.args[2] = Lit(1) /\ item.args[3] = Lit(0)

(* producesOperand *)
HandsBack(item) == item.do \in {"freeze", "zext", "fptosi", "sitofp"} \/ ChoosesTruth(item)

(* coverOf: a bound on a value that is known not to be negative.            *)
RECURSIVE Cover(_, _, _)
Cover(fn, unplaced, a) ==
  LET item == MakerOf(fn, a)
      Of(k) == Cover(fn, unplaced, item.args[k])
  IN  IF IsVal(a) /\ a.val \in unplaced THEN {}
      ELSE IF IsTruth(fn, a) THEN {1}
      ELSE IF WholeLit(a) THEN {Number(a.lit)} \cap Nat
      ELSE IF ~IsVal(a) \/ Maker(fn, a) = {} THEN {}
      ELSE CASE HandsBack(item) -> Of(1)
             [] item.do \in {"and", "icand"} /\ Of(1) \cup Of(2) # {} ->
                  {FSX!Min(Of(1) \cup Of(2))}
             [] item.do = "add"    -> {x + y : x \in Of(1), y \in Of(2)}
             [] item.do = "mul"    -> {x * y : x \in Of(1), y \in Of(2)}
             [] item.do = "select" /\ ~HandsBack(item) ->
                  {FSX!Max({x, y}) : x \in Of(2), y \in Of(3)}
             [] OTHER              -> {}

(* coveredMask: the mask keeps every bit up to the bound's highest.         *)
Covers(mask, bound) ==
  \A k \in 0..(LongBits - 1) : 2 ^ k <= bound => k \in Bits(mask)

(* identityMask *)
Least(S) == {k \in S : \A j \in S : k <= j}

Unmasked(fn, unplaced, item) ==
  {item.args[3 - k] : k \in Least({m \in 1..2 :
     /\ WholeLit(item.args[m])
     /\ \E c \in Cover(fn, unplaced, item.args[3 - m]) : Covers(Number(item.args[m].lit), c)})}

-----------------------------------------------------------------------------
(* The values an item stands for when it makes none of its own: nothing to  *)
(* add, or an index into the object in slot 0.                              *)

SingleTerm(offset) ==
  /\ Len(offset.terms) = 1 /\ offset.fixed = 0
  /\ offset.terms[1].scale = 1 /\ offset.terms[1].by = 1

GepAlias(prog, f, gep, offset) ==
  IF offset.terms = <<>> /\ offset.fixed = 0 THEN {gep.args[1]}
  ELSE IF SingleTerm(offset) /\ \E p \in ConstantPlace(prog, f, gep.args[1]) : p.slot = 0
       THEN {offset.terms[1].value} ELSE {}

AliasOf(prog, f, unplaced, geps, diffs, item) ==
  CASE item.dst \in DOMAIN geps -> GepAlias(prog, f, item, geps[item.dst])
    [] item.dst \in DOMAIN diffs ->
         IF SingleTerm(diffs[item.dst]) THEN {diffs[item.dst].terms[1].value} ELSE {}
    [] item.do \in {"and", "icand"} -> Unmasked(prog.funcs[f], unplaced, item)
    [] HandsBack(item)              -> {item.args[1]}
    [] OTHER                        -> {}

(* absorb, markAbsorbed: how often the address plans took a value apart.    *)
Visits(plans, n) ==
  FSX!MapThenSumSet(LAMBDA p : Cardinality({i \in DOMAIN p.visited : p.visited[i] = Val(n)}),
                    plans)

\* Seeded fault: a value is gone once the walks have counted every read.
KeepEveryAbsorbed(fn, absorbed, absorbers) == absorbed

(* keepSharedTerms: a value an instruction that is selected still reads is  *)
(* selected too.                                                            *)
ReadOutside(fn, n, inside) ==
  \/ \E b \in DOMAIN fn.blocks : Val(n) \in SX!ToSet(fn.blocks[b].term.args)
  \/ \E p \in Phis(fn) : Val(n) \in Arms(p)
  \/ \E i \in Items(fn) : i.dst \notin inside /\ Val(n) \in SX!ToSet(i.args)

KeepSharedTerms(fn, absorbed, absorbers) ==
  SX!FoldLeft(LAMBDA gone, k : {n \in gone : ~ReadOutside(fn, n, gone \cup absorbers)},
              absorbed, [k \in 1..Cardinality(absorbed) |-> k])

Plans(geps, diffs) ==
  {[n |-> n, visited |-> geps[n].visited] : n \in DOMAIN geps}
  \cup {[n |-> n, visited |-> diffs[n].visited] : n \in DOMAIN diffs}

Consumed(fn, plans) ==
  KeepSharedTerms(fn, {i.dst : i \in {x \in Items(fn) : /\ Visits(plans, x.dst) > 0
                                                       /\ Visits(plans, x.dst) = UseCount(fn, x.dst)}},
                  {p.n : p \in plans})

-----------------------------------------------------------------------------
(* What is known of a function before any of it is lowered: the objects of  *)
(* the data region, the pointers with a fixed place, the values that stand  *)
(* for others, the slot arithmetic of the other addresses, and the values   *)
(* that have a register.                                                    *)

(* markFusedCompare: the block's own conditional branch is the only reader. *)
Fused(fn, b, item) ==
  /\ item.do = "cmp" /\ fn.blocks[b].term.kind = "cbr"
  /\ fn.blocks[b].term.args = <<Val(item.dst)>>
  /\ item \in SX!ToSet(fn.blocks[b].items)
  /\ UseCount(fn, item.dst) = 1

Some(S) == CHOOSE x \in S : TRUE

(* What an operator answers for the items it has an answer for, by value.   *)
Tabled(items, Of(_)) ==
  LET answered == {i \in items : Of(i) # {}}
  IN  [n \in {i.dst : i \in answered} |-> Some(Of(Some({i \in answered : i.dst = n})))]

Making(fn) == {i \in Items(fn) : i.dst # 0}
Without(fn, tabled) == {i \in Making(fn) : i.dst \notin tabled}

(* assignValues: from the places, the address arithmetic and the pointer    *)
(* differences that could be planned, and the values that stand for others. *)
PlanFrom(prog, f, unplaced, places, geps, diffs, aliases) ==
  LET fn == prog.funcs[f]
      known == DOMAIN places \cup DOMAIN aliases
      gone == Consumed(fn, Plans(geps, diffs))
  IN  [number    |-> f,
       params    |-> fn.params,
       blocks    |-> fn.blocks,
       objects   |-> [k \in DOMAIN Objects(prog) |-> [start |-> SlotsBefore(Objects(prog), k),
                                                      size |-> Objects(prog)[k].size]],
       places    |-> places,
       aliases   |-> aliases,
       geps      |-> SX!Restrict(geps, DOMAIN geps \ known),
       diffs     |-> SX!Restrict(diffs, DOMAIN diffs \ DOMAIN aliases),
       registers |-> {p.dst : p \in Phis(fn)} \cup SX!ToSet(fn.params)
                     \cup {i.dst : i \in {m \in Without(fn, known) :
                             m.dst \notin gone /\ \A b \in DOMAIN fn.blocks : ~Fused(fn, b, m)}},
       unplaced  |-> unplaced]

(* planAddresses *)
PlanAliases(prog, f, unplaced, places, geps, diffs) ==
  PlanFrom(prog, f, unplaced, places, geps, diffs,
           Tabled(Without(prog.funcs[f], DOMAIN places),
                  LAMBDA i : AliasOf(prog, f, unplaced, geps, diffs, i)))

Planned(prog, f, unplaced) ==
  LET making == Making(prog.funcs[f])
  IN  PlanAliases(prog, f, {p[2] : p \in {q \in unplaced : q[1] = f}},
               Tabled(making, LAMBDA i : ConstantPlace(prog, f, Val(i.dst))),
               Tabled({i \in making : i.do = "gep"}, LAMBDA i : GepOffset(prog, f, i)),
               Tabled(making, LAMBDA i : DiffOffset(prog, f, i)))
=============================================================================
