----------------------------- MODULE Selection ------------------------------
(***************************************************************************)
(* Instruction selection (internal/isel) from LLVM functions to machine    *)
(* blocks.  Every item but a call lowers to the few instructions that do   *)
(* what it does, over the registers and fixed addresses the plan of its    *)
(* function gives.                                                         *)
(***************************************************************************)
EXTENDS Addresses

(* Labels: a block, the split edge between two blocks, a function's exit    *)
(* and the end of the program.                                              *)
BlockLabel(f, b)    == <<f, b>>
EdgeLabel(f, b, s)  == <<f, b, s>>
ExitLabel(f)        == <<f, 0>>
ProgramEnd          == <<0, 0>>
IsEntry(f)          == f = 1
EndLabel(f)         == IF IsEntry(f) THEN ProgramEnd ELSE ExitLabel(f)

-----------------------------------------------------------------------------
(* operand: a literal, a fixed address, or the register of the value it is  *)
(* or stands for.                                                           *)

RECURSIVE Resolved(_, _)
Resolved(fn, a) ==
  IF IsVal(a) /\ a.val \notin DOMAIN fn.places /\ a.val \in DOMAIN fn.aliases
  THEN Resolved(fn, fn.aliases[a.val]) ELSE a

\* The slot of a fixed byte in a global, which comes before other objects.
SlotOf(fn, g, at) == fn.objects[g].start + at \div SlotBytes

\* What an operand is that the backend produced no value for.
Lost == [lost |-> TRUE]

Operand(fn, a) ==
  LET r == Resolved(fn, a)
  IN  CASE IsLit(r)     -> Imm(r.lit)
        [] IsPlace(r)   -> Imm(SlotOf(fn, r.obj, r.at))
        [] IsAddress(r) -> Imm(SlotBytes * SlotOf(fn, r.addr, r.at))
        [] IsVal(r) /\ r.val \in DOMAIN fn.places -> Imm(fn.places[r.val].slot)
        [] IsVal(r) /\ r.val \in fn.registers     -> Virt(r.val)
        [] OTHER        -> Lost

Operands(fn, args) == [i \in DOMAIN args |-> Operand(fn, args[i])]

-----------------------------------------------------------------------------
(* Comparisons: one or two steps the machine has instructions for, how they *)
(* join, and whether the answer is the complement of what was asked.        *)

Swapped == [eq |-> "eq", ne |-> "ne", lt |-> "gt", gt |-> "lt", le |-> "ge", ge |-> "le",
            ult |-> "ugt", ugt |-> "ult", ule |-> "uge", uge |-> "ule"]

SameSign == [ult |-> "lt", ule |-> "le", ugt |-> "gt", uge |-> "ge"]

FloatOpcode == [oeq |-> "eq", une |-> "ne", olt |-> "lt", ole |-> "le", ogt |-> "gt",
                oge |-> "ge"]

NegatedFloat == [ult |-> "oge", ule |-> "ogt", ugt |-> "ole", uge |-> "olt", ueq |-> "one",
                 ord |-> "uno"]

UnsignedRewrite == [ult |-> <<"and", "ge", "lt">>, ule |-> <<"and", "ge", "le">>,
                    ugt |-> <<"or", "lt", "gt">>, uge |-> <<"or", "lt", "ge">>]

NegatedPred == [eq |-> "ne", ne |-> "eq", lt |-> "ge", ge |-> "lt", le |-> "gt", gt |-> "le"]

IsZero(a)        == IsImm(a) /\ (a.imm = 0 \/ a.imm = NegZero)
IsNonNegative(a) == IsImm(a) /\ (a.imm = NegZero \/ a.imm \in Nat)

Step(pred, l, r) == [pred |-> pred, lhs |-> l, rhs |-> r]
StepNaN(l)       == [pred |-> "nan", lhs |-> l, rhs |-> l]
Test(steps, join, negate) == [steps |-> steps, join |-> join, negate |-> negate]

(* A zero goes second, where the forms against zero apply. *)
Direct(pred, l, r, negate) ==
  Test(<<IF IsZero(l) /\ ~IsZero(r) THEN Step(Swapped[pred], r, l) ELSE Step(pred, l, r)>>,
       "one", negate)

FloatTest(pred, l, r) ==
  LET negate == pred \in DOMAIN NegatedFloat
      p == IF negate THEN NegatedFloat[pred] ELSE pred
  IN  CASE p = "one" -> Test(<<Step("lt", l, r), Step("gt", l, r)>>, "or", negate)
        [] p = "uno" -> Test(IF l = r THEN <<StepNaN(l)>> ELSE <<StepNaN(l), StepNaN(r)>>,
                             IF l = r THEN "one" ELSE "or", negate)
        [] OTHER -> Direct(FloatOpcode[p], l, r, negate)

(* An unsigned test of a value against a constant, as two signed ones.      *)
UnsignedTest(pred, l, r) ==
  LET flip == ~IsNonNegative(r) /\ IsNonNegative(l)
      rw == UnsignedRewrite[IF flip THEN Swapped[pred] ELSE pred]
      value == IF flip THEN r ELSE l
      bound == IF flip THEN l ELSE r
  IN  Test(<<Step(rw[2], value, Imm(0)), Step(rw[3], value, bound)>>, rw[1], FALSE)

(* The predicate on the machine: samesign makes an unsigned one signed, and  *)
(* truth values, which LLVM reads as 0 and -1, are ordered the other way.   *)
MachinePred(item) ==
  CASE item.type # "int" /\ item.pred \in DOMAIN SameSign -> SameSign[item.pred]
    [] item.type = "truth" /\ item.pred \in SignedPreds   -> Swapped[item.pred]
    [] OTHER -> item.pred

Comparison(fn, item) ==
  LET l == Operand(fn, item.args[1])
      r == Operand(fn, item.args[2])
      pred == MachinePred(item)
  IN  IF item.type = "float" THEN FloatTest(item.pred, l, r)
      ELSE IF pred \in SignedPreds THEN Direct(pred, l, r, FALSE)
      ELSE UnsignedTest(pred, l, r)

SetStep(step, dst) ==
  CASE step.pred = "nan"  -> Plain("snan", <<dst, step.lhs>>)
    [] step.pred # "nan" /\ IsZero(step.rhs) -> Instr("set0", step.pred, <<dst, step.lhs>>)
    [] OTHER              -> Instr("set", step.pred, <<dst, step.lhs, step.rhs>>)

Materialise(test, dst, left, right) ==
  IF test.join = "one" THEN <<SetStep(test.steps[1], dst)>>
  ELSE <<SetStep(test.steps[1], left), SetStep(test.steps[2], right),
         Plain(test.join, <<dst, left, right>>)>>

(* A register of its own for a step towards value n. *)
Temp(n, k) == Virt(100 * n + k)

(* markSwappedSelect: the only reader is a select that trades its arms, and *)
(* not the truth value itself.                                              *)
SwapsArms(fn, item) ==
  /\ item.type = "float" /\ item.pred \in DOMAIN NegatedFloat
  /\ UseCount(fn, item.dst) = 1
  /\ \E s \in Items(fn) : s.do = "select" /\ s.args[1] = Val(item.dst) /\ ~ChoosesTruth(s)

LowerCompare(fn, item) ==
  LET test == Comparison(fn, item)
      dst == Virt(item.dst)
      Into(d) == Materialise(test, d, Temp(item.dst, 1), Temp(item.dst, 2))
  IN  IF test.negate /\ ~SwapsArms(fn, item)
      THEN Into(Temp(item.dst, 3)) \o <<Instr("set0", "eq", <<dst, Temp(item.dst, 3)>>)>>
      ELSE Into(dst)

BranchStep(step, target) ==
  CASE step.pred = "nan" -> Plain("bnan", <<step.lhs, Label(target)>>)
    [] step.pred # "nan" /\ IsZero(step.rhs) ->
         Instr("br0", step.pred, <<step.lhs, Label(target)>>)
    [] OTHER -> Instr("br", step.pred, <<step.lhs, step.rhs, Label(target)>>)

(* branchPlan: a conjunction leaves for the false side at the first step    *)
(* that fails.                                                              *)
BranchPlan(test, yes, no) ==
  LET taken  == IF test.negate THEN no ELSE yes
      fallen == IF test.negate THEN yes ELSE no
      Leaving(i) == test.join = "and" /\ i < Len(test.steps)
  IN  [i \in DOMAIN test.steps |->
         IF Leaving(i)
         THEN BranchStep([test.steps[i] EXCEPT !.pred = NegatedPred[@]], fallen)
         ELSE BranchStep(test.steps[i], taken)]
      \o <<Plain("j", <<Label(fallen)>>)>>

-----------------------------------------------------------------------------
(* Items *)

LowerSelect(fn, item) ==
  LET swapped == \E c \in Items(fn) : /\ c.do = "cmp" /\ item.args[1] = Val(c.dst)
                                      /\ SwapsArms(fn, c)
      a == Operands(fn, item.args)
  IN  <<Plain("select", IF swapped THEN <<Virt(item.dst), a[1], a[3], a[2]>>
                                   ELSE <<Virt(item.dst), a[1], a[2], a[3]>>)>>

(* Arguments in r0 upward, a result that is read out of r0. *)
LowerDirectCall(fn, item) ==
  [i \in DOMAIN item.args |-> Plain("move", <<Phys(i - 1), Operand(fn, item.args[i])>>)]
  \o <<Plain("jal", <<Label(BlockLabel(item.callee, 1))>>)>>
  \o IF UseCount(fn, item.dst) = 0 THEN <<>>
     ELSE <<Plain("move", <<Virt(item.dst), Phys(0)>>)>>

(* binaryOps *)
BinaryOps == [add |-> "add", sub |-> "sub", mul |-> "mul", and |-> "and", or |-> "or",
              shl |-> "sll", ashr |-> "sra", fadd |-> "add", fsub |-> "sub", fmul |-> "mul",
              fdiv |-> "div", icand |-> "and", icshl |-> "sll"]

LowerXor(dst, a) ==
  LET ones == {i \in 1..2 : a[i] = Imm(-1)}
  IN  IF ones = {} THEN <<Plain("xor", <<dst, a[1], a[2]>>)>>
      ELSE <<Plain("not", <<dst, a[3 - First(ones)]>>)>>

(* A store to a batch of devices writes a register, which a literal is     *)
(* moved to right before.                                                   *)
LowerBatch(a) ==
  IF IsImm(a[2]) THEN <<Plain("move", <<Virt(3000), a[2]>>), Plain("sb", <<a[1], Virt(3000)>>)>>
                 ELSE <<Plain("sb", a)>>

(* The quotient of doubles, truncated; adding zero takes the sign off a     *)
(* negative one.                                                            *)
Truncating(n, a) ==
  <<Plain("div", <<Temp(n, 1), a[1], a[2]>>), Plain("trunc", <<Temp(n, 2), Temp(n, 1)>>)>>

LowerDiv(n, a) == Append(Truncating(n, a), Plain("add", <<Virt(n), Temp(n, 2), Imm(0)>>))

LowerRem(n, a) ==
  Truncating(n, a) \o <<Plain("mul", <<Temp(n, 3), Temp(n, 2), a[2]>>),
                        Plain("sub", <<Virt(n), a[1], Temp(n, 3)>>)>>

-----------------------------------------------------------------------------
(* Address arithmetic *)

Negative(t)  == t.scale < 0
Slots(t)     == IF Negative(t) THEN -t.scale ELSE t.scale

(* scaledTerm: the instructions for term i of value n, and where they leave *)
(* it.                                                                      *)
DividedTerm(fn, n, i, t) == IF t.by = 1 THEN Operand(fn, t.value) ELSE Temp(n, 10 + i)
ScaledTerm(fn, n, i, t)  == IF Slots(t) = 1 THEN DividedTerm(fn, n, i, t) ELSE Temp(n, 20 + i)

Scaling(fn, n, i, t) ==
  (IF t.by = 1 THEN <<>>
   ELSE <<Plain("div", <<Temp(n, 10 + i), Operand(fn, t.value), Imm(t.by)>>)>>)
  \o IF Slots(t) = 1 THEN <<>>
     ELSE <<Plain("mul", <<Temp(n, 20 + i), DividedTerm(fn, n, i, t), Imm(Slots(t))>>)>>

ScalingAll(fn, n, terms) ==
  SX!FlattenSeq([i \in DOMAIN terms |-> Scaling(fn, n, i, terms[i])])

AddressStep(op, operand) == [op |-> op, operand |-> operand]

TermStep(fn, n, i, t) ==
  AddressStep(IF Negative(t) THEN "sub" ELSE "add", ScaledTerm(fn, n, i, t))

AddFixed(fixed) == IF fixed = 0 THEN <<>> ELSE <<AddressStep("add", Imm(fixed))>>

(* accumulate: only the last step writes the register of the value.         *)
Accumulate(n, start, steps) ==
  LET After(i) == IF i = Len(steps) THEN Virt(n) ELSE Temp(n, 30 + i)
      Acc(i) == IF i = 1 THEN start ELSE After(i - 1)
  IN  IF steps = <<>> THEN <<Plain("move", <<Virt(n), start>>)>>
      ELSE [i \in DOMAIN steps |-> Plain(steps[i].op, <<After(i), Acc(i), steps[i].operand>>)]

(* The literal an address starts from once its constant indices are in it.  *)
Folds(base, plan) == IsImm(base) /\ plan.terms # <<>>
Start(base, plan) == IF Folds(base, plan) THEN Imm(base.imm + plan.fixed) ELSE base

LowerGetElementPtr(fn, item) ==
  LET n == item.dst
      plan == fn.geps[n]
      base == Operand(fn, item.args[1])
      start == Start(base, plan)
      steps == [i \in DOMAIN plan.terms |-> TermStep(fn, n, i, plan.terms[i])]
               \o (IF Folds(base, plan) THEN <<>> ELSE AddFixed(plan.fixed))
      rests == start = Imm(0) /\ steps # <<>> /\ steps[1].op = "add"
  IN  ScalingAll(fn, n, plan.terms)
      \o (IF rests THEN Accumulate(n, steps[1].operand, Tail(steps))
                   ELSE Accumulate(n, start, steps))

(* diffSteps: from the first term that is added, or down from the constant. *)
LowerPointerDiff(fn, item) ==
  LET n == item.dst
      plan == fn.diffs[n]
      added == {i \in DOMAIN plan.terms : ~Negative(plan.terms[i])}
      Step_(i) == TermStep(fn, n, i, plan.terms[i])
      others == SelectSeq([i \in DOMAIN plan.terms |-> i],
                          LAMBDA i : added = {} \/ i # First(added))
      steps == [k \in DOMAIN others |-> Step_(others[k])]
  IN  ScalingAll(fn, n, plan.terms)
      \o IF added = {} THEN Accumulate(n, Imm(plan.fixed), steps)
         ELSE Accumulate(n, Step_(First(added)).operand, steps \o AddFixed(plan.fixed))

-----------------------------------------------------------------------------
(* A value without a register of its own has no instructions. *)
Selected(fn, item) == item.dst # 0 => item.dst \in fn.registers

LowerSelected(fn, item) ==
  LET a == Operands(fn, item.args)
      dst == Virt(item.dst)
  IN  CASE item.dst \in DOMAIN fn.diffs   -> LowerPointerDiff(fn, item)
        [] item.dst \in DOMAIN fn.geps    -> LowerGetElementPtr(fn, item)
        [] item.dst \notin DOMAIN fn.diffs /\ item.do \in DOMAIN BinaryOps ->
             <<Plain(BinaryOps[item.do], <<dst, a[1], a[2]>>)>>
        [] item.do = "read"     -> <<Plain("read", <<dst>>)>>
        [] item.do = "write"    -> <<Plain("write", a)>>
        [] item.do = "sleep"    -> <<Plain("sleep", <<>>)>>
        [] item.do = "batch"    -> LowerBatch(a)
        [] item.do = "ictrunc"  -> <<Plain("trunc", <<dst, a[1]>>)>>
        [] item.do = "icabs"    -> <<Plain("abs", <<dst, a[1]>>)>>
        [] item.do = "load"     -> <<Plain("get", <<dst, a[1]>>)>>
        [] item.do = "store"    -> <<Plain("poke", <<a[2], a[1]>>)>>
        [] item.do = "fneg"     -> <<Plain("mul", <<dst, a[1], Imm(-1)>>)>>
        [] item.do = "sext"     -> <<Plain("sub", <<dst, Imm(0), a[1]>>)>>
        [] item.do = "trunc"    -> <<Plain("and", <<dst, a[1], Imm(1)>>)>>
        [] item.do = "ptrtoint" -> <<Plain("mul", <<dst, a[1], Imm(SlotBytes)>>)>>
        [] item.do = "xor"      -> LowerXor(dst, a)
        [] item.do = "sdiv" /\ item.dst \notin DOMAIN fn.diffs -> LowerDiv(item.dst, a)
        [] item.do = "srem"     -> LowerRem(item.dst, a)
        [] item.do = "cmp"      -> LowerCompare(fn, item)
        [] item.do = "select"   -> LowerSelect(fn, item)
        [] item.do = "call"     -> LowerDirectCall(fn, item)

LowerItem(fn, item) == IF Selected(fn, item) THEN LowerSelected(fn, item) ELSE <<>>

LowerParams(fn) ==
  [i \in DOMAIN fn.params |-> Plain("move", <<Virt(fn.params[i]), Phys(i - 1)>>)]

Body(fn, b) ==
  (IF b = 1 THEN LowerParams(fn) ELSE <<>>)
  \o Each(fn.blocks[b].items, LAMBDA i : LowerItem(fn, i))

-----------------------------------------------------------------------------
(* planEdges, lowerPhis *)

(* Successors of a terminator, each once, in the order it names them.       *)
Succs(fn, b) ==
  SX!FoldLeft(LAMBDA seen, s : IF SX!Contains(seen, s) THEN seen ELSE Append(seen, s),
              <<>>, fn.blocks[b].term.targets)

Names(phi, pred) == \E i \in DOMAIN phi.from : phi.from[i][1] = pred

(* Copies at the end of a block are for its only successor; any other edge  *)
(* into phis gets a block of its own.                                       *)
Split(fn, b, s) ==
  /\ \E i \in DOMAIN fn.blocks[s].phis : Names(fn.blocks[s].phis[i], b)
  /\ Len(Succs(fn, b)) > 1

(* The first operand a phi names for the edge, though a switch may name it  *)
(* once for each case.                                                      *)
MoveOnEdge(fn, phi, pred) ==
  LET i == CHOOSE k \in DOMAIN phi.from :
             phi.from[k][1] = pred /\ \A j \in 1..(k - 1) : phi.from[j][1] # pred
  IN  Plain("move", <<Virt(phi.dst), Operand(fn, phi.from[i][2])>>)

MovesOnEdge(fn, b, s) ==
  Each(SelectSeq(fn.blocks[s].phis, LAMBDA p : Names(p, b)),
       LAMBDA p : <<MoveOnEdge(fn, p, b)>>)

InOrder(moves) == \A i, j \in DOMAIN moves : i < j => moves[i].args[1] # moves[j].args[2]

Orders(moves) ==
  {o \in {[i \in DOMAIN moves |-> moves[p[i]]] :
            p \in {q \in [DOMAIN moves -> DOMAIN moves] :
                     \A i, j \in DOMAIN moves : q[i] = q[j] => i = j}} : InOrder(o)}

(* Some sequence with the effect of all moves at once, which is what        *)
(* ParallelCopy shows of sequence; one saved register breaks a cycle.       *)
Sequence(moves, spare) ==
  LET real == SelectSeq(moves, LAMBDA m : m.args[1] # m.args[2])
      home == real[1].args[1]
      FromSpare(m) == IF m.args[2] = home THEN [m EXCEPT !.args[2] = spare] ELSE m
  IN  IF real = <<>> THEN <<>>
      ELSE IF Orders(real) # {} THEN CHOOSE o \in Orders(real) : TRUE
      ELSE <<Plain("move", <<spare, home>>)>>
           \o (CHOOSE o \in Orders([i \in DOMAIN real |-> FromSpare(real[i])]) : TRUE)

Copies(fn, b, s) == Sequence(MovesOnEdge(fn, b, s), Virt(2000 + 10 * b + s))

-----------------------------------------------------------------------------
(* Terminators, layout, frames *)

TargetLabel(fn, f, b, s) ==
  IF Split(fn, b, s) THEN EdgeLabel(f, b, s) ELSE BlockLabel(f, s)

JumpTo(label) == Plain("j", <<Label(label)>>)

LowerBr(fn, f, b, term) ==
  LET To(i) == TargetLabel(fn, f, b, term.targets[i])
      cond == term.args[1]
      test == {i \in SX!ToSet(fn.blocks[b].items) : i.do = "cmp" /\ Fused(fn, b, i)}
  IN  IF ~IsVal(cond) THEN <<JumpTo(To(IF cond.lit # 0 THEN 1 ELSE 2))>>
      ELSE IF test # {} THEN BranchPlan(Comparison(fn, CHOOSE i \in test : TRUE), To(1), To(2))
      ELSE <<Instr("br0", "ne", <<Operand(fn, cond), Label(To(1))>>), JumpTo(To(2))>>

(* Target 1 is the default, target i + 1 that of the i-th case. *)
LowerSwitch(fn, f, b, term) ==
  LET tag == Operand(fn, term.args[1])
      Case(i) == LET to == Label(TargetLabel(fn, f, b, term.targets[i + 1]))
                 IN  IF term.cases[i] = 0 THEN Instr("br0", "eq", <<tag, to>>)
                     ELSE Instr("br", "eq", <<tag, Imm(term.cases[i]), to>>)
  IN  [i \in DOMAIN term.cases |-> Case(i)]
      \o <<JumpTo(TargetLabel(fn, f, b, term.targets[1]))>>

(* A result goes to r0 at the end of the body, before any copies. *)
Result(fn, b) ==
  LET term == fn.blocks[b].term
  IN  IF term.kind = "ret" /\ term.args # <<>>
      THEN <<Plain("move", <<Phys(0), Operand(fn, term.args[1])>>)>> ELSE <<>>

Terminator(fn, f, b) ==
  LET term == fn.blocks[b].term
  IN  CASE term.kind = "br"     -> <<JumpTo(TargetLabel(fn, f, b, term.targets[1]))>>
        [] term.kind = "cbr"    -> LowerBr(fn, f, b, term)
        [] term.kind = "switch" -> LowerSwitch(fn, f, b, term)
        [] term.kind = "ret"    -> <<JumpTo(EndLabel(f))>>

(* assemble: body, copies of the edges that are not split, terminator.  The *)
(* block a return leaves for is an edge if the function holds it.           *)
MainBlock(fn, f, b, isLast) ==
  LET succs == Succs(fn, b)
      whole == SelectSeq(succs, LAMBDA s : ~Split(fn, b, s))
      exits == IF succs = <<>> /\ (IsEntry(f) => isLast) THEN {EndLabel(f)} ELSE {}
  IN  Block(BlockLabel(f, b),
            Body(fn, b) \o Result(fn, b) \o Each(whole, LAMBDA s : Copies(fn, b, s))
              \o Terminator(fn, f, b),
            {TargetLabel(fn, f, b, s) : s \in SX!ToSet(succs)} \cup exits)

EdgeBlock(fn, f, b, s) ==
  Block(EdgeLabel(f, b, s), Append(Copies(fn, b, s), JumpTo(BlockLabel(f, s))),
        {BlockLabel(f, s)})

(* createBlocks: every block followed by its split edges, then the exits.   *)
Assembled(fn, f, isLast) ==
  SX!FlattenSeq([b \in DOMAIN fn.blocks |->
    <<MainBlock(fn, f, b, isLast)>>
    \o Each(SelectSeq(Succs(fn, b), LAMBDA s : Split(fn, b, s)),
            LAMBDA s : <<EdgeBlock(fn, f, b, s)>>)])
  \o (IF IsEntry(f) THEN <<>> ELSE <<Block(ExitLabel(f), <<>>, {})>>)
  \o (IF isLast THEN <<Block(ProgramEnd, <<>>, {})>> ELSE <<>>)

CallsOut(blocks) ==
  \E b \in DOMAIN blocks : \E k \in DOMAIN blocks[b].instrs : blocks[b].instrs[k].op = "jal"

PrependTo(blocks, instr) == [blocks EXCEPT ![1].instrs = <<instr>> \o @]

\* Seeded fault: the return address is saved and never fetched back.
FrameUnbalanced(blocks, f) ==
  LET exit == CHOOSE b \in DOMAIN blocks : blocks[b].label = ExitLabel(f)
      out == [blocks EXCEPT ![exit].instrs = Append(@, JumpRA)]
  IN  IF IsEntry(f) THEN blocks
      ELSE IF CallsOut(blocks) THEN PrependTo(out, Plain("push", <<Phys(RA)>>)) ELSE out

(* frame: a called function returns through ra, and keeps it over calls of  *)
(* its own.                                                                 *)
Frame(blocks, f) ==
  LET exit == CHOOSE b \in DOMAIN blocks : blocks[b].label = ExitLabel(f)
      Leave(instrs) == [blocks EXCEPT ![exit].instrs = @ \o instrs]
  IN  IF IsEntry(f) THEN blocks
      ELSE IF CallsOut(blocks)
           THEN PrependTo(Leave(<<Plain("pop", <<Phys(RA)>>), JumpRA>>),
                          Plain("push", <<Phys(RA)>>))
           ELSE Leave(<<JumpRA>>)

SelectFunction(plans, f) ==
  Frame(DropFallthroughJumps(Assembled(plans[f], f, f = Len(plans))), f)

(* The data region every function's objects make up. *)
RegionSize(fn) == SX!FoldLeft(LAMBDA n, o : n + o.size, 0, fn.objects)

(* prologue: a data region that holds anything starts at zero. *)
Select(plans) ==
  LET code == [f \in DOMAIN plans |-> SelectFunction(plans, f)]
  IN  IF RegionSize(plans[1]) = 0 THEN code
      ELSE [code EXCEPT ![1] = PrependTo(@, Plain("clr", <<>>))]

-----------------------------------------------------------------------------
(* Refusals *)

(* Unsigned tests of two values. *)
ComparisonRefused(fn, item) ==
  /\ item.do = "cmp" /\ item.type # "float" /\ MachinePred(item) \notin SignedPreds
  /\ \A i \in 1..2 : ~IsNonNegative(Operand(fn, item.args[i]))

(* checkConversionRange: a bitwise instruction the optimiser formed over a  *)
(* value that may be an infinity.                                           *)
Formed == {"and", "or", "xor", "shl", "ashr", "trunc"}

RangeRefused(fn, item) ==
  /\ item.do \in Formed /\ Selected(fn, item) /\ item.dst \notin DOMAIN fn.diffs
  /\ \E k \in DOMAIN item.args : IsVal(item.args[k]) /\ item.args[k].val \in fn.unplaced

(* checkOperandConversion: a literal the instruction would not read as the  *)
(* number it names.                                                         *)
LiteralRefused(instr) ==
  \/ /\ instr.op \in {"and", "or", "xor", "not", "sll", "sra"}
     /\ \E k \in 2..Len(instr.args) : IsImm(instr.args[k]) /\ Infinite(instr.args[k].imm)
  \/ /\ instr.op \in {"sll", "sra"} /\ IsImm(instr.args[3])
     /\ (instr.args[3].imm = NaN \/ Number(instr.args[3].imm) \notin 0..MaxDistance)

LiteralsRefused(code) ==
  \E f \in DOMAIN code : \E b \in DOMAIN code[f] : \E k \in DOMAIN code[f][b].instrs :
    LiteralRefused(code[f][b].instrs[k])

(* inMemoryArray *)
OutsideMemory(a) == IsImm(a) /\ a.imm \notin 0..(NumCells - 1)

(* An address that is not a number of slots, or that starts outside memory. *)
GepRefused(fn, item) ==
  /\ item.do = "gep" /\ Selected(fn, item)
  /\ \/ item.dst \notin DOMAIN fn.geps
     \/ LET base == Operand(fn, item.args[1])
        IN  OutsideMemory(base) \/ OutsideMemory(Start(base, fn.geps[item.dst]))

(* inObject: a fixed address is held against the object it comes from.      *)
RECURSIVE OriginOf(_, _)
OriginOf(fn, a) ==
  IF IsPlace(a) THEN {a.obj}
  ELSE IF ~IsVal(a) THEN {}
  ELSE IF a.val \in DOMAIN fn.places THEN {fn.places[a.val].object}
  ELSE IF a.val \in DOMAIN fn.aliases THEN OriginOf(fn, fn.aliases[a.val]) ELSE {}

AccessRefused(fn, item) ==
  /\ item.do \in {"load", "store"}
  /\ LET pointer == SX!Last(item.args)
         at == Operand(fn, pointer)
     IN  \/ OutsideMemory(at)
         \/ /\ IsImm(at)
            /\ \E k \in OriginOf(fn, pointer) :
                 at.imm - fn.objects[k].start \notin 0..(fn.objects[k].size - 1)

(* recursiveFunctions: an alloca has one place for every activation.        *)
Calls(fn) == {i.callee : i \in {x \in Items(fn) : x.do = "call"}}

Recursive(plans, f) ==
  f \in SX!FoldLeft(LAMBDA seen, k : seen \cup UNION {Calls(plans[g]) : g \in seen},
                    Calls(plans[f]), [k \in DOMAIN plans |-> k])

LocalRefused(plans, f) ==
  Recursive(plans, f) /\ \E i \in Items(plans[f]) : i.do = "alloca"

(* checkDataRegion: frames begin past the region. *)
RegionRefused(plans) ==
  \/ RegionSize(plans[1]) > NumCells
  \/ RegionSize(plans[1]) = NumCells /\ \E f \in DOMAIN plans : Calls(plans[f]) # {}

SelectionRefuses(plans) ==
  \/ RegionRefused(plans)
  \/ \E f \in DOMAIN plans :
       \/ LocalRefused(plans, f)
       \/ \E i \in Items(plans[f]) :
            \/ ComparisonRefused(plans[f], i) \/ RangeRefused(plans[f], i)
            \/ GepRefused(plans[f], i) \/ AccessRefused(plans[f], i)
=============================================================================
