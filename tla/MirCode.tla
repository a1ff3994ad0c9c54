------------------------------ MODULE MirCode -------------------------------
(***************************************************************************)
(* The machine IR with its instructions (internal/mir): blocks in layout   *)
(* order, the labels their branches name, the successor edges liveness     *)
(* reads, and the passes over them that live in the package: dropping      *)
(* jumps to what comes next, materialising literals the chip cannot read,  *)
(* validation and the check of the first line.                             *)
(*                                                                         *)
(* Opcodes are kept in families: "set" and "br" with a predicate stand for *)
(* seq, slt, ..., beq, blt, ..., and "set0", "br0" for the forms against   *)
(* zero, so set0 with eq is seqz.                                          *)
(***************************************************************************)
EXTENDS Doubles, Sequences

SX == INSTANCE SequencesExt

(* Operands *)
Virt(id)  == [virt |-> id]
Phys(r)   == [phys |-> r]
Imm(v)    == [imm |-> v]
Label(l)  == [label |-> l]

IsVirt(a)  == "virt" \in DOMAIN a
IsPhys(a)  == "phys" \in DOMAIN a
IsReg(a)   == IsVirt(a) \/ IsPhys(a)
IsImm(a)   == "imm" \in DOMAIN a
IsLabel(a) == "label" \in DOMAIN a

Instr(op, pred, args) == [op |-> op, pred |-> pred, args |-> args]
Plain(op, args)       == Instr(op, "", args)

(* sp and ra follow the general registers r0..r15. *)
SP == 16
RA == 17
JumpRA == Plain("j", <<Phys(RA)>>)

(* Instructions whose first operand is the register they assign. *)
Assigning ==
  {"read", "move", "set", "set0", "snan", "snanz", "select", "and", "or", "xor", "not", "sll",
   "sra", "add", "sub", "mul", "div", "trunc", "abs", "get", "pop"}

Writes(instr) == instr.op \in Assigning

(* The operands an instruction reads. *)
ReadArgs(instr) == IF Writes(instr) THEN Tail(instr.args) ELSE instr.args

RegsIn(args) == {args[i] : i \in {k \in DOMAIN args : IsReg(args[k])}}

(* A block of machine code: its label, instructions and successor labels.   *)
Block(label, instrs, succs) == [label |-> label, instrs |-> instrs, succs |-> succs]

-----------------------------------------------------------------------------
(* cfg.go *)

(* Opcodes whose label is a place control can reach; jal is not one, for    *)
(* control comes back to the line after it.                                 *)
Branches == {"j", "br", "br0", "bnan"}

LabelsOf(instr) == {a.label : a \in {instr.args[i] : i \in {k \in DOMAIN instr.args :
                                                          IsLabel(instr.args[k])}}}

EndsFlow(instr) == instr.op = "j"

(* The instructions control can reach: up to the first j. *)
UpToJump(block) ==
  LET jumps == {i \in DOMAIN block.instrs : EndsFlow(block.instrs[i])}
  IN  {i \in DOMAIN block.instrs : \A j \in jumps : i <= j}

BlockExits(block) ==
  [targets |-> UNION {LabelsOf(block.instrs[i]) :
                        i \in {k \in UpToJump(block) : block.instrs[k].op \in Branches}},
   falls   |-> \A i \in DOMAIN block.instrs : ~EndsFlow(block.instrs[i])]

Holding(blocks, index) == {k \in (index + 1)..Len(blocks) : blocks[k].instrs # <<>>}

\* The first of a nonempty set of positions.
First(S) == CHOOSE k \in S : \A j \in S : k <= j

(* The blocks control falling out of a block can be said to arrive at: those *)
(* after it up to the first that holds an instruction.                      *)
FallthroughChain(blocks, index) ==
  IF Holding(blocks, index) = {} THEN {} ELSE (index + 1)..First(Holding(blocks, index))

FallsThroughTo(blocks, index, label) ==
  \E k \in (index + 1)..Len(blocks) :
    /\ blocks[k].label = label
    /\ \A j \in (index + 1)..(k - 1) : blocks[j].instrs = <<>>

WithoutLast(block) == [block EXCEPT !.instrs = SX!Front(@)]

EndsInJumpTo(block, label) ==
  block.instrs # <<>> /\ SX!Last(block.instrs) = Plain("j", <<Label(label)>>)

DropJump(blocks, i) ==
  IF \E l \in LabelsOf(SX!Last(blocks[i].instrs)) :
       EndsInJumpTo(blocks[i], l) /\ FallsThroughTo(blocks, i, l)
  THEN [blocks EXCEPT ![i] = WithoutLast(@)] ELSE blocks

\* Seeded fault: from the first block to the last.
DropFallthroughJumpsForward(blocks) ==
  SX!FoldLeft(LAMBDA bs, i : IF bs[i].instrs = <<>> THEN bs ELSE DropJump(bs, i),
              blocks, [i \in DOMAIN blocks |-> i])

(* From the last block to the first, so that a block emptied on the way lets *)
(* the one before it fall through.                                          *)
DropFallthroughJumps(blocks) ==
  SX!FoldRight(LAMBDA i, bs : IF bs[i].instrs = <<>> THEN bs ELSE DropJump(bs, i),
               [i \in DOMAIN blocks |-> i], blocks)

-----------------------------------------------------------------------------
(* Validate, over a whole program: a sequence of functions' blocks.         *)

AllBlocks(prog) == SX!FlattenSeq(prog)

RegsOf(blocks) ==
  UNION {UNION {RegsIn(blocks[b].instrs[k].args) : k \in DOMAIN blocks[b].instrs} :
           b \in DOMAIN blocks}

(* RegForm: the graph is held against the code until every register is      *)
(* physical.                                                                *)
CheckEdges(blocks) == \E a \in RegsOf(blocks) : IsVirt(a)

LabelsIn(blocks) == {blocks[b].label : b \in DOMAIN blocks}

DuplicateLabel(prog) ==
  LET all == AllBlocks(prog)
  IN  \E i, j \in DOMAIN all : i # j /\ all[i].label = all[j].label

(* An edge the code takes and Succs leaves out.  A target in another        *)
(* function is not an edge.                                                 *)
MissingEdge(blocks, b) ==
  LET exits == BlockExits(blocks[b])
      chain == FallthroughChain(blocks, b)
  IN  \/ \E l \in exits.targets \cap LabelsIn(blocks) : l \notin blocks[b].succs
      \/ /\ exits.falls /\ chain # {}
         /\ \A c \in chain : blocks[c].label \notin blocks[b].succs

Validates(prog) ==
  /\ prog # <<>> /\ \A f \in DOMAIN prog : prog[f] # <<>>
  /\ ~DuplicateLabel(prog)
  /\ \A f \in DOMAIN prog :
       /\ \A b \in DOMAIN prog[f] : prog[f][b].succs \subseteq LabelsIn(prog[f])
       /\ CheckEdges(prog[f]) => \A b \in DOMAIN prog[f] : ~MissingEdge(prog[f], b)

(* CheckPlacement: an instruction that misbehaves on the first line.        *)
FirstLineHazard == {"sleep"}

PlacementRefused(prog) ==
  LET held == {b \in DOMAIN AllBlocks(prog) : AllBlocks(prog)[b].instrs # <<>>}
  IN  held # {} /\ AllBlocks(prog)[First(held)].instrs[1].op \in FirstLineHazard

-----------------------------------------------------------------------------
(* materialise.go *)

Unreadable == {NaN, NegZero}

HoldsUnreadable(a) == IsImm(a) /\ a.imm \in Unreadable

(* The arithmetic that makes the value: 0 / 0 and 0 * -1.                   *)
Compute(dst, value) ==
  IF value = NaN THEN Plain("div", <<dst, Imm(0), Imm(0)>>)
                 ELSE Plain("mul", <<dst, Imm(0), Imm(-1)>>)

MovesUnreadable(instr) == instr.op = "move" /\ HoldsUnreadable(instr.args[2])

(* The distinct values to compute, in the order the operands name them.     *)
Remedies(instr) ==
  SX!FoldLeft(LAMBDA seen, a : IF HoldsUnreadable(a) /\ ~SX!Contains(seen, a.imm)
                               THEN Append(seen, a.imm) ELSE seen, <<>>, instr.args)

Replaced(instr, value, temp) ==
  [instr EXCEPT !.args = [i \in DOMAIN @ |-> IF @[i] = Imm(value) THEN temp ELSE @[i]]]

\* Seeded fault: the register of the first remedy stands for every other.
MaterialisedAsFirst(instr, fresh) ==
  IF MovesUnreadable(instr) THEN <<Compute(instr.args[1], instr.args[2].imm)>>
  ELSE LET needed == Remedies(instr)
           Replace(in, i) == Replaced(in, needed[i], Virt(fresh))
       IN  IF needed = <<>> THEN <<instr>>
           ELSE <<Compute(Virt(fresh), needed[1])>>
                \o <<SX!FoldLeft(Replace, instr, [i \in DOMAIN needed |-> i])>>

(* What an instruction becomes; fresh numbers registers no other uses.      *)
Materialised(instr, fresh) ==
  IF MovesUnreadable(instr) THEN <<Compute(instr.args[1], instr.args[2].imm)>>
  ELSE LET needed == Remedies(instr)
           Replace(in, i) == Replaced(in, needed[i], Virt(fresh + i - 1))
       IN  [i \in DOMAIN needed |-> Compute(Virt(fresh + i - 1), needed[i])]
           \o <<SX!FoldLeft(Replace, instr, [i \in DOMAIN needed |-> i])>>

(* Fresh registers are numbered by the place that asks for them.            *)
FreshAt(b, k) == 1000 + 100 * b + 10 * k

MaterialiseUnreadable(blocks) ==
  [b \in DOMAIN blocks |->
     [blocks[b] EXCEPT !.instrs =
        SX!FlattenSeq([k \in DOMAIN @ |-> Materialised(@[k], FreshAt(b, k))])]]

(* checkMaterialised *)
StillUnreadable(blocks) ==
  \E b \in DOMAIN blocks : \E k \in DOMAIN blocks[b].instrs :
    \E i \in DOMAIN blocks[b].instrs[k].args : HoldsUnreadable(blocks[b].instrs[k].args[i])
=============================================================================
