------------------------------ MODULE Peephole ------------------------------
(***************************************************************************)
(* internal/peephole, over the allocated program: moves of a register to   *)
(* itself, truth values tested again in place, and branches over a jump.   *)
(***************************************************************************)
EXTENDS MirCode

IsIdentityMove(instr) ==
  /\ instr.op = "move"
  /\ instr.args[1] = instr.args[2]

(* Instructions with an exact negation; a NaN fails both of an ordered pair. *)
Complemented(instr) ==
  \/ instr.op \in {"set", "set0", "br", "br0"} /\ instr.pred \in {"eq", "ne"}
  \/ instr.op \in {"snan", "snanz"}

Opposite == [eq |-> "ne", ne |-> "eq", lt |-> "ge", ge |-> "lt", le |-> "gt", gt |-> "le"]

Complement(instr) ==
  CASE instr.op = "snan"  -> [instr EXCEPT !.op = "snanz"]
    [] instr.op = "snanz" -> [instr EXCEPT !.op = "snan"]
    [] OTHER              -> [instr EXCEPT !.pred = Opposite[@]]

AnswersTruth(instr) == instr.op \in {"set", "set0", "snan", "snanz"}

(* seqz d d asks for the negation of d, snez d d for d itself.               *)
Retests(instr) ==
  instr.op = "set0" /\ instr.pred \in {"eq", "ne"} /\ IsPhys(instr.args[2])

RetestsInPlace(def, test) ==
  /\ Retests(test)
  /\ AnswersTruth(def) /\ (test.pred = "eq" => Complemented(def))
  /\ test.args[1] = def.args[1] /\ test.args[2] = def.args[1]

(* The definition that was kept last takes the negation in.                  *)
FoldRetests(instrs) ==
  LET Keep(kept, instr) ==
        IF kept # <<>> /\ RetestsInPlace(SX!Last(kept), instr)
        THEN IF instr.pred = "eq"
             THEN [kept EXCEPT ![Len(kept)] = Complement(@)] ELSE kept
        ELSE Append(kept, instr)
  IN  SX!FoldLeft(Keep, <<>>, instrs)

CleanBlock(block) ==
  [block EXCEPT !.instrs = FoldRetests(SelectSeq(@, LAMBDA i : ~IsIdentityMove(i)))]

(* A block ending in a branch to what follows it and a jump elsewhere.       *)
BranchesOver(blocks, i) ==
  LET code == blocks[i].instrs
      n == Len(code)
  IN  /\ n >= 2
      /\ code[n].op = "j" /\ LabelsOf(code[n]) # {}
      /\ code[n - 1].op \in {"br", "br0"} /\ Complemented(code[n - 1])
      /\ \E l \in LabelsOf(code[n - 1]) : FallsThroughTo(blocks, i, l)

(* The branch is turned round and takes the jump's target.                   *)
Inverted(block) ==
  LET n == Len(block.instrs)
      branch == block.instrs[n - 1]
      turned == [Complement(branch) EXCEPT !.args[Len(branch.args)] = block.instrs[n].args[1]]
  IN  [block EXCEPT !.instrs = Append(SubSeq(@, 1, n - 2), turned)]

InvertBranches(blocks) ==
  SX!FoldLeft(LAMBDA bs, i : IF BranchesOver(bs, i) THEN [bs EXCEPT ![i] = Inverted(@)] ELSE bs,
              blocks, [i \in DOMAIN blocks |-> i])

(* Run *)
PeepholeRun(blocks) ==
  InvertBranches(DropFallthroughJumps([b \in DOMAIN blocks |-> CleanBlock(blocks[b])]))
=============================================================================
