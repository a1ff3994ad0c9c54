------------------------------ MODULE Lowering -------------------------------
(***************************************************************************)
(* internal/irgen: a function body becomes a graph of basic blocks, with a *)
(* slot for every local, and the functions it calls spliced in.            *)
(*                                                                         *)
(* A block is a sequence of instructions; its terminator, once written, is *)
(* the last of them.  An instruction's value is named by its place, <<b,   *)
(* i>>.  The generator g is the graph so far and what the builder knows:   *)
(* the block it writes to, whether that block is terminated, the targets   *)
(* of break, continue and return, and the value of the last expression.    *)
(***************************************************************************)
EXTENDS Statements

Fresh == [blocks |-> << <<>> >>, zeroed |-> {}, at |-> 1, terminated |-> FALSE,
          value |-> <<>>, breaks |-> <<>>, continues |-> <<>>, frames |-> <<>>]

Local(v) == <<v, 0>>                  \* the slot of a symbol
ResultOf(block) == <<"result", block>> \* the slot a spliced call returns through

Emit(g, instr) ==
  [g EXCEPT !.blocks[g.at] = Append(@, instr), !.value = <<g.at, Len(g.blocks[g.at]) + 1>>]

NewBlock(g)  == [g EXCEPT !.blocks = Append(@, <<>>)]
NewBlocks(g, n) == [g EXCEPT !.blocks = @ \o [i \in 1..n |-> <<>>]]
LastBlock(g) == Len(g.blocks)
SetBlock(g, b) == [g EXCEPT !.at = b, !.terminated = FALSE]

Terminate(g, instr) == IF g.terminated THEN g ELSE [Emit(g, instr) EXCEPT !.terminated = TRUE]

Br(g, to)               == Terminate(g, [op |-> "br", to |-> to])
CondBr(g, val, yes, no) == Terminate(g, [op |-> "cbr", val |-> val, yes |-> yes, no |-> no])

(* Gen lowers one node: a statement, an expression for its value, an        *)
(* expression for its truth, or a branch on one.                            *)
RECURSIVE Gen(_, _)

TruthOf(x)              == [k |-> "truth", x |-> x]
BranchOn(g, x, yes, no) == Gen(g, [k |-> "branch", x |-> x, yes |-> yes, no |-> no])

-----------------------------------------------------------------------------
(* Conditions (cond.go) *)

(* logical: && and || read as a value. *)
Logical(g, x) ==
  LET lhs   == Gen(g, TruthOf(x.x))
      open  == NewBlocks(lhs, 2)
      rhs   == LastBlock(open) - 1
      merge == LastBlock(open)
      short == x.k = "or"
      right == Gen(SetBlock(CondBr(open, lhs.value, IF short THEN merge ELSE rhs,
                                                    IF short THEN rhs ELSE merge), rhs),
                   TruthOf(x.y))
  IN  Emit(SetBlock(Br(right, merge), merge),
           [op |-> "phi", from |-> <<[block |-> lhs.at, n |-> IF short THEN 1 ELSE 0],
                                     [block |-> right.at, val |-> right.value]>>])

(* cond *)
Truth(g, x) ==
  CASE x.k = "bool" -> Emit(g, [op |-> "const", n |-> x.n])
    [] x.k \in {"and", "or"} -> Logical(g, x)
    [] x.k = "ne" -> Gen(g, x)
    [] x.k = "not" -> LET v == Gen(g, x.x) IN Emit(v, [op |-> "isZero", val |-> v.value])
    [] OTHER -> LET v == Gen(g, x) IN Emit(v, [op |-> "isNonZero", val |-> v.value])

(* condBranch *)
CondBranch(g, x, yes, no) ==
  CASE x.k = "bool" -> Br(g, IF x.n # 0 THEN yes ELSE no)
    [] x.k \in {"and", "or"} ->
         LET open == NewBlock(g)
             rhs  == LastBlock(open)
             left == IF x.k = "and" THEN BranchOn(open, x.x, rhs, no)
                     ELSE BranchOn(open, x.x, yes, rhs)
         IN  BranchOn(SetBlock(left, rhs), x.y, yes, no)
    [] x.k = "not" -> BranchOn(g, x.x, no, yes)
    [] OTHER -> LET c == Gen(g, TruthOf(x)) IN CondBr(c, c.value, yes, no)

CondExpr(g, x) ==
  LET open  == NewBlocks(g, 3)
      then  == LastBlock(open) - 2
      els   == LastBlock(open) - 1
      merge == LastBlock(open)
      one   == Gen(SetBlock(BranchOn(open, x.c, then, els), then), x.x)
      two   == Gen(SetBlock(Br(one, merge), els), x.y)
  IN  Emit(SetBlock(Br(two, merge), merge),
           [op |-> "phi", from |-> <<[block |-> one.at, val |-> one.value],
                                     [block |-> two.at, val |-> two.value]>>])

-----------------------------------------------------------------------------
(* Calls (call.go), assignments, comparisons *)

(* inlineCall: a return stores through the result slot and goes to cont.    *)
InlineCall(g, x) ==
  LET arg   == Gen(g, x.x)
      bound == IF x.fn.param = {} THEN arg
               ELSE Emit(arg, [op |-> "store", slot |-> Local(CHOOSE p \in x.fn.param : TRUE),
                               val |-> arg.value])
      open  == NewBlock(bound)
      cont  == LastBlock(open)
      slot  == IF x.fn.result THEN {ResultOf(cont)} ELSE {}
      inner == [open EXCEPT !.breaks = <<>>, !.continues = <<>>,
                            !.frames = Append(@, [slot |-> slot, to |-> cont])]
      body  == Br(Gen(inner, x.fn.body), cont)
      after == SetBlock([body EXCEPT !.breaks = g.breaks, !.continues = g.continues,
                                     !.frames = g.frames], cont)
  IN  IF x.fn.result THEN Emit(after, [op |-> "load", slot |-> ResultOf(cont)]) ELSE after

LowerAssign(g, x) ==
  LET v == Gen(g, x.x)
  IN  [Emit(v, [op |-> "store", slot |-> Local(x.v), val |-> v.value]) EXCEPT !.value = v.value]

Compare(g, x) ==
  LET l == Gen(g, x.x)
      r == Gen(l, x.y)
  IN  Emit(r, [op |-> "differ", val |-> l.value, other |-> r.value])

LowerTell(g, x) ==
  LET v == Gen(g, x.x) IN Emit(v, [op |-> "tell", val |-> v.value])

-----------------------------------------------------------------------------
(* Statements (stmt.go) *)

LowerList(g, list) == FoldLeft(LAMBDA h, s : Gen(h, s), g, list)

(* zeroUnwritten: memory is zeroed once, on entry. *)
LowerDecl(g, s) ==
  IF s.x = Absent
  THEN IF s.register THEN g ELSE [g EXCEPT !.zeroed = @ \cup {Local(s.v)}]
  ELSE LET v == Gen(g, s.x)
       IN  Emit(v, [op |-> "store", slot |-> Local(s.v), val |-> v.value])

LowerIf(g, s) ==
  LET open  == NewBlocks(g, IF s.els = Absent THEN 2 ELSE 3)
      then  == LastBlock(g) + 1
      merge == LastBlock(open)
      els   == IF s.els = Absent THEN merge ELSE then + 1
      one   == Br(Gen(SetBlock(BranchOn(open, s.c, then, els), then), s.then), merge)
      two   == Br(Gen(SetBlock(one, els), s.els), merge)
  IN  SetBlock(IF s.els = Absent THEN one ELSE two, merge)

(* The body of a loop, between pushLoop and popLoop, and the jump after it. *)
LowerBody(g, s, body, end, cont) ==
  LET inner == Gen([SetBlock(g, body) EXCEPT !.breaks = Append(@, end),
                                                   !.continues = Append(@, cont)], s.body)
  IN  Br([inner EXCEPT !.breaks = g.breaks, !.continues = g.continues], cont)

LowerWhile(g, s) ==
  LET open == NewBlocks(g, 3)
      head == LastBlock(g) + 1
      body == LastBlock(g) + 2
      end  == LastBlock(g) + 3
      test == BranchOn(SetBlock(Br(open, head), head), s.c, body, end)
  IN  SetBlock(LowerBody(test, s, body, end, head), end)

\* Seeded fault: continue goes back to the body without testing.
LowerDoUntested(g, s) ==
  LET open == NewBlocks(g, 3)
      body == LastBlock(g) + 1
      test == LastBlock(g) + 2
      end  == LastBlock(g) + 3
      loop == LowerBody(Br(open, body), s, body, end, body)
  IN  SetBlock(BranchOn(SetBlock(loop, test), s.c, body, end), end)

LowerDo(g, s) ==
  LET open == NewBlocks(g, 3)
      body == LastBlock(g) + 1
      test == LastBlock(g) + 2
      end  == LastBlock(g) + 3
      loop == LowerBody(Br(open, body), s, body, end, test)
  IN  SetBlock(BranchOn(SetBlock(loop, test), s.c, body, end), end)

LowerFor(g, s) ==
  LET init == Gen(g, s.init)
      open == NewBlocks(init, 4)
      head == LastBlock(init) + 1
      body == LastBlock(init) + 2
      post == LastBlock(init) + 3
      end  == LastBlock(init) + 4
      at   == SetBlock(Br(open, head), head)
      test == IF s.c = Absent THEN Br(at, body) ELSE BranchOn(at, s.c, body, end)
      loop == LowerBody(test, s, body, end, post)
  IN  SetBlock(Br(Gen(SetBlock(loop, post), s.post), head), end)

(* switchStmt and dispatchOnDoubles: a test per label, then the arms.       *)
LowerSwitch(g, s) ==
  LET tag   == Gen(g, s.tag)
      end   == LastBlock(tag) + 1
      Holds(i) == ~Empty(s.arms[i])
      open  == NewBlocks(tag, 1 + Cardinality({i \in DOMAIN s.arms : Holds(i)}))
      BlockOf(i) == end + Cardinality({j \in 1..i : Holds(j)})
      Target(i) ==
        LET below == SelectInSeq(SubSeq(s.arms, i, Len(s.arms)), LAMBDA arm : ~Empty(arm))
        IN  IF below = 0 THEN end ELSE BlockOf(i + below - 1)
      default == SelectInSeq(s.arms, LAMBDA arm : arm.label = {})
      Test(h, i) ==
        IF s.arms[i].label = {} THEN h
        ELSE LET hit == Emit(h, [op |-> "is", val |-> tag.value,
                                 n |-> CHOOSE n \in s.arms[i].label : TRUE])
                 next == NewBlock(hit)
             IN  SetBlock(CondBr(next, hit.value, Target(i), LastBlock(next)), LastBlock(next))
      sent  == Br(FoldLeft(Test, open, [i \in DOMAIN s.arms |-> i]),
                  IF default = 0 THEN end ELSE Target(default))
      Arm(h, i) ==
        IF ~Holds(i) THEN h ELSE Br(Gen(SetBlock(h, BlockOf(i)), s.arms[i].body), end)
      arms  == FoldLeft(Arm, [sent EXCEPT !.breaks = Append(@, end)], [i \in DOMAIN s.arms |-> i])
  IN  SetBlock([arms EXCEPT !.breaks = g.breaks], end)

\* Seeded fault: a return in a spliced body leaves the caller as well.
LowerReturnOutermost(g, s) ==
  LET v == Gen(g, s.x) IN Br(v, g.frames[1].to)

LowerReturn(g, s) ==
  LET frame == Last(g.frames)
      v     == Gen(g, s.x)
      kept  == IF s.x = Absent \/ frame.slot = {} THEN v
               ELSE Emit(v, [op |-> "store", slot |-> CHOOSE r \in frame.slot : TRUE,
                             val |-> v.value])
  IN  Br(kept, frame.to)

LowerExpr(g, x) ==
  CASE x.k \in {"bool", "lit"} -> Emit(g, [op |-> "const", n |-> x.n])
    [] x.k = "ask"  -> Emit(g, [op |-> "ask", n |-> x.n])
    [] x.k = "tell" -> LowerTell(g, x)
    [] x.k = "var"  -> Emit(g, [op |-> "load", slot |-> Local(x.v)])
    [] x.k = "set"  -> LowerAssign(g, x)
    [] x.k = "ne"   -> Compare(g, x)
    [] x.k = "truth" -> Truth(g, x.x)
    [] x.k = "branch" -> CondBranch(g, x.x, x.yes, x.no)
    [] x.k \in {"and", "or", "not"} -> Gen(g, TruthOf(x))
    [] x.k = "cond" -> CondExpr(g, x)
    [] x.k = "call" -> InlineCall(g, x)
    [] OTHER -> g

LowerStmt(g, s) ==
  CASE s.k = "block"    -> LowerList(g, s.stmts)
    [] s.k = "decl"     -> LowerDecl(g, s)
    [] s.k = "expr"     -> Gen(g, s.x)
    [] s.k = "if"       -> LowerIf(g, s)
    [] s.k = "while"    -> LowerWhile(g, s)
    [] s.k = "do"       -> LowerDo(g, s)
    [] s.k = "for"      -> LowerFor(g, s)
    [] s.k = "switch"   -> LowerSwitch(g, s)
    [] s.k = "break"    -> Br(g, Last(g.breaks))
    [] s.k = "continue" -> Br(g, Last(g.continues))
    [] s.k = "return"   -> LowerReturn(g, s)

IsStatement(node) ==
  node.k \in {"block", "decl", "expr", "if", "while", "do", "for", "switch",
               "break", "continue", "return"}

\* Seeded fault: a statement after a jump is written too.
GenUndropped(g, node) == IF IsStatement(node) THEN LowerStmt(g, node) ELSE LowerExpr(g, node)

(* A statement that follows a terminator in its block is dropped. *)
Gen(g, node) ==
  IF ~IsStatement(node) THEN LowerExpr(g, node)
  ELSE IF g.terminated THEN g ELSE LowerStmt(g, node)

(* define, of main: its body, and the block every return goes to.           *)
Lower(fn) ==
  LET open == [NewBlock(Fresh) EXCEPT !.frames = <<[slot |-> {}, to |-> 2]>>]
  IN  Emit(SetBlock(Br(Gen(open, fn.body), 2), 2), [op |-> "ret"])

-----------------------------------------------------------------------------
Terminators == {"br", "cbr", "ret"}

TargetsOf(instr) ==
  CASE instr.op = "br" -> {instr.to} [] instr.op = "cbr" -> {instr.yes, instr.no} [] OTHER -> {}

(* What LLVM's verifier asks: a block ends in its only terminator, and a    *)
(* phi has a value for each block that reaches it.                          *)
Verified(blocks) ==
  \A b \in DOMAIN blocks :
    LET code == blocks[b]
        reaching == {c \in DOMAIN blocks : b \in TargetsOf(Last(blocks[c]))}
    IN  /\ code # <<>>
        /\ \A i \in DOMAIN code : code[i].op \in Terminators <=> i = Len(code)
        /\ \A i \in DOMAIN code : code[i].op = "phi" =>
             reaching = {code[i].from[j].block : j \in DOMAIN code[i].from}
=============================================================================
