----------------------------- MODULE Statements ------------------------------
(***************************************************************************)
(* What sema decides about a function body before it is lowered: that each *)
(* jump has something to leave, that no switch arm runs into the next,     *)
(* that a result is returned on every path, and that every local held in a *)
(* register is assigned before it is read.                                 *)
(*                                                                         *)
(* Statements and expressions are records told apart by the field k.  Of   *)
(* an expression is kept what reads, writes, branches, calls a function,   *)
(* or shows on the machine: "ask" is an instruction that reads the outside *)
(* and "tell" one that writes to it.  What is computed by descending a     *)
(* tree is a function over the nodes; the operator that says what it is at *)
(* one node has the function itself as its first argument.                 *)
(***************************************************************************)
EXTENDS Integers, Sequences, FiniteSets, SequencesExt, Functions

CONSTANTS
  Names,     \* the symbols of locals and parameters
  Levels     \* the nodes, in sets: what a node is made of comes in an earlier one

Nodes == UNION Range(Levels)

Absent == [k |-> "absent"]        \* an else, an init, a condition left out

IsLoop(s) == s.k \in {"while", "do", "for"}

(* What a node is made of, in the order it is written. *)
Parts(x) ==
  CASE x.k \in {"decl", "expr", "return", "set", "tell", "not", "call"} -> <<x.x>>
    [] x.k \in {"ne", "and", "or"} -> <<x.x, x.y>>
    [] x.k = "cond"   -> <<x.c, x.x, x.y>>
    [] x.k = "block"  -> x.stmts
    [] x.k = "if"     -> <<x.c, x.then, x.els>>
    [] x.k = "while"  -> <<x.c, x.body>>
    [] x.k = "do"     -> <<x.body, x.c>>
    [] x.k = "for"    -> <<x.init, x.c, x.post, x.body>>
    [] x.k = "switch" -> <<x.tag>> \o [i \in DOMAIN x.arms |-> x.arms[i].body]
    [] OTHER          -> <<>>

Blocks == {x \in Nodes : x.k = "block"}

(* A label is {} for default; the statements of an arm make a block.       *)
Shaped(x) ==
  /\ x.k \in {"var", "set", "decl"} => x.v \in Names
  /\ x.k = "decl" => x.register \in BOOLEAN
  /\ x.k = "for" => x.init.k \in {"decl", "expr", "absent"}
  /\ x.k = "switch" => x.arms \in Seq([label : SUBSET Int, body : Blocks])
  /\ Parts(x) \in Seq(Nodes)

(* A function that can reach itself by calls is not spliced in.            *)
ASSUME NodesAssumption ==
  LET levels == Levels
  IN  /\ levels \in Seq(SUBSET Nodes)
      /\ \A n \in DOMAIN levels :
           LET earlier == UNION {levels[m] : m \in 1..(n - 1)}
           IN  \A x \in levels[n] :
                 /\ Shaped(x)
                 /\ Range(Parts(x)) \subseteq earlier
                 /\ x.k = "call" => x.fn.body \in earlier

(* A node and all it is made of, not what it calls. *)
InsideBy(inside, x) == {x} \cup UNION {inside[p] : p \in Range(Parts(x))}

Inside[x \in Nodes] == InsideBy(Inside, x)

Declared(x) == {y.v : y \in {z \in Inside[x] : z.k = "decl"}}
Named(x)    == {y.v : y \in {z \in Inside[x] : z.k \in {"decl", "var", "set"}}}

(* isAlwaysTrue, of conditions that are literals. *)
AlwaysTrue(x) == x.k = "absent" \/ (x.k \in {"bool", "lit"} /\ x.n # 0)

Empty(arm) == arm.body.stmts = <<>>

HasDefault(s) == \E i \in DOMAIN s.arms : s.arms[i].label = {}

-----------------------------------------------------------------------------
(* reach.go *)

(* jumpsOut: the jumps bound to the construct s is the body of. *)
JumpsOutBy(out, s) ==
  ({s.k} \cap {"break", "continue"})
  \cup (IF s.k \in {"block", "if", "switch"}
        THEN (UNION {out[p] : p \in Range(Parts(s))}) \ (IF s.k = "switch" THEN {"break"} ELSE {})
        ELSE {})

JumpsOut[s \in Nodes] == JumpsOutBy(JumpsOut, s)

TerminatesList(ends, list) == \E i \in DOMAIN list : ends[list[i]]

DoTerminates(ends, s) ==
  /\ "break" \notin JumpsOut[s.body]
  /\ AlwaysTrue(s.c) \/ (ends[s.body] /\ "continue" \notin JumpsOut[s.body])

SwitchTerminates(ends, s) ==
  /\ s.arms # <<>>
  /\ HasDefault(s)
  /\ ~Empty(s.arms[Len(s.arms)])
  /\ \A i \in DOMAIN s.arms :
       /\ "break" \notin JumpsOut[s.arms[i].body]
       /\ Empty(s.arms[i]) \/ ends[s.arms[i].body]

TerminatesBy(ends, s) ==
  CASE s.k \in {"return", "break", "continue"} -> TRUE
    [] s.k = "block" -> TerminatesList(ends, s.stmts)
    [] s.k = "if" -> s.els # Absent /\ ends[s.then] /\ ends[s.els]
    [] s.k \in {"while", "for"} -> AlwaysTrue(s.c) /\ "break" \notin JumpsOut[s.body]
    [] s.k = "do" -> DoTerminates(ends, s)
    [] s.k = "switch" -> SwitchTerminates(ends, s)
    [] OTHER -> FALSE

Terminates[s \in Nodes] == TerminatesBy(Terminates, s)

-----------------------------------------------------------------------------
(* stmt.go and decl.go *)

(* Every break is in a loop or a switch, every continue in a loop. *)
JumpsBoundBy(bound, s) ==
  [around \in SUBSET {"loop", "switch"} |->
     /\ s.k = "break" => around # {}
     /\ s.k = "continue" => "loop" \in around
     /\ \A p \in Range(Parts(s)) :
          bound[p][around \cup (IF IsLoop(s) THEN {"loop"} ELSE {})
                          \cup (IF s.k = "switch" THEN {"switch"} ELSE {})]]

JumpsBound[s \in Nodes] == JumpsBoundBy(JumpsBound, s)

(* checkFallthrough *)
ArmsApart(body) ==
  \A s \in Inside[body] : s.k = "switch" =>
    \A i \in 1..(Len(s.arms) - 1) : Empty(s.arms[i]) \/ Terminates[s.arms[i].body]

(* A case label is used once, and default at most once. *)
LabelsDistinct(body) ==
  \A s \in Inside[body] : s.k = "switch" => IsInjective([i \in DOMAIN s.arms |-> s.arms[i].label])

ReturnsResult(fn) == fn.result => Terminates[fn.body]

-----------------------------------------------------------------------------
(* definiteassignment.go.  A walk carries the flow state of the point it   *)
(* has reached, whether a read was reported, and a frame for each          *)
(* enclosing loop or switch with the states at the jumps bound to it.      *)

Flows  == [live : BOOLEAN, assigned : SUBSET Names]
Frames == [loop : BOOLEAN, breaks : SUBSET Flows, continues : SUBSET Flows]
Walks  == [flow : Flows, reported : BOOLEAN, jumps : Seq(Frames), tracked : SUBSET Names]

Dead == [live |-> FALSE, assigned |-> {}]

(* merge and mergeAll *)
Join(flows) ==
  LET met == {f \in flows : f.live}
  IN  IF met = {} THEN Dead
      ELSE [live |-> TRUE,
            assigned |-> {v \in UNION {f.assigned : f \in met} : \A f \in met : v \in f.assigned}]

At(w, flow) == [w EXCEPT !.flow = flow]

Read(w, v) ==
  IF ~w.flow.live \/ v \notin w.tracked \/ v \in w.flow.assigned THEN w
  ELSE [w EXCEPT !.reported = TRUE, !.flow.assigned = @ \cup {v}]

Write(w, v) ==
  IF ~w.flow.live \/ v \notin w.tracked THEN w ELSE [w EXCEPT !.flow.assigned = @ \cup {v}]

\* Seeded fault: what the right operand assigns is kept.
WalkShortKeeping(walk, w, x) == walk[x.y][walk[x.x][w]]

WalkShort(walk, w, x) ==
  LET left == walk[x.x][w] IN At(walk[x.y][left], left.flow)

(* What follows a condition c has been walked. *)
WalkArms(walk, c, yes, no) ==
  LET then == walk[yes][c]
      els  == walk[no][At(then, c.flow)]
  IN  At(els, Join({then.flow, els.flow}))

WalkExprBy(walk, x) ==
  [w \in Walks |->
     CASE x.k = "var" -> Read(w, x.v)
       [] x.k = "set" -> Write(walk[x.x][w], x.v)
       [] x.k \in {"tell", "not", "call"} -> walk[x.x][w]
       [] x.k = "ne" -> walk[x.y][walk[x.x][w]]
       [] x.k \in {"and", "or"} -> WalkShort(walk, w, x)
       [] x.k = "cond" -> WalkArms(walk, walk[x.c][w], x.x, x.y)
       [] OTHER -> w]

WalkExpr[x \in Nodes] == WalkExprBy(WalkExpr, x)

Top(w)        == w.jumps[Len(w.jumps)]
Push(w, loop) == [w EXCEPT !.jumps = Append(@, [loop |-> loop, breaks |-> {}, continues |-> {}])]
Pop(w)        == [w EXCEPT !.jumps = SubSeq(@, 1, Len(@) - 1)]

(* The innermost loop among the frames, if there is one. *)
LoopOf(jumps) ==
  {i \in DOMAIN jumps : jumps[i].loop /\ \A j \in DOMAIN jumps : j > i => ~jumps[j].loop}

BreakAt(frame, flow)    == [frame EXCEPT !.breaks = @ \cup {flow}]
ContinueAt(frame, flow) == [frame EXCEPT !.continues = @ \cup {flow}]

BreakTo(w) ==
  LET jumps == w.jumps
  IN  [w EXCEPT !.flow = Dead,
                !.jumps = [i \in DOMAIN jumps |->
                             IF i = Len(jumps) THEN BreakAt(jumps[i], w.flow) ELSE jumps[i]]]

ContinueTo(w) ==
  LET jumps == w.jumps
  IN  [w EXCEPT !.flow = Dead,
                !.jumps = [i \in DOMAIN jumps |->
                             IF i \in LoopOf(jumps) THEN ContinueAt(jumps[i], w.flow)
                             ELSE jumps[i]]]

(* A walk taken through one move after another: where it is after i.       *)
Thread(moves, w) ==
  LET at[i \in 0..Len(moves)] == IF i = 0 THEN w ELSE moves[i][at[i - 1]] IN at

WalkList(walk, w, list) == Thread([i \in DOMAIN list |-> walk[list[i]]], w)[Len(list)]

WalkDecl(w, s) ==
  LET init == WalkExpr[s.x][w]
  IN  IF s.x # Absent THEN Write(init, s.v) ELSE [init EXCEPT !.flow.assigned = @ \ {s.v}]

(* What follows the condition of a while, and of a for with its post. *)
WalkRounds(walk, c, s) ==
  LET body == walk[s.body][Push(c, TRUE)]
      post == IF s.k = "while" THEN body
              ELSE WalkExpr[s.post][At(body, Join(Top(body).continues \cup {body.flow}))]
  IN  At(Pop(post), IF AlwaysTrue(s.c) THEN Join(Top(post).breaks) ELSE c.flow)

WalkDo(walk, w, s) ==
  LET body   == walk[s.body][Push(w, TRUE)]
      frame  == Top(body)
      tested == WalkExpr[s.c][At(Pop(body), Join(frame.continues \cup {body.flow}))]
  IN  At(tested, Join(frame.breaks \cup (IF AlwaysTrue(s.c) THEN {} ELSE {tested.flow})))

(* The walk before each arm, and after the last: every arm starts from the *)
(* state after the tag.                                                    *)
ArmStarts(walk, tag, s) ==
  Thread([i \in DOMAIN s.arms |->
            [u \in Walks |-> IF Empty(s.arms[i]) THEN u ELSE At(walk[s.arms[i].body][u], tag.flow)]],
         Push(tag, FALSE))

(* An empty arm contributes no exit of its own. *)
WalkSwitch(walk, tag, s) ==
  LET starts == ArmStarts(walk, tag, s)
      exits  == {walk[s.arms[i].body][starts[i - 1]].flow :
                   i \in {j \in DOMAIN s.arms : ~Empty(s.arms[j])}}
      all    == starts[Len(s.arms)]
  IN  At(Pop(all), IF HasDefault(s) THEN Join(Top(all).breaks \cup exits) ELSE tag.flow)

WalkStmtBy(walk, s) ==
  [w \in Walks |->
     CASE s.k = "block"    -> WalkList(walk, w, s.stmts)
       [] s.k = "decl"     -> WalkDecl(w, s)
       [] s.k = "expr"     -> WalkExpr[s.x][w]
       [] s.k = "if"       -> WalkArms(walk, WalkExpr[s.c][w], s.then, s.els)
       [] s.k = "while"    -> WalkRounds(walk, WalkExpr[s.c][w], s)
       [] s.k = "do"       -> WalkDo(walk, w, s)
       [] s.k = "for"      -> WalkRounds(walk, WalkExpr[s.c][walk[s.init][w]], s)
       [] s.k = "switch"   -> WalkSwitch(walk, WalkExpr[s.tag][w], s)
       [] s.k = "break"    -> BreakTo(w)
       [] s.k = "continue" -> ContinueTo(w)
       [] s.k = "return"   -> At(WalkExpr[s.x][w], Dead)
       [] OTHER            -> w]

WalkStmt[s \in Nodes] == WalkStmtBy(WalkStmt, s)

(* trackedLocals: the locals held in a register, which nothing zeroes. *)
Tracked(body) == {y.v : y \in {z \in Inside[body] : z.k = "decl" /\ z.register}}

Start(body) ==
  [flow |-> [live |-> TRUE, assigned |-> {}], reported |-> FALSE, jumps |-> <<>>,
   tracked |-> Tracked(body)]

AssignsFirst(fn) == ~WalkStmt[fn.body][Start(fn.body)].reported

(* A function is [body, result: does it return a value, param]; definite   *)
(* assignment is only looked at once nothing else is wrong.                *)
Accepts(fn) ==
  /\ JumpsBound[fn.body][{}]
  /\ LabelsDistinct(fn.body)
  /\ ArmsApart(fn.body)
  /\ ReturnsResult(fn)
  /\ AssignsFirst(fn)
=============================================================================
