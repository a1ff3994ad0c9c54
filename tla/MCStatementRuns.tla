--------------------------- MODULE MCStatementRuns ----------------------------
(* Functions for StatementRuns: a local declared without a value, a loop or *)
(* a switch around another one, with every jump and an assignment in every  *)
(* place, and the local shown at the end; conditions that assign on one     *)
(* side; functions returning from inside loops, spliced in twice.           *)
EXTENDS StatementRuns

Ask(n)      == [k |-> "ask", n |-> n]
Tell(x)     == [k |-> "tell", x |-> x]
Bool(n)     == [k |-> "bool", n |-> n]
One         == [k |-> "lit", n |-> 1]
Var(v)      == [k |-> "var", v |-> v]
SetTo(v, x) == [k |-> "set", v |-> v, x |-> x]
And(x, y)   == [k |-> "and", x |-> x, y |-> y]
Or(x, y)    == [k |-> "or", x |-> x, y |-> y]
Not(x)      == [k |-> "not", x |-> x]
Ne(x, y)    == [k |-> "ne", x |-> x, y |-> y]
Pick(c, x, y) == [k |-> "cond", c |-> c, x |-> x, y |-> y]
Call(fn, x) == [k |-> "call", fn |-> fn, x |-> x]

Expr(x)        == [k |-> "expr", x |-> x]
Decl(v, x)     == [k |-> "decl", v |-> v, x |-> x, register |-> TRUE]
DeclMem(v)     == [k |-> "decl", v |-> v, x |-> Absent, register |-> FALSE]
If(c, a, b)    == [k |-> "if", c |-> c, then |-> a, els |-> b]
While(c, b)    == [k |-> "while", c |-> c, body |-> b]
Do(b, c)       == [k |-> "do", body |-> b, c |-> c]
For(i, c, p, b) == [k |-> "for", init |-> i, c |-> c, post |-> p, body |-> b]
Switch(arms)   == [k |-> "switch", tag |-> Ask(5), arms |-> arms]
Break          == [k |-> "break"]
Continue       == [k |-> "continue"]
Return(x)      == [k |-> "return", x |-> x]
Block(stmts)   == [k |-> "block", stmts |-> stmts]
Case(n, body)  == [label |-> {n}, body |-> Block(body)]
Default(body)  == [label |-> {}, body |-> Block(body)]

Fn(body, result, param) == [body |-> Block(body), result |-> result, param |-> param]
Main(body)              == [main |-> Fn(body, FALSE, {}), funs |-> {}]

X == Var("x")
Assign == Expr(SetTo("x", Ask(1)))
Show1  == Expr(Tell(X))

(* The inside of a loop or an arm. *)
Bodies ==
  << <<>>, <<Assign>>, <<Show1>>, <<Break>>, <<Continue>>, <<Return(Absent)>>,
     <<Assign, Break>>, <<Assign, Continue, Show1>>, <<If(Ask(2), Break, Assign)>> >>

Conds == <<Ask(3), Bool(1), And(Ask(3), SetTo("x", Ask(4)))>>

(* The machine answers 0 or 1: an arm labelled 2 is only run into. *)
Arms(a, b) ==
  <<Switch(<<Case(0, a), Default(b)>>), Switch(<<Case(0, <<>>), Case(2, a), Default(b)>>),
    Switch(<<Default(a), Case(1, b)>>), Switch(<<Case(0, a), Case(1, b), Case(2, <<>>)>>)>>

(* The n things Op makes of each in a list. *)
Each(list, n, Op(_)) ==
  [i \in 1..(n * Cardinality(DOMAIN list)) |-> Op(list[1 + ((i - 1) \div n)])[1 + ((i - 1) % n)]]

Around(body) ==       \* a construct around a list of statements
  LET With(c) ==
        <<If(c, Block(body), Absent), While(c, Block(body)), Do(Block(body), c),
          For(Absent, c, SetTo("x", Ask(6)), Block(body))>>
  IN  Each(Conds, 4, With)
      \o <<For(Assign, Absent, Absent, Block(body)), If(Ask(3), Assign, Block(body))>>
      \o Arms(body, <<Assign, Break>>) \o Arms(<<Break>>, body)

Outer(s) ==
  <<While(Ask(7), s), Do(s, Ask(7)), For(Absent, Absent, Absent, s),
    Switch(<<Case(0, <<s, Break>>), Case(1, <<s>>), Default(<<Assign>>)>>)>>

(* Each of them alone, and inside another one. *)
ProgramsOf(body) ==
  LET Nested(s) == <<s>> \o Outer(s) \o Outer(Block(<<s, Assign>>))
      With(s)   == <<Main(<<Decl("x", Absent), s, Show1>>)>>
  IN  Each(Each(Around(body), 9, Nested), 1, With)

(* Conditions of every shape, branched on and taken as values. *)
Leaves == <<Ask(1), Bool(0), X, SetTo("x", Ask(2))>>
Shapes(a, b) == <<And(a, b), Or(a, b), Ne(a, b), Pick(Ask(3), a, b)>>

Deep ==
  LET Of(i) == Shapes(Leaves[1 + ((i - 1) \div 16)], Leaves[1 + (((i - 1) \div 4) % 4)])[1 + (i % 4)]
      With(shape) == <<shape, Not(shape), And(shape, Ask(4)), Or(Not(shape), X)>>
  IN  Each([i \in 1..64 |-> Of(i)], 4, With)

ConditionPrograms ==
  LET With(c) == <<Main(<<Decl("x", Ask(0)), If(c, Show1, Expr(Tell(One)))>>),
                   Main(<<Decl("x", Absent), Expr(Tell(c))>>)>>
  IN  Each(Deep, 2, With)

(* Functions of one parameter, spliced in twice into a loop. *)
P == Var("p")

ValueBodies ==
  <<<<While(Ask(3), Return(P))>>,
    <<While(One, If(Ask(3), Return(P), Absent))>>,
    <<Do(If(Ask(3), Continue, Return(P)), Ask(4))>>,
    <<Do(Return(P), Ask(4))>>,
    <<Do(If(Ask(3), Break, Return(P)), Bool(1))>>,
    <<Switch(<<Case(0, <<Return(One)>>), Default(<<Return(P)>>)>>)>>,
    <<Switch(<<Case(0, <<Break>>), Default(<<Return(P)>>)>>)>>,
    <<Switch(<<Case(0, <<Return(P)>>), Default(<<>>)>>)>>,
    <<Decl("y", Absent), If(P, Expr(SetTo("y", One)), Return(Ask(4))), Return(Var("y"))>>,
    <<DeclMem("y"), If(P, Expr(SetTo("y", Ask(4))), Absent), Return(Var("y")), Expr(Tell(Var("y")))>>,
    <<For(Absent, Ask(3), SetTo("p", Ask(4)), If(P, Continue, Break)), Return(P)>>>>

Calls ==
  LET Calling(f) ==
        [main |-> Fn(<<While(Ask(1), Block(<<Expr(Tell(Ne(Call(f, Ask(2)), Call(f, One)))),
                                             Continue>>))>>, FALSE, {}),
         funs |-> {f}]
  IN  [i \in DOMAIN ValueBodies |-> Calling(Fn(ValueBodies[i], TRUE, {"p"}))]

(* Locals declared inside a loop, used in it and by its condition. *)
Y       == Var("y")
AssignY == Expr(SetTo("y", Ask(2)))
ShowY   == Expr(Tell(Y))

Inner(s) ==
  <<While(Ask(7), Block(<<Decl("y", Absent), s, ShowY>>)),
    Do(Block(<<Decl("y", Absent), s>>), And(Ask(7), Y)),
    For(Decl("y", Absent), Ask(7), Y, s),
    For(Decl("y", Ask(0)), Y, SetTo("y", Ask(2)), Block(<<s, Decl("x", Absent), If(Ask(3), Assign, Break), Show1>>)),
    While(Ask(7), Block(<<Decl("y", Ask(0)), Do(Block(<<Decl("x", Absent), s, Assign>>), Ne(Y, X))>>)),
    Switch(<<Case(0, <<Decl("y", Absent), s, ShowY, Break>>), Default(<<AssignY, s, ShowY>>)>>)>>

LoopLocals ==
  LET With(s) == <<Main(<<s>>)>>
  IN  Each(Each(<<AssignY, If(Ask(3), AssignY, Break), If(Ask(3), AssignY, Continue),
                  If(Ask(3), Return(Absent), AssignY), If(Ask(3), AssignY, Absent)>>, 6, Inner), 1, With)

(* A switch whose last arm, reached as the default, has no statements. *)
LastArm(decl, arm) ==
  Main(<<decl, Switch(<<Case(0, arm), Default(<<>>)>>), Show1>>)

AllPrograms ==
  Each(Bodies, 198, ProgramsOf) \o ConditionPrograms \o Calls \o LoopLocals
  \o <<LastArm(Decl("x", Ask(0)), <<Assign, Break>>)>>

LastArmPrograms == <<LastArm(Decl("x", Absent), <<Assign, Break>>)>>

(* The nodes by how deep they lie, the deepest first. *)
Within(x) == Range(Parts(x)) \cup (IF x.k = "call" THEN {x.fn.body} ELSE {})

RECURSIVE ByDepth(_)
ByDepth(nodes) ==
  IF nodes = {} THEN <<>> ELSE Append(ByDepth(UNION {Within(x) : x \in nodes}), nodes)

LevelsOf(programs) ==
  ByDepth(UNION {{fn.body : fn \in FunctionsOf(programs[i])} : i \in DOMAIN programs})

AllLevels == LevelsOf(AllPrograms)

(* TLC keeps the value of a definition, not of what a constant stands for. *)
MCPrograms    == AllPrograms
MCLevels      == AllLevels
LastArmLevels == LevelsOf(LastArmPrograms)
=============================================================================
