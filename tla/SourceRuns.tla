------------------------------ MODULE SourceRuns ------------------------------
(***************************************************************************)
(* A program the front end accepts, run as its source reads: by C's rules  *)
(* and MicroC's one addition, that a local whose address is taken is zero  *)
(* until it is written.                                                    *)
(*                                                                         *)
(* The source keeps what is left to do, innermost first: statements and    *)
(* expressions, steps on the values on its stack, and the marks at which a *)
(* break, a continue or a return lands.                                    *)
(***************************************************************************)
EXTENDS Statements

CONSTANTS
  Programs,     \* a sequence of [main, funs]: a main and the functions it may call
  Answers       \* what the machine may answer

FunctionsOf(p) == {p.main} \cup p.funs

Memory(body) ==      \* the locals kept in memory
  {y.v : y \in {z \in Inside[body] : z.k = "decl" /\ ~z.register}}

Locals(fn) == fn.param \cup Declared(fn.body)

(* What a name stands for: the declaration it is in the scope of.          *)
Resolved(p, fn) ==
  /\ fn.body \in Nodes
  /\ fn.result \in BOOLEAN
  /\ fn.param \in SUBSET Names /\ fn.param \cap Declared(fn.body) = {}
  /\ \A v, u \in fn.param : v = u
  /\ Named(fn.body) \subseteq Locals(fn)
  /\ Tracked(fn.body) \cap Memory(fn.body) = {}
  /\ \A s \in Inside[fn.body] : \A j \in DOMAIN Parts(s) : \A i \in 1..(j - 1) :
       Named(Parts(s)[i]) \cap Declared(Parts(s)[j]) = {}
  /\ \A x \in Inside[fn.body] : x.k = "call" => x.fn \in p.funs

(* The functions of a program have names of their own.                     *)
Scoped(p) ==
  /\ p.main.param = {}
  /\ \A fn \in FunctionsOf(p) : Resolved(p, fn)
  /\ \A fn, other \in FunctionsOf(p) : fn # other => Locals(fn) \cap Locals(other) = {}

ASSUME ProgramsAssumption ==
  LET programs == Programs
  IN  /\ {0, 1} \subseteq Answers /\ Answers \subseteq Int
      /\ \A n \in DOMAIN programs : Scoped(programs[n])

VARIABLES
  prog,         \* a position in Programs
  compiled,     \* it has been accepted
  todo, vals, mem

source == <<todo, vals, mem>>

Accepted ==
  LET all == Programs IN [i \in DOMAIN all |-> \A fn \in FunctionsOf(all[i]) : Accepts(fn)]

-----------------------------------------------------------------------------
E(x)         == [do |-> "expr", x |-> x]
S(s)         == [do |-> "stmt", s |-> s]
Step(name)   == [do |-> name]
Mark(name)   == [do |-> "mark", at |-> name]
Number(n)    == [do |-> "number", n |-> n]
Test(x)      == [do |-> "test", x |-> x]        \* on the condition of x
Again(s)     == [do |-> "again", s |-> s]

Truth01(b) == IF b THEN 1 ELSE 0

ExprSteps(x) ==
  CASE x.k \in {"bool", "lit"} -> <<Number(x.n)>>
    [] x.k = "var"  -> <<[do |-> "load", v |-> x.v]>>
    [] x.k = "ask"  -> <<[do |-> "ask", n |-> x.n]>>
    [] x.k = "tell" -> <<E(x.x), Step("tell")>>
    [] x.k = "set"  -> <<E(x.x), [do |-> "store", v |-> x.v]>>
    [] x.k = "ne"   -> <<E(x.x), E(x.y), Step("differ")>>
    [] x.k \in {"not", "and", "or"} -> <<E(x.x), Test(x)>>
    [] x.k = "cond" -> <<E(x.c), Test(x)>>
    [] x.k = "call" -> <<E(x.x), [do |-> "call", fn |-> x.fn]>>
    [] OTHER        -> <<Number(0)>>

CondSteps(s) == IF s.c.k = "absent" THEN <<Number(1), Test(s)>> ELSE <<E(s.c), Test(s)>>

(* Once round a loop. *)
Round(s) ==
  IF s.k = "do" THEN <<S(s.body), Mark("continue")>> \o CondSteps(s) ELSE CondSteps(s)

StmtSteps(s) ==
  CASE s.k = "block"  -> [i \in DOMAIN s.stmts |-> S(s.stmts[i])]
    [] s.k = "decl"   -> IF s.x # Absent THEN <<E(s.x), [do |-> "store", v |-> s.v], Step("drop")>>
                         ELSE <<[do |-> "declare", s |-> s]>>
    [] s.k = "expr"   -> <<E(s.x), Step("drop")>>
    [] s.k = "if"     -> <<E(s.c), Test(s)>>
    [] s.k = "for"    -> <<S(s.init), Again(s), Mark("break")>>
    [] s.k \in {"while", "do"} -> <<Again(s), Mark("break")>>
    [] s.k = "switch" -> <<E(s.tag), [do |-> "select", s |-> s], Mark("break")>>
    [] s.k \in {"break", "continue"} -> <<[do |-> "leave", to |-> s.k]>>
    [] s.k = "return" -> <<E(s.x), [do |-> "leave", to |-> "return"]>>
    [] OTHER          -> <<>>

(* What a condition that held, or did not, leads to.                       *)
Chosen(x, held) ==
  CASE x.k = "not"   -> <<Number(Truth01(~held))>>
    [] x.k = "and"   -> IF held THEN <<E(x.y), Step("truth")>> ELSE <<Number(0)>>
    [] x.k = "or"    -> IF held THEN <<Number(1)>> ELSE <<E(x.y), Step("truth")>>
    [] x.k = "cond"  -> <<E(IF held THEN x.x ELSE x.y)>>
    [] x.k = "if"    -> <<S(IF held THEN x.then ELSE x.els)>>
    [] x.k = "while" -> IF held THEN <<S(x.body), Mark("continue"), Again(x)>> ELSE <<>>
    [] x.k = "for"   -> IF held
                        THEN <<S(x.body), Mark("continue"), E(x.post), Step("drop"), Again(x)>>
                        ELSE <<>>
    [] x.k = "do"    -> IF held THEN <<Again(x)>> ELSE <<>>

(* The arm the tag matches, and the arms below it until something leaves.   *)
ArmsFrom(arms, tag) ==
  LET hit   == {i \in DOMAIN arms : arms[i].label = {tag}}
      first == IF hit # {} THEN hit ELSE {i \in DOMAIN arms : arms[i].label = {}}
      skip  == CHOOSE i \in first : TRUE
  IN  IF first = {} THEN <<>>
      ELSE [i \in 1..(Len(arms) - skip + 1) |-> S(arms[skip + i - 1].body)]

(* A function entered: its end is reached by a return, or fallen off.       *)
Entered(fn) == <<S(fn.body), [do |-> "fallOff", owed |-> fn.result], Mark("return")>>

Shows(item) == item.do \in {"ask", "tell"}

Undefined(item) ==       \* a step that uses what was never written
  \/ item.do = "load" /\ item.v \notin DOMAIN mem
  \/ item.do = "fallOff" /\ item.owed

Does(steps, pushed, used) ==
  /\ todo' = steps \o Tail(todo)
  /\ vals' = pushed \o SubSeq(vals, used + 1, Len(vals))

Wrote(v, x) == [u \in DOMAIN mem \cup {v} |-> IF u = v THEN x ELSE mem[u]]

Pure(steps, pushed, used) == Does(steps, pushed, used) /\ UNCHANGED mem

Leave(name) ==
  /\ \E q \in DOMAIN todo :
       /\ todo[q] = Mark(name)
       /\ \A p \in 1..(q - 1) : todo[p] # Mark(name)
       /\ todo' = SubSeq(todo, q + 1, Len(todo))
  /\ UNCHANGED <<vals, mem>>

Enter(fn) ==
  /\ Does(Entered(fn), <<>>, 1)
  /\ mem' = IF fn.param = {} THEN mem ELSE Wrote(CHOOSE p \in fn.param : TRUE, vals[1])

Declare(s) ==
  /\ Does(<<>>, <<>>, 0)
  /\ mem' = IF s.register THEN Restrict(mem, DOMAIN mem \ {s.v}) ELSE mem

Perform(item) ==
  \/ item.do = "expr" /\ Pure(ExprSteps(item.x), <<>>, 0)
  \/ item.do = "stmt" /\ Pure(StmtSteps(item.s), <<>>, 0)
  \/ item.do = "again" /\ Pure(Round(item.s), <<>>, 0)
  \/ item.do = "mark" /\ Pure(<<>>, <<>>, 0)
  \/ item.do = "number" /\ Pure(<<>>, <<item.n>>, 0)
  \/ item.do = "drop" /\ Pure(<<>>, <<>>, 1)
  \/ item.do = "load" /\ Pure(<<>>, <<mem[item.v]>>, 0)
  \/ item.do = "store" /\ Does(<<>>, <<>>, 0) /\ mem' = Wrote(item.v, vals[1])
  \/ item.do = "differ" /\ Pure(<<>>, <<Truth01(vals[1] # vals[2])>>, 2)
  \/ item.do = "truth" /\ Pure(<<>>, <<Truth01(vals[1] # 0)>>, 1)
  \/ item.do = "test" /\ Pure(Chosen(item.x, vals[1] # 0), <<>>, 1)
  \/ item.do = "select" /\ Pure(ArmsFrom(item.s.arms, vals[1]), <<>>, 1)
  \/ item.do = "fallOff" /\ Pure(<<>>, <<0>>, 0)
  \/ item.do = "call" /\ Enter(item.fn)
  \/ item.do = "declare" /\ Declare(item.s)
  \/ item.do = "leave" /\ Leave(item.to)

SourceStep ==
  /\ compiled
  /\ todo # <<>> /\ ~Shows(todo[1]) /\ ~Undefined(todo[1])
  /\ Perform(todo[1])
  /\ UNCHANGED <<prog, compiled>>

(* The machine answers an ask with n. *)
SourceShow(n) ==
  /\ compiled
  /\ todo # <<>> /\ Shows(todo[1])
  /\ IF todo[1].do = "ask" THEN Pure(<<>>, <<n>>, 0) ELSE Pure(<<>>, <<>>, 0)
  /\ UNCHANGED <<prog, compiled>>

SourceInit ==
  /\ prog \in DOMAIN Programs
  /\ compiled = FALSE
  /\ todo = Entered(Programs[prog].main) /\ vals = <<>>
  /\ mem = [v \in UNION {Memory(fn.body) : fn \in FunctionsOf(Programs[prog])} |-> 0]

Reject ==
  /\ ~compiled /\ todo # <<>>
  /\ ~Accepted[prog]
  /\ todo' = <<>>
  /\ UNCHANGED <<prog, compiled, vals, mem>>

Accept ==
  /\ ~compiled /\ todo # <<>>
  /\ Accepted[prog]
  /\ compiled' = TRUE
  /\ UNCHANGED <<prog, source>>

SourceNext == Reject \/ Accept \/ SourceStep \/ \E n \in Answers : SourceShow(n)

SourceSpec == SourceInit /\ [][SourceNext]_<<prog, compiled, source>>

-----------------------------------------------------------------------------
(* An accepted program never reads a local it has not written since its     *)
(* declaration, and never leaves a function without the result it owes.     *)
AssignedBeforeRead == compiled /\ todo # <<>> => ~Undefined(todo[1])

(* No switch with a default ends in an arm without statements: control      *)
(* leaves by such an arm, and definite assignment does not count it.        *)
LastArmsHeld(p) ==
  \A fn \in FunctionsOf(p) : \A s \in Inside[fn.body] :
    s.k = "switch" /\ HasDefault(s) => ~Empty(s.arms[Len(s.arms)])
=============================================================================
