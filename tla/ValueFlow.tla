------------------------------ MODULE ValueFlow ------------------------------
(***************************************************************************)
(* internal/valueflow: the values of a module that have a property which   *)
(* starts at some of them and is carried through operands, calls and       *)
(* memory to a fixed point.  Memory is known by object; a store through a  *)
(* pointer that does not lead to one reaches them all.                     *)
(***************************************************************************)
EXTENDS LlvmModule

CONSTANTS
  Stops(_, _),      \* of a function, an item whose result has it never
  Carries(_, _),    \* one whose result has it as an operand has
  Seeded(_)         \* the literals that have it

LOCAL SX == INSTANCE SequencesExt

(* MemoryObject: back through address arithmetic only. *)
RECURSIVE MemoryObject(_, _, _)
MemoryObject(prog, f, a) ==
  IF ObjectAt(prog, f, a) # {} THEN ObjectAt(prog, f, a)
  ELSE IF IsPlace(a) THEN ObjectAt(prog, f, Place(a.obj, 0))
  ELSE IF IsVal(a) /\ Does(prog.funcs[f], a, {"gep"})
       THEN MemoryObject(prog, f, MakerOf(prog.funcs[f], a).args[1])
       ELSE {}

IsPointer(fn, a) == IsPlace(a) \/ (IsVal(a) /\ a.val \in fn.pointers)

PointerReaders == {"gep", "ptrtoint", "cmp", "select", "load", "store", "call"}

Flow(values, objects, returns, unknown) ==
  [values |-> values, objects |-> objects, returns |-> returns, unknown |-> unknown]

Nothing == Flow({}, {}, {}, FALSE)

Joined(x, y) == Flow(x.values \cup y.values, x.objects \cup y.objects,
                     x.returns \cup y.returns, x.unknown \/ y.unknown)

Marked(flow, f, a) ==
  \/ IsVal(a) /\ <<f, a.val>> \in flow.values
  \/ IsLit(a) /\ Seeded(a.lit)

MarkIf(cond, f, n) == IF cond THEN [Nothing EXCEPT !.values = {<<f, n>>}] ELSE Nothing

FromStore(prog, f, flow, item) ==
  LET base == MemoryObject(prog, f, item.args[2])
  IN  IF ~Marked(flow, f, item.args[1]) THEN Nothing
      ELSE [Nothing EXCEPT !.objects = base, !.unknown = (base = {})]

FromLoad(prog, f, flow, item) ==
  LET base == MemoryObject(prog, f, item.args[1])
  IN  MarkIf(/\ ~Stops(prog.funcs[f], item)
             /\ flow.unknown \/ base = {} \/ base \subseteq flow.objects, f, item.dst)

FromCall(prog, f, flow, item) ==
  LET params == prog.funcs[item.callee].params
      given == {k \in DOMAIN params : Marked(flow, f, item.args[k])}
  IN  Joined([Nothing EXCEPT !.values = {<<item.callee, params[k]>> : k \in given}],
             MarkIf(/\ item.callee \in flow.returns
                    /\ ~Stops(prog.funcs[f], item), f, item.dst))

\* Any other instruction, which may write through a pointer it is handed.
FromPlain(prog, f, flow, item) ==
  LET fn == prog.funcs[f]
      escapes == item.do \notin PointerReaders
                 /\ \E k \in DOMAIN item.args : IsPointer(fn, item.args[k])
      carried == \E k \in DOMAIN item.args : Marked(flow, f, item.args[k])
  IN  Joined([Nothing EXCEPT !.unknown = escapes],
             MarkIf(~Stops(fn, item) /\ (~Carries(fn, item) \/ carried), f, item.dst))

FromItem(prog, f, flow, item) ==
  CASE item.do = "store" -> FromStore(prog, f, flow, item)
    [] item.do = "load"  -> FromLoad(prog, f, flow, item)
    [] item.do = "call"  -> FromCall(prog, f, flow, item)
    [] OTHER             -> FromPlain(prog, f, flow, item)

FromPhi(prog, f, flow, phi) ==
  MarkIf(/\ phi.dst \notin prog.funcs[f].pointers
         /\ \E a \in Arms(phi) : Marked(flow, f, a), f, phi.dst)

FromReturns(prog, f, flow) ==
  IF \E b \in DOMAIN prog.funcs[f].blocks :
       LET term == prog.funcs[f].blocks[b].term
       IN  term.kind = "ret" /\ term.args # <<>> /\ Marked(flow, f, term.args[1])
  THEN [Nothing EXCEPT !.returns = {f}] ELSE Nothing

(* One walk over the module. *)
Walked(prog, f, flow) ==
  SX!FoldLeft(LAMBDA at, i : Joined(at, FromItem(prog, f, at, i)),
              SX!FoldLeft(LAMBDA at, p : Joined(at, FromPhi(prog, f, at, p)),
                          flow, PhiList(prog.funcs[f])),
              ItemList(prog.funcs[f]))

WithReturns(prog, f, flow) == Joined(flow, FromReturns(prog, f, flow))

Swept(prog, flow) ==
  SX!FoldLeft(LAMBDA so, f : WithReturns(prog, f, Walked(prog, f, so)),
              flow, [f \in DOMAIN prog.funcs |-> f])

RECURSIVE Settled(_, _, _)
Settled(prog, flow, next) ==
  IF next = flow THEN flow ELSE Settled(prog, next, Swept(prog, next))

(* Run *)
Reaches(prog) == Settled(prog, Nothing, Swept(prog, Nothing)).values
=============================================================================
