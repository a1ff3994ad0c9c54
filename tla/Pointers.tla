------------------------------- MODULE Pointers ------------------------------
(***************************************************************************)
(* internal/pointers: the walk from a pointer back to the one object it    *)
(* designates.  A set of visited values cuts cycles and is passed on from  *)
(* each arm of a merge to the next, so what one arm has seen the next does *)
(* not look at again.                                                      *)
(***************************************************************************)
EXTENDS LlvmModule

LOCAL SX == INSTANCE SequencesExt

(* A value of a module: an operand, and the function it is read in unless   *)
(* it is a constant.                                                        *)
Node(f, a) == [f |-> IF IsVal(a) THEN f ELSE 0, is |-> a]

(* What a walk answers: at most one object, whether it gave up, and the     *)
(* values seen on the way.                                                  *)
Reached(objects, visited) == [objects |-> objects, fails |-> FALSE, visited |-> visited]
Unresolved(visited)       == [objects |-> {}, fails |-> TRUE, visited |-> visited]

-----------------------------------------------------------------------------
(* storedInto: every value written into an object, however the pointer to   *)
(* it reaches the store: through address arithmetic, phis, selects and the  *)
(* parameters it is passed as.                                              *)

\* The operands whose pointer an item hands on as its own value.
HandsOn(item) ==
  CASE item.do = "gep"    -> {item.args[1]}
    [] item.do = "select" -> {item.args[2], item.args[3]}
    [] OTHER              -> {}

CarriedIn(prog, f, S) ==
  LET fn == prog.funcs[f]
      Carried(a) == Node(f, a) \in S
      Passed(i) == {k \in DOMAIN i.args : Carried(i.args[k])}
  IN  {Node(f, Val(i.dst)) : i \in {x \in Items(fn) : \E a \in HandsOn(x) : Carried(a)}}
      \cup {Node(f, Val(p.dst)) : p \in {x \in Phis(fn) : \E a \in Arms(x) : Carried(a)}}
      \cup UNION {{Node(i.callee, Val(prog.funcs[i.callee].params[k])) : k \in Passed(i)} :
                    i \in {x \in Items(fn) : x.do = "call"}}

RECURSIVE Spread(_, _)
Spread(prog, S) ==
  LET wider == S \cup UNION {CarriedIn(prog, f, S) : f \in DOMAIN prog.funcs}
  IN  IF wider = S THEN S ELSE Spread(prog, wider)

(* The constant addresses in a global are uses of it. *)
NodesOf(prog, k) ==
  LET object == Objects(prog)[k]
      named == UNION {SX!ToSet(OperandList(prog.funcs[f])) : f \in DOMAIN prog.funcs}
  IN  IF object.f # 0 THEN {Node(object.f, Val(object.n))}
      ELSE {Node(0, a) : a \in {x \in named : IsPlace(x) /\ x.obj = object.n}}

StoredInto(prog, k) ==
  LET pointers == Spread(prog, NodesOf(prog, k))
  IN  UNION {{Node(f, i.args[1]) : i \in {x \in Items(prog.funcs[f]) :
                                            x.do = "store" /\ Node(f, x.args[2]) \in pointers}} :
               f \in DOMAIN prog.funcs}

-----------------------------------------------------------------------------
\* Seeded fault: one call is asked for them all.
PassedOnce(prog, node, index) ==
  {Node(c.f, c.item.args[index]) : c \in {CHOOSE d \in CallsTo(prog, node.f) : TRUE}}

(* fromCallSites: what every call passes for a parameter.                   *)
Passed(prog, node, index) ==
  {Node(c.f, c.item.args[index]) : c \in CallsTo(prog, node.f)}

(* through: the values a pointer is made of, in order.                      *)
Behind(prog, node) ==
  LET a == node.is
      fn == prog.funcs[node.f]
      Here(args) == [i \in DOMAIN args |-> Node(node.f, args[i])]
  IN  CASE IsPlace(a) -> <<Node(0, Place(a.obj, 0))>>
        [] IsVal(a) /\ ParamOf(fn, a) # {} ->
             SX!SetToSeq(Passed(prog, node, CHOOSE i \in ParamOf(fn, a) : TRUE))
        [] IsVal(a) /\ PhiOf(fn, a) # {} -> Here(ArmList(CHOOSE p \in PhiOf(fn, a) : TRUE))
        [] IsVal(a) /\ Does(fn, a, {"gep"})    -> Here(<<MakerOf(fn, a).args[1]>>)
        [] IsVal(a) /\ Does(fn, a, {"select"}) -> Here(Tail(MakerOf(fn, a).args))
        [] OTHER -> <<>>

(* The pointer a pointer is loaded through. *)
LoadedThrough(prog, node) ==
  IF ~IsVal(node.is) THEN {}
  ELSE {Node(node.f, i.args[1]) : i \in {x \in Maker(prog.funcs[node.f], node.is) : x.do = "load"}}

Both(x, y) ==
  LET objects == x.objects \cup y.objects
  IN  IF y.fails \/ Cardinality(objects) > 1 THEN Unresolved(y.visited)
      ELSE Reached(objects, y.visited)

RECURSIVE Resolve(_, _, _), Merge(_, _, _)

(* merge: all arms that lead anywhere lead to one object.                   *)
Merge(prog, arms, visited) ==
  IF arms = <<>> THEN Unresolved(visited)
  ELSE SX!FoldLeft(LAMBDA so, arm : IF so.fails THEN so ELSE Both(so, Resolve(prog, arm, so.visited)),
                   Reached({}, visited), arms)

(* fromStores: a pointer read from memory is any that was written there.    *)
FromStores(prog, from) ==
  IF from.fails \/ from.objects = {} THEN from
  ELSE Merge(prog, SX!SetToSeq(UNION {StoredInto(prog, k) : k \in from.objects}), from.visited)

Resolve(prog, node, visited) ==
  LET seen == visited \cup {node}
      through == LoadedThrough(prog, node)
  IN  IF ObjectAt(prog, node.f, node.is) # {}
      THEN Reached(ObjectAt(prog, node.f, node.is), visited)
      ELSE IF node \in visited THEN Reached({}, visited)
      ELSE IF through # {}
           THEN FromStores(prog, Resolve(prog, CHOOSE n \in through : TRUE, seen))
      ELSE Merge(prog, Behind(prog, node), seen)

(* Check: every access of the module.                                       *)
Accesses(prog) ==
  UNION {{Node(f, SX!Last(i.args)) : i \in {x \in Items(prog.funcs[f]) :
                                              x.do \in {"load", "store"}}} :
           f \in DOMAIN prog.funcs}

PointersAccepted(prog) == \A node \in Accesses(prog) : ~Resolve(prog, node, {}).fails
=============================================================================
