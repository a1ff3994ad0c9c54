----------------------------- MODULE LlvmModule ------------------------------
(***************************************************************************)
(* A module as LLVM hands it to the back end: globals, and functions in    *)
(* SSA form whose blocks hold phis, items and a terminator over numbered   *)
(* values.  An item names what it does, the value it makes (0 for none)    *)
(* and its operands.  The pointer check, the flow of values and selection  *)
(* all read modules this way.                                              *)
(*                                                                         *)
(* A program is [funcs, globals, domain]: globals[g] is the number of      *)
(* elements of global g, each of 8 bytes, and domain what a device may     *)
(* answer.  A function is [params, pointers, blocks].                      *)
(***************************************************************************)
EXTENDS Integers, FiniteSets, Sequences

LOCAL SX == INSTANCE SequencesExt

SlotBytes == 8

(* Operands: a value, a literal, a fixed place in a global, by the byte, or *)
(* the address of one as a number.                                          *)
Val(n)           == [val |-> n]
Lit(v)           == [lit |-> v]
Place(g, at)     == [obj |-> g, at |-> at]
AddressOf(g, at) == [addr |-> g, at |-> at]

IsVal(a)     == "val" \in DOMAIN a
IsLit(a)     == "lit" \in DOMAIN a
IsPlace(a)   == "obj" \in DOMAIN a
IsAddress(a) == "addr" \in DOMAIN a

Each(S, Op(_)) == SX!FlattenSeq([i \in DOMAIN S |-> Op(S[i])])

ItemList(fn) == Each(fn.blocks, LAMBDA b : b.items)
PhiList(fn)  == Each(fn.blocks, LAMBDA b : b.phis)
Items(fn)    == SX!ToSet(ItemList(fn))
Phis(fn)     == SX!ToSet(PhiList(fn))

(* The item that makes a value, where one does. *)
Maker(fn, a)      == {i \in Items(fn) : a = Val(i.dst)}
Does(fn, a, what) == \E i \in Maker(fn, a) : i.do \in what
MakerOf(fn, a)    == CHOOSE i \in Maker(fn, a) : TRUE

ArmList(phi)   == [i \in DOMAIN phi.from |-> phi.from[i][2]]
Arms(phi)      == SX!ToSet(ArmList(phi))
PhiOf(fn, a)   == {p \in Phis(fn) : a = Val(p.dst)}
ParamOf(fn, a) == {i \in DOMAIN fn.params : a = Val(fn.params[i])}

(* All operands of a function, one after the other. *)
OperandList(fn) ==
  Each(fn.blocks, LAMBDA b : Each(b.phis, ArmList)
                             \o Each(b.items, LAMBDA i : i.args) \o b.term.args)

UseCount(fn, n) == Len(SelectSeq(OperandList(fn), LAMBDA a : a = Val(n)))

(* The places a function is called from. *)
CallsTo(prog, f) ==
  UNION {{[f |-> g, item |-> i] : i \in {c \in Items(prog.funcs[g]) :
                                           c.do = "call" /\ c.callee = f}} :
           g \in DOMAIN prog.funcs}

-----------------------------------------------------------------------------
(* Objects, in the order they are laid out: the globals, then every         *)
(* function's allocas.                                                      *)

Object(f, n, size) == [f |-> f, n |-> n, size |-> size]

Objects(prog) ==
  [g \in DOMAIN prog.globals |-> Object(0, g, prog.globals[g])]
  \o SX!FlattenSeq([f \in DOMAIN prog.funcs |->
       Each(SelectSeq(ItemList(prog.funcs[f]), LAMBDA i : i.do = "alloca"),
            LAMBDA i : <<Object(f, i.dst, i.size)>>)])

(* The number of the object an operand is. *)
Among(objects, f, a) ==
  {k \in DOMAIN objects : \/ objects[k].f = 0 /\ a = Place(objects[k].n, 0)
                          \/ objects[k].f = f /\ a = Val(objects[k].n)}

ObjectAt(prog, f, a) == Among(Objects(prog), f, a)

SlotsBefore(objects, k) == SX!FoldLeft(LAMBDA n, o : n + o.size, 0, SubSeq(objects, 1, k - 1))
=============================================================================
