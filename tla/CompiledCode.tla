---------------------------- MODULE CompiledCode -----------------------------
(***************************************************************************)
(* From an optimised LLVM module to the chip: the stages of cmd/ic11c's    *)
(* compile from the pointer check on, and then the emitted lines, run      *)
(* next to the functions they came from.  The source side performs its     *)
(* next effect (a device read or write, a sleep, the end) and owes it to   *)
(* the chip, which must perform the same one before the source goes on.    *)
(***************************************************************************)
EXTENDS Peephole, Selection, Placement, Int32Range

CONSTANTS
  Sources,      \* the programs to compile
  NumGeneral    \* general registers the allocator may hand out

ASSUME CompiledCodeAssumption == NumGeneral \in 1..16

Mir == INSTANCE MirFunc WITH VRegs <- Nat
Ptr == INSTANCE Pointers

VARIABLES
  prog,     \* the program being compiled
  stage,    \* what compile does next, or how it ended
  plans,    \* what selection plans of each function
  code,     \* the machine code so far, function by function
  lines,    \* the emitted lines
  frames,   \* activations of the source side, innermost last
  heap,     \* the source side's objects, slot by slot
  owed,     \* the effect the source has performed and the chip has not
  regs,     \* the chip's registers
  cells,    \* the chip's memory
  pc        \* the chip's next line, counted from zero

compiler == <<prog, stage, plans, code, lines>>
source   == <<frames, heap, owed>>
chip     == <<regs, cells, pc>>
vars     == <<compiler, source, chip>>

Defective == {"malformed", "unreadable", "lost"}   \* ended by a check of the compiler's own
Refusals  == {"refused", "misplaced"}              \* ended by a diagnostic

-----------------------------------------------------------------------------
(* The stages of compile *)

Zeroed(size) == [at \in 0..(size - 1) |-> 0]

Init ==
  /\ prog \in Sources
  /\ stage = "check"
  /\ plans = <<>> /\ code = <<>> /\ lines = <<>>
  /\ frames = <<[f |-> 1, b |-> 1, k |-> 1, vals |-> <<>>, kept |-> <<>>]>>
  /\ heap = [k \in DOMAIN Objects(prog) |-> Zeroed(Objects(prog)[k].size)]
  /\ owed = <<>>
  /\ regs = [r \in 0..RA |-> 0]
  /\ cells = Zeroed(NumCells)
  /\ pc = 0

Compiling == UNCHANGED <<prog, source, chip>>

CheckPointers ==
  /\ stage = "check"
  /\ stage' = IF Ptr!PointersAccepted(prog) THEN "plan" ELSE "refused"
  /\ UNCHANGED <<plans, code, lines>> /\ Compiling

PlanAddresses ==
  /\ stage = "plan"
  /\ plans' = [f \in DOMAIN prog.funcs |-> Planned(prog, f, Unplaced(prog))]
  /\ stage' = "select"
  /\ UNCHANGED <<code, lines>> /\ Compiling

(* An operand no value was produced for. *)
HoldsLost(blocks) ==
  \E b \in DOMAIN blocks : \E k \in DOMAIN blocks[b].instrs :
    Lost \in SX!ToSet(blocks[b].instrs[k].args)

SelectProgram ==
  /\ stage = "select"
  /\ IF SelectionRefuses(plans) \/ NarrowingRefused(prog) \/ LiteralsRefused(Select(plans))
     THEN stage' = "refused" /\ UNCHANGED code
     ELSE /\ code' = Select(plans)
          /\ stage' = IF \E f \in DOMAIN code' : HoldsLost(code'[f]) THEN "lost"
                      ELSE IF Validates(code') THEN "materialise" ELSE "malformed"
  /\ UNCHANGED <<plans, lines>> /\ Compiling

MaterialiseProgram ==
  /\ stage = "materialise"
  /\ code' = [f \in DOMAIN code |-> MaterialiseUnreadable(code[f])]
  /\ stage' = IF \E f \in DOMAIN code : StillUnreadable(code'[f]) THEN "unreadable"
              ELSE "allocate"
  /\ UNCHANGED <<plans, lines>> /\ Compiling

(* The function the allocator reads: virtual registers and edges.           *)
VirtIn(args) ==
  Each(args, LAMBDA a : IF IsVirt(a) THEN <<a.virt>> ELSE <<>>)

AllocatorView(blocks) ==
  [code |-> [b \in DOMAIN blocks |-> [k \in DOMAIN blocks[b].instrs |->
      LET instr == blocks[b].instrs[k]
      IN  [args |-> VirtIn(ReadArgs(instr)),
           def  |-> IF Writes(instr) /\ IsVirt(instr.args[1]) THEN {instr.args[1].virt} ELSE {},
           dev  |-> {}, call |-> instr.op = "jal"]]],
   succs |-> [b \in DOMAIN blocks |->
                {s \in DOMAIN blocks : blocks[s].label \in blocks[b].succs}]]

VirtsOf(blocks) == {a.virt : a \in {x \in RegsOf(blocks) : IsVirt(x)}}
PinnedIn(blocks) == {a.phys : a \in {x \in RegsOf(blocks) : IsPhys(x)}}

(* What LinearScan shows of an allocation without spills: values live at    *)
(* one point have registers of their own, and none the code names itself.   *)
(* Values are placed one after the other in the lowest or highest free one. *)
Colouring(blocks, points, fromTop) ==
  LET general == (0..(NumGeneral - 1)) \ PinnedIn(blocks)
      Pick(S) == CHOOSE r \in S : \A q \in S : IF fromTop THEN r >= q ELSE r <= q
      Colour(v, col) ==
        LET taken == {col[w] : w \in {u \in DOMAIN col : points[u] \cap points[v] # {}}}
        IN  [x \in DOMAIN col \cup {v} |-> IF x = v THEN Pick(general \ taken) ELSE col[x]]
  IN  FSX!FoldSet(Colour, <<>>, VirtsOf(blocks))

(* Around a call, the registers of the values wanted after it.              *)
Saves(view, points, col, b, k) ==
  LET after == Mir!DefPoint(Mir!FirstIndex(view, b) + k - 1)
      held == {col[v] : v \in {w \in DOMAIN col : after \in points[w]}}
  IN  IF view.code[b][k].call
      THEN SelectSeq([i \in 1..NumGeneral |-> i - 1], LAMBDA r : r \in held) ELSE <<>>

Rewritten(blocks, fromTop) ==
  LET view == AllocatorView(blocks)
      points == [v \in VirtsOf(blocks) |-> Mir!LivePoints(view, v)]
      col == Colouring(blocks, points, fromTop)
      Home(a) == IF IsVirt(a) THEN Phys(col[a.virt]) ELSE a
      Expand(b, k) ==
        LET instr == blocks[b].instrs[k]
            saved == Saves(view, points, col, b, k)
        IN  [i \in DOMAIN saved |-> Plain("push", <<Phys(saved[i])>>)]
            \o <<[instr EXCEPT !.args = [i \in DOMAIN @ |-> Home(@[i])]]>>
            \o SX!Reverse([i \in DOMAIN saved |-> Plain("pop", <<Phys(saved[i])>>)])
  IN  [b \in DOMAIN blocks |->
         [blocks[b] EXCEPT !.instrs =
            SX!FlattenSeq([k \in DOMAIN @ |-> Expand(b, k)])]]

(* SetStackBase: frames start past the data region.                          *)
StackBase == RegionSize(plans[1])

SetStackBase(blocks) == PrependTo(blocks, Plain("move", <<Phys(SP), Imm(StackBase)>>))

Allocate ==
  /\ stage = "allocate"
  /\ \E fromTop \in BOOLEAN :
       LET homes == [f \in DOMAIN code |-> Rewritten(code[f], fromTop)]
       IN  code' = IF CallsOut(AllBlocks(code))
                   THEN [homes EXCEPT ![1] = SetStackBase(@)] ELSE homes
  /\ stage' = "peephole"
  /\ UNCHANGED <<plans, lines>> /\ Compiling

Clean ==
  /\ stage = "peephole"
  /\ code' = [f \in DOMAIN code |-> PeepholeRun(code[f])]
  /\ stage' = IF PlacementRefused(code') THEN "misplaced" ELSE "emit"
  /\ UNCHANGED <<plans, lines>> /\ Compiling

(* resolveLabels: one line for every instruction.                            *)
LineOf(blocks, label) ==
  LET at == CHOOSE b \in DOMAIN blocks : blocks[b].label = label
  IN  SX!FoldLeft(LAMBDA n, b : n + Len(blocks[b].instrs), 0, [b \in 1..(at - 1) |-> b])

Emit ==
  /\ stage = "emit"
  /\ IF ~Validates(code) THEN stage' = "malformed" /\ UNCHANGED <<code, lines>>
     ELSE LET blocks == AllBlocks(code)
              Line(a) == IF IsLabel(a) THEN Imm(LineOf(blocks, a.label)) ELSE a
          IN  /\ lines' = Each(blocks, LAMBDA b : [k \in DOMAIN b.instrs |->
                             [b.instrs[k] EXCEPT !.args = [i \in DOMAIN @ |-> Line(@[i])]]])
              /\ stage' = "run"
              /\ UNCHANGED code
  /\ UNCHANGED plans /\ Compiling

-----------------------------------------------------------------------------
(* The source side *)

Running == stage = "run" /\ owed = <<>> /\ frames # <<>>

Frm == SX!Last(frames)
Fn  == prog.funcs[Frm.f]
Blk == Fn.blocks[Frm.b]

Pointer(k, at) == [object |-> k, at |-> at]

ValueOf(a) ==
  CASE IsVal(a)     -> Frm.vals[a.val]
    [] IsLit(a)     -> a.lit
    [] IsPlace(a)   -> Pointer(a.obj, a.at)
    [] IsAddress(a) -> SlotBytes * SlotsBefore(Objects(prog), a.addr) + a.at

ValuesOf(args) == [i \in DOMAIN args |-> ValueOf(args[i])]

Bind(vals, new) == [n \in DOMAIN vals \cup DOMAIN new |->
                      IF n \in DOMAIN new THEN new[n] ELSE vals[n]]

Def(n, v) == [x \in {n} |-> v]

AtItem == Frm.k <= Len(Blk.items)
Item   == Blk.items[Frm.k]

\* The innermost activation after its item.
Stepped(new) == [frames EXCEPT ![Len(frames)].k = @ + 1, ![Len(frames)].vals = Bind(@, new)]

Owe(kind, values) == owed' = <<[kind |-> kind, values |-> values]>>

Source == UNCHANGED <<compiler, chip>>

SourceRead ==
  /\ Running /\ AtItem /\ Item.do = "read"
  /\ \E v \in prog.domain :
       frames' = Stepped(Def(Item.dst, v)) /\ Owe("read", <<v>>)
  /\ UNCHANGED heap /\ Source

(* Arithmetic that int32range.go lets through, when it can read no range of  *)
(* the operands, as if it kept them narrow: it does not, of a loop counter.  *)
Growing == {"add", "sub", "mul", "fadd", "fsub", "fmul", "shl", "icshl",
            "and", "icand", "or", "xor", "ashr"}

CarriesAndKeeps(fn, item) == CarriesInt32(fn, item) /\ item.do \notin Growing

Grown == INSTANCE ValueFlow WITH Stops <- Int32Result, Carries <- CarriesAndKeeps, Seeded <- Unranged

Outgrown(hash) == hash # Narrowed(hash) /\ <<Frm.f, Item.args[1].val>> \in Grown!Reaches(prog)

(* What a store shows: a hash that grew so reaches the chip unremarked.      *)
Shown(values) ==
  IF Item.do = "batch" /\ Outgrown(values[1])
  THEN <<Narrowed(values[1]), values[2]>> ELSE values

SourceEffect ==
  /\ Running /\ AtItem /\ Item.do \in {"write", "batch", "sleep"}
  /\ frames' = Stepped(<<>>) /\ Owe(Item.do, Shown(ValuesOf(Item.args)))
  /\ UNCHANGED heap /\ Source

Truncation(a, b) == Number(Truncated(Quotient(a, b)))

(* The address of a pointer, as a number. *)
Address(p) == SlotBytes * SlotsBefore(Objects(prog), p.object) + p.at

(* A pointer moved by indices, each over a stride in bytes. *)
Stepping(p, indices, strides) ==
  [p EXCEPT !.at = SX!FoldLeft(LAMBDA n, k : n + Number(indices[k]) * strides[k], @,
                               [k \in DOMAIN strides |-> k])]

Answer(item, a) ==
  CASE item.type = "int"      -> HoldsInt(item.pred, a[1], a[2])
    [] item.type = "samesign" -> HoldsInt(item.pred, a[1], a[2])
    [] item.type = "truth"    -> HoldsTruth(item.pred, a[1], a[2])
    [] item.type = "float"    -> HoldsFloat(item.pred, a[1], a[2])

(* What an item makes of its operands, as LLVM has it. *)
Made(item, a) ==
  CASE item.do \in {"freeze", "zext", "sitofp"} -> a[1]
    [] item.do = "fptosi"               -> Number(Truncated(a[1]))
    [] item.do = "ictrunc"              -> Truncated(a[1])
    [] item.do = "icabs"                -> Absolute(a[1])
    [] item.do = "select"               -> IF a[1] = 1 THEN a[2] ELSE a[3]
    [] item.do = "cmp"                  -> Truth(Answer(item, a))
    [] item.do = "alloca"               -> Pointer(CHOOSE k \in ObjectAt(prog, Frm.f, Val(item.dst)) : TRUE, 0)
    [] item.do = "gep"                  -> Stepping(a[1], Tail(a), item.strides)
    [] item.do = "ptrtoint"             -> Address(a[1])
    [] item.do \in {"add", "fadd"}      -> Sum(a[1], a[2])
    [] item.do \in {"sub", "fsub"}      -> Difference(a[1], a[2])
    [] item.do \in {"mul", "fmul"}      -> Product(a[1], a[2])
    [] item.do = "fdiv"                 -> Quotient(a[1], a[2])
    [] item.do = "sdiv"                 -> Truncation(a[1], a[2])
    [] item.do = "srem"                 -> a[1] - Truncation(a[1], a[2]) * a[2]
    [] item.do = "fneg"                 -> Minus(a[1])
    [] item.do = "sext"                 -> -a[1]
    [] item.do = "trunc"                -> a[1] % 2
    [] item.do \in {"and", "icand"}     -> And(a[1], a[2])
    [] item.do = "or"                   -> Or(a[1], a[2])
    [] item.do = "xor"                  -> Xor(a[1], a[2])
    [] item.do \in {"shl", "icshl"}     -> ShiftLeft(a[1], a[2])
    [] item.do = "ashr"                 -> ShiftRight(a[1], a[2])

SourceCompute ==
  /\ Running /\ AtItem
  /\ Item.do \notin {"read", "write", "batch", "sleep", "load", "store", "call"}
  /\ frames' = Stepped(Def(Item.dst, Made(Item, ValuesOf(Item.args))))
  /\ UNCHANGED <<heap, owed>> /\ Source

(* Memory holds whole slots: a pointer into the middle of one has nothing.   *)
InMemory(p) == p.at % SlotBytes = 0 /\ p.at \div SlotBytes \in DOMAIN heap[p.object]
SlotIn(p)   == p.at \div SlotBytes

SourceLoad ==
  /\ Running /\ AtItem /\ Item.do = "load" /\ InMemory(ValueOf(Item.args[1]))
  /\ LET p == ValueOf(Item.args[1])
     IN  frames' = Stepped(Def(Item.dst, heap[p.object][SlotIn(p)]))
  /\ UNCHANGED <<heap, owed>> /\ Source

SourceStore ==
  /\ Running /\ AtItem /\ Item.do = "store" /\ InMemory(ValueOf(Item.args[2]))
  /\ LET p == ValueOf(Item.args[2])
     IN  heap' = [heap EXCEPT ![p.object][SlotIn(p)] = ValueOf(Item.args[1])]
  /\ frames' = Stepped(<<>>)
  /\ UNCHANGED owed /\ Source

SourceCall ==
  /\ Running /\ AtItem /\ Item.do = "call"
  /\ LET params == prog.funcs[Item.callee].params
         args == ValuesOf(Item.args)
         Bound == [n \in SX!ToSet(params) |-> args[CHOOSE i \in DOMAIN params : params[i] = n]]
     IN  frames' = Append(frames, [f |-> Item.callee, b |-> 1, k |-> 1, vals |-> Bound, kept |-> heap])
  /\ UNCHANGED <<heap, owed>> /\ Source

Target ==
  LET term == Blk.term
      chosen == {i \in DOMAIN term.cases : term.cases[i] = ValueOf(term.args[1])}
  IN  CASE term.kind = "br"     -> term.targets[1]
        [] term.kind = "cbr"    -> term.targets[IF ValueOf(term.args[1]) = 1 THEN 1 ELSE 2]
        [] term.kind = "switch" -> term.targets[IF chosen = {} THEN 1
                                                ELSE 1 + (CHOOSE i \in chosen : TRUE)]

(* All phis of the target take their values at once.                        *)
PhiValues(s) ==
  LET phis == Fn.blocks[s].phis
      Incoming(p) == p.from[CHOOSE i \in DOMAIN p.from : p.from[i][1] = Frm.b][2]
      Of(n) == CHOOSE p \in SX!ToSet(phis) : p.dst = n
  IN  [n \in {p.dst : p \in SX!ToSet(phis)} |-> ValueOf(Incoming(Of(n)))]

SourceBranch ==
  /\ Running /\ ~AtItem /\ Blk.term.kind # "ret"
  /\ frames' = [frames EXCEPT ![Len(frames)] =
                  [@ EXCEPT !.b = Target, !.k = 1, !.vals = Bind(@, PhiValues(Target))]]
  /\ UNCHANGED <<heap, owed>> /\ Source

(* An activation leaves the locals of an outer one of its function as it    *)
(* found them.                                                              *)
SourceReturn ==
  /\ Running /\ ~AtItem /\ Blk.term.kind = "ret" /\ Len(frames) > 1
  /\ LET outer == SX!Front(frames)
         call == prog.funcs[SX!Last(outer).f].blocks[SX!Last(outer).b].items[SX!Last(outer).k]
         result == IF Blk.term.args = <<>> THEN 0 ELSE ValueOf(Blk.term.args[1])
     IN  frames' = [outer EXCEPT ![Len(outer)].k = @ + 1,
                                 ![Len(outer)].vals = Bind(@, Def(call.dst, result))]
  /\ heap' = [k \in DOMAIN heap |->
                IF Objects(prog)[k].f = Frm.f THEN Frm.kept[k] ELSE heap[k]]
  /\ UNCHANGED owed /\ Source

SourceEnd ==
  /\ Running /\ ~AtItem /\ Blk.term.kind = "ret" /\ Len(frames) = 1
  /\ frames' = <<>> /\ Owe("end", <<>>)
  /\ UNCHANGED heap /\ Source

-----------------------------------------------------------------------------
(* The chip, which runs while an effect is owed *)

Line == lines[pc + 1]

OnLine(ops) == stage = "run" /\ owed # <<>> /\ pc < Len(lines) /\ Line.op \in ops

Held(a) == IF IsImm(a) THEN a.imm ELSE regs[a.phys]
Arg(i)  == Held(Line.args[i])

Into(v) == regs' = [regs EXCEPT ![Line.args[1].phys] = v]

Chip == UNCHANGED <<compiler, frames, heap>>

(* What the line the chip is at would do to the world.                      *)
Effect ==
  IF pc >= Len(lines) THEN [kind |-> "end", values |-> <<>>]
  ELSE CASE Line.op = "read"  -> [kind |-> "read", values |-> owed[1].values]
         [] Line.op = "write" -> [kind |-> "write", values |-> [i \in DOMAIN Line.args |-> Arg(i)]]
         [] Line.op = "sb"    -> [kind |-> "batch", values |-> <<Narrowed(Arg(1)), Arg(2)>>]
         [] Line.op = "sleep" -> [kind |-> IF pc = 0 THEN "stall" ELSE "sleep", values |-> <<>>]
         [] OTHER             -> [kind |-> "none", values |-> <<>>]

Perform ==
  /\ stage = "run" /\ owed # <<>> /\ owed[1] = Effect
  /\ owed' = <<>>
  /\ IF Effect.kind = "read" THEN Into(Effect.values[1]) ELSE UNCHANGED regs
  /\ pc' = IF Effect.kind = "end" THEN pc ELSE pc + 1
  /\ UNCHANGED cells /\ Chip

Computed ==
  CASE Line.op = "move"   -> Arg(2)
    [] Line.op = "set"    -> Truth(Holds(Line.pred, Arg(2), Arg(3)))
    [] Line.op = "set0"   -> Truth(Holds(Line.pred, Arg(2), 0))
    [] Line.op = "snan"   -> Truth(Arg(2) = NaN)
    [] Line.op = "snanz"  -> Truth(Arg(2) # NaN)
    [] Line.op = "select" -> IF Holds("ne", Arg(2), 0) THEN Arg(3) ELSE Arg(4)
    [] Line.op = "add"    -> Sum(Arg(2), Arg(3))
    [] Line.op = "sub"    -> Difference(Arg(2), Arg(3))
    [] Line.op = "mul"    -> Product(Arg(2), Arg(3))
    [] Line.op = "div"    -> Quotient(Arg(2), Arg(3))
    [] Line.op = "trunc"  -> Truncated(Arg(2))
    [] Line.op = "abs"    -> Absolute(Arg(2))

Calculate ==
  /\ OnLine({"move", "set", "set0", "snan", "snanz", "select", "add", "sub", "mul", "div", "trunc", "abs"})
  /\ Into(Computed)
  /\ pc' = pc + 1
  /\ UNCHANGED <<owed, cells>> /\ Chip

Bitwise ==
  CASE Line.op = "and" -> And(Arg(2), Arg(3))
    [] Line.op = "or"  -> Or(Arg(2), Arg(3))
    [] Line.op = "xor" -> Xor(Arg(2), Arg(3))
    [] Line.op = "not" -> Not(Arg(2))
    [] Line.op = "sll" -> ShiftLeft(Arg(2), Arg(3))
    [] Line.op = "sra" -> ShiftRight(Arg(2), Arg(3))

(* The chip stops on an operand no integer is. *)
Combine ==
  /\ OnLine({"and", "or", "xor", "not", "sll", "sra"})
  /\ \A i \in 2..Len(Line.args) : Converts(Arg(i))
  /\ Into(Bitwise)
  /\ pc' = pc + 1
  /\ UNCHANGED <<owed, cells>> /\ Chip

(* An address is narrowed to a whole number, and the chip stops outside      *)
(* memory.                                                                   *)
Get ==
  /\ OnLine({"get"}) /\ Arg(2) # NaN /\ Number(Arg(2)) \in DOMAIN cells
  /\ Into(cells[Number(Arg(2))])
  /\ pc' = pc + 1
  /\ UNCHANGED <<owed, cells>> /\ Chip

Poke ==
  /\ OnLine({"poke"}) /\ Arg(1) # NaN /\ Number(Arg(1)) \in DOMAIN cells
  /\ cells' = [cells EXCEPT ![Number(Arg(1))] = Arg(2)]
  /\ pc' = pc + 1
  /\ UNCHANGED <<owed, regs>> /\ Chip

Taken ==
  CASE Line.op = "br"   -> Holds(Line.pred, Arg(1), Arg(2))
    [] Line.op = "br0"  -> Holds(Line.pred, Arg(1), 0)
    [] Line.op = "bnan" -> Arg(1) = NaN
    [] Line.op = "j"    -> TRUE

Jump ==
  /\ OnLine({"br", "br0", "bnan", "j"})
  /\ pc' = IF Taken THEN Held(SX!Last(Line.args)) ELSE pc + 1
  /\ UNCHANGED <<owed, regs, cells>> /\ Chip

Link ==
  /\ OnLine({"jal"})
  /\ regs' = [regs EXCEPT ![RA] = pc + 1]
  /\ pc' = Arg(1)
  /\ UNCHANGED <<owed, cells>> /\ Chip

Push ==
  /\ OnLine({"push"}) /\ regs[SP] \in DOMAIN cells
  /\ cells' = [cells EXCEPT ![regs[SP]] = Arg(1)]
  /\ regs' = [regs EXCEPT ![SP] = @ + 1]
  /\ pc' = pc + 1
  /\ UNCHANGED owed /\ Chip

Pop ==
  /\ OnLine({"pop"}) /\ regs[SP] - 1 \in DOMAIN cells
  /\ regs' = [regs EXCEPT ![SP] = @ - 1, ![Line.args[1].phys] = cells[regs[SP] - 1]]
  /\ pc' = pc + 1
  /\ UNCHANGED <<owed, cells>> /\ Chip

Clear ==
  /\ OnLine({"clr"})
  /\ cells' = [c \in DOMAIN cells |-> 0]
  /\ pc' = pc + 1
  /\ UNCHANGED <<owed, regs>> /\ Chip

Over ==
  /\ \/ stage \in Defective \cup Refusals
     \/ stage = "run" /\ frames = <<>> /\ owed = <<>>
  /\ UNCHANGED vars

CompilerStep ==
  \/ CheckPointers \/ PlanAddresses \/ SelectProgram
  \/ MaterialiseProgram \/ Allocate \/ Clean \/ Emit

SourceStep ==
  \/ SourceRead \/ SourceEffect \/ SourceCompute \/ SourceLoad \/ SourceStore \/ SourceCall
  \/ SourceBranch \/ SourceReturn \/ SourceEnd

ChipStep ==
  \/ Perform \/ Calculate \/ Combine \/ Get \/ Poke
  \/ Jump \/ Link \/ Push \/ Pop \/ Clear

Next == CompilerStep \/ SourceStep \/ ChipStep \/ Over

Spec == Init /\ [][Next]_vars /\ WF_vars(ChipStep)

-----------------------------------------------------------------------------
(* Properties *)

(* What is made of the pointers a program loads, on their way to an access.  *)
FromLoads(module) ==
  LET LoadedIn(f) == {i \in Items(module.funcs[f]) :
                        i.do = "load" /\ i.dst \in module.funcs[f].pointers}
  IN  Ptr!Spread(module, UNION {{Ptr!Node(f, Val(i.dst)) : i \in LoadedIn(f)} :
                                 f \in DOMAIN module.funcs})

(* No pointer is stored through a loaded one, where storedInto has no look.  *)
StoresSeen(module) ==
  \A f \in DOMAIN module.funcs : \A i \in Items(module.funcs[f]) :
    (i.do = "store" /\ (IsPlace(i.args[1]) \/ i.args[1] \in {Val(n) : n \in module.funcs[f].pointers}))
      => Ptr!Node(f, i.args[2]) \notin FromLoads(module)

(* Every access of a program the pointer check has passed reaches the one   *)
(* object the walk from its pointer names, through whatever merges and      *)
(* calls the pointer came and whatever variable it was kept in; this says   *)
(* nothing of a program that stores a pointer through a loaded one, whose    *)
(* store storedInto misses.                                                  *)
AccessesNamed ==
  (stage = "run" /\ Running /\ AtItem /\ Item.do \in {"load", "store"} /\ StoresSeen(prog)) =>
    LET pointer == SX!Last(Item.args)
    IN  ValueOf(pointer).object \in Ptr!Resolve(prog, Ptr!Node(Frm.f, pointer), {}).objects

(* The chip never performs an effect the source did not perform next:      *)
(* selection, copies on edges, materialised literals, inverted branches,   *)
(* dropped jumps, frames and line numbers together keep what the program   *)
(* does, whatever it reads.  Only a hash that outgrew the narrow range in    *)
(* arithmetic no range was read of is owed as what it is narrowed to.       *)
SameEffect ==
  (stage = "run" /\ owed # <<>>) => Effect = owed[1] \/ Effect.kind = "none"

(* What the compiler checks of its own work never fails, so its user is     *)
(* never told of a malformed program that was made here.                    *)
NoDefect == stage \notin Defective

(* No jump is left to the line that follows it, nor a branch that could be  *)
(* turned round to take the place of the jump it steps over.                *)
NoNeedlessJump ==
  stage = "run" =>
    \A n \in 1..Len(lines) :
      /\ lines[n].op = "j" => lines[n].args[1] # Imm(n)
      /\ (n > 1 /\ lines[n].op = "j" /\ lines[n - 1].op \in {"br", "br0"}
                 /\ Complemented(lines[n - 1])) =>
           SX!Last(lines[n - 1].args) # Imm(n)

(* Whatever the source performs the chip performs too: it neither stops     *)
(* short of it, nor goes round for ever, nor runs out of stack.             *)
EffectsHappen == owed # <<>> ~> owed = <<>>
=============================================================================
