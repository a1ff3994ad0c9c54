--------------------------- MODULE AllocatedCode ----------------------------
(***************************************************************************)
(* Allocation followed by the code it leaves behind: the spill and         *)
(* call-frame code rewrite.go puts around every instruction, run next to   *)
(* the virtual program it replaces.  Of the machine only this is kept: for *)
(* each register and memory cell, which virtual registers' current values  *)
(* it holds.  Any execution of the function, however long, is then a path  *)
(* through finitely many states.                                           *)
(***************************************************************************)
EXTENDS LinearScan

Mir == INSTANCE MirFunc
SX == INSTANCE SequencesExt

CONSTANT Programs     \* the functions to compile

(* A function with the input Allocate computes for it, whether it can reach *)
(* itself through a call, and the cells between its own spill slots and    *)
(* the first frame it pushes: other functions' slots and callers' frames.  *)
Program ==
  [func : Mir!MirFuncs, input : Inputs, recursive : BOOLEAN, above : Nat]

ASSUME ProgramsAssumption ==
  /\ Programs \subseteq Program
  /\ \A p \in Programs : Mir!EdgesInside(p.func) /\ p.func.code # <<>>

(* What Allocate is given describes the function: its instructions, each   *)
(* with at most one result and a link opcode with none, and the intervals  *)
(* Liveness.tla finds its liveness pass to build.                          *)
ASSUME InputsDescribeFunctions ==
  \A p \in Programs :
    /\ \A i \in Mir!InstrsOf(p.func) :
         /\ [args |-> i.args, def |-> i.def, call |-> i.call] \in p.input.instrs
         /\ \A v, w \in i.def : v = w
         /\ i.call => i.def = {}
    /\ \A v \in VRegs : p.input.ivs[v].points = Mir!LivePoints(p.func, v)

VARIABLES
  prog,      \* the function being compiled
  stage,     \* "allocate", "run", "exited" or "rejected"
  pc,        \* block and position of the next instruction of the function
  todo,      \* what is left of the current instruction's expansion
  regs,      \* the virtual registers whose value each register holds
  memory,    \* the same for each memory cell
  sp,        \* the stack pointer
  defined    \* virtual registers written so far on this path

code == <<pc, todo, regs, memory, sp, defined>>
all  == <<vars, prog, stage, code>>

Cells == 0..(NumMemorySlots - 1)

Foreign == -1         \* what a cell that belongs to somebody else holds

-----------------------------------------------------------------------------
(* planRewrite *)

\* Seeded fault: slots numbered from the start of the data region.
SlotOfUnbased(v) == slots[v]

SlotOf(v) == fn.base + slots[v]

(* The members of a set of numbers, the least first. *)
InOrder(S) ==
  [i \in 1..Cardinality(S) |-> CHOOSE n \in S : Cardinality({m \in S : m <= n}) = i]

(* spilledReads keeps the first mention of each spilled operand. *)
FirstMentions(instr) ==
  {i \in DOMAIN instr.args : /\ instr.args[i] \in spilled
                             /\ \A j \in 1..(i - 1) : instr.args[j] # instr.args[i]}

ReloadOrder(instr) ==
  LET at == InOrder(FirstMentions(instr))
  IN  [i \in DOMAIN at |-> instr.args[at[i]]]

(* The register standing for an operand: its own, or the scratch register  *)
(* it was reloaded into; a spilled result that is not read gets the first. *)
RegisterFor(instr, v) ==
  LET reads == ReloadOrder(instr)
  IN  IF v \notin spilled THEN assigned[v]
      ELSE IF SX!Contains(reads, v)
           THEN fn.scratch[CHOOSE i \in DOMAIN reads : reads[i] = v]
           ELSE fn.scratch[1]

(* callSaves: the registers of values wanted after the call. *)
Saved(instr, index) ==
  IF instr.call
  THEN InOrder({assigned[v] : v \in {w \in Present \ spilled :
                                       Mir!DefPoint(index) \in fn.ivs[w].points}})
  ELSE <<>>

Push(r)        == [op |-> "push", reg |-> r]
Pop(r)         == [op |-> "pop", reg |-> r]
Get(r, cell)   == [op |-> "get", reg |-> r, cell |-> cell]
Poke(cell, r)  == [op |-> "poke", reg |-> r, cell |-> cell]
Run(instr)     == [op |-> "run", instr |-> instr]

Stores(instr) ==
  LET out == InOrder(instr.def \cap spilled)
  IN  [i \in DOMAIN out |-> Poke(SlotOf(out[i]), RegisterFor(instr, out[i]))]

\* Seeded fault: registers come back in the order they were pushed.
ExpansionUnmirrored(instr, index) ==
  LET saved == Saved(instr, index)
      reads == ReloadOrder(instr)
  IN  [i \in DOMAIN saved |-> Push(saved[i])]
      \o [i \in DOMAIN reads |-> Get(RegisterFor(instr, reads[i]), SlotOf(reads[i]))]
      \o <<Run(instr)>> \o Stores(instr)
      \o [i \in DOMAIN saved |-> Pop(saved[i])]

\* Seeded fault: the last register pushed is left in the frame.
ExpansionUnbalanced(instr, index) ==
  LET saved == Saved(instr, index)
      reads == ReloadOrder(instr)
  IN  [i \in DOMAIN saved |-> Push(saved[i])]
      \o [i \in DOMAIN reads |-> Get(RegisterFor(instr, reads[i]), SlotOf(reads[i]))]
      \o <<Run(instr)>> \o Stores(instr)
      \o SX!Reverse([i \in 1..(Len(saved) - 1) |-> Pop(saved[i])])

(* What an instruction becomes: frame, reloads, itself, store, frame.      *)
Expansion(instr, index) ==
  LET saved == Saved(instr, index)
      reads == ReloadOrder(instr)
  IN  [i \in DOMAIN saved |-> Push(saved[i])]
      \o [i \in DOMAIN reads |-> Get(RegisterFor(instr, reads[i]), SlotOf(reads[i]))]
      \o <<Run(instr)>> \o Stores(instr)
      \o SX!Reverse([i \in DOMAIN saved |-> Pop(saved[i])])

InstrAt(place) == prog.func.code[place[1]][place[2]]
IndexOf(place) == Mir!FirstIndex(prog.func, place[1]) + place[2] - 1
AtEnd(place)   == place[2] > Len(prog.func.code[place[1]])

-----------------------------------------------------------------------------
(* The driver around Allocate *)

InitCode ==
  /\ prog \in Programs
  /\ fn = prog.input
  /\ Init
  /\ stage = "allocate"
  /\ pc = <<1, 1>>
  /\ todo = <<>>
  /\ regs = [r \in Registers |-> {}]
  /\ memory = [c \in Cells |-> {Foreign}]
  /\ sp = 0
  /\ defined = {}

Allocate ==
  /\ stage = "allocate"
  /\ Step
  /\ UNCHANGED <<prog, stage, code>>

\* Where the first frame of this activation goes.
FrameBase == fn.base + SlotCount + prog.above

(* The most cells the frames of this activation take at once.              *)
DeepestFrame ==
  Max({Len(Saved(InstrAt(p), IndexOf(p))) : p \in {q \in Mir!Places(prog.func) : ~AtEnd(q)}}
      \cup {0})

(* frames.Measure: frames that reach past the memory array are an error.   *)
FrameFits == FrameBase + DeepestFrame <= NumMemorySlots

(* A spill slot is one address for every activation of the function.       *)
SpillAllowed == prog.recursive => spilled = {}

Accepted == phase = "done" /\ SpillAllowed /\ FrameFits

Reject ==
  /\ stage = "allocate"
  /\ phase \in Outcomes
  /\ ~Accepted
  /\ stage' = "rejected"
  /\ UNCHANGED <<vars, prog, code>>

(* Entering the rewritten function: its own slots hold leftovers.          *)
Begin ==
  /\ stage = "allocate"
  /\ Accepted
  /\ stage' = "run"
  /\ sp' = FrameBase
  /\ memory' = [c \in Cells |->
                  IF c >= fn.base /\ c < fn.base + SlotCount THEN {} ELSE memory[c]]
  /\ UNCHANGED <<vars, prog, pc, todo, regs, defined>>

-----------------------------------------------------------------------------
(* Running the rewritten function *)

Fetch ==
  /\ stage = "run"
  /\ todo = <<>>
  /\ ~AtEnd(pc)
  /\ todo' = Expansion(InstrAt(pc), IndexOf(pc))
  /\ pc' = <<pc[1], pc[2] + 1>>
  /\ UNCHANGED <<vars, prog, stage, regs, memory, sp, defined>>

Branch ==
  /\ stage = "run"
  /\ todo = <<>>
  /\ AtEnd(pc)
  /\ \E b \in prog.func.succs[pc[1]] : pc' = <<b, 1>>
  /\ UNCHANGED <<vars, prog, stage, todo, regs, memory, sp, defined>>

Exit ==
  /\ stage = "run"
  /\ todo = <<>>
  /\ AtEnd(pc)
  /\ prog.func.succs[pc[1]] = {}
  /\ stage' = "exited"
  /\ UNCHANGED <<vars, prog, code>>

Doing(op) ==
  /\ stage = "run"
  /\ todo # <<>>
  /\ Head(todo).op = op
  /\ todo' = Tail(todo)
  /\ UNCHANGED <<vars, prog, stage, pc>>

DoPush ==
  /\ Doing("push")
  /\ sp \in Cells
  /\ memory' = [memory EXCEPT ![sp] = regs[Head(todo).reg]]
  /\ sp' = sp + 1
  /\ UNCHANGED <<regs, defined>>

DoPop ==
  /\ Doing("pop")
  /\ sp - 1 \in Cells
  /\ regs' = [regs EXCEPT ![Head(todo).reg] = memory[sp - 1]]
  /\ sp' = sp - 1
  /\ UNCHANGED <<memory, defined>>

DoGet ==
  /\ Doing("get")
  /\ regs' = [regs EXCEPT ![Head(todo).reg] = memory[Head(todo).cell]]
  /\ UNCHANGED <<memory, sp, defined>>

DoPoke ==
  /\ Doing("poke")
  /\ memory' = [memory EXCEPT ![Head(todo).cell] = regs[Head(todo).reg]]
  /\ UNCHANGED <<regs, sp, defined>>

(* The instruction itself: every copy of its result's old value is stale.  *)
DoRun ==
  /\ Doing("run")
  /\ ~Head(todo).instr.call
  /\ LET instr == Head(todo).instr
         dst   == {RegisterFor(instr, v) : v \in instr.def}
     IN  /\ regs' = [r \in Registers |->
                       IF r \in dst THEN instr.def ELSE regs[r] \ instr.def]
         /\ memory' = [c \in Cells |-> memory[c] \ instr.def]
         /\ defined' = defined \cup instr.def
  /\ UNCHANGED sp

(* A callee writes every register and the cells above the caller's frame;  *)
(* another activation of this very function writes its spill slots too.    *)
DoCall ==
  /\ Doing("run")
  /\ Head(todo).instr.call
  /\ regs' = [r \in Registers |-> {}]
  /\ memory' = [c \in Cells |->
                  IF \/ c >= sp
                     \/ prog.recursive /\ c >= fn.base /\ c < fn.base + SlotCount
                  THEN {} ELSE memory[c]]
  /\ UNCHANGED <<sp, defined>>

Ended == stage \in {"exited", "rejected"} /\ UNCHANGED all

NextCode ==
  \/ Allocate \/ Reject \/ Begin
  \/ Fetch \/ Branch \/ Exit
  \/ DoPush \/ DoPop \/ DoGet \/ DoPoke \/ DoRun \/ DoCall
  \/ Ended

\* Allocate is one goroutine running to its end.
CodeSpec == InitCode /\ [][NextCode]_all /\ WF_all(Allocate)

-----------------------------------------------------------------------------
(* Properties *)

(* Whenever an instruction of the function runs, on whatever path, each    *)
(* register standing for an operand holds that operand's current value:    *)
(* allocation, reloads, stores and call frames together lose nothing.      *)
OperandsHeld ==
  (stage = "run" /\ todo # <<>> /\ Head(todo).op = "run") =>
    \A v \in Mir!Reads(Head(todo).instr) \cap defined :
      v \in regs[RegisterFor(Head(todo).instr, v)]

(* Between two instructions the frame is empty, so sp is where it was on   *)
(* entry whichever way the function is left.                               *)
FrameBalanced ==
  (stage \in {"run", "exited"} /\ todo = <<>>) => sp = FrameBase

(* Globals, other functions' slots and callers' frames are never written:  *)
(* the slots a store names lie between the two.                            *)
ForeignKept ==
  stage = "run" =>
    \A c \in Cells :
      (c < fn.base \/ (c >= fn.base + SlotCount /\ c < FrameBase)) => memory[c] = {Foreign}

(* An accepted function never pushes past the end of the memory array,     *)
(* where the chip would stop with a stack overflow.                        *)
PushesFit ==
  (stage = "run" /\ todo # <<>> /\ Head(todo).op = "push") => sp \in Cells

FramesKept == FrameBalanced /\ PushesFit
=============================================================================
