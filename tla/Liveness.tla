------------------------------ MODULE Liveness ------------------------------
(***************************************************************************)
(* Where the register allocator's intervals come from                      *)
(* (internal/regalloc/liveness.go): block liveness iterated to a fixed     *)
(* point over the successor edges, then one backward walk over blocks and  *)
(* instructions that builds a range list per virtual register.             *)
(***************************************************************************)
EXTENDS MirFunc, LiveRanges

CONSTANT Funcs    \* the functions considered

ASSUME FuncsAssumption == \A f \in Funcs : f \in MirFuncs /\ EdgesInside(f)

VARIABLES
  fn,           \* the function
  phase,        \* "sweep", "open", "walk", "done" or "defect"
  at,           \* the block to visit next, 0 when the pass is over
  pos,          \* in a walk, the instruction to visit next
  changed,      \* the pass added something
  in, out,      \* live registers on entry to and exit from each block
  alive,        \* in a walk, the registers wanted after instruction pos
  ranges,       \* the interval of each register
  touches,      \* operand positions that name it
  constrained   \* registers that reach a device reference position

vars == <<fn, phase, at, pos, changed, in, out, alive, ranges, touches, constrained>>

Last == Len(fn.code)

BlockFrom(b) == UsePoint(FirstIndex(fn, b))
BlockTo(b)   == UsePoint(LastIndex(fn, b))

-----------------------------------------------------------------------------
(* Block summaries *)

Killed(b) == UNION {fn.code[b][k].def : k \in DOMAIN fn.code[b]}

\* Seeded fault: a read counts as upward exposed whatever was written before.
UpwardUnkilled(b) == UNION {Reads(fn.code[b][k]) : k \in DOMAIN fn.code[b]}

(* Read before any write of it in the block.                               *)
Upward(b) ==
  UNION {{v \in Reads(fn.code[b][k]) : \A j \in 1..(k - 1) : v \notin fn.code[b][j].def}
           : k \in DOMAIN fn.code[b]}

-----------------------------------------------------------------------------

Init ==
  /\ fn \in Funcs
  /\ phase = "sweep"
  /\ at = Last
  /\ pos = 0
  /\ changed = FALSE
  /\ in = [b \in Blocks(fn) |-> {}]
  /\ out = [b \in Blocks(fn) |-> {}]
  /\ alive = {}
  /\ ranges = [v \in VRegs |-> <<>>]
  /\ touches = [v \in VRegs |-> 0]
  /\ constrained = {}

(* One block of a pass: what the successors want flows up through it.      *)
SweepBlock ==
  /\ phase = "sweep"
  /\ at > 0
  /\ out' = [out EXCEPT ![at] = @ \cup UNION {in[s] : s \in fn.succs[at]}]
  /\ in' = [in EXCEPT ![at] = @ \cup (out'[at] \ Killed(at)) \cup Upward(at)]
  /\ changed' = (changed \/ in' # in \/ out' # out)
  /\ at' = at - 1
  /\ UNCHANGED <<fn, phase, pos, alive, ranges, touches, constrained>>

(* A pass that added something is followed by another.                     *)
AnotherPass ==
  /\ phase = "sweep"
  /\ at = 0
  /\ changed
  /\ at' = Last
  /\ changed' = FALSE
  /\ UNCHANGED <<fn, phase, pos, in, out, alive, ranges, touches, constrained>>

\* Seeded fault: one pass is taken for a fixed point.
SettledAfterOnePass ==
  /\ phase = "sweep"
  /\ at = 0
  /\ phase' = "open"
  /\ at' = Last
  /\ UNCHANGED <<fn, pos, changed, in, out, alive, ranges, touches, constrained>>

Settled ==
  /\ phase = "sweep"
  /\ at = 0
  /\ ~changed
  /\ phase' = "open"
  /\ at' = Last
  /\ UNCHANGED <<fn, pos, changed, in, out, alive, ranges, touches, constrained>>

(* A register live out of a block is first assumed live throughout it.     *)
OpenBlock ==
  /\ phase = "open"
  /\ at > 0
  /\ phase' = "walk"
  /\ pos' = Len(fn.code[at])
  /\ alive' = out[at]
  /\ ranges' = [v \in VRegs |-> IF v \in out[at]
                                THEN AddRange(ranges[v], BlockFrom(at), BlockTo(at))
                                ELSE ranges[v]]
  /\ UNCHANGED <<fn, at, changed, in, out, touches, constrained>>

Index == FirstIndex(fn, at) + pos - 1

\* Seeded fault: a value nobody reads gets no range.
WrittenDeadNowhere(rs, v) ==
  IF v \in alive THEN SetFrom(rs, DefPoint(Index)) ELSE rs

(* A write shortens the range assumed so far; a value nobody reads is live *)
(* at the write alone.                                                     *)
Written(rs, v) ==
  IF v \in alive THEN SetFrom(rs, DefPoint(Index))
                 ELSE AddRange(rs, DefPoint(Index), DefPoint(Index) + 1)

ReadUntil(rs) == AddRange(rs, BlockFrom(at), DefPoint(Index))

AliveBefore(instr) == (alive \ instr.def) \cup Reads(instr)

(* One instruction, backwards: its write first, then its reads.            *)
WalkInstr ==
  /\ phase = "walk"
  /\ pos > 0
  /\ LET instr == fn.code[at][pos]
         AfterDef(v) == IF v \in instr.def THEN Written(ranges[v], v) ELSE ranges[v]
     IN  /\ ranges' = [v \in VRegs |-> IF v \in Reads(instr) THEN ReadUntil(AfterDef(v))
                                                             ELSE AfterDef(v)]
         /\ alive' = AliveBefore(instr)
         /\ touches' = [v \in VRegs |-> touches[v] + Cardinality(instr.def \cap {v})
                          + Cardinality({i \in DOMAIN instr.args : instr.args[i] = v})]
         /\ constrained' = constrained \cup instr.dev
  /\ pos' = pos - 1
  /\ UNCHANGED <<fn, phase, at, changed, in, out>>

CloseBlock ==
  /\ phase = "walk"
  /\ pos = 0
  /\ phase' = "open"
  /\ at' = at - 1
  /\ UNCHANGED <<fn, pos, changed, in, out, alive, ranges, touches, constrained>>

(* The registers the walk made an interval for.                            *)
Known == {v \in VRegs : touches[v] > 0 \/ \E b \in Blocks(fn) : v \in out[b]}

(* An interval without a point would be a defect of the builder.           *)
Finish ==
  /\ phase = "open"
  /\ at = 0
  /\ phase' = IF \E v \in Known : Span(ranges[v]) = 0 THEN "defect" ELSE "done"
  /\ UNCHANGED <<fn, at, pos, changed, in, out, alive, ranges, touches, constrained>>

Terminated ==
  /\ phase \in {"done", "defect"}
  /\ UNCHANGED vars

Step ==
  \/ SweepBlock \/ AnotherPass \/ Settled
  \/ OpenBlock \/ WalkInstr \/ CloseBlock \/ Finish

Next == Step \/ Terminated

Spec == Init /\ [][Next]_vars

(* The builder runs alone on its thread: its loops go on until they end.   *)
FairSpec == Spec /\ WF_vars(Step)

-----------------------------------------------------------------------------
(* Properties *)

(* Once no pass adds anything (computeLiveness), block liveness solves the *)
(* dataflow equations on every edge, back edges included.                  *)
Equations(b) ==
  /\ out[b] = UNION {in[s] : s \in fn.succs[b]}
  /\ in[b] = (out[b] \ Killed(b)) \cup Upward(b)

FixedPoint == phase # "sweep" => \A b \in Blocks(fn) : Equations(b)

(* The finished intervals cover exactly the points at which the register's *)
(* value is wanted on some path, and count every operand naming it.        *)
IntervalsExact ==
  phase = "done" =>
    \A v \in VRegs : /\ Points(ranges[v]) = LivePoints(fn, v)
                     /\ touches[v] = Touches(fn, v)

(* The two-cursor intersection and the covers scan agree with the sets of  *)
(* points the lists stand for.                                             *)
ListsAsSets ==
  phase = "done" =>
    /\ \A v, w \in VRegs :
         Intersects(ranges[v], ranges[w]) <=> Points(ranges[v]) \cap Points(ranges[w]) # {}
    /\ \A v \in VRegs : \A p \in 0..BlockTo(Last) :
         Covers(ranges[v], p) <=> p \in Points(ranges[v])

(* Iterating to a fixed point and the walk after it both end, and never in *)
(* the defect of an interval without a point.                              *)
Terminates == <>(phase = "done")
=============================================================================
