----------------------------- MODULE LinearScan -----------------------------
(***************************************************************************)
(* Register allocation of one function (internal/regalloc): the linear     *)
(* scan over live intervals, the rounds that hold back scratch registers,  *)
(* and the spill slots.  An interval is given by the set of program points *)
(* at which it is live (LiveRanges.tla shows that the code's range lists   *)
(* are such sets); Liveness.tla says where intervals come from.            *)
(***************************************************************************)
EXTENDS Integers, FiniteSets, Sequences, FiniteSetsExt

CONSTANTS
  VRegs,           \* virtual register IDs
  Registers,       \* physical register numbers: the general ones, then sp, ra
  NumGeneral,      \* registers below this one are r0, r1, ...
  NameLen,         \* bytes each register's name costs to render
  NumMemorySlots,  \* slots of the data region and call stack together
  ScoreUnit,       \* common multiple of the spans of all intervals
  Inputs           \* the calls of Allocate that are considered

Interval ==
  [points : SUBSET Nat, from : Nat, to : Nat, touches : Nat]

Instr ==
  [args : Seq(VRegs), def : SUBSET VRegs, call : BOOLEAN]

Input ==
  [ivs : [VRegs -> Interval], instrs : SUBSET Instr,
   constrained : SUBSET VRegs, pinned : SUBSET Registers,
   reserved : SUBSET Registers, scratch : Seq(Registers), base : Nat]

ASSUME ConstantsAssumption ==
  /\ VRegs \subseteq Nat /\ IsFiniteSet(VRegs)
  /\ Registers \subseteq Nat /\ IsFiniteSet(Registers)
  /\ NumGeneral \in Nat
  /\ NumMemorySlots \in Nat
  /\ NameLen \in [Registers -> Nat]

\* The points of an interval lie within [from, to).
ASSUME InputsAssumption ==
  /\ Inputs \subseteq Input
  /\ \A in \in Inputs, v \in VRegs : \A p \in in.ivs[v].points :
       in.ivs[v].from <= p /\ p < in.ivs[v].to

NoReg  == -1
NoSlot == -1

VARIABLES
  fn,        \* the input: intervals, instructions and configuration
  phase,     \* "check", "scan", "slots", "rewrite"; "done" or an outcome
  pending,   \* intervals the current pass has not reached yet
  assigned,  \* the register an interval was given, or NoReg
  spilled,   \* intervals sent to memory
  live,      \* the held list of scan, the occupant list of assignSlots
  reserved,  \* how much of the scratch list is held back
  slots      \* the slot of a spilled interval, relative to base, or NoSlot

vars == <<fn, phase, pending, assigned, spilled, live, reserved, slots>>

-----------------------------------------------------------------------------
(* Intervals and the configuration *)

Present == {v \in VRegs : fn.ivs[v].points # {}}

Start(v) == fn.ivs[v].from
End(v)   == fn.ivs[v].to

Intersects(v, w) == fn.ivs[v].points \cap fn.ivs[w].points # {}

ByStart(v, w) ==
  Start(v) < Start(w) \/ (Start(v) = Start(w) /\ v <= w)

IsNext(v) == v \in pending /\ \A w \in pending : ByStart(v, w)

HeldBack == {fn.scratch[i] : i \in 1..reserved}

ScratchSet == {fn.scratch[i] : i \in DOMAIN fn.scratch}

Allocatable(blocked) == Registers \ (fn.reserved \cup blocked)

Cheaper(r, q) == NameLen[r] < NameLen[q] \/ (NameLen[r] = NameLen[q] /\ r <= q)

Candidates(v) ==
  {r \in Allocatable(fn.pinned \cup HeldBack) :
     v \in fn.constrained => r < NumGeneral}

StillLive(v) == {h \in live : End(h) > Start(v)}

\* Seeded fault: a register counts as taken for as long as it ever was held.
OccupantsUnpruned(r, v) == {h \in live : assigned[h] = r}

Occupants(r, v) ==
  {h \in StillLive(v) : assigned[h] = r /\ Intersects(h, v)}

FreeFor(v) == {r \in Candidates(v) : Occupants(r, v) = {}}

SpillScore(v) ==
  (fn.ivs[v].touches * ScoreUnit) \div Cardinality(fn.ivs[v].points)

EvictionScore(r, v) == MapThenSumSet(SpillScore, Occupants(r, v))

(* The first candidate, in rendering order, with the lowest score. *)
IsCheapestVictim(r, v) ==
  /\ r \in Candidates(v)
  /\ \A q \in Candidates(v) :
       \/ EvictionScore(r, v) < EvictionScore(q, v)
       \/ EvictionScore(r, v) = EvictionScore(q, v) /\ Cheaper(r, q)

-----------------------------------------------------------------------------
(* Scratch registers an instruction needs around it *)

SpilledReads(instr, mem) ==
  {instr.args[i] : i \in DOMAIN instr.args} \cap mem

WritesSpilled(instr, mem) == instr.def \cap mem # {}

Needs(instr, mem) ==
  IF SpilledReads(instr, mem) = {} /\ WritesSpilled(instr, mem)
  THEN 1 ELSE Cardinality(SpilledReads(instr, mem))

(* n registers serve every instruction once the spilled values are in      *)
(* memory; the demand of the function is the least such n.                 *)
Serves(n) == \A i \in fn.instrs : Needs(i, spilled) <= n

(* The demand, or the whole scratch list when that is shorter.             *)
IsWanted(n) ==
  /\ Serves(n) \/ n = Len(fn.scratch)
  /\ \A m \in 0..(n - 1) : ~Serves(m)

SlotCount ==
  Max({slots[v] + 1 : v \in spilled} \cup {0})
-----------------------------------------------------------------------------
(* Entry checks *)

NoDuplicates(s) == \A i, j \in DOMAIN s : i # j => s[i] # s[j]

ConfigValid ==
  /\ \A r \in ScratchSet : r < NumGeneral /\ r \notin fn.reserved
  /\ NoDuplicates(fn.scratch)
  /\ fn.base <= NumMemorySlots

MakesCall == \E i \in fn.instrs : i.call

(* What a link opcode and the frame around it write without naming. *)
ClobberedByCalls ==
  IF MakesCall THEN {r \in Registers : r >= NumGeneral} ELSE {}

EntryOK ==
  /\ ConfigValid
  /\ ScratchSet \cap fn.pinned = {}
  /\ ClobberedByCalls \cap Allocatable(fn.pinned) = {}

Unplaced == [v \in VRegs |-> NoReg]

Init ==
  /\ fn \in Inputs
  /\ phase = "check"
  /\ pending = {} /\ spilled = {} /\ live = {}
  /\ assigned = Unplaced
  /\ reserved = 0
  /\ slots = [v \in VRegs |-> NoSlot]

(* A fresh scan over every interval. *)
BeginScan ==
  /\ phase' = "scan"
  /\ pending' = Present
  /\ assigned' = Unplaced
  /\ spilled' = {}
  /\ live' = {}

Enter ==
  /\ phase = "check"
  /\ EntryOK
  /\ BeginScan
  /\ UNCHANGED <<fn, reserved, slots>>

Refuse ==
  /\ phase = "check"
  /\ ~EntryOK
  /\ phase' = "refused"
  /\ UNCHANGED <<fn, pending, assigned, spilled, live, reserved, slots>>

-----------------------------------------------------------------------------
(* scan: the four outcomes for the next interval *)

Reach(v) ==
  /\ phase = "scan"
  /\ IsNext(v)
  /\ pending' = pending \ {v}
  /\ UNCHANGED <<fn, reserved, slots>>

PlaceFree(v) ==
  /\ Reach(v)
  /\ \E r \in FreeFor(v) :
       /\ \A q \in FreeFor(v) : Cheaper(r, q)
       /\ assigned' = [assigned EXCEPT ![v] = r]
  /\ live' = StillLive(v) \cup {v}
  /\ UNCHANGED <<phase, spilled>>

NoScratch(v) ==
  /\ Reach(v)
  /\ FreeFor(v) = {}
  /\ fn.scratch = <<>>
  /\ phase' = "refused"
  /\ UNCHANGED <<assigned, spilled, live>>

SpillCurrent(v) ==
  /\ Reach(v)
  /\ FreeFor(v) = {}
  /\ fn.scratch # <<>>
  /\ \A r \in Candidates(v) : SpillScore(v) <= EvictionScore(r, v)
  /\ spilled' = spilled \cup {v}
  /\ live' = StillLive(v)
  /\ UNCHANGED <<phase, assigned>>

\* Seeded fault: of several occupants only one is sent to memory.
EvictOnlyOne(v) ==
  /\ Reach(v)
  /\ FreeFor(v) = {}
  /\ fn.scratch # <<>>
  /\ \E r \in Candidates(v) :
       /\ IsCheapestVictim(r, v)
       /\ EvictionScore(r, v) < SpillScore(v)
       /\ \E w \in Occupants(r, v) :
            /\ assigned' = [assigned EXCEPT ![v] = r, ![w] = NoReg]
            /\ spilled' = spilled \cup {w}
            /\ live' = (StillLive(v) \ {w}) \cup {v}
  /\ UNCHANGED phase

Evict(v) ==
  /\ Reach(v)
  /\ FreeFor(v) = {}
  /\ fn.scratch # <<>>
  /\ \E r \in Candidates(v) :
       /\ IsCheapestVictim(r, v)
       /\ EvictionScore(r, v) < SpillScore(v)
       /\ assigned' = [w \in VRegs |->
                         IF w = v THEN r
                         ELSE IF w \in Occupants(r, v) THEN NoReg
                         ELSE assigned[w]]
       /\ spilled' = spilled \cup Occupants(r, v)
       /\ live' = (StillLive(v) \ Occupants(r, v)) \cup {v}
  /\ UNCHANGED phase

-----------------------------------------------------------------------------
(* allocateRegisters: another round, or on to the slots *)

EndOfScan == phase = "scan" /\ pending = {}

\* Seeded fault: a round that wants no more than the last starts over too.
RescanAlways ==
  /\ EndOfScan
  /\ spilled # {}
  /\ \E n \in reserved..Len(fn.scratch) : IsWanted(n) /\ reserved' = n
  /\ BeginScan
  /\ UNCHANGED <<fn, slots>>

Rescan ==
  /\ EndOfScan
  /\ \E n \in (reserved + 1)..Len(fn.scratch) : IsWanted(n) /\ reserved' = n
  /\ BeginScan
  /\ UNCHANGED <<fn, slots>>

EndRounds ==
  /\ EndOfScan
  /\ Serves(reserved) \/ reserved = Len(fn.scratch)
  /\ phase' = "slots"
  /\ pending' = spilled
  /\ live' = {}
  /\ UNCHANGED <<fn, assigned, spilled, reserved, slots>>

\* Seeded fault: slots handed out in the order of the spill list.
AssignSlotUnsorted(v) ==
  /\ phase = "slots"
  /\ v \in pending
  /\ LET taken == {slots[h] : h \in {g \in StillLive(v) : Intersects(g, v)}}
     IN  \E s \in {0} \cup {t + 1 : t \in taken} :
           /\ s \notin taken
           /\ \A t \in 0..(s - 1) : t \in taken
           /\ slots' = [slots EXCEPT ![v] = s]
  /\ pending' = pending \ {v}
  /\ live' = StillLive(v) \cup {v}
  /\ UNCHANGED <<fn, phase, assigned, spilled, reserved>>

(* assignSlots: the lowest slot no intersecting occupant holds. *)
AssignSlot(v) ==
  /\ phase = "slots"
  /\ IsNext(v)
  /\ LET taken == {slots[h] : h \in {g \in StillLive(v) : Intersects(g, v)}}
     IN  \E s \in {0} \cup {t + 1 : t \in taken} :
           /\ s \notin taken
           /\ \A t \in 0..(s - 1) : t \in taken
           /\ slots' = [slots EXCEPT ![v] = s]
  /\ pending' = pending \ {v}
  /\ live' = StillLive(v) \cup {v}
  /\ UNCHANGED <<fn, phase, assigned, spilled, reserved>>

EndOfSlots == phase = "slots" /\ pending = {}

OutOfSlots ==
  /\ EndOfSlots
  /\ fn.base + SlotCount > NumMemorySlots
  /\ phase' = "diagnosed"
  /\ UNCHANGED <<fn, pending, assigned, spilled, live, reserved, slots>>

\* Seeded fault: no line is ever found short of scratch registers.
ShortfallUnseen == FALSE

(* planRewrite: a line wants more scratch registers than are held back. *)
Shortfall == \E i \in fn.instrs : Cardinality(SpilledReads(i, spilled)) > reserved

Rewrite ==
  /\ EndOfSlots
  /\ fn.base + SlotCount <= NumMemorySlots
  /\ phase' = IF Shortfall THEN "diagnosed" ELSE "done"
  /\ UNCHANGED <<fn, pending, assigned, spilled, live, reserved, slots>>

Terminated ==
  /\ phase \in {"done", "diagnosed", "refused"}
  /\ UNCHANGED vars

Step ==
  \/ Enter \/ Refuse
  \/ \E v \in VRegs : PlaceFree(v) \/ NoScratch(v) \/ SpillCurrent(v) \/ Evict(v)
  \/ Rescan \/ EndRounds
  \/ \E v \in VRegs : AssignSlot(v)
  \/ OutOfSlots \/ Rewrite

Next == Step \/ Terminated

Spec == Init /\ [][Next]_vars

-----------------------------------------------------------------------------
(* Properties *)

Outcomes == {"done", "diagnosed", "refused"}

(* The types of the state variables. *)
TypeOK ==
  /\ phase \in {"check", "scan", "slots"} \cup Outcomes
  /\ pending \subseteq VRegs
  /\ assigned \in [VRegs -> Registers \cup {NoReg}]
  /\ spilled \subseteq VRegs
  /\ live \subseteq VRegs
  /\ reserved \in 0..Len(fn.scratch)
  /\ slots \in [VRegs -> Nat \cup {NoSlot}]

(* Two values wanted at a common point are never in one register, at any   *)
(* step of any round: neither placing, nor evicting several occupants at   *)
(* once, nor dropping ended intervals from the held list may break it.     *)
RegisterExclusive ==
  \A v, w \in VRegs :
    (v # w /\ assigned[v] # NoReg /\ assigned[v] = assigned[w]) => ~Intersects(v, w)

(* Two spilled values wanted at a common point never share a memory slot,  *)
(* although a slot is reused as soon as its occupant has ended.            *)
SlotExclusive ==
  \A v, w \in spilled :
    (v # w /\ slots[v] # NoSlot /\ slots[v] = slots[w]) => ~Intersects(v, w)

(* When allocation succeeds every value lives in exactly one of register   *)
(* and memory, no register handed out is one a reload, an instruction of   *)
(* the input or a call will overwrite, and a value that reaches a device   *)
(* reference position is where the machine resolves references through.    *)
ScratchHeldBack ==
  phase = "done" =>
    \A v \in Present :
      /\ (assigned[v] = NoReg) <=> (v \in spilled)
      /\ v \in spilled <=> slots[v] # NoSlot
      /\ assigned[v] \notin HeldBack \cup fn.reserved \cup fn.pinned \cup ClobberedByCalls
      /\ v \in fn.constrained => assigned[v] < NumGeneral

(* When allocation succeeds each instruction finds a scratch register for  *)
(* every distinct spilled operand, and one for a spilled result: planInstr *)
(* indexes the list without a check of its own for the result.             *)
ScratchSuffices ==
  phase = "done" => \A i \in fn.instrs : Needs(i, spilled) <= reserved

Contiguous(v) == fn.ivs[v].points = Start(v)..(End(v) - 1)

AllPoints == UNION {fn.ivs[v].points : v \in Present}

PressureOf(S, p) == Cardinality({v \in S : p \in fn.ivs[v].points})

(* Among intervals without holes the scan wastes nothing: a function whose *)
(* pressure never exceeds the register file spills nothing.                *)
NoNeedlessSpill ==
  ( /\ phase = "done"
    /\ \A v \in Present : Contiguous(v)
    /\ fn.constrained = {}
    /\ \A p \in AllPoints :
         PressureOf(Present, p) <= Cardinality(Allocatable(fn.pinned)) )
  => spilled = {}

(* Allocation reaches an outcome whatever the spill sets of the rounds.    *)
Terminates == <>(phase \in Outcomes)
=============================================================================
