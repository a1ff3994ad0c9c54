------------------------ MODULE AllocatedCodeProofs -------------------------
(***************************************************************************)
(* Proofs about the allocator and the code it leaves behind, for every     *)
(* function, register file and configuration: LinearScan shares no         *)
(* register or slot between values wanted at one point and spills for      *)
(* cause; the rewritten code loses no value, leaves the stack pointer      *)
(* where it was and writes nobody else's memory, on every path.            *)
(***************************************************************************)
EXTENDS AllocatedCode, FiniteSetTheorems, SequenceTheorems, TLAPS

-----------------------------------------------------------------------------
(* The allocator                                                           *)

Placed(v) == assigned[v] # NoReg
Slotted(v) == slots[v] # NoSlot

(* The value h ended before every interval that is still to come.          *)
Over(h) == \A p \in pending : End(h) <= Start(p)

InputOK ==
  /\ fn \in Inputs
  /\ phase \notin {"check", "refused"} => EntryOK

(* While the scan runs, the held list covers every placed value that an    *)
(* interval still to come can meet.                                        *)
ScanInv ==
  /\ \A v \in VRegs : Placed(v) => assigned[v] \in Candidates(v)
  /\ phase = "scan" =>
       /\ pending \subseteq Present
       /\ \A v \in VRegs : Placed(v) => v \in live \/ Over(v)
       /\ \A v \in pending : ~Placed(v) /\ v \notin spilled
       /\ \A v \in Present \ pending : Placed(v) <=> v \notin spilled
  /\ spilled # {} => fn.scratch # <<>>

(* While slots are handed out, the same holds of the occupant list.        *)
SlotInv ==
  /\ phase \in {"check", "scan"} => \A v \in VRegs : ~Slotted(v)
  /\ phase = "slots" =>
       /\ pending \subseteq spilled
       /\ live \subseteq spilled \ pending
       /\ \A v \in VRegs : Slotted(v) <=> v \in spilled \ pending
       /\ \A v \in VRegs : Slotted(v) => v \in live \/ Over(v)
  /\ phase \in {"slots", "done"} =>
       \A v \in Present : Placed(v) <=> v \notin spilled
  /\ phase = "done" => \A v \in VRegs : Slotted(v) <=> v \in spilled

(* The scratch held back serves the spill set of the last round, or it is  *)
(* the whole list.                                                         *)
DemandInv ==
  /\ phase = "slots" => Serves(reserved) \/ reserved = Len(fn.scratch)
  /\ phase = "done" => Serves(reserved)

IInv ==
  /\ TypeOK
  /\ InputOK
  /\ ScanInv
  /\ SlotInv
  /\ RegisterExclusive
  /\ SlotExclusive

-----------------------------------------------------------------------------
(* What an input is, unfolded once.                                        *)
LEMMA InputShape ==
  ASSUME fn \in Inputs
  PROVE  /\ fn.ivs \in [VRegs -> Interval]
         /\ fn.scratch \in Seq(Registers)
         /\ fn.pinned \subseteq Registers
         /\ fn.reserved \subseteq Registers
         /\ fn.instrs \subseteq Instr
         /\ Present \subseteq VRegs
         /\ \A v \in VRegs : Start(v) \in Nat /\ End(v) \in Nat
         /\ \A v \in VRegs : \A p \in fn.ivs[v].points :
              p \in Nat /\ Start(v) <= p /\ p < End(v)
<1>1. fn \in Input
  BY InputsAssumption
<1>2. \A v \in VRegs : \A p \in fn.ivs[v].points :
        fn.ivs[v].from <= p /\ p < fn.ivs[v].to
  BY InputsAssumption
<1>3. QED
  BY <1>1, <1>2 DEF Input, Interval, Present, Start, End

(* A value that ended before another starts shares no point with it.       *)
LEMMA EndedApart ==
  ASSUME fn \in Inputs, NEW h \in VRegs, NEW v \in VRegs, End(h) <= Start(v)
  PROVE  ~Intersects(h, v) /\ ~Intersects(v, h)
  BY InputShape DEF Intersects

(* Dropping ended intervals for v leaves the others still covered.         *)
LEMMA Pruned ==
  ASSUME fn \in Inputs, NEW v \in VRegs, IsNext(v), pending \subseteq VRegs,
         NEW h \in VRegs, h \in live \/ Over(h)
  PROVE  \/ h \in StillLive(v)
         \/ \A p \in pending : End(h) <= Start(p)
<1>1. \A p \in pending : Start(v) <= Start(p)
  BY InputShape DEF IsNext, ByStart
<1>2. CASE h \in live /\ ~(h \in StillLive(v))
  <2>1. End(h) <= Start(v)
    BY <1>2, InputShape DEF StillLive
  <2>2. QED
    BY <1>1, <2>1, InputShape
<1>3. CASE Over(h)
  BY <1>3 DEF Over
<1>4. QED
  BY <1>2, <1>3

(* Nothing a free register holds is wanted while v is.                     *)
LEMMA FreeIsApart ==
  ASSUME fn \in Inputs, ScanInv, phase = "scan", pending \subseteq VRegs,
         NEW v \in VRegs, IsNext(v), NEW r, Occupants(r, v) = {},
         NEW h \in VRegs, Placed(h), assigned[h] = r
  PROVE  ~Intersects(h, v) /\ ~Intersects(v, h)
<1>1. h \in StillLive(v) \/ End(h) <= Start(v)
  BY Pruned DEF ScanInv, IsNext
<1>2. CASE h \in StillLive(v)
  <2>1. ~Intersects(h, v)
    BY <1>2 DEF Occupants
  <2>2. QED
    BY <2>1 DEF Intersects
<1>3. QED
  BY <1>1, <1>2, EndedApart

-----------------------------------------------------------------------------
(* What the input decides does not change while the input does not.        *)
LEMMA InputKept ==
  ASSUME fn' = fn
  PROVE  /\ EntryOK' <=> EntryOK
         /\ Present' = Present
         /\ \A v : Start(v)' = Start(v) /\ End(v)' = End(v)
         /\ \A v, w : Intersects(v, w)' <=> Intersects(v, w)
         /\ reserved' = reserved => \A v : Candidates(v)' = Candidates(v)
<1>1. EntryOK' <=> EntryOK
  BY DEF EntryOK, ConfigValid, ScratchSet, NoDuplicates, ClobberedByCalls,
         MakesCall, Allocatable
<1>2. reserved' = reserved => \A v : Candidates(v)' = Candidates(v)
  BY DEF Candidates, Allocatable, HeldBack
<1>3. QED
  BY <1>1, <1>2 DEF Present, Start, End, Intersects

LEMMA InitInv == Init => IInv
<1> SUFFICES ASSUME Init PROVE IInv
  OBVIOUS
<1>1. fn.scratch \in Seq(Registers)
  BY InputShape DEF Init
<1>2. TypeOK
  BY <1>1 DEF Init, TypeOK, Unplaced, NoReg, NoSlot
<1>3. InputOK /\ ScanInv /\ SlotInv
  BY DEF Init, InputOK, ScanInv, SlotInv, Placed, Slotted, Unplaced
<1>4. RegisterExclusive /\ SlotExclusive
  BY DEF Init, RegisterExclusive, SlotExclusive, Unplaced
<1>5. QED
  BY <1>2, <1>3, <1>4 DEF IInv

LEMMA TypeStep == TypeOK /\ InputOK /\ [Next]_vars => TypeOK' /\ InputOK'
<1> SUFFICES ASSUME TypeOK, InputOK, [Next]_vars
             PROVE  TypeOK' /\ InputOK'
  OBVIOUS
<1> USE DEF TypeOK, InputOK
<1>1. Present \subseteq VRegs /\ fn.scratch \in Seq(Registers)
  BY InputShape
<1>2. Registers \subseteq Nat /\ \A v : Candidates(v) \subseteq Registers
  BY ConstantsAssumption DEF Candidates, Allocatable
<1>3. CASE Enter
  BY <1>1, <1>3, InputKept DEF Enter, BeginScan, Unplaced, Outcomes
<1>4. CASE Refuse
  BY <1>4, InputKept DEF Refuse, Outcomes
<1>5. ASSUME NEW v \in VRegs, PlaceFree(v)
      PROVE  TypeOK' /\ InputOK'
  BY <1>2, <1>5, InputKept DEF PlaceFree, Reach, FreeFor, StillLive
<1>6. ASSUME NEW v \in VRegs, NoScratch(v)
      PROVE  TypeOK' /\ InputOK'
  BY <1>6 DEF NoScratch, Reach, Outcomes
<1>7. ASSUME NEW v \in VRegs, SpillCurrent(v)
      PROVE  TypeOK' /\ InputOK'
  BY <1>7, InputKept DEF SpillCurrent, Reach, StillLive
<1>8. ASSUME NEW v \in VRegs, Evict(v)
      PROVE  TypeOK' /\ InputOK'
  BY <1>2, <1>8, InputKept DEF Evict, Reach, StillLive, Occupants
<1>9. CASE Rescan
  BY <1>1, <1>9, InputKept DEF Rescan, BeginScan, EndOfScan, Unplaced
<1>10. CASE EndRounds
  BY <1>10, InputKept DEF EndRounds, EndOfScan
<1>11. ASSUME NEW v \in VRegs, AssignSlot(v)
       PROVE  TypeOK' /\ InputOK'
  BY <1>11, InputKept DEF AssignSlot, IsNext, StillLive, NoSlot
<1>12. CASE OutOfSlots
  BY <1>12, InputKept DEF OutOfSlots, EndOfSlots, Outcomes
<1>13. CASE Rewrite
  BY <1>13, InputKept DEF Rewrite, EndOfSlots, Outcomes
<1>14. CASE UNCHANGED vars
  BY <1>14, InputKept DEF vars
<1>15. QED
  BY <1>3, <1>4, <1>5, <1>6, <1>7, <1>8, <1>9, <1>10, <1>11, <1>12, <1>13, <1>14
     DEF Next, Step, Terminated

-----------------------------------------------------------------------------
(* Every step keeps the scan's bookkeeping.                                *)
LEMMA ScanStep == IInv /\ [Next]_vars => ScanInv'
<1> SUFFICES ASSUME IInv, [Next]_vars
             PROVE  ScanInv'
  OBVIOUS
<1> USE DEF IInv, TypeOK, InputOK, ScanInv, Placed
<1>1. Present \subseteq VRegs
  BY InputShape
<1>2. \A v \in VRegs : \A r \in Candidates(v) : r # NoReg
  BY ConstantsAssumption DEF Candidates, Allocatable, NoReg
<1>3. CASE Enter
  BY <1>1, <1>3, InputKept DEF Enter, BeginScan, Unplaced
<1>4. CASE Refuse
  BY <1>4, InputKept DEF Refuse
<1>5. ASSUME NEW v \in VRegs, Reach(v)
      PROVE  /\ v \in pending /\ pending' = pending \ {v} /\ phase = "scan"
             /\ v \notin spilled /\ ~Placed(v) /\ v \in Present
             /\ fn' = fn /\ reserved' = reserved /\ Present' = Present
             /\ \A w \in VRegs : Candidates(w)' = Candidates(w)
             /\ \A w \in VRegs : Placed(w) => w \in StillLive(v) \/ Over(w)'
  <2>1. phase = "scan" /\ IsNext(v) /\ pending' = pending \ {v}
        /\ fn' = fn /\ reserved' = reserved
    BY <1>5 DEF Reach
  <2>2. \A w \in VRegs : Placed(w) => w \in StillLive(v) \/ Over(w)'
    <3> SUFFICES ASSUME NEW w \in VRegs, Placed(w)
                 PROVE  w \in StillLive(v) \/ Over(w)'
      OBVIOUS
    <3>1. w \in StillLive(v) \/ \A p \in pending : End(w) <= Start(p)
      BY <2>1, Pruned
    <3>2. QED
      BY <2>1, <3>1, InputKept DEF Over
  <2>3. QED
    BY <2>1, <2>2, InputKept DEF IsNext
<1>6. ASSUME NEW v \in VRegs, PlaceFree(v)
      PROVE  ScanInv'
  <2>1. PICK r \in FreeFor(v) : assigned' = [assigned EXCEPT ![v] = r]
    BY <1>6 DEF PlaceFree
  <2>2. r \in Candidates(v)
    BY <2>1 DEF FreeFor
  <2>3. Reach(v) /\ spilled' = spilled /\ phase' = phase
        /\ live' = StillLive(v) \cup {v}
    BY <1>6 DEF PlaceFree
  <2>4. QED
    BY <1>2, <1>5, <2>1, <2>2, <2>3
<1>7. ASSUME NEW v \in VRegs, NoScratch(v)
      PROVE  ScanInv'
  BY <1>5, <1>7 DEF NoScratch
<1>8. ASSUME NEW v \in VRegs, SpillCurrent(v)
      PROVE  ScanInv'
  BY <1>5, <1>8 DEF SpillCurrent
<1>9. ASSUME NEW v \in VRegs, Evict(v)
      PROVE  ScanInv'
  <2>1. PICK r \in Candidates(v) :
          /\ assigned' = [w \in VRegs |->
                            IF w = v THEN r
                            ELSE IF w \in Occupants(r, v) THEN NoReg
                            ELSE assigned[w]]
          /\ spilled' = spilled \cup Occupants(r, v)
          /\ live' = (StillLive(v) \ Occupants(r, v)) \cup {v}
    BY <1>9 DEF Evict
  <2>2. Reach(v) /\ fn.scratch # <<>> /\ phase' = phase
    BY <1>9 DEF Evict
  <2>3. \A w \in Occupants(r, v) : w \in VRegs /\ Placed(w) /\ w # v
    BY <1>2, <1>5, <2>1, <2>2 DEF Occupants, StillLive
  <2>4. \A w \in VRegs : Placed(w)' <=> (w = v \/ (Placed(w) /\ w \notin Occupants(r, v)))
    BY <1>2, <2>1
  <2>5. \A w \in VRegs : Placed(w)' => assigned'[w] \in Candidates(w)'
    BY <1>5, <2>1, <2>2, <2>4
  <2>6. \A w \in VRegs : Placed(w)' => w \in live' \/ Over(w)'
    BY <1>5, <2>1, <2>2, <2>4
  <2>7. \A w \in pending' : ~Placed(w)' /\ w \notin spilled'
    BY <1>1, <1>5, <2>1, <2>2, <2>3, <2>4
  <2>8. \A w \in Present' \ pending' : Placed(w)' <=> w \notin spilled'
    BY <1>1, <1>5, <2>1, <2>2, <2>3, <2>4
  <2>9. QED
    BY <1>5, <2>2, <2>5, <2>6, <2>7, <2>8
<1>10. CASE Rescan
  BY <1>1, <1>10, InputKept DEF Rescan, BeginScan, EndOfScan, Unplaced
<1>11. CASE EndRounds
  BY <1>11, InputKept DEF EndRounds, EndOfScan
<1>12. ASSUME NEW v \in VRegs, AssignSlot(v)
       PROVE  ScanInv'
  BY <1>12, InputKept DEF AssignSlot
<1>13. CASE OutOfSlots
  BY <1>13, InputKept DEF OutOfSlots, EndOfSlots
<1>14. CASE Rewrite
  BY <1>14, InputKept DEF Rewrite, EndOfSlots
<1>15. CASE UNCHANGED vars
  BY <1>15, InputKept DEF vars, Over
<1>16. QED
  BY <1>3, <1>4, <1>6, <1>7, <1>8, <1>9, <1>10, <1>11, <1>12, <1>13, <1>14, <1>15
     DEF Next, Step, Terminated

-----------------------------------------------------------------------------
(* Every step keeps the bookkeeping of the slots.                          *)
LEMMA SlotStep == IInv /\ [Next]_vars => SlotInv'
<1> SUFFICES ASSUME IInv, [Next]_vars
             PROVE  SlotInv'
  OBVIOUS
<1> USE DEF IInv, TypeOK, InputOK, SlotInv, Slotted, Placed
<1>1. CASE Enter
  BY <1>1 DEF Enter, BeginScan
<1>2. CASE Refuse
  BY <1>2 DEF Refuse
<1>3. ASSUME NEW v \in VRegs,
             PlaceFree(v) \/ NoScratch(v) \/ SpillCurrent(v) \/ Evict(v)
      PROVE  SlotInv'
  BY <1>3 DEF PlaceFree, NoScratch, SpillCurrent, Evict, Reach
<1>4. CASE Rescan
  BY <1>4 DEF Rescan, BeginScan, EndOfScan
<1>5. CASE EndRounds
  <2>1. phase = "scan" /\ pending = {} /\ pending' = spilled /\ phase' = "slots"
        /\ live' = {} /\ UNCHANGED <<fn, assigned, spilled, slots>>
    BY <1>5 DEF EndRounds, EndOfScan
  <2>2. \A v \in Present : Placed(v) <=> v \notin spilled
    BY <2>1 DEF ScanInv
  <2>3. QED
    BY <2>1, <2>2, InputKept
<1>6. ASSUME NEW v \in VRegs, AssignSlot(v)
      PROVE  SlotInv'
  <2> DEFINE taken == {slots[h] : h \in {g \in StillLive(v) : Intersects(g, v)}}
  <2>1. /\ phase = "slots" /\ IsNext(v) /\ pending' = pending \ {v}
        /\ live' = StillLive(v) \cup {v}
        /\ UNCHANGED <<fn, phase, assigned, spilled, reserved>>
    BY <1>6 DEF AssignSlot
  <2>2. PICK s \in {0} \cup {t + 1 : t \in taken} :
          s \notin taken /\ slots' = [slots EXCEPT ![v] = s]
    BY <1>6 DEF AssignSlot
  <2>3. s # NoSlot
    <3>1. \A t \in taken : t \in Nat
      BY <2>1 DEF StillLive, IsNext, NoSlot
    <3> HIDE DEF taken
    <3>2. CASE s = 0
      BY <3>2 DEF NoSlot
    <3>3. CASE s \in {t + 1 : t \in taken}
      <4>1. PICK t \in taken : s = t + 1
        BY <3>3
      <4>2. QED
        BY <3>1, <4>1 DEF NoSlot
    <3>4. QED
      BY <2>2, <3>2, <3>3
  <2>4. \A w \in VRegs : Slotted(w) => w \in StillLive(v) \/ Over(w)'
    <3> SUFFICES ASSUME NEW w \in VRegs, Slotted(w)
                 PROVE  w \in StillLive(v) \/ Over(w)'
      OBVIOUS
    <3>1. w \in StillLive(v) \/ \A p \in pending : End(w) <= Start(p)
      BY <2>1, Pruned
    <3>2. QED
      BY <2>1, <3>1, InputKept DEF Over
  <2>5. \A w \in VRegs : Slotted(w)' <=> Slotted(w) \/ w = v
    BY <2>2, <2>3
  <2>6. v \in pending /\ live' \subseteq spilled \ pending'
    BY <2>1 DEF IsNext, StillLive
  <2>7. QED
    BY <2>1, <2>4, <2>5, <2>6, InputKept
<1>7. CASE OutOfSlots
  BY <1>7 DEF OutOfSlots, EndOfSlots
<1>8. CASE Rewrite
  BY <1>8, InputKept DEF Rewrite, EndOfSlots
<1>9. CASE UNCHANGED vars
  BY <1>9, InputKept DEF vars, Over
<1>10. QED
  BY <1>1, <1>2, <1>3, <1>4, <1>5, <1>6, <1>7, <1>8, <1>9
     DEF Next, Step, Terminated

(* A step that places nothing leaves values as far apart as they were.     *)
LEMMA ExclusiveKept ==
  ASSUME RegisterExclusive, fn' = fn,
         \A v \in VRegs : assigned'[v] = assigned[v] \/ assigned'[v] = NoReg
  PROVE  RegisterExclusive'
  BY InputKept DEF RegisterExclusive

LEMMA ExclusiveStep == IInv /\ [Next]_vars => RegisterExclusive'
<1> SUFFICES ASSUME IInv, [Next]_vars
             PROVE  RegisterExclusive'
  OBVIOUS
<1> USE DEF IInv, TypeOK, InputOK
<1>1. CASE Enter \/ Rescan
  BY <1>1, ExclusiveKept DEF Enter, Rescan, BeginScan, Unplaced
<1>2. ASSUME NEW v \in VRegs, PlaceFree(v)
      PROVE  RegisterExclusive'
  <2>1. Reach(v)
    BY <1>2 DEF PlaceFree
  <2>2. PICK r \in FreeFor(v) : assigned' = [assigned EXCEPT ![v] = r]
    BY <1>2 DEF PlaceFree
  <2>3. \A h \in VRegs : Placed(h) /\ assigned[h] = r
                           => ~Intersects(h, v) /\ ~Intersects(v, h)
    BY <2>1, <2>2, FreeIsApart DEF Reach, FreeFor
  <2>4. QED
    BY <2>1, <2>2, <2>3, InputKept DEF Reach, RegisterExclusive, Placed
<1>3. ASSUME NEW v \in VRegs, Evict(v)
      PROVE  RegisterExclusive'
  <2>1. PICK r \in Candidates(v) :
          assigned' = [w \in VRegs |->
                        IF w = v THEN r
                        ELSE IF w \in Occupants(r, v) THEN NoReg
                        ELSE assigned[w]]
    BY <1>3 DEF Evict
  <2>2. phase = "scan" /\ IsNext(v) /\ fn' = fn
    BY <1>3 DEF Evict, Reach
  <2>3. ASSUME NEW h \in VRegs, h # v, assigned'[h] = r, r # NoReg
        PROVE  ~Intersects(h, v) /\ ~Intersects(v, h)
    <3>1. h \notin Occupants(r, v) /\ assigned[h] = r /\ Placed(h)
      BY <2>1, <2>3 DEF Placed
    <3>2. h \in StillLive(v) \/ End(h) <= Start(v)
      BY <2>2, <3>1, Pruned DEF ScanInv, IsNext
    <3>3. CASE h \in StillLive(v)
      BY <3>1, <3>3 DEF Occupants, Intersects
    <3>4. QED
      BY <3>2, <3>3, EndedApart
  <2>4. QED
    BY <2>1, <2>2, <2>3, InputKept DEF RegisterExclusive
<1>4. CASE UNCHANGED <<fn, assigned>>
  BY <1>4, ExclusiveKept
<1>5. QED
  BY <1>1, <1>2, <1>3, <1>4
     DEF Next, Step, Terminated, vars, Refuse, NoScratch, SpillCurrent, Reach,
         EndRounds, AssignSlot, OutOfSlots, Rewrite

LEMMA SlotExclusiveStep == IInv /\ [Next]_vars => SlotExclusive'
<1> SUFFICES ASSUME IInv, [Next]_vars
             PROVE  SlotExclusive'
  OBVIOUS
<1> USE DEF IInv, TypeOK, InputOK
<1>1. CASE phase \in {"check", "scan"} /\ slots' = slots
  BY <1>1, TypeStep DEF SlotInv, Slotted, SlotExclusive
<1>2. ASSUME NEW v \in VRegs, AssignSlot(v)
      PROVE  SlotExclusive'
  <2> DEFINE taken == {slots[h] : h \in {g \in StillLive(v) : Intersects(g, v)}}
  <2>1. phase = "slots" /\ IsNext(v) /\ fn' = fn /\ spilled' = spilled
    BY <1>2 DEF AssignSlot
  <2>2. PICK s \in {0} \cup {t + 1 : t \in taken} :
          s \notin taken /\ slots' = [slots EXCEPT ![v] = s]
    BY <1>2 DEF AssignSlot
  <2>3. ASSUME NEW h \in VRegs, Slotted(h), slots[h] = s
        PROVE  ~Intersects(h, v) /\ ~Intersects(v, h)
    <3>1. h \in StillLive(v) \/ End(h) <= Start(v)
      BY <2>1, <2>3, Pruned DEF SlotInv, IsNext
    <3>2. CASE h \in StillLive(v)
      BY <2>2, <2>3, <3>2 DEF Intersects
    <3>3. QED
      BY <3>1, <3>2, EndedApart
  <2>4. QED
    BY <2>1, <2>2, <2>3, InputKept DEF SlotExclusive, Slotted
<1>3. CASE UNCHANGED <<fn, spilled, slots>>
  BY <1>3, InputKept DEF SlotExclusive
<1>4. QED
  BY <1>1, <1>2, <1>3
     DEF Next, Step, Terminated, vars, Enter, Refuse, PlaceFree, NoScratch,
         SpillCurrent, Evict, Reach, Rescan, EndOfScan, EndRounds, OutOfSlots, Rewrite

THEOREM InductiveInvariant == Spec => []IInv
<1>1. Init => IInv
  BY InitInv
<1>2. IInv /\ [Next]_vars => IInv'
  BY TypeStep, ScanStep, SlotStep, ExclusiveStep, SlotExclusiveStep DEF IInv
<1>3. QED
  BY <1>1, <1>2, PTL DEF Spec

(* The state of the allocator keeps its types.                             *)
THEOREM TypeCorrect == Spec => []TypeOK
<1>1. IInv => TypeOK
  BY DEF IInv
<1>2. QED
  BY <1>1, InductiveInvariant, PTL

(* No two values wanted at a common point are ever in one register: the    *)
(* linear scan is right whatever it evicts and in whatever round.          *)
THEOREM RegistersExclusive == Spec => []RegisterExclusive
<1>1. IInv => RegisterExclusive
  BY DEF IInv
<1>2. QED
  BY <1>1, InductiveInvariant, PTL

(* Nor in one memory slot.                                                 *)
THEOREM SlotsExclusive == Spec => []SlotExclusive
<1>1. IInv => SlotExclusive
  BY DEF IInv
<1>2. QED
  BY <1>1, InductiveInvariant, PTL

(* On success every value has one place, no register in use is one a       *)
(* reload, the input or a call overwrites, and what a device reference     *)
(* reads is in a general register.                                         *)
THEOREM ScratchIsHeldBack == Spec => []ScratchHeldBack
<1>1. IInv => ScratchHeldBack
  <2> SUFFICES ASSUME IInv, phase = "done", NEW v \in Present
               PROVE  /\ (assigned[v] = NoReg) <=> (v \in spilled)
                      /\ v \in spilled <=> slots[v] # NoSlot
                      /\ assigned[v] \notin HeldBack \cup fn.reserved
                                           \cup fn.pinned \cup ClobberedByCalls
                      /\ v \in fn.constrained => assigned[v] < NumGeneral
    BY DEF ScratchHeldBack
  <2> USE DEF IInv, TypeOK, InputOK
  <2>1. v \in VRegs /\ fn.scratch \in Seq(Registers)
        /\ fn.pinned \subseteq Registers /\ fn.reserved \subseteq Registers
    BY InputShape
  <2>2. (assigned[v] = NoReg) <=> (v \in spilled)
    BY DEF SlotInv, Placed
  <2>3. v \in spilled <=> slots[v] # NoSlot
    BY <2>1 DEF SlotInv, Slotted
  <2>4. CASE Placed(v)
    <3>1. assigned[v] \in Allocatable(fn.pinned \cup HeldBack)
      BY <2>1, <2>4 DEF ScanInv, Candidates
    <3>2. assigned[v] \notin ClobberedByCalls
      BY <3>1 DEF EntryOK, Allocatable
    <3>3. v \in fn.constrained => assigned[v] < NumGeneral
      BY <2>1, <2>4 DEF ScanInv, Candidates
    <3>4. QED
      BY <2>2, <2>3, <3>1, <3>2, <3>3 DEF Allocatable
  <2>5. CASE ~Placed(v)
    <3>1. HeldBack \subseteq Nat
      <4>1. reserved \in 0..Len(fn.scratch)
        OBVIOUS
      <4>2. \A i \in 1..reserved : fn.scratch[i] \in Nat
        BY ONLY <4>1, <2>1, ConstantsAssumption
      <4>3. QED
        BY ONLY <4>2 DEF HeldBack
    <3>2. fn.reserved \subseteq Nat /\ fn.pinned \subseteq Nat /\ ClobberedByCalls \subseteq Nat
      BY ONLY <2>1, ConstantsAssumption DEF ClobberedByCalls
    <3>3. NoReg \notin HeldBack \cup fn.reserved \cup fn.pinned \cup ClobberedByCalls
      BY ONLY <3>1, <3>2 DEF NoReg
    <3>4. assigned[v] = NoReg /\ NoReg < NumGeneral
      BY ONLY <2>5, ConstantsAssumption DEF Placed, NoReg
    <3>5. QED
      BY ONLY <2>2, <2>3, <3>3, <3>4
  <2>6. QED
    BY <2>4, <2>5
<1>2. QED
  BY <1>1, InductiveInvariant, PTL

-----------------------------------------------------------------------------
(* An instruction reads finitely many registers.                           *)
LEMMA ReadsFinite ==
  ASSUME NEW instr \in Instr, NEW mem
  PROVE  Cardinality(SpilledReads(instr, mem)) \in Nat
<1> DEFINE given == {instr.args[i] : i \in DOMAIN instr.args}
<1>1. instr.args \in Seq(VRegs)
  BY DEF Instr
<1>2. IsFiniteSet(DOMAIN instr.args)
  <2>1. Len(instr.args) \in Nat /\ DOMAIN instr.args = 1..Len(instr.args)
    BY <1>1
  <2>2. QED
    BY <2>1, FS_Interval
<1>3. instr.args \in Surjection(DOMAIN instr.args, given)
  <2>1. instr.args \in [DOMAIN instr.args -> given]
    BY <1>1
  <2>2. \A t \in given : \E i \in DOMAIN instr.args : instr.args[i] = t
    OBVIOUS
  <2>3. QED
    BY <2>1, <2>2 DEF Surjection
<1>4. IsFiniteSet(given)
  BY <1>2, <1>3, FS_Surjection
<1>5. IsFiniteSet(SpilledReads(instr, mem))
  <2>1. IsFiniteSet(given \cap mem)
    BY <1>4, FS_Intersection
  <2>2. QED
    BY <2>1 DEF SpilledReads
<1>6. QED
  BY <1>5, FS_CardinalityType

(* Whatever rewriting accepts can be reloaded and stored.                  *)
LEMMA RewriteServes ==
  ASSUME IInv, DemandInv, phase = "slots", ~Shortfall
  PROVE  Serves(reserved)
<1> SUFFICES ASSUME reserved = Len(fn.scratch), NEW i \in fn.instrs
             PROVE  Needs(i, spilled) <= reserved
  BY DEF DemandInv, Serves
<1>1. i \in Instr /\ fn.scratch \in Seq(Registers)
  BY InputShape DEF IInv, InputOK
<1>2. Cardinality(SpilledReads(i, spilled)) \in Nat /\ reserved \in Nat
  BY <1>1, ReadsFinite DEF IInv, TypeOK
<1>3. Cardinality(SpilledReads(i, spilled)) <= reserved
  BY <1>2 DEF Shortfall
<1>4. CASE WritesSpilled(i, spilled)
  <2>1. fn.scratch # <<>>
    BY <1>4 DEF WritesSpilled, IInv, ScanInv
  <2>2. Len(fn.scratch) >= 1
    BY <1>1, <2>1
  <2>3. QED
    BY <1>2, <1>3, <2>2 DEF Needs
<1>5. QED
  BY <1>3, <1>4 DEF Needs

LEMMA DemandStep == IInv /\ DemandInv /\ [Next]_vars => DemandInv'
<1> SUFFICES ASSUME IInv, DemandInv, [Next]_vars
             PROVE  DemandInv'
  OBVIOUS
<1> USE DEF DemandInv
<1>1. CASE EndRounds
  BY <1>1 DEF EndRounds, EndOfScan, Serves
<1>2. CASE Rewrite
  <2>1. phase = "slots" /\ UNCHANGED <<fn, spilled, reserved>>
        /\ phase' = IF Shortfall THEN "diagnosed" ELSE "done"
    BY <1>2 DEF Rewrite, EndOfSlots
  <2>2. QED
    BY <2>1, RewriteServes DEF Serves
<1>3. ASSUME NEW v \in VRegs, AssignSlot(v)
      PROVE  DemandInv'
  BY <1>3 DEF AssignSlot, Serves
<1>4. CASE phase' \notin {"slots", "done"}
  BY <1>4
<1>5. CASE UNCHANGED vars
  BY <1>5 DEF vars, Serves
<1>6. QED
  BY <1>1, <1>2, <1>3, <1>4, <1>5
     DEF Next, Step, Terminated, Enter, Refuse, BeginScan, PlaceFree, NoScratch,
         SpillCurrent, Evict, Reach, Rescan, OutOfSlots

(* A function that is allocated at all has, around every instruction, a    *)
(* scratch register for each distinct spilled operand it reads and one for *)
(* a spilled result, which the rewriting indexes unchecked.                *)
THEOREM ScratchAlwaysSuffices == Spec => []ScratchSuffices
<1>1. Init => DemandInv
  BY DEF Init, DemandInv
<1>2. DemandInv => ScratchSuffices
  BY DEF DemandInv, ScratchSuffices, Serves
<1>3. QED
  BY <1>1, <1>2, DemandStep, InductiveInvariant, PTL DEF Spec

-----------------------------------------------------------------------------
(* A function without holes that never wants more than the register file   *)
(* has at one point.                                                       *)
RoomForAll ==
  /\ \A v \in Present : Contiguous(v)
  /\ fn.constrained = {}
  /\ \A p \in AllPoints : PressureOf(Present, p) <= Cardinality(Allocatable(fn.pinned))

(* Such a function spills nothing and holds nothing back, and whatever has *)
(* been placed started no later than what is still to come.                *)
RoomInv ==
  RoomForAll =>
    /\ spilled = {}
    /\ reserved = 0
    /\ phase = "scan" => \A v \in Present \ pending, w \in pending : ByStart(v, w)

(* If every register were taken, its occupants would all be wanted where v *)
(* starts, and with v be one more than there are registers.                *)
LEMMA SomeRegisterFree ==
  ASSUME IInv, RoomInv, RoomForAll, phase = "scan", NEW v \in VRegs, IsNext(v)
  PROVE  FreeFor(v) # {}
<1> DEFINE A == Allocatable(fn.pinned)
           wanted == {w \in Present : Start(v) \in fn.ivs[w].points}
           others == wanted \ {v}
           occ == [r \in A |-> CHOOSE h : h \in Occupants(r, v)]
<1> USE DEF IInv, TypeOK, InputOK
<1>1. /\ v \in Present /\ Present \subseteq VRegs
      /\ \A w \in VRegs : Start(w) \in Nat /\ End(w) \in Nat
      /\ Contiguous(v)
      /\ \A w \in VRegs : \A p \in fn.ivs[w].points : p \in Nat
  BY InputShape DEF ScanInv, IsNext, RoomForAll
<1>2. Start(v) \in fn.ivs[v].points
  <2>1. fn.ivs[v].points = Start(v)..(End(v) - 1) /\ fn.ivs[v].points # {}
    BY <1>1 DEF Contiguous, Present
  <2> QED
    BY <1>1, <2>1
<1>3. SUFFICES ASSUME FreeFor(v) = {} PROVE FALSE
  OBVIOUS
<1>4. Candidates(v) = A
  <2>1. HeldBack = {}
    BY DEF HeldBack, RoomInv
  <2> QED
    BY <2>1 DEF Candidates, RoomForAll
<1>5. \A r \in A : occ[r] \in Occupants(r, v)
  <2>1. \A r \in A : Occupants(r, v) # {}
    BY <1>3, <1>4 DEF FreeFor
  <2> QED
    BY <2>1
<1>6. ASSUME NEW r \in A PROVE occ[r] \in others /\ assigned[occ[r]] = r
  <2>1. PICK h \in VRegs : h = occ[r] /\ h \in StillLive(v) /\ assigned[h] = r /\ Intersects(h, v)
    BY <1>5, <1>6 DEF Occupants, StillLive
  <2>2. h \in Present
    BY <2>1 DEF Intersects, Present
  <2>3. r # NoReg
    BY <1>6, ConstantsAssumption DEF Allocatable, NoReg
  <2>4. h \notin pending
    BY <2>1, <2>3 DEF ScanInv, Placed
  <2>5. Start(h) <= Start(v)
    BY <1>1, <2>2, <2>4 DEF RoomInv, ByStart, IsNext
  <2>6. Start(v) < End(h)
    BY <2>1 DEF StillLive
  <2>7. Start(v) \in Start(h)..(End(h) - 1)
    BY <1>1, <2>1, <2>5, <2>6
  <2>8. Start(v) \in fn.ivs[h].points
    BY <2>2, <2>7 DEF RoomForAll, Contiguous
  <2>9. h # v
    BY <2>4 DEF IsNext
  <2> QED
    BY <2>1, <2>2, <2>8, <2>9
<1>7. occ \in Injection(A, others)
  <2> HIDE DEF A, others
  <2>1. occ \in [A -> others]
    BY <1>6
  <2>2. \A r, q \in A : occ[r] = occ[q] => r = q
    BY <1>6
  <2> HIDE DEF occ
  <2> QED
    BY <2>1, <2>2 DEF Injection, IsInjective
<1>8. IsFiniteSet(wanted)
  BY <1>1, ConstantsAssumption, FS_Subset
<1>9. IsFiniteSet(others) /\ Cardinality(others) = Cardinality(wanted) - 1
      /\ Cardinality(wanted) \in Nat
  <2>1. v \in wanted
    BY <1>1, <1>2
  <2> HIDE DEF wanted
  <2> QED
    BY <1>8, <2>1, FS_RemoveElement, FS_CardinalityType
<1>10. IsFiniteSet(A) /\ Cardinality(A) \in Nat /\ Cardinality(A) <= Cardinality(others)
  <2> HIDE DEF A, others, occ
  <2> QED
    BY <1>7, <1>9, FS_Injection, FS_CardinalityType
<1>11. Cardinality(wanted) <= Cardinality(A)
  <2>1. Start(v) \in AllPoints
    BY <1>1, <1>2 DEF AllPoints
  <2> QED
    BY <2>1 DEF RoomForAll, PressureOf
<1> HIDE DEF A, wanted, others
<1> QED
  BY <1>9, <1>10, <1>11

LEMMA RoomStep == IInv /\ RoomInv /\ [Next]_vars => RoomInv'
<1> SUFFICES ASSUME IInv, RoomInv, [Next]_vars, RoomForAll'
             PROVE  /\ spilled' = {}
                    /\ reserved' = 0
                    /\ (phase = "scan" => \A v \in Present \ pending, w \in pending : ByStart(v, w))'
  BY DEF RoomInv
<1>1. fn' = fn
  BY DEF Next, Step, Terminated, vars, Enter, Refuse, PlaceFree, NoScratch, SpillCurrent,
         Evict, Reach, Rescan, EndRounds, AssignSlot, OutOfSlots, Rewrite
<1>2. RoomForAll
  <2>1. Present' = Present /\ AllPoints' = AllPoints /\ Allocatable(fn.pinned)' = Allocatable(fn.pinned)
    BY <1>1 DEF Present, AllPoints, Allocatable
  <2>2. \A v : Contiguous(v)' <=> Contiguous(v)
    BY <1>1 DEF Contiguous, Start, End
  <2>3. \A p : PressureOf(Present, p)' = PressureOf(Present, p)
    BY <1>1, <2>1 DEF PressureOf
  <2> QED
    BY <1>1, <2>1, <2>2, <2>3 DEF RoomForAll
<1>3. /\ spilled = {} /\ reserved = 0
      /\ phase = "scan" => \A v \in Present \ pending, w \in pending : ByStart(v, w)
  BY <1>2 DEF RoomInv
<1>4. /\ Present' = Present
      /\ \A v, w : ByStart(v, w)' <=> ByStart(v, w)
  BY <1>1 DEF Present, ByStart, Start, End
<1>5. CASE Enter
  BY <1>3, <1>4, <1>5 DEF Enter, BeginScan
<1>6. ASSUME NEW v \in VRegs, Reach(v), spilled' = spilled
      PROVE  /\ spilled' = {} /\ reserved' = 0
             /\ \A w \in Present' \ pending', u \in pending' : ByStart(w, u)'
  <2>1. /\ phase = "scan" /\ IsNext(v) /\ pending' = pending \ {v} /\ reserved' = reserved
    BY <1>6 DEF Reach
  <2> QED
    BY <1>3, <1>4, <1>6, <2>1 DEF IsNext
<1>7. ASSUME NEW v \in VRegs, PlaceFree(v) \/ NoScratch(v)
      PROVE  /\ spilled' = {} /\ reserved' = 0
             /\ \A w \in Present' \ pending', u \in pending' : ByStart(w, u)'
  BY <1>6, <1>7 DEF PlaceFree, NoScratch
<1>8. ASSUME NEW v \in VRegs, SpillCurrent(v) \/ Evict(v)
      PROVE  FALSE
  <2>1. phase = "scan" /\ IsNext(v) /\ FreeFor(v) = {}
    BY <1>8 DEF SpillCurrent, Evict, Reach
  <2> QED
    BY <1>2, <2>1, SomeRegisterFree
<1>9. CASE Rescan
  <2>1. PICK n \in (reserved + 1)..Len(fn.scratch) : IsWanted(n)
    BY <1>9 DEF Rescan
  <2>2. 0 \in 0..(n - 1)
    BY <1>3, <2>1
  <2>3. ~Serves(0)
    BY <2>1, <2>2 DEF IsWanted
  <2>4. \A i : Needs(i, spilled) = 0
    BY <1>3, FS_EmptySet DEF Needs, SpilledReads, WritesSpilled
  <2> QED
    BY <2>3, <2>4 DEF Serves
<1>10. CASE EndRounds \/ Refuse \/ OutOfSlots \/ Rewrite \/ \E v \in VRegs : AssignSlot(v)
  <2>1. phase' # "scan" /\ spilled' = spilled /\ reserved' = reserved
    BY <1>10 DEF EndRounds, Refuse, OutOfSlots, Rewrite, AssignSlot, EndOfSlots
  <2> QED
    BY <1>3, <2>1
<1>11. CASE UNCHANGED vars
  BY <1>3, <1>4, <1>11 DEF vars
<1> QED
  BY <1>5, <1>7, <1>8, <1>9, <1>10, <1>11 DEF Next, Step, Terminated

(* A function whose intervals have no holes and never outnumber the        *)
(* register file spills nothing, however its intervals overlap: the scan   *)
(* in order of start is optimal there (scan, interval starts ascending).   *)
THEOREM SpillsOnlyUnderPressure == Spec => []NoNeedlessSpill
<1>1. Init => RoomInv
  BY DEF Init, RoomInv
<1>2. RoomInv => NoNeedlessSpill
  BY DEF RoomInv, RoomForAll, NoNeedlessSpill
<1> QED
  BY <1>1, <1>2, RoomStep, InductiveInvariant, PTL DEF Spec

-----------------------------------------------------------------------------
(* The code it leaves behind                                               *)

MirFacts == INSTANCE MirFuncProofs

(* The instruction being executed, fetched from the place before pc.       *)
Here    == <<pc[1], pc[2] - 1>>
Current == InstrAt(Here)
Plan    == Expansion(Current, IndexOf(Here))
Kept    == Saved(Current, IndexOf(Here))
Loads   == ReloadOrder(Current)
Sent    == Stores(Current)

(* How much of its expansion has run, where in it the instruction itself   *)
(* stands, and how many registers are in the frame.                        *)
Done   == Len(Plan) - Len(todo)
Before == Len(Kept) + Len(Loads)
Depth ==
  IF Done <= Len(Kept) THEN Done
  ELSE IF Done <= Before + 1 + Len(Sent) THEN Len(Kept) ELSE Len(Plan) - Done

Wanted(v) == Mir!WantedAt(prog.func, v)

(* What is where v's value is kept between instructions.                   *)
Home(v) == IF v \in spilled THEN memory[SlotOf(v)] ELSE regs[assigned[v]]

HomeAt(place) == \A v \in defined : place \in Wanted(v) => v \in Home(v)

(* The frame holds what the registers in it held that is still wanted.     *)
FrameHolds ==
  \A i \in 1..Depth, v \in defined \ spilled :
    (pc \in Wanted(v) /\ assigned[v] = Kept[i]) => v \in memory[FrameBase + i - 1]

(* Before the instruction every value is at home, and what has been        *)
(* reloaded is in its scratch register.                                    *)
ReadyToRun ==
  Done <= Before =>
    /\ HomeAt(Here)
    /\ \A i \in 1..Len(Loads) :
         (i <= Done - Len(Kept) /\ Loads[i] \in defined)
           => Loads[i] \in regs[fn.scratch[i]]

(* After it a wanted value is at home, or about to be stored there, or in  *)
(* the part of the frame still to be popped.                               *)
OnTheWayHome ==
  Done > Before =>
    \A v \in defined : pc \in Wanted(v) =>
      IF v \in spilled \cap Current.def /\ Done = Before + 1
      THEN v \in regs[RegisterFor(Current, v)]
      ELSE \/ v \in Home(v)
           \/ v \notin spilled /\ \E i \in 1..Depth : Kept[i] = assigned[v]

Midway ==
  /\ pc[2] > 1
  /\ Done \in 0..Len(Plan)
  /\ todo = SubSeq(Plan, Done + 1, Len(Plan))
  /\ sp = FrameBase + Depth
  /\ FrameHolds
  /\ ReadyToRun
  /\ OnTheWayHome

CodeTypes ==
  /\ prog \in Programs
  /\ fn = prog.input
  /\ pc \in Mir!Places(prog.func)
  /\ regs \in [Registers -> SUBSET (VRegs \cup {Foreign})]
  /\ memory \in [Cells -> SUBSET (VRegs \cup {Foreign})]
  /\ sp \in Nat
  /\ defined \subseteq VRegs

Untouched ==
  stage = "allocate" =>
    /\ todo = <<>>
    /\ memory = [c \in Cells |-> {Foreign}]
    /\ defined = {}

Admitted == stage \in {"run", "exited"} => Accepted

AtRest ==
  (stage \in {"run", "exited"} /\ todo = <<>>) => sp = FrameBase /\ HomeAt(pc)

CodeInv ==
  /\ CodeTypes
  /\ Untouched
  /\ Admitted
  /\ AtRest
  /\ stage = "run" /\ todo # <<>> => Midway
  /\ ForeignKept

-----------------------------------------------------------------------------
(* Sets of numbers in order.                                               *)

(* Counting how many members are no greater numbers a finite set.          *)
LEMMA RankNumbers ==
  ASSUME NEW S \in SUBSET Nat, IsFiniteSet(S)
  PROVE  LET rank == [n \in S |-> Cardinality({m \in S : m <= n})]
         IN  /\ rank \in Injection(S, 1..Cardinality(S))
             /\ rank \in Surjection(S, 1..Cardinality(S))
<1> DEFINE Below(n) == {m \in S : m <= n}
           rank == [n \in S |-> Cardinality(Below(n))]
<1>1. Cardinality(S) \in Nat
  BY FS_CardinalityType
<1>2. \A n \in S : /\ IsFiniteSet(Below(n))
                   /\ Cardinality(Below(n)) \in 1..Cardinality(S)
  <2> TAKE n \in S
  <2>1. Below(n) \in SUBSET S /\ n \in Below(n)
    OBVIOUS
  <2>2. IsFiniteSet(Below(n)) /\ Cardinality(Below(n)) <= Cardinality(S)
    BY <2>1, FS_Subset
  <2>3. Cardinality(Below(n)) \in Nat /\ Cardinality(Below(n)) # 0
    BY <2>1, <2>2, FS_CardinalityType, FS_EmptySet
  <2> QED
    BY <1>1, <2>2, <2>3
<1>3. ASSUME NEW n \in S, NEW m \in S, m < n
      PROVE  rank[m] < rank[n]
  <2>1. Below(m) \in SUBSET Below(n) /\ Below(m) # Below(n)
    <3>1. \A k \in S : k \in Nat
      OBVIOUS
    <3>2. \A k \in Below(m) : k \in Below(n)
      BY <1>3, <3>1
    <3>3. n \in Below(n) /\ n \notin Below(m)
      BY <1>3, <3>1
    <3> HIDE DEF Below
    <3> QED
      BY <3>2, <3>3
  <2>2. /\ Cardinality(Below(m)) <= Cardinality(Below(n))
        /\ Cardinality(Below(m)) # Cardinality(Below(n))
    BY <1>2, <2>1, FS_Subset
  <2>3. Cardinality(Below(m)) \in Nat /\ Cardinality(Below(n)) \in Nat
    BY <1>2
  <2> QED
    BY <2>2, <2>3
<1>4. rank \in Injection(S, 1..Cardinality(S))
  <2>1. rank \in [S -> 1..Cardinality(S)]
    BY <1>2
  <2>2. \A n, m \in S : rank[n] = rank[m] => n = m
    <3> SUFFICES ASSUME NEW n \in S, NEW m \in S, rank[n] = rank[m], n # m
                 PROVE  FALSE
      OBVIOUS
    <3>1. n < m \/ m < n
      OBVIOUS
    <3>2. rank[n] \in 1..Cardinality(S) /\ rank[m] \in 1..Cardinality(S)
      BY <2>1
    <3> HIDE DEF rank
    <3> QED
      BY <1>3, <3>1, <3>2
  <2> QED
    BY <2>1, <2>2 DEF Injection, IsInjective
<1>5. IsFiniteSet(1..Cardinality(S)) /\ Cardinality(1..Cardinality(S)) = Cardinality(S)
  BY <1>1, FS_Interval
<1>6. rank \in Surjection(S, 1..Cardinality(S))
  BY <1>4, <1>5, FS_Injection
<1> QED
  BY <1>4, <1>6

(* InOrder lists every member exactly once.                                *)
LEMMA InOrderLists ==
  ASSUME NEW S \in SUBSET Nat, IsFiniteSet(S)
  PROVE  /\ InOrder(S) \in Seq(S)
         /\ Len(InOrder(S)) = Cardinality(S)
         /\ DOMAIN InOrder(S) = 1..Len(InOrder(S))
         /\ \A n \in S : \E i \in 1..Len(InOrder(S)) : InOrder(S)[i] = n
         /\ \A i, j \in 1..Len(InOrder(S)) : InOrder(S)[i] = InOrder(S)[j] => i = j
<1> DEFINE rank == [n \in S |-> Cardinality({m \in S : m <= n})]
           Nth(i) == CHOOSE n \in S : Cardinality({m \in S : m <= n}) = i
<1>1. Cardinality(S) \in Nat
  BY FS_CardinalityType
<1>2. rank \in Injection(S, 1..Cardinality(S)) /\ rank \in Surjection(S, 1..Cardinality(S))
  BY RankNumbers
<1>3. InOrder(S) = [i \in 1..Cardinality(S) |-> Nth(i)]
  BY DEF InOrder
<1> SUFFICES /\ InOrder(S) \in Seq(S)
             /\ Len(InOrder(S)) = Cardinality(S)
             /\ \A n \in S : \E i \in 1..Cardinality(S) : InOrder(S)[i] = n
             /\ \A i, j \in 1..Cardinality(S) : InOrder(S)[i] = InOrder(S)[j] => i = j
  OBVIOUS
<1> HIDE DEF InOrder
<1>4. /\ \A n \in S : rank[n] \in 1..Cardinality(S)
      /\ \A n, m \in S : rank[n] = rank[m] => n = m
      /\ \A i \in 1..Cardinality(S) : \E n \in S : rank[n] = i
  <2> HIDE DEF rank
  <2> QED
    BY <1>2 DEF Injection, IsInjective, Surjection
<1>5. \A i \in 1..Cardinality(S) : Nth(i) \in S /\ rank[Nth(i)] = i
  BY <1>4
<1> HIDE DEF rank, Nth
<1>6. \A n \in S : Nth(rank[n]) = n
  BY <1>4, <1>5
<1>7. InOrder(S) \in [1..Cardinality(S) -> S]
  BY <1>3, <1>5
<1>8. InOrder(S) \in Seq(S) /\ Len(InOrder(S)) = Cardinality(S)
  BY <1>1, <1>7
<1>9. \A n \in S : \E i \in 1..Cardinality(S) : InOrder(S)[i] = n
  BY <1>3, <1>4, <1>6
<1>10. \A i, j \in 1..Cardinality(S) : InOrder(S)[i] = InOrder(S)[j] => i = j
  BY <1>3, <1>5
<1> QED
  BY <1>8, <1>9, <1>10

(* The greatest member is the one whose rank is the whole.                 *)
LEMMA Greatest ==
  ASSUME NEW S \in SUBSET Nat, IsFiniteSet(S), S # {}
  PROVE  Max(S) \in S /\ \A n \in S : n <= Max(S)
<1> DEFINE Below(n) == {m \in S : m <= n}
           rank == [n \in S |-> Cardinality(Below(n))]
<1>1. Cardinality(S) \in Nat /\ Cardinality(S) # 0
  BY FS_CardinalityType, FS_EmptySet
<1>2. rank \in Surjection(S, 1..Cardinality(S))
  BY RankNumbers
<1>3. PICK n \in S : rank[n] = Cardinality(S)
  <2> HIDE DEF rank
  <2> QED
    BY <1>1, <1>2 DEF Surjection
<1>4. Below(n) = S
  BY <1>3, FS_Subset
<1>5. \A m \in S : n >= m
  BY <1>4
<1> QED
  BY <1>3, <1>5 DEF Max

LEMMA Least ==
  ASSUME NEW S \in SUBSET Nat, S # {}
  PROVE  \E n \in S : \A m \in S : n <= m
<1> DEFINE R == OpToRel(<, Nat)
<1>1. \A m, n \in Nat : m < n => <<m, n>> \in R
  BY DEF OpToRel
<1>2. IsWellFoundedOn(R, Nat)
  BY NatLessThanWellFounded
<1> HIDE DEF R
<1>3. PICK n \in S : \A m \in S : <<m, n>> \notin R
  BY <1>2, WFMin
<1>4. \A m \in S : ~(m < n)
  BY <1>1, <1>3
<1>5. \A m \in S : n <= m
  BY <1>4
<1> QED
  BY <1>5

(* The image of a finite set is finite.                                    *)
LEMMA ImageFinite ==
  ASSUME NEW S, IsFiniteSet(S), NEW f, DOMAIN f = S
  PROVE  IsFiniteSet({f[x] : x \in S})
<1> DEFINE g == [x \in S |-> f[x]]
<1>1. g \in Surjection(S, {f[x] : x \in S})
  BY DEF Surjection
<1> QED
  BY <1>1, FS_Surjection

-----------------------------------------------------------------------------
(* What the allocator leaves for the rewriting.                            *)

Allocated == IInv /\ ScratchHeldBack /\ ScratchSuffices

Bare(instr) == [args |-> instr.args, def |-> instr.def, call |-> instr.call]

(* An accepted function and one of its instructions.                       *)
LEMMA Settled ==
  ASSUME Allocated, prog \in Programs, fn = prog.input, Accepted
  PROVE  /\ phase = "done" /\ FrameFits
         /\ prog.recursive => spilled = {}
         /\ VRegs \subseteq Nat /\ Registers \subseteq Nat
         /\ IsFiniteSet(VRegs) /\ spilled \subseteq VRegs
         /\ fn.scratch \in Seq(Registers)
         /\ reserved \in 0..Len(fn.scratch)
         /\ \A i, j \in 1..reserved : fn.scratch[i] = fn.scratch[j] => i = j
         /\ fn.base \in Nat /\ prog.above \in Nat
         /\ Present \subseteq VRegs
         /\ \A v \in Present \ spilled : assigned[v] \in Registers \ HeldBack
         /\ \A v \in spilled : slots[v] \in Nat
<1> USE DEF Allocated, IInv, TypeOK, InputOK
<1>1. phase = "done" /\ FrameFits /\ (prog.recursive => spilled = {})
  BY DEF Accepted, SpillAllowed
<1>2. VRegs \subseteq Nat /\ Registers \subseteq Nat /\ IsFiniteSet(VRegs)
  BY ConstantsAssumption
<1>3. fn.scratch \in Seq(Registers) /\ Present \subseteq VRegs
  BY InputShape
<1>4. fn.base \in Nat /\ prog.above \in Nat
  BY ProgramsAssumption, InputsAssumption DEF Program, Input
<1>5. \A i, j \in 1..reserved : fn.scratch[i] = fn.scratch[j] => i = j
  <2>1. NoDuplicates(fn.scratch)
    BY <1>1 DEF EntryOK, ConfigValid
  <2>2. 1..reserved \subseteq DOMAIN fn.scratch
    BY <1>3
  <2> QED
    BY <2>1, <2>2 DEF NoDuplicates
<1>6. \A v \in Present \ spilled : assigned[v] \in Registers \ HeldBack
  BY <1>1, <1>3 DEF ScratchHeldBack
<1>7. \A v \in spilled : slots[v] \in Nat
  BY <1>1 DEF SlotInv, Slotted
<1> QED
  BY <1>1, <1>2, <1>3, <1>4, <1>5, <1>6, <1>7

(* The scratch registers an instruction is given are the first of those    *)
(* held back, one per distinct spilled operand.                            *)
LEMMA LoadsShape ==
  ASSUME Allocated, prog \in Programs, fn = prog.input, Accepted,
         NEW instr, instr.args \in Seq(VRegs), Bare(instr) \in fn.instrs
  PROVE  /\ ReloadOrder(instr) \in Seq(spilled)
         /\ Len(ReloadOrder(instr)) <= reserved
         /\ \A v \in Mir!Reads(instr) \cap spilled :
              \E i \in 1..Len(ReloadOrder(instr)) : ReloadOrder(instr)[i] = v
         /\ \A i \in 1..Len(ReloadOrder(instr)) : ReloadOrder(instr)[i] \in Mir!Reads(instr)
         /\ \A i, j \in 1..Len(ReloadOrder(instr)) :
              ReloadOrder(instr)[i] = ReloadOrder(instr)[j] => i = j
<1> DEFINE at == InOrder(FirstMentions(instr))
           reads == ReloadOrder(instr)
<1>1. /\ Len(instr.args) \in Nat
      /\ DOMAIN instr.args = 1..Len(instr.args)
      /\ \A i \in 1..Len(instr.args) : instr.args[i] \in VRegs
  OBVIOUS
<1>2. FirstMentions(instr) \in SUBSET Nat /\ IsFiniteSet(FirstMentions(instr))
  <2>1. FirstMentions(instr) \in SUBSET (1..Len(instr.args))
    BY <1>1 DEF FirstMentions
  <2>2. IsFiniteSet(1..Len(instr.args))
    BY <1>1, FS_Interval
  <2> QED
    BY <2>1, <2>2, FS_Subset
<1>3. /\ at \in Seq(FirstMentions(instr))
      /\ \A n \in FirstMentions(instr) : \E i \in 1..Len(at) : at[i] = n
      /\ \A i, j \in 1..Len(at) : at[i] = at[j] => i = j
  BY <1>2, InOrderLists
<1>4. /\ Len(at) \in Nat /\ DOMAIN at = 1..Len(at)
      /\ \A i \in 1..Len(at) : at[i] \in FirstMentions(instr)
  BY <1>3
<1>5. reads = [i \in 1..Len(at) |-> instr.args[at[i]]]
  BY <1>4 DEF ReloadOrder
<1> HIDE DEF at
<1>6. \A i \in 1..Len(at) : reads[i] \in spilled
  BY <1>4, <1>5 DEF FirstMentions
<1>7. reads \in Seq(spilled) /\ Len(reads) = Len(at)
  BY <1>4, <1>5, <1>6
<1>8. \A i, j \in 1..Len(at) : reads[i] = reads[j] => i = j
  <2>1. ASSUME NEW i \in 1..Len(at), NEW j \in 1..Len(at), at[i] < at[j]
        PROVE  reads[i] # reads[j]
    <3>1. at[i] \in 1..(at[j] - 1)
      BY <1>1, <1>4, <2>1 DEF FirstMentions
    <3>2. instr.args[at[i]] # instr.args[at[j]]
      BY <1>4, <3>1 DEF FirstMentions
    <3> QED
      BY <1>5, <3>2
  <2>2. \A i \in 1..Len(at) : at[i] \in Nat
    BY <1>2, <1>4
  <2>3. ASSUME NEW i \in 1..Len(at), NEW j \in 1..Len(at), reads[i] = reads[j]
        PROVE  i = j
    <3>1. at[i] = at[j]
      BY <2>1, <2>2, <2>3
    <3> QED
      BY <1>3, <3>1
  <2> QED
    BY <2>3
<1>9. \A v \in Mir!Reads(instr) \cap spilled : \E i \in 1..Len(at) : reads[i] = v
  <2> TAKE v \in Mir!Reads(instr) \cap spilled
  <2> DEFINE named == {i \in 1..Len(instr.args) : instr.args[i] = v}
  <2>1. named # {} /\ named \in SUBSET Nat
    BY <1>1 DEF Mir!Reads
  <2>2. PICK n \in named : \A m \in named : n <= m
    BY <2>1, Least
  <2>3. n \in FirstMentions(instr)
    BY <1>1, <2>2 DEF FirstMentions
  <2>4. PICK i \in 1..Len(at) : at[i] = n
    BY <1>3, <2>3
  <2> QED
    BY <1>5, <2>4
<1>10. Len(reads) <= reserved
  <2> DEFINE bare == Bare(instr)
  <2>1. Needs(bare, spilled) <= reserved /\ bare \in Instr
    BY InputShape, Settled DEF Allocated, ScratchSuffices, IInv, InputOK
  <2>2. SpilledReads(bare, spilled) = Mir!Reads(instr) \cap spilled
    BY DEF SpilledReads, Mir!Reads, Bare
  <2>3. IsFiniteSet(spilled)
    BY Settled, FS_Subset
  <2>4. IsFiniteSet(Mir!Reads(instr) \cap spilled)
    BY <2>3, FS_Intersection
  <2>5. \A i \in 1..Len(at) : reads[i] \in Mir!Reads(instr) \cap spilled
    BY <1>1, <1>4, <1>5, <1>6 DEF Mir!Reads, FirstMentions
  <2>6. reads \in Injection(1..Len(at), Mir!Reads(instr) \cap spilled)
    BY <1>5, <1>8, <2>5 DEF Injection, IsInjective
  <2>7. Cardinality(1..Len(at)) <= Cardinality(Mir!Reads(instr) \cap spilled)
    BY <2>4, <2>6, FS_Injection
  <2>8. Cardinality(1..Len(at)) = Len(at)
    <3>1. \A n \in Nat : Cardinality(1..n) = n
      BY FS_Interval
    <3> QED
      BY <1>4, <3>1
  <2>9. Cardinality(Mir!Reads(instr) \cap spilled) \in Nat
    BY <2>4, FS_CardinalityType
  <2>10. Cardinality(SpilledReads(bare, spilled)) <= reserved
    <3>1. CASE SpilledReads(bare, spilled) = {}
      <4>1. Cardinality(SpilledReads(bare, spilled)) = 0
        BY <3>1, FS_EmptySet
      <4> QED
        BY <4>1, Settled
    <3>2. CASE SpilledReads(bare, spilled) # {}
      BY <3>2, <2>1 DEF Needs
    <3> QED
      BY <3>1, <3>2
  <2>11. reserved \in Nat
    BY Settled
  <2> QED
    BY <1>4, <1>7, <2>2, <2>7, <2>8, <2>9, <2>10, <2>11
<1>11. \A i \in 1..Len(reads) : reads[i] \in Mir!Reads(instr)
  BY <1>1, <1>4, <1>5, <1>7 DEF Mir!Reads, FirstMentions
<1> QED
  BY <1>7, <1>8, <1>9, <1>10, <1>11

(* Each operand has its own register, and every spilled one a scratch      *)
(* register that nothing was assigned.                                     *)
LEMMA OperandRegisters ==
  ASSUME Allocated, prog \in Programs, fn = prog.input, Accepted,
         NEW instr, instr.args \in Seq(VRegs), instr.def \subseteq VRegs,
         Bare(instr) \in fn.instrs
  PROVE  /\ \A v \in VRegs \ spilled : RegisterFor(instr, v) = assigned[v]
         /\ \A v \in spilled \cap (Mir!Reads(instr) \cup instr.def) :
              RegisterFor(instr, v) \in HeldBack
         /\ \A i \in 1..Len(ReloadOrder(instr)) :
              RegisterFor(instr, ReloadOrder(instr)[i]) = fn.scratch[i]
         /\ \A i \in 1..Len(ReloadOrder(instr)) : fn.scratch[i] \in HeldBack
<1> DEFINE reads == ReloadOrder(instr)
<1>1. /\ reads \in Seq(spilled) /\ Len(reads) <= reserved
      /\ \A v \in Mir!Reads(instr) \cap spilled : \E i \in 1..Len(reads) : reads[i] = v
      /\ \A i, j \in 1..Len(reads) : reads[i] = reads[j] => i = j
  BY LoadsShape
<1>2. Len(reads) \in Nat /\ DOMAIN reads = 1..Len(reads) /\ reserved \in Nat
  BY <1>1, Settled
<1>3. \A i \in 1..reserved : fn.scratch[i] \in HeldBack
  BY DEF HeldBack
<1> HIDE DEF reads
<1>4. \A i \in 1..Len(reads) : reads[i] \in spilled /\ SX!Contains(reads, reads[i])
  BY <1>1, <1>2 DEF SX!Contains
<1>5. \A i \in 1..Len(reads) : (CHOOSE k \in DOMAIN reads : reads[k] = reads[i]) = i
  BY <1>1, <1>2
<1>6. \A i \in 1..Len(reads) : RegisterFor(instr, reads[i]) = fn.scratch[i]
  BY <1>4, <1>5 DEF RegisterFor, reads
<1>7. \A i \in 1..Len(reads) : fn.scratch[i] \in HeldBack
  BY <1>1, <1>2, <1>3
<1>8. ASSUME NEW v \in spilled \cap (Mir!Reads(instr) \cup instr.def)
      PROVE  RegisterFor(instr, v) \in HeldBack
  <2>1. CASE SX!Contains(reads, v)
    <3>1. PICK i \in 1..Len(reads) : reads[i] = v
      BY <2>1 DEF SX!Contains
    <3> QED
      BY <1>6, <1>7, <3>1
  <2>2. CASE ~SX!Contains(reads, v)
    <3>1. v \notin Mir!Reads(instr)
      BY <1>1, <2>2 DEF SX!Contains
    <3>2. v \in instr.def \cap spilled
      BY <3>1
    <3>3. Needs(Bare(instr), spilled) >= 1
      <4>1. WritesSpilled(Bare(instr), spilled)
        BY <3>2 DEF WritesSpilled, Bare
      <4>2. Bare(instr) \in Instr
        BY InputShape DEF Allocated, IInv, InputOK
      <4>3. Cardinality(SpilledReads(Bare(instr), spilled)) \in Nat
        BY <4>2, ReadsFinite
      <4>4. IsFiniteSet(SpilledReads(Bare(instr), spilled))
        <5>1. IsFiniteSet(spilled)
          BY Settled, FS_Subset
        <5>2. SpilledReads(Bare(instr), spilled) \in SUBSET spilled
          BY DEF SpilledReads
        <5> QED
          BY <5>1, <5>2, FS_Subset
      <4>5. SpilledReads(Bare(instr), spilled) # {}
              => Cardinality(SpilledReads(Bare(instr), spilled)) # 0
        BY <4>4, FS_EmptySet
      <4> QED
        BY <4>1, <4>3, <4>5 DEF Needs
    <3>4. Needs(Bare(instr), spilled) <= reserved
      BY Settled DEF Allocated, ScratchSuffices
    <3>5. 1 \in 1..reserved
      <4>1. Needs(Bare(instr), spilled) \in Int
        <5>1. Bare(instr) \in Instr
          BY InputShape DEF Allocated, IInv, InputOK
        <5> QED
          BY <5>1, ReadsFinite DEF Needs
      <4> QED
        BY <1>2, <3>3, <3>4, <4>1
    <3>6. RegisterFor(instr, v) = fn.scratch[1]
      BY <2>2 DEF RegisterFor, reads
    <3> QED
      BY <1>3, <3>5, <3>6
  <2> QED
    BY <2>1, <2>2
<1>9. \A v \in VRegs \ spilled : RegisterFor(instr, v) = assigned[v]
  BY DEF RegisterFor
<1> QED
  BY <1>6, <1>7, <1>8, <1>9 DEF reads

(* A spilled result is stored, and nothing else is.                        *)
LEMMA StoresShape ==
  ASSUME VRegs \subseteq Nat, NEW instr, instr.def \subseteq VRegs,
         \A v, w \in instr.def : v = w
  PROVE  /\ instr.def \cap spilled = {} => Stores(instr) = <<>>
         /\ \A v \in instr.def \cap spilled :
              Stores(instr) = <<Poke(SlotOf(v), RegisterFor(instr, v))>>
<1> DEFINE results == instr.def \cap spilled
           out == InOrder(results)
<1>1. results = {} \/ \E v : results = {v}
  OBVIOUS
<1>2. IsFiniteSet(results)
  BY <1>1, FS_EmptySet, FS_Singleton
<1>3. results \in SUBSET Nat
  OBVIOUS
<1> HIDE DEF results
<1>4. /\ out \in Seq(results) /\ Len(out) = Cardinality(results)
      /\ DOMAIN out = 1..Len(out)
  BY <1>2, <1>3, InOrderLists
<1>5. Stores(instr) = [i \in DOMAIN out |-> Poke(SlotOf(out[i]), RegisterFor(instr, out[i]))]
  BY DEF Stores, results
<1> HIDE DEF out
<1>6. CASE results = {}
  <2>1. DOMAIN out = 1..0
    BY <1>4, <1>6, FS_EmptySet
  <2> DEFINE poke(w) == Poke(SlotOf(w), RegisterFor(instr, w))
  <2>2. Stores(instr) = [i \in 1..0 |-> poke(out[i])]
    BY <1>5, <2>1
  <2> HIDE DEF poke
  <2>3. Stores(instr) \in Seq({}) /\ Len(Stores(instr)) = 0
    BY <2>2
  <2>4. Stores(instr) = <<>>
    BY <2>3, EmptySeq
  <2> QED
    BY <1>6, <2>4 DEF results
<1>7. ASSUME NEW v \in results
      PROVE  Stores(instr) = <<Poke(SlotOf(v), RegisterFor(instr, v))>>
  <2>1. results = {v}
    BY <1>1
  <2>2. DOMAIN out = 1..1 /\ out[1] = v
    <3>1. Cardinality(results) = 1
      BY <2>1, FS_Singleton
    <3>2. Len(out) = 1 /\ \A i \in 1..Len(out) : out[i] \in results
      BY <1>4, <3>1
    <3>3. out[1] \in results
      BY <3>2
    <3>4. out[1] = v
      BY ONLY <2>1, <3>3
    <3>5. DOMAIN out = 1..1
      BY ONLY <1>4, <3>2
    <3> QED
      BY ONLY <3>4, <3>5
  <2> DEFINE poke(w) == Poke(SlotOf(w), RegisterFor(instr, w))
  <2>3. Stores(instr) = [i \in 1..1 |-> poke(out[i])]
    BY <1>5, <2>2
  <2> HIDE DEF poke
  <2>4. Stores(instr) = <<poke(v)>>
    BY <2>2, <2>3
  <2> QED
    BY <2>4 DEF poke
<1> QED
  BY <1>6, <1>7 DEF results

(* The registers of all values wanted after a call are saved around it.    *)
LEMMA SavedShape ==
  ASSUME Allocated, prog \in Programs, fn = prog.input, Accepted, NEW instr, NEW index
  PROVE  /\ Saved(instr, index) \in Seq(Registers)
         /\ ~instr.call => Saved(instr, index) = <<>>
         /\ \A v \in Present \ spilled :
              (instr.call /\ Mir!DefPoint(index) \in fn.ivs[v].points)
                => \E i \in 1..Len(Saved(instr, index)) : Saved(instr, index)[i] = assigned[v]
<1> DEFINE kept == {w \in Present \ spilled : Mir!DefPoint(index) \in fn.ivs[w].points}
           taken == {assigned[v] : v \in kept}
<1>1. taken \in SUBSET Registers
  BY Settled
<1>2. IsFiniteSet(kept)
  <2>1. kept \in SUBSET VRegs /\ IsFiniteSet(VRegs)
    BY Settled
  <2> HIDE DEF kept
  <2> QED
    BY <2>1, FS_Subset
<1>3. IsFiniteSet(taken)
  <2> DEFINE f == [v \in kept |-> assigned[v]]
  <2>1. IsFiniteSet({f[v] : v \in kept})
    <3> HIDE DEF kept
    <3>1. DOMAIN f = kept
      OBVIOUS
    <3> HIDE DEF f
    <3> QED
      BY ONLY <1>2, <3>1, ImageFinite
  <2>2. {f[v] : v \in kept} = taken
    OBVIOUS
  <2> QED
    BY <2>1, <2>2
<1>4. taken \in SUBSET Nat
  BY <1>1, ConstantsAssumption
<1> HIDE DEF taken
<1>5. /\ InOrder(taken) \in Seq(taken)
      /\ \A r \in taken : \E i \in 1..Len(InOrder(taken)) : InOrder(taken)[i] = r
  BY <1>3, <1>4, InOrderLists
<1>6. CASE instr.call
  <2>1. Saved(instr, index) = InOrder(taken)
    BY <1>6 DEF Saved, taken
  <2>2. InOrder(taken) \in Seq(Registers)
    BY <1>1, <1>5
  <2>3. \A v \in kept : assigned[v] \in taken
    BY DEF taken
  <2> QED
    BY <1>5, <1>6, <2>1, <2>2, <2>3
<1>7. CASE ~instr.call
  BY <1>7 DEF Saved
<1> QED
  BY <1>6, <1>7

-----------------------------------------------------------------------------
(* The function's places and instructions.                                 *)

Next1(p) == <<p[1], p[2] + 1>>

LEMMA FunctionShape ==
  ASSUME prog \in Programs
  PROVE  /\ Len(prog.func.code) \in Nat \ {0}
         /\ \A b \in 1..Len(prog.func.code) :
              /\ prog.func.code[b] \in Seq(Mir!MirInstr)
              /\ Len(prog.func.code[b]) \in Nat
              /\ prog.func.succs[b] \subseteq 1..Len(prog.func.code)
         /\ Mir!Blocks(prog.func) = 1..Len(prog.func.code)
<1>1. prog.func \in Mir!MirFuncs /\ Mir!EdgesInside(prog.func) /\ prog.func.code # <<>>
  BY ProgramsAssumption DEF Program
<1>2. prog.func.code \in Seq(Seq(Mir!MirInstr))
  BY <1>1 DEF Mir!MirFuncs
<1>3. Len(prog.func.code) \in Nat \ {0} /\ DOMAIN prog.func.code = 1..Len(prog.func.code)
  BY <1>1, <1>2, EmptySeq
<1>4. \A b \in 1..Len(prog.func.code) : prog.func.code[b] \in Seq(Mir!MirInstr)
  BY <1>2, <1>3
<1>5. \A s \in Seq(Mir!MirInstr) : Len(s) \in Nat
  OBVIOUS
<1> QED
  BY <1>1, <1>3, <1>4, <1>5 DEF Mir!EdgesInside, Mir!Blocks

LEMMA PlaceShape ==
  ASSUME prog \in Programs
  PROVE  \A p : p \in Mir!Places(prog.func) <=>
           \E b \in 1..Len(prog.func.code) :
             \E k \in 1..(Len(prog.func.code[b]) + 1) : p = <<b, k>>
<1>1. Mir!Blocks(prog.func) = 1..Len(prog.func.code)
  BY FunctionShape
<1> QED
  BY <1>1 DEF Mir!Places

(* An instruction, the place after it and what the allocator was told.     *)
LEMMA InstrShape ==
  ASSUME prog \in Programs, fn = prog.input,
         NEW p \in Mir!Places(prog.func), ~AtEnd(p)
  PROVE  /\ InstrAt(p).args \in Seq(VRegs)
         /\ InstrAt(p).def \subseteq VRegs
         /\ InstrAt(p).call \in BOOLEAN
         /\ Bare(InstrAt(p)) \in fn.instrs
         /\ \A v, w \in InstrAt(p).def : v = w
         /\ InstrAt(p).call => InstrAt(p).def = {}
         /\ Mir!Reads(InstrAt(p)) \subseteq VRegs
         /\ Next1(p) \in Mir!Places(prog.func)
         /\ Next1(p)[2] > 1
         /\ <<Next1(p)[1], Next1(p)[2] - 1>> = p
<1>0. PICK b \in 1..Len(prog.func.code) :
        \E i \in 1..(Len(prog.func.code[b]) + 1) : p = <<b, i>>
  BY PlaceShape
<1>1. PICK k \in 1..(Len(prog.func.code[b]) + 1) : p = <<b, k>>
  BY <1>0
<1>2. /\ prog.func.code[b] \in Seq(Mir!MirInstr) /\ Len(prog.func.code[b]) \in Nat
      /\ b \in Mir!Blocks(prog.func)
  BY FunctionShape
<1>3. k \in 1..Len(prog.func.code[b]) /\ InstrAt(p) = prog.func.code[b][k]
  BY <1>1, <1>2 DEF AtEnd, InstrAt
<1>4. InstrAt(p) \in Mir!MirInstr
  BY <1>2, <1>3
<1>5. InstrAt(p) \in Mir!InstrsOf(prog.func)
  BY <1>2, <1>3 DEF Mir!InstrsOf
<1>6. /\ Bare(InstrAt(p)) \in fn.instrs
      /\ \A v, w \in InstrAt(p).def : v = w
      /\ InstrAt(p).call => InstrAt(p).def = {}
  BY <1>5, InputsDescribeFunctions DEF Bare
<1>7. /\ InstrAt(p).args \in Seq(VRegs)
      /\ InstrAt(p).def \subseteq VRegs
      /\ InstrAt(p).call \in BOOLEAN
  BY <1>4 DEF Mir!MirInstr
<1>8. Mir!Reads(InstrAt(p)) \subseteq VRegs
  BY <1>7 DEF Mir!Reads
<1>9. Next1(p) = <<b, k + 1>> /\ k + 1 \in 1..(Len(prog.func.code[b]) + 1)
  BY <1>1, <1>2, <1>3 DEF Next1
<1>10. Next1(p) \in Mir!Places(prog.func)
  BY <1>9, PlaceShape
<1>11. Next1(p)[2] > 1 /\ <<Next1(p)[1], Next1(p)[2] - 1>> = p
  BY <1>1, <1>3, <1>9
<1> QED
  BY <1>6, <1>7, <1>8, <1>10, <1>11

(* A function has the same places that want v wherever it is read.         *)
LEMMA SamePlaces ==
  ASSUME NEW f, NEW v
  PROVE  Mir!WantedAt(f, v) = MirFacts!WantedAt(f, v)
BY DEF Mir!WantedAt, MirFacts!WantedAt, Mir!Readers, MirFacts!Readers, Mir!Backed, MirFacts!Backed,
       Mir!Passing, MirFacts!Passing, Mir!Places, MirFacts!Places, Mir!Blocks, MirFacts!Blocks,
       Mir!IsEnd, MirFacts!IsEnd, Mir!InstrAt, MirFacts!InstrAt, Mir!Reads, MirFacts!Reads,
       Mir!After, MirFacts!After, Mir!Cardinality, MirFacts!Cardinality

(* A value is wanted by its readers, and wherever it is still wanted after *)
(* a place that does not write it.                                         *)
LEMMA WantedAround ==
  ASSUME NEW f \in Mir!MirFuncs, NEW v, NEW p \in Mir!Places(f)
  PROVE  p \in Mir!WantedAt(f, v) <=>
           \/ ~Mir!IsEnd(f, p) /\ v \in Mir!Reads(Mir!InstrAt(f, p))
           \/ /\ Mir!IsEnd(f, p) \/ v \notin Mir!InstrAt(f, p).def
              /\ Mir!After(f, p) \cap Mir!WantedAt(f, v) # {}
<1>1. f \in MirFacts!MirFuncs /\ p \in MirFacts!Places(f)
  BY DEF Mir!MirFuncs, MirFacts!MirFuncs, Mir!MirInstr, MirFacts!MirInstr,
         Mir!Places, MirFacts!Places, Mir!Blocks, MirFacts!Blocks
<1>2. p \in MirFacts!WantedAt(f, v) <=>
        \/ ~MirFacts!IsEnd(f, p) /\ v \in MirFacts!Reads(MirFacts!InstrAt(f, p))
        \/ /\ MirFacts!IsEnd(f, p) \/ v \notin MirFacts!InstrAt(f, p).def
           /\ MirFacts!After(f, p) \cap MirFacts!WantedAt(f, v) # {}
  BY <1>1, MirFacts!WantedBackwards
<1> QED
  BY <1>2, SamePlaces DEF Mir!IsEnd, MirFacts!IsEnd, Mir!InstrAt, MirFacts!InstrAt,
     Mir!Reads, MirFacts!Reads, Mir!After, MirFacts!After

(* Where a value is wanted its interval has a point.                       *)
LEMMA WantedShape ==
  ASSUME prog \in Programs, fn = prog.input, NEW v \in VRegs,
         NEW p \in Mir!Places(prog.func)
  PROVE  /\ ~AtEnd(p) =>
              /\ v \in Mir!Reads(InstrAt(p)) => p \in Wanted(v)
              /\ v \notin InstrAt(p).def /\ Next1(p) \in Wanted(v) => p \in Wanted(v)
              /\ p \in Wanted(v) => Mir!UsePoint(IndexOf(p)) \in fn.ivs[v].points
              /\ Next1(p) \in Wanted(v) \/ v \in InstrAt(p).def
                   => Mir!DefPoint(IndexOf(p)) \in fn.ivs[v].points
         /\ AtEnd(p) => \A b \in prog.func.succs[p[1]] :
              <<b, 1>> \in Mir!Places(prog.func) /\ (<<b, 1>> \in Wanted(v) => p \in Wanted(v))
<1>0. PICK b \in 1..Len(prog.func.code) :
        \E i \in 1..(Len(prog.func.code[b]) + 1) : p = <<b, i>>
  BY PlaceShape
<1>1. PICK k \in 1..(Len(prog.func.code[b]) + 1) : p = <<b, k>>
  BY <1>0
<1>2. Len(prog.func.code[b]) \in Nat /\ prog.func.succs[b] \subseteq 1..Len(prog.func.code)
  BY FunctionShape
<1>3. Mir!IsEnd(prog.func, p) <=> AtEnd(p)
  BY <1>1, <1>2 DEF Mir!IsEnd, AtEnd
<1>4. Mir!InstrAt(prog.func, p) = InstrAt(p)
  BY DEF Mir!InstrAt, InstrAt
<1>5. Mir!After(prog.func, p) =
        IF AtEnd(p) THEN {<<s, 1>> : s \in prog.func.succs[p[1]]} ELSE {Next1(p)}
  BY <1>3 DEF Mir!After, Next1
<1>6. fn.ivs[v].points = Mir!LivePoints(prog.func, v)
  BY InputsDescribeFunctions
<1>7. /\ ~AtEnd(p) /\ v \in Mir!Reads(InstrAt(p)) => p \in Wanted(v)
      /\ (AtEnd(p) \/ v \notin InstrAt(p).def)
           /\ Mir!After(prog.func, p) \cap Wanted(v) # {} => p \in Wanted(v)
  <2>1. prog.func \in Mir!MirFuncs
    BY ProgramsAssumption DEF Program
  <2> QED
    BY <1>3, <1>4, <2>1, WantedAround DEF Wanted
<1>8. ~AtEnd(p) /\ p \in Wanted(v) => Mir!UsePoint(IndexOf(p)) \in fn.ivs[v].points
  BY <1>3, <1>6 DEF Mir!LivePoints, IndexOf, Wanted
<1>9. /\ ~AtEnd(p)
      /\ Mir!After(prog.func, p) \cap Wanted(v) # {} \/ v \in InstrAt(p).def
      => Mir!DefPoint(IndexOf(p)) \in fn.ivs[v].points
  BY <1>3, <1>4, <1>6 DEF Mir!LivePoints, IndexOf, Wanted
<1>10. AtEnd(p) => \A s \in prog.func.succs[p[1]] : <<s, 1>> \in Mir!Places(prog.func)
  <2> SUFFICES ASSUME NEW s \in prog.func.succs[b]
               PROVE  <<s, 1>> \in Mir!Places(prog.func)
    BY <1>1
  <2>1. s \in 1..Len(prog.func.code) /\ 1 \in 1..(Len(prog.func.code[s]) + 1)
    BY <1>2, FunctionShape
  <2> QED
    BY <2>1, PlaceShape
<1>11. AtEnd(p) => \A s \in prog.func.succs[p[1]] : <<s, 1>> \in Wanted(v) => p \in Wanted(v)
  BY <1>5, <1>7
<1>12. ~AtEnd(p) /\ Next1(p) \in Wanted(v) => Mir!After(prog.func, p) \cap Wanted(v) # {}
  BY <1>5
<1> QED
  BY <1>7, <1>8, <1>9, <1>10, <1>11, <1>12

-----------------------------------------------------------------------------
(* The expansion of an instruction.                                        *)

(* Where the elements of five sequences end up in their concatenation.     *)
LEMMA PartsOf ==
  ASSUME NEW S, NEW a \in Seq(S), NEW b \in Seq(S), NEW r \in S,
         NEW c \in Seq(S), NEW d \in Seq(S), NEW s,
         s = a \o b \o <<r>> \o c \o d
  PROVE  /\ s \in Seq(S)
         /\ Len(s) = Len(a) + Len(b) + 1 + Len(c) + Len(d)
         /\ \A i \in 1..Len(a) : s[i] = a[i]
         /\ \A i \in 1..Len(b) : s[Len(a) + i] = b[i]
         /\ s[Len(a) + Len(b) + 1] = r
         /\ \A i \in 1..Len(c) : s[Len(a) + Len(b) + 1 + i] = c[i]
         /\ \A i \in 1..Len(d) : s[Len(a) + Len(b) + 1 + Len(c) + i] = d[i]
<1> DEFINE ab == a \o b
           abr == ab \o <<r>>
           abrc == abr \o c
<1>0. /\ Len(a) \in Nat /\ Len(b) \in Nat /\ Len(c) \in Nat /\ Len(d) \in Nat
      /\ <<r>> \in Seq(S) /\ Len(<<r>>) = 1 /\ <<r>>[1] = r
  OBVIOUS
<1>1. /\ ab \in Seq(S) /\ Len(ab) = Len(a) + Len(b)
      /\ \A i \in 1..Len(a) : ab[i] = a[i]
      /\ \A i \in 1..Len(b) : ab[Len(a) + i] = b[i]
  <2>1. \A i \in 1..Len(b) : Len(a) + i \in 1..(Len(a) + Len(b)) /\ Len(a) + i > Len(a)
    BY <1>0
  <2> QED
    BY <1>0, <2>1, ConcatProperties
<1> HIDE DEF ab
<1>2. /\ abr \in Seq(S) /\ Len(abr) = Len(a) + Len(b) + 1
      /\ \A i \in 1..(Len(a) + Len(b)) : abr[i] = ab[i]
      /\ abr[Len(a) + Len(b) + 1] = r
  <2>1. /\ abr \in Seq(S) /\ Len(abr) = Len(ab) + 1
        /\ \A i \in 1..(Len(ab) + 1) : abr[i] = IF i <= Len(ab) THEN ab[i] ELSE <<r>>[i - Len(ab)]
    BY <1>0, <1>1, ConcatProperties
  <2> HIDE DEF abr
  <2> QED
    BY <1>0, <1>1, <2>1
<1> HIDE DEF abr
<1>3. /\ abrc \in Seq(S) /\ Len(abrc) = Len(a) + Len(b) + 1 + Len(c)
      /\ \A i \in 1..(Len(a) + Len(b) + 1) : abrc[i] = abr[i]
      /\ \A i \in 1..Len(c) : abrc[Len(a) + Len(b) + 1 + i] = c[i]
  <2>1. /\ abrc \in Seq(S) /\ Len(abrc) = Len(abr) + Len(c)
        /\ \A i \in 1..(Len(abr) + Len(c)) :
             abrc[i] = IF i <= Len(abr) THEN abr[i] ELSE c[i - Len(abr)]
    BY <1>2, ConcatProperties
  <2> HIDE DEF abrc
  <2>2. \A i \in 1..Len(c) : abrc[Len(abr) + i] = c[i]
    <3> TAKE i \in 1..Len(c)
    <3>1. /\ Len(abr) + i \in 1..(Len(abr) + Len(c)) /\ ~(Len(abr) + i <= Len(abr))
          /\ (Len(abr) + i) - Len(abr) = i
      BY <1>0, <1>2
    <3> QED
      BY <2>1, <3>1
  <2> QED
    BY <1>0, <1>2, <2>1, <2>2
<1> HIDE DEF abrc
<1>4. /\ s \in Seq(S) /\ Len(s) = Len(a) + Len(b) + 1 + Len(c) + Len(d)
      /\ \A i \in 1..(Len(a) + Len(b) + 1 + Len(c)) : s[i] = abrc[i]
      /\ \A i \in 1..Len(d) : s[Len(a) + Len(b) + 1 + Len(c) + i] = d[i]
  <2>0. s = abrc \o d
    BY DEF abrc, abr, ab
  <2>1. /\ s \in Seq(S) /\ Len(s) = Len(abrc) + Len(d)
        /\ \A i \in 1..(Len(abrc) + Len(d)) :
             s[i] = IF i <= Len(abrc) THEN abrc[i] ELSE d[i - Len(abrc)]
    BY <1>3, <2>0, ConcatProperties
  <2>2. \A i \in 1..Len(d) : s[Len(abrc) + i] = d[i]
    <3> TAKE i \in 1..Len(d)
    <3>1. /\ Len(abrc) + i \in 1..(Len(abrc) + Len(d)) /\ ~(Len(abrc) + i <= Len(abrc))
          /\ (Len(abrc) + i) - Len(abrc) = i
      BY ONLY <1>0, <1>3
    <3> QED
      BY ONLY <2>1, <3>1
  <2> QED
    BY ONLY <1>0, <1>3, <2>1, <2>2
<1>5. \A i \in 1..Len(a) : s[i] = a[i]
  <2> TAKE i \in 1..Len(a)
  <2>1. /\ i \in 1..(Len(a) + Len(b)) /\ i \in 1..(Len(a) + Len(b) + 1)
        /\ i \in 1..(Len(a) + Len(b) + 1 + Len(c))
    BY ONLY <1>0
  <2> QED
    BY ONLY <1>1, <1>2, <1>3, <1>4, <2>1
<1>6. \A i \in 1..Len(b) : s[Len(a) + i] = b[i]
  <2> TAKE i \in 1..Len(b)
  <2>1. /\ Len(a) + i \in 1..(Len(a) + Len(b)) /\ Len(a) + i \in 1..(Len(a) + Len(b) + 1)
        /\ Len(a) + i \in 1..(Len(a) + Len(b) + 1 + Len(c))
    BY ONLY <1>0
  <2> QED
    BY ONLY <1>1, <1>2, <1>3, <1>4, <2>1
<1>7. s[Len(a) + Len(b) + 1] = r
  <2>1. /\ Len(a) + Len(b) + 1 \in 1..(Len(a) + Len(b) + 1)
        /\ Len(a) + Len(b) + 1 \in 1..(Len(a) + Len(b) + 1 + Len(c))
    BY ONLY <1>0
  <2> QED
    BY ONLY <1>2, <1>3, <1>4, <2>1
<1>8. \A i \in 1..Len(c) : s[Len(a) + Len(b) + 1 + i] = c[i]
  <2> TAKE i \in 1..Len(c)
  <2>1. Len(a) + Len(b) + 1 + i \in 1..(Len(a) + Len(b) + 1 + Len(c))
    BY ONLY <1>0
  <2> QED
    BY ONLY <1>3, <1>4, <2>1
<1> QED
  BY ONLY <1>4, <1>5, <1>6, <1>7, <1>8

(* What is left of a sequence after some of it has been taken.             *)
LEMMA SuffixTaken ==
  ASSUME NEW S, NEW s \in Seq(S), NEW k \in 0..Len(s)
  PROVE  LET left == SubSeq(s, k + 1, Len(s))
         IN  /\ left \in Seq(S) /\ Len(left) = Len(s) - k
             /\ left # <<>> <=> k < Len(s)
             /\ left # <<>> => /\ Head(left) = s[k + 1]
                               /\ Tail(left) = SubSeq(s, k + 2, Len(s))
<1> DEFINE left == SubSeq(s, k + 1, Len(s))
<1>1. Len(s) \in Nat /\ k \in Nat /\ k <= Len(s)
  OBVIOUS
<1>2. /\ left \in Seq(S) /\ Len(left) = Len(s) - k
      /\ \A i \in 1..(Len(s) - k) : left[i] = s[k + i]
  BY <1>1, SubSeqProperties
<1> HIDE DEF left
<1>3. left # <<>> <=> k < Len(s)
  BY <1>1, <1>2, EmptySeq
<1>4. ASSUME left # <<>>
      PROVE  Head(left) = s[k + 1] /\ Tail(left) = SubSeq(s, k + 2, Len(s))
  <2>1. Head(left) = s[k + 1]
    BY <1>1, <1>2, <1>3, <1>4
  <2>2. /\ Tail(left) \in Seq(S) /\ Len(Tail(left)) = Len(s) - k - 1
        /\ \A i \in 1..(Len(s) - k - 1) : Tail(left)[i] = s[k + 1 + i]
    BY <1>1, <1>2, <1>3, <1>4
  <2>3. /\ SubSeq(s, k + 2, Len(s)) \in Seq(S)
        /\ Len(SubSeq(s, k + 2, Len(s))) = Len(s) - k - 1
        /\ \A i \in 1..(Len(s) - k - 1) : SubSeq(s, k + 2, Len(s))[i] = s[k + 1 + i]
    BY <1>1, <1>3, <1>4, SubSeqProperties
  <2> QED
    BY <2>1, <2>2, <2>3, SeqEqual
<1> QED
  BY <1>2, <1>3, <1>4 DEF left

(* The steps the expansion of one instruction may be made of.              *)
StepsOf(instr) ==
  {Push(r) : r \in Registers} \cup {Pop(r) : r \in Registers}
  \cup {Get(r, SlotOf(v)) : r \in Registers, v \in spilled}
  \cup {Poke(SlotOf(v), r) : r \in Registers, v \in spilled}
  \cup {Run(instr)}

LEMMA PlanShape ==
  ASSUME Allocated, prog \in Programs, fn = prog.input, Accepted,
         NEW p \in Mir!Places(prog.func), ~AtEnd(p),
         NEW instr, instr = InstrAt(p),
         NEW saved, saved = Saved(instr, IndexOf(p)),
         NEW reads, reads = ReloadOrder(instr),
         NEW out, out = Stores(instr),
         NEW plan, plan = Expansion(instr, IndexOf(p))
  PROVE  /\ Len(saved) \in Nat /\ Len(reads) \in Nat /\ Len(out) \in Nat
         /\ plan \in Seq(StepsOf(instr))
         /\ Len(plan) = Len(saved) + Len(reads) + 1 + Len(out) + Len(saved)
         /\ \A i \in 1..Len(saved) : plan[i] = Push(saved[i])
         /\ \A i \in 1..Len(reads) :
              plan[Len(saved) + i] = Get(fn.scratch[i], SlotOf(reads[i]))
         /\ plan[Len(saved) + Len(reads) + 1] = Run(instr)
         /\ \A i \in 1..Len(out) : plan[Len(saved) + Len(reads) + 1 + i] = out[i]
         /\ \A i \in 1..Len(saved) :
              plan[Len(saved) + Len(reads) + 1 + Len(out) + i] = Pop(saved[Len(saved) - i + 1])
<1> DEFINE S == StepsOf(instr)
           a == [i \in DOMAIN saved |-> Push(saved[i])]
           b == [i \in DOMAIN reads |-> Get(RegisterFor(instr, reads[i]), SlotOf(reads[i]))]
           e == [i \in DOMAIN saved |-> Pop(saved[i])]
           d == SX!Reverse(e)
<1>1. /\ saved \in Seq(Registers) /\ Len(saved) \in Nat
      /\ DOMAIN saved = 1..Len(saved) /\ \A i \in 1..Len(saved) : saved[i] \in Registers
  BY SavedShape
<1>2. /\ instr.args \in Seq(VRegs) /\ instr.def \subseteq VRegs /\ Bare(instr) \in fn.instrs
      /\ \A v, w \in instr.def : v = w
  BY InstrShape
<1>3. /\ reads \in Seq(spilled) /\ Len(reads) \in Nat
      /\ DOMAIN reads = 1..Len(reads) /\ \A i \in 1..Len(reads) : reads[i] \in spilled
  BY <1>2, LoadsShape
<1>4. HeldBack \subseteq Registers
  <2>1. fn.scratch \in Seq(Registers) /\ reserved \in 0..Len(fn.scratch)
    BY Settled
  <2>2. \A i \in 1..reserved : fn.scratch[i] \in Registers
    BY <2>1
  <2> QED
    BY <2>2 DEF HeldBack
<1>5. /\ \A i \in 1..Len(reads) : /\ RegisterFor(instr, reads[i]) = fn.scratch[i]
                                  /\ fn.scratch[i] \in Registers
      /\ \A v \in spilled \cap instr.def : RegisterFor(instr, v) \in Registers
  <2>1. /\ \A i \in 1..Len(reads) : /\ RegisterFor(instr, reads[i]) = fn.scratch[i]
                                    /\ fn.scratch[i] \in HeldBack
        /\ \A v \in spilled \cap instr.def : RegisterFor(instr, v) \in HeldBack
    BY <1>2, OperandRegisters
  <2> QED
    BY <1>4, <2>1
<1>6. a \in Seq(S) /\ Len(a) = Len(saved) /\ \A i \in 1..Len(saved) : a[i] = Push(saved[i])
  <2>1. a = [i \in 1..Len(saved) |-> Push(saved[i])]
    BY <1>1
  <2>2. \A i \in 1..Len(saved) : Push(saved[i]) \in S
    BY <1>1 DEF StepsOf
  <2> HIDE DEF a, S
  <2> QED
    BY <1>1, <2>1, <2>2
<1>7. /\ b \in Seq(S) /\ Len(b) = Len(reads)
      /\ \A i \in 1..Len(reads) : b[i] = Get(fn.scratch[i], SlotOf(reads[i]))
  <2>1. b = [i \in 1..Len(reads) |-> Get(fn.scratch[i], SlotOf(reads[i]))]
    BY <1>3, <1>5
  <2>2. \A i \in 1..Len(reads) : Get(fn.scratch[i], SlotOf(reads[i])) \in S
    BY <1>3, <1>5 DEF StepsOf
  <2> HIDE DEF b, S
  <2> QED
    BY <1>3, <2>1, <2>2
<1>8. out \in Seq(S) /\ Len(out) \in Nat
  <2>1. VRegs \subseteq Nat /\ spilled \subseteq VRegs
    BY Settled
  <2>2. CASE instr.def \cap spilled = {}
    <3>1. out = <<>>
      BY <1>2, <2>1, <2>2, StoresShape
    <3> HIDE DEF S
    <3> QED
      BY <3>1
  <2>3. ASSUME NEW v \in instr.def \cap spilled
        PROVE  out \in Seq(S) /\ Len(out) \in Nat
    <3>1. out = <<Poke(SlotOf(v), RegisterFor(instr, v))>>
      BY <1>2, <2>1, <2>3, StoresShape
    <3>2. Poke(SlotOf(v), RegisterFor(instr, v)) \in S
      BY <1>5 DEF StepsOf
    <3> HIDE DEF S
    <3> QED
      BY <3>1, <3>2
  <2> QED
    BY <2>2, <2>3
<1>9. /\ d \in Seq(S) /\ Len(d) = Len(saved)
      /\ \A i \in 1..Len(saved) : d[i] = Pop(saved[Len(saved) - i + 1])
  <2>1. e \in Seq(S) /\ Len(e) = Len(saved) /\ \A i \in 1..Len(saved) : e[i] = Pop(saved[i])
    <3>1. e = [i \in 1..Len(saved) |-> Pop(saved[i])]
      BY <1>1
    <3>2. \A i \in 1..Len(saved) : Pop(saved[i]) \in S
      BY <1>1 DEF StepsOf
    <3> HIDE DEF e, S
    <3> QED
      BY <1>1, <3>1, <3>2
  <2> HIDE DEF e, S
  <2>2. d = [i \in 1..Len(saved) |-> e[Len(saved) - i + 1]]
    BY <2>1 DEF SX!Reverse
  <2>3. \A i \in 1..Len(saved) : Len(saved) - i + 1 \in 1..Len(saved)
    BY <1>1
  <2>4. \A i \in 1..Len(saved) : e[Len(saved) - i + 1] \in S
    BY <1>1, <2>1, <2>3
  <2> HIDE DEF d
  <2> QED
    BY <1>1, <2>1, <2>2, <2>3, <2>4
<1>10. Run(instr) \in S
  BY DEF StepsOf
<1>11. plan = a \o b \o <<Run(instr)>> \o out \o d
  BY DEF Expansion
<1> HIDE DEF a, b, d, S
<1>12. /\ plan \in Seq(S)
       /\ Len(plan) = Len(a) + Len(b) + 1 + Len(out) + Len(d)
       /\ \A i \in 1..Len(a) : plan[i] = a[i]
       /\ \A i \in 1..Len(b) : plan[Len(a) + i] = b[i]
       /\ plan[Len(a) + Len(b) + 1] = Run(instr)
       /\ \A i \in 1..Len(out) : plan[Len(a) + Len(b) + 1 + i] = out[i]
       /\ \A i \in 1..Len(d) : plan[Len(a) + Len(b) + 1 + Len(out) + i] = d[i]
  <2>1. a \in Seq(S) /\ b \in Seq(S) /\ out \in Seq(S) /\ d \in Seq(S)
    BY ONLY <1>6, <1>7, <1>8, <1>9
  <2> QED
    BY ONLY <2>1, <1>10, <1>11, PartsOf, SMTT(20)
<1>13. plan \in Seq(StepsOf(instr))
  BY <1>12 DEF S
<1>14. /\ Len(a) = Len(saved) /\ Len(b) = Len(reads) /\ Len(d) = Len(saved)
       /\ Len(plan) = Len(saved) + Len(reads) + 1 + Len(out) + Len(saved)
  BY ONLY <1>6, <1>7, <1>9, <1>12
<1>15. \A i \in 1..Len(saved) : plan[i] = Push(saved[i])
  BY ONLY <1>6, <1>12, <1>14
<1>16. \A i \in 1..Len(reads) : plan[Len(saved) + i] = Get(fn.scratch[i], SlotOf(reads[i]))
  BY ONLY <1>7, <1>12, <1>14
<1>17. plan[Len(saved) + Len(reads) + 1] = Run(instr)
  BY ONLY <1>12, <1>14
<1>18. \A i \in 1..Len(out) : plan[Len(saved) + Len(reads) + 1 + i] = out[i]
  BY ONLY <1>12, <1>14
<1>19. \A i \in 1..Len(saved) :
         plan[Len(saved) + Len(reads) + 1 + Len(out) + i] = Pop(saved[Len(saved) - i + 1])
  BY ONLY <1>9, <1>12, <1>14
<1> QED
  BY ONLY <1>1, <1>3, <1>8, <1>13, <1>14, <1>15, <1>16, <1>17, <1>18, <1>19

-----------------------------------------------------------------------------
(* Memory: the spill slots, what other functions own, and the frames.      *)

LEMMA PlacesFinite ==
  ASSUME prog \in Programs
  PROVE  IsFiniteSet(Mir!Places(prog.func))
<1> DEFINE code1 == prog.func.code
           In(b) == {<<b, k>> : k \in 1..(Len(code1[b]) + 1)}
           f == [b \in 1..Len(code1) |-> In(b)]
<1>1. /\ Len(code1) \in Nat /\ \A b \in 1..Len(code1) : Len(code1[b]) \in Nat
      /\ Mir!Blocks(prog.func) = 1..Len(code1)
  BY FunctionShape
<1>2. ASSUME NEW b \in 1..Len(code1)
      PROVE  IsFiniteSet(In(b))
  <2> DEFINE n == Len(code1[b]) + 1
             g == [k \in 1..n |-> <<b, k>>]
  <2>1. IsFiniteSet(1..n)
    <3>1. n \in Nat
      BY <1>1
    <3> HIDE DEF n
    <3> QED
      BY <3>1, FS_Interval
  <2>2. DOMAIN g = 1..n
    OBVIOUS
  <2>3. {g[k] : k \in 1..n} = In(b)
    OBVIOUS
  <2> HIDE DEF g, In
  <2>4. IsFiniteSet({g[k] : k \in 1..n})
    BY ONLY <2>1, <2>2, ImageFinite
  <2> QED
    BY <2>3, <2>4
<1>3. IsFiniteSet({f[b] : b \in 1..Len(code1)})
  <2>1. IsFiniteSet(1..Len(code1))
    BY <1>1, FS_Interval
  <2>2. DOMAIN f = 1..Len(code1)
    OBVIOUS
  <2> HIDE DEF f
  <2> QED
    BY ONLY <2>1, <2>2, ImageFinite
<1>4. \A T \in {f[b] : b \in 1..Len(code1)} : IsFiniteSet(T)
  BY <1>2
<1>5. IsFiniteSet(UNION {f[b] : b \in 1..Len(code1)})
  <2> HIDE DEF f
  <2> QED
    BY ONLY <1>3, <1>4, FS_UNION
<1>6. Mir!Places(prog.func) = UNION {f[b] : b \in 1..Len(code1)}
  BY <1>1 DEF Mir!Places
<1> QED
  BY <1>5, <1>6

LEMMA Layout ==
  ASSUME Allocated, prog \in Programs, fn = prog.input, Accepted
  PROVE  /\ SlotCount \in Nat /\ FrameBase \in Nat /\ FrameBase <= NumMemorySlots
         /\ fn.base \in Nat /\ fn.base + SlotCount <= FrameBase
         /\ \A v \in spilled : /\ SlotOf(v) \in Cells
                               /\ fn.base <= SlotOf(v)
                               /\ SlotOf(v) < fn.base + SlotCount
         /\ \A p \in Mir!Places(prog.func) :
              ~AtEnd(p) => FrameBase + Len(Saved(InstrAt(p), IndexOf(p))) <= NumMemorySlots
<1>1. /\ \A v \in spilled : slots[v] \in Nat
      /\ IsFiniteSet(spilled) /\ fn.base \in Nat /\ prog.above \in Nat /\ FrameFits
      /\ NumMemorySlots \in Nat
  BY Settled, FS_Subset, ConstantsAssumption
<1>2. SlotCount \in Nat /\ \A v \in spilled : slots[v] + 1 <= SlotCount
  <2> DEFINE f == [v \in spilled |-> slots[v] + 1]
             S == {f[v] : v \in spilled} \cup {0}
  <2>1. IsFiniteSet({f[v] : v \in spilled})
    <3>1. DOMAIN f = spilled
      OBVIOUS
    <3> HIDE DEF f
    <3> QED
      BY ONLY <1>1, <3>1, ImageFinite
  <2>2. IsFiniteSet(S)
    <3> HIDE DEF f
    <3> QED
      BY <2>1, FS_AddElement
  <2>3. S \in SUBSET Nat /\ S # {}
    BY <1>1
  <2>4. SlotCount = Max(S)
    <3>1. {f[v] : v \in spilled} = {slots[v] + 1 : v \in spilled}
      OBVIOUS
    <3> QED
      BY <3>1 DEF SlotCount
  <2>5. \A v \in spilled : slots[v] + 1 \in S
    OBVIOUS
  <2> HIDE DEF S
  <2> QED
    BY <2>2, <2>3, <2>4, <2>5, Greatest
<1>3. /\ DeepestFrame \in Nat
      /\ \A p \in Mir!Places(prog.func) :
           ~AtEnd(p) => Len(Saved(InstrAt(p), IndexOf(p))) <= DeepestFrame
  <2> DEFINE places == {q \in Mir!Places(prog.func) : ~AtEnd(q)}
             f == [p \in places |-> Len(Saved(InstrAt(p), IndexOf(p)))]
             S == {f[p] : p \in places} \cup {0}
  <2>1. IsFiniteSet(places)
    <3>1. IsFiniteSet(Mir!Places(prog.func)) /\ places \in SUBSET Mir!Places(prog.func)
      BY PlacesFinite
    <3> HIDE DEF places
    <3> QED
      BY <3>1, FS_Subset
  <2>2. IsFiniteSet({f[p] : p \in places})
    <3> HIDE DEF places
    <3>1. DOMAIN f = places
      OBVIOUS
    <3> HIDE DEF f
    <3> QED
      BY ONLY <2>1, <3>1, ImageFinite
  <2>3. IsFiniteSet(S)
    <3> HIDE DEF f, places
    <3> QED
      BY <2>2, FS_AddElement
  <2>4. \A p \in places : f[p] \in Nat
    <3>1. \A s \in Seq(Registers) : Len(s) \in Nat
      OBVIOUS
    <3>2. \A p \in places : Saved(InstrAt(p), IndexOf(p)) \in Seq(Registers)
      BY SavedShape
    <3> HIDE DEF places
    <3> QED
      BY <3>1, <3>2
  <2>5. S \in SUBSET Nat /\ S # {}
    <3> HIDE DEF f, places
    <3> QED
      BY <2>4
  <2>6. DeepestFrame = Max(S)
    <3>1. {f[p] : p \in places} = {Len(Saved(InstrAt(p), IndexOf(p))) : p \in places}
      OBVIOUS
    <3> QED
      BY <3>1 DEF DeepestFrame
  <2>7. \A p \in places : f[p] \in S
    OBVIOUS
  <2>8. Max(S) \in Nat /\ \A p \in places : f[p] <= Max(S)
    <3> HIDE DEF S, f, places
    <3> QED
      BY <2>3, <2>5, <2>7, Greatest
  <2> QED
    BY <2>6, <2>8
<1>4. FrameBase \in Nat /\ FrameBase + DeepestFrame <= NumMemorySlots
      /\ fn.base + SlotCount <= FrameBase
  BY <1>1, <1>2 DEF FrameFits, FrameBase
<1>5. \A v \in spilled : /\ SlotOf(v) \in Cells
                         /\ fn.base <= SlotOf(v)
                         /\ SlotOf(v) < fn.base + SlotCount
  BY <1>1, <1>2, <1>3, <1>4 DEF SlotOf, Cells
<1>6. ASSUME NEW p \in Mir!Places(prog.func), ~AtEnd(p)
      PROVE  FrameBase + Len(Saved(InstrAt(p), IndexOf(p))) <= NumMemorySlots
  <2>1. Saved(InstrAt(p), IndexOf(p)) \in Seq(Registers)
    BY SavedShape
  <2>2. Len(Saved(InstrAt(p), IndexOf(p))) \in Nat
    BY <2>1
  <2> QED
    BY <1>1, <1>3, <1>4, <1>6, <2>2
<1> QED
  BY <1>1, <1>2, <1>3, <1>4, <1>5, <1>6

-----------------------------------------------------------------------------
(* Running the code changes neither the function nor its allocation.       *)

LEMMA RewritingKept ==
  ASSUME vars' = vars, prog' = prog
  PROVE  /\ \A v : SlotOf(v)' = SlotOf(v) /\ Wanted(v)' = Wanted(v)
         /\ \A i, v : RegisterFor(i, v)' = RegisterFor(i, v)
         /\ \A i : ReloadOrder(i)' = ReloadOrder(i) /\ Stores(i)' = Stores(i)
         /\ \A i, x : Saved(i, x)' = Saved(i, x) /\ Expansion(i, x)' = Expansion(i, x)
         /\ \A p : /\ InstrAt(p)' = InstrAt(p) /\ IndexOf(p)' = IndexOf(p)
                   /\ AtEnd(p)' <=> AtEnd(p)
         /\ SlotCount' = SlotCount /\ FrameBase' = FrameBase
         /\ Accepted' <=> Accepted
<1>1. /\ fn' = fn /\ phase' = phase /\ assigned' = assigned /\ spilled' = spilled
      /\ slots' = slots /\ reserved' = reserved
  BY DEF vars
<1>2. \A v : SlotOf(v)' = SlotOf(v) /\ Wanted(v)' = Wanted(v)
  BY <1>1 DEF SlotOf, Wanted
<1>3. \A i : ReloadOrder(i)' = ReloadOrder(i)
  <2>1. \A i : FirstMentions(i)' = FirstMentions(i)
    BY <1>1 DEF FirstMentions
  <2> QED
    BY <2>1 DEF ReloadOrder
<1>4. \A i, v : RegisterFor(i, v)' = RegisterFor(i, v)
  <2> SUFFICES ASSUME NEW i, NEW v PROVE RegisterFor(i, v)' = RegisterFor(i, v)
    OBVIOUS
  <2> DEFINE Lent(mem, regOf, scratch, reads) ==
               IF v \notin mem THEN regOf[v]
               ELSE IF SX!Contains(reads, v)
                    THEN scratch[CHOOSE k \in DOMAIN reads : reads[k] = v]
                    ELSE scratch[1]
  <2>1. /\ RegisterFor(i, v) = Lent(spilled, assigned, fn.scratch, ReloadOrder(i))
        /\ RegisterFor(i, v)' = Lent(spilled', assigned', fn'.scratch, ReloadOrder(i)')
    BY DEF RegisterFor
  <2> HIDE DEF Lent
  <2> QED
    BY <1>1, <1>3, <2>1
<1>5. \A i : Stores(i)' = Stores(i)
  <2> SUFFICES ASSUME NEW i PROVE Stores(i)' = Stores(i)
    OBVIOUS
  <2>1. \A v : Poke(SlotOf(v), RegisterFor(i, v))' = Poke(SlotOf(v), RegisterFor(i, v))
    BY <1>2, <1>4 DEF Poke
  <2>2. InOrder(i.def \cap spilled)' = InOrder(i.def \cap spilled)
    BY <1>1
  <2> QED
    BY <2>1, <2>2 DEF Stores
<1>6. \A i, x : Saved(i, x)' = Saved(i, x)
  <2> SUFFICES ASSUME NEW i, NEW x PROVE Saved(i, x)' = Saved(i, x)
    OBVIOUS
  <2>1. Present' = Present
    BY <1>1 DEF Present
  <2> QED
    BY <1>1, <2>1 DEF Saved
<1>7. \A i, x : Expansion(i, x)' = Expansion(i, x)
  <2> SUFFICES ASSUME NEW i, NEW x PROVE Expansion(i, x)' = Expansion(i, x)
    OBVIOUS
  <2> QED
    BY <1>2, <1>3, <1>4, <1>5, <1>6 DEF Expansion, Get, Push, Pop, Run
<1>8. \A p : /\ InstrAt(p)' = InstrAt(p) /\ IndexOf(p)' = IndexOf(p)
             /\ AtEnd(p)' <=> AtEnd(p)
  BY DEF InstrAt, IndexOf, AtEnd
<1>9. SlotCount' = SlotCount
  BY <1>1 DEF SlotCount
<1>10. FrameBase' = FrameBase
  BY <1>1, <1>9 DEF FrameBase
<1>11. DeepestFrame' = DeepestFrame
  BY <1>6, <1>8 DEF DeepestFrame
<1>12. Accepted' <=> Accepted
  BY <1>1, <1>10, <1>11 DEF Accepted, SpillAllowed, FrameFits
<1> QED
  BY <1>2, <1>3, <1>4, <1>5, <1>6, <1>7, <1>8, <1>9, <1>10, <1>12

LEMMA PlanKept ==
  ASSUME vars' = vars, prog' = prog, pc' = pc
  PROVE  /\ Here' = Here /\ Current' = Current /\ Plan' = Plan
         /\ Kept' = Kept /\ Loads' = Loads /\ Sent' = Sent /\ Before' = Before
<1>1. Here' = Here
  BY DEF Here
<1>2. Current' = Current
  BY <1>1, RewritingKept DEF Current
<1>3. IndexOf(Here)' = IndexOf(Here)
  BY <1>1, RewritingKept
<1>4. Plan' = Plan /\ Kept' = Kept /\ Loads' = Loads /\ Sent' = Sent
  BY <1>2, <1>3, RewritingKept DEF Plan, Kept, Loads, Sent
<1> QED
  BY <1>1, <1>2, <1>4 DEF Before

-----------------------------------------------------------------------------
(* Where an execution stands inside an expansion.                          *)

LEMMA HereShape ==
  ASSUME CodeTypes, pc[2] > 1
  PROVE  Here \in Mir!Places(prog.func) /\ ~AtEnd(Here) /\ pc = Next1(Here)
<1>0. prog \in Programs
  BY DEF CodeTypes
<1>1. PICK b \in 1..Len(prog.func.code) :
        \E i \in 1..(Len(prog.func.code[b]) + 1) : pc = <<b, i>>
  BY <1>0, PlaceShape DEF CodeTypes
<1>2. PICK k \in 1..(Len(prog.func.code[b]) + 1) : pc = <<b, k>>
  BY <1>1
<1>3. Len(prog.func.code[b]) \in Nat
  BY <1>0, FunctionShape
<1>4. k \in 2..(Len(prog.func.code[b]) + 1)
  BY <1>2, <1>3
<1>5. Here = <<b, k - 1>> /\ k - 1 \in 1..Len(prog.func.code[b])
  BY <1>2, <1>3, <1>4 DEF Here
<1>6. Here \in Mir!Places(prog.func)
  BY <1>0, <1>3, <1>5, PlaceShape
<1>7. ~AtEnd(Here)
  BY <1>3, <1>5 DEF AtEnd
<1>8. pc = Next1(Here)
  BY <1>2, <1>4, <1>5 DEF Next1
<1> QED
  BY <1>6, <1>7, <1>8

(* The lengths of the parts, and the step to be taken next.                *)
LEMMA MidwayShape ==
  ASSUME Allocated, CodeInv, stage = "run", todo # <<>>
  PROVE  /\ prog \in Programs /\ fn = prog.input /\ Accepted
         /\ Here \in Mir!Places(prog.func) /\ ~AtEnd(Here) /\ pc = Next1(Here)
         /\ Len(Kept) \in Nat /\ Len(Loads) \in Nat /\ Len(Sent) \in Nat
         /\ Plan \in Seq(StepsOf(Current))
         /\ Len(Plan) = Len(Kept) + Len(Loads) + 1 + Len(Sent) + Len(Kept)
         /\ Done \in Nat /\ Done < Len(Plan)
         /\ Head(todo) = Plan[Done + 1]
         /\ Tail(todo) = SubSeq(Plan, Done + 2, Len(Plan))
         /\ Len(Tail(todo)) = Len(Plan) - (Done + 1)
         /\ Midway
<1>1. /\ prog \in Programs /\ fn = prog.input /\ Accepted /\ Midway /\ CodeTypes
  BY DEF CodeInv, CodeTypes, Admitted
<1>2. Here \in Mir!Places(prog.func) /\ ~AtEnd(Here) /\ pc = Next1(Here)
  BY <1>1, HereShape DEF Midway
<1>3. /\ Len(Kept) \in Nat /\ Len(Loads) \in Nat /\ Len(Sent) \in Nat
      /\ Plan \in Seq(StepsOf(Current))
      /\ Len(Plan) = Len(Kept) + Len(Loads) + 1 + Len(Sent) + Len(Kept)
  BY <1>1, <1>2, PlanShape DEF Current, Kept, Loads, Sent, Plan
<1>4. Done \in 0..Len(Plan) /\ todo = SubSeq(Plan, Done + 1, Len(Plan))
  BY <1>1 DEF Midway
<1> HIDE DEF Done
<1>5. /\ Done < Len(Plan)
      /\ Head(todo) = Plan[Done + 1]
      /\ Tail(todo) = SubSeq(Plan, Done + 2, Len(Plan))
  BY ONLY <1>3, <1>4, SuffixTaken, todo # <<>>
<1>6. Len(Tail(todo)) = Len(Plan) - (Done + 1)
  <2>1. Done + 1 \in 0..Len(Plan) /\ (Done + 1) + 1 = Done + 2
    BY <1>3, <1>4, <1>5
  <2> QED
    BY <1>3, <1>5, <2>1, SuffixTaken
<1> QED
  BY <1>1, <1>2, <1>3, <1>4, <1>5, <1>6

(* Which step that is.                                                     *)
LEMMA HeadCases ==
  ASSUME Allocated, CodeInv, stage = "run", todo # <<>>
  PROVE  \/ /\ Done < Len(Kept)
            /\ Head(todo) = Push(Kept[Done + 1])
         \/ /\ Len(Kept) <= Done /\ Done < Before
            /\ Head(todo) = Get(fn.scratch[Done - Len(Kept) + 1],
                                SlotOf(Loads[Done - Len(Kept) + 1]))
         \/ /\ Done = Before
            /\ Head(todo) = Run(Current)
         \/ /\ Before + 1 <= Done /\ Done < Before + 1 + Len(Sent)
            /\ Head(todo) = Sent[Done - Before]
         \/ /\ Before + 1 + Len(Sent) <= Done
            /\ Head(todo) = Pop(Kept[Len(Plan) - Done])
<1>1. /\ Len(Kept) \in Nat /\ Len(Loads) \in Nat /\ Len(Sent) \in Nat
      /\ Len(Plan) = Len(Kept) + Len(Loads) + 1 + Len(Sent) + Len(Kept)
      /\ Done \in Nat /\ Done < Len(Plan)
      /\ Head(todo) = Plan[Done + 1]
      /\ Before = Len(Kept) + Len(Loads)
  BY MidwayShape DEF Before
<1>2. /\ prog \in Programs /\ fn = prog.input /\ Accepted
      /\ Here \in Mir!Places(prog.func) /\ ~AtEnd(Here)
  BY MidwayShape
<1>3. /\ \A i \in 1..Len(Kept) : Plan[i] = Push(Kept[i])
      /\ \A i \in 1..Len(Loads) : Plan[Len(Kept) + i] = Get(fn.scratch[i], SlotOf(Loads[i]))
      /\ Plan[Len(Kept) + Len(Loads) + 1] = Run(Current)
      /\ \A i \in 1..Len(Sent) : Plan[Len(Kept) + Len(Loads) + 1 + i] = Sent[i]
      /\ \A i \in 1..Len(Kept) :
           Plan[Len(Kept) + Len(Loads) + 1 + Len(Sent) + i] = Pop(Kept[Len(Kept) - i + 1])
  BY <1>2, PlanShape DEF Current, Kept, Loads, Sent, Plan
<1> HIDE DEF Done, Before, Kept, Loads, Sent, Plan, Current
<1>4. CASE Done < Len(Kept)
  <2>1. Done + 1 \in 1..Len(Kept)
    BY <1>1, <1>4
  <2> QED
    BY <1>1, <1>3, <1>4, <2>1
<1>5. CASE Len(Kept) <= Done /\ Done < Before
  <2>1. /\ Done - Len(Kept) + 1 \in 1..Len(Loads)
        /\ Len(Kept) + (Done - Len(Kept) + 1) = Done + 1
    BY <1>1, <1>5
  <2> QED
    BY <1>1, <1>3, <1>5, <2>1
<1>6. CASE Done = Before
  BY <1>1, <1>3, <1>6
<1>7. CASE Before + 1 <= Done /\ Done < Before + 1 + Len(Sent)
  <2>1. /\ Done - Before \in 1..Len(Sent)
        /\ Len(Kept) + Len(Loads) + 1 + (Done - Before) = Done + 1
    BY <1>1, <1>7
  <2> QED
    BY <1>1, <1>3, <1>7, <2>1
<1>8. CASE Before + 1 + Len(Sent) <= Done
  <2> DEFINE i == Done - Before - Len(Sent)
  <2>1. /\ i \in 1..Len(Kept)
        /\ Len(Kept) + Len(Loads) + 1 + Len(Sent) + i = Done + 1
        /\ Len(Kept) - i + 1 = Len(Plan) - Done
    BY <1>1, <1>8
  <2>2. Plan[Done + 1] = Pop(Kept[Len(Kept) - i + 1])
    BY <1>3, <2>1
  <2> QED
    BY <1>1, <1>8, <2>1, <2>2
<1>9. \/ Done < Len(Kept)
      \/ Len(Kept) <= Done /\ Done < Before
      \/ Done = Before
      \/ Before + 1 <= Done /\ Done < Before + 1 + Len(Sent)
      \/ Before + 1 + Len(Sent) <= Done
  BY <1>1
<1> QED
  BY <1>4, <1>5, <1>6, <1>7, <1>8, <1>9

(* A step of an expansion keeps the invariant when it keeps what Midway    *)
(* says: at the end of the expansion every wanted value is at home.        *)
LEMMA StepTaken ==
  ASSUME Allocated, CodeInv, stage = "run", todo # <<>>,
         vars' = vars, prog' = prog, pc' = pc, stage' = stage, todo' = Tail(todo),
         regs' \in [Registers -> SUBSET (VRegs \cup {Foreign})],
         memory' \in [Cells -> SUBSET (VRegs \cup {Foreign})],
         sp' \in Nat, defined' \subseteq VRegs,
         sp' = FrameBase' + Depth', FrameHolds', ReadyToRun', OnTheWayHome', ForeignKept'
  PROVE  CodeInv'
<1>1. /\ Here' = Here /\ Plan' = Plan /\ Kept' = Kept /\ Before' = Before /\ Sent' = Sent
      /\ Current' = Current
  BY PlanKept
<1>2. /\ Len(Kept) \in Nat /\ Len(Loads) \in Nat /\ Len(Sent) \in Nat
      /\ Len(Plan) = Len(Kept) + Len(Loads) + 1 + Len(Sent) + Len(Kept)
      /\ Done \in Nat /\ Done < Len(Plan)
      /\ Tail(todo) = SubSeq(Plan, Done + 2, Len(Plan))
      /\ Len(Tail(todo)) = Len(Plan) - (Done + 1)
      /\ prog \in Programs /\ fn = prog.input /\ pc[2] > 1
      /\ Plan \in Seq(StepsOf(Current))
      /\ Here \in Mir!Places(prog.func) /\ ~AtEnd(Here)
      /\ Accepted
  BY MidwayShape DEF Midway
<1>3. Done' = Done + 1
  BY <1>1, <1>2 DEF Done
<1>4. CodeTypes'
  <2>1. fn' = fn
    BY DEF vars
  <2>2. Mir!Places(prog.func)' = Mir!Places(prog.func)
    OBVIOUS
  <2> QED
    BY <2>1, <2>2 DEF CodeInv, CodeTypes
<1>5. Accepted'
  BY <1>2, RewritingKept
<1>6. Midway'
  <2>1. Done' \in 0..Len(Plan') /\ todo' = SubSeq(Plan', Done' + 1, Len(Plan'))
    BY <1>1, <1>2, <1>3
  <2> QED
    BY <1>2, <2>1 DEF Midway
<1>7. ASSUME todo' = <<>>
      PROVE  sp' = FrameBase' /\ HomeAt(pc)'
  <2>1. Done' = Len(Plan)
    <3>1. Len(Tail(todo)) = 0
      BY <1>7, EmptySeq
    <3>2. Len(Plan) \in Nat
      BY <1>2
    <3> QED
      BY ONLY <1>2, <1>3, <3>1, <3>2
  <2>2. Depth' = 0 /\ Done' > Before' /\ (Done' = Before' + 1 => Len(Sent) = 0)
    <3>1. Depth' = IF Done' <= Len(Kept) THEN Done'
                   ELSE IF Done' <= Before + 1 + Len(Sent) THEN Len(Kept)
                   ELSE Len(Plan) - Done'
      BY <1>1 DEF Depth
    <3>2. Before = Len(Kept) + Len(Loads)
      BY DEF Before
    <3> QED
      BY <1>1, <1>2, <2>1, <3>1, <3>2
  <2>3. \A v \in spilled \cap Current.def : Len(Sent) # 0
    <3> TAKE v \in spilled \cap Current.def
    <3>1. Sent = <<Poke(SlotOf(v), RegisterFor(Current, v))>>
      <4>1. Current.def \subseteq VRegs /\ \A w, u \in Current.def : w = u
        BY <1>2, InstrShape DEF Current
      <4>2. VRegs \subseteq Nat
        BY ConstantsAssumption
      <4> QED
        BY <4>1, <4>2, StoresShape DEF Sent
    <3> QED
      BY <3>1
  <2>4. spilled' = spilled
    BY DEF vars
  <2>5. \A v \in defined' : pc' \in Wanted(v)' => v \in Home(v)'
    <3> SUFFICES ASSUME NEW v \in defined', pc' \in Wanted(v)'
                 PROVE  v \in Home(v)'
      OBVIOUS
    <3>1. \/ v \in Home(v)'
          \/ v \in spilled' \cap Current'.def /\ Done' = Before' + 1
          \/ \E i \in 1..Depth' : Kept'[i] = assigned'[v]
      BY <2>2 DEF OnTheWayHome
    <3>2. 1..Depth' = {}
      BY <2>2
    <3> QED
      BY <1>1, <2>2, <2>3, <2>4, <3>1, <3>2
  <2>6. sp' = FrameBase'
    <3>1. FrameBase \in Nat
      BY <1>2, Layout
    <3>2. FrameBase' = FrameBase
      BY RewritingKept
    <3> QED
      BY <2>2, <3>1, <3>2
  <2> QED
    BY <2>5, <2>6 DEF HomeAt
<1> QED
  BY <1>4, <1>5, <1>6, <1>7 DEF CodeInv, Untouched, Admitted, AtRest

(* The head of what is left, by the step it asks for.                      *)
LEMMA HeadByStep ==
  ASSUME Allocated, CodeInv, stage = "run", todo # <<>>
  PROVE  /\ Head(todo).op = "push" =>
              Done < Len(Kept) /\ Head(todo).reg = Kept[Done + 1]
         /\ Head(todo).op = "get" =>
              /\ Len(Kept) <= Done /\ Done < Before
              /\ Head(todo).reg = fn.scratch[Done - Len(Kept) + 1]
              /\ Head(todo).cell = SlotOf(Loads[Done - Len(Kept) + 1])
         /\ Head(todo).op = "run" => Done = Before /\ Head(todo).instr = Current
         /\ Head(todo).op = "poke" =>
              /\ Done = Before + 1 /\ Len(Sent) = 1
              /\ \E v \in Current.def \cap spilled :
                   /\ Head(todo).cell = SlotOf(v)
                   /\ Head(todo).reg = RegisterFor(Current, v)
         /\ Head(todo).op = "pop" =>
              /\ Before + 1 + Len(Sent) <= Done
              /\ Head(todo).reg = Kept[Len(Plan) - Done]
<1>1. /\ Len(Kept) \in Nat /\ Len(Loads) \in Nat /\ Len(Sent) \in Nat
      /\ Done \in Nat /\ Before = Len(Kept) + Len(Loads)
      /\ prog \in Programs /\ fn = prog.input
      /\ Here \in Mir!Places(prog.func) /\ ~AtEnd(Here)
  BY MidwayShape DEF Before
<1>2. /\ Current.def \subseteq VRegs /\ \A v, w \in Current.def : v = w
      /\ VRegs \subseteq Nat
  BY <1>1, InstrShape, ConstantsAssumption DEF Current
<1>3. CASE Before + 1 <= Done /\ Done < Before + 1 + Len(Sent)
           /\ Head(todo) = Sent[Done - Before]
  <2>1. Current.def \cap spilled # {}
    <3>1. Current.def \cap spilled = {} => Len(Sent) = 0
      BY <1>2, StoresShape DEF Sent
    <3> QED
      BY <1>1, <1>3, <3>1
  <2>2. PICK v \in Current.def \cap spilled : TRUE
    BY <2>1
  <2>3. Sent = <<Poke(SlotOf(v), RegisterFor(Current, v))>>
    BY <1>2, <2>2, StoresShape DEF Sent
  <2>4. Len(Sent) = 1 /\ Sent[1] = Poke(SlotOf(v), RegisterFor(Current, v))
    BY <2>3
  <2>5. Done = Before + 1 /\ Done - Before = 1
    BY <1>1, <1>3, <2>4
  <2>6. Head(todo) = Poke(SlotOf(v), RegisterFor(Current, v))
    BY <1>3, <2>4, <2>5
  <2> QED
    BY <2>2, <2>4, <2>5, <2>6 DEF Poke
<1>4. CASE Done < Len(Kept) /\ Head(todo) = Push(Kept[Done + 1])
  BY <1>4 DEF Push
<1>5. CASE /\ Len(Kept) <= Done /\ Done < Before
           /\ Head(todo) = Get(fn.scratch[Done - Len(Kept) + 1],
                               SlotOf(Loads[Done - Len(Kept) + 1]))
  BY <1>5 DEF Get
<1>6. CASE Done = Before /\ Head(todo) = Run(Current)
  BY <1>6 DEF Run
<1>7. CASE Before + 1 + Len(Sent) <= Done /\ Head(todo) = Pop(Kept[Len(Plan) - Done])
  BY <1>7 DEF Pop
<1> QED
  BY <1>3, <1>4, <1>5, <1>6, <1>7, HeadCases

(* What every step of an expansion has in common.                          *)
LEMMA Moved ==
  ASSUME Allocated, CodeInv, NEW op, Doing(op)
  PROVE  /\ stage = "run" /\ todo # <<>> /\ Head(todo).op = op
         /\ vars' = vars /\ prog' = prog /\ pc' = pc /\ stage' = stage
         /\ todo' = Tail(todo)
         /\ fn' = fn /\ spilled' = spilled /\ assigned' = assigned
         /\ Done' = Done + 1 /\ Before' = Before /\ Here' = Here
         /\ Kept' = Kept /\ Loads' = Loads /\ Sent' = Sent /\ Current' = Current
         /\ FrameBase' = FrameBase /\ SlotCount' = SlotCount
         /\ \A v : SlotOf(v)' = SlotOf(v) /\ Wanted(v)' = Wanted(v)
                   /\ RegisterFor(Current, v)' = RegisterFor(Current, v)
         /\ Depth' = IF Done + 1 <= Len(Kept) THEN Done + 1
                     ELSE IF Done + 1 <= Before + 1 + Len(Sent) THEN Len(Kept)
                     ELSE Len(Plan) - (Done + 1)
<1>1. /\ stage = "run" /\ todo # <<>> /\ Head(todo).op = op
      /\ vars' = vars /\ prog' = prog /\ pc' = pc /\ stage' = stage
      /\ todo' = Tail(todo)
  BY DEF Doing, vars
<1>2. fn' = fn /\ spilled' = spilled /\ assigned' = assigned
  BY <1>1 DEF vars
<1>3. /\ Before' = Before /\ Here' = Here /\ Plan' = Plan
      /\ Kept' = Kept /\ Loads' = Loads /\ Sent' = Sent /\ Current' = Current
  BY <1>1, PlanKept
<1>4. Done' = Done + 1
  <2>1. Len(Plan) \in Nat /\ Done \in Nat /\ Len(Tail(todo)) = Len(Plan) - (Done + 1)
    BY <1>1, MidwayShape
  <2>2. Done' = Len(Plan) - Len(Tail(todo))
    BY <1>1, <1>3 DEF Done
  <2>3. \A n, d \in Nat : n - (n - (d + 1)) = d + 1
    OBVIOUS
  <2> HIDE DEF Done
  <2>4. Len(Plan) - Len(Tail(todo)) = Done + 1
    BY ONLY <2>1, <2>3
  <2> QED
    BY ONLY <2>2, <2>4
<1>5. /\ FrameBase' = FrameBase /\ SlotCount' = SlotCount
      /\ \A v : SlotOf(v)' = SlotOf(v) /\ Wanted(v)' = Wanted(v)
                /\ RegisterFor(Current, v)' = RegisterFor(Current, v)
  BY <1>1, <1>3, RewritingKept
<1>6. Depth' = IF Done + 1 <= Len(Kept) THEN Done + 1
               ELSE IF Done + 1 <= Before + 1 + Len(Sent) THEN Len(Kept)
               ELSE Len(Plan) - (Done + 1)
  BY <1>3, <1>4 DEF Depth
<1> QED
  BY <1>1, <1>2, <1>3, <1>4, <1>5, <1>6

(* What the allocation promises the instruction being expanded: its        *)
(* results and the values wanted after it are apart, and out of the way of *)
(* the scratch registers and the frame.                                    *)
LEMMA Surroundings ==
  ASSUME Allocated, CodeInv, stage = "run", todo # <<>>
  PROVE  /\ Current.def \subseteq VRegs /\ Mir!Reads(Current) \subseteq VRegs
         /\ \A v, w \in Current.def : v = w
         /\ Current.call \in BOOLEAN /\ (Current.call => Current.def = {})
         /\ ~Current.call => Len(Kept) = 0
         /\ Current.def \cap spilled = {} => Len(Sent) = 0
         /\ \A v \in VRegs : v \in Mir!Reads(Current) => Here \in Wanted(v)
         /\ \A v \in VRegs : (v \notin Current.def /\ pc \in Wanted(v)) => Here \in Wanted(v)
         /\ \A v \in VRegs : Here \in Wanted(v) \/ pc \in Wanted(v) \/ v \in Current.def
              => v \in Present
         /\ \A v, w \in VRegs :
              (/\ v # w
               /\ pc \in Wanted(v) \/ v \in Current.def
               /\ pc \in Wanted(w) \/ w \in Current.def)
              => /\ v \notin spilled /\ w \notin spilled => assigned[v] # assigned[w]
                 /\ v \in spilled /\ w \in spilled => SlotOf(v) # SlotOf(w)
         /\ \A v \in Present \ spilled : assigned[v] \in Registers \ HeldBack
         /\ \A v \in VRegs \ spilled :
              (Current.call /\ pc \in Wanted(v))
                => \E i \in 1..Len(Kept) : Kept[i] = assigned[v]
<1>1. /\ prog \in Programs /\ fn = prog.input /\ Accepted
      /\ Here \in Mir!Places(prog.func) /\ ~AtEnd(Here) /\ pc = Next1(Here)
      /\ Len(Kept) \in Nat
  BY MidwayShape
<1>2. /\ Current.def \subseteq VRegs /\ Mir!Reads(Current) \subseteq VRegs
      /\ \A v, w \in Current.def : v = w
      /\ Current.call \in BOOLEAN /\ (Current.call => Current.def = {})
  BY <1>1, InstrShape DEF Current
<1>3. VRegs \subseteq Nat
  BY ConstantsAssumption
<1>4. ~Current.call => Len(Kept) = 0
  <2>1. ~Current.call => Kept = <<>>
    BY <1>1, SavedShape DEF Kept
  <2> QED
    BY <2>1
<1>5. Current.def \cap spilled = {} => Len(Sent) = 0
  <2>1. Current.def \cap spilled = {} => Sent = <<>>
    BY <1>2, <1>3, StoresShape DEF Sent
  <2> QED
    BY <2>1
<1> DEFINE after == Mir!DefPoint(IndexOf(Here))
           at == Mir!UsePoint(IndexOf(Here))
<1>6. \A v \in VRegs :
        /\ v \in Mir!Reads(Current) => Here \in Wanted(v)
        /\ v \notin Current.def /\ pc \in Wanted(v) => Here \in Wanted(v)
        /\ Here \in Wanted(v) => at \in fn.ivs[v].points
        /\ pc \in Wanted(v) \/ v \in Current.def => after \in fn.ivs[v].points
  BY <1>1, WantedShape DEF Current
<1> HIDE DEF after, at
<1>7. \A v \in VRegs : Here \in Wanted(v) \/ pc \in Wanted(v) \/ v \in Current.def
        => v \in Present
  BY <1>6 DEF Present
<1>8. /\ \A v \in Present \ spilled : assigned[v] \in Registers \ HeldBack
      /\ \A v \in spilled : slots[v] \in Nat
      /\ fn.base \in Nat
  BY <1>1, Settled
<1>9. ASSUME NEW v \in VRegs, NEW w \in VRegs, v # w,
             pc \in Wanted(v) \/ v \in Current.def,
             pc \in Wanted(w) \/ w \in Current.def
      PROVE  /\ v \notin spilled /\ w \notin spilled => assigned[v] # assigned[w]
             /\ v \in spilled /\ w \in spilled => SlotOf(v) # SlotOf(w)
  <2>1. Intersects(v, w) /\ v \in Present /\ w \in Present
    BY <1>6, <1>7, <1>9 DEF Intersects
  <2>2. v \notin spilled /\ w \notin spilled => assigned[v] # assigned[w]
    <3>1. \A r \in Registers : r # NoReg
      BY ConstantsAssumption DEF NoReg
    <3>2. v \notin spilled => assigned[v] # NoReg
      BY <1>8, <2>1, <3>1
    <3> QED
      BY <1>9, <2>1, <3>2 DEF Allocated, IInv, RegisterExclusive
  <2>3. v \in spilled /\ w \in spilled => slots[v] # slots[w]
    <3>1. v \in spilled => slots[v] # NoSlot
      BY <1>8 DEF NoSlot
    <3> QED
      BY <1>9, <2>1, <3>1 DEF Allocated, IInv, SlotExclusive
  <2>4. v \in spilled /\ w \in spilled => SlotOf(v) # SlotOf(w)
    BY <1>8, <2>3 DEF SlotOf
  <2> QED
    BY <2>2, <2>4
<1>10. \A v \in VRegs \ spilled :
         (Current.call /\ pc \in Wanted(v)) => \E i \in 1..Len(Kept) : Kept[i] = assigned[v]
  BY <1>1, <1>6, <1>7, SavedShape DEF Kept, after
<1> QED
  BY <1>2, <1>4, <1>5, <1>6, <1>7, <1>8, <1>9, <1>10

(* Where v is kept, after a step that moves no value's home.               *)
HomeNext(v) == IF v \in spilled THEN memory'[SlotOf(v)] ELSE regs'[assigned[v]]

(* What Midway says of the values, once the next step has been taken: with *)
(* depth registers in the frame, and nothing else's memory written.        *)
FrameHoldsNext(depth) ==
  \A i \in 1..depth, v \in defined' \ spilled :
    (pc \in Wanted(v) /\ assigned[v] = Kept[i]) => v \in memory'[FrameBase + i - 1]

ReadyNext ==
  Done < Before =>
    /\ \A v \in defined' : Here \in Wanted(v) => v \in HomeNext(v)
    /\ \A i \in 1..Len(Loads) :
         (i <= Done + 1 - Len(Kept) /\ Loads[i] \in defined')
           => Loads[i] \in regs'[fn.scratch[i]]

HomewardNext(depth) ==
  Done >= Before =>
    \A v \in defined' : pc \in Wanted(v) =>
      IF v \in spilled \cap Current.def /\ Done = Before
      THEN v \in regs'[RegisterFor(Current, v)]
      ELSE \/ v \in HomeNext(v)
           \/ v \notin spilled /\ \E i \in 1..depth : Kept[i] = assigned[v]

ForeignSpared ==
  \A c \in Cells :
    (c < fn.base \/ (c >= fn.base + SlotCount /\ c < FrameBase)) /\ memory[c] = {Foreign}
      => memory'[c] = {Foreign}

(* StepTaken, with everything that a step leaves alone left alone.         *)
LEMMA Progress ==
  ASSUME Allocated, CodeInv, NEW op, Doing(op),
         NEW depth \in Nat,
         depth = IF Done + 1 <= Len(Kept) THEN Done + 1
                 ELSE IF Done + 1 <= Before + 1 + Len(Sent) THEN Len(Kept)
                 ELSE Len(Plan) - (Done + 1),
         regs' \in [Registers -> SUBSET (VRegs \cup {Foreign})],
         memory' \in [Cells -> SUBSET (VRegs \cup {Foreign})],
         defined' \subseteq VRegs,
         sp' = FrameBase + depth,
         FrameHoldsNext(depth), ReadyNext, HomewardNext(depth), ForeignSpared
  PROVE  CodeInv'
<1>1. /\ stage = "run" /\ todo # <<>>
      /\ vars' = vars /\ prog' = prog /\ pc' = pc /\ stage' = stage
      /\ todo' = Tail(todo)
      /\ fn' = fn /\ spilled' = spilled /\ assigned' = assigned
      /\ Done' = Done + 1 /\ Before' = Before /\ Here' = Here
      /\ Kept' = Kept /\ Loads' = Loads /\ Sent' = Sent /\ Current' = Current
      /\ FrameBase' = FrameBase /\ SlotCount' = SlotCount
      /\ \A v : SlotOf(v)' = SlotOf(v) /\ Wanted(v)' = Wanted(v)
                /\ RegisterFor(Current, v)' = RegisterFor(Current, v)
      /\ Depth' = depth
  BY Moved
<1>2. /\ prog \in Programs /\ fn = prog.input /\ Accepted
      /\ Done \in Nat /\ Len(Kept) \in Nat /\ Len(Loads) \in Nat
      /\ Before = Len(Kept) + Len(Loads)
  BY <1>1, MidwayShape DEF Before
<1>3. FrameBase \in Nat
  BY <1>2, Layout
<1> HIDE DEF Done, Before, Depth, Kept, Loads, Sent, Current, Here, Plan
<1>5. \A v : Home(v)' = HomeNext(v)
  BY <1>1 DEF Home, HomeNext
<1>6. FrameHolds'
  BY ONLY <1>1, FrameHoldsNext(depth) DEF FrameHolds, FrameHoldsNext
<1>7. Done + 1 <= Before <=> Done < Before
  BY <1>2
<1>8. Done + 1 > Before <=> Done >= Before
  BY <1>2
<1>9. Done + 1 = Before + 1 <=> Done = Before
  BY <1>2
<1>10. ReadyToRun'
  <2>1. ASSUME Done < Before
        PROVE  HomeAt(Here)'
    BY <1>1, <1>5, <2>1 DEF HomeAt, ReadyNext
  <2>2. ASSUME Done < Before, NEW i \in 1..Len(Loads'), i <= Done' - Len(Kept'),
               Loads'[i] \in defined'
        PROVE  Loads'[i] \in regs'[fn'.scratch[i]]
    <3>1. i \in 1..Len(Loads) /\ Loads[i] \in defined'
      BY ONLY <1>1, <2>2
    <3>2. i \in Nat /\ Done + 1 \in Nat /\ Done' = Done + 1 /\ Len(Kept') = Len(Kept)
      BY <1>1, <1>2, <3>1
    <3>3. i <= (Done + 1) - Len(Kept)
      BY ONLY <2>2, <3>2, Len(Kept) \in Nat
    <3>4. Loads[i] \in regs'[fn.scratch[i]]
      BY ONLY <1>2, <2>2, <3>1, <3>2, <3>3, ReadyNext DEF ReadyNext
    <3> QED
      BY ONLY <1>1, <3>4
  <2>3. Done' <= Before' => Done < Before
    BY <1>1, <1>7
  <2> QED
    BY <2>1, <2>2, <2>3 DEF ReadyToRun
<1>11. OnTheWayHome'
  <2>1. Done' > Before' => Done >= Before
    BY <1>1, <1>8
  <2>2. Done' = Before' + 1 <=> Done = Before
    BY <1>1, <1>9
  <2>3. ASSUME Done >= Before, NEW v \in defined', pc' \in Wanted(v)'
        PROVE  IF v \in spilled' \cap Current'.def /\ Done' = Before' + 1
               THEN v \in regs'[RegisterFor(Current, v)']
               ELSE \/ v \in Home(v)'
                    \/ v \notin spilled' /\ \E i \in 1..Depth' : Kept'[i] = assigned'[v]
    BY <1>1, <1>5, <2>2, <2>3 DEF HomewardNext
  <2> QED
    BY <2>1, <2>3 DEF OnTheWayHome
<1>12. ForeignKept'
  <2>1. \A c \in Cells :
          (c < fn.base \/ (c >= fn.base + SlotCount /\ c < FrameBase)) => memory'[c] = {Foreign}
    BY <1>1 DEF CodeInv, ForeignKept, ForeignSpared
  <2> QED
    BY <1>1, <2>1 DEF ForeignKept
<1>13. sp' \in Nat /\ sp' = FrameBase' + Depth'
  BY <1>1, <1>3
<1> QED
  BY <1>1, <1>6, <1>10, <1>11, <1>12, <1>13, StepTaken

-----------------------------------------------------------------------------
(* Each step of an expansion.                                              *)

(* A register saved in the frame: a result could only be lost by a call    *)
(* that has one, and there is none.                                        *)
LEMMA PushStep ==
  ASSUME Allocated, CodeInv, DoPush
  PROVE  CodeInv'
<1>1. /\ Doing("push") /\ sp \in Cells
      /\ memory' = [memory EXCEPT ![sp] = regs[Head(todo).reg]]
      /\ sp' = sp + 1 /\ regs' = regs /\ defined' = defined
  BY DEF DoPush
<1>2. stage = "run" /\ todo # <<>> /\ Head(todo).op = "push"
  BY <1>1, Moved
<1>3. /\ prog \in Programs /\ fn = prog.input /\ Accepted /\ Midway
      /\ Len(Kept) \in Nat /\ Len(Loads) \in Nat /\ Len(Sent) \in Nat
      /\ Done \in Nat /\ Before = Len(Kept) + Len(Loads)
  BY <1>2, MidwayShape DEF Before
<1>4. Done < Len(Kept) /\ Head(todo).reg = Kept[Done + 1]
  BY <1>2, HeadByStep
<1>5. /\ FrameBase \in Nat /\ SlotCount \in Nat /\ fn.base \in Nat
      /\ fn.base + SlotCount <= FrameBase
      /\ \A v \in spilled : SlotOf(v) \in Cells /\ SlotOf(v) < fn.base + SlotCount
  BY <1>3, Layout
<1>6. Depth = Done /\ sp = FrameBase + Done
  BY <1>3, <1>4 DEF Depth, Midway
<1>7. /\ Current.def = {} /\ \A v \in VRegs : pc \in Wanted(v) => Here \in Wanted(v)
  <2>1. Len(Kept) # 0
    BY <1>3, <1>4
  <2> QED
    BY <1>2, <2>1, Surroundings
<1>8. CodeTypes
  BY DEF CodeInv
<1>9. /\ regs' \in [Registers -> SUBSET (VRegs \cup {Foreign})]
      /\ memory' \in [Cells -> SUBSET (VRegs \cup {Foreign})]
      /\ defined' \subseteq VRegs
  <2>1. Kept[Done + 1] \in Registers
    <3>1. Kept \in Seq(Registers)
      BY <1>2, <1>3, MidwayShape, SavedShape DEF Kept
    <3> QED
      BY <1>3, <1>4, <3>1
  <2> QED
    BY <1>1, <1>4, <1>8, <2>1 DEF CodeTypes
<1>10. \A v \in defined : Here \in Wanted(v) => v \in Home(v)
  BY <1>3, <1>4 DEF Midway, ReadyToRun, HomeAt
<1>11. \A c \in Cells : c < FrameBase => memory'[c] = memory[c]
  BY <1>1, <1>3, <1>5, <1>6, <1>8 DEF CodeTypes, Cells
<1>12. FrameHoldsNext(Done + 1)
  <2> SUFFICES ASSUME NEW i \in 1..(Done + 1), NEW v \in defined \ spilled,
                      pc \in Wanted(v), assigned[v] = Kept[i]
               PROVE  v \in memory'[FrameBase + i - 1]
    BY <1>1 DEF FrameHoldsNext
  <2>1. CASE i = Done + 1
    <3>1. v \in regs[assigned[v]]
      BY <1>7, <1>8, <1>10 DEF Home, CodeTypes
    <3>2. FrameBase + i - 1 = sp
      BY <1>3, <1>5, <1>6, <2>1
    <3>3. memory'[sp] = regs[Kept[Done + 1]]
      BY <1>1, <1>4, <1>8 DEF CodeTypes
    <3> QED
      BY <2>1, <3>1, <3>2, <3>3
  <2>2. CASE i <= Done
    <3>1. i \in 1..Depth
      BY <1>3, <1>6, <2>2
    <3>2. v \in memory[FrameBase + i - 1]
      BY <1>3, <3>1 DEF Midway, FrameHolds
    <3>3. FrameBase + i - 1 \in Cells /\ FrameBase + i - 1 # sp
      BY <1>1, <1>3, <1>5, <1>6, <2>2, ConstantsAssumption DEF Cells
    <3> QED
      BY <1>1, <1>8, <3>2, <3>3 DEF CodeTypes
  <2> QED
    BY <1>3, <2>1, <2>2
<1>13. ReadyNext
  <2>1. \A v \in defined : Here \in Wanted(v) => v \in HomeNext(v)
    <3>1. \A v \in spilled : memory'[SlotOf(v)] = memory[SlotOf(v)]
      <4> TAKE v \in spilled
      <4>1. SlotOf(v) \in Cells /\ SlotOf(v) < FrameBase
        BY <1>5 DEF Cells
      <4> QED
        BY <1>11, <4>1
    <3> QED
      BY <1>1, <1>10, <3>1 DEF Home, HomeNext
  <2>2. \A i \in 1..Len(Loads) : ~(i <= Done + 1 - Len(Kept))
    BY <1>3, <1>4
  <2> QED
    BY <1>1, <2>1, <2>2 DEF ReadyNext
<1>14. HomewardNext(Done + 1)
  BY <1>3, <1>4 DEF HomewardNext
<1>15. ForeignSpared
  BY <1>5, <1>11 DEF ForeignSpared, Cells
<1>16. sp' = FrameBase + (Done + 1) /\ Done + 1 \in Nat /\ Done + 1 <= Len(Kept)
  BY <1>1, <1>3, <1>4, <1>5, <1>6
<1> QED
  BY <1>1, <1>9, <1>12, <1>13, <1>14, <1>15, <1>16, Progress

(* A spilled operand reloaded: into a scratch register that no value lives *)
(* in and no other operand of the instruction was reloaded into.           *)
LEMMA GetStep ==
  ASSUME Allocated, CodeInv, DoGet
  PROVE  CodeInv'
<1> DEFINE k == Done - Len(Kept) + 1
<1>1. /\ Doing("get")
      /\ regs' = [regs EXCEPT ![Head(todo).reg] = memory[Head(todo).cell]]
      /\ memory' = memory /\ sp' = sp /\ defined' = defined
  BY DEF DoGet
<1>2. stage = "run" /\ todo # <<>> /\ Head(todo).op = "get"
  BY <1>1, Moved
<1>3. /\ prog \in Programs /\ fn = prog.input /\ Accepted /\ Midway
      /\ Here \in Mir!Places(prog.func) /\ ~AtEnd(Here)
      /\ Len(Kept) \in Nat /\ Len(Loads) \in Nat /\ Len(Sent) \in Nat
      /\ Done \in Nat /\ Before = Len(Kept) + Len(Loads)
  BY <1>2, MidwayShape DEF Before
<1>4. /\ Len(Kept) <= Done /\ Done < Before
      /\ Head(todo).reg = fn.scratch[k] /\ Head(todo).cell = SlotOf(Loads[k])
  BY <1>2, HeadByStep
<1>5. CodeTypes
  BY DEF CodeInv
<1>6. /\ k \in 1..Len(Loads) /\ k = Done + 1 - Len(Kept)
      /\ \A i \in 1..Len(Loads) : i <= k /\ i # k => i <= Done - Len(Kept)
      /\ ~(Done + 1 <= Len(Kept)) /\ Done + 1 <= Before + 1 + Len(Sent) /\ ~(Done >= Before)
  BY <1>3, <1>4
<1>7. Depth = Len(Kept) /\ sp = FrameBase + Len(Kept)
  BY <1>3, <1>4 DEF Depth, Midway
<1>8. /\ HeldBack \subseteq Registers
      /\ \A i \in 1..Len(Loads) : /\ fn.scratch[i] \in HeldBack
                                  /\ Loads[i] \in spilled /\ Loads[i] \in Mir!Reads(Current)
      /\ \A i, j \in 1..Len(Loads) : fn.scratch[i] = fn.scratch[j] => i = j
  <2>1. /\ Current.args \in Seq(VRegs) /\ Current.def \subseteq VRegs
        /\ Bare(Current) \in fn.instrs
    BY <1>3, InstrShape DEF Current
  <2>2. /\ Loads \in Seq(spilled) /\ Len(Loads) <= reserved
        /\ \A i \in 1..Len(Loads) : Loads[i] \in Mir!Reads(Current)
    BY <1>3, <2>1, LoadsShape DEF Loads
  <2>3. \A i \in 1..Len(Loads) : fn.scratch[i] \in HeldBack
    BY <1>3, <2>1, OperandRegisters DEF Loads
  <2>4. /\ fn.scratch \in Seq(Registers) /\ reserved \in 0..Len(fn.scratch)
        /\ \A i, j \in 1..reserved : fn.scratch[i] = fn.scratch[j] => i = j
    BY <1>3, Settled
  <2>5. HeldBack \subseteq Registers
    BY <2>4 DEF HeldBack
  <2>6. \A i \in 1..Len(Loads) : i \in 1..reserved
    BY <1>3, <2>2, <2>4
  <2>7. \A i \in 1..Len(Loads) : Loads[i] \in spilled
    BY <1>3, <2>2
  <2> QED
    BY <2>2, <2>3, <2>4, <2>5, <2>6, <2>7
<1>9. \A v \in VRegs : /\ v \in Mir!Reads(Current) => Here \in Wanted(v)
                       /\ Here \in Wanted(v) /\ v \notin spilled
                            => assigned[v] \in Registers \ HeldBack
  BY <1>2, Surroundings
<1>10. \A v \in defined : Here \in Wanted(v) => v \in Home(v)
  BY <1>3, <1>4 DEF Midway, ReadyToRun, HomeAt
<1>11. SlotOf(Loads[k]) \in Cells
  BY <1>3, <1>6, <1>8, Layout
<1> HIDE DEF k
<1>12. regs' = [regs EXCEPT ![fn.scratch[k]] = memory[SlotOf(Loads[k])]]
  BY <1>1, <1>4
<1>13. /\ regs'[fn.scratch[k]] = memory[SlotOf(Loads[k])]
       /\ \A r \in Registers : r # fn.scratch[k] => regs'[r] = regs[r]
       /\ regs' \in [Registers -> SUBSET (VRegs \cup {Foreign})]
  BY <1>5, <1>6, <1>8, <1>11, <1>12 DEF CodeTypes
<1>14. FrameHoldsNext(Len(Kept))
  BY <1>1, <1>3, <1>7 DEF Midway, FrameHolds, FrameHoldsNext
<1>15. ReadyNext
  <2>1. ASSUME NEW v \in defined, Here \in Wanted(v)
        PROVE  v \in HomeNext(v)
    <3>1. v \in Home(v) /\ v \in VRegs
      BY <1>5, <1>10, <2>1 DEF CodeTypes
    <3>2. v \notin spilled => regs'[assigned[v]] = regs[assigned[v]]
      BY <1>6, <1>8, <1>9, <1>13, <2>1, <3>1
    <3> QED
      BY <1>1, <3>1, <3>2 DEF Home, HomeNext
  <2>2. ASSUME NEW i \in 1..Len(Loads), i <= k, Loads[i] \in defined
        PROVE  Loads[i] \in regs'[fn.scratch[i]]
    <3>1. CASE i = k
      <4>1. Loads[k] \in VRegs /\ Loads[k] \in spilled /\ Here \in Wanted(Loads[k])
        BY <1>5, <1>8, <1>9, <2>2, <3>1 DEF CodeTypes
      <4>2. Loads[k] \in memory[SlotOf(Loads[k])]
        BY <1>10, <2>2, <3>1, <4>1 DEF Home
      <4> QED
        BY <1>13, <3>1, <4>2
    <3>2. CASE i # k
      <4>1. Loads[i] \in regs[fn.scratch[i]]
        BY <1>3, <1>4, <1>6, <2>2, <3>2, SMTT(20) DEF Midway, ReadyToRun
      <4>2. fn.scratch[i] # fn.scratch[k] /\ fn.scratch[i] \in Registers
        BY <1>6, <1>8, <3>2
      <4> QED
        BY <1>13, <4>1, <4>2
    <3> QED
      BY <3>1, <3>2
  <2> QED
    BY ONLY <1>1, <1>6, <2>1, <2>2 DEF ReadyNext
<1>16. HomewardNext(Len(Kept)) /\ ForeignSpared
  BY <1>1, <1>6 DEF HomewardNext, ForeignSpared
<1> QED
  BY <1>1, <1>3, <1>5, <1>6, <1>7, <1>13, <1>14, <1>15, <1>16, Progress DEF CodeTypes

(* The instruction itself: its result takes a register that no value       *)
(* wanted after it lives in.                                               *)
LEMMA RunStep ==
  ASSUME Allocated, CodeInv, DoRun
  PROVE  CodeInv'
<1> DEFINE dst == {RegisterFor(Current, v) : v \in Current.def}
<1>1. Doing("run") /\ ~Head(todo).instr.call
  BY DEF DoRun
<1>2. stage = "run" /\ todo # <<>> /\ Head(todo).op = "run"
  BY <1>1, Moved
<1>3. /\ prog \in Programs /\ fn = prog.input /\ Accepted /\ Midway
      /\ Here \in Mir!Places(prog.func) /\ ~AtEnd(Here)
      /\ Len(Kept) \in Nat /\ Len(Loads) \in Nat /\ Len(Sent) \in Nat
      /\ Done \in Nat /\ Before = Len(Kept) + Len(Loads)
  BY <1>2, MidwayShape DEF Before
<1>4. Done = Before /\ Head(todo).instr = Current
  BY <1>2, HeadByStep
<1>5. /\ regs' = [r \in Registers |-> IF r \in dst THEN Current.def ELSE regs[r] \ Current.def]
      /\ memory' = [c \in Cells |-> memory[c] \ Current.def]
      /\ defined' = defined \cup Current.def
      /\ sp' = sp
  BY <1>4 DEF DoRun
<1>6. CodeTypes
  BY DEF CodeInv
<1>7. /\ Current.def \subseteq VRegs /\ Len(Kept) = 0
      /\ \A v \in VRegs : (v \notin Current.def /\ pc \in Wanted(v)) => Here \in Wanted(v)
      /\ \A v \in VRegs : pc \in Wanted(v) \/ v \in Current.def => v \in Present
      /\ \A v, w \in VRegs :
           (/\ v # w
            /\ pc \in Wanted(v) \/ v \in Current.def
            /\ pc \in Wanted(w) \/ w \in Current.def)
           => (v \notin spilled /\ w \notin spilled => assigned[v] # assigned[w])
      /\ \A v \in Present \ spilled : assigned[v] \in Registers \ HeldBack
  BY <1>1, <1>2, <1>4, Surroundings
<1>8. Depth = 0 /\ sp = FrameBase + 0 /\ FrameBase \in Nat
  <2>1. FrameBase \in Nat
    BY <1>3, Layout
  <2> QED
    BY <1>3, <1>4, <1>7, <2>1 DEF Depth, Midway
<1>9. \A v \in defined : Here \in Wanted(v) => v \in Home(v)
  BY <1>3, <1>4 DEF Midway, ReadyToRun, HomeAt
<1>10. /\ HeldBack \subseteq Registers
       /\ \A v \in VRegs \ spilled : RegisterFor(Current, v) = assigned[v]
       /\ \A v \in spilled \cap Current.def : RegisterFor(Current, v) \in HeldBack
  <2>1. /\ Current.args \in Seq(VRegs) /\ Current.def \subseteq VRegs
        /\ Bare(Current) \in fn.instrs
    BY <1>3, InstrShape DEF Current
  <2>2. fn.scratch \in Seq(Registers) /\ reserved \in 0..Len(fn.scratch)
    BY <1>3, Settled
  <2>3. HeldBack \subseteq Registers
    BY <2>2 DEF HeldBack
  <2> QED
    BY <1>3, <2>1, <2>3, OperandRegisters
<1>11. /\ regs' \in [Registers -> SUBSET (VRegs \cup {Foreign})]
       /\ memory' \in [Cells -> SUBSET (VRegs \cup {Foreign})]
       /\ defined' \subseteq VRegs
  <2> HIDE DEF dst
  <2> QED
    BY <1>5, <1>6, <1>7 DEF CodeTypes
<1>12. FrameHoldsNext(0) /\ ReadyNext
  BY <1>3, <1>4 DEF FrameHoldsNext, ReadyNext
<1>13. ASSUME NEW v \in Current.def
       PROVE  /\ v \in spilled => v \in regs'[RegisterFor(Current, v)]
              /\ v \notin spilled => v \in HomeNext(v)
  <2>1. RegisterFor(Current, v) \in Registers
    BY <1>7, <1>10
  <2>2. regs'[RegisterFor(Current, v)] = Current.def
    BY <1>5, <2>1
  <2> QED
    BY <1>7, <1>10, <2>2 DEF HomeNext
<1>14. ASSUME NEW v \in defined \ Current.def, pc \in Wanted(v)
       PROVE  v \in HomeNext(v)
  <2>1. v \in VRegs /\ v \in Home(v) /\ v \in Present
    BY <1>6, <1>7, <1>9, <1>14 DEF CodeTypes
  <2>2. CASE v \in spilled
    <3>1. SlotOf(v) \in Cells
      BY <1>3, <2>2, Layout
    <3> QED
      BY <1>5, <2>1, <2>2, <3>1 DEF Home, HomeNext
  <2>3. CASE v \notin spilled
    <3>1. assigned[v] \in Registers /\ assigned[v] \notin HeldBack
      BY <1>7, <2>1, <2>3
    <3>2. ASSUME NEW w \in Current.def
          PROVE  RegisterFor(Current, w) # assigned[v]
      BY <1>7, <1>10, <1>14, <2>1, <2>3, <3>1
    <3>3. assigned[v] \notin dst
      BY <3>2
    <3>4. regs'[assigned[v]] = regs[assigned[v]] \ Current.def
      BY <1>5, <3>1, <3>3
    <3> QED
      BY <2>1, <2>3, <3>4 DEF Home, HomeNext
  <2> QED
    BY <2>2, <2>3
<1>15. HomewardNext(0)
  BY <1>4, <1>5, <1>13, <1>14 DEF HomewardNext
<1>16. ForeignSpared
  <2>1. Foreign \notin Current.def
    BY <1>7, ConstantsAssumption DEF Foreign
  <2> QED
    BY <1>5, <2>1 DEF ForeignSpared
<1>17. sp' = FrameBase + 0
  BY <1>5, <1>8
<1>18. /\ ~(Done + 1 <= Len(Kept)) /\ Done + 1 <= Before + 1 + Len(Sent)
       /\ Len(Kept) = 0
  BY <1>3, <1>4, <1>7
<1> QED
  BY <1>1, <1>11, <1>12, <1>15, <1>16, <1>17, <1>18, Progress

(* A call: what it destroys is either saved in the frame below the stack   *)
(* pointer, in a slot no other activation shares, or wanted no more.       *)
LEMMA CallStep ==
  ASSUME Allocated, CodeInv, DoCall
  PROVE  CodeInv'
<1>1. /\ Doing("run") /\ Head(todo).instr.call
      /\ regs' = [r \in Registers |-> {}]
      /\ memory' = [c \in Cells |->
                      IF \/ c >= sp
                         \/ prog.recursive /\ c >= fn.base /\ c < fn.base + SlotCount
                      THEN {} ELSE memory[c]]
      /\ sp' = sp /\ defined' = defined
  BY DEF DoCall
<1>2. stage = "run" /\ todo # <<>> /\ Head(todo).op = "run"
  BY <1>1, Moved
<1>3. /\ prog \in Programs /\ fn = prog.input /\ Accepted /\ Midway
      /\ Here \in Mir!Places(prog.func) /\ ~AtEnd(Here)
      /\ Len(Kept) \in Nat /\ Len(Loads) \in Nat /\ Len(Sent) \in Nat
      /\ Done \in Nat /\ Before = Len(Kept) + Len(Loads)
  BY <1>2, MidwayShape DEF Before
<1>4. Done = Before /\ Head(todo).instr = Current
  BY <1>2, HeadByStep
<1>5. CodeTypes
  BY DEF CodeInv
<1>6. /\ Current.def = {}
      /\ \A v \in VRegs : pc \in Wanted(v) => Here \in Wanted(v)
      /\ \A v \in VRegs \ spilled :
           pc \in Wanted(v) => \E i \in 1..Len(Kept) : Kept[i] = assigned[v]
  <2>1. Current.call
    BY <1>1, <1>4
  <2> QED
    BY <1>2, <2>1, Surroundings
<1>7. /\ FrameBase \in Nat /\ SlotCount \in Nat /\ fn.base \in Nat
      /\ fn.base + SlotCount <= FrameBase
      /\ FrameBase + Len(Kept) <= NumMemorySlots /\ NumMemorySlots \in Nat
      /\ \A v \in spilled : SlotOf(v) \in Cells /\ SlotOf(v) < fn.base + SlotCount
  BY <1>3, Layout, ConstantsAssumption DEF Kept, Current
<1>8. Depth = Len(Kept) /\ sp = FrameBase + Len(Kept)
  BY <1>3, <1>4 DEF Depth, Midway
<1>9. /\ regs' \in [Registers -> SUBSET (VRegs \cup {Foreign})]
      /\ memory' \in [Cells -> SUBSET (VRegs \cup {Foreign})]
      /\ defined' \subseteq VRegs
  BY <1>1, <1>5 DEF CodeTypes
<1>10. \A v \in defined : Here \in Wanted(v) => v \in Home(v)
  BY <1>3, <1>4 DEF Midway, ReadyToRun, HomeAt
<1>11. \A c \in Cells : (c < sp /\ ~(c >= fn.base /\ c < fn.base + SlotCount))
                          => memory'[c] = memory[c]
  BY <1>1, <1>7, <1>8 DEF Cells
<1>12. FrameHoldsNext(Len(Kept))
  <2> SUFFICES ASSUME NEW i \in 1..Len(Kept), NEW v \in defined \ spilled,
                      pc \in Wanted(v), assigned[v] = Kept[i]
               PROVE  v \in memory'[FrameBase + i - 1]
    BY <1>1 DEF FrameHoldsNext
  <2>1. v \in memory[FrameBase + i - 1]
    BY <1>3, <1>8 DEF Midway, FrameHolds
  <2> DEFINE c == FrameBase + i - 1
  <2>2. i \in Nat /\ 1 <= i /\ i <= Len(Kept) /\ c \in Nat
    BY <1>3, <1>7
  <2>3. FrameBase <= c /\ c < FrameBase + Len(Kept)
    BY ONLY <1>3, <1>7, <2>2
  <2> HIDE DEF c
  <2>4. c \in Cells /\ c < sp
    BY ONLY <1>3, <1>7, <1>8, <2>2, <2>3 DEF Cells
  <2>5. ~(c < fn.base + SlotCount)
    BY ONLY <1>7, <2>2, <2>3
  <2> QED
    BY <1>11, <2>1, <2>4, <2>5 DEF c
<1>13. HomewardNext(Len(Kept))
  <2> SUFFICES ASSUME NEW v \in defined, pc \in Wanted(v), v \in spilled
               PROVE  v \in HomeNext(v)
    BY <1>1, <1>5, <1>6 DEF HomewardNext, CodeTypes
  <2>1. v \in memory[SlotOf(v)]
    BY <1>5, <1>6, <1>10 DEF CodeTypes, Home
  <2>2. ~prog.recursive
    BY <1>3, Settled
  <2>3. SlotOf(v) \in Cells /\ ~(SlotOf(v) >= sp)
    BY <1>3, <1>7, <1>8 DEF Cells
  <2>4. memory'[SlotOf(v)] = memory[SlotOf(v)]
    BY <1>1, <2>2, <2>3
  <2> QED
    BY <2>1, <2>4 DEF HomeNext
<1>14. ReadyNext
  BY <1>3, <1>4 DEF ReadyNext
<1>15. ForeignSpared
  <2> SUFFICES ASSUME NEW c \in Cells,
                      c < fn.base \/ (c >= fn.base + SlotCount /\ c < FrameBase)
               PROVE  memory'[c] = memory[c]
    BY DEF ForeignSpared
  <2>1. c < sp /\ ~(c >= fn.base /\ c < fn.base + SlotCount)
    BY <1>3, <1>7, <1>8, SMTT(20) DEF Cells
  <2> QED
    BY <1>11, <2>1
<1>16. /\ sp' = FrameBase + Len(Kept)
       /\ ~(Done + 1 <= Len(Kept)) /\ Done + 1 <= Before + 1 + Len(Sent)
  BY <1>1, <1>3, <1>4, <1>8
<1> QED
  BY <1>1, <1>3, <1>9, <1>12, <1>13, <1>14, <1>15, <1>16, Progress

(* A spilled result stored: in a slot that no other value wanted after the *)
(* instruction is kept in.                                                 *)
LEMMA PokeStep ==
  ASSUME Allocated, CodeInv, DoPoke
  PROVE  CodeInv'
<1>1. /\ Doing("poke")
      /\ memory' = [memory EXCEPT ![Head(todo).cell] = regs[Head(todo).reg]]
      /\ regs' = regs /\ sp' = sp /\ defined' = defined
  BY DEF DoPoke
<1>2. stage = "run" /\ todo # <<>> /\ Head(todo).op = "poke"
  BY <1>1, Moved
<1>3. /\ prog \in Programs /\ fn = prog.input /\ Accepted /\ Midway
      /\ Here \in Mir!Places(prog.func) /\ ~AtEnd(Here)
      /\ Len(Kept) \in Nat /\ Len(Loads) \in Nat /\ Len(Sent) \in Nat
      /\ Done \in Nat /\ Before = Len(Kept) + Len(Loads)
  BY <1>2, MidwayShape DEF Before
<1>4. /\ Done = Before + 1 /\ Len(Sent) = 1
      /\ \E v \in Current.def \cap spilled :
           /\ Head(todo).cell = SlotOf(v)
           /\ Head(todo).reg = RegisterFor(Current, v)
  BY <1>2, HeadByStep
<1>5. PICK d \in Current.def \cap spilled :
        memory' = [memory EXCEPT ![SlotOf(d)] = regs[RegisterFor(Current, d)]]
  BY <1>1, <1>4
<1>6. CodeTypes
  BY DEF CodeInv
<1>7. /\ Current.def \subseteq VRegs /\ Len(Kept) = 0
      /\ \A v, w \in Current.def : v = w
      /\ \A v, w \in VRegs :
           (/\ v # w
            /\ pc \in Wanted(v) \/ v \in Current.def
            /\ pc \in Wanted(w) \/ w \in Current.def)
           => (v \in spilled /\ w \in spilled => SlotOf(v) # SlotOf(w))
  <2>1. /\ Current.call \in BOOLEAN /\ (Current.call => Current.def = {})
        /\ (~Current.call => Len(Kept) = 0)
    BY <1>2, Surroundings
  <2>2. Len(Kept) = 0
    BY <1>5, <2>1
  <2> QED
    BY <1>2, <2>2, Surroundings
<1>8. /\ FrameBase \in Nat /\ SlotCount \in Nat /\ fn.base \in Nat
      /\ fn.base + SlotCount <= FrameBase
      /\ \A v \in spilled : /\ SlotOf(v) \in Cells /\ fn.base <= SlotOf(v)
                            /\ SlotOf(v) < fn.base + SlotCount
  BY <1>3, Layout
<1>9. Depth = 0 /\ sp = FrameBase + 0
  BY <1>3, <1>4, <1>7, <1>8 DEF Depth, Midway
<1>10. /\ memory'[SlotOf(d)] = regs[RegisterFor(Current, d)]
       /\ \A c \in Cells : c # SlotOf(d) => memory'[c] = memory[c]
  BY <1>5, <1>6, <1>8 DEF CodeTypes
<1>11. RegisterFor(Current, d) \in Registers
  <2>1. /\ Current.args \in Seq(VRegs) /\ Current.def \subseteq VRegs
        /\ Bare(Current) \in fn.instrs
    BY <1>3, InstrShape DEF Current
  <2>2. fn.scratch \in Seq(Registers) /\ reserved \in 0..Len(fn.scratch)
    BY <1>3, Settled
  <2>3. HeldBack \subseteq Registers
    BY <2>2 DEF HeldBack
  <2> QED
    BY <1>3, <2>1, <2>3, OperandRegisters
<1>12. /\ regs' \in [Registers -> SUBSET (VRegs \cup {Foreign})]
       /\ memory' \in [Cells -> SUBSET (VRegs \cup {Foreign})]
       /\ defined' \subseteq VRegs
  BY <1>1, <1>5, <1>6, <1>8, <1>11 DEF CodeTypes
<1>13. FrameHoldsNext(0) /\ ReadyNext
  BY <1>3, <1>4 DEF FrameHoldsNext, ReadyNext
<1>14. HomewardNext(0)
  <2> SUFFICES ASSUME NEW v \in defined, pc \in Wanted(v)
               PROVE  v \in HomeNext(v)
    BY <1>1, <1>3, <1>4 DEF HomewardNext
  <2>1. v \in VRegs /\ d \in VRegs
    BY <1>6, <1>7 DEF CodeTypes
  <2>2. Done > Before
    BY <1>3, <1>4
  <2>3. IF v \in spilled \cap Current.def
        THEN v \in regs[RegisterFor(Current, v)]
        ELSE v \in Home(v)
    BY <1>3, <1>4, <1>9, <2>2 DEF Midway, OnTheWayHome
  <2>4. CASE v \in spilled \cap Current.def
    BY <1>7, <1>10, <2>3, <2>4 DEF HomeNext
  <2>5. CASE v \in spilled /\ v \notin Current.def
    <3>1. SlotOf(v) # SlotOf(d)
      BY <1>7, <2>1, <2>5
    <3> QED
      BY <1>8, <1>10, <2>3, <2>5, <3>1 DEF Home, HomeNext
  <2>6. CASE v \notin spilled
    BY <1>1, <2>3, <2>6 DEF Home, HomeNext
  <2> QED
    BY <2>4, <2>5, <2>6
<1>15. ForeignSpared
  <2>1. fn.base <= SlotOf(d) /\ SlotOf(d) < fn.base + SlotCount /\ SlotOf(d) \in Int
    BY <1>8 DEF Cells
  <2>2. \A c \in Cells :
          (c < fn.base \/ (c >= fn.base + SlotCount /\ c < FrameBase)) => c # SlotOf(d)
    BY <1>8, <2>1 DEF Cells
  <2> QED
    BY <1>10, <2>2 DEF ForeignSpared
<1>16. /\ sp' = FrameBase + 0
       /\ ~(Done + 1 <= Len(Kept)) /\ Done + 1 <= Before + 1 + Len(Sent)
  BY <1>1, <1>3, <1>4, <1>7, <1>9
<1> QED
  BY <1>1, <1>7, <1>12, <1>13, <1>14, <1>15, <1>16, Progress

(* A register restored from the frame: it comes back with what it held     *)
(* when it was saved.                                                      *)
LEMMA PopStep ==
  ASSUME Allocated, CodeInv, DoPop
  PROVE  CodeInv'
<1> DEFINE k == Len(Plan) - Done
<1>1. /\ Doing("pop") /\ sp - 1 \in Cells
      /\ regs' = [regs EXCEPT ![Head(todo).reg] = memory[sp - 1]]
      /\ sp' = sp - 1 /\ memory' = memory /\ defined' = defined
  BY DEF DoPop
<1>2. stage = "run" /\ todo # <<>> /\ Head(todo).op = "pop"
  BY <1>1, Moved
<1>3. /\ prog \in Programs /\ fn = prog.input /\ Accepted /\ Midway
      /\ Here \in Mir!Places(prog.func) /\ ~AtEnd(Here)
      /\ Len(Kept) \in Nat /\ Len(Loads) \in Nat /\ Len(Sent) \in Nat
      /\ Done \in Nat /\ Before = Len(Kept) + Len(Loads)
      /\ Len(Plan) = Len(Kept) + Len(Loads) + 1 + Len(Sent) + Len(Kept)
      /\ Done < Len(Plan)
  BY <1>2, MidwayShape DEF Before
<1>4. Before + 1 + Len(Sent) <= Done /\ Head(todo).reg = Kept[k]
  BY <1>2, HeadByStep
<1>5. CodeTypes
  BY DEF CodeInv
<1>6. /\ k \in 1..Len(Kept) /\ Done > Before /\ ~(Done = Before)
      /\ ~(Done + 1 <= Len(Kept)) /\ ~(Done + 1 <= Before + 1 + Len(Sent))
      /\ Len(Plan) - (Done + 1) = k - 1
  BY <1>3, <1>4
<1>7. FrameBase \in Nat
  BY <1>3, Layout
<1>8. Depth = k /\ sp = FrameBase + k
  <2>1. /\ ~(Done <= Len(Kept))
        /\ Done <= Before + 1 + Len(Sent) => k = Len(Kept)
    BY <1>3, <1>4, SMTT(20)
  <2> HIDE DEF k, Done
  <2>2. Depth = k
    BY <2>1 DEF Depth, k
  <2> QED
    BY <1>3, <2>2 DEF Midway
<1>9. Current.def = {}
  <2>1. Len(Kept) # 0
    BY <1>3, <1>6
  <2> QED
    BY <1>2, <2>1, Surroundings
<1>10. Kept[k] \in Registers
  <2>1. Kept \in Seq(Registers)
    BY <1>3, SavedShape DEF Kept
  <2> QED
    BY <1>6, <2>1
<1> HIDE DEF k
<1>11. FrameBase + k - 1 = sp - 1 /\ sp' = FrameBase + (k - 1) /\ k - 1 \in Nat
  BY <1>1, <1>3, <1>6, <1>7, <1>8
<1>12. /\ regs'[Kept[k]] = memory[FrameBase + k - 1]
       /\ \A r \in Registers : r # Kept[k] => regs'[r] = regs[r]
       /\ regs' \in [Registers -> SUBSET (VRegs \cup {Foreign})]
  BY <1>1, <1>4, <1>5, <1>10, <1>11 DEF CodeTypes
<1>13. FrameHoldsNext(k - 1)
  <2>1. \A i \in 1..(k - 1) : i \in 1..Depth
    BY <1>3, <1>6, <1>8
  <2> QED
    BY <1>1, <1>3, <2>1 DEF Midway, FrameHolds, FrameHoldsNext
<1>14. HomewardNext(k - 1)
  <2> SUFFICES ASSUME NEW v \in defined, pc \in Wanted(v)
               PROVE  \/ v \in HomeNext(v)
                      \/ v \notin spilled /\ \E i \in 1..(k - 1) : Kept[i] = assigned[v]
    BY <1>1, <1>9 DEF HomewardNext
  <2>1. \/ v \in Home(v)
        \/ v \notin spilled /\ \E i \in 1..k : Kept[i] = assigned[v]
    BY <1>3, <1>6, <1>8, <1>9 DEF Midway, OnTheWayHome
  <2>2. CASE v \in spilled
    BY <1>1, <2>1, <2>2 DEF Home, HomeNext
  <2>3. CASE v \notin spilled /\ assigned[v] = Kept[k]
    <3>1. k \in 1..Depth
      BY <1>3, <1>6, <1>8
    <3>2. v \in memory[FrameBase + k - 1]
      BY <1>3, <2>3, <3>1 DEF Midway, FrameHolds
    <3> QED
      BY <1>12, <2>3, <3>2 DEF HomeNext
  <2>4. CASE v \notin spilled /\ assigned[v] # Kept[k] /\ v \in Home(v)
    <3>1. assigned[v] \in Registers
      <4>1. v \in VRegs /\ v \in Present
        BY <1>2, <1>5, Surroundings DEF CodeTypes
      <4> QED
        BY <1>2, <2>4, <4>1, Surroundings
    <3> QED
      BY <1>12, <2>4, <3>1 DEF Home, HomeNext
  <2>5. CASE v \notin spilled /\ assigned[v] # Kept[k]
             /\ \E i \in 1..k : Kept[i] = assigned[v]
    <3>1. PICK i \in 1..k : Kept[i] = assigned[v]
      BY <2>5
    <3>2. i \in 1..(k - 1)
      BY <1>3, <1>6, <2>5, <3>1
    <3> QED
      BY <2>5, <3>1, <3>2
  <2> QED
    BY <2>1, <2>2, <2>3, <2>4, <2>5
<1>15. ReadyNext /\ ForeignSpared
  BY <1>1, <1>3, <1>6 DEF ReadyNext, ForeignSpared
<1>16. memory' \in [Cells -> SUBSET (VRegs \cup {Foreign})] /\ defined' \subseteq VRegs
  BY <1>1, <1>5 DEF CodeTypes
<1> QED
  BY <1>1, <1>6, <1>11, <1>12, <1>13, <1>14, <1>15, <1>16, Progress

-----------------------------------------------------------------------------
(* The steps between instructions.                                         *)

LEMMA InitRest == InitCode => CodeInv
<1> SUFFICES ASSUME InitCode PROVE CodeInv
  OBVIOUS
<1>1. /\ prog \in Programs /\ fn = prog.input /\ stage = "allocate" /\ pc = <<1, 1>>
      /\ todo = <<>> /\ regs = [r \in Registers |-> {}]
      /\ memory = [c \in Cells |-> {Foreign}] /\ sp = 0 /\ defined = {}
  BY DEF InitCode
<1>2. pc \in Mir!Places(prog.func)
  <2>1. 1 \in 1..Len(prog.func.code)
    BY <1>1, FunctionShape
  <2>2. 1 \in 1..(Len(prog.func.code[1]) + 1)
    BY <1>1, <2>1, FunctionShape
  <2> QED
    BY <1>1, <2>1, <2>2, PlaceShape
<1>3. CodeTypes
  BY <1>1, <1>2 DEF CodeTypes
<1> QED
  BY <1>1, <1>3 DEF CodeInv, Untouched, Admitted, AtRest, ForeignKept

(* Outside the run there is nothing to keep but the types.                 *)
LEMMA OutsideRun ==
  ASSUME CodeTypes', Untouched', stage' \in {"allocate", "rejected"}
  PROVE  CodeInv'
  BY DEF CodeInv, Admitted, AtRest, ForeignKept

(* No step of the allocator changes its input.                             *)
LEMMA InputStays == Step => fn' = fn
  BY DEF Step, Enter, Refuse, PlaceFree, NoScratch, SpillCurrent, Evict, Reach,
         Rescan, EndRounds, AssignSlot, OutOfSlots, Rewrite, BeginScan, EndOfScan

LEMMA AllocateStep ==
  ASSUME CodeInv, Allocate
  PROVE  CodeInv'
<1>1. /\ fn' = fn /\ prog' = prog /\ stage' = "allocate" /\ stage = "allocate"
      /\ pc' = pc /\ todo' = todo /\ regs' = regs /\ memory' = memory
      /\ sp' = sp /\ defined' = defined
  BY InputStays DEF Allocate, code
<1>2. CodeTypes' /\ Untouched'
  BY <1>1 DEF CodeInv, CodeTypes, Untouched
<1> QED
  BY <1>1, <1>2, OutsideRun

LEMMA RejectStep ==
  ASSUME CodeInv, Reject
  PROVE  CodeInv'
<1>1. /\ fn' = fn /\ prog' = prog /\ stage' = "rejected"
      /\ pc' = pc /\ todo' = todo /\ regs' = regs /\ memory' = memory
      /\ sp' = sp /\ defined' = defined
  BY DEF Reject, code, vars
<1>2. CodeTypes' /\ Untouched'
  BY <1>1 DEF CodeInv, CodeTypes, Untouched
<1> QED
  BY <1>1, <1>2, OutsideRun

(* The function is entered with nothing defined.                           *)
LEMMA BeginStep ==
  ASSUME Allocated, CodeInv, Begin
  PROVE  CodeInv'
<1>1. /\ stage = "allocate" /\ Accepted /\ stage' = "run" /\ sp' = FrameBase
      /\ memory' = [c \in Cells |->
                      IF c >= fn.base /\ c < fn.base + SlotCount THEN {} ELSE memory[c]]
      /\ vars' = vars /\ fn' = fn /\ prog' = prog /\ pc' = pc /\ todo' = todo
      /\ regs' = regs /\ defined' = defined
  BY DEF Begin, vars
<1>2. CodeTypes /\ todo = <<>> /\ defined = {} /\ memory = [c \in Cells |-> {Foreign}]
  BY <1>1 DEF CodeInv, Untouched
<1>3. FrameBase \in Nat /\ SlotCount \in Nat /\ fn.base \in Nat
      /\ fn.base + SlotCount <= FrameBase
  BY <1>1, <1>2, Layout DEF CodeTypes
<1>4. FrameBase' = FrameBase /\ SlotCount' = SlotCount /\ (Accepted' <=> Accepted)
  BY <1>1, RewritingKept
<1>5. CodeTypes'
  BY <1>1, <1>2, <1>3 DEF CodeTypes
<1>6. AtRest' /\ Untouched' /\ Admitted'
  BY <1>1, <1>2, <1>4 DEF AtRest, HomeAt, Untouched, Admitted
<1>7. ForeignKept'
  <2>1. \A c \in Cells :
          (c < fn.base \/ (c >= fn.base + SlotCount /\ c < FrameBase)) => memory'[c] = {Foreign}
    BY <1>1, <1>2, <1>3 DEF Cells
  <2> QED
    BY <1>1, <1>4, <2>1 DEF ForeignKept
<1> QED
  BY <1>1, <1>2, <1>5, <1>6, <1>7 DEF CodeInv

(* Values at home before an instruction are where its reloads look.        *)
LEMMA FetchStep ==
  ASSUME Allocated, CodeInv, Fetch
  PROVE  CodeInv'
<1> DEFINE plan == Expansion(InstrAt(pc), IndexOf(pc))
<1>1. /\ stage = "run" /\ todo = <<>> /\ ~AtEnd(pc)
      /\ todo' = plan /\ pc' = Next1(pc)
      /\ vars' = vars /\ fn' = fn /\ spilled' = spilled /\ assigned' = assigned
      /\ prog' = prog /\ stage' = stage
      /\ regs' = regs /\ memory' = memory /\ sp' = sp /\ defined' = defined
  BY DEF Fetch, vars, Next1
<1>2. /\ CodeTypes /\ Accepted /\ sp = FrameBase /\ HomeAt(pc)
      /\ prog \in Programs /\ fn = prog.input /\ pc \in Mir!Places(prog.func)
      /\ ForeignKept
  BY <1>1 DEF CodeInv, CodeTypes, Admitted, AtRest
<1>3. /\ pc' \in Mir!Places(prog.func) /\ pc'[2] > 1
      /\ <<pc'[1], pc'[2] - 1>> = pc
  BY <1>1, <1>2, InstrShape
<1>4. /\ plan \in Seq(StepsOf(InstrAt(pc))) /\ Len(plan) \in Nat /\ Len(plan) # 0
      /\ Len(Saved(InstrAt(pc), IndexOf(pc))) \in Nat
      /\ Len(ReloadOrder(InstrAt(pc))) \in Nat
  <2>1. /\ plan \in Seq(StepsOf(InstrAt(pc)))
        /\ Len(Saved(InstrAt(pc), IndexOf(pc))) \in Nat
        /\ Len(ReloadOrder(InstrAt(pc))) \in Nat /\ Len(Stores(InstrAt(pc))) \in Nat
        /\ Len(plan) = Len(Saved(InstrAt(pc), IndexOf(pc))) + Len(ReloadOrder(InstrAt(pc)))
                       + 1 + Len(Stores(InstrAt(pc)))
                       + Len(Saved(InstrAt(pc), IndexOf(pc)))
    BY <1>1, <1>2, PlanShape
  <2> HIDE DEF plan
  <2> QED
    BY <2>1
<1>5. Here' = pc
  BY <1>3 DEF Here
<1>6. /\ Plan' = plan
      /\ Kept' = Saved(InstrAt(pc), IndexOf(pc))
      /\ Loads' = ReloadOrder(InstrAt(pc))
  <2>1. /\ \A p : InstrAt(p)' = InstrAt(p) /\ IndexOf(p)' = IndexOf(p)
        /\ \A i : ReloadOrder(i)' = ReloadOrder(i)
        /\ \A i, x : Saved(i, x)' = Saved(i, x) /\ Expansion(i, x)' = Expansion(i, x)
    BY <1>1, RewritingKept
  <2>2. Current' = InstrAt(pc) /\ IndexOf(Here)' = IndexOf(pc)
    BY <1>5, <2>1 DEF Current
  <2> QED
    BY <2>1, <2>2 DEF Plan, Kept, Loads
<1> HIDE DEF plan
<1>7. Done' = 0
  <2>1. Done' = Len(plan) - Len(plan)
    BY <1>1, <1>6 DEF Done
  <2>2. Len(plan) - Len(plan) = 0
    BY <1>4
  <2> QED
    BY <2>1, <2>2
<1>8. /\ Len(Kept') \in Nat /\ Len(Loads') \in Nat
      /\ Before' = Len(Kept') + Len(Loads')
  BY <1>4, <1>6 DEF Before
<1>9. Depth' = 0
  BY <1>7, <1>8 DEF Depth
<1>10. /\ FrameBase' = FrameBase /\ SlotCount' = SlotCount /\ (Accepted' <=> Accepted)
       /\ \A v : SlotOf(v)' = SlotOf(v) /\ Wanted(v)' = Wanted(v)
  BY <1>1, RewritingKept
<1>11. \A v : Home(v)' = Home(v)
  BY <1>1, <1>10 DEF Home
<1>12. HomeAt(Here)'
  BY <1>1, <1>2, <1>5, <1>10, <1>11 DEF HomeAt
<1>13. ReadyToRun'
  <2>1. \A i \in 1..Len(Loads') : ~(i <= 0 - Len(Kept'))
    BY <1>8
  <2> QED
    BY <1>7, <1>12, <2>1 DEF ReadyToRun
<1>14. FrameHolds' /\ OnTheWayHome'
  <2>1. ~(0 > Before')
    BY <1>8
  <2> QED
    BY <1>7, <1>9, <2>1 DEF FrameHolds, OnTheWayHome
<1>15. todo' # <<>> /\ todo' = SubSeq(Plan', Done' + 1, Len(Plan'))
  <2>1. plan # <<>>
    BY <1>4
  <2>2. plan = SubSeq(plan, 0 + 1, Len(plan))
    BY <1>4, SubSeqFull
  <2> QED
    BY <1>1, <1>6, <1>7, <2>1, <2>2
<1>16. sp' = FrameBase' + Depth' /\ Done' \in 0..Len(Plan')
  <2>1. FrameBase \in Nat
    BY <1>2, Layout
  <2>2. sp = FrameBase + 0 /\ 0 \in 0..Len(plan)
    BY <1>2, <1>4, <2>1
  <2> QED
    BY <1>1, <1>6, <1>7, <1>9, <1>10, <2>2
<1>17. Midway'
  BY <1>3, <1>13, <1>14, <1>15, <1>16 DEF Midway
<1>18. CodeTypes'
  BY <1>1, <1>2, <1>3 DEF CodeTypes
<1>19. ForeignKept'
  BY <1>1, <1>2, <1>10 DEF ForeignKept
<1> QED
  BY <1>1, <1>2, <1>10, <1>15, <1>17, <1>18, <1>19
  DEF CodeInv, Untouched, Admitted, AtRest

(* What is wanted in a successor block is wanted at the end of this one.   *)
LEMMA BranchStep ==
  ASSUME CodeInv, Branch
  PROVE  CodeInv'
<1>1. /\ stage = "run" /\ todo = <<>> /\ AtEnd(pc) /\ todo' = todo
      /\ vars' = vars /\ fn' = fn /\ spilled' = spilled /\ assigned' = assigned
      /\ prog' = prog /\ stage' = stage
      /\ regs' = regs /\ memory' = memory /\ sp' = sp /\ defined' = defined
  BY DEF Branch, vars
<1>2. PICK b \in prog.func.succs[pc[1]] : pc' = <<b, 1>>
  BY DEF Branch
<1>3. /\ CodeTypes /\ Accepted /\ sp = FrameBase /\ HomeAt(pc)
      /\ prog \in Programs /\ fn = prog.input /\ pc \in Mir!Places(prog.func)
      /\ defined \subseteq VRegs /\ ForeignKept
  BY <1>1 DEF CodeInv, CodeTypes, Admitted, AtRest
<1>4. /\ FrameBase' = FrameBase /\ SlotCount' = SlotCount /\ (Accepted' <=> Accepted)
      /\ \A v : SlotOf(v)' = SlotOf(v) /\ Wanted(v)' = Wanted(v)
  BY <1>1, RewritingKept
<1>5. \A v : Home(v)' = Home(v)
  BY <1>1, <1>4 DEF Home
<1>6. HomeAt(pc)'
  <2> SUFFICES ASSUME NEW v \in defined, <<b, 1>> \in Wanted(v)
               PROVE  v \in Home(v)
    BY <1>1, <1>2, <1>4, <1>5 DEF HomeAt
  <2>1. pc \in Wanted(v)
    BY <1>1, <1>2, <1>3, WantedShape
  <2> QED
    BY <1>3, <2>1 DEF HomeAt
<1>7. pc' \in Mir!Places(prog.func)
  <2>1. PICK c \in 1..Len(prog.func.code) :
          \E i \in 1..(Len(prog.func.code[c]) + 1) : pc = <<c, i>>
    BY <1>3, PlaceShape
  <2>2. prog.func.succs[c] \subseteq 1..Len(prog.func.code)
    BY <1>3, FunctionShape
  <2>3. b \in 1..Len(prog.func.code) /\ 1 \in 1..(Len(prog.func.code[b]) + 1)
    <3>1. b \in 1..Len(prog.func.code)
      BY <1>2, <2>1, <2>2
    <3>2. Len(prog.func.code[b]) \in Nat
      BY <1>3, <3>1, FunctionShape
    <3> QED
      BY <3>1, <3>2
  <2> QED
    BY <1>2, <1>3, <2>3, PlaceShape
<1>8. CodeTypes'
  BY <1>1, <1>3, <1>7 DEF CodeTypes
<1>9. ForeignKept'
  BY <1>1, <1>3, <1>4 DEF ForeignKept
<1> QED
  BY <1>1, <1>3, <1>4, <1>6, <1>8, <1>9 DEF CodeInv, Untouched, Admitted, AtRest

LEMMA ExitStep ==
  ASSUME CodeInv, Exit
  PROVE  CodeInv'
<1>1. /\ stage = "run" /\ todo = <<>> /\ stage' = "exited"
      /\ vars' = vars /\ fn' = fn /\ spilled' = spilled /\ assigned' = assigned
      /\ prog' = prog /\ pc' = pc /\ todo' = todo
      /\ regs' = regs /\ memory' = memory /\ sp' = sp /\ defined' = defined
  BY DEF Exit, vars, code
<1>2. CodeTypes /\ Accepted /\ sp = FrameBase /\ HomeAt(pc)
  BY <1>1 DEF CodeInv, Admitted, AtRest
<1>3. /\ FrameBase' = FrameBase /\ (Accepted' <=> Accepted)
      /\ \A v : SlotOf(v)' = SlotOf(v) /\ Wanted(v)' = Wanted(v)
  BY <1>1, RewritingKept
<1>4. \A v : Home(v)' = Home(v)
  BY <1>1, <1>3 DEF Home
<1>5. HomeAt(pc)'
  BY <1>1, <1>2, <1>3, <1>4 DEF HomeAt
<1>6. CodeTypes'
  BY <1>1, <1>2 DEF CodeTypes
<1> QED
  BY <1>1, <1>2, <1>3, <1>5, <1>6 DEF CodeInv, Untouched, Admitted, AtRest, ForeignKept

LEMMA StandStill ==
  ASSUME CodeInv, UNCHANGED all
  PROVE  CodeInv'
<1>1. /\ vars' = vars /\ fn' = fn /\ spilled' = spilled /\ assigned' = assigned
      /\ prog' = prog /\ stage' = stage /\ pc' = pc /\ todo' = todo
      /\ regs' = regs /\ memory' = memory /\ sp' = sp /\ defined' = defined
  BY DEF all, code, vars
<1>2. /\ FrameBase' = FrameBase /\ SlotCount' = SlotCount /\ (Accepted' <=> Accepted)
      /\ \A v : SlotOf(v)' = SlotOf(v) /\ Wanted(v)' = Wanted(v)
      /\ \A i, v : RegisterFor(i, v)' = RegisterFor(i, v)
  BY <1>1, RewritingKept
<1>3. \A v : Home(v)' = Home(v)
  BY <1>1, <1>2 DEF Home
<1>4. /\ Here' = Here /\ Current' = Current /\ Plan' = Plan
      /\ Kept' = Kept /\ Loads' = Loads /\ Sent' = Sent /\ Before' = Before
  BY <1>1, PlanKept
<1>5. Done' = Done
  BY <1>1, <1>4 DEF Done
<1>6. Depth' = Depth
  BY <1>4, <1>5 DEF Depth
<1>7. HomeAt(pc)' <=> HomeAt(pc)
  BY <1>1, <1>2, <1>3 DEF HomeAt
<1>8. HomeAt(Here)' <=> HomeAt(Here)
  BY <1>1, <1>2, <1>3, <1>4 DEF HomeAt
<1>9. FrameHolds' <=> FrameHolds
  BY <1>1, <1>2, <1>4, <1>6 DEF FrameHolds
<1>10. ReadyToRun' <=> ReadyToRun
  BY <1>1, <1>4, <1>5, <1>8 DEF ReadyToRun
<1>11. OnTheWayHome' <=> OnTheWayHome
  <2>1. \A v : RegisterFor(Current, v)' = RegisterFor(Current, v)
    BY <1>2, <1>4
  <2> QED
    BY <1>1, <1>2, <1>3, <1>4, <1>5, <1>6, <2>1 DEF OnTheWayHome
<1>12. Midway' <=> Midway
  BY <1>1, <1>2, <1>4, <1>5, <1>6, <1>9, <1>10, <1>11 DEF Midway
<1>13. CodeTypes' <=> CodeTypes
  BY <1>1 DEF CodeTypes
<1>14. AtRest' <=> AtRest
  BY <1>1, <1>2, <1>7 DEF AtRest
<1>15. ForeignKept' <=> ForeignKept
  BY <1>1, <1>2 DEF ForeignKept
<1> QED
  BY <1>1, <1>2, <1>12, <1>13, <1>14, <1>15 DEF CodeInv, Untouched, Admitted

LEMMA CodeStep == Allocated /\ CodeInv /\ [NextCode]_all => CodeInv'
<1> SUFFICES ASSUME Allocated, CodeInv, [NextCode]_all
             PROVE  CodeInv'
  OBVIOUS
<1>1. CASE Allocate
  BY <1>1, AllocateStep
<1>2. CASE Reject
  BY <1>2, RejectStep
<1>3. CASE Begin
  BY <1>3, BeginStep
<1>4. CASE Fetch
  BY <1>4, FetchStep
<1>5. CASE Branch
  BY <1>5, BranchStep
<1>6. CASE Exit
  BY <1>6, ExitStep
<1>7. CASE DoPush
  BY <1>7, PushStep
<1>8. CASE DoPop
  BY <1>8, PopStep
<1>9. CASE DoGet
  BY <1>9, GetStep
<1>10. CASE DoPoke
  BY <1>10, PokeStep
<1>11. CASE DoRun
  BY <1>11, RunStep
<1>12. CASE DoCall
  BY <1>12, CallStep
<1>13. CASE Ended \/ UNCHANGED all
  BY <1>13, StandStill DEF Ended
<1> QED
  BY <1>1, <1>2, <1>3, <1>4, <1>5, <1>6, <1>7, <1>8, <1>9, <1>10, <1>11, <1>12, <1>13
  DEF NextCode

-----------------------------------------------------------------------------
(* Results.                                                                *)

(* The code around Allocate takes none of its variables any other way than *)
(* Allocate does, so what is proved of the allocator holds here: the       *)
(* driver and the generated code behind it are an environment, no more.    *)
THEOREM AllocatorUnchanged == CodeSpec => Spec
<1>1. InitCode => Init
  BY DEF InitCode
<1>2. [NextCode]_all => [Next]_vars
  <2>1. Doing("push") \/ Doing("pop") \/ Doing("get") \/ Doing("poke") \/ Doing("run")
          => UNCHANGED vars
    BY DEF Doing
  <2>2. NextCode => Step \/ UNCHANGED vars
    BY <2>1 DEF NextCode, Allocate, Reject, Begin, Fetch, Branch, Exit,
                DoPush, DoPop, DoGet, DoPoke, DoRun, DoCall, Ended, all
  <2>3. UNCHANGED all => UNCHANGED vars
    BY DEF all
  <2> QED
    BY <2>2, <2>3 DEF Next
<1> QED
  BY <1>1, <1>2, PTL DEF CodeSpec, Spec

(* Wherever the rewritten function is, every value that may still be read  *)
(* is in its register or slot, on its way there, or in the call frame.     *)
THEOREM ValuesKept == CodeSpec => []CodeInv
<1>1. Spec => []Allocated
  BY InductiveInvariant, ScratchIsHeldBack, ScratchAlwaysSuffices, PTL DEF Allocated
<1> QED
  BY <1>1, AllocatorUnchanged, InitRest, CodeStep, PTL DEF CodeSpec

(* Whenever an instruction of an accepted function runs, each register     *)
(* standing for an operand holds that operand's current value: allocation, *)
(* reloads, stores and call frames lose nothing, on any path.              *)
THEOREM EveryOperandHeld == CodeSpec => []OperandsHeld
<1>1. ASSUME Allocated, CodeInv, stage = "run", todo # <<>>, Head(todo).op = "run",
             NEW v \in Mir!Reads(Head(todo).instr) \cap defined
      PROVE  v \in regs[RegisterFor(Head(todo).instr, v)]
  <2>1. Done = Before /\ Head(todo).instr = Current
    BY <1>1, HeadByStep
  <2>2. /\ prog \in Programs /\ fn = prog.input /\ Accepted /\ Midway
        /\ Here \in Mir!Places(prog.func) /\ ~AtEnd(Here)
        /\ Len(Kept) \in Nat /\ Len(Loads) \in Nat /\ Done \in Nat
        /\ Before = Len(Kept) + Len(Loads)
    BY <1>1, MidwayShape DEF Before
  <2>3. v \in VRegs /\ Here \in Wanted(v)
    BY <1>1, <2>1, Surroundings
  <2>4. v \in Home(v)
    BY <1>1, <2>1, <2>2, <2>3 DEF Midway, ReadyToRun, HomeAt
  <2>5. /\ Current.args \in Seq(VRegs) /\ Current.def \subseteq VRegs
        /\ Bare(Current) \in fn.instrs
    BY <2>2, InstrShape DEF Current
  <2>6. CASE v \notin spilled
    <3>1. RegisterFor(Current, v) = assigned[v]
      BY <1>1, <2>2, <2>3, <2>5, <2>6, OperandRegisters
    <3> QED
      BY <2>1, <2>4, <2>6, <3>1 DEF Home
  <2>7. CASE v \in spilled
    <3>1. PICK i \in 1..Len(Loads) : Loads[i] = v
      BY <1>1, <2>1, <2>2, <2>5, <2>7, LoadsShape DEF Loads
    <3>2. RegisterFor(Current, v) = fn.scratch[i]
      BY <1>1, <2>2, <2>5, <3>1, OperandRegisters DEF Loads
    <3>3. i <= Done - Len(Kept)
      BY <2>1, <2>2
    <3>4. Done <= Before
      BY <2>1, <2>2
    <3>5. Loads[i] \in regs[fn.scratch[i]]
      BY <1>1, <2>2, <3>1, <3>3, <3>4 DEF Midway, ReadyToRun
    <3> QED
      BY <2>1, <3>1, <3>2, <3>5
  <2> QED
    BY <2>6, <2>7
<1>2. Allocated /\ CodeInv => OperandsHeld
  BY <1>1 DEF OperandsHeld
<1>3. Spec => []Allocated
  BY InductiveInvariant, ScratchIsHeldBack, ScratchAlwaysSuffices, PTL DEF Allocated
<1> QED
  BY <1>2, <1>3, AllocatorUnchanged, ValuesKept, PTL

(* Between two instructions and on exit the stack pointer is where it was  *)
(* on entry, and an accepted function's pushes stay inside the memory      *)
(* array: frames.Measure's bound is enough.                                *)
THEOREM FramesAlwaysKept == CodeSpec => []FramesKept
<1>1. CodeInv => FrameBalanced
  BY DEF CodeInv, AtRest, FrameBalanced
<1>2. ASSUME Allocated, CodeInv, stage = "run", todo # <<>>, Head(todo).op = "push"
      PROVE  sp \in Cells
  <2>1. Done < Len(Kept)
    BY <1>2, HeadByStep
  <2>2. /\ prog \in Programs /\ fn = prog.input /\ Accepted /\ Midway
        /\ Here \in Mir!Places(prog.func) /\ ~AtEnd(Here)
        /\ Len(Kept) \in Nat /\ Done \in Nat
    BY <1>2, MidwayShape
  <2>3. sp = FrameBase + Done
    BY <2>1, <2>2 DEF Midway, Depth
  <2>4. /\ FrameBase \in Nat /\ FrameBase + Len(Kept) <= NumMemorySlots
        /\ NumMemorySlots \in Nat
    BY <1>2, <2>2, Layout, ConstantsAssumption DEF Kept, Current
  <2> QED
    BY <2>1, <2>2, <2>3, <2>4 DEF Cells
<1>3. Allocated /\ CodeInv => FramesKept
  BY <1>1, <1>2 DEF FramesKept, PushesFit
<1>4. Spec => []Allocated
  BY InductiveInvariant, ScratchIsHeldBack, ScratchAlwaysSuffices, PTL DEF Allocated
<1> QED
  BY <1>3, <1>4, AllocatorUnchanged, ValuesKept, PTL

(* Globals, other functions' spill slots and callers' frames are never     *)
(* written by the spill and frame code.                                    *)
THEOREM ForeignMemoryKept == CodeSpec => []ForeignKept
<1>1. CodeInv => ForeignKept
  BY DEF CodeInv
<1> QED
  BY <1>1, ValuesKept, PTL
=============================================================================
