--------------------------- MODULE LivenessProofs ---------------------------
(***************************************************************************)
(* Proof that the passes of computeLiveness stop at a solution of the      *)
(* dataflow equations, for every function, and that the walk builds from   *)
(* it exactly the intervals the registers need.  The pass only remembers   *)
(* that something changed, so its invariant says what an unchanged pass    *)
(* has established about the blocks behind it.  The walk's invariant says  *)
(* which points the ranges built so far hold: all those behind it and, for *)
(* a register wanted where it stands, the whole block in front of it.      *)
(***************************************************************************)
EXTENDS Liveness, MirFuncProofs

BlockSets ==
  /\ DOMAIN in = Blocks(fn)
  /\ DOMAIN out = Blocks(fn)

(* Nothing is in a set without a reason: the sets never overshoot.         *)
Justified ==
  \A b \in Blocks(fn) :
    /\ out[b] \subseteq UNION {in[s] : s \in fn.succs[b]}
    /\ in[b] \subseteq (out[b] \ Killed(b)) \cup Upward(b)

PassSoFar ==
  phase = "sweep" /\ ~changed => \A b \in Blocks(fn) : b > at => Equations(b)

SweepInv ==
  /\ fn \in Funcs
  /\ at \in 0..Last
  /\ phase = "walk" => at > 0
  /\ changed \in BOOLEAN
  /\ BlockSets
  /\ Justified
  /\ PassSoFar
  /\ FixedPoint

(* Blocks are numbered from 1 to the length of the function, and no edge   *)
(* leaves it.                                                              *)
LEMMA BlockNumbers ==
  ASSUME fn \in Funcs
  PROVE  /\ Last \in Nat
         /\ Blocks(fn) = 1..Last
         /\ \A b \in Blocks(fn) : fn.succs[b] \subseteq Blocks(fn)
BY FuncsAssumption DEF MirFuncs, EdgesInside, Blocks, Last

LEMMA SweepInit == ASSUME Init PROVE SweepInv
<1>1. BlockSets
  BY DEF Init, BlockSets
<1>2. Justified
  BY DEF Init, Justified
<1>3. PassSoFar
  BY BlockNumbers DEF Init, PassSoFar
<1>4. FixedPoint
  BY DEF Init, FixedPoint
<1>5. fn \in Funcs /\ at \in 0..Last /\ phase # "walk"
  BY BlockNumbers DEF Init
<1>6. changed \in BOOLEAN
  BY DEF Init
<1> QED
  BY <1>1, <1>2, <1>3, <1>4, <1>5, <1>6 DEF SweepInv

(* A visit to one block keeps every other block's sets, only grows its own *)
(* and, when it adds nothing, has found that block's equations to hold.    *)
LEMMA VisitKeepsSweepInv ==
  ASSUME SweepInv, SweepBlock
  PROVE  SweepInv'
<1> USE DEF SweepInv
<1>1. /\ at \in Blocks(fn)
      /\ fn' = fn
      /\ Blocks(fn)' = Blocks(fn)
      /\ \A b \in Blocks(fn) : fn.succs[b] \subseteq Blocks(fn)
      /\ Last' = Last
      /\ (at - 1) \in 0..Last
  BY BlockNumbers DEF SweepBlock, Blocks, Last
<1>2. /\ DOMAIN in' = Blocks(fn)
      /\ DOMAIN out' = Blocks(fn)
      /\ \A b \in Blocks(fn) : b # at => in'[b] = in[b] /\ out'[b] = out[b]
      /\ out'[at] = out[at] \cup UNION {in[s] : s \in fn.succs[at]}
      /\ in'[at] = in[at] \cup (out'[at] \ Killed(at)) \cup Upward(at)
  BY <1>1 DEF SweepBlock, BlockSets
<1>3. \A b \in Blocks(fn) : in[b] \subseteq in'[b] /\ out[b] \subseteq out'[b]
  BY <1>1, <1>2
<1>4. \A b : Killed(b)' = Killed(b) /\ Upward(b)' = Upward(b)
  BY <1>1 DEF Killed, Upward
<1>5. Justified'
  <2> SUFFICES ASSUME NEW b \in Blocks(fn)
               PROVE  /\ out'[b] \subseteq UNION {in'[s] : s \in fn.succs[b]}
                      /\ in'[b] \subseteq (out'[b] \ Killed(b)) \cup Upward(b)
    BY <1>1, <1>4 DEF Justified
  <2>1. UNION {in[s] : s \in fn.succs[b]} \subseteq UNION {in'[s] : s \in fn.succs[b]}
    BY <1>1, <1>3
  <2>2. /\ out[b] \subseteq UNION {in[s] : s \in fn.succs[b]}
        /\ in[b] \subseteq (out[b] \ Killed(b)) \cup Upward(b)
    BY DEF Justified
  <2>3. out'[b] \subseteq UNION {in[s] : s \in fn.succs[b]}
    BY <1>2, <2>2
  <2>4. in'[b] \subseteq (out'[b] \ Killed(b)) \cup Upward(b)
    BY <1>2, <1>3, <2>2
  <2> QED
    BY <2>1, <2>3, <2>4
<1>6. PassSoFar'
  <2> SUFFICES ASSUME ~changed', NEW b \in Blocks(fn), b > at'
               PROVE  Equations(b)'
    BY <1>1 DEF PassSoFar
  <2>1. in' = in /\ out' = out /\ ~changed /\ at' = at - 1 /\ phase = "sweep"
    BY DEF SweepBlock
  <2>2. CASE b = at
    <3>1. out[b] = UNION {in[s] : s \in fn.succs[b]}
      BY <1>2, <2>1, <2>2 DEF Justified
    <3>2. in[b] = (out[b] \ Killed(b)) \cup Upward(b)
      BY <1>2, <2>1, <2>2 DEF Justified
    <3> QED
      BY <1>1, <1>4, <2>1, <3>1, <3>2 DEF Equations
  <2>3. CASE b # at
    <3>1. b > at
      BY <1>1, <2>1, <2>3, BlockNumbers
    <3>2. Equations(b)
      BY <2>1, <3>1 DEF PassSoFar
    <3> QED
      BY <1>1, <1>4, <2>1, <3>2 DEF Equations
  <2> QED
    BY <2>2, <2>3
<1>7. FixedPoint'
  BY DEF SweepBlock, FixedPoint
<1>8. BlockSets' /\ changed' \in BOOLEAN
  BY <1>1, <1>2 DEF BlockSets, SweepBlock
<1> QED
  BY <1>1, <1>5, <1>6, <1>7, <1>8 DEF SweepBlock

(* Nothing else touches the sets; the passes end only behind block 1.      *)
LEMMA NextKeepsSweepInv ==
  ASSUME SweepInv, [Next]_vars
  PROVE  SweepInv'
<1>1. CASE SweepBlock
  BY <1>1, VisitKeepsSweepInv
<1> SUFFICES ASSUME ~SweepBlock PROVE SweepInv'
  BY <1>1
<1>2. fn' = fn /\ in' = in /\ out' = out
  BY DEF Next, Step, vars, AnotherPass, Settled, OpenBlock, WalkInstr, CloseBlock, Finish,
         Terminated
<1>3. /\ Blocks(fn)' = Blocks(fn)
      /\ Last' = Last
      /\ \A b : Equations(b)' <=> Equations(b)
      /\ Justified' <=> Justified
      /\ BlockSets' <=> BlockSets
  BY <1>2 DEF Blocks, Last, Equations, Justified, Killed, Upward, BlockSets
<1>4. Last \in Nat /\ Blocks(fn) = 1..Last
  BY BlockNumbers DEF SweepInv
<1> SUFFICES /\ at' \in 0..Last
             /\ phase' = "walk" => at' > 0
             /\ changed' \in BOOLEAN
             /\ PassSoFar'
             /\ FixedPoint'
  BY <1>2, <1>3 DEF SweepInv
<1>5. CASE AnotherPass
  <2>1. at' \in 0..Last /\ phase' = "sweep" /\ at' = Last
    BY <1>4, <1>5 DEF AnotherPass
  <2>2. changed' \in BOOLEAN
    BY <1>5 DEF AnotherPass
  <2>3. PassSoFar'
    BY <1>3, <1>4, <2>1 DEF PassSoFar
  <2> QED
    BY <2>1, <2>2, <2>3 DEF FixedPoint
<1>6. CASE Settled
  <2>1. \A b \in Blocks(fn) : Equations(b)
    BY <1>4, <1>6 DEF Settled, SweepInv, PassSoFar
  <2> QED
    BY <1>3, <1>4, <1>6, <2>1 DEF Settled, SweepInv, PassSoFar, FixedPoint
<1>7. CASE OpenBlock \/ WalkInstr \/ CloseBlock \/ Finish
  <2>1. phase # "sweep" /\ phase' # "sweep"
    BY <1>7 DEF OpenBlock, WalkInstr, CloseBlock, Finish
  <2>2. at' \in 0..Last /\ (phase' = "walk" => at' > 0)
    <3>1. CASE OpenBlock \/ WalkInstr \/ Finish
      BY <3>1 DEF OpenBlock, WalkInstr, Finish, SweepInv
    <3>2. CASE CloseBlock
      <4>1. at \in 0..Last /\ at > 0 /\ at' = at - 1 /\ phase' = "open"
        BY <3>2 DEF CloseBlock, SweepInv
      <4> QED
        BY <1>4, <4>1
    <3> QED
      BY <1>7, <3>1, <3>2
  <2>3. changed' \in BOOLEAN
    BY <1>7 DEF OpenBlock, WalkInstr, CloseBlock, Finish, SweepInv
  <2> QED
    BY <1>3, <2>1, <2>2, <2>3 DEF SweepInv, PassSoFar, FixedPoint
<1>8. CASE Terminated \/ UNCHANGED vars
  <2>1. phase' = phase /\ changed' = changed /\ at' = at
    BY <1>8 DEF Terminated, vars
  <2> QED
    BY <1>3, <2>1 DEF SweepInv, PassSoFar, FixedPoint
<1> QED
  BY <1>5, <1>6, <1>7, <1>8 DEF Next, Step

(* The sets of every reachable state are justified, and an unchanged pass  *)
(* has established the equations of the blocks behind it.                  *)
THEOREM SweepInvariant == Spec => []SweepInv
<1>1. Init => SweepInv
  BY SweepInit
<1>2. SweepInv /\ [Next]_vars => SweepInv'
  BY NextKeepsSweepInv
<1> QED
  BY <1>1, <1>2, PTL DEF Spec

(* When the builder leaves the passes, block liveness solves the dataflow  *)
(* equations on every edge, back edges included (computeLiveness).         *)
THEOREM LivenessIsAFixedPoint == Spec => []FixedPoint
<1>1. SweepInv => FixedPoint
  BY DEF SweepInv
<1> QED
  BY <1>1, SweepInvariant, PTL

-----------------------------------------------------------------------------
(* Range lists                                                             *)

(* Sorted, disjoint and never adjacent.                                    *)
WellFormed(rs) ==
  /\ rs \in Ranges
  /\ \A i \in DOMAIN rs : rs[i].from < rs[i].to
  /\ \A i, j \in DOMAIN rs : i < j => rs[i].to < rs[j].from

LEMMA RangeTypes ==
  ASSUME NEW rs, WellFormed(rs)
  PROVE  /\ rs \in Seq(LiveRange) /\ Len(rs) \in Nat /\ DOMAIN rs = 1..Len(rs)
         /\ \A i \in 1..Len(rs) : /\ rs[i] \in LiveRange
                                 /\ rs[i].from \in Nat /\ rs[i].to \in Nat
                                 /\ rs[i].from < rs[i].to
         /\ \A i, j \in 1..Len(rs) : i < j => rs[i].to < rs[j].from
<1>1. rs \in Seq(LiveRange) /\ Len(rs) \in Nat /\ DOMAIN rs = 1..Len(rs)
  BY DEF WellFormed, Ranges
<1>2. \A i \in 1..Len(rs) : rs[i] \in LiveRange
  BY <1>1
<1>3. \A i \in 1..Len(rs) : rs[i].from \in Nat /\ rs[i].to \in Nat
  BY <1>2 DEF LiveRange
<1> QED
  BY <1>1, <1>2, <1>3 DEF WellFormed

(* The first range holds the least point and ends at none.                 *)
LEMMA FirstRange ==
  ASSUME NEW rs, WellFormed(rs), rs # <<>>
  PROVE  /\ Len(rs) \in Nat /\ Len(rs) > 0 /\ DOMAIN rs = 1..Len(rs)
         /\ Head(rs) = rs[1]
         /\ rs[1].from \in Nat /\ rs[1].to \in Nat /\ rs[1].from < rs[1].to
         /\ Points(rs) \in SUBSET Nat
         /\ \A p \in Points(rs) : rs[1].from <= p
         /\ \A p \in Nat : rs[1].from <= p /\ p < rs[1].to => p \in Points(rs)
         /\ rs[1].to \notin Points(rs)
<1>1. rs \in Seq(LiveRange) /\ DOMAIN rs = 1..Len(rs) /\ Len(rs) \in Nat /\ Len(rs) > 0
      /\ Head(rs) = rs[1]
  BY DEF WellFormed, Ranges
<1>2. \A i \in 1..Len(rs) : rs[i].from \in Nat /\ rs[i].to \in Nat /\ rs[i].from < rs[i].to
  BY RangeTypes
<1>3. \A p : p \in Points(rs) <=>
        \E i \in 1..Len(rs) : p \in Nat /\ rs[i].from <= p /\ p < rs[i].to
  BY <1>1, <1>2 DEF Points, RangePoints
<1>4. \A i \in 1..Len(rs) : i # 1 => rs[1].to < rs[i].from
  BY <1>1 DEF WellFormed
<1>5. 1 \in 1..Len(rs)
  BY <1>1
<1>6. ASSUME NEW p \in Points(rs) PROVE p \in Nat /\ rs[1].from <= p /\ p # rs[1].to
  <2>1. PICK i \in 1..Len(rs) : p \in Nat /\ rs[i].from <= p /\ p < rs[i].to
    BY <1>3
  <2>2. CASE i = 1
    BY <1>2, <2>1, <2>2
  <2>3. CASE i # 1
    <3>1. rs[1].from < rs[1].to /\ rs[1].to < rs[i].from /\ rs[i].from <= p
      BY <1>2, <1>4, <1>5, <2>1, <2>3
    <3>2. rs[1].from \in Nat /\ rs[1].to \in Nat /\ rs[i].from \in Nat /\ p \in Nat
      BY <1>2, <1>5, <2>1
    <3> QED
      BY <3>1, <3>2
  <2> QED
    BY <2>2, <2>3
<1>7. Points(rs) \in SUBSET Nat /\ rs[1].to \notin Points(rs)
  BY <1>6
<1>8. \A p \in Nat : rs[1].from <= p /\ p < rs[1].to => p \in Points(rs)
  BY <1>3, <1>5
<1> QED
  BY <1>1, <1>2, <1>5, <1>6, <1>7, <1>8

LEMMA PointsOf ==
  ASSUME NEW rs, WellFormed(rs), NEW p
  PROVE  p \in Points(rs) <=>
           \E i \in 1..Len(rs) : p \in Nat /\ rs[i].from <= p /\ p < rs[i].to
<1>1. rs \in Seq(LiveRange) /\ DOMAIN rs = 1..Len(rs)
  BY DEF WellFormed, Ranges
<1>2. \A i \in 1..Len(rs) : rs[i].from \in Nat /\ rs[i].to \in Nat /\ rs[i].from < rs[i].to
  BY RangeTypes
<1> QED
  BY <1>1, <1>2 DEF Points, RangePoints

(* A list with another first range, that ends before the second begins.    *)
LEMMA FirstReplaced ==
  ASSUME NEW rs, WellFormed(rs), rs # <<>>, NEW a \in Nat, NEW b \in Nat, a < b,
         \A i \in DOMAIN rs : i # 1 => b < rs[i].from,
         NEW t, t = [i \in DOMAIN rs |-> IF i = 1 THEN [from |-> a, to |-> b] ELSE rs[i]]
  PROVE  /\ WellFormed(t)
         /\ \A p : p \in Points(t) <=>
              \/ p \in Nat /\ a <= p /\ p < b
              \/ p \in Points(rs) /\ p >= rs[1].to
<1>1. /\ Len(rs) \in Nat /\ Len(rs) > 0 /\ DOMAIN rs = 1..Len(rs)
      /\ rs[1].from \in Nat /\ rs[1].to \in Nat /\ rs[1].from < rs[1].to
      /\ Points(rs) \in SUBSET Nat
  BY FirstRange
<1>2. \A i \in DOMAIN rs : /\ rs[i] \in LiveRange
                           /\ rs[i].from \in Nat /\ rs[i].to \in Nat /\ rs[i].from < rs[i].to
                           /\ i # 1 => rs[1].to < rs[i].from
  BY <1>1, RangeTypes
<1>3. \A i \in DOMAIN rs : t[i] \in LiveRange
  BY <1>2 DEF LiveRange
<1>4. t \in Seq(LiveRange) /\ DOMAIN t = DOMAIN rs /\ Len(t) = Len(rs)
  BY <1>1, <1>3
<1>5. t[1] = [from |-> a, to |-> b] /\ \A i \in DOMAIN rs : i # 1 => t[i] = rs[i]
  BY <1>1
<1>6. WellFormed(t)
  <2>1. \A i \in DOMAIN t : t[i].from < t[i].to
    BY <1>2, <1>4, <1>5
  <2>2. ASSUME NEW i \in DOMAIN t, NEW j \in DOMAIN t, i < j PROVE t[i].to < t[j].from
    <3>1. j # 1 /\ t[j] = rs[j]
      BY <1>1, <1>4, <1>5, <2>2
    <3>2. CASE i = 1
      BY <1>4, <1>5, <3>1, <3>2
    <3>3. CASE i # 1
      BY <1>4, <1>5, <2>2, <3>1, <3>3 DEF WellFormed
    <3> QED
      BY <3>2, <3>3
  <2> QED
    BY <1>4, <2>1, <2>2 DEF WellFormed, Ranges
<1>7. ASSUME NEW p
      PROVE  p \in Points(t) <=> \/ p \in Nat /\ a <= p /\ p < b
                                 \/ p \in Points(rs) /\ p >= rs[1].to
  <2>1. p \in Points(t) <=> \E i \in 1..Len(rs) : p \in Nat /\ t[i].from <= p /\ p < t[i].to
    BY <1>4, <1>6, PointsOf
  <2>2. p \in Points(rs) <=> \E i \in 1..Len(rs) : p \in Nat /\ rs[i].from <= p /\ p < rs[i].to
    BY PointsOf
  <2>3. 1 \in 1..Len(rs) /\ t[1].from = a /\ t[1].to = b
    BY <1>1, <1>5
  <2> HIDE DEF WellFormed
  <2>4. ASSUME p \in Points(t) PROVE \/ p \in Nat /\ a <= p /\ p < b
                                     \/ p \in Points(rs) /\ p >= rs[1].to
    <3>1. PICK i \in 1..Len(rs) : p \in Nat /\ t[i].from <= p /\ p < t[i].to
      BY <2>1, <2>4
    <3>2. CASE i = 1
      BY <2>3, <3>1, <3>2
    <3>3. CASE i # 1
      <4>1. t[i] = rs[i] /\ rs[1].to < rs[i].from /\ rs[i].from \in Nat
        BY <1>1, <1>2, <1>5, <3>3
      <4> QED
        BY <1>1, <2>2, <3>1, <4>1
    <3> QED
      BY <3>2, <3>3
  <2>5. ASSUME p \in Points(rs), p >= rs[1].to PROVE p \in Points(t)
    <3>1. PICK i \in 1..Len(rs) : p \in Nat /\ rs[i].from <= p /\ p < rs[i].to
      BY <2>2, <2>5
    <3>2. i # 1
      BY <1>1, <2>5, <3>1
    <3> QED
      BY <1>1, <1>5, <2>1, <3>1, <3>2
  <2> QED
    BY <2>1, <2>3, <2>4, <2>5
<1> QED
  BY <1>6, <1>7

(* A list with another range in front of it.                               *)
LEMMA FrontAdded ==
  ASSUME NEW rs, WellFormed(rs), NEW a \in Nat, NEW b \in Nat, a < b,
         \A i \in DOMAIN rs : b < rs[i].from
  PROVE  /\ WellFormed(<<[from |-> a, to |-> b]>> \o rs)
         /\ \A p : p \in Points(<<[from |-> a, to |-> b]>> \o rs) <=>
              (p \in Nat /\ a <= p /\ p < b) \/ p \in Points(rs)
<1> DEFINE r == [from |-> a, to |-> b]
           t == <<r>> \o rs
<1>1. /\ rs \in Seq(LiveRange) /\ Len(rs) \in Nat /\ DOMAIN rs = 1..Len(rs)
      /\ r \in LiveRange /\ r.from = a /\ r.to = b
  BY DEF WellFormed, Ranges, LiveRange
<1>2. /\ t \in Seq(LiveRange) /\ Len(t) = Len(rs) + 1 /\ DOMAIN t = 1..(Len(rs) + 1)
      /\ t[1] = r
      /\ \A i \in 1..Len(rs) : t[i + 1] = rs[i]
  BY <1>1
<1> HIDE DEF r, t
<1>3. \A i \in 2..(Len(rs) + 1) : i - 1 \in 1..Len(rs) /\ t[i] = rs[i - 1]
  <2> SUFFICES ASSUME NEW i \in 2..(Len(rs) + 1)
               PROVE  i - 1 \in 1..Len(rs) /\ t[i] = rs[i - 1]
    OBVIOUS
  <2>1. i - 1 \in 1..Len(rs) /\ (i - 1) + 1 = i
    BY <1>1
  <2> QED
    BY <1>2, <2>1
<1>4. \A i \in 1..Len(rs) : rs[i].from < rs[i].to /\ b < rs[i].from
  BY <1>1 DEF WellFormed
<1>5. \A i \in DOMAIN t : i = 1 \/ i \in 2..(Len(rs) + 1)
  BY <1>1, <1>2
<1>6. WellFormed(t)
  <2>1. \A i \in DOMAIN t : t[i].from < t[i].to
    BY <1>1, <1>2, <1>3, <1>4, <1>5
  <2>2. ASSUME NEW i \in DOMAIN t, NEW j \in DOMAIN t, i < j PROVE t[i].to < t[j].from
    <3>1. j \in 2..(Len(rs) + 1) /\ j - 1 \in 1..Len(rs) /\ t[j] = rs[j - 1]
      BY <1>1, <1>2, <1>3, <2>2
    <3>2. CASE i = 1
      BY <1>1, <1>2, <1>4, <3>1, <3>2
    <3>3. CASE i # 1
      <4>1. i - 1 \in 1..Len(rs) /\ t[i] = rs[i - 1] /\ i - 1 < j - 1
        BY <1>1, <1>2, <1>3, <1>5, <2>2, <3>1, <3>3
      <4> QED
        BY <1>1, <3>1, <4>1 DEF WellFormed
    <3> QED
      BY <3>2, <3>3
  <2> QED
    BY <1>2, <2>1, <2>2 DEF WellFormed, Ranges
<1>7. ASSUME NEW p
      PROVE  p \in Points(t) <=> (p \in Nat /\ a <= p /\ p < b) \/ p \in Points(rs)
  <2>1. p \in Points(t) <=> \E i \in 1..(Len(rs) + 1) : p \in Nat /\ t[i].from <= p /\ p < t[i].to
    BY <1>2, <1>6, PointsOf
  <2>2. p \in Points(rs) <=> \E i \in 1..Len(rs) : p \in Nat /\ rs[i].from <= p /\ p < rs[i].to
    BY PointsOf
  <2>3. ASSUME p \in Points(t) PROVE (p \in Nat /\ a <= p /\ p < b) \/ p \in Points(rs)
    <3>1. PICK i \in 1..(Len(rs) + 1) : p \in Nat /\ t[i].from <= p /\ p < t[i].to
      BY <2>1, <2>3
    <3>2. i = 1 \/ (i - 1 \in 1..Len(rs) /\ t[i] = rs[i - 1])
      BY <1>1, <1>3
    <3> QED
      BY <1>1, <1>2, <2>2, <3>1, <3>2
  <2>4. ASSUME p \in Points(rs) PROVE p \in Points(t)
    <3>1. PICK i \in 1..Len(rs) : p \in Nat /\ rs[i].from <= p /\ p < rs[i].to
      BY <2>2, <2>4
    <3>2. i + 1 \in 1..(Len(rs) + 1) /\ t[i + 1] = rs[i]
      BY <1>1, <1>2
    <3> QED
      BY <2>1, <3>1, <3>2
  <2>5. 1 \in 1..(Len(rs) + 1)
    BY <1>1
  <2> QED
    BY <1>1, <1>2, <2>1, <2>3, <2>4, <2>5
<1> QED
  BY <1>6, <1>7 DEF t, r

(* Adding a range in front of, or growing, the first one adds its points:  *)
(* when no point of the list below the range's end has a gap after it.     *)
LEMMA AddedRange ==
  ASSUME NEW rs, WellFormed(rs), NEW from \in Nat, NEW to \in Nat,
         \A p \in Points(rs) : p + 1 < to => p + 1 \in Points(rs)
  PROVE  /\ WellFormed(AddRange(rs, from, to))
         /\ \A p : p \in Points(AddRange(rs, from, to)) <=>
              p \in Points(rs) \/ (p \in Nat /\ from <= p /\ p < to)
<1> DEFINE t == AddRange(rs, from, to)
<1>1. CASE to <= from
  BY <1>1 DEF AddRange
<1>2. CASE from < to /\ rs = <<>>
  <2>1. t = <<[from |-> from, to |-> to]>> \o rs
    BY <1>2 DEF AddRange
  <2>2. \A i \in DOMAIN rs : to < rs[i].from
    BY <1>2
  <2> HIDE DEF t
  <2> QED
    BY <1>2, <2>1, <2>2, FrontAdded DEF t
<1>3. CASE from < to /\ rs # <<>> /\ to < Head(rs).from
  <2>1. t = <<[from |-> from, to |-> to]>> \o rs
    BY <1>3, FirstRange DEF AddRange
  <2>2. \A i \in DOMAIN rs : to < rs[i].from
    <3>1. 1 \in 1..Len(rs) /\ Head(rs) = rs[1]
      BY <1>3, FirstRange
    <3>2. ASSUME NEW i \in 1..Len(rs) PROVE rs[1].from <= rs[i].from
      <4>1. rs[1].from \in Nat /\ rs[1].to \in Nat /\ rs[i].from \in Nat /\ rs[1].from < rs[1].to
        BY <3>1, RangeTypes
      <4>2. i # 1 => rs[1].to < rs[i].from
        BY <3>1, RangeTypes
      <4> QED
        BY <4>1, <4>2
    <3>3. \A i \in 1..Len(rs) : rs[i].from \in Nat
      BY RangeTypes
    <3>4. DOMAIN rs = 1..Len(rs)
      BY RangeTypes
    <3> QED
      BY <1>3, <3>1, <3>2, <3>3, <3>4
  <2> HIDE DEF t
  <2> QED
    BY <1>3, <2>1, <2>2, FrontAdded DEF t
<1>4. CASE from < to /\ rs # <<>> /\ Head(rs).from <= to
  <2> DEFINE h == rs[1]
             a == IF from < h.from THEN from ELSE h.from
  <2>1. /\ Len(rs) \in Nat /\ Len(rs) > 0 /\ DOMAIN rs = 1..Len(rs)
        /\ Head(rs) = h
        /\ h.from \in Nat /\ h.to \in Nat /\ h.from < h.to
        /\ Points(rs) \in SUBSET Nat
        /\ \A p \in Points(rs) : h.from <= p
        /\ \A p \in Nat : h.from <= p /\ p < h.to => p \in Points(rs)
        /\ h.to \notin Points(rs)
    BY <1>4, FirstRange
  <2>2. to <= h.to
    <3> SUFFICES ASSUME h.to < to PROVE FALSE
      BY <2>1
    <3>1. h.to - 1 \in Nat /\ h.from <= h.to - 1 /\ h.to - 1 < h.to
      BY <2>1
    <3>2. h.to - 1 \in Points(rs) /\ (h.to - 1) + 1 = h.to
      BY <2>1, <3>1
    <3> QED
      BY <2>1, <3>2
  <2>3. a \in Nat /\ a <= h.from /\ a <= from /\ (a = from \/ a = h.from) /\ a < h.to
    BY <2>1, <2>2, <1>4
  <2>4. t = [i \in DOMAIN rs |-> IF i = 1 THEN [from |-> a, to |-> h.to] ELSE rs[i]]
    <3> DEFINE r == [from |-> a, to |-> h.to]
    <3>1. t = <<r>> \o Tail(rs)
      <4>1. (IF to > h.to THEN to ELSE h.to) = h.to
        BY <2>1, <2>2
      <4>2. ~(to <= from) /\ to >= Head(rs).from
        BY <1>4, <2>1
      <4> QED
        BY <1>4, <2>1, <4>1, <4>2 DEF AddRange
    <3> HIDE DEF r, t, a, h
    <3>2. /\ rs \in Seq(LiveRange)
          /\ Tail(rs) \in Seq(LiveRange) /\ Len(Tail(rs)) = Len(rs) - 1
          /\ \A i \in 1..(Len(rs) - 1) : Tail(rs)[i] = rs[i + 1]
      BY <1>4, RangeTypes
    <3>3. <<r>> \in Seq({r}) /\ Len(<<r>>) = 1 /\ <<r>>[1] = r
      OBVIOUS
    <3>4. /\ DOMAIN (<<r>> \o Tail(rs)) = 1..Len(rs)
          /\ (<<r>> \o Tail(rs)) =
               [i \in 1..Len(rs) |-> IF i <= 1 THEN <<r>>[i] ELSE Tail(rs)[i - 1]]
      BY <2>1, <3>2, <3>3
    <3>5. \A i \in 1..Len(rs) : (IF i <= 1 THEN <<r>>[i] ELSE Tail(rs)[i - 1])
                                   = IF i = 1 THEN r ELSE rs[i]
      <4> SUFFICES ASSUME NEW i \in 1..Len(rs)
                   PROVE (IF i <= 1 THEN <<r>>[i] ELSE Tail(rs)[i - 1])
                                   = IF i = 1 THEN r ELSE rs[i]
        OBVIOUS
      <4>1. CASE i = 1
        BY <4>1, <3>3
      <4>2. CASE i # 1
        <5>1. i - 1 \in 1..(Len(rs) - 1) /\ (i - 1) + 1 = i /\ ~(i <= 1)
          BY <2>1, <4>2
        <5> QED
          BY <3>2, <4>2, <5>1
      <4> QED
        BY <4>1, <4>2
    <3>6. (<<r>> \o Tail(rs)) = [i \in 1..Len(rs) |-> IF i = 1 THEN r ELSE rs[i]]
      BY <3>4, <3>5
    <3> QED
      BY <2>1, <3>1, <3>6 DEF r
  <2>5. \A i \in DOMAIN rs : i # 1 => h.to < rs[i].from
    <3>1. 1 \in 1..Len(rs) /\ DOMAIN rs = 1..Len(rs) /\ \A i \in 1..Len(rs) : i # 1 => 1 < i
      BY <2>1
    <3> QED
      BY <3>1, RangeTypes
  <2>6. /\ WellFormed(t)
        /\ \A p : p \in Points(t) <=> \/ p \in Nat /\ a <= p /\ p < h.to
                                      \/ p \in Points(rs) /\ p >= h.to
    <3> DEFINE b == h.to
    <3>1. /\ b = rs[1].to /\ b \in Nat /\ a \in Nat /\ a < b /\ rs # <<>>
          /\ \A i \in DOMAIN rs : i # 1 => b < rs[i].from
          /\ t = [i \in DOMAIN rs |-> IF i = 1 THEN [from |-> a, to |-> b] ELSE rs[i]]
      BY <1>4, <2>1, <2>3, <2>4, <2>5
    <3> HIDE DEF t, a, b, h
    <3>2. /\ WellFormed(t)
          /\ \A p : p \in Points(t) <=> \/ p \in Nat /\ a <= p /\ p < b
                                        \/ p \in Points(rs) /\ p >= rs[1].to
      BY <3>1, FirstReplaced
    <3> QED
      BY <3>2 DEF b, h
  <2> HIDE DEF t, a, h
  <2>7. ASSUME NEW p
        PROVE  p \in Points(t) <=> p \in Points(rs) \/ (p \in Nat /\ from <= p /\ p < to)
    <3>1. p \in Points(rs) => p \in Nat /\ a <= p
      BY <2>1, <2>3
    <3>2. CASE p \in Nat
      BY <1>4, <2>1, <2>2, <2>3, <2>6, <3>2
    <3> QED
      BY <2>1, <2>6, <3>2
  <2> QED
    BY <2>6, <2>7 DEF t
<1>5. Head(rs).from \in Nat \/ rs = <<>>
  BY FirstRange
<1> QED
  BY <1>1, <1>2, <1>3, <1>4, <1>5

(* Moving the start of the first range to one of its points drops those    *)
(* before it.                                                              *)
LEMMA StartMoved ==
  ASSUME NEW rs, WellFormed(rs), NEW point \in Points(rs),
         \A p \in Points(rs) : p < point => p + 1 \in Points(rs)
  PROVE  /\ WellFormed(SetFrom(rs, point))
         /\ \A p : p \in Points(SetFrom(rs, point)) <=> p \in Points(rs) /\ p >= point
<1>1. rs # <<>>
  BY DEF Points
<1> DEFINE h == rs[1]
           t == SetFrom(rs, point)
<1>2. /\ Len(rs) \in Nat /\ Len(rs) > 0 /\ DOMAIN rs = 1..Len(rs)
      /\ h.from \in Nat /\ h.to \in Nat /\ h.from < h.to
      /\ Points(rs) \in SUBSET Nat
      /\ \A p \in Points(rs) : h.from <= p
      /\ \A p \in Nat : h.from <= p /\ p < h.to => p \in Points(rs)
      /\ h.to \notin Points(rs)
  BY <1>1, FirstRange
<1>3. point \in Nat /\ h.from <= point
  BY <1>2
<1>4. point < h.to
  <2> SUFFICES ASSUME h.to <= point PROVE FALSE
    BY <1>2, <1>3
  <2>1. h.to - 1 \in Nat /\ h.from <= h.to - 1 /\ h.to - 1 < h.to /\ h.to - 1 < point
    BY <1>2, <1>3
  <2>2. h.to - 1 \in Points(rs) /\ (h.to - 1) + 1 = h.to
    BY <1>2, <2>1
  <2> QED
    BY <1>2, <2>1, <2>2
<1>5. t = [i \in DOMAIN rs |-> IF i = 1 THEN [from |-> point, to |-> h.to] ELSE rs[i]]
  <2>1. rs[1] \in LiveRange /\ 1 \in DOMAIN rs
    BY <1>2, RangeTypes
  <2>2. [rs[1] EXCEPT !.from = point] = [from |-> point, to |-> h.to]
    BY <2>1 DEF LiveRange
  <2>3. t = [i \in DOMAIN rs |-> IF i = 1 THEN [rs[1] EXCEPT !.from = point] ELSE rs[i]]
    BY DEF SetFrom
  <2> QED
    BY <2>2, <2>3
<1>6. \A i \in DOMAIN rs : i # 1 => h.to < rs[i].from
  <2>1. 1 \in 1..Len(rs) /\ DOMAIN rs = 1..Len(rs) /\ \A i \in 1..Len(rs) : i # 1 => 1 < i
    BY <1>2
  <2> QED
    BY <2>1, RangeTypes
<1>7. /\ WellFormed(t)
      /\ \A p : p \in Points(t) <=> \/ p \in Nat /\ point <= p /\ p < h.to
                                    \/ p \in Points(rs) /\ p >= h.to
  <2> DEFINE b == h.to
  <2>1. /\ b = rs[1].to /\ b \in Nat /\ point \in Nat /\ point < b /\ rs # <<>>
        /\ \A i \in DOMAIN rs : i # 1 => b < rs[i].from
        /\ t = [i \in DOMAIN rs |-> IF i = 1 THEN [from |-> point, to |-> b] ELSE rs[i]]
    BY <1>1, <1>2, <1>3, <1>4, <1>5, <1>6
  <2> HIDE DEF t, b, h
  <2>2. /\ WellFormed(t)
        /\ \A p : p \in Points(t) <=> \/ p \in Nat /\ point <= p /\ p < b
                                      \/ p \in Points(rs) /\ p >= rs[1].to
    BY <2>1, FirstReplaced
  <2> QED
    BY <2>2 DEF b, h
<1> HIDE DEF t, h
<1>8. ASSUME NEW p
      PROVE  p \in Points(t) <=> p \in Points(rs) /\ p >= point
  <2>1. p \in Points(rs) => p \in Nat
    BY <1>2
  <2>2. CASE p \in Nat
    BY <1>2, <1>3, <1>4, <1>7, <2>2
  <2> QED
    BY <1>7, <2>1, <2>2
<1> QED
  BY <1>7, <1>8 DEF t

(* Where two cursors go from c.                                            *)
Onward(rs, ss, c) ==
  IF rs[c[1]].to <= ss[c[2]].to THEN <<c[1] + 1, c[2]>> ELSE <<c[1], c[2] + 1>>

ScanOf(rs, ss, f) ==
  f = [c \in Cursors(rs, ss) |->
        /\ c[1] <= Len(rs) /\ c[2] <= Len(ss)
        /\ \/ Overlap(rs[c[1]], ss[c[2]])
           \/ f[Onward(rs, ss, c)]]

(* A range from cursor i on meets one from cursor j on.                    *)
Meeting(rs, ss, i, j) ==
  \E k \in i..Len(rs), m \in j..Len(ss) : Overlap(rs[k], ss[m])

(* Moving on the cursor whose range ends first misses no overlap.          *)
LEMMA CursorMoves ==
  ASSUME NEW rs, NEW ss, WellFormed(rs), WellFormed(ss),
         NEW i \in 1..Len(rs), NEW j \in 1..Len(ss)
  PROVE  Meeting(rs, ss, i, j) <=>
           \/ Overlap(rs[i], ss[j])
           \/ IF rs[i].to <= ss[j].to THEN Meeting(rs, ss, i + 1, j) ELSE Meeting(rs, ss, i, j + 1)
<1>1. /\ Len(rs) \in Nat /\ Len(ss) \in Nat
      /\ i \in i..Len(rs) /\ j \in j..Len(ss)
      /\ \A k \in (i + 1)..Len(rs) : k \in i..Len(rs)
      /\ \A m \in (j + 1)..Len(ss) : m \in j..Len(ss)
      /\ \A k \in i..Len(rs) : k \in 1..Len(rs) /\ (k # i => k \in (i + 1)..Len(rs) /\ i < k)
      /\ \A m \in j..Len(ss) : m \in 1..Len(ss) /\ (m # j => m \in (j + 1)..Len(ss) /\ j < m)
  BY RangeTypes
<1>2. /\ \A k \in 1..Len(rs) : rs[k].from \in Nat /\ rs[k].to \in Nat /\ rs[k].from < rs[k].to
      /\ \A m \in 1..Len(ss) : ss[m].from \in Nat /\ ss[m].to \in Nat /\ ss[m].from < ss[m].to
      /\ \A k \in i..Len(rs) : k # i => rs[i].to < rs[k].from
      /\ \A m \in j..Len(ss) : m # j => ss[j].to < ss[m].from
  <2> HIDE DEF WellFormed
  <2> QED
    BY <1>1, RangeTypes
<1>3. ASSUME Meeting(rs, ss, i, j), ~Overlap(rs[i], ss[j]), rs[i].to <= ss[j].to
      PROVE  Meeting(rs, ss, i + 1, j)
  <2>1. PICK k \in i..Len(rs), m \in j..Len(ss) : Overlap(rs[k], ss[m])
    BY <1>3 DEF Meeting
  <2>2. k # i
    <3> SUFFICES ASSUME k = i PROVE FALSE
      OBVIOUS
    <3>1. m # j
      BY <1>3, <2>1
    <3>2. ss[m].from < rs[i].to /\ ss[j].to < ss[m].from /\ rs[i].to <= ss[j].to
      BY <1>2, <1>3, <2>1, <3>1 DEF Overlap
    <3>3. ss[m].from \in Nat /\ ss[j].to \in Nat /\ rs[i].to \in Nat
      BY <1>1, <1>2
    <3> QED
      BY <3>2, <3>3
  <2> QED
    BY <1>1, <2>1, <2>2 DEF Meeting
<1>4. ASSUME Meeting(rs, ss, i, j), ~Overlap(rs[i], ss[j]), ~(rs[i].to <= ss[j].to)
      PROVE  Meeting(rs, ss, i, j + 1)
  <2>1. PICK k \in i..Len(rs), m \in j..Len(ss) : Overlap(rs[k], ss[m])
    BY <1>4 DEF Meeting
  <2>2. m # j
    <3> SUFFICES ASSUME m = j PROVE FALSE
      OBVIOUS
    <3>1. k # i
      BY <1>4, <2>1
    <3>2. rs[k].from < ss[j].to /\ rs[i].to < rs[k].from /\ ~(rs[i].to <= ss[j].to)
      BY <1>2, <1>4, <2>1, <3>1 DEF Overlap
    <3>3. rs[k].from \in Nat /\ ss[j].to \in Nat /\ rs[i].to \in Nat
      BY <1>1, <1>2
    <3> QED
      BY <3>2, <3>3
  <2> QED
    BY <1>1, <2>1, <2>2 DEF Meeting
<1>5. /\ Overlap(rs[i], ss[j]) => Meeting(rs, ss, i, j)
      /\ Meeting(rs, ss, i + 1, j) => Meeting(rs, ss, i, j)
      /\ Meeting(rs, ss, i, j + 1) => Meeting(rs, ss, i, j)
  BY <1>1 DEF Meeting
<1> QED
  BY <1>3, <1>4, <1>5

(* The two-cursor scan finds an overlap exactly when there is one.         *)
LEMMA ScanMeets ==
  ASSUME NEW rs, NEW ss, WellFormed(rs), WellFormed(ss)
  PROVE  Intersects(rs, ss) <=> \E i \in DOMAIN rs, j \in DOMAIN ss : Overlap(rs[i], ss[j])
<1> DEFINE C == Cursors(rs, ss)
           h == [c \in C |-> Meeting(rs, ss, c[1], c[2])]
           f == CHOOSE g : ScanOf(rs, ss, g)
<1>1. /\ Len(rs) \in Nat /\ Len(ss) \in Nat
      /\ DOMAIN rs = 1..Len(rs) /\ DOMAIN ss = 1..Len(ss)
  BY RangeTypes
<1>2. ASSUME NEW c \in C
      PROVE  /\ c = <<c[1], c[2]>>
             /\ c[1] \in 1..(Len(rs) + 1) /\ c[2] \in 1..(Len(ss) + 1)
             /\ c[1] <= Len(rs) /\ c[2] <= Len(ss) =>
                  /\ c[1] \in 1..Len(rs) /\ c[2] \in 1..Len(ss)
                  /\ Onward(rs, ss, c) \in C
  BY <1>1 DEF Cursors, Onward
<1>3. ASSUME NEW c \in C
      PROVE  Meeting(rs, ss, c[1], c[2]) <=>
               /\ c[1] <= Len(rs) /\ c[2] <= Len(ss)
               /\ \/ Overlap(rs[c[1]], ss[c[2]])
                  \/ Meeting(rs, ss, Onward(rs, ss, c)[1], Onward(rs, ss, c)[2])
  <2>1. CASE c[1] <= Len(rs) /\ c[2] <= Len(ss)
    BY <1>2, <2>1, CursorMoves DEF Onward
  <2>2. CASE ~(c[1] <= Len(rs) /\ c[2] <= Len(ss))
    <3>1. ~ \E k \in c[1]..Len(rs), m \in c[2]..Len(ss) : TRUE
      BY <1>1, <1>2, <2>2
    <3> QED
      BY <2>2, <3>1 DEF Meeting
  <2> QED
    BY <2>1, <2>2
<1>4. ScanOf(rs, ss, h)
  <2>1. ASSUME NEW c \in C
        PROVE  Meeting(rs, ss, c[1], c[2]) =
                 ( /\ c[1] <= Len(rs) /\ c[2] <= Len(ss)
                   /\ \/ Overlap(rs[c[1]], ss[c[2]])
                      \/ h[Onward(rs, ss, c)] )
    <3>0. Meeting(rs, ss, c[1], c[2]) \in BOOLEAN
      BY DEF Meeting
    <3>1. CASE c[1] <= Len(rs) /\ c[2] <= Len(ss)
      <4>1. h[Onward(rs, ss, c)] = Meeting(rs, ss, Onward(rs, ss, c)[1], Onward(rs, ss, c)[2])
        BY <1>2, <3>1
      <4> QED
        BY <1>3, <3>0, <3>1, <4>1
    <3>2. CASE ~(c[1] <= Len(rs) /\ c[2] <= Len(ss))
      BY <1>3, <3>0, <3>2
    <3> QED
      BY <3>1, <3>2
  <2>2. h = [c \in C |-> ( /\ c[1] <= Len(rs) /\ c[2] <= Len(ss)
                   /\ \/ Overlap(rs[c[1]], ss[c[2]])
                      \/ h[Onward(rs, ss, c)] )]
    BY <2>1
  <2> QED
    BY <2>2 DEF ScanOf
<1>5. ScanOf(rs, ss, f)
  <2> HIDE DEF h
  <2> QED
    BY <1>4
<1>6. Intersects(rs, ss) = f[<<1, 1>>]
  BY DEF Intersects, ScanOf, Onward
<1> HIDE DEF f, h, C
<1>7. ASSUME NEW c \in C
      PROVE  f[c] <=>
               /\ c[1] <= Len(rs) /\ c[2] <= Len(ss)
               /\ f[Onward(rs, ss, c)] \/ Overlap(rs[c[1]], ss[c[2]])
  BY <1>5, <1>7 DEF ScanOf, C
<1> DEFINE Left(c) == (Len(rs) - c[1]) + (Len(ss) - c[2]) + 2
           E == {n \in Nat : \A c \in C : Left(c) <= n =>
                                (f[c] <=> Meeting(rs, ss, c[1], c[2]))}
<1>8. \A n \in Nat : n \in E
  <2>1. 0 \in E
    <3> SUFFICES ASSUME NEW c \in C, Left(c) <= 0 PROVE f[c] <=> Meeting(rs, ss, c[1], c[2])
      OBVIOUS
    <3>1. ~(c[1] <= Len(rs))
      BY <1>1, <1>2
    <3> QED
      BY <1>3, <1>7, <3>1
  <2>2. ASSUME NEW n \in Nat, n \in E PROVE n + 1 \in E
    <3> SUFFICES ASSUME NEW c \in C, Left(c) <= n + 1 PROVE f[c] <=> Meeting(rs, ss, c[1], c[2])
      OBVIOUS
    <3>1. CASE c[1] <= Len(rs) /\ c[2] <= Len(ss)
      <4> DEFINE d == Onward(rs, ss, c)
      <4>1. d \in C /\ (d = <<c[1] + 1, c[2]>> \/ d = <<c[1], c[2] + 1>>)
        BY <1>2, <3>1 DEF Onward
      <4>2. Left(d) <= n
        <5>1. /\ c[1] \in Nat /\ c[2] \in Nat
              /\ (d[1] = c[1] + 1 /\ d[2] = c[2]) \/ (d[1] = c[1] /\ d[2] = c[2] + 1)
          BY <1>2, <4>1
        <5>2. \A l, m, x, y, k \in Nat : (l - x) + (m - y) + 2 <= k + 1 =>
                  /\ (l - (x + 1)) + (m - y) + 2 <= k
                  /\ (l - x) + (m - (y + 1)) + 2 <= k
          OBVIOUS
        <5>3. /\ (Len(rs) - (c[1] + 1)) + (Len(ss) - c[2]) + 2 <= n
              /\ (Len(rs) - c[1]) + (Len(ss) - (c[2] + 1)) + 2 <= n
          BY <1>1, <5>1, <5>2
        <5> QED
          BY <5>1, <5>3
      <4>3. f[d] <=> Meeting(rs, ss, d[1], d[2])
        BY <2>2, <4>1, <4>2
      <4> QED
        BY <1>3, <1>7, <3>1, <4>3
    <3>2. CASE ~(c[1] <= Len(rs) /\ c[2] <= Len(ss))
      BY <1>3, <1>7, <3>2
    <3> QED
      BY <3>1, <3>2
  <2> HIDE DEF E
  <2> QED
    BY <2>1, <2>2, Induction
<1>9. <<1, 1>> \in C /\ Left(<<1, 1>>) \in Nat /\ Left(<<1, 1>>) <= Left(<<1, 1>>)
  BY <1>1 DEF C, Cursors
<1>10. f[<<1, 1>>] <=> Meeting(rs, ss, 1, 1)
  BY <1>8, <1>9
<1> QED
  BY <1>1, <1>6, <1>10 DEF Meeting

(* The scans see the sets of points the lists stand for.                   *)
LEMMA ScansAreSets ==
  ASSUME NEW rs, NEW ss, WellFormed(rs), WellFormed(ss)
  PROVE  /\ Intersects(rs, ss) <=> Points(rs) \cap Points(ss) # {}
         /\ \A p \in Nat : Covers(rs, p) <=> p \in Points(rs)
<1>1. /\ DOMAIN rs = 1..Len(rs) /\ DOMAIN ss = 1..Len(ss) /\ Len(rs) \in Nat
      /\ \A i \in 1..Len(rs) : rs[i].from \in Nat /\ rs[i].to \in Nat /\ rs[i].from < rs[i].to
      /\ \A i \in 1..Len(ss) : ss[i].from \in Nat /\ ss[i].to \in Nat /\ ss[i].from < ss[i].to
  BY RangeTypes
<1>2. \A p : /\ p \in Points(rs) <=>
                  \E i \in 1..Len(rs) : p \in Nat /\ rs[i].from <= p /\ p < rs[i].to
             /\ p \in Points(ss) <=>
                  \E i \in 1..Len(ss) : p \in Nat /\ ss[i].from <= p /\ p < ss[i].to
  BY PointsOf
<1>3. ASSUME NEW i \in 1..Len(rs), NEW j \in 1..Len(ss)
      PROVE  Overlap(rs[i], ss[j]) <=>
               \E p \in Nat : /\ rs[i].from <= p /\ p < rs[i].to
                              /\ ss[j].from <= p /\ p < ss[j].to
  <2> DEFINE p == IF rs[i].from < ss[j].from THEN ss[j].from ELSE rs[i].from
  <2>1. Overlap(rs[i], ss[j]) => /\ p \in Nat
                                 /\ rs[i].from <= p /\ p < rs[i].to
                                 /\ ss[j].from <= p /\ p < ss[j].to
    BY <1>1 DEF Overlap
  <2>2. ASSUME NEW q \in Nat, rs[i].from <= q, q < rs[i].to, ss[j].from <= q, q < ss[j].to
        PROVE  Overlap(rs[i], ss[j])
    BY <1>1, <2>2 DEF Overlap
  <2> QED
    BY <2>1, <2>2
<1>4. Intersects(rs, ss) <=> \E i \in 1..Len(rs), j \in 1..Len(ss) : Overlap(rs[i], ss[j])
  BY <1>1, ScanMeets
<1>5. Intersects(rs, ss) <=> Points(rs) \cap Points(ss) # {}
  BY <1>2, <1>3, <1>4
<1>6. ASSUME NEW p \in Nat PROVE Covers(rs, p) <=> p \in Points(rs)
  <2>1. Covers(rs, p) => p \in Points(rs)
    BY <1>2 DEF Covers
  <2>2. ASSUME p \in Points(rs) PROVE Covers(rs, p)
    <3>1. PICK i \in 1..Len(rs) : rs[i].from <= p /\ p < rs[i].to
      BY <1>2, <2>2
    <3>2. ASSUME NEW j \in 1..(i - 1) PROVE rs[j].to <= p
      <4>1. j \in 1..Len(rs) /\ j < i
        BY <1>1
      <4>2. rs[j].to < rs[i].from
        BY <4>1, RangeTypes
      <4> QED
        BY <1>1, <3>1, <4>1, <4>2
    <3> QED
      BY <3>1, <3>2 DEF Covers
  <2> QED
    BY <2>1, <2>2
<1> QED
  BY <1>5, <1>6

-----------------------------------------------------------------------------
(* The sets the passes find                                                *)

EndOf(b) == <<b, Len(fn.code[b]) + 1>>

(* What a block is said to want, it wants.                                 *)
SetsWanted ==
  \A b \in Blocks(fn) :
    /\ \A v \in in[b] : <<b, 1>> \in WantedAt(fn, v)
    /\ \A v \in out[b] : EndOf(b) \in WantedAt(fn, v)

LEMMA FunctionShape ==
  ASSUME fn \in Funcs
  PROVE  /\ fn \in MirFuncs
         /\ Last \in Nat /\ Blocks(fn) = 1..Last /\ Len(fn.code) = Last
         /\ \A b \in Blocks(fn) :
              /\ fn.code[b] \in Seq(MirInstr)
              /\ Len(fn.code[b]) \in Nat
              /\ DOMAIN fn.code[b] = 1..Len(fn.code[b])
              /\ fn.succs[b] \subseteq Blocks(fn)
              /\ \A k \in 1..(Len(fn.code[b]) + 1) : <<b, k>> \in Places(fn)
         /\ \A p \in Places(fn) : \E b \in Blocks(fn), k \in Nat :
              p = <<b, k>> /\ k \in 1..(Len(fn.code[b]) + 1)
<1>1. fn \in MirFuncs /\ Last \in Nat /\ Blocks(fn) = 1..Last /\ Len(fn.code) = Last
      /\ \A b \in Blocks(fn) : fn.succs[b] \subseteq Blocks(fn)
  BY BlockNumbers, FuncsAssumption DEF Last
<1>2. \A b \in Blocks(fn) : fn.code[b] \in Seq(MirInstr)
  BY <1>1 DEF MirFuncs
<1>3. \A b \in Blocks(fn) : Len(fn.code[b]) \in Nat /\ DOMAIN fn.code[b] = 1..Len(fn.code[b])
  BY <1>2
<1>4. \A b \in Blocks(fn) : \A k \in 1..(Len(fn.code[b]) + 1) : <<b, k>> \in Places(fn)
  BY DEF Places
<1>5. \A p \in Places(fn) : \E b \in Blocks(fn), k \in Nat :
              p = <<b, k>> /\ k \in 1..(Len(fn.code[b]) + 1)
  BY <1>3 DEF Places
<1> QED
  BY <1>1, <1>2, <1>3, <1>4, <1>5

(* Wanting v, place by place.                                              *)
LEMMA WantedSteps ==
  ASSUME fn \in Funcs, NEW b \in Blocks(fn), NEW v
  PROVE  /\ EndOf(b) \in WantedAt(fn, v) <=>
              \E s \in fn.succs[b] : <<s, 1>> \in WantedAt(fn, v)
         /\ \A k \in 1..Len(fn.code[b]) :
              <<b, k>> \in WantedAt(fn, v) <=>
                \/ v \in Reads(fn.code[b][k])
                \/ v \notin fn.code[b][k].def /\ <<b, k + 1>> \in WantedAt(fn, v)
<1>1. fn \in MirFuncs /\ Len(fn.code[b]) \in Nat
      /\ \A k \in 1..(Len(fn.code[b]) + 1) : <<b, k>> \in Places(fn)
  BY FunctionShape
<1>2. EndOf(b) \in Places(fn) /\ IsEnd(fn, EndOf(b)) /\ EndOf(b)[1] = b
  BY <1>1 DEF EndOf, IsEnd
<1>3. After(fn, EndOf(b)) = {<<s, 1>> : s \in fn.succs[b]}
  BY <1>2 DEF After
<1>4. EndOf(b) \in WantedAt(fn, v) <=> After(fn, EndOf(b)) \cap WantedAt(fn, v) # {}
  BY <1>1, <1>2, WantedBackwards
<1>5. ASSUME NEW k \in 1..Len(fn.code[b])
      PROVE  <<b, k>> \in WantedAt(fn, v) <=>
                \/ v \in Reads(fn.code[b][k])
                \/ v \notin fn.code[b][k].def /\ <<b, k + 1>> \in WantedAt(fn, v)
  <2> DEFINE p == <<b, k>>
  <2>1. p \in Places(fn) /\ ~IsEnd(fn, p) /\ InstrAt(fn, p) = fn.code[b][k]
    BY <1>1 DEF IsEnd, InstrAt
  <2>2. After(fn, p) = {<<b, k + 1>>}
    BY <2>1 DEF After
  <2> HIDE DEF p
  <2>3. p \in WantedAt(fn, v) <=>
           \/ v \in Reads(fn.code[b][k])
           \/ v \notin fn.code[b][k].def /\ After(fn, p) \cap WantedAt(fn, v) # {}
    BY <1>1, <2>1, WantedBackwards
  <2> QED
    BY <2>2, <2>3 DEF p
<1> QED
  BY <1>3, <1>4, <1>5

(* What is wanted at a place and not written before it in its block is     *)
(* wanted at the start of the block.                                       *)
LEMMA WantedToTheStart ==
  ASSUME fn \in Funcs, NEW b \in Blocks(fn), NEW v, NEW k \in 1..(Len(fn.code[b]) + 1),
         <<b, k>> \in WantedAt(fn, v), \A j \in 1..(k - 1) : v \notin fn.code[b][j].def
  PROVE  <<b, 1>> \in WantedAt(fn, v)
<1>1. Len(fn.code[b]) \in Nat
  BY FunctionShape
<1> DEFINE E == {n \in Nat : n <= k - 1 => <<b, k - n>> \in WantedAt(fn, v)}
<1>2. 0 \in E
  BY <1>1
<1>3. ASSUME NEW n \in Nat, n \in E PROVE n + 1 \in E
  <2> SUFFICES ASSUME n + 1 <= k - 1 PROVE <<b, k - (n + 1)>> \in WantedAt(fn, v)
    OBVIOUS
  <2>1. /\ k - (n + 1) \in 1..Len(fn.code[b]) /\ k - (n + 1) \in 1..(k - 1)
        /\ (k - (n + 1)) + 1 = k - n /\ n <= k - 1
    BY <1>1
  <2>2. <<b, k - n>> \in WantedAt(fn, v)
    BY <1>3, <2>1
  <2> QED
    BY <2>1, <2>2, WantedSteps
<1>4. \A n \in Nat : n \in E
  <2> HIDE DEF E
  <2> QED
    BY <1>2, <1>3, Induction
<1>5. k - 1 \in Nat /\ k - 1 <= k - 1 /\ k - (k - 1) = 1
  BY <1>1
<1> QED
  BY <1>4, <1>5

LEMMA VisitKeepsSetsWanted ==
  ASSUME SweepInv, SetsWanted, SweepBlock
  PROVE  SetsWanted'
<1>1. /\ fn \in Funcs /\ fn' = fn /\ at \in Blocks(fn) /\ Blocks(fn)' = Blocks(fn)
      /\ \A b \in Blocks(fn) : EndOf(b)' = EndOf(b)
      /\ DOMAIN in = Blocks(fn) /\ DOMAIN out = Blocks(fn)
  BY BlockNumbers DEF SweepInv, SweepBlock, Blocks, EndOf, BlockSets
<1>2. /\ \A b \in Blocks(fn) : b # at => in'[b] = in[b] /\ out'[b] = out[b]
      /\ out'[at] = out[at] \cup UNION {in[s] : s \in fn.succs[at]}
      /\ in'[at] = in[at] \cup (out'[at] \ Killed(at)) \cup Upward(at)
  BY <1>1 DEF SweepBlock
<1>3. /\ Len(fn.code[at]) \in Nat /\ DOMAIN fn.code[at] = 1..Len(fn.code[at])
      /\ fn.succs[at] \subseteq Blocks(fn)
  BY <1>1, FunctionShape
<1>4. ASSUME NEW v \in out'[at] PROVE EndOf(at) \in WantedAt(fn, v)
  <2>1. CASE v \in out[at]
    BY <1>1, <2>1 DEF SetsWanted
  <2>2. CASE v \notin out[at]
    <3>1. PICK s \in fn.succs[at] : v \in in[s]
      BY <1>2, <1>4, <2>2
    <3>2. <<s, 1>> \in WantedAt(fn, v)
      BY <1>3, <3>1 DEF SetsWanted
    <3> QED
      BY <1>1, <3>1, <3>2, WantedSteps
  <2> QED
    BY <2>1, <2>2
<1>5. ASSUME NEW v \in in'[at] PROVE <<at, 1>> \in WantedAt(fn, v)
  <2>1. CASE v \in in[at]
    BY <1>1, <2>1 DEF SetsWanted
  <2>2. CASE v \in out'[at] \ Killed(at)
    <3> DEFINE k == Len(fn.code[at]) + 1
    <3>1. <<at, k>> \in WantedAt(fn, v)
      BY <1>4, <2>2 DEF EndOf
    <3>2. k \in 1..(Len(fn.code[at]) + 1) /\ k - 1 = Len(fn.code[at])
      BY <1>3
    <3>3. \A j \in 1..(k - 1) : v \notin fn.code[at][j].def
      BY <1>3, <2>2, <3>2 DEF Killed
    <3> HIDE DEF k
    <3> QED
      BY <1>1, <3>1, <3>2, <3>3, WantedToTheStart
  <2>3. CASE v \in Upward(at)
    <3>1. PICK k \in 1..Len(fn.code[at]) :
            v \in Reads(fn.code[at][k]) /\ \A j \in 1..(k - 1) : v \notin fn.code[at][j].def
      BY <1>3, <2>3 DEF Upward
    <3>2. <<at, k>> \in WantedAt(fn, v)
      BY <1>1, <3>1, WantedSteps
    <3>3. k \in 1..(Len(fn.code[at]) + 1)
      BY <1>3
    <3> QED
      BY <1>1, <3>1, <3>2, <3>3, WantedToTheStart
  <2> QED
    BY <1>2, <1>5, <2>1, <2>2, <2>3
<1>6. ASSUME NEW b \in Blocks(fn)
      PROVE  /\ \A v \in in'[b] : <<b, 1>> \in WantedAt(fn, v)
             /\ \A v \in out'[b] : EndOf(b) \in WantedAt(fn, v)
  <2>1. CASE b = at
    BY <1>4, <1>5, <2>1
  <2>2. CASE b # at
    BY <1>2, <2>2 DEF SetsWanted
  <2> QED
    BY <2>1, <2>2
<1> QED
  BY <1>1, <1>6 DEF SetsWanted

LEMMA NextKeepsSetsWanted ==
  ASSUME SweepInv, SetsWanted, [Next]_vars
  PROVE  SetsWanted'
<1>1. CASE SweepBlock
  BY <1>1, VisitKeepsSetsWanted
<1>2. CASE ~SweepBlock
  <2>1. fn' = fn /\ in' = in /\ out' = out
    BY <1>2 DEF Next, Step, vars, AnotherPass, Settled, OpenBlock, WalkInstr, CloseBlock,
                Finish, Terminated
  <2> QED
    BY <2>1 DEF SetsWanted, EndOf, Blocks
<1> QED
  BY <1>1, <1>2

(* What a solution of the equations says is live before the k-th           *)
(* instruction of block b.                                                 *)
LiveBefore(b, k, v) ==
  \/ \E j \in k..Len(fn.code[b]) :
       v \in Reads(fn.code[b][j]) /\ \A m \in k..(j - 1) : v \notin fn.code[b][m].def
  \/ v \in out[b] /\ \A m \in k..Len(fn.code[b]) : v \notin fn.code[b][m].def

(* A solution that says no more than is wanted says just that.             *)
LEMMA SolutionIsWanted ==
  ASSUME fn \in Funcs, SetsWanted, \A b \in Blocks(fn) : Equations(b)
  PROVE  \A b \in Blocks(fn) : \A v : v \in out[b] <=> EndOf(b) \in WantedAt(fn, v)
<1> SUFFICES ASSUME NEW b0 \in Blocks(fn), NEW v, EndOf(b0) \in WantedAt(fn, v)
             PROVE  v \in out[b0]
  BY DEF SetsWanted
<1> DEFINE T == {p \in Places(fn) : LiveBefore(p[1], p[2], v)}
<1>1. fn \in MirFuncs
  BY FunctionShape
<1>2. ASSUME NEW b \in Blocks(fn)
      PROVE  Len(fn.code[b]) \in Nat /\ DOMAIN fn.code[b] = 1..Len(fn.code[b])
             /\ fn.succs[b] \subseteq Blocks(fn)
             /\ \A k \in 1..(Len(fn.code[b]) + 1) : <<b, k>> \in Places(fn)
  BY FunctionShape
<1>3. ASSUME NEW b \in Blocks(fn), LiveBefore(b, 1, v) PROVE v \in in[b]
  <2>1. in[b] = (out[b] \ Killed(b)) \cup Upward(b)
    BY DEF Equations
  <2>2. CASE v \in out[b] /\ \A m \in 1..Len(fn.code[b]) : v \notin fn.code[b][m].def
    BY <1>2, <2>1, <2>2 DEF Killed
  <2>3. CASE \E j \in 1..Len(fn.code[b]) :
       v \in Reads(fn.code[b][j]) /\ \A m \in 1..(j - 1) : v \notin fn.code[b][m].def
    BY <1>2, <2>1, <2>3 DEF Upward
  <2> QED
    BY <1>3, <2>2, <2>3 DEF LiveBefore
<1>4. Readers(fn, v) \subseteq T
  <2> SUFFICES ASSUME NEW p \in Readers(fn, v) PROVE p \in T
    OBVIOUS
  <2>1. p \in Places(fn) /\ ~IsEnd(fn, p) /\ v \in Reads(InstrAt(fn, p))
    BY DEF Readers
  <2>2. PICK b \in Blocks(fn), k \in Nat : p = <<b, k>> /\ k \in 1..(Len(fn.code[b]) + 1)
    BY <2>1, FunctionShape
  <2>3. k \in k..Len(fn.code[b]) /\ v \in Reads(fn.code[b][k])
    BY <1>2, <2>1, <2>2 DEF IsEnd, InstrAt
  <2>4. \A m \in k..(k - 1) : FALSE
    BY <2>2
  <2>5. LiveBefore(b, k, v)
    BY <2>3, <2>4 DEF LiveBefore
  <2> QED
    BY <2>1, <2>2, <2>5
<1>5. ASSUME NEW p \in Passing(fn, v), After(fn, p) \cap T # {} PROVE p \in T
  <2>1. p \in Places(fn) /\ (IsEnd(fn, p) \/ v \notin InstrAt(fn, p).def)
    BY DEF Passing
  <2>2. PICK b \in Blocks(fn), k \in Nat : p = <<b, k>> /\ k \in 1..(Len(fn.code[b]) + 1)
    BY <2>1, FunctionShape
  <2>3. CASE IsEnd(fn, p)
    <3>1. k = Len(fn.code[b]) + 1 /\ After(fn, p) = {<<s, 1>> : s \in fn.succs[b]}
      BY <2>2, <2>3 DEF IsEnd, After
    <3>2. PICK s \in fn.succs[b] : <<s, 1>> \in T
      BY <1>5, <3>1
    <3>3. v \in in[s]
      BY <1>2, <1>3, <3>2
    <3>4. v \in out[b]
      BY <3>3 DEF Equations
    <3>5. \A m \in k..Len(fn.code[b]) : FALSE
      BY <1>2, <3>1
    <3> QED
      BY <2>1, <2>2, <3>4, <3>5 DEF LiveBefore
  <2>4. CASE ~IsEnd(fn, p)
    <3>1. After(fn, p) = {<<b, k + 1>>} /\ k \in 1..Len(fn.code[b]) /\ v \notin fn.code[b][k].def
      BY <1>2, <2>1, <2>2, <2>4 DEF IsEnd, After, InstrAt
    <3>2. LiveBefore(b, k + 1, v)
      BY <1>5, <3>1
    <3>3. /\ \A j \in (k + 1)..Len(fn.code[b]) : j \in k..Len(fn.code[b])
          /\ \A n \in Int : \A m \in k..n : m = k \/ m \in (k + 1)..n
      BY <1>2, <3>1
    <3>4. CASE \E j \in (k + 1)..Len(fn.code[b]) :
       v \in Reads(fn.code[b][j]) /\ \A m \in (k + 1)..(j - 1) : v \notin fn.code[b][m].def
      <4>1. PICK j \in (k + 1)..Len(fn.code[b]) :
       v \in Reads(fn.code[b][j]) /\ \A m \in (k + 1)..(j - 1) : v \notin fn.code[b][m].def
        BY <3>4
      <4>2. \A m \in k..(j - 1) : v \notin fn.code[b][m].def
        <5>1. j - 1 \in Int
          BY <1>2, <3>1
        <5> QED
          BY <3>1, <3>3, <4>1, <5>1
      <4>3. LiveBefore(b, k, v)
        BY <3>3, <4>1, <4>2 DEF LiveBefore
      <4> QED
        BY <2>1, <2>2, <4>3
    <3>5. CASE v \in out[b] /\ \A m \in (k + 1)..Len(fn.code[b]) : v \notin fn.code[b][m].def
      <4>1. \A m \in k..Len(fn.code[b]) : v \notin fn.code[b][m].def
        BY <1>2, <3>1, <3>3, <3>5
      <4>2. LiveBefore(b, k, v)
        BY <3>5, <4>1 DEF LiveBefore
      <4> QED
        BY <2>1, <2>2, <4>2
    <3> QED
      BY <3>2, <3>4, <3>5 DEF LiveBefore
  <2> QED
    BY <2>3, <2>4
<1>6. WantedAt(fn, v) \subseteq T
  <2> HIDE DEF T
  <2> QED
    BY <1>1, <1>4, <1>5, WantedIsLeast
<1>7. LiveBefore(b0, Len(fn.code[b0]) + 1, v)
  BY <1>6 DEF EndOf
<1>8. \A j \in (Len(fn.code[b0]) + 1)..Len(fn.code[b0]) : FALSE
  BY <1>2
<1> QED
  BY <1>7, <1>8 DEF LiveBefore

-----------------------------------------------------------------------------
(* The walk                                                                *)

(* The points v is live at because of the k-th instruction of block b.     *)
GivesPoint(f, b, k, v, q) ==
  \/ q = UsePoint(FirstIndex(f, b) + k - 1) /\ <<b, k>> \in WantedAt(f, v)
  \/ /\ q = DefPoint(FirstIndex(f, b) + k - 1)
     /\ <<b, k + 1>> \in WantedAt(f, v) \/ v \in f.code[b][k].def

(* The points given behind the walk, when it stands in front of the k-th   *)
(* instruction of block b.                                                 *)
Collected(f, b, k, v, q) ==
  \E c \in Blocks(f) : \E m \in 1..Len(f.code[c]) :
    (c > b \/ (c = b /\ m > k)) /\ GivesPoint(f, c, m, v, q)

LEMMA Numbers ==
  ASSUME fn \in Funcs, NEW b \in Blocks(fn)
  PROVE  /\ FirstIndex(fn, b) \in Nat
         /\ LastIndex(fn, b) = FirstIndex(fn, b) + Len(fn.code[b])
         /\ \A c \in Blocks(fn) : c > b => FirstIndex(fn, c) >= LastIndex(fn, b)
<1>1. fn \in MirFuncs
  BY FunctionShape
<1> QED
  BY <1>1, NumberedInOrder, EarlierBlocks DEF LastIndex

(* The walk collects instruction by instruction, and what it has collected *)
(* lies beyond the instruction it visits next.                             *)
LEMMA CollectedSoFar ==
  ASSUME fn \in Funcs, NEW b \in Blocks(fn), NEW v
  PROVE  /\ \A q : Collected(fn, b, Len(fn.code[b]), v, q) <=> Collected(fn, b + 1, 0, v, q)
         /\ \A k \in 1..Len(fn.code[b]) : \A q :
              Collected(fn, b, k - 1, v, q) <=>
                Collected(fn, b, k, v, q) \/ GivesPoint(fn, b, k, v, q)
         /\ \A k \in 0..Len(fn.code[b]) : \A q :
              Collected(fn, b, k, v, q) => q \in Nat /\ q >= UsePoint(FirstIndex(fn, b) + k)
<1>1. /\ Len(fn.code[b]) \in Nat /\ b \in Nat
      /\ \A c \in Blocks(fn) : c \in Nat /\ (c > b <=> c > b + 1 \/ c = b + 1)
      /\ \A c \in Blocks(fn) : Len(fn.code[c]) \in Nat
  BY FunctionShape
<1>2. ASSUME NEW q
      PROVE  Collected(fn, b, Len(fn.code[b]), v, q) <=> Collected(fn, b + 1, 0, v, q)
  <2>1. \A m \in 1..Len(fn.code[b]) : ~(m > Len(fn.code[b]))
    BY <1>1
  <2>2. \A c \in Blocks(fn) : \A m \in 1..Len(fn.code[c]) : m > 0
    BY <1>1
  <2> QED
    BY <1>1, <2>1, <2>2 DEF Collected
<1>3. ASSUME NEW k \in 1..Len(fn.code[b]), NEW q
      PROVE  Collected(fn, b, k - 1, v, q) <=>
               Collected(fn, b, k, v, q) \/ GivesPoint(fn, b, k, v, q)
  <2>1. \A m \in 1..Len(fn.code[b]) : m > k - 1 <=> m > k \/ m = k
    BY <1>1
  <2> QED
    BY <2>1 DEF Collected
<1>4. ASSUME NEW k \in 0..Len(fn.code[b]), NEW q, Collected(fn, b, k, v, q)
      PROVE  q \in Nat /\ q >= UsePoint(FirstIndex(fn, b) + k)
  <2>1. PICK c \in Blocks(fn) : \E m \in 1..Len(fn.code[c]) :
          (c > b \/ (c = b /\ m > k)) /\ GivesPoint(fn, c, m, v, q)
    BY <1>4 DEF Collected
  <2>2. PICK m \in 1..Len(fn.code[c]) :
          (c > b \/ (c = b /\ m > k)) /\ GivesPoint(fn, c, m, v, q)
    BY <2>1
  <2>3. FirstIndex(fn, b) \in Nat /\ FirstIndex(fn, c) \in Nat /\ m \in Nat /\ m >= 1 /\ k \in Nat
    BY <1>1, Numbers
  <2> DEFINE i == FirstIndex(fn, c) + m - 1
  <2>4. i \in Nat /\ i >= FirstIndex(fn, b) + k
    <3>1. CASE c > b
      BY <1>1, <2>3, <3>1, Numbers
    <3>2. CASE c = b /\ m > k
      BY <1>1, <2>3, <3>2
    <3> QED
      BY <2>2, <3>1, <3>2
  <2>5. q = UsePoint(i) \/ q = DefPoint(i)
    BY <2>2 DEF GivesPoint
  <2> HIDE DEF i
  <2> QED
    BY <2>3, <2>4, <2>5 DEF UsePoint, DefPoint
<1> QED
  BY <1>2, <1>3, <1>4

(* Once past block 1, it has collected all there is.                       *)
LEMMA AllCollected ==
  ASSUME fn \in Funcs, NEW v, NEW q
  PROVE  q \in LivePoints(fn, v) <=> Collected(fn, 1, 0, v, q)
<1>1. \A c \in Blocks(fn) : \A m \in 1..Len(fn.code[c]) : c > 1 \/ (c = 1 /\ m > 0)
  BY FunctionShape
<1>2. Collected(fn, 1, 0, v, q) <=>
        \E c \in Blocks(fn) : \E m \in 1..Len(fn.code[c]) : GivesPoint(fn, c, m, v, q)
  BY <1>1 DEF Collected
<1> DEFINE W == WantedAt(fn, v)
           placed == {p \in Places(fn) : ~IsEnd(fn, p)}
           Ix(p) == FirstIndex(fn, p[1]) + p[2] - 1
           Given(p) == \/ q = UsePoint(Ix(p)) /\ p \in W
                       \/ /\ q = DefPoint(Ix(p))
                          /\ After(fn, p) \cap W # {} \/ v \in InstrAt(fn, p).def
<1>3. q \in LivePoints(fn, v) <=> \E p \in placed : Given(p)
  <2> HIDE DEF placed
  <2> QED
    BY DEF LivePoints, placed
<1>4. ASSUME NEW p
      PROVE  p \in placed <=>
               \E c \in Blocks(fn) : \E m \in 1..Len(fn.code[c]) : p = <<c, m>>
  <2>1. ASSUME p \in placed
        PROVE  \E c \in Blocks(fn) : \E m \in 1..Len(fn.code[c]) : p = <<c, m>>
    <3>1. PICK c \in Blocks(fn), m \in Nat : p = <<c, m>> /\ m \in 1..(Len(fn.code[c]) + 1)
      BY <2>1, FunctionShape
    <3>2. m # Len(fn.code[c]) + 1 /\ Len(fn.code[c]) \in Nat
      BY <2>1, <3>1, FunctionShape DEF IsEnd
    <3>3. m \in 1..Len(fn.code[c])
      BY <3>1, <3>2
    <3> QED
      BY <3>1, <3>3
  <2>2. ASSUME NEW c \in Blocks(fn), NEW m \in 1..Len(fn.code[c]) PROVE <<c, m>> \in placed
    <3>1. Len(fn.code[c]) \in Nat
      BY FunctionShape
    <3>2. m \in 1..(Len(fn.code[c]) + 1) /\ m # Len(fn.code[c]) + 1
      BY <3>1
    <3> QED
      BY <3>2, FunctionShape DEF IsEnd
  <2> QED
    BY <2>1, <2>2
<1>5. ASSUME NEW c \in Blocks(fn), NEW m \in 1..Len(fn.code[c])
      PROVE  /\ Ix(<<c, m>>) = FirstIndex(fn, c) + m - 1
             /\ After(fn, <<c, m>>) = {<<c, m + 1>>}
             /\ InstrAt(fn, <<c, m>>) = fn.code[c][m]
  <2>1. ~IsEnd(fn, <<c, m>>)
    BY FunctionShape DEF IsEnd
  <2> QED
    BY <2>1 DEF After, InstrAt
<1>6. ASSUME NEW c \in Blocks(fn), NEW m \in 1..Len(fn.code[c])
      PROVE  GivesPoint(fn, c, m, v, q) <=> Given(<<c, m>>)
  <2> HIDE DEF Ix
  <2> QED
    BY <1>5 DEF GivesPoint
<1> HIDE DEF placed, W, Ix, Given
<1>7. ASSUME q \in LivePoints(fn, v) PROVE Collected(fn, 1, 0, v, q)
  <2>1. PICK p \in placed : Given(p)
    BY <1>3, <1>7
  <2>2. PICK c \in Blocks(fn) : \E m \in 1..Len(fn.code[c]) : p = <<c, m>>
    BY <1>4, <2>1
  <2>3. PICK m \in 1..Len(fn.code[c]) : p = <<c, m>>
    BY <2>2
  <2>4. GivesPoint(fn, c, m, v, q)
    BY <1>6, <2>1, <2>3
  <2> QED
    BY <1>2, <2>4
<1>8. ASSUME Collected(fn, 1, 0, v, q) PROVE q \in LivePoints(fn, v)
  <2>1. PICK c \in Blocks(fn) : \E m \in 1..Len(fn.code[c]) : GivesPoint(fn, c, m, v, q)
    BY <1>2, <1>8
  <2>2. PICK m \in 1..Len(fn.code[c]) : GivesPoint(fn, c, m, v, q)
    BY <2>1
  <2>3. <<c, m>> \in placed /\ Given(<<c, m>>)
    BY <1>4, <1>6, <2>2
  <2> QED
    BY <1>3, <2>3
<1> QED
  BY <1>7, <1>8

(* The points of rs, in front of which instruction i of a block from f on  *)
(* is visited next: G lies beyond, and A holds v when it is wanted there.  *)
Behind(G, rs, v, A, i, f) ==
  /\ G \in SUBSET Nat
  /\ \A q \in G : q >= 2 * i + 2
  /\ \A q : q \in Points(rs) <=> q \in G \/ (v \in A /\ q \in Nat /\ f <= q /\ q < 2 * i + 2)

(* What the walk makes of rs at that instruction, which writes v when v is *)
(* in D and reads it when v is in R.                                       *)
AfterWrite(rs, v, A, D, i) ==
  IF v \notin D THEN rs
  ELSE IF v \in A THEN SetFrom(rs, 2 * i + 1) ELSE AddRange(rs, 2 * i + 1, 2 * i + 1 + 1)

AfterVisit(rs, v, A, D, R, i, f) ==
  IF v \in R THEN AddRange(AfterWrite(rs, v, A, D, i), f, 2 * i + 1)
             ELSE AfterWrite(rs, v, A, D, i)

LEMMA RangesWalked ==
  ASSUME NEW rs, WellFormed(rs), NEW G, NEW v, NEW A, NEW D, NEW R,
         NEW i \in Nat, NEW f \in Nat, f <= 2 * i, Behind(G, rs, v, A, i, f)
  PROVE  /\ WellFormed(AfterVisit(rs, v, A, D, R, i, f))
         /\ \A q : q \in Points(AfterVisit(rs, v, A, D, R, i, f)) <=>
              \/ q \in G
              \/ q = 2 * i /\ (v \in R \/ (v \in A /\ v \notin D))
              \/ q = 2 * i + 1 /\ (v \in A \/ v \in D)
              \/ (v \in R \/ (v \in A /\ v \notin D)) /\ q \in Nat /\ f <= q /\ q < 2 * i
<1> DEFINE t == AfterWrite(rs, v, A, D, i)
           u == AfterVisit(rs, v, A, D, R, i, f)
<1>a. /\ t = IF v \in D THEN (IF v \in A THEN SetFrom(rs, 2 * i + 1)
                                       ELSE AddRange(rs, 2 * i + 1, 2 * i + 1 + 1))
              ELSE rs
      /\ u = IF v \in R THEN AddRange(t, f, 2 * i + 1) ELSE t
      /\ G \in SUBSET Nat
      /\ \A q \in G : q >= 2 * i + 2
      /\ \A q : q \in Points(rs) <=> q \in G \/ (v \in A /\ q \in Nat /\ f <= q /\ q < 2 * i + 2)
  BY DEF AfterWrite, AfterVisit, Behind
<1> HIDE DEF t, u
<1> USE <1>a
<1>1. /\ WellFormed(t)
      /\ \A q : q \in Points(t) <=>
           \/ q \in G
           \/ q = 2 * i + 1 /\ (v \in A \/ v \in D)
           \/ v \in A /\ v \notin D /\ q \in Nat /\ f <= q /\ q < 2 * i + 1
  <2>1. CASE v \notin D
    <3>1. t = rs
      BY <2>1
    <3>2. ASSUME NEW q
          PROVE  (q \in Nat /\ f <= q /\ q < 2 * i + 2) <=>
                   q = 2 * i + 1 \/ (q \in Nat /\ f <= q /\ q < 2 * i + 1)
      OBVIOUS
    <3> QED
      BY <2>1, <3>1, <3>2
  <2>2. CASE v \in D /\ v \in A
    <3> DEFINE d == 2 * i + 1
    <3>0. d \in Nat /\ f <= d /\ d < 2 * i + 2
      OBVIOUS
    <3>1. d \in Points(rs)
      BY <2>2, <3>0
    <3>2. ASSUME NEW q \in Points(rs), q < d PROVE q + 1 \in Points(rs)
      <4>0. q \in G => q \in Nat /\ q >= 2 * i + 2
        OBVIOUS
      <4>1. q \in Nat /\ f <= q
        BY <4>0
      <4>2. q + 1 \in Nat /\ f <= q + 1 /\ q + 1 < 2 * i + 2
        BY <3>2, <4>1
      <4> QED
        BY <2>2, <4>2
    <3>3. t = SetFrom(rs, d)
      BY <2>2
    <3>4. ASSUME NEW q
          PROVE  (q \in Points(rs) /\ q >= d) <=> q \in G \/ q = d
      <4>1. q \in G => q \in Nat /\ q >= 2 * i + 2
        OBVIOUS
      <4>2. CASE q \in Nat
        BY <2>2, <4>1, <4>2
      <4> QED
        BY <4>1, <4>2
    <3> HIDE DEF d
    <3>5. WellFormed(t) /\ \A q : q \in Points(t) <=> q \in Points(rs) /\ q >= d
      BY <3>1, <3>2, <3>3, StartMoved
    <3> QED
      BY <2>2, <3>4, <3>5 DEF d
  <2>3. CASE v \in D /\ v \notin A
    <3> DEFINE d == 2 * i + 1
               e == d + 1
    <3>0. d \in Nat /\ e \in Nat /\ e = 2 * i + 2
      OBVIOUS
    <3>1. ASSUME NEW q \in Points(rs), q + 1 < e PROVE q + 1 \in Points(rs)
      <4>1. q \in Nat /\ q >= 2 * i + 2
        BY <2>3
      <4> QED
        BY <3>1, <4>1
    <3>2. t = AddRange(rs, d, e)
      BY <2>3
    <3>3. \A q : (q \in Nat /\ d <= q /\ q < e) <=> q = d
      OBVIOUS
    <3> HIDE DEF d, e
    <3>4. WellFormed(t) /\ \A q : q \in Points(t) <=>
                             q \in Points(rs) \/ (q \in Nat /\ d <= q /\ q < e)
      BY <3>0, <3>1, <3>2, AddedRange
    <3> QED
      BY <2>3, <3>3, <3>4 DEF d
  <2> QED
    BY <2>1, <2>2, <2>3
<1>2. CASE v \notin R
  <2>1. u = t
    BY <1>2
  <2>2. \A q : (q \in Nat /\ f <= q /\ q < 2 * i + 1) <=>
                 q = 2 * i \/ (q \in Nat /\ f <= q /\ q < 2 * i)
    OBVIOUS
  <2> QED
    BY <1>1, <1>2, <2>1, <2>2 DEF u
<1>3. CASE v \in R
  <2> DEFINE d == 2 * i + 1
  <2>0. d \in Nat
    OBVIOUS
  <2>1. ASSUME NEW q \in Points(t), q + 1 < d PROVE q + 1 \in Points(t)
    <3>1. q \in G => q \in Nat /\ q >= 2 * i + 2
      OBVIOUS
    <3>2. q \notin G /\ q # d
      BY <2>1, <3>1
    <3>3. v \in A /\ v \notin D /\ q \in Nat /\ f <= q
      BY <1>1, <2>1, <3>2
    <3>4. q + 1 \in Nat /\ f <= q + 1 /\ q + 1 < 2 * i + 1
      BY <2>1, <3>3
    <3> QED
      BY <1>1, <3>3, <3>4
  <2>2. u = AddRange(t, f, d)
    BY <1>3
  <2>3. \A q : (q \in Nat /\ f <= q /\ q < d) <=>
                 q = 2 * i \/ (q \in Nat /\ f <= q /\ q < 2 * i)
    OBVIOUS
  <2> HIDE DEF d
  <2>4. WellFormed(u) /\ \A q : q \in Points(u) <=>
                             q \in Points(t) \/ (q \in Nat /\ f <= q /\ q < d)
    BY <1>1, <2>0, <2>1, <2>2, AddedRange
  <2>5. \A q : q \in Points(t) <=>
           \/ q \in G
           \/ q = 2 * i + 1 /\ (v \in A \/ v \in D)
           \/ v \in A /\ v \notin D /\ q \in Nat /\ f <= q /\ q < d
    BY <1>1 DEF d
  <2> QED
    BY <1>3, <2>3, <2>4, <2>5 DEF u
<1> QED
  BY <1>2, <1>3 DEF u

(* How often the blocks of f name v, block by block.                       *)
NamingPerBlock(f, v) == [b \in Blocks(f) |-> SumFirst(NamingIn(f, b, v), Len(f.code[b]))]

(* In front of an instruction, its list holds what lies behind the walk,   *)
(* and all of the block before it while the register is wanted there.      *)
RangesSoFar ==
  /\ \A v \in VRegs : WellFormed(ranges[v])
  /\ phase = "sweep" => \A v \in VRegs : ranges[v] = <<>>
  /\ phase \in {"open", "done"} =>
       \A v \in VRegs : \A q : q \in Points(ranges[v]) <=> Collected(fn, at + 1, 0, v, q)
  /\ phase = "walk" =>
       /\ at \in Blocks(fn)
       /\ pos \in 0..Len(fn.code[at])
       /\ \A v \in VRegs :
            /\ v \in alive <=> <<at, pos + 1>> \in WantedAt(fn, v)
            /\ \A q : q \in Points(ranges[v]) <=>
                 \/ Collected(fn, at, pos, v, q)
                 \/ /\ v \in alive
                    /\ q \in Nat /\ BlockFrom(at) <= q /\ q < UsePoint(FirstIndex(fn, at) + pos)
  /\ phase = "done" => at = 0

(* What has been counted and what lies ahead is all there is to count.     *)
TouchesSoFar ==
  /\ touches \in [VRegs -> Nat]
  /\ phase = "sweep" => \A v \in VRegs : touches[v] = 0
  /\ phase \in {"open", "done"} =>
       \A v \in VRegs : touches[v] + SumFirst(NamingPerBlock(fn, v), at) = Touches(fn, v)
  /\ phase = "walk" =>
       \A v \in VRegs :
         touches[v] + SumFirst(NamingIn(fn, at, v), pos) + SumFirst(NamingPerBlock(fn, v), at - 1)
           = Touches(fn, v)

WalkInv == SweepInv /\ SetsWanted /\ RangesSoFar /\ TouchesSoFar

LEMMA NamingCounts ==
  ASSUME fn \in Funcs, NEW b \in Blocks(fn), NEW k \in 1..Len(fn.code[b]), NEW v
  PROVE  /\ Cardinality(fn.code[b][k].def \cap {v}) \in Nat
         /\ Cardinality({i \in DOMAIN fn.code[b][k].args : fn.code[b][k].args[i] = v}) \in Nat
<1> DEFINE instr == fn.code[b][k]
           hits == {i \in DOMAIN instr.args : instr.args[i] = v}
<1>1. instr \in MirInstr
  BY FunctionShape
<1>2. instr.args \in Seq(VRegs)
  BY <1>1 DEF MirInstr
<1> HIDE DEF instr
<1>3. IsFiniteSet(DOMAIN instr.args)
  BY <1>2, FS_Interval
<1>4. IsFiniteSet(hits)
  BY <1>3, FS_Subset
<1>5. IsFiniteSet(instr.def \cap {v})
  <2>1. IsFiniteSet({v}) /\ instr.def \cap {v} \in SUBSET {v}
    BY FS_Singleton
  <2> QED
    BY <2>1, FS_Subset
<1> QED
  BY <1>4, <1>5, FS_CardinalityType DEF instr

(* The sums over blocks and instructions are sums of natural numbers.      *)
LEMMA NamingSums ==
  ASSUME fn \in Funcs, NEW v \in VRegs
  PROVE  /\ SumFirst(NamingPerBlock(fn, v), 0) = 0
         /\ \A b \in 0..Last : SumFirst(NamingPerBlock(fn, v), b) \in Nat
         /\ \A b \in 1..Last :
              /\ SumFirst(NamingPerBlock(fn, v), b) =
                   SumFirst(NamingPerBlock(fn, v), b - 1)
                     + SumFirst(NamingIn(fn, b, v), Len(fn.code[b]))
              /\ SumFirst(NamingIn(fn, b, v), 0) = 0
              /\ \A k \in 0..Len(fn.code[b]) : SumFirst(NamingIn(fn, b, v), k) \in Nat
              /\ \A k \in 1..Len(fn.code[b]) :
                   /\ SumFirst(NamingIn(fn, b, v), k) =
                        SumFirst(NamingIn(fn, b, v), k - 1) + Naming(fn.code[b][k], v)
                   /\ Naming(fn.code[b][k], v) \in Nat
<1>1. Last \in Nat /\ Blocks(fn) = 1..Last
  BY FunctionShape
<1>2. ASSUME NEW b \in 1..Last
      PROVE  /\ Len(fn.code[b]) \in Nat /\ DOMAIN fn.code[b] = 1..Len(fn.code[b])
             /\ fn.code[b] \in Seq(MirInstr)
  BY <1>1, FunctionShape
<1>3. ASSUME NEW b \in 1..Last, NEW k \in 1..Len(fn.code[b])
      PROVE  Naming(fn.code[b][k], v) \in Nat
  <2>1. b \in Blocks(fn)
    BY <1>1
  <2>2. /\ Cardinality(fn.code[b][k].def \cap {v}) \in Nat
        /\ Cardinality({i \in DOMAIN fn.code[b][k].args : fn.code[b][k].args[i] = v}) \in Nat
    BY <2>1, NamingCounts
  <2> QED
    BY <2>2 DEF Naming
<1>4. ASSUME NEW b \in 1..Last
      PROVE  /\ NamingIn(fn, b, v) \in Seq(Nat)
             /\ Len(NamingIn(fn, b, v)) = Len(fn.code[b])
             /\ \A k \in 1..Len(fn.code[b]) : NamingIn(fn, b, v)[k] = Naming(fn.code[b][k], v)
  BY <1>2, <1>3 DEF NamingIn
<1>5. ASSUME NEW b \in 1..Last
      PROVE  /\ SumFirst(NamingIn(fn, b, v), 0) = 0
             /\ \A k \in 0..Len(fn.code[b]) : SumFirst(NamingIn(fn, b, v), k) \in Nat
             /\ \A k \in 1..Len(fn.code[b]) :
                  SumFirst(NamingIn(fn, b, v), k) =
                    SumFirst(NamingIn(fn, b, v), k - 1) + Naming(fn.code[b][k], v)
  BY <1>4, SumFirstSteps
<1>6. \A b \in 1..Last : SumFirst(NamingIn(fn, b, v), Len(fn.code[b])) \in Nat
  <2>1. \A b \in 1..Last : Len(fn.code[b]) \in 0..Len(fn.code[b])
    BY <1>2
  <2> QED
    BY <1>5, <2>1
<1>7. /\ NamingPerBlock(fn, v) \in Seq(Nat)
      /\ Len(NamingPerBlock(fn, v)) = Last
      /\ \A b \in 1..Last :
           NamingPerBlock(fn, v)[b] = SumFirst(NamingIn(fn, b, v), Len(fn.code[b]))
  BY <1>1, <1>6 DEF NamingPerBlock
<1>8. /\ SumFirst(NamingPerBlock(fn, v), 0) = 0
      /\ \A b \in 0..Last : SumFirst(NamingPerBlock(fn, v), b) \in Nat
      /\ \A b \in 1..Last : SumFirst(NamingPerBlock(fn, v), b) =
           SumFirst(NamingPerBlock(fn, v), b - 1) + NamingPerBlock(fn, v)[b]
  BY <1>7, SumFirstSteps
<1> QED
  BY <1>3, <1>5, <1>7, <1>8

LEMMA NoRange ==
  WellFormed(<<>>) /\ \A q : q \notin Points(<<>>)
BY DEF WellFormed, Ranges, Points

LEMMA WalkInit == ASSUME Init PROVE WalkInv
<1>1. SweepInv
  BY SweepInit
<1>2. SetsWanted
  BY DEF Init, SetsWanted
<1>3. RangesSoFar
  BY NoRange DEF Init, RangesSoFar
<1>4. TouchesSoFar
  BY DEF Init, TouchesSoFar
<1> QED
  BY <1>1, <1>2, <1>3, <1>4 DEF WalkInv

LEMMA SweepKeepsRanges ==
  ASSUME WalkInv, SweepBlock \/ AnotherPass
  PROVE  RangesSoFar' /\ TouchesSoFar'
<1>1. phase = "sweep" /\ phase' = "sweep" /\ ranges' = ranges /\ touches' = touches
  BY DEF SweepBlock, AnotherPass
<1> QED
  BY <1>1 DEF WalkInv, RangesSoFar, TouchesSoFar

LEMMA SettledKeepsRanges ==
  ASSUME WalkInv, Settled
  PROVE  RangesSoFar' /\ TouchesSoFar'
<1>1. /\ phase = "sweep" /\ phase' = "open" /\ at' = Last
      /\ ranges' = ranges /\ touches' = touches /\ fn' = fn
  BY DEF Settled
<1>2. fn \in Funcs /\ Last \in Nat /\ Blocks(fn) = 1..Last
  BY BlockNumbers DEF WalkInv, SweepInv
<1>3. \A v, q : ~Collected(fn, Last + 1, 0, v, q)
  BY <1>2 DEF Collected
<1>4. RangesSoFar'
  BY <1>1, <1>3, NoRange DEF WalkInv, RangesSoFar
<1>5. ASSUME NEW v \in VRegs
      PROVE  Touches(fn, v) = SumFirst(NamingPerBlock(fn, v), Last) /\ Touches(fn, v) \in Nat
  <2>1. Touches(fn, v) = SumFirst(NamingPerBlock(fn, v), Last)
    BY DEF Touches, NamingPerBlock, Last
  <2> QED
    BY <1>2, <2>1, NamingSums
<1>6. TouchesSoFar'
  BY <1>1, <1>5 DEF WalkInv, TouchesSoFar
<1> QED
  BY <1>4, <1>6

LEMMA OpenKeepsRanges ==
  ASSUME WalkInv, OpenBlock
  PROVE  RangesSoFar' /\ TouchesSoFar'
<1>1. /\ phase = "open" /\ phase' = "walk" /\ at' = at /\ fn' = fn /\ touches' = touches
      /\ at \in Blocks(fn) /\ at \in 1..Last
      /\ pos' = Len(fn.code[at]) /\ alive' = out[at]
      /\ ranges' = [v \in VRegs |-> IF v \in out[at]
                                    THEN AddRange(ranges[v], BlockFrom(at), BlockTo(at))
                                    ELSE ranges[v]]
      /\ fn \in Funcs
  BY BlockNumbers DEF OpenBlock, WalkInv, SweepInv
<1> DEFINE n == Len(fn.code[at])
           F == FirstIndex(fn, at)
<1>2. n \in Nat /\ F \in Nat /\ BlockFrom(at) = 2 * F /\ BlockTo(at) = 2 * (F + n)
      /\ UsePoint(F + n) = 2 * (F + n)
  BY <1>1, FunctionShape, Numbers DEF BlockFrom, BlockTo, UsePoint
<1>3. \A b \in Blocks(fn) : Equations(b)
  BY <1>1 DEF WalkInv, SweepInv, FixedPoint
<1>4. \A v : v \in out[at] <=> <<at, n + 1>> \in WantedAt(fn, v)
  BY <1>1, <1>3, SolutionIsWanted DEF EndOf, WalkInv
<1>5. \A v \in VRegs : /\ WellFormed(ranges[v])
                       /\ \A q : q \in Points(ranges[v]) <=> Collected(fn, at + 1, 0, v, q)
  BY <1>1 DEF WalkInv, RangesSoFar
<1>6. \A v, q : /\ Collected(fn, at, n, v, q) <=> Collected(fn, at + 1, 0, v, q)
                /\ Collected(fn, at, n, v, q) => q \in Nat /\ q >= 2 * (F + n)
  <2>1. n \in 0..n
    BY <1>2
  <2> QED
    BY <1>1, <1>2, <2>1, CollectedSoFar
<1>7. ASSUME NEW v \in VRegs
      PROVE  /\ WellFormed(ranges'[v])
             /\ \A q : q \in Points(ranges'[v]) <=>
                  \/ Collected(fn, at, n, v, q)
                  \/ v \in out[at] /\ q \in Nat /\ BlockFrom(at) <= q /\ q < UsePoint(F + n)
  <2>1. CASE v \notin out[at]
    BY <1>1, <1>5, <1>6, <2>1
  <2>2. CASE v \in out[at]
    <3> DEFINE rs == ranges[v]
               from == BlockFrom(at)
               to == BlockTo(at)
    <3>1. from \in Nat /\ to \in Nat /\ WellFormed(rs) /\ to = UsePoint(F + n)
      BY <1>2, <1>5
    <3>2. \A q \in Points(rs) : q \in Nat /\ q >= to
      BY <1>2, <1>5, <1>6
    <3>3. \A q \in Points(rs) : q + 1 < to => q + 1 \in Points(rs)
      <4> HIDE DEF rs, to, from
      <4> QED
        BY <3>1, <3>2
    <3>4. ranges'[v] = AddRange(rs, from, to)
      BY <1>1, <2>2
    <3>5. \A q : q \in Points(rs) <=> Collected(fn, at, n, v, q)
      BY <1>5, <1>6
    <3> HIDE DEF rs, from, to
    <3>6. /\ WellFormed(ranges'[v])
          /\ \A q : q \in Points(ranges'[v]) <=>
               q \in Points(rs) \/ (q \in Nat /\ from <= q /\ q < to)
      BY <3>1, <3>3, <3>4, AddedRange
    <3> QED
      BY <2>2, <3>1, <3>5, <3>6 DEF from
  <2> QED
    BY <2>1, <2>2
<1>8. RangesSoFar'
  <2>1. n \in 0..n /\ (BlockFrom(at))' = BlockFrom(at)
    BY <1>1, <1>2 DEF BlockFrom
  <2> QED
    BY <1>1, <1>4, <1>7, <2>1 DEF RangesSoFar
<1>9. ASSUME NEW v \in VRegs
      PROVE  touches[v] + SumFirst(NamingIn(fn, at, v), n)
               + SumFirst(NamingPerBlock(fn, v), at - 1) = Touches(fn, v)
  <2>1. touches[v] + SumFirst(NamingPerBlock(fn, v), at) = Touches(fn, v) /\ touches[v] \in Nat
    BY <1>1 DEF WalkInv, TouchesSoFar
  <2>2. SumFirst(NamingPerBlock(fn, v), at) =
          SumFirst(NamingPerBlock(fn, v), at - 1) + SumFirst(NamingIn(fn, at, v), n)
    BY <1>1, NamingSums
  <2>3. /\ SumFirst(NamingPerBlock(fn, v), at - 1) \in Nat
        /\ SumFirst(NamingIn(fn, at, v), n) \in Nat
    <3>1. at - 1 \in 0..Last /\ n \in 0..n
      BY <1>1, <1>2, BlockNumbers
    <3> QED
      BY <1>1, <3>1, NamingSums
  <2> HIDE DEF n
  <2> QED
    BY <2>1, <2>2, <2>3
<1>10. TouchesSoFar'
  BY <1>1, <1>9 DEF WalkInv, TouchesSoFar
<1> QED
  BY <1>8, <1>10

LEMMA CloseKeepsRanges ==
  ASSUME WalkInv, CloseBlock
  PROVE  RangesSoFar' /\ TouchesSoFar'
<1>1. /\ phase = "walk" /\ pos = 0 /\ phase' = "open" /\ at' = at - 1 /\ fn' = fn
      /\ touches' = touches /\ ranges' = ranges
      /\ fn \in Funcs
  BY DEF CloseBlock, WalkInv, SweepInv
<1>2. at \in Blocks(fn) /\ at \in 1..Last /\ (at - 1) + 1 = at
  BY <1>1, BlockNumbers DEF WalkInv, RangesSoFar
<1>3. UsePoint(FirstIndex(fn, at) + 0) = BlockFrom(at) /\ BlockFrom(at) \in Nat
  BY <1>1, <1>2, Numbers DEF BlockFrom, UsePoint
<1>4. ASSUME NEW v \in VRegs, NEW q
      PROVE  q \in Points(ranges[v]) <=> Collected(fn, at, 0, v, q)
  <2>1. q \in Points(ranges[v]) <=>
          \/ Collected(fn, at, 0, v, q)
          \/ v \in alive /\ q \in Nat /\ BlockFrom(at) <= q /\ q < UsePoint(FirstIndex(fn, at) + 0)
    BY <1>1 DEF WalkInv, RangesSoFar
  <2>2. ~(q \in Nat /\ BlockFrom(at) <= q /\ q < UsePoint(FirstIndex(fn, at) + 0))
    BY <1>3
  <2> QED
    BY <2>1, <2>2
<1>5. RangesSoFar'
  BY <1>1, <1>2, <1>4 DEF WalkInv, RangesSoFar
<1>6. ASSUME NEW v \in VRegs
      PROVE  touches[v] + SumFirst(NamingPerBlock(fn, v), at - 1) = Touches(fn, v)
  <2>1. /\ touches[v] + SumFirst(NamingIn(fn, at, v), 0) + SumFirst(NamingPerBlock(fn, v), at - 1)
             = Touches(fn, v)
        /\ touches[v] \in Nat
    BY <1>1 DEF WalkInv, TouchesSoFar
  <2>2. SumFirst(NamingIn(fn, at, v), 0) = 0
    BY <1>1, <1>2, NamingSums
  <2> QED
    BY <2>1, <2>2
<1>7. TouchesSoFar'
  BY <1>1, <1>6 DEF WalkInv, TouchesSoFar
<1> QED
  BY <1>5, <1>7

LEMMA FinishKeepsRanges ==
  ASSUME WalkInv, Finish
  PROVE  RangesSoFar' /\ TouchesSoFar'
<1>1. /\ phase = "open" /\ at = 0 /\ phase' \in {"done", "defect"}
      /\ at' = at /\ fn' = fn /\ touches' = touches /\ ranges' = ranges
  BY DEF Finish
<1> QED
  BY <1>1 DEF WalkInv, RangesSoFar, TouchesSoFar

LEMMA InstrKeepsRanges ==
  ASSUME WalkInv, WalkInstr
  PROVE  RangesSoFar' /\ TouchesSoFar'
<1> DEFINE instr == fn.code[at][pos]
           F == FirstIndex(fn, at)
           i == F + pos - 1
<1>1. /\ phase = "walk" /\ phase' = "walk" /\ at' = at /\ fn' = fn /\ pos' = pos - 1
      /\ fn \in Funcs /\ pos > 0
      /\ alive' = (alive \ instr.def) \cup Reads(instr)
  BY DEF WalkInstr, WalkInv, SweepInv, AliveBefore
<1>2. at \in Blocks(fn) /\ at \in 1..Last /\ pos \in 1..Len(fn.code[at])
      /\ Len(fn.code[at]) \in Nat
  <2>1. at \in Blocks(fn) /\ pos \in 0..Len(fn.code[at])
    BY <1>1 DEF WalkInv, RangesSoFar
  <2> QED
    BY <1>1, <2>1, BlockNumbers
<1>3. F \in Nat /\ i \in Nat /\ BlockFrom(at) = 2 * F /\ BlockFrom(at) \in Nat
      /\ BlockFrom(at) <= 2 * i /\ UsePoint(F + pos) = 2 * i + 2 /\ UsePoint(F + (pos - 1)) = 2 * i
      /\ Index = i /\ DefPoint(Index) = 2 * i + 1
  BY <1>1, <1>2, Numbers DEF BlockFrom, UsePoint, DefPoint, Index
<1>4. ASSUME NEW v \in VRegs
      PROVE  <<at, pos>> \in WantedAt(fn, v) <=>
               v \in Reads(instr) \/ (v \in alive /\ v \notin instr.def)
  <2>1. v \in alive <=> <<at, pos + 1>> \in WantedAt(fn, v)
    BY <1>1 DEF WalkInv, RangesSoFar
  <2> QED
    BY <1>1, <1>2, <2>1, WantedSteps
<1>5. ASSUME NEW v \in VRegs
      PROVE  /\ WellFormed(ranges'[v])
             /\ \A q : q \in Points(ranges'[v]) <=>
                  \/ Collected(fn, at, pos - 1, v, q)
                  \/ /\ v \in alive'
                     /\ q \in Nat /\ BlockFrom(at) <= q /\ q < UsePoint(F + (pos - 1))
  <2> DEFINE rs == ranges[v]
             G == {q \in Nat : Collected(fn, at, pos, v, q)}
             R == Reads(instr)
             f == BlockFrom(at)
             u == ranges'[v]
  <2>1. /\ WellFormed(rs)
        /\ \A q : q \in Points(rs) <=>
             \/ Collected(fn, at, pos, v, q)
             \/ v \in alive /\ q \in Nat /\ f <= q /\ q < 2 * i + 2
        /\ v \in alive <=> <<at, pos + 1>> \in WantedAt(fn, v)
    BY <1>1, <1>3 DEF WalkInv, RangesSoFar
  <2>2. \A q : Collected(fn, at, pos, v, q) <=> q \in G
    <3>1. pos \in 0..Len(fn.code[at])
      BY <1>2
    <3> QED
      BY <1>1, <1>2, <3>1, CollectedSoFar
  <2>3. \A q \in G : q >= 2 * i + 2
    <3>1. pos \in 0..Len(fn.code[at])
      BY <1>2
    <3> QED
      BY <1>1, <1>2, <1>3, <3>1, CollectedSoFar
  <2>4. u = AfterVisit(rs, v, alive, instr.def, R, i, f)
    BY <1>3 DEF WalkInstr, Written, ReadUntil, AfterVisit, AfterWrite
  <2>5. Behind(G, rs, v, alive, i, f)
    BY <2>1, <2>2, <2>3 DEF Behind
  <2>6. i \in Nat /\ f \in Nat /\ f <= 2 * i
    BY <1>3
  <2>7. ASSUME NEW q
        PROVE  Collected(fn, at, pos - 1, v, q) <=>
                 \/ q \in G
                 \/ q = 2 * i /\ (v \in R \/ (v \in alive /\ v \notin instr.def))
                 \/ q = 2 * i + 1 /\ (v \in alive \/ v \in instr.def)
    <3>1. Collected(fn, at, pos - 1, v, q) <=> q \in G \/ GivesPoint(fn, at, pos, v, q)
      BY <1>1, <1>2, <2>2, CollectedSoFar
    <3>2. /\ UsePoint(FirstIndex(fn, at) + pos - 1) = 2 * i
          /\ DefPoint(FirstIndex(fn, at) + pos - 1) = 2 * i + 1
      BY DEF UsePoint, DefPoint
    <3>3. GivesPoint(fn, at, pos, v, q) <=>
                 \/ q = 2 * i /\ (v \in R \/ (v \in alive /\ v \notin instr.def))
                 \/ q = 2 * i + 1 /\ (v \in alive \/ v \in instr.def)
      BY <1>4, <2>1, <3>2 DEF GivesPoint
    <3> QED
      BY <3>1, <3>3
  <2>8. v \in alive' <=> v \in R \/ (v \in alive /\ v \notin instr.def)
    BY <1>1
  <2> DEFINE D == instr.def
  <2> HIDE DEF u, G, R, f, rs, i, D
  <2>11. /\ WellFormed(u)
         /\ \A q : q \in Points(u) <=>
              \/ q \in G
              \/ q = 2 * i /\ (v \in R \/ (v \in alive /\ v \notin D))
              \/ q = 2 * i + 1 /\ (v \in alive \/ v \in D)
              \/ (v \in R \/ (v \in alive /\ v \notin D)) /\ q \in Nat /\ f <= q /\ q < 2 * i
    BY <2>1, <2>4, <2>5, <2>6, RangesWalked DEF D
  <2> QED
    BY <1>3, <2>7, <2>8, <2>11 DEF D, u, f
<1>6. RangesSoFar'
  <2>1. (BlockFrom(at))' = BlockFrom(at) /\ pos - 1 \in 0..Len(fn.code[at]) /\ (pos - 1) + 1 = pos
    BY <1>1, <1>2 DEF BlockFrom
  <2>2. \A v \in VRegs : v \in alive' <=> <<at, pos>> \in WantedAt(fn, v)
    BY <1>1, <1>4
  <2> QED
    BY <1>1, <1>2, <1>5, <2>1, <2>2 DEF RangesSoFar
<1>7. ASSUME NEW v \in VRegs
      PROVE  touches[v] \in Nat /\ Naming(instr, v) \in Nat
             /\ touches'[v] = touches[v] + Naming(instr, v)
             /\ touches'[v] + SumFirst(NamingIn(fn, at, v), pos - 1)
                  + SumFirst(NamingPerBlock(fn, v), at - 1) = Touches(fn, v)
  <2>1. /\ touches[v] + SumFirst(NamingIn(fn, at, v), pos) + SumFirst(NamingPerBlock(fn, v), at - 1)
             = Touches(fn, v)
        /\ touches[v] \in Nat
    BY <1>1 DEF WalkInv, TouchesSoFar
  <2>2. /\ SumFirst(NamingIn(fn, at, v), pos) =
             SumFirst(NamingIn(fn, at, v), pos - 1) + Naming(instr, v)
        /\ Naming(instr, v) \in Nat
    BY <1>1, <1>2, NamingSums
  <2>3. /\ SumFirst(NamingIn(fn, at, v), pos - 1) \in Nat
        /\ SumFirst(NamingPerBlock(fn, v), at - 1) \in Nat
    <3>1. at - 1 \in 0..Last /\ pos - 1 \in 0..Len(fn.code[at])
      BY <1>2, BlockNumbers, <1>1
    <3> QED
      BY <1>1, <1>2, <3>1, NamingSums
  <2> DEFINE c == Cardinality(instr.def \cap {v})
             d == Cardinality({k \in DOMAIN instr.args : instr.args[k] = v})
  <2>4. touches'[v] = touches[v] + c + d /\ Naming(instr, v) = c + d
    BY DEF WalkInstr, Naming
  <2>5. c \in Nat /\ d \in Nat
    BY <1>1, <1>2, NamingCounts
  <2> HIDE DEF c, d, instr
  <2>6. touches'[v] = touches[v] + Naming(instr, v)
    BY <2>1, <2>4, <2>5
  <2> QED
    BY <2>1, <2>2, <2>3, <2>6
<1>8. TouchesSoFar'
  <2>1. touches' = [v \in VRegs |-> touches'[v]]
    BY DEF WalkInstr
  <2>2. touches' \in [VRegs -> Nat]
    <3>1. \A v \in VRegs : touches'[v] \in Nat
      BY <1>7
    <3> QED
      BY <2>1, <3>1
  <2> QED
    BY <1>1, <1>7, <2>2 DEF TouchesSoFar
<1> QED
  BY <1>6, <1>8

LEMMA NextKeepsWalkInv ==
  ASSUME WalkInv, [Next]_vars
  PROVE  WalkInv'
<1>1. SweepInv' /\ SetsWanted'
  BY NextKeepsSweepInv, NextKeepsSetsWanted DEF WalkInv
<1>2. RangesSoFar' /\ TouchesSoFar'
  <2>1. CASE Terminated \/ UNCHANGED vars
    BY <2>1 DEF Terminated, vars, WalkInv, RangesSoFar, TouchesSoFar, BlockFrom
  <2> QED
    BY <2>1, SweepKeepsRanges, SettledKeepsRanges, OpenKeepsRanges, InstrKeepsRanges,
       CloseKeepsRanges, FinishKeepsRanges DEF Next, Step
<1> QED
  BY <1>1, <1>2 DEF WalkInv

(* The walk's ranges and counts are those of the places behind it.         *)
THEOREM WalkInvariant == Spec => []WalkInv
<1>1. Init => WalkInv
  BY WalkInit
<1>2. WalkInv /\ [Next]_vars => WalkInv'
  BY NextKeepsWalkInv
<1> QED
  BY <1>1, <1>2, PTL DEF Spec

(* The finished intervals cover exactly the points at which the register's *)
(* value is wanted on some path, and count every operand that names it.    *)
THEOREM IntervalsAreExact == Spec => []IntervalsExact
<1>1. WalkInv => IntervalsExact
  <2> SUFFICES ASSUME WalkInv, phase = "done", NEW v \in VRegs
               PROVE  Points(ranges[v]) = LivePoints(fn, v) /\ touches[v] = Touches(fn, v)
    BY DEF IntervalsExact
  <2>1. fn \in Funcs /\ at = 0
    BY DEF WalkInv, SweepInv, RangesSoFar
  <2>2. \A q : q \in Points(ranges[v]) <=> Collected(fn, 1, 0, v, q)
    BY <2>1 DEF WalkInv, RangesSoFar
  <2>3. Points(ranges[v]) = LivePoints(fn, v)
    BY <2>1, <2>2, AllCollected
  <2>4. touches[v] + SumFirst(NamingPerBlock(fn, v), 0) = Touches(fn, v) /\ touches[v] \in Nat
    BY <2>1 DEF WalkInv, TouchesSoFar
  <2>5. SumFirst(NamingPerBlock(fn, v), 0) = 0
    BY <2>1, NamingSums
  <2> QED
    BY <2>3, <2>4, <2>5
<1> QED
  BY <1>1, WalkInvariant, PTL

(* The two-cursor intersection and the covers scan of the finished         *)
(* intervals agree with the sets of points they stand for.                 *)
THEOREM ListsAreSets == Spec => []ListsAsSets
<1>1. WalkInv => ListsAsSets
  <2> SUFFICES ASSUME WalkInv PROVE ListsAsSets
    OBVIOUS
  <2>1. \A v \in VRegs : WellFormed(ranges[v])
    BY DEF WalkInv, RangesSoFar
  <2>2. \A p \in 0..BlockTo(Last) : p \in Nat
    OBVIOUS
  <2> QED
    BY <2>1, <2>2, ScansAreSets DEF ListsAsSets
<1> QED
  BY <1>1, WalkInvariant, PTL
=============================================================================
