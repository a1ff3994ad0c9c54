---------------------------- MODULE MCLinearScan ----------------------------
(* Finite inputs for LinearScan: the intervals of small functions, under    *)
(* configurations that fit, that spill, and that are refused.               *)
EXTENDS LinearScan

M == INSTANCE MirFunc

Op(d, a) == [args |-> a, def |-> {d}, dev |-> {}, call |-> FALSE]
Sink(a)  == [args |-> a, def |-> {}, dev |-> {}, call |-> FALSE]
Jal      == [args |-> <<>>, def |-> {}, dev |-> {}, call |-> TRUE]

(* Operand lists over the registers below n. *)
Picks(n) == {<<>>} \cup {<<i>> : i \in 1..n}
            \cup {p \in (1..n) \X (1..n) : p[1] < p[2]}

(* Four definitions and a last reader, in a chain. *)
Chains ==
  {<<Op(1, <<>>), Op(2, a2), Op(3, a3), Op(4, a4), Sink(a5)>> :
     a2 \in Picks(1), a3 \in Picks(2), a4 \in Picks(3), a5 \in Picks(4)}

(* The same with the second half the body of a loop, with v1 written again  *)
(* in the loop, and with a call between the halves.                         *)
Straight(c) == [code |-> <<c>>, succs |-> <<{}>>]
Loop(c) == [code |-> <<SubSeq(c, 1, 2), SubSeq(c, 3, 5)>>, succs |-> <<{2}, {2}>>]
Redefined(c) ==
  [code |-> <<SubSeq(c, 1, 3), <<c[5], Op(1, <<>>), c[4], c[5]>>>>, succs |-> <<{2}, {2}>>]
Calling(c) ==
  [code |-> <<SubSeq(c, 1, 2), <<Jal>> \o SubSeq(c, 3, 5)>>, succs |-> <<{2}, {}>>]

Late(c) == c[3].args # <<>> /\ c[4].args # <<>> /\ Len(c[5].args) = 2

LoopChains == {c \in Chains : Late(c)}

(* v1 leaves a hole that v2 starts in, so one register holds both when the  *)
(* busier v3 arrives; v4 is busiest of all and keeps the other register.    *)
Busy(n) == [i \in 1..n |-> Sink(<<4, 4, 4>>)]
Hollow(m, n, busy) ==
  <<Op(4, <<>>), Op(1, <<>>), Sink(<<1>>), Op(2, <<>>)>> \o Busy(m)
    \o <<Op(3, <<>>), Sink(busy), Sink(busy), Sink(<<2, 4, 4>>), Op(1, <<>>),
         Sink(<<3, 4, 4>>)>>
    \o Busy(n) \o <<Sink(<<1, 4>>)>>
Hollows == {Hollow(m, n, b) : m \in 1..2, n \in 1..2, b \in {<<3>>, <<3, 3>>}}

(* Short values come and go beside one in constant use.                     *)
Succession(busy, a, b) ==
  <<Op(4, <<>>), Op(1, <<>>), Op(2, <<>>), Sink(busy), a, Op(3, <<>>), Sink(busy), b,
    Sink(<<1, 4>>)>>
Successions ==
  {Succession(busy, a, b) : busy \in {<<1>>, <<1, 1>>},
     a \in {Sink(<<1, 2>>), Op(1, <<1, 2>>)}, b \in {Sink(<<1, 3>>), Sink(<<2, 3>>)}}

Config(p, r, s, b) == [pinned |-> p, reserved |-> r, scratch |-> s, base |-> b]

(* r0, r1 and r2 are general, 3 is sp and 4 is ra. *)
Roomy == Config({}, {3, 4}, <<2, 1>>, 0)
Tight == Config({0}, {3, 4}, <<2, 1>>, 1)
Leaf  == Config({0}, {}, <<2>>, 2)
Bare  == Config({}, {2, 3, 4}, <<>>, 0)

Cramped == Config({0}, {3, 4}, <<2>>, 0)
Packed == Config({0}, {3, 4}, <<2>>, 4)

IntervalOf(f, v) ==
  LET pts == M!LivePoints(f, v)
  IN  [points |-> pts, from |-> Min(pts \cup {99}), to |-> Max(pts \cup {-1}) + 1,
       touches |-> M!Touches(f, v)]

Scanned(f, constrained, c) ==
  [ivs |-> [v \in VRegs |-> IntervalOf(f, v)],
   instrs |-> {[args |-> i.args, def |-> i.def, call |-> i.call] : i \in M!InstrsOf(f)},
   constrained |-> constrained,
   pinned |-> c.pinned, reserved |-> c.reserved, scratch |-> c.scratch, base |-> c.base]

\* A function, the values that must stay in registers, and a configuration.
Case(f, k, c) == [func |-> f, constrained |-> k, config |-> c]

Cases ==
  {Case(Straight(c), {}, cfg) : c \in Chains, cfg \in {Roomy, Tight, Leaf, Bare}}
  \cup {Case(Straight(c), {2, 4}, cfg) : c \in LoopChains, cfg \in {Tight, Leaf}}
  \cup {Case(Loop(c), k, cfg) : c \in LoopChains, k \in {{}, {1, 3}},
                                cfg \in {Roomy, Tight, Leaf}}
  \cup {Case(Redefined(c), {}, cfg) : c \in LoopChains, cfg \in {Roomy, Tight, Leaf}}
  \cup {Case(Straight(c), {}, Cramped) : c \in Chains}
  \cup {Case(Straight(c), {}, cfg) : c \in Hollows \cup Successions,
                                     cfg \in {Roomy, Tight, Leaf, Cramped, Packed}}
  \cup {Case(Calling(c), {}, cfg) : c \in LoopChains, cfg \in {Roomy, Tight, Leaf}}

\* Scores are compared exactly.
ASSUME ScoresExact ==
  \A in \in Inputs, v \in VRegs :
    in.ivs[v].points # {} => ScoreUnit % Cardinality(in.ivs[v].points) = 0

MCNameLen == [r \in Registers |-> IF r = 2 THEN 3 ELSE 2]
============================================================================
