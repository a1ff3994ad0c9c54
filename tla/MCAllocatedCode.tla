-------------------------- MODULE MCAllocatedCode ---------------------------
(* Finite programs for AllocatedCode: straight lines, loops, a loop that    *)
(* writes a value again, calls in and out of loops, and branches that join. *)
EXTENDS AllocatedCode, MCLinearScan

(* A value is written on one of two ways to its reader.                     *)
Joining(c) ==
  [code |-> <<SubSeq(c, 1, 2), <<c[3]>>, <<Op(1, <<2>>)>>, SubSeq(c, 4, 5)>>,
   succs |-> <<{2, 3}, {4}, {4}, {}>>]

(* A call in a loop, reached with the values of the round before.           *)
LoopCalling(c) ==
  [code |-> <<SubSeq(c, 1, 2), <<Jal, c[3], c[4], c[5]>>, <<c[5]>>>>,
   succs |-> <<{2}, {2, 3}, {}>>]

(* One instruction reads and writes a value that had to leave its register. *)
Updating(c) ==
  [code |-> <<SubSeq(c, 1, 4), <<Op(1, <<2, 1>>), Op(3, <<1>>), c[5], Sink(<<1, 2, 1>>)>>>>,
   succs |-> <<{2}, {2}>>]

Full(c) == Late(c) /\ Len(c[4].args) = 2

SomeChains == {c \in Chains : Full(c)}

Compiled(shape, k, cfg, recursive, above) ==
  [func |-> shape, input |-> Scanned(shape, k, cfg), recursive |-> recursive, above |-> above]

MCPrograms ==
  {Compiled(c.func, c.constrained, c.config, FALSE, 0) : c \in Cases}
  \cup {Compiled(s, {}, cfg, FALSE, 1) :
     s \in UNION {{Loop(c), Redefined(c), Joining(c), Updating(c)} : c \in SomeChains},
     cfg \in {Tight, Leaf}}
  \cup {Compiled(s, {}, cfg, r, above) :
     s \in UNION {{Calling(c), LoopCalling(c)} : c \in SomeChains},
     cfg \in {Roomy, Tight}, r \in BOOLEAN, above \in 0..1}

MCCodeInputs == {p.input : p \in MCPrograms}
============================================================================
