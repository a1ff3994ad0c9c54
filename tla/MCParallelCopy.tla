--------------------------- MODULE MCParallelCopy ---------------------------
(* Finite move lists for ParallelCopy.  Destinations are named 1, 2, ... in *)
(* phi order: any other naming of the registers is a renaming of one of     *)
(* these lists.                                                             *)
EXTENDS ParallelCopy

AllLists ==
  UNION {{[i \in 1..n |-> [dst |-> i, src |-> f[i]]] : f \in [1..n -> Regs \cup Imms]}
           : n \in Regs}

ForksEndLists == {ms \in AllLists : ForksEnd(ms)}
=============================================================================
