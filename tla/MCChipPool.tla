----------------------------- MODULE MCChipPool ------------------------------
(* Three tests, the first with two goroutines. *)
EXTENDS ChipPool

MCTestOf == [c \in Callers |-> IF c \in {"a1", "a2"} THEN "a" ELSE IF c = "b1" THEN "b" ELSE "c"]
=============================================================================
