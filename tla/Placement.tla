------------------------------ MODULE Placement ------------------------------
(***************************************************************************)
(* isel/placement.go: the values whose register may hold an infinity, over *)
(* which a bitwise instruction would stop the chip.                        *)
(***************************************************************************)
EXTENDS LlvmModule

(* Pointers, truth values and what is converted back from an integer lie    *)
(* within the range whatever the operands hold.                             *)
Placed == {"and", "or", "xor", "shl", "ashr", "icand", "icshl", "cmp", "trunc", "ptrtoint",
           "zext", "sext", "alloca"}

PlacedResult(fn, item) == item.do \in Placed \/ item.dst \in fn.pointers \cup {0}

(* The range is that of the operands. *)
CarriesPlacement(fn, item) ==
  item.do \in {"add", "sub", "mul", "select", "fptosi", "sitofp", "freeze", "fneg"}

UnplacedLiteral(v) == FALSE

Placing == INSTANCE ValueFlow
             WITH Stops <- PlacedResult, Carries <- CarriesPlacement, Seeded <- UnplacedLiteral

(* planPlacement *)
Unplaced(prog) == Placing!Reaches(prog)
=============================================================================
