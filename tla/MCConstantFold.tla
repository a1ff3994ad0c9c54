--------------------------- MODULE MCConstantFold ---------------------------
(* Every width scaled: an int of four bits and a long long of eight, with  *)
(* whole numbers exact to six, so that a product of two operands passes    *)
(* the machine's own width as 2^53 * 2^53 passes 2^64.                     *)
EXTENDS ConstantFold

MCLiterals == 0 .. 18 \cup {31, 32, 33, 62, 63, 64, 65}
=============================================================================
