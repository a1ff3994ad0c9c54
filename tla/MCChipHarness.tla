---------------------------- MODULE MCChipHarness ----------------------------
(* The exchanges of run.go, shortened: one command, several with one line   *)
(* each, and commands ending in a state block.                              *)
EXTENDS ChipHarness

MCBatches == {<<"line">>, <<"line", "line">>, <<"line", "block">>, <<"block">>}
=============================================================================
