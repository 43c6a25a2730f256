--------------------------- MODULE MCBrigadePlan ----------------------------
(* BrigadePlan with two tasks in one plan file: adding or deleting one      *)
(* re-adopts the file, and so reads the keyword of the other.               *)
EXTENDS BrigadePlan

CONSTANTS t1, t2
=============================================================================
