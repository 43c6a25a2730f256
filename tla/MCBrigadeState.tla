--------------------------- MODULE MCBrigadeState ---------------------------
(***************************************************************************)
(* BrigadeState for TLC: interchangeable tasks, a clock that stops.        *)
(***************************************************************************)
EXTENDS BrigadeState, TLC

Symmetry == Permutations(Tasks)
=============================================================================
