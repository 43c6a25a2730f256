---------------------------- MODULE MCBrigadeRun ----------------------------
(***************************************************************************)
(* BrigadeRun for TLC.  Tasks that the constants do not tell apart are     *)
(* interchangeable.                                                        *)
(***************************************************************************)
EXTENDS BrigadeRun, TLC

Symmetry ==
  {p \in Permutations(Tasks) :
     \A S \in {Inproc, Large, Sessionless, NoAgent, NoWorker}, t \in Tasks :
        t \in S <=> p[t] \in S}
=============================================================================
