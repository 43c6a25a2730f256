---------------------------- MODULE BrigadeTable ----------------------------
(***************************************************************************)
(* The task states of the agent brigade and the table that says which      *)
(* moves between them are legal (cmacs/ai-brigade/cmacs-brigade-state.c).  *)
(* Every other brigade module asks this table, as every caller in the code *)
(* asks cmacs-brigade-task-transition.                                     *)
(***************************************************************************)

Terminal == {"done", "failed", "cancelled", "over-budget"}

Live == {"starting", "running", "waiting-input", "blocked"}

States == {"draft", "queued", "interrupted"} \cup Live \cup Terminal

\* A name that is none of the eleven parses as "draft".
FromName(name) == IF name \in States THEN name ELSE "draft"

\* The "to" column of the switch in cmacs_brigade_state_can_transition, for
\* every target but "cancelled", which is decided before the switch.
Listed(from, to) ==
  \/ from = "draft"         /\ to \in {"queued", "failed"}
  \/ from = "queued"        /\ to \in {"draft", "starting", "failed"}
  \/ from = "starting"      /\ to \in {"running", "waiting-input", "failed"}
  \/ from = "running"       /\ to \in {"waiting-input", "blocked", "done",
                                       "failed", "over-budget", "interrupted"}
  \/ from = "waiting-input" /\ to \in {"queued", "starting", "running", "done",
                                       "failed", "over-budget"}
  \/ from = "blocked"       /\ to \in {"running", "failed"}
  \/ from = "interrupted"   /\ to \in {"queued", "draft"}
  \/ from \in Terminal      /\ to \in {"queued", "draft"}

CanTransition(from, to) ==
  \/ from = to
  \/ to = "cancelled" /\ from \in Live \cup {"queued", "draft"}
  \/ to # "cancelled" /\ Listed(from, to)

\* Mutant: a task that was live at exit comes back live.
RestoredVerbatim(name) == FromName(name)

\* What cmacs-brigade-task-restore makes of a state read from a plan file: a
\* task that was live when the editor stopped is nobody's any more.
Restored(name) ==
  IF FromName(name) \in Live THEN "interrupted" ELSE FromName(name)
=============================================================================
