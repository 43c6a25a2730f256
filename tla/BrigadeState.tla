---------------------------- MODULE BrigadeState ----------------------------
(***************************************************************************)
(* The task table of cmacs/ai-brigade/cmacs-brigade-state.c: one record    *)
(* per task id, changed only under the task mutex by the DEFUNs below, so  *)
(* each DEFUN is one atomic action.  A record keeps the fields another     *)
(* part of the brigade acts on: the state, the three timestamps, whether   *)
(* an error is recorded, and the accumulated cost.                         *)
(*                                                                         *)
(* viaQueue is a history variable: TRUE while a task has been in "queued"   *)
(* since it was created, unqueued or last stopped.                         *)
(***************************************************************************)
EXTENDS BrigadeTable, Naturals

CONSTANTS
  Tasks,      \* task ids
  Costs,      \* costs a report may carry
  MaxClock,   \* bound on the clock readings
  MaxCost     \* bound on the accumulated cost

ASSUME BoundsAssumption ==
  /\ MaxClock \in Nat \ {0}
  /\ MaxCost \in Nat
  /\ Costs \subseteq Nat

VARIABLES
  tasks,      \* id -> record, or NoTask
  clock,      \* the last reading of g_get_real_time
  viaQueue    \* history

vars == <<tasks, clock, viaQueue>>

NoTask == [state |-> "none", started |-> 0, ended |-> 0, queued |-> 0,
           error |-> FALSE, cost |-> 0]

NewTask == [NoTask EXCEPT !.state = "draft"]

Known(t) == tasks[t] # NoTask

Records == [state : States \cup {"none"}, started : Nat, ended : Nat,
            queued : Nat, error : BOOLEAN, cost : Nat]

Stopped == Terminal \cup {"interrupted"}

\* The three timestamps of record r after a move to "to" at time now, each with
\* a mutant.
StartedAt(r, to, now) ==
  IF r.state # "running" /\ to = "running" /\ r.started = 0 THEN now ELSE r.started

EndedAtKept(r, to, now) == IF to \in Terminal THEN now ELSE r.ended

EndedAt(r, to, now) ==
  IF to \in Terminal THEN now
  ELSE IF to \in {"queued", "draft"} THEN 0 ELSE r.ended

QueuedAtTouched(r, to, now) ==
  IF to \in {"queued", "waiting-input"} THEN now ELSE r.queued

QueuedAt(r, to, now) ==
  IF to \in {"queued", "waiting-input"} /\ r.state # to THEN now ELSE r.queued

\* What an accepted transition writes.
MoveRecord(r, to, detail, now) ==
  [r EXCEPT !.state   = to,
            !.started = StartedAt(r, to, now),
            !.ended   = EndedAt(r, to, now),
            !.queued  = QueuedAt(r, to, now),
            !.error   = detail \/ (@ /\ to \notin {"queued", "draft"})]

-----------------------------------------------------------------------------
Init ==
  /\ tasks = [t \in Tasks |-> NoTask]
  /\ clock = 0
  /\ viaQueue = [t \in Tasks |-> FALSE]

\* cmacs-brigade-task-adopt: an existing record keeps its runtime state.
TaskAdopt(t) ==
  /\ tasks' = [tasks EXCEPT ![t] = IF Known(t) THEN @ ELSE NewTask]
  /\ UNCHANGED <<clock, viaQueue>>

\* Mutant: a task that was live at exit comes back as it was.
TaskRestoreLive(t, name, c, err) ==
  /\ ~Known(t)
  /\ tasks' = [tasks EXCEPT ![t] = [NewTask EXCEPT !.state = FromName(name),
                                                   !.cost = c, !.error = err]]
  /\ viaQueue' = [viaQueue EXCEPT ![t] = tasks'[t].state = "queued"]
  /\ UNCHANGED clock

\* cmacs-brigade-task-adopt that created the record, then
\* cmacs-brigade-task-restore with what the plan file says of it.
TaskRestore(t, name, c, err) ==
  /\ ~Known(t)
  /\ tasks' = [tasks EXCEPT ![t] = [NewTask EXCEPT !.state = Restored(name),
                                                   !.cost = c, !.error = err]]
  /\ viaQueue' = [viaQueue EXCEPT ![t] = tasks'[t].state = "queued"]
  /\ UNCHANGED clock

\* cmacs-brigade-task-transition: refused without a record or against the table.
TaskTransition(t, name, detail) ==
  LET to == FromName(name) IN
  /\ Known(t)
  /\ CanTransition(tasks[t].state, to)
  /\ clock < MaxClock
  /\ clock' = clock + 1
  /\ tasks' = [tasks EXCEPT ![t] = MoveRecord(@, to, detail, clock')]
  /\ viaQueue' = [viaQueue EXCEPT ![t] =
                    (@ \/ to = "queued") /\ to \notin Stopped \cup {"draft"}]

\* cmacs-brigade-task-progress assigns the totals it is given.
TaskProgress(t, c) ==
  /\ Known(t)
  /\ tasks' = [tasks EXCEPT ![t].cost = c]
  /\ UNCHANGED <<clock, viaQueue>>

\* cmacs-brigade-task-progress-add accumulates one turn's figures.
TaskProgressAdd(t, c) ==
  /\ Known(t)
  /\ tasks[t].cost + c <= MaxCost
  /\ tasks' = [tasks EXCEPT ![t].cost = @ + c]
  /\ UNCHANGED <<clock, viaQueue>>

TaskForget(t) ==
  /\ Known(t)
  /\ tasks' = [tasks EXCEPT ![t] = NoTask]
  /\ viaQueue' = [viaQueue EXCEPT ![t] = FALSE]
  /\ UNCHANGED clock

\* cmacs-brigade-state-interrupt-live: one pass over the whole table.
InterruptLive ==
  /\ clock < MaxClock
  /\ clock' = clock + 1
  /\ tasks' = [t \in Tasks |->
                 IF tasks[t].state \in Live
                 THEN [tasks[t] EXCEPT !.state = "interrupted", !.ended = clock']
                 ELSE tasks[t]]
  /\ viaQueue' = [t \in Tasks |-> viaQueue[t] /\ tasks[t].state \notin Live]

Next ==
  \/ \E t \in Tasks :
       \/ TaskAdopt(t)
       \/ \E name \in States \cup {"unknown"}, c \in Costs, err \in BOOLEAN :
            TaskRestore(t, name, c, err)
       \/ \E name \in States \cup {"unknown"}, detail \in BOOLEAN :
            TaskTransition(t, name, detail)
       \/ \E c \in Costs : TaskProgress(t, c) \/ TaskProgressAdd(t, c)
       \/ TaskForget(t)
  \/ InterruptLive

Spec == Init /\ [][Next]_vars

-----------------------------------------------------------------------------
\* Type invariant: the table holds well-formed records and no record is from
\* the future.
TypeOK ==
  /\ tasks \in [Tasks -> Records]
  /\ clock \in Nat
  /\ viaQueue \in [Tasks -> BOOLEAN]
  /\ \A t \in Tasks : tasks[t].state = "none" => tasks[t] = NoTask

\* The concurrency cap is applied where "queued" becomes "starting", so it is
\* worth something only if every path to a live state passes the queue.  A
\* task that is live has been queued since it was created, unqueued or last
\* stopped (cmacs_brigade_state_can_transition, task-restore).
LiveOnlyThroughQueue ==
  \A t \in Tasks : tasks[t].state \in Live => viaQueue[t]

\* "Timestamps are set here rather than by the caller so they cannot disagree
\* with the state they describe": an end time is present only on a task that
\* has stopped, so a retried task never shows when its earlier run ended.
EndedAgreesWithState ==
  \A t \in Tasks :
    tasks[t].ended # 0 => tasks[t].state \in Stopped

PlacesKept ==
  \A t \in Tasks :
    tasks[t].state = "queued" /\ tasks'[t].state = "queued"
      => tasks'[t].queued = tasks[t].queued

\* A task that sits queued keeps ageing: as long as it stays in "queued" its
\* place in line is the one it took on entry, whatever else touches it.
QueuePlaceKept == [][PlacesKept]_vars

EndsAfterStart ==
  \A t \in Tasks :
    tasks[t].state \in Live /\ tasks'[t].state \in Terminal
      => tasks'[t].ended # 0 /\ tasks'[t].ended >= tasks'[t].started

\* A run that reaches a terminal state shows when it ended, and that is no
\* earlier than when it shows it started, retries included.
EndNotBeforeStart == [][EndsAfterStart]_vars
=============================================================================
