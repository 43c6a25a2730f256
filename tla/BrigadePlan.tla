---------------------------- MODULE BrigadePlan -----------------------------
(***************************************************************************)
(* The two representations of a task and what keeps them together          *)
(* (lisp/cmacs/cmacs-brigade-plan.el): the C task table, and a headline in *)
(* an org file that a person, the program and other machines all edit.     *)
(* Outbound, every accepted transition queues a render that an idle timer  *)
(* writes into the file.  Inbound, every save and every spawn re-adopts    *)
(* the whole file and reads each TODO keyword as a command.                *)
(*                                                                         *)
(* One plan file.  A headline is its keyword and its :BRIGADE-STATE:; the   *)
(* other runtime properties follow the same path.  Records queued for one  *)
(* task are applied in order in one change group, so only the last counts. *)
(* typed and lost are history variables.                                   *)
(***************************************************************************)
EXTENDS BrigadeTable

CONSTANTS
  Tasks,      \* task ids
  Active,     \* bound: the tasks the runner moves and people edit by hand; the
              \* others only come and go, which re-adopts the active ones
  Keys        \* keywords a person, here or elsewhere, may put on a headline

VARIABLES
  rt,         \* the C task table: id -> state, or "none"
  pending,    \* id -> state of the last record waiting to be rendered, or "none"
  buffer,     \* the plan's buffer: "none", "plain", or "plan" with the minor mode on
  text,       \* the headlines of the buffer
  disk,       \* the headlines of the file
  moved,      \* the file is not the one the buffer visited (or has conflict markers)
  typed,      \* tasks whose keyword in the buffer came from a person, not yet adopted
  lost        \* tasks whose last record was discarded unrendered

vars == <<rt, pending, buffer, text, disk, moved, typed, lost>>

file == <<buffer, text, disk, moved>>

Keywords == {"TODO", "NEXT", "INPROGRESS", "WAIT", "HOLD", "DONE", "FAILED", "CANCELLED"}

ASSUME PlanAssumption == Active \subseteq Tasks /\ Keys \subseteq Keywords

Absent == [kw |-> "", shown |-> "none"]

Entries == [kw : Keywords, shown : States \cup {"none"}] \cup {Absent}

\* cmacs-brigade-plan-state->keyword: several states share a keyword.
KeywordFor(s) ==
  CASE s = "queued"                       -> "NEXT"
    [] s \in {"starting", "running"}      -> "INPROGRESS"
    [] s = "waiting-input"                -> "WAIT"
    [] s \in {"blocked", "interrupted"}   -> "HOLD"
    [] s = "done"                         -> "DONE"
    [] s \in {"failed", "over-budget"}    -> "FAILED"
    [] s = "cancelled"                    -> "CANCELLED"
    [] OTHER                              -> "TODO"

\* cmacs-brigade-plan-keyword->command: what a person means by each.
Command(kw) ==
  CASE kw = "NEXT"       -> "queued"
    [] kw = "INPROGRESS" -> "running"
    [] kw = "WAIT"       -> "waiting-input"
    [] kw = "HOLD"       -> "blocked"
    [] kw = "DONE"       -> "done"
    [] kw = "FAILED"     -> "failed"
    [] kw = "CANCELLED"  -> "cancelled"
    [] OTHER             -> "draft"

\* cmacs-brigade-plan--restore-entry: the state a headline records, and the mutant
\* that comes back as a fresh draft.
RecordedFresh(e) == "draft"

Recorded(e) == IF e.shown = "none" THEN "draft" ELSE Restored(e.shown)

\* cmacs-brigade-plan--adopt-entry, of a headline e whose record is in state r and
\* has p waiting to be rendered.  A record that did not exist is restored first;
\* then the keyword is a request, and a refused one is put back, which the mutant
\* forgets.
AdoptEntryKept(r, e, p) ==
  LET from == IF r = "none" THEN Recorded(e) ELSE r
      want == Command(e.kw)
      ok   == CanTransition(from, want)
  IN [rt   |-> IF ok THEN want ELSE from,
      pend |-> IF ok /\ want # from THEN want ELSE p,
      kw   |-> e.kw]

AdoptEntry(r, e, p) ==
  LET from == IF r = "none" THEN Recorded(e) ELSE r
      want == Command(e.kw)
      ok   == CanTransition(from, want)
  IN [rt   |-> IF ok THEN want ELSE from,
      pend |-> IF ok /\ want # from THEN want ELSE p,
      kw   |-> IF ok THEN e.kw ELSE KeywordFor(from)]

\* cmacs-brigade-plan-adopt: every headline of the buffer.
AdoptOne(x) ==
  LET d == AdoptEntry(x.rt, x.e, x.pend)
  IN IF x.e = Absent THEN x
     ELSE [rt |-> d.rt, pend |-> d.pend, e |-> [x.e EXCEPT !.kw = d.kw]]

Adopt(a) == [t \in Tasks |-> AdoptOne(a[t])]

\* The table, the queue and the headlines h side by side, as Adopt reads them.
With(h) == [t \in Tasks |-> [rt |-> rt[t], pend |-> pending[t], e |-> h[t]]]

Set(a) ==
  /\ rt' = [t \in Tasks |-> a[t].rt]
  /\ pending' = [t \in Tasks |-> a[t].pend]
  /\ text' = [t \in Tasks |-> a[t].e]

\* The headlines a command works on: find-file-noselect visits a closed file.
Visited == IF buffer = "none" THEN disk ELSE text

Opened == IF buffer = "none" THEN "plain" ELSE buffer

\* save-buffer followed by cmacs-brigade-plan-adopt, which the after-save hook of
\* the minor mode has already called once.
SavedAndAdopted(a) == IF buffer = "plan" THEN Adopt(Adopt(a)) ELSE Adopt(a)

\* Keywords that come with the file and were not written by a render or an adopt.
FromFile == {t \in Tasks : disk[t] # Absent /\ disk[t].kw # KeywordFor(rt[t])}

Unadopted == IF buffer = "none" THEN FromFile ELSE typed
-----------------------------------------------------------------------------
Init ==
  /\ rt = [t \in Tasks |-> "none"]
  /\ pending = [t \in Tasks |-> "none"]
  /\ buffer = "none" /\ moved = FALSE
  /\ text = [t \in Tasks |-> Absent] /\ disk = text
  /\ typed = {} /\ lost = {}

\* The targets the runner and the dashboard pass to cmacs-brigade-task-transition.
Requests == {"queued", "starting", "running", "waiting-input", "done", "failed", "cancelled"}

\* Mutant: the render machinery has no caller.
TransitionUnnoted(t, to) ==
  /\ rt[t] # "none"
  /\ CanTransition(rt[t], to)
  /\ rt' = [rt EXCEPT ![t] = to]
  /\ UNCHANGED <<pending, file, typed, lost>>

\* cmacs-brigade-plan--note-transition: advice on the transition queues a render of
\* what it returned, unless it was refused.
Transition(t, to) ==
  /\ rt[t] # "none"
  /\ CanTransition(rt[t], to)
  /\ rt' = [rt EXCEPT ![t] = to]
  /\ pending' = [pending EXCEPT ![t] = to]
  /\ UNCHANGED <<file, typed, lost>>

\* A progress report queues a render too.
Progress(t) ==
  /\ rt[t] # "none"
  /\ pending' = [pending EXCEPT ![t] = rt[t]]
  /\ UNCHANGED <<rt, file, typed, lost>>

\* cmacs-brigade-plan--drain, from the idle timer: the queue is emptied first, then
\* render writes the headlines it finds and saves without the hooks, or gives up on
\* a file that changed underneath.  The mutant never gives up.
DrainForcing ==
  LET applied == {t \in Tasks : pending[t] # "none" /\ Visited[t] # Absent}
  IN /\ \E t \in Tasks : pending[t] # "none"
     /\ pending' = [t \in Tasks |-> "none"]
     /\ buffer' = Opened
     /\ text' = [t \in Tasks |-> IF t \in applied
                                 THEN [kw |-> KeywordFor(pending[t]), shown |-> pending[t]]
                                 ELSE Visited[t]]
     /\ disk' = IF applied = {} THEN disk ELSE text'
     /\ typed' = Unadopted \ applied
     /\ lost' = lost \ applied
     /\ UNCHANGED <<rt, moved>>

Drain ==
  LET applied == {t \in Tasks : pending[t] # "none" /\ Visited[t] # Absent}
  IN /\ \E t \in Tasks : pending[t] # "none"
     /\ pending' = [t \in Tasks |-> "none"]
     /\ IF moved
        THEN /\ lost' = lost \cup applied
             /\ UNCHANGED <<buffer, text, disk, typed>>
        ELSE /\ buffer' = Opened
             /\ text' = [t \in Tasks |->
                           IF t \in applied
                           THEN [kw |-> KeywordFor(pending[t]), shown |-> pending[t]]
                           ELSE Visited[t]]
             /\ disk' = IF applied = {} THEN disk ELSE text'
             /\ typed' = Unadopted \ applied
             /\ lost' = lost \ applied
     /\ UNCHANGED <<rt, moved>>

\* cmacs-brigade-plan-append-task, and the same lines in cmacs-brigade-subagent-spawn
\* and the scheduler: a TODO headline at the end, a save, an adopt of the whole file,
\* and the new task queued when it is to be started.  A spawn into a file that
\* changed underneath asks the user first.
Append(t, start) ==
  LET h == [Visited EXCEPT ![t] = [kw |-> "TODO", shown |-> "none"]]
      a == SavedAndAdopted(With(h))
  IN /\ rt[t] = "none" /\ pending[t] = "none" /\ Visited[t] = Absent /\ disk[t] = Absent
     /\ ~moved
     /\ Set(IF start THEN [a EXCEPT ![t].rt = "queued", ![t].pend = "queued"] ELSE a)
     /\ disk' = h
     /\ buffer' = Opened
     /\ typed' = {}
     /\ UNCHANGED <<moved, lost>>

\* A property edited from the dashboard: the same save and adopt.
EditProperty ==
  /\ ~moved /\ \E t \in Tasks : disk[t] # Absent
  /\ Set(SavedAndAdopted(With(Visited)))
  /\ disk' = Visited
  /\ buffer' = Opened
  /\ typed' = {}
  /\ UNCHANGED <<moved, lost>>

\* cmacs-brigade-plan-adopt and cmacs-brigade-start-plan as commands: no save.
AdoptBuffer ==
  /\ buffer # "none"
  /\ Set(Adopt(With(text)))
  /\ typed' = {}
  /\ UNCHANGED <<buffer, disk, moved, lost>>

\* cmacs-brigade-dashboard-delete: stop the task, cut its headline, save, forget.
Delete(t) ==
  LET h == [Visited EXCEPT ![t] = Absent]
      b == [With(h) EXCEPT ![t].pend = IF rt[t] \in {"running", "starting", "queued"}
                                       THEN "cancelled" ELSE @]
      a == IF buffer = "plan" THEN Adopt(b) ELSE b
  IN /\ rt[t] # "none" /\ disk[t] # Absent /\ ~moved
     /\ Set([a EXCEPT ![t].rt = "none"])
     /\ disk' = h
     /\ buffer' = Opened
     /\ typed' = IF buffer = "plan" THEN {} ELSE Unadopted \ {t}
     /\ lost' = lost \ {t}
     /\ UNCHANGED moved
-----------------------------------------------------------------------------
(* What a person does to the file.                                         *)

\* Visiting the plan from the dashboard turns the minor mode on.
Visit ==
  /\ buffer # "plan"
  /\ buffer' = "plan"
  /\ text' = Visited
  /\ typed' = Unadopted
  /\ UNCHANGED <<rt, pending, disk, moved, lost>>

\* Typing a new headline.
Write(t, kw) ==
  /\ buffer # "none"
  /\ rt[t] = "none" /\ pending[t] = "none" /\ text[t] = Absent /\ disk[t] = Absent
  /\ text' = [text EXCEPT ![t] = [kw |-> kw, shown |-> "none"]]
  /\ typed' = typed \cup {t}
  /\ UNCHANGED <<rt, pending, buffer, disk, moved, lost>>

\* Changing a keyword as text, or with C-c C-t where the mode is off.
Type(t, kw) ==
  /\ buffer # "none" /\ text[t] # Absent /\ text[t].kw # kw
  /\ text' = [text EXCEPT ![t].kw = kw]
  /\ typed' = typed \cup {t}
  /\ UNCHANGED <<rt, pending, buffer, disk, moved, lost>>

\* cmacs-brigade-plan--after-todo: C-c C-t adopts the one entry at once.
Todo(t, kw) ==
  LET d == AdoptEntry(rt[t], [text[t] EXCEPT !.kw = kw], pending[t])
  IN /\ buffer = "plan" /\ text[t] # Absent /\ text[t].kw # kw
     /\ rt' = [rt EXCEPT ![t] = d.rt]
     /\ pending' = [pending EXCEPT ![t] = d.pend]
     /\ text' = [text EXCEPT ![t].kw = d.kw]
     /\ typed' = typed \ {t}
     /\ UNCHANGED <<buffer, disk, moved, lost>>

\* cmacs-brigade-plan--after-save: the hook adopts after the file is written.
Save ==
  /\ buffer # "none"
  /\ disk' = text
  /\ moved' = FALSE
  /\ IF buffer = "plan"
     THEN Set(Adopt(With(text))) /\ typed' = {}
     ELSE UNCHANGED <<rt, pending, text, typed>>
  /\ UNCHANGED <<buffer, lost>>

\* revert-buffer restarts the major mode, which turns the minor mode off.
Revert ==
  /\ buffer # "none"
  /\ buffer' = "plain" /\ text' = disk /\ moved' = FALSE
  /\ typed' = FromFile
  /\ UNCHANGED <<rt, pending, disk, lost>>

Kill ==
  /\ buffer # "none"
  /\ buffer' = "none" /\ text' = [t \in Tasks |-> Absent] /\ moved' = FALSE
  /\ typed' = {}
  /\ UNCHANGED <<rt, pending, disk, lost>>

\* Another machine, or git: a headline's keyword changes in the file.
Elsewhere(t, kw) ==
  /\ disk[t] # Absent /\ disk[t].kw # kw
  /\ disk' = [disk EXCEPT ![t].kw = kw]
  /\ moved' = (buffer # "none")
  /\ UNCHANGED <<rt, pending, buffer, text, typed, lost>>

\* The editor stops, at any point, and starts again: the table, the queue and the
\* buffers are gone, and cmacs-brigade-plan-restore adopts the file, saves it when
\* adopting changed it, and closes it.
Restart ==
  LET fresh == [t \in Tasks |-> [rt |-> "none", pend |-> "none", e |-> disk[t]]]
      a     == Adopt(fresh)
  IN /\ buffer' = "none" /\ text' = [t \in Tasks |-> Absent] /\ moved' = FALSE
     /\ typed' = {} /\ lost' = {}
     /\ rt' = [t \in Tasks |-> a[t].rt]
     /\ pending' = [t \in Tasks |-> a[t].pend]
     /\ disk' = [t \in Tasks |-> a[t].e]
-----------------------------------------------------------------------------
Next ==
  \/ \E t \in Tasks : Delete(t) \/ \E start \in BOOLEAN : Append(t, start)
  \/ \E t \in Active :
       \/ \E to \in Requests : Transition(t, to)
       \/ Progress(t)
       \/ \E kw \in Keys : Write(t, kw) \/ Type(t, kw) \/ Todo(t, kw) \/ Elsewhere(t, kw)
  \/ Drain \/ EditProperty \/ AdoptBuffer
  \/ Visit \/ Save \/ Revert \/ Kill \/ Restart

Spec == Init /\ [][Next]_vars
-----------------------------------------------------------------------------
\* Type invariant.
TypeOK ==
  /\ rt \in [Tasks -> States \cup {"none"}]
  /\ pending \in [Tasks -> States \cup {"none"}]
  /\ buffer \in {"none", "plain", "plan"} /\ moved \in BOOLEAN
  /\ text \in [Tasks -> Entries] /\ disk \in [Tasks -> Entries]
  /\ typed \subseteq Tasks /\ lost \subseteq Tasks

\* "The org side is what carries a task's history across a restart": unless a render
\* is waiting or was given up, a restart would find in the file exactly what the
\* table says of the task, a live task counting as interrupted.
FileKeepsHistory ==
  \A t \in Tasks :
    rt[t] # "none" /\ disk[t] # Absent /\ pending[t] = "none" /\ t \notin lost
      => Recorded(disk[t]) = Restored(rt[t])

\* "Leaving it would show a state the task is not in": the keyword of every headline
\* in the buffer is the projection of the task's state, unless a person has just
\* put it there or a render is waiting or was given up.
KeywordTruth ==
  \A t \in Tasks :
    buffer # "none" /\ text[t] # Absent
      => \/ text[t].kw = KeywordFor(rt[t])
         \/ pending[t] # "none" \/ t \in typed \/ t \in lost

\* "Reopening cmacs would destroy the outcome the plan existed to record": a finished
\* task that the file shows as finished is finished after a restart, and its
\* headline is untouched.
OutcomeSurvives ==
  [][Restart => \A t \in Tasks :
       disk[t].shown \in Terminal /\ disk[t].kw = KeywordFor(disk[t].shown)
         => rt'[t] = disk[t].shown /\ disk'[t] = disk[t]]_vars

\* "Nothing is resumed automatically": whatever the file says, property and keyword
\* together, no task is live after a restart.
NothingResumed ==
  [][Restart => \A t \in Tasks : rt'[t] \notin Live]_vars

\* "A stale buffer refuses to render": what arrived from elsewhere stays in the file
\* until the user reverts the buffer or confirms saving over it.
ForeignEditsKept ==
  [][moved => \/ UNCHANGED disk
              \/ Save \/ Restart
              \/ \E t \in Tasks, kw \in Keys : Elsewhere(t, kw)]_vars
-----------------------------------------------------------------------------
(* What the documentation says that the code does not do.                  *)

\* "An unrelated spawn cannot strand a task that is waiting to be answered": adding a
\* task to the plan leaves another one that waits waiting, or queued for its answer,
\* unless a person has just changed its keyword.
SpawnStrandsNone ==
  [][\A t, u \in Tasks :
       Append(t, TRUE) /\ u # t /\ rt[u] = "waiting-input" /\ u \notin typed
         => rt'[u] \in {"waiting-input", "queued"}]_vars
=============================================================================
