------------------------- MODULE BrigadeStateProofs -------------------------
(***************************************************************************)
(* Proofs about BrigadeState for any set of tasks, costs and bounds.       *)
(***************************************************************************)
EXTENDS BrigadeState, TLAPS

\* No start time lies in the future: with it, an end time taken from the clock
\* cannot precede a start time taken from it.
StartedInPast == \A t \in Tasks : tasks[t].started <= clock

\* A task in the queue is on record as having entered it: the induction needs
\* this where "queued" becomes "starting".
QueuedRecorded == \A t \in Tasks : tasks[t].state = "queued" => viaQueue[t]

\* The inductive invariant: the two safety invariants, the types they need, and
\* the bound on start times.
IInv ==
  /\ TypeOK
  /\ LiveOnlyThroughQueue
  /\ EndedAgreesWithState
  /\ StartedInPast
  /\ QueuedRecorded

\* A name is always read as one of the eleven states, and a restored task is
\* never live.
LEMMA NameTypes ==
  \A name : /\ FromName(name) \in States
            /\ Restored(name) \in States
            /\ Restored(name) \notin Live
            /\ FromName(name) # "none"
            /\ Restored(name) # "none"
BY DEF FromName, Restored, States, Live, Terminal

\* The table lets a task become live only from a live state or from "queued".
LEMMA IntoLive ==
  ASSUME NEW from \in States, NEW to \in States,
         CanTransition(from, to), to \in Live
  PROVE  from \in Live \cup {"queued"}
BY DEF CanTransition, Listed, States, Live, Terminal

\* The table lets a task leave a stopped state only for "queued" or "draft".
LEMMA OutOfStopped ==
  ASSUME NEW from \in Stopped, NEW to \in States, CanTransition(from, to)
  PROVE  to \in Stopped \cup {"queued", "draft"}
BY DEF CanTransition, Listed, States, Live, Terminal, Stopped

\* An accepted transition leaves a well-formed record in the state asked for.
LEMMA MoveRecordType ==
  ASSUME NEW r \in Records, NEW to \in States, NEW detail \in BOOLEAN,
         NEW now \in Nat
  PROVE  /\ MoveRecord(r, to, detail, now) \in Records
         /\ MoveRecord(r, to, detail, now).state = to
         /\ MoveRecord(r, to, detail, now).started \in {r.started, now}
         /\ MoveRecord(r, to, detail, now).ended =
              IF to \in Terminal THEN now
              ELSE IF to \in {"queued", "draft"} THEN 0 ELSE r.ended
BY DEF MoveRecord, StartedAt, EndedAt, QueuedAt, Records

\* The inductive invariant holds when the table is empty.
LEMMA InitIInv == Init => IInv
BY DEF Init, IInv, TypeOK, LiveOnlyThroughQueue, EndedAgreesWithState,
       StartedInPast, QueuedRecorded, NoTask, Records, States, Live, Terminal

\* Every DEFUN preserves the inductive invariant.
LEMMA NextIInv == IInv /\ [Next]_vars => IInv'
<1> SUFFICES ASSUME IInv, [Next]_vars PROVE IInv'
  OBVIOUS
<1> USE BoundsAssumption DEF IInv
<1>0. /\ NoTask \in Records
      /\ NewTask \in Records
      /\ NewTask.state = "draft" /\ NewTask.started = 0 /\ NewTask.ended = 0
  BY DEF NoTask, NewTask, Records, States
<1>1. ASSUME NEW t \in Tasks, TaskAdopt(t) PROVE IInv'
  BY <1>0, <1>1 DEF TaskAdopt, TypeOK, LiveOnlyThroughQueue, EndedAgreesWithState,
     StartedInPast, QueuedRecorded, Known, Live
<1>2. ASSUME NEW t \in Tasks, NEW name, NEW c \in Costs, NEW err \in BOOLEAN,
             TaskRestore(t, name, c, err)
      PROVE IInv'
  <2> DEFINE r == [NewTask EXCEPT !.state = Restored(name), !.cost = c, !.error = err]
  <2>1. /\ r \in Records
        /\ r.state = Restored(name)
        /\ r.started = 0 /\ r.ended = 0
    BY <1>0, NameTypes DEF Records
  <2>2. tasks' = [tasks EXCEPT ![t] = r] /\ clock' = clock
    BY <1>2 DEF TaskRestore
  <2>3. /\ viaQueue' \in [Tasks -> BOOLEAN]
        /\ \A u \in Tasks \ {t} : viaQueue'[u] = viaQueue[u]
        /\ tasks'[t].state = "queued" => viaQueue'[t]
    BY <1>2 DEF TaskRestore, TypeOK
  <2>4. Restored(name) \notin Live \cup {"none"}
    BY NameTypes
  <2> HIDE DEF r
  <2>5. TypeOK'
    BY <2>1, <2>2, <2>3, <2>4 DEF TypeOK
  <2>6. LiveOnlyThroughQueue' /\ QueuedRecorded'
    BY <2>1, <2>2, <2>3, <2>4 DEF TypeOK, LiveOnlyThroughQueue, QueuedRecorded
  <2>7. EndedAgreesWithState' /\ StartedInPast'
    BY <2>1, <2>2, <2>4 DEF TypeOK, EndedAgreesWithState, StartedInPast
  <2> QED
    BY <2>5, <2>6, <2>7
<1>3. ASSUME NEW t \in Tasks, NEW name, NEW detail \in BOOLEAN,
             TaskTransition(t, name, detail)
      PROVE IInv'
  <2> DEFINE to == FromName(name)
             r  == MoveRecord(tasks[t], to, detail, clock + 1)
  <2>1. /\ CanTransition(tasks[t].state, to) /\ Known(t)
        /\ clock' = clock + 1
        /\ tasks' = [tasks EXCEPT ![t] = r]
        /\ viaQueue' = [viaQueue EXCEPT ![t] =
             (@ \/ to = "queued") /\ to \notin Stopped \cup {"draft"}]
    BY <1>3 DEF TaskTransition
  <2>2. to \in States /\ tasks[t] \in Records /\ tasks[t].state \in States /\ clock' \in Nat
    BY <2>1, NameTypes DEF TypeOK, Known, Records
  <2>3. /\ r \in Records /\ r.state = to
        /\ r.started \in {tasks[t].started, clock + 1}
        /\ r.ended = IF to \in Terminal THEN clock + 1
                     ELSE IF to \in {"queued", "draft"} THEN 0 ELSE tasks[t].ended
    BY <2>1, <2>2, MoveRecordType
  <2> HIDE DEF r, to
  <2>4. TypeOK'
    <3>1. tasks' \in [Tasks -> Records]
      BY <2>1, <2>3 DEF TypeOK
    <3>2. viaQueue' \in [Tasks -> BOOLEAN]
      <4>1. ((viaQueue[t] \/ to = "queued") /\ to \notin Stopped \cup {"draft"}) \in BOOLEAN
        BY Zenon
      <4> QED
        BY <2>1, <4>1 DEF TypeOK
    <3>3. to # "none"
      BY NameTypes DEF to
    <3> QED
      BY <2>1, <2>2, <2>3, <3>1, <3>2, <3>3 DEF TypeOK
  <2>5. LiveOnlyThroughQueue' /\ QueuedRecorded'
    <3>1. ASSUME to \in Live PROVE viaQueue[t] \/ to = "queued"
      BY <2>1, <2>2, <3>1, IntoLive DEF LiveOnlyThroughQueue, QueuedRecorded
    <3>2. to \in Live \cup {"queued"} => to \notin Stopped \cup {"draft"}
      BY DEF Live, Stopped, Terminal
    <3> QED
      BY <2>1, <2>3, <3>1, <3>2 DEF LiveOnlyThroughQueue, QueuedRecorded, TypeOK, Live
  <2>6. EndedAgreesWithState'
    <3>1. ASSUME r.ended # 0 PROVE to \in Stopped
      BY <2>1, <2>2, <2>3, <3>1, OutOfStopped DEF EndedAgreesWithState, Stopped
    <3> QED
      BY <2>1, <2>3, <3>1 DEF EndedAgreesWithState, TypeOK
  <2>7. StartedInPast'
    BY <2>1, <2>2, <2>3 DEF StartedInPast, TypeOK, Records
  <2> QED
    BY <2>4, <2>5, <2>6, <2>7
<1>4. ASSUME NEW t \in Tasks, NEW c \in Costs, TaskProgress(t, c) \/ TaskProgressAdd(t, c)
      PROVE IInv'
  <2>1. PICK d \in Nat : tasks' = [tasks EXCEPT ![t].cost = d]
    BY <1>4 DEF TaskProgress, TaskProgressAdd, TypeOK, Records
  <2>2. UNCHANGED <<clock, viaQueue>> /\ Known(t)
    BY <1>4 DEF TaskProgress, TaskProgressAdd
  <2> QED
    BY <2>1, <2>2 DEF TypeOK, LiveOnlyThroughQueue, EndedAgreesWithState,
       StartedInPast, QueuedRecorded, Known, Records
<1>5. ASSUME NEW t \in Tasks, TaskForget(t) PROVE IInv'
  <2>1. /\ tasks' = [tasks EXCEPT ![t] = NoTask]
        /\ viaQueue' = [viaQueue EXCEPT ![t] = FALSE]
        /\ clock' = clock
    BY <1>5 DEF TaskForget
  <2>2. NoTask.state = "none" /\ NoTask.started = 0 /\ NoTask.ended = 0
    BY DEF NoTask
  <2>3. TypeOK'
    BY <1>0, <2>1 DEF TypeOK
  <2> QED
    BY <2>1, <2>2, <2>3 DEF TypeOK, LiveOnlyThroughQueue, EndedAgreesWithState,
       StartedInPast, QueuedRecorded, Live
<1>6. CASE InterruptLive
  <2> DEFINE r(t) == [tasks[t] EXCEPT !.state = "interrupted", !.ended = clock + 1]
  <2>1. /\ clock' = clock + 1
        /\ tasks' = [t \in Tasks |-> IF tasks[t].state \in Live THEN r(t) ELSE tasks[t]]
    BY <1>6 DEF InterruptLive
  <2>2. /\ viaQueue' \in [Tasks -> BOOLEAN]
        /\ \A t \in Tasks : tasks[t].state \notin Live => viaQueue'[t] = viaQueue[t]
    BY <1>6, Zenon DEF InterruptLive, TypeOK
  <2>3. ASSUME NEW t \in Tasks
        PROVE  /\ r(t) \in Records
               /\ r(t).state = "interrupted"
               /\ r(t).started = tasks[t].started
    <3>1. tasks[t] \in Records /\ clock + 1 \in Nat
      BY DEF TypeOK
    <3> QED
      BY <3>1 DEF Records, States
  <2> HIDE DEF r
  <2>4. TypeOK'
    <3>1. tasks' \in [Tasks -> Records]
      BY <2>1, <2>3 DEF TypeOK
    <3>2. \A t \in Tasks : tasks'[t].state = "none" => tasks'[t] = NoTask
      BY <2>1, <2>3 DEF TypeOK
    <3> QED
      BY <2>1, <2>2, <3>1, <3>2 DEF TypeOK
  <2>5. LiveOnlyThroughQueue' /\ QueuedRecorded'
    BY <2>1, <2>2, <2>3 DEF TypeOK, LiveOnlyThroughQueue, QueuedRecorded, Live
  <2>6. EndedAgreesWithState'
    BY <2>1, <2>3 DEF TypeOK, EndedAgreesWithState, Stopped
  <2>7. StartedInPast'
    BY <2>1, <2>3 DEF TypeOK, StartedInPast, Records
  <2> QED
    BY <2>4, <2>5, <2>6, <2>7
<1>7. CASE UNCHANGED vars
  BY <1>7 DEF vars, TypeOK, LiveOnlyThroughQueue, EndedAgreesWithState, StartedInPast,
     QueuedRecorded
<1> QED
  BY <1>1, <1>2, <1>3, <1>4, <1>5, <1>6, <1>7 DEF Next

\* Type correctness of the task table.
THEOREM TypeCorrect == Spec => []TypeOK
<1>1. IInv => TypeOK
  BY DEF IInv
<1> QED
  BY <1>1, InitIInv, NextIInv, PTL DEF Spec

\* For any number of tasks: no DEFUN, in any order, makes a task live that has
\* not been in the queue since it was created, unqueued or last stopped.
THEOREM CapIsNotBypassed == Spec => []LiveOnlyThroughQueue
<1>1. IInv => LiveOnlyThroughQueue
  BY DEF IInv
<1> QED
  BY <1>1, InitIInv, NextIInv, PTL DEF Spec

\* For any number of tasks: only a stopped task shows an end time.
THEOREM OutcomeIsCurrent == Spec => []EndedAgreesWithState
<1>1. IInv => EndedAgreesWithState
  BY DEF IInv
<1> QED
  BY <1>1, InitIInv, NextIInv, PTL DEF Spec

\* A step either leaves a task's record alone, creates or drops it, changes only
\* its cost, or moves it along the table with MoveRecord or to "interrupted".
LEMMA StepShape ==
  ASSUME TypeOK, Next, NEW t \in Tasks
  PROVE  \/ tasks'[t] = tasks[t]
         \/ ~Known(t) \/ tasks'[t] = NoTask
         \/ \E d \in Nat : tasks'[t] = [tasks[t] EXCEPT !.cost = d]
         \/ \E to \in States, detail \in BOOLEAN :
              /\ clock' = clock + 1
              /\ tasks'[t] = MoveRecord(tasks[t], to, detail, clock + 1)
         \/ tasks'[t].state = "interrupted"
<1> USE BoundsAssumption
<1>1. ASSUME NEW u \in Tasks, TaskAdopt(u) PROVE tasks'[t] = tasks[t] \/ ~Known(t)
  BY <1>1 DEF TaskAdopt, TypeOK
<1>2. ASSUME NEW u \in Tasks, NEW name, NEW c, NEW err, TaskRestore(u, name, c, err)
      PROVE tasks'[t] = tasks[t] \/ ~Known(t)
  BY <1>2 DEF TaskRestore, TypeOK
<1>3. ASSUME NEW u \in Tasks, NEW name, NEW detail \in BOOLEAN,
             TaskTransition(u, name, detail)
      PROVE  \/ tasks'[t] = tasks[t]
             \/ /\ clock' = clock + 1
                /\ tasks'[t] = MoveRecord(tasks[t], FromName(name), detail, clock + 1)
  BY <1>3 DEF TaskTransition, TypeOK
<1>4. ASSUME NEW u \in Tasks, NEW c \in Costs, TaskProgress(u, c) \/ TaskProgressAdd(u, c)
      PROVE  \/ tasks'[t] = tasks[t]
             \/ \E d \in Nat : tasks'[t] = [tasks[t] EXCEPT !.cost = d]
  <2>1. tasks[u].cost + c \in Nat /\ c \in Nat
    BY DEF TypeOK, Records
  <2>2. PICK d \in Nat : tasks' = [tasks EXCEPT ![u].cost = d]
    BY <1>4, <2>1 DEF TaskProgress, TaskProgressAdd
  <2> QED
    BY <2>2 DEF TypeOK
<1>5. ASSUME NEW u \in Tasks, TaskForget(u)
      PROVE tasks'[t] = tasks[t] \/ tasks'[t] = NoTask
  BY <1>5 DEF TaskForget, TypeOK
<1>6. ASSUME InterruptLive
      PROVE tasks'[t] = tasks[t] \/ tasks'[t].state = "interrupted"
  BY <1>6 DEF InterruptLive, TypeOK, Records
<1> QED
  BY <1>1, <1>2, <1>3, <1>4, <1>5, <1>6, NameTypes DEF Next

\* For any number of tasks: a queued task keeps its place in line until it
\* leaves the queue.
THEOREM PlaceIsKept == Spec => QueuePlaceKept
<1>1. IInv /\ [Next]_vars => [PlacesKept]_vars
  <2> SUFFICES ASSUME TypeOK, Next, NEW t \in Tasks,
                      tasks[t].state = "queued", tasks'[t].state = "queued"
               PROVE  tasks'[t].queued = tasks[t].queued
    BY DEF IInv, PlacesKept
  <2>1. Known(t) /\ tasks'[t] # NoTask /\ tasks[t] \in Records
    BY DEF Known, NoTask, TypeOK
  <2>2. ASSUME NEW to \in States, NEW detail \in BOOLEAN,
               tasks'[t] = MoveRecord(tasks[t], to, detail, clock + 1)
        PROVE  tasks'[t].queued = tasks[t].queued
    BY <2>1, <2>2 DEF MoveRecord, StartedAt, EndedAt, QueuedAt, Records
  <2>3. ASSUME NEW d \in Nat, tasks'[t] = [tasks[t] EXCEPT !.cost = d]
        PROVE  tasks'[t].queued = tasks[t].queued
    BY <2>1, <2>3 DEF Records
  <2> QED
    BY <2>1, <2>2, <2>3, StepShape
<1> QED
  BY <1>1, InitIInv, NextIInv, PTL DEF Spec, QueuePlaceKept

\* For any number of tasks: a run that ends shows an end time no earlier than
\* its start time.
THEOREM EndFollowsStart == Spec => EndNotBeforeStart
<1>1. IInv /\ [Next]_vars => [EndsAfterStart]_vars
  <2> SUFFICES ASSUME TypeOK, StartedInPast, Next, NEW t \in Tasks,
                      tasks[t].state \in Live, tasks'[t].state \in Terminal
               PROVE  tasks'[t].ended # 0 /\ tasks'[t].ended >= tasks'[t].started
    BY DEF IInv, EndsAfterStart
  <2>1. /\ Known(t) /\ tasks'[t] # NoTask /\ tasks[t] \in Records
        /\ tasks'[t].state \notin Live \cup {"interrupted"}
    BY DEF Known, NoTask, TypeOK, Live, Terminal
  <2>2. ASSUME NEW to \in States, NEW detail \in BOOLEAN,
               tasks'[t] = MoveRecord(tasks[t], to, detail, clock + 1)
        PROVE  tasks'[t].ended # 0 /\ tasks'[t].ended >= tasks'[t].started
    <3>1. clock \in Nat /\ clock + 1 \in Nat /\ tasks[t].started \in Nat
      BY DEF TypeOK, Records
    <3>2. /\ tasks'[t].state = to
          /\ tasks'[t].started \in {tasks[t].started, clock + 1}
          /\ to \in Terminal => tasks'[t].ended = clock + 1
      BY <2>1, <2>2, <3>1, MoveRecordType
    <3> QED
      BY <3>1, <3>2 DEF StartedInPast
  <2>3. ~ \E d \in Nat : tasks'[t] = [tasks[t] EXCEPT !.cost = d]
    BY <2>1 DEF Records
  <2> QED
    BY <2>1, <2>2, <2>3, StepShape
<1> QED
  BY <1>1, InitIInv, NextIInv, PTL DEF Spec, EndNotBeforeStart
=============================================================================
