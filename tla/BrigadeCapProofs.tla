-------------------------- MODULE BrigadeCapProofs --------------------------
(***************************************************************************)
(* The concurrency cap, for any number of tasks, when no prompt overfills  *)
(* the stdin pipe.  Then no start is ever suspended between the check of   *)
(* the cap and the registration of the run, which is what the proof needs  *)
(* and what fails with large prompts.                                      *)
(***************************************************************************)
EXTENDS BrigadeRunProofs, FiniteSetTheorems

NoStart(st) == \A i \in 1 .. Len(st) : st[i].k # "start"

\* A step that leaves registered only runs that were registered.
Shrinks == \A u \in Tasks : runs'[u] # 0 => runs[u] # 0

\* A step that registers at most one run, of t, and found a free slot.
TakesSlot == CanStart /\ \E t \in Tasks : \A u \in Tasks \ {t} : runs'[u] # 0 => runs[u] # 0

\* Pushing a frame that is no start, and popping any frame, suspends no start.
LEMMA PushPopNoStart ==
  ASSUME NEW st \in Seq(Frames), NoStart(st)
  PROVE  /\ \A f \in Frames : f.k # "start" => NoStart(<<f>> \o st)
         /\ st # <<>> => NoStart(Tail(st)) /\ Head(st).k # "start"
<1>1. ASSUME NEW f \in Frames, f.k # "start" PROVE NoStart(<<f>> \o st)
  <2> DEFINE q == <<f>> \o st
  <2>1. /\ Len(q) = Len(st) + 1 /\ q[1] = f
        /\ \A i \in 1 .. Len(q) : i # 1 => i - 1 \in 1 .. Len(st) /\ q[i] = st[i - 1]
    OBVIOUS
  <2> HIDE DEF q
  <2>2. NoStart(q)
    BY <1>1, <2>1 DEF NoStart
  <2> QED BY <2>2 DEF q
<1>2. ASSUME st # <<>> PROVE NoStart(Tail(st)) /\ Head(st).k # "start"
  <2>1. /\ Len(st) \in Nat /\ Len(st) # 0 /\ Head(st) = st[1]
        /\ Len(Tail(st)) = Len(st) - 1
        /\ \A i \in 1 .. Len(Tail(st)) : Tail(st)[i] = st[i + 1]
    BY <1>2
  <2>2. 1 \in 1 .. Len(st) /\ \A i \in 1 .. Len(Tail(st)) : i + 1 \in 1 .. Len(st)
    BY <2>1
  <2> QED BY <2>1, <2>2 DEF NoStart
<1> QED BY <1>1, <1>2

\* Offering a task a slot registers a run only if one is free, and suspends no
\* start.
LEMMA StartTaskTakesSlot ==
  ASSUME Core, Large = {}, NEW t \in Tasks, NEW s \in [Tasks -> States],
         NEW l \in Seq(Tasks), NEW base \in Seq(Frames), NEW g \in BOOLEAN,
         NoStart(base), StartTask(t, s, l, base, g)
  PROVE  (Shrinks \/ TakesSlot) /\ NoStart(stack')
<1> DEFINE h == Frame("hooks", t, 0, 0, g)
<1>1. h \in Frames /\ h.k = "hooks"
  BY FrameType
<1> HIDE DEF h
<1>2. NoStart(<<h>> \o base)
  BY <1>1, PushPopNoStart
<1>3. CASE runs' = runs /\ stack' = base
  BY <1>3 DEF Shrinks
<1>4. CASE CanStart /\ Launch(t, s, l, base, g)
  <2>1. ASSUME NEW c, NEW s1, NEW bx, StartError(t, c, s1, l, bx, base, g), runs' = runs
        PROVE  Shrinks /\ NoStart(stack')
    BY <1>2, <2>1 DEF StartError, Shrinks, h
  <2>2. ASSUME NEW n, NEW msg, NEW c, NEW s1, Register(t, n, msg, c, s1, base)
        PROVE  TakesSlot /\ NoStart(stack')
    BY <1>4, <2>2 DEF Register, TakesSlot, Core
  <2> QED BY <1>4, <2>1, <2>2 DEF Launch
<1> QED BY <1>3, <1>4 DEF StartTask, workers

\* What a step does to the runs and to the suspended starts.
LEMMA NextTakesSlot ==
  ASSUME IInv, Large = {}, NoStart(stack), [Next]_vars
  PROVE  (Shrinks \/ TakesSlot) /\ NoStart(stack')
<1> USE RunAssumption
<1>0. Core /\ stack \in Seq(Frames) /\ runs \in [Tasks -> Nat]
      /\ state \in [Tasks -> States] /\ line \in Seq(Tasks)
  BY DEF IInv, Core
<1> DEFINE top == Head(stack)
<1>a. ASSUME stack # <<>>
      PROVE  /\ top \in Frames /\ top.t \in Tasks /\ top.glib \in BOOLEAN
             /\ top.k # "start" /\ Tail(stack) \in Seq(Frames) /\ NoStart(Tail(stack))
  BY <1>0, <1>a, Pop, PushPopNoStart DEF Frames
<1>b. \A t \in Tasks, g \in BOOLEAN :
        /\ Frame("finish", t, 0, 0, g) \in Frames /\ Frame("finish", t, 0, 0, g).k # "start"
        /\ Frame("hooks", t, 0, 0, g) \in Frames /\ Frame("hooks", t, 0, 0, g).k # "start"
        /\ Frame("cancel", t, 0, 0, g) \in Frames /\ Frame("cancel", t, 0, 0, g).k # "start"
        /\ Drain(t, g) \in Frames /\ Drain(t, g).k # "start"
  BY FrameType DEF Drain
<1>c. ASSUME NEW f \in Frames, f.k # "start", NEW st \in Seq(Frames), NoStart(st)
      PROVE  <<f>> \o st \in Seq(Frames) /\ NoStart(<<f>> \o st)
  BY <1>c, Push, PushPopNoStart
<1>1. ASSUME DrainStep PROVE (Shrinks \/ TakesSlot) /\ NoStart(stack')
  <2>0. stack # <<>> /\ top.k \in {"drain0", "drain"}
    BY <1>1 DEF DrainStep
  <2> DEFINE order  == IF top.k = "drain0" THEN line ELSE top.order
             queued == IF top.k = "drain0" THEN {t \in Tasks : state[t] = "queued"}
                                           ELSE top.queued
  <2>1. order \in Seq(Tasks) /\ queued \in SUBSET Tasks
    BY <1>0, <1>a, <2>0 DEF Frames
  <2> HIDE DEF order, queued
  <2>2. CASE stack' = Tail(stack) /\ UNCHANGED workers
    BY <1>a, <2>0, <2>2 DEF Shrinks, workers
  <2>3. ASSUME NEW i \in DOMAIN order,
               LET g == [top EXCEPT !.k = "drain", !.queued = queued,
                                    !.order = SubSeq(order, i + 1, Len(order))]
               IN StartTask(order[i], state, line, <<g>> \o Tail(stack), top.glib)
        PROVE  (Shrinks \/ TakesSlot) /\ NoStart(stack')
    <3> DEFINE g == [top EXCEPT !.k = "drain", !.queued = queued,
                                !.order = SubSeq(order, i + 1, Len(order))]
    <3>1. SubSeq(order, i + 1, Len(order)) \in Seq(Tasks) /\ order[i] \in Tasks
      BY <2>1, <2>3
    <3>2. g \in Frames /\ g.k # "start"
      BY <1>a, <2>0, <2>1, <3>1 DEF Frames
    <3>3. StartTask(order[i], state, line, <<g>> \o Tail(stack), top.glib)
      BY <2>3
    <3> HIDE DEF g, order
    <3>4. <<g>> \o Tail(stack) \in Seq(Frames) /\ NoStart(<<g>> \o Tail(stack))
      BY <1>a, <1>c, <2>0, <3>2
    <3> DEFINE b == <<g>> \o Tail(stack)
    <3>5. PICK s \in [Tasks -> States], l \in Seq(Tasks), base \in Seq(Frames), h \in BOOLEAN,
               t \in Tasks :
            s = state /\ l = line /\ base = b /\ h = top.glib /\ t = order[i]
      BY <1>0, <1>a, <2>0, <3>1, <3>4
    <3> HIDE DEF b
    <3>6. StartTask(t, s, l, base, h) /\ NoStart(base)
      BY <3>3, <3>4, <3>5 DEF b
    <3> QED BY <1>0, <3>6, StartTaskTakesSlot
  <2> QED BY <1>1, <2>2, <2>3 DEF DrainStep, order, queued
<1>2. ASSUME StartResume PROVE FALSE
  BY <1>2, <1>a DEF StartResume
<1>3. ASSUME FinishResume PROVE Shrinks /\ NoStart(stack')
  <2>1. stack # <<>> /\ runs' = runs
    BY <1>3 DEF FinishResume, workers
  <2> DEFINE d == Drain(top.t, top.glib)
             b == <<d>> \o Tail(stack)
  <2>2. d \in Frames /\ d.k # "start"
    BY <1>a, <1>b, <2>1
  <2>3. \/ stack' = Tail(stack) \/ stack' = b \/ stack' = <<d>> \o b
    BY <1>3 DEF FinishResume, Drains
  <2> HIDE DEF d
  <2>4. b \in Seq(Frames) /\ NoStart(b)
    BY <1>a, <1>c, <2>1, <2>2
  <2> HIDE DEF b
  <2>5. NoStart(<<d>> \o b)
    BY <1>c, <2>2, <2>4
  <2> QED BY <1>a, <2>1, <2>3, <2>4, <2>5 DEF Shrinks
<1>4. ASSUME HooksResume PROVE Shrinks /\ NoStart(stack')
  BY <1>a, <1>4 DEF HooksResume, Shrinks, workers
<1>5. ASSUME NEW t \in Tasks, NEW hadRun \in BOOLEAN, NEW base \in Seq(Frames),
             NEW g \in BOOLEAN, NoStart(base), CancelRest(t, hadRun, base, g)
      PROVE  Shrinks /\ NoStart(stack')
  <2> DEFINE h == Frame("hooks", t, 0, 0, g)
             b == <<h>> \o base
             d == Drain(t, g)
  <2>1. h \in Frames /\ h.k # "start" /\ d \in Frames /\ d.k # "start"
    BY <1>b
  <2>2. stack' = <<d>> \o base \/ stack' = <<d>> \o b
    BY <1>5 DEF CancelRest
  <2>3. runs' = [runs EXCEPT ![t] = 0]
    BY <1>5 DEF CancelRest
  <2> HIDE DEF h, d
  <2>4. b \in Seq(Frames) /\ NoStart(b)
    BY <1>c, <1>5, <2>1
  <2> HIDE DEF b
  <2>5. NoStart(<<d>> \o base) /\ NoStart(<<d>> \o b)
    BY <1>c, <1>5, <2>1, <2>4
  <2> QED BY <1>0, <2>2, <2>3, <2>5 DEF Shrinks
<1>6. ASSUME CancelResume PROVE Shrinks /\ NoStart(stack')
  <2>1. stack # <<>> /\ CancelRest(top.t, TRUE, Tail(stack), top.glib)
    BY <1>6 DEF CancelResume
  <2> QED BY <1>5, <1>a, <2>1
<1>7. ASSUME NEW t \in Tasks, NEW outcome, NEW base \in Seq(Frames), NEW g \in BOOLEAN,
             NoStart(base), Finish(t, outcome, base, g)
      PROVE  Shrinks /\ NoStart(stack')
  <2> DEFINE h == Frame("finish", t, 0, 0, g)
  <2>1. NoStart(<<h>> \o base)
    BY <1>b, <1>c, <1>7
  <2>2. \/ runs' = runs /\ stack' = base
        \/ runs' = [runs EXCEPT ![t] = 0] /\ stack' = <<h>> \o base
    BY <1>7 DEF Finish, Released
  <2> HIDE DEF h
  <2> QED BY <1>0, <1>7, <2>1, <2>2 DEF Shrinks
<1>8. ASSUME Report PROVE Shrinks /\ NoStart(stack')
  <2>1. PICK w \in alive, outcome \in {"done", "failed"}, g \in BOOLEAN :
          Finish(w.t, outcome, stack, g)
    BY <1>8 DEF Report, ProcessExit, InprocDone
  <2>2. w.t \in Tasks
    BY <1>0 DEF Core
  <2> QED BY <1>0, <1>7, <2>1, <2>2
<1>9. ASSUME NEW t \in Tasks, NEW tool \in BOOLEAN, Spawn(t, tool) \/ Rerun(t)
      PROVE  (Shrinks \/ TakesSlot) /\ NoStart(stack')
  <2>1. "queued" \in States
    BY DEF States
  <2>2. /\ Moved(state, t, "queued") \in [Tasks -> States]
        /\ Stamped(line, state, t, "queued") \in Seq(Tasks)
    BY <1>0, <2>1, TableTypes
  <2>3. PICK s \in [Tasks -> States], l \in Seq(Tasks), base \in Seq(Frames) :
          /\ s = Moved(state, t, "queued") /\ l = Stamped(line, state, t, "queued")
          /\ base = stack
    BY <1>0, <2>2
  <2>4. PICK g \in BOOLEAN : StartTask(t, s, l, base, g)
    BY <1>9, <2>3 DEF Spawn, Rerun
  <2>5. NoStart(base)
    BY <2>3
  <2> QED BY <1>0, <2>4, <2>5, StartTaskTakesSlot
<1>10. ASSUME NEW t \in Tasks, NEW tool \in BOOLEAN, AgentSend(t, tool)
       PROVE  Shrinks /\ NoStart(stack')
  <2>1. runs' = runs /\ (stack' = stack \/ stack' = <<Drain(t, tool)>> \o stack)
    BY <1>10 DEF AgentSend, workers
  <2> QED BY <1>0, <1>b, <1>c, <2>1 DEF Shrinks
<1>11. ASSUME NEW t \in Tasks, NEW tool \in BOOLEAN, AgentCancel(t, tool)
       PROVE  Shrinks /\ NoStart(stack')
  <2> DEFINE b == <<Frame("cancel", t, 0, 0, tool)>> \o stack
             had == runs[t] # 0
  <2>1. b \in Seq(Frames) /\ NoStart(b) /\ had \in BOOLEAN
    BY <1>0, <1>b, <1>c
  <2>2. Finish(t, "failed", b, tool) \/ CancelRest(t, had, stack, tool)
    BY <1>11 DEF AgentCancel
  <2> HIDE DEF b, had
  <2> QED BY <1>0, <1>5, <1>7, <2>1, <2>2
<1>12. ASSUME runs' = runs, stack' = stack PROVE Shrinks /\ NoStart(stack')
  BY <1>12 DEF Shrinks
<1>13. ASSUME NEW t \in Tasks, AgentClose(t) \/ Age(t) \/ \E i \in 0 .. MailboxMax : AgentDrop(t, i)
       PROVE  runs' = runs /\ stack' = stack
  BY <1>13 DEF AgentClose, Age, AgentDrop, workers
<1>14. ASSUME HookClose \/ (\E force \in BOOLEAN : Sweep(force)) \/ UNCHANGED vars
       PROVE  runs' = runs /\ stack' = stack
  BY <1>14 DEF HookClose, Sweep, vars, workers
<1> QED
  BY <1>1, <1>2, <1>3, <1>4, <1>6, <1>8, <1>9, <1>10, <1>11, <1>12, <1>13, <1>14
  DEF Next, Resume

CapInv == IInv /\ NoStart(stack) /\ CapRespected

LEMMA NextCap == Large = {} /\ CapInv /\ [Next]_vars => CapInv'
<1> SUFFICES ASSUME Large = {}, CapInv, [Next]_vars PROVE CapInv'
  OBVIOUS
<1> USE RunAssumption
<1>1. IInv' /\ (Shrinks \/ TakesSlot) /\ NoStart(stack')
  BY NextIInv, NextTakesSlot DEF CapInv
<1> DEFINE L == {t \in Tasks : runs[t] # 0}
           M == {t \in Tasks : runs'[t] # 0}
<1>2. IsFiniteSet(L) /\ IsFiniteSet(M)
  BY FS_Subset
<1>3. Cardinality(L) \in Nat /\ Cardinality(M) \in Nat
  BY <1>2, FS_CardinalityType
<1>4. ASSUME Shrinks PROVE Cardinality(M) <= Cardinality(L)
  <2>1. M \in SUBSET L
    BY <1>4 DEF Shrinks
  <2> HIDE DEF L, M
  <2> QED BY <1>2, <2>1, FS_Subset
<1>5. ASSUME TakesSlot
      PROVE  CanStart /\ Cardinality(M) <= Cardinality(L) + 1
  <2>1. PICK t \in Tasks : \A u \in Tasks \ {t} : runs'[u] # 0 => runs[u] # 0
    BY <1>5 DEF TakesSlot
  <2>2. M \in SUBSET (L \cup {t})
    BY <2>1
  <2> HIDE DEF L, M
  <2>3. IsFiniteSet(L \cup {t}) /\ Cardinality(L \cup {t}) <= Cardinality(L) + 1
    <3> PICK N : N = L
      OBVIOUS
    <3>1. /\ IsFiniteSet(N \cup {t})
          /\ Cardinality(N \cup {t}) = IF t \in N THEN Cardinality(N) ELSE Cardinality(N) + 1
      BY <1>2, FS_AddElement, Zenon
    <3> QED BY <1>3, <3>1
  <2>4. Cardinality(L \cup {t}) \in Nat
    BY <2>3, FS_CardinalityType
  <2>5. Cardinality(M) <= Cardinality(L \cup {t})
    BY <2>2, <2>3, FS_Subset
  <2> QED BY <1>3, <1>5, <2>3, <2>4, <2>5 DEF TakesSlot
<1>6. /\ CapRespected <=> (MaxConcurrent # 0 => Cardinality(L) <= MaxConcurrent)
      /\ CapRespected' <=> (MaxConcurrent # 0 => Cardinality(M) <= MaxConcurrent)
      /\ CanStart <=> (MaxConcurrent = 0 \/ Cardinality(L) < MaxConcurrent)
  BY DEF CapRespected, LiveCount, CanStart
<1> HIDE DEF L, M
<1>7. CapRespected'
  BY <1>1, <1>3, <1>4, <1>5, <1>6 DEF CapInv
<1> QED BY <1>1, <1>7 DEF CapInv

\* CapRespected for any number of tasks, any cap, and whatever fails, as long as no
\* prompt overfills the stdin pipe: the slot that --can-start-p saw is still free
\* when the run is registered.
THEOREM CapIsRespected == ASSUME Large = {} PROVE Spec => []CapRespected
<1>1. Init => CapInv
  <2> SUFFICES ASSUME Init PROVE CapInv
    OBVIOUS
  <2>1. IInv /\ NoStart(stack)
    BY InitIInv DEF Init, NoStart
  <2>2. {t \in Tasks : runs[t] # 0} = {}
    BY DEF Init
  <2>3. LiveCount = 0
    BY <2>2, FS_EmptySet DEF LiveCount
  <2> QED BY <2>1, <2>3, RunAssumption DEF CapInv, CapRespected
<1>2. CapInv /\ [Next]_vars => CapInv'
  BY NextCap
<1>3. CapInv => CapRespected
  BY DEF CapInv
<1> QED BY <1>1, <1>2, <1>3, PTL DEF Spec
=============================================================================
