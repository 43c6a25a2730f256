----------------------- MODULE BrigadeScheduleProofs -----------------------
(***************************************************************************)
(* A restart forgets no scheduled run that was started: proved for any     *)
(* calendar, any schedules and any depth of loops within loops.            *)
(***************************************************************************)
EXTENDS BrigadeSchedule, TLAPS

\* A frame is a record of five fields, whatever is in them.
IsFrame(f) ==
  f = [kind |-> f.kind, todo |-> f.todo, at |-> f.at, job |-> f.job,
       stage |-> f.stage]

\* Only the innermost loop can be doing anything but waiting for a task.
FramesOK ==
  /\ \E S : frames \in Seq(S)
  /\ \A i \in 1..Len(frames) :
       IsFrame(frames[i]) /\ (i > 1 => frames[i].stage = "wait")

Times == Nat \cup {Never}

TablesOK ==
  /\ now \in Nat
  /\ lost \in BOOLEAN
  /\ file \in [Ids -> Entries \cup {Absent}]
  /\ last \in [Ids -> Times] /\ disk \in [Ids -> Times]
  /\ started \in [Ids -> Times]

\* What is in memory is in the state file.
InStep == \A s \in Ids : last[s] # Never => last[s] = disk[s]

Past == \A s \in Ids : started[s] # Never => started[s] <= now

\* A firing about to start its task has just been saved.
SavedFirst ==
  Working("start") => (Top.job.id \in Ids => disk[Top.job.id] = now)

IInv == TablesOK /\ FramesOK /\ InStep /\ Past /\ SavedFirst /\ RunRemembered

-----------------------------------------------------------------------------
LEMMA PushFrame ==
  ASSUME NEW S, NEW q \in Seq(S), NEW f
  PROVE  /\ <<f>> \o q \in Seq(S \cup {f})
         /\ Len(<<f>> \o q) = Len(q) + 1
         /\ Head(<<f>> \o q) = f
         /\ (<<f>> \o q)[1] = f
         /\ <<f>> \o q # <<>>
         /\ \A i \in 2..(Len(q) + 1) : (<<f>> \o q)[i] = q[i - 1]
<1>1. <<f>> \in Seq(S \cup {f}) /\ q \in Seq(S \cup {f}) /\ Len(<<f>>) = 1
  OBVIOUS
<1>2. <<f>> \o q \in Seq(S \cup {f}) /\ Len(<<f>> \o q) = Len(q) + 1
  BY <1>1
<1>3. \A i \in 1..(Len(q) + 1) :
        (<<f>> \o q)[i] = IF i <= 1 THEN f ELSE q[i - 1]
  BY <1>1
<1>4. Len(q) \in Nat
  OBVIOUS
<1>5. (<<f>> \o q)[1] = f /\ <<f>> \o q # <<>>
  BY <1>2, <1>3, <1>4
<1>6. Head(<<f>> \o q) = f
  BY <1>2, <1>5
<1> QED BY <1>2, <1>3, <1>4, <1>5, <1>6

LEMMA PopFrame ==
  ASSUME NEW S, NEW q \in Seq(S), q # <<>>
  PROVE  /\ Tail(q) \in Seq(S)
         /\ Len(q) \in Nat /\ Len(q) >= 1
         /\ Len(Tail(q)) = Len(q) - 1
         /\ Head(q) = q[1]
         /\ \A i \in 1..(Len(q) - 1) : Tail(q)[i] = q[i + 1]
OBVIOUS

\* Replacing the innermost loop by f.
LEMMA PutFrames ==
  ASSUME FramesOK, frames # <<>>, NEW f, IsFrame(f), Put(f)
  PROVE  FramesOK' /\ frames' # <<>> /\ Top' = f
<1>1. PICK S : frames \in Seq(S)
  BY DEF FramesOK
<1> DEFINE q == Tail(frames)
<1>2. /\ q \in Seq(S) /\ Len(frames) \in Nat /\ Len(q) = Len(frames) - 1
      /\ \A i \in 1..(Len(frames) - 1) : q[i] = frames[i + 1]
  BY <1>1, PopFrame
<1>3. \A i \in 1..Len(q) : IsFrame(q[i]) /\ q[i].stage = "wait"
  BY <1>2 DEF FramesOK
<1> HIDE DEF q
<1>4. frames' = <<f>> \o q
  BY DEF Put, q
<1>5. /\ frames' \in Seq(S \cup {f}) /\ Len(frames') = Len(q) + 1
      /\ Head(frames') = f /\ frames'[1] = f /\ frames' # <<>>
      /\ \A i \in 2..(Len(q) + 1) : frames'[i] = q[i - 1]
  BY <1>2, <1>4, PushFrame
<1>6. Len(q) \in Nat
  BY <1>2
<1>7. ASSUME NEW i \in 1..Len(frames')
      PROVE  IsFrame(frames'[i]) /\ (i > 1 => frames'[i].stage = "wait")
  <2>1. CASE i = 1
    BY <2>1, <1>5
  <2>2. CASE i # 1
    <3>1. i \in 2..(Len(q) + 1) /\ i - 1 \in 1..Len(q)
      BY <2>2, <1>5, <1>6
    <3> QED BY <3>1, <1>3, <1>5
  <2> QED BY <2>1, <2>2
<1> QED BY <1>5, <1>7 DEF FramesOK, Top, IsFrame
\* Starting a loop while the others wait.
LEMMA NestFrames ==
  ASSUME FramesOK, Waiting, NEW f, IsFrame(f), frames' = <<f>> \o frames
  PROVE  FramesOK' /\ frames' # <<>> /\ Top' = f
<1>1. PICK S : frames \in Seq(S)
  BY DEF FramesOK
<1>2. /\ frames' \in Seq(S \cup {f}) /\ Len(frames') = Len(frames) + 1
      /\ Head(frames') = f /\ frames'[1] = f /\ frames' # <<>>
      /\ \A i \in 2..(Len(frames) + 1) : frames'[i] = frames[i - 1]
  BY <1>1, PushFrame
<1>3. Len(frames) \in Nat
  BY <1>1
<1>4. \A i \in 1..Len(frames) : IsFrame(frames[i]) /\ frames[i].stage = "wait"
  <2>1. CASE frames = <<>>
    BY <2>1
  <2>2. CASE frames # <<>>
    <3>1. Head(frames) = frames[1]
      BY <1>1, <2>2, PopFrame
    <3>2. frames[1].stage = "wait"
      BY <2>2, <3>1 DEF Waiting, Working, Top
    <3> QED BY <3>2, <1>3 DEF FramesOK
  <2> QED BY <2>1, <2>2
<1>5. ASSUME NEW i \in 1..Len(frames')
      PROVE  IsFrame(frames'[i]) /\ (i > 1 => frames'[i].stage = "wait")
  <2>1. CASE i = 1
    BY <2>1, <1>2
  <2>2. CASE i # 1
    <3>1. i \in 2..(Len(frames) + 1) /\ i - 1 \in 1..Len(frames)
      BY <2>2, <1>2, <1>3
    <3> QED BY <3>1, <1>4, <1>2
  <2> QED BY <2>1, <2>2
<1> QED BY <1>2, <1>5 DEF FramesOK, Top, IsFrame

LEMMA FirstFrame ==
  ASSUME FramesOK, frames = <<>>, NEW f, IsFrame(f), frames' = <<f>>
  PROVE  FramesOK' /\ frames' # <<>> /\ Top' = f
<1>1. <<f>> \in Seq({f}) /\ Len(<<f>>) = 1 /\ <<f>>[1] = f /\ Head(<<f>>) = f
  OBVIOUS
<1>2. <<f>> # <<>>
  OBVIOUS
<1>3. \A i \in 1..Len(frames') : i = 1 /\ frames'[i] = f
  BY <1>1
<1>4. \E S : frames' \in Seq(S)
  BY <1>1
<1>5. FramesOK'
  BY <1>3, <1>4 DEF FramesOK, IsFrame
<1> QED BY <1>1, <1>2, <1>5 DEF Top

\* A loop that ends leaves one that waits, or none.
LEMMA EndFrames ==
  ASSUME FramesOK, frames # <<>>, frames' = Tail(frames)
  PROVE  FramesOK' /\ ~Working("start")'
<1>1. PICK S : frames \in Seq(S)
  BY DEF FramesOK
<1>2. /\ frames' \in Seq(S) /\ Len(frames) \in Nat
      /\ Len(frames') = Len(frames) - 1
      /\ \A i \in 1..(Len(frames) - 1) : frames'[i] = frames[i + 1]
  BY <1>1, PopFrame
<1>3. \A i \in 1..Len(frames') : IsFrame(frames'[i]) /\ frames'[i].stage = "wait"
  BY <1>2 DEF FramesOK
<1>4. frames' # <<>> => Head(frames').stage = "wait"
  <2> SUFFICES ASSUME frames' # <<>> PROVE Head(frames').stage = "wait"
    OBVIOUS
  <2>1. Head(frames') = frames'[1] /\ 1 \in 1..Len(frames')
    BY <1>2
  <2> QED BY <2>1, <1>3
<1> QED BY <1>2, <1>3, <1>4 DEF FramesOK, IsFrame, Working, Top

\* The frames the actions make.
LEMMA WithFrame ==
  \A f, j, x : IsFrame(With(f, j, x)) /\ With(f, j, x).stage = x /\ With(f, j, x).job = j
BY DEF IsFrame, With

LEMMA TodoFrame ==
  ASSUME NEW f, IsFrame(f), NEW t
  PROVE  IsFrame([f EXCEPT !.todo = t]) /\ [f EXCEPT !.todo = t].stage = f.stage
<1> DEFINE R(a, b, c, d, e) ==
      [kind |-> a, todo |-> b, at |-> c, job |-> d, stage |-> e]
<1>1. [f EXCEPT !.todo = t] = R(f.kind, t, f.at, f.job, f.stage)
  BY DEF IsFrame
<1> QED BY <1>1 DEF IsFrame

-----------------------------------------------------------------------------
\* A step that leaves the times and the file alone, and no firing saved and
\* not yet started, keeps the invariant.
LEMMA FramesOnly ==
  ASSUME IInv, FramesOK', ~Working("start")',
         UNCHANGED <<now, file, last, disk, started, lost>>
  PROVE  IInv'
BY DEF IInv, TablesOK, InStep, Past, SavedFirst, RunRemembered, Present, Times

LEMMA InitInv == Init => IInv
<1> SUFFICES ASSUME Init PROVE IInv
  OBVIOUS
<1>1. TablesOK
  BY CalendarAssumption, ScheduleAssumption DEF Init, TablesOK, Nothing, Times
<1>2. frames \in Seq({}) /\ Len(frames) = 0
  BY DEF Init
<1>3. FramesOK
  BY <1>2 DEF FramesOK
<1>4. InStep /\ Past /\ SavedFirst /\ RunRemembered
  BY DEF Init, InStep, Past, SavedFirst, Working, RunRemembered, Present, Nothing
<1> QED BY <1>1, <1>3, <1>4 DEF IInv

LEMMA PassInv == IInv /\ Pass => IInv'
<1> SUFFICES ASSUME IInv, Pass PROVE IInv'
  OBVIOUS
<1> USE DEF tables, history
<1>1. TablesOK'
  BY DEF IInv, TablesOK, Pass, Times
<1>2. FramesOK'
  BY DEF IInv, FramesOK, IsFrame, Pass
<1>3. Past'
  BY CalendarAssumption DEF IInv, TablesOK, Past, Pass, Times
<1>4. SavedFirst'
  BY DEF Pass, Waiting, Working, Top, SavedFirst
<1>5. InStep' /\ RunRemembered'
  BY DEF IInv, InStep, RunRemembered, Present, Pass
<1> QED BY <1>1, <1>2, <1>3, <1>4, <1>5 DEF IInv

LEMMA ModeOnInv == IInv /\ ModeOn => IInv'
<1> SUFFICES ASSUME IInv, ModeOn PROVE IInv'
  OBVIOUS
<1>1. PICK f : f = Frame("catchup", Listing, Idle, "idle")
  OBVIOUS
<1>2. IsFrame(f) /\ f.stage = "idle"
  BY <1>1 DEF Frame, IsFrame
<1>3. FramesOK' /\ frames' # <<>> /\ Top' = f
  BY <1>1, <1>2, FirstFrame DEF ModeOn, IInv
<1>4. ~Working("start")'
  BY <1>2, <1>3 DEF Working
<1>5. TablesOK'
  BY DEF IInv, TablesOK, ModeOn
<1>6. InStep' /\ Past' /\ SavedFirst' /\ RunRemembered'
  BY <1>4 DEF IInv, InStep, Past, SavedFirst, RunRemembered, Present, ModeOn
<1> QED BY <1>3, <1>5, <1>6 DEF IInv

\* The steps that only move the loops on.
LEMMA LoopInv ==
  ASSUME IInv,
         \/ ModeOff \/ Tick \/ (\E s \in Ids : RunNow(s)) \/ Consider
         \/ EndLoop \/ FireWrite \/ FireFail \/ FireDone
  PROVE  IInv'
<1> USE DEF tables, history
<1>1. CASE ModeOff
  <2>1. FramesOK' /\ ~Working("start")'
    BY <1>1 DEF ModeOff, IInv, FramesOK, IsFrame, Working
  <2> QED BY <1>1, <2>1, FramesOnly DEF ModeOff
<1>2. CASE Tick
  <2>1. PICK f : f = Frame("tick", Listing, Idle, "idle")
    OBVIOUS
  <2>2. IsFrame(f) /\ f.stage = "idle"
    BY <2>1 DEF Frame, IsFrame
  <2>3. FramesOK' /\ frames' # <<>> /\ Top' = f
    BY <1>2, <2>1, <2>2, NestFrames DEF Tick, IInv
  <2>4. ~Working("start")'
    BY <2>2, <2>3 DEF Working
  <2> QED BY <1>2, <2>3, <2>4, FramesOnly DEF Tick
<1>3. CASE \E s \in Ids : RunNow(s)
  <2>1. PICK s \in Ids : RunNow(s)
    BY <1>3
  <2>2. PICK f : f = Frame("now", <<>>, [id |-> s, entry |-> file[s]], "write")
    OBVIOUS
  <2>3. IsFrame(f) /\ f.stage = "write"
    BY <2>2 DEF Frame, IsFrame
  <2>4. FramesOK' /\ frames' # <<>> /\ Top' = f
    BY <2>1, <2>2, <2>3, FirstFrame DEF RunNow, IInv
  <2>5. ~Working("start")'
    BY <2>3, <2>4 DEF Working
  <2> QED BY <2>1, <2>4, <2>5, FramesOnly DEF RunNow
<1>4. CASE Consider
  <2>1. frames # <<>> /\ Top.stage = "idle" /\ IsFrame(Top)
    <3>1. frames # <<>> /\ Top.stage = "idle"
      BY <1>4 DEF Consider, Working
    <3>2. PICK S : frames \in Seq(S)
      BY DEF IInv, FramesOK
    <3>3. Head(frames) = frames[1] /\ 1 \in 1..Len(frames)
      BY <3>1, <3>2, PopFrame
    <3> QED BY <3>1, <3>3 DEF IInv, FramesOK, Top
  <2>2. PICK f, item : f = [Top EXCEPT !.todo = Tail(@)] /\ item = Head(Top.todo)
    OBVIOUS
  <2>3. IsFrame(f) /\ f.stage = "idle"
    <3>1. PICK h, t : h = Top /\ t = Tail(Top.todo)
      OBVIOUS
    <3>2. f = [h EXCEPT !.todo = t]
      BY <2>2, <3>1
    <3> QED BY <2>1, <3>1, <3>2, TodoFrame
  <2>4. PICK g : g = IF IsDue(item, f) THEN With(f, item, "write") ELSE f
    OBVIOUS
  <2>5. IsFrame(g) /\ g.stage \in {"idle", "write"}
    BY <2>3, <2>4, WithFrame
  <2>6. Put(g)
    BY <1>4, <2>2, <2>4 DEF Consider
  <2>7. FramesOK' /\ frames' # <<>> /\ Top' = g
    BY <2>1, <2>5, <2>6, PutFrames DEF IInv
  <2>8. ~Working("start")'
    BY <2>5, <2>7 DEF Working
  <2> QED BY <1>4, <2>7, <2>8, FramesOnly DEF Consider
<1>5. CASE EndLoop
  <2>1. frames # <<>>
    BY <1>5 DEF EndLoop, Working
  <2>2. CASE Top.kind = "catchup"
    <3>1. PICK f : f = Frame("reboot", Listing, Idle, "idle")
      OBVIOUS
    <3>2. IsFrame(f) /\ f.stage = "idle"
      BY <3>1 DEF Frame, IsFrame
    <3>3. FramesOK' /\ frames' # <<>> /\ Top' = f
      BY <1>5, <2>1, <2>2, <3>1, <3>2, PutFrames DEF EndLoop, IInv
    <3>4. ~Working("start")'
      BY <3>2, <3>3 DEF Working
    <3> QED BY <1>5, <3>3, <3>4, FramesOnly DEF EndLoop
  <2>3. CASE Top.kind # "catchup"
    <3>1. FramesOK' /\ ~Working("start")'
      BY <1>5, <2>1, <2>3, EndFrames DEF EndLoop, IInv
    <3> QED BY <1>5, <3>1, FramesOnly DEF EndLoop
  <2> QED BY <2>2, <2>3
<1>6. CASE FireWrite \/ FireFail \/ FireDone
  <2>1. frames # <<>>
    BY <1>6 DEF FireWrite, FireFail, GiveUp, FireDone, Working
  <2>2. PICK f : f \in {With(Top, Top.job, "record"), Done(Top)} /\ Put(f)
    BY <1>6 DEF FireWrite, FireFail, GiveUp, FireDone
  <2>3. IsFrame(f) /\ f.stage \in {"record", "idle"}
    <3>1. PICK h, j : h = Top /\ j = Top.job
      OBVIOUS
    <3>2. f \in {With(h, j, "record"), With(h, Idle, "idle")}
      BY <2>2, <3>1 DEF Done
    <3> QED BY <3>2, WithFrame
  <2>4. FramesOK' /\ frames' # <<>> /\ Top' = f
    BY <2>1, <2>2, <2>3, PutFrames DEF IInv
  <2>5. ~Working("start")'
    BY <2>3, <2>4 DEF Working
  <2>6. UNCHANGED <<now, file, last, disk, started, lost>>
    BY <1>6 DEF FireWrite, FireFail, GiveUp, FireDone
  <2> QED BY <2>4, <2>5, <2>6, FramesOnly
<1> QED BY <1>1, <1>2, <1>3, <1>4, <1>5, <1>6

\* Saving keeps every time the table in memory has, or is seen to lose one.
LEMMA RecordInv == IInv /\ FireRecord => IInv'
<1> SUFFICES ASSUME IInv, FireRecord PROVE IInv'
  OBVIOUS
<1>1. PICK id : id = Top.job.id
  OBVIOUS
<1>2. PICK f : f = With(Top, Top.job, "start")
  OBVIOUS
<1>3. IsFrame(f) /\ f.stage = "start" /\ f.job.id = id
  BY <1>1, <1>2, WithFrame
<1>4. FramesOK' /\ frames' # <<>> /\ Top' = f
  BY <1>2, <1>3, PutFrames DEF FireRecord, Recorded, Working, IInv
<1>5. /\ now' = now /\ file' = file /\ started' = started
      /\ last' = [last EXCEPT ![id] = now] /\ disk' = last'
      /\ lost' = (lost \/ Loses(disk', {}))
  BY <1>1 DEF FireRecord, Recorded
<1>6. TablesOK'
  BY <1>5 DEF IInv, TablesOK, Loses, Times
<1>7. InStep' /\ Past'
  BY <1>5 DEF IInv, InStep, Past
<1>8. SavedFirst'
  BY <1>3, <1>4, <1>5 DEF IInv, TablesOK, SavedFirst
<1>9. RunRemembered'
  <2> SUFFICES ASSUME NEW s \in Ids, file[s] # Absent, started[s] # Never, ~lost'
               PROVE  disk'[s] # Never /\ disk'[s] >= started[s]
    BY <1>5 DEF RunRemembered, Present
  <2>1. ~lost /\ (disk[s] # Never => disk'[s] # Never)
    BY <1>5 DEF Loses
  <2>2. disk[s] # Never /\ disk[s] >= started[s]
    BY <2>1 DEF IInv, RunRemembered, Present
  <2>3. CASE s = id
    <3>1. disk'[s] = now
      BY <1>5, <2>3 DEF IInv, TablesOK
    <3> QED BY <3>1, CalendarAssumption DEF IInv, TablesOK, Past, Times
  <2>4. CASE s # id
    <3>1. disk'[s] = last[s]
      BY <1>5, <2>4 DEF IInv, TablesOK
    <3> QED BY <2>1, <2>2, <3>1 DEF IInv, InStep
  <2> QED BY <2>3, <2>4
<1> QED BY <1>4, <1>6, <1>7, <1>8, <1>9 DEF IInv

LEMMA StartInv == IInv /\ FireStart => IInv'
<1> SUFFICES ASSUME IInv, FireStart PROVE IInv'
  OBVIOUS
<1> USE DEF tables
<1>1. PICK id : id = Top.job.id
  OBVIOUS
<1>2. PICK f : f = With(Top, Top.job, "wait")
  OBVIOUS
<1>3. IsFrame(f) /\ f.stage = "wait"
  BY <1>2, WithFrame
<1>4. FramesOK' /\ frames' # <<>> /\ Top' = f
  BY <1>2, <1>3, PutFrames DEF FireStart, Working, IInv
<1>5. /\ UNCHANGED <<now, file, last, disk, lost>>
      /\ started' = [started EXCEPT ![id] = now]
  BY <1>1 DEF FireStart
<1>6. id \in Ids => disk[id] = now
  BY <1>1 DEF IInv, SavedFirst, FireStart
<1>7. TablesOK'
  BY <1>5 DEF IInv, TablesOK, Times
<1>8. InStep' /\ Past'
  BY <1>5, <1>7 DEF IInv, InStep, Past, TablesOK
<1>9. SavedFirst'
  BY <1>3, <1>4 DEF SavedFirst, Working
<1>10. RunRemembered'
  <2> SUFFICES ASSUME NEW s \in Ids, file[s] # Absent, started'[s] # Never, ~lost
               PROVE  disk[s] # Never /\ disk[s] >= started'[s]
    BY <1>5 DEF RunRemembered, Present
  <2>1. CASE s = id
    <3>1. started'[s] = now /\ disk[s] = now /\ now \in Nat
      BY <1>5, <1>6, <2>1 DEF IInv, TablesOK
    <3> QED BY <3>1, CalendarAssumption
  <2>2. CASE s # id
    <3>1. started'[s] = started[s]
      BY <1>5, <2>2 DEF IInv, TablesOK
    <3> QED BY <3>1 DEF IInv, RunRemembered, Present
  <2> QED BY <2>1, <2>2
<1> QED BY <1>4, <1>7, <1>8, <1>9, <1>10 DEF IInv

\* Edits happen while the loops wait; a new headline has a new id.
LEMMA EditInv ==
  ASSUME IInv, NEW s \in Ids, NEW e \in Entries, SetProperty(s, e)
  PROVE  IInv'
<1> USE DEF tables
<1>1. /\ UNCHANGED <<now, last, disk, started, lost, frames>>
      /\ file' = [file EXCEPT ![s] = e]
      /\ Waiting /\ (s \in Present \/ Unused(s))
  BY DEF SetProperty, Edited
<1>2. TablesOK'
  BY <1>1 DEF IInv, TablesOK, Times
<1>3. FramesOK' /\ InStep' /\ Past'
  BY <1>1 DEF IInv, FramesOK, IsFrame, InStep, Past
<1>4. SavedFirst'
  BY <1>1 DEF IInv, SavedFirst, Working, Top
<1>5. RunRemembered'
  <2> SUFFICES ASSUME NEW x \in Ids, file'[x] # Absent, started[x] # Never, ~lost
               PROVE  disk[x] # Never /\ disk[x] >= started[x]
    BY <1>1 DEF RunRemembered, Present
  <2>1. file[x] # Absent
    BY <1>1 DEF IInv, TablesOK, Unused, Present
  <2> QED BY <2>1 DEF IInv, RunRemembered, Present
<1> QED BY <1>2, <1>3, <1>4, <1>5 DEF IInv

LEMMA DeleteInv ==
  ASSUME IInv, NEW s \in Ids, Delete(s)
  PROVE  IInv'
<1>1. /\ UNCHANGED <<now, started, frames>>
      /\ file' = [file EXCEPT ![s] = Absent]
      /\ last' = [last EXCEPT ![s] = Never] /\ disk' = last'
      /\ lost' = (lost \/ Loses(disk', {s}))
      /\ Waiting
  BY DEF Delete, Edited
<1>2. TablesOK'
  BY <1>1 DEF IInv, TablesOK, Loses, Times
<1>3. FramesOK' /\ InStep' /\ Past'
  BY <1>1 DEF IInv, FramesOK, IsFrame, InStep, Past
<1>4. SavedFirst'
  BY <1>1 DEF SavedFirst, Waiting, Working, Top
<1>5. RunRemembered'
  <2> SUFFICES ASSUME NEW x \in Ids, file'[x] # Absent, started[x] # Never, ~lost'
               PROVE  disk'[x] # Never /\ disk'[x] >= started[x]
    BY <1>1 DEF RunRemembered, Present
  <2>1. x # s /\ file[x] # Absent /\ disk'[x] = last[x]
    BY <1>1 DEF IInv, TablesOK
  <2>2. ~lost /\ (disk[x] # Never => disk'[x] # Never)
    BY <1>1, <2>1 DEF Loses
  <2>3. disk[x] # Never /\ disk[x] >= started[x]
    BY <2>1, <2>2 DEF IInv, RunRemembered, Present
  <2> QED BY <2>1, <2>2, <2>3 DEF IInv, InStep
<1> QED BY <1>2, <1>3, <1>4, <1>5 DEF IInv

LEMMA CrashInv == IInv /\ Crash => IInv'
<1> SUFFICES ASSUME IInv, Crash PROVE IInv'
  OBVIOUS
<1>1. /\ UNCHANGED <<now, file, started>>
      /\ last' = Nothing /\ disk' \in {disk, Nothing} /\ frames' = <<>>
      /\ lost' = (lost \/ Loses(disk', {}))
  BY DEF Crash
<1>2. TablesOK'
  BY <1>1 DEF IInv, TablesOK, Loses, Nothing, Times
<1>3. frames' \in Seq({}) /\ Len(frames') = 0
  BY <1>1
<1>4. FramesOK'
  BY <1>3 DEF FramesOK
<1>5. InStep' /\ Past' /\ SavedFirst'
  BY <1>1 DEF IInv, InStep, Past, SavedFirst, Working, Nothing
<1>6. RunRemembered'
  <2> SUFFICES ASSUME NEW x \in Ids, file[x] # Absent, started[x] # Never, ~lost'
               PROVE  disk'[x] # Never /\ disk'[x] >= started[x]
    BY <1>1 DEF RunRemembered, Present
  <2>1. ~lost /\ (disk[x] # Never => disk'[x] # Never)
    BY <1>1 DEF Loses
  <2>2. disk[x] # Never /\ disk[x] >= started[x]
    BY <2>1 DEF IInv, RunRemembered, Present
  <2> QED BY <1>1, <2>1, <2>2 DEF Nothing
<1> QED BY <1>2, <1>4, <1>5, <1>6 DEF IInv

-----------------------------------------------------------------------------
LEMMA NextInv == IInv /\ [Next]_vars => IInv'
<1> SUFFICES ASSUME IInv, [Next]_vars PROVE IInv'
  OBVIOUS
<1>1. CASE UNCHANGED vars
  BY <1>1 DEF vars, tables, history, IInv, TablesOK, FramesOK, IsFrame, InStep,
              Past, SavedFirst, Working, Top, RunRemembered, Present
<1>2. CASE \E s \in Ids, e \in Entries : SetProperty(s, e)
  BY <1>2, EditInv
<1>3. CASE \E s \in Ids : Delete(s)
  BY <1>3, DeleteInv
<1>4. CASE Pass \/ ModeOn \/ FireRecord \/ FireStart \/ Crash
  BY <1>4, PassInv, ModeOnInv, RecordInv, StartInv, CrashInv
<1>5. CASE \/ ModeOff \/ Tick \/ (\E s \in Ids : RunNow(s)) \/ Consider
           \/ EndLoop \/ FireWrite \/ FireFail \/ FireDone
  BY <1>5, LoopInv
<1> QED BY <1>1, <1>2, <1>3, <1>4, <1>5 DEF Next

\* For any calendar, any schedules, any nesting of loops, and across crashes and
\* restarts: the firing of a task that was started is in the state file, unless
\* that file has lost a time (cmacs-brigade-schedule-fire, --record-fire).
THEOREM StartedIsRemembered == Spec => []RunRemembered
<1>1. IInv => RunRemembered
  BY DEF IInv
<1> QED BY InitInv, NextInv, <1>1, PTL DEF Spec
=============================================================================
