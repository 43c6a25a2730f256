-------------------------- MODULE BrigadeRunProofs --------------------------
(***************************************************************************)
(* Proofs about BrigadeRun for any tasks, any caps and bounds, any faults  *)
(* and any mix of small and large prompts.                                 *)
(***************************************************************************)
EXTENDS BrigadeRun, TLAPS

\* A start of u is suspended somewhere in the stack st.
StartingIn(u, st) == \E i \in 1 .. Len(st) : st[i].k = "start" /\ st[i].t = u

\* Every start suspended in the stack st has a real worker number, so that
\* registering it does register a run.
NumberedIn(st) == \A i \in 1 .. Len(st) : st[i].k = "start" => st[i].n # 0

\* A frame is well typed when its fields are.
LEMMA FrameType ==
  ASSUME NEW k \in {"start", "finish", "hooks", "cancel", "drain0", "drain"},
         NEW t \in Tasks, NEW n \in Nat, NEW msg \in Nat, NEW g \in BOOLEAN
  PROVE  /\ Frame(k, t, n, msg, g) \in Frames
         /\ Frame(k, t, n, msg, g).k = k
         /\ Frame(k, t, n, msg, g).t = t
         /\ Frame(k, t, n, msg, g).n = n
BY DEF Frame, Frames

\* So is the frame of a drain.
LEMMA DrainType ==
  ASSUME NEW t \in Tasks, NEW g \in BOOLEAN
  PROVE  Drain(t, g) \in Frames /\ Drain(t, g).k = "drain0"
BY FrameType DEF Drain

\* Pushing a frame keeps the frames under it.
LEMMA Push ==
  ASSUME NEW f \in Frames, NEW st \in Seq(Frames)
  PROVE  /\ <<f>> \o st \in Seq(Frames)
         /\ \A u : StartingIn(u, st) => StartingIn(u, <<f>> \o st)
         /\ f.k = "start" => StartingIn(f.t, <<f>> \o st)
         /\ NumberedIn(st) /\ (f.k = "start" => f.n # 0) => NumberedIn(<<f>> \o st)
<1> DEFINE q == <<f>> \o st
<1>1. /\ q \in Seq(Frames)
      /\ Len(q) = Len(st) + 1
      /\ q[1] = f
      /\ \A i \in 1 .. Len(st) : q[i + 1] = st[i]
  OBVIOUS
<1>2. \A i \in 1 .. Len(q) : i # 1 => i - 1 \in 1 .. Len(st) /\ q[i] = st[i - 1]
  BY <1>1
<1> HIDE DEF q
<1>3. \A u : StartingIn(u, st) => StartingIn(u, q)
  <2> SUFFICES ASSUME NEW u, NEW i \in 1 .. Len(st), st[i].k = "start", st[i].t = u
               PROVE  StartingIn(u, q)
    BY DEF StartingIn
  <2> i + 1 \in 1 .. Len(q) /\ q[i + 1] = st[i]
    BY <1>1
  <2> QED BY DEF StartingIn
<1>4. f.k = "start" => StartingIn(f.t, q)
  <2> 1 \in 1 .. Len(q)
    BY <1>1
  <2> QED BY <1>1 DEF StartingIn
<1>5. NumberedIn(st) /\ (f.k = "start" => f.n # 0) => NumberedIn(q)
  BY <1>1, <1>2 DEF NumberedIn
<1> QED BY <1>1, <1>3, <1>4, <1>5 DEF q

\* Popping a frame loses nothing but that frame.
LEMMA Pop ==
  ASSUME NEW st \in Seq(Frames), st # <<>>
  PROVE  /\ Head(st) \in Frames
         /\ Tail(st) \in Seq(Frames)
         /\ \A u : StartingIn(u, st) =>
              StartingIn(u, Tail(st)) \/ (Head(st).k = "start" /\ Head(st).t = u)
         /\ NumberedIn(st) => NumberedIn(Tail(st)) /\ (Head(st).k = "start" => Head(st).n # 0)
<1>1. /\ Head(st) \in Frames /\ Tail(st) \in Seq(Frames)
      /\ Len(st) \in Nat /\ Len(st) # 0
      /\ Head(st) = st[1] /\ Len(Tail(st)) = Len(st) - 1
      /\ \A i \in 1 .. Len(Tail(st)) : Tail(st)[i] = st[i + 1]
  OBVIOUS
<1>2. \A i \in 1 .. Len(st) : i # 1 => i - 1 \in 1 .. Len(Tail(st)) /\ st[i] = Tail(st)[i - 1]
  BY <1>1
<1>3. ASSUME NEW u, StartingIn(u, st)
      PROVE  StartingIn(u, Tail(st)) \/ (Head(st).k = "start" /\ Head(st).t = u)
  <2> PICK i \in 1 .. Len(st) : st[i].k = "start" /\ st[i].t = u
    BY <1>3 DEF StartingIn
  <2> CASE i = 1
    BY <1>1
  <2> CASE i # 1
    BY <1>2 DEF StartingIn
  <2> QED OBVIOUS
<1>4. NumberedIn(st) => NumberedIn(Tail(st)) /\ (Head(st).k = "start" => Head(st).n # 0)
  <2> SUFFICES ASSUME NumberedIn(st)
               PROVE  NumberedIn(Tail(st)) /\ (Head(st).k = "start" => Head(st).n # 0)
    OBVIOUS
  <2>1. 1 \in 1 .. Len(st)
    BY <1>1
  <2>2. \A i \in 1 .. Len(Tail(st)) : i + 1 \in 1 .. Len(st)
    BY <1>1
  <2> QED BY <1>1, <2>1, <2>2 DEF NumberedIn
<1> QED BY <1>1, <1>3, <1>4

\* A transition leaves a table of states and an order of tasks.
LEMMA TableTypes ==
  ASSUME NEW s \in [Tasks -> States], NEW l \in Seq(Tasks), NEW t \in Tasks,
         NEW to \in States
  PROVE  /\ Moved(s, t, to) \in [Tasks -> States]
         /\ Stamped(l, s, t, to) \in Seq(Tasks)
<1>1. Moved(s, t, to) \in [Tasks -> States]
  BY DEF Moved
<1>2. Without(l, t) \in Seq(Tasks)
  <2> DEFINE i == CHOOSE i \in DOMAIN l : l[i] = t
  <2>1. CASE \E j \in DOMAIN l : l[j] = t
    <3>1. i \in 1 .. Len(l)
      BY <2>1
    <3> HIDE DEF i
    <3>2. RemoveAt(l, i) \in Seq(Tasks)
      BY <3>1 DEF RemoveAt
    <3> QED BY <2>1, <3>2 DEF Without, i
  <2>2. CASE ~ \E j \in DOMAIN l : l[j] = t
    BY <2>2 DEF Without
  <2> QED BY <2>1, <2>2
<1>3. Stamped(l, s, t, to) \in Seq(Tasks)
  BY <1>2 DEF Stamped
<1> QED BY <1>1, <1>3

\* The part of the invariant that starting and finishing disturb: the types of the
\* tables, and the two facts about what is held.
Core ==
  /\ state \in [Tasks -> States] /\ line \in Seq(Tasks)
  /\ runs \in [Tasks -> Nat]
  /\ conv \in [Tasks -> Conv] /\ \A t \in Tasks : conv[t].attempts < MaxAttempts
  /\ mail \in [Tasks -> Seq(Nat)] /\ delivered \in [Tasks -> Seq(Nat)]
  /\ cred \subseteq Tasks /\ iso \subseteq Tasks
  /\ alive \subseteq [t : Tasks, n : Nat] /\ started \in Nat
  /\ stack \in Seq(Frames)
  /\ NumberedIn(stack)
  /\ \A u \in cred : runs[u] # 0 \/ StartingIn(u, stack)
  /\ SandboxOwned

Rest == finishing \subseteq Tasks /\ dropped \subseteq Nat /\ sent \in Nat /\ reruns \in Nat

\* The inductive invariant.
IInv == Core /\ Rest

\* Changing some fields of a conversation record leaves one.
LEMMA ConvTypes ==
  /\ NoConv \in Conv /\ NoConv.attempts = 0 /\ ~NoConv.open
  /\ \A c \in Conv : /\ Put(c) \in Conv /\ Put(c).open
                     /\ Put(c).attempts = c.attempts /\ Put(c).boxed = c.boxed
BY DEF Conv, NoConv, Put

\* The messages of a mailbox are numbers.
LEMMA MessageNumbers ==
  ASSUME NEW q \in Seq(Nat)
  PROVE  Elements(q) \subseteq Nat
<1>1. \A i \in DOMAIN q : q[i] \in Nat
  OBVIOUS
<1> QED BY <1>1, Zenon DEF Elements

\* The same as ConvTypes, of a record that is already open.
LEMMA ConvFields ==
  ASSUME NEW c \in Conv, c.open
  PROVE  /\ LET d == [c EXCEPT !.boxed = TRUE]
            IN d \in Conv /\ d.open /\ d.boxed /\ d.attempts = c.attempts
         /\ LET d == [c EXCEPT !.attempts = 0]
            IN d \in Conv /\ d.open /\ d.boxed = c.boxed /\ d.attempts = 0
         /\ LET d == [c EXCEPT !.attempts = @ + 1]
            IN d \in Conv /\ d.open /\ d.boxed = c.boxed /\ d.attempts = c.attempts + 1
         /\ Answered(c) \in Conv /\ Answered(c).open
         /\ Answered(c).boxed = c.boxed /\ Answered(c).attempts = 0
<1>1. LET d == [c EXCEPT !.boxed = TRUE]
      IN d \in Conv /\ d.open /\ d.boxed /\ d.attempts = c.attempts
  BY DEF Conv
<1>2. LET d == [c EXCEPT !.attempts = 0]
      IN d \in Conv /\ d.open /\ d.boxed = c.boxed /\ d.attempts = 0
  BY DEF Conv
<1>3. LET d == [c EXCEPT !.attempts = @ + 1]
      IN d \in Conv /\ d.open /\ d.boxed = c.boxed /\ d.attempts = c.attempts + 1
  BY DEF Conv
<1>4. /\ Answered(c) \in Conv /\ Answered(c).open
      /\ Answered(c).boxed = c.boxed /\ Answered(c).attempts = 0
  BY DEF Conv, Answered
<1> QED BY <1>1, <1>2, <1>3, <1>4

\* A start that fails keeps the invariant, whatever it had got to: c and bx are the
\* conversation and the sandboxes at the moment of the error.
LEMMA StartErrorCore ==
  ASSUME Core, NEW t \in Tasks, NEW c \in Conv, c.attempts < MaxAttempts,
         NEW s \in [Tasks -> States], NEW l \in Seq(Tasks), NEW bx \in SUBSET Tasks,
         NEW base \in Seq(Frames), NEW g \in BOOLEAN,
         NumberedIn(base),
         \A u \in Tasks : u # t /\ StartingIn(u, stack) => StartingIn(u, base),
         \A u \in bx : u # t => u \in iso,
         t \in bx /\ c.open => c.boxed,
         StartError(t, c, s, l, bx, base, g),
         UNCHANGED <<runs, alive, started, mail, delivered>>
  PROVE  Core'
<1> USE RunAssumption
<1> DEFINE h == Frame("hooks", t, 0, 0, g)
           c1 == [Put(c) EXCEPT !.attempts = @ + 1]
<1>1. h \in Frames /\ h.k = "hooks"
  BY FrameType
<1>2. /\ <<h>> \o base \in Seq(Frames) /\ NumberedIn(<<h>> \o base)
      /\ \A u : StartingIn(u, base) => StartingIn(u, <<h>> \o base)
  <2> HIDE DEF h
  <2> QED BY <1>1, Push, SMTT(30)
<1>3. /\ c1 \in Conv /\ c1.open /\ c1.boxed = c.boxed /\ c1.attempts = c.attempts + 1
  <2> DEFINE p == Put(c)
  <2>1. p \in Conv /\ p.open /\ p.boxed = c.boxed /\ p.attempts = c.attempts
    BY ConvTypes
  <2> HIDE DEF p
  <2>2. LET d == [p EXCEPT !.attempts = @ + 1]
        IN d \in Conv /\ d.open /\ d.boxed = p.boxed /\ d.attempts = p.attempts + 1
    BY <2>1, ConvFields
  <2> QED BY <2>1, <2>2 DEF p
<1>4. "failed" \in States /\ "waiting-input" \in States
  BY DEF States, Live, Terminal
<1>5. /\ Moved(s, t, "failed") \in [Tasks -> States]
      /\ Moved(s, t, "waiting-input") \in [Tasks -> States]
      /\ Stamped(l, s, t, "waiting-input") \in Seq(Tasks)
  BY <1>4, TableTypes
<1>6. cred' = cred \ {t}
  BY DEF StartError, Revoked
<1> HIDE DEF h, c1
<1>7. CASE ~c.open /\ state' = Moved(s, t, "failed") /\ line' = l /\ iso' = bx \ {t}
           /\ conv' = [conv EXCEPT ![t] = c] /\ stack' = base
  BY <1>5, <1>6, <1>7 DEF Core, SandboxOwned
<1>8. CASE /\ c.open /\ ~GivesUp(c) /\ state' = Moved(s, t, "waiting-input")
           /\ line' = Stamped(l, s, t, "waiting-input") /\ iso' = bx
           /\ conv' = [conv EXCEPT ![t] = c1] /\ stack' = base
  <2>1. c1.attempts < MaxAttempts
    BY <1>3, <1>8 DEF GivesUp, Conv
  <2> QED BY <1>3, <1>5, <1>6, <1>8, <2>1 DEF Core, SandboxOwned
<1>9. CASE /\ c.open /\ state' = Moved(s, t, "failed") /\ line' = l
           /\ iso' = (IF c.boxed THEN bx \ {t} ELSE bx)
           /\ conv' = [conv EXCEPT ![t] = NoConv] /\ stack' = <<h>> \o base
  <2>1. conv' \in [Tasks -> Conv] /\ \A u \in Tasks : conv'[u].attempts < MaxAttempts
    BY <1>9, ConvTypes DEF Core
  <2>2. iso' = bx \ {t}
    BY <1>9
  <2>3. SandboxOwned'
    BY <1>9, <2>2 DEF Core, SandboxOwned
  <2> QED BY <1>2, <1>5, <1>6, <1>9, <2>1, <2>2, <2>3 DEF Core
<1> QED BY <1>7, <1>8, <1>9 DEF StartError, h, c1

\* Registering a run keeps the invariant: from here on the run is what the
\* credential belongs to.
LEMMA RegisterCore ==
  ASSUME Core, NEW t \in Tasks, NEW n \in Nat \ {0}, NEW msg \in Nat,
         NEW c \in Conv, c.attempts < MaxAttempts,
         NEW s \in [Tasks -> States], NEW base \in Seq(Frames), NumberedIn(base),
         \A u \in Tasks : u # t /\ StartingIn(u, stack) => StartingIn(u, base),
         Register(t, n, msg, c, s, base),
         line' \in Seq(Tasks), alive' \subseteq [t : Tasks, n : Nat], started' \in Nat,
         cred' \subseteq cred \cup {t}, iso' \subseteq iso \cup {t},
         t \in iso' => c.open /\ c.boxed
  PROVE  Core'
<1> USE RunAssumption
<1> DEFINE p == Put(c)
           c1 == [p EXCEPT !.attempts = 0]
<1>1. p \in Conv /\ p.open /\ p.boxed = c.boxed
  BY ConvTypes
<1>2. c1 \in Conv /\ c1.open /\ c1.boxed = c.boxed /\ c1.attempts = 0
  <2> HIDE DEF p
  <2> QED BY <1>1, ConvFields
<1> HIDE DEF p
<1>3. conv' = [conv EXCEPT ![t] = IF msg = 0 THEN c ELSE c1]
  BY DEF Register, p
<1> HIDE DEF c1
<1>4. /\ conv' \in [Tasks -> Conv] /\ \A u \in Tasks : conv'[u].attempts < MaxAttempts
      /\ \A u \in Tasks : u # t => conv'[u] = conv[u]
      /\ conv'[t].boxed = c.boxed /\ (c.open => conv'[t].open)
  BY <1>2, <1>3 DEF Core
<1>5. "running" \in States
  BY DEF States, Live
<1>6. state' \in [Tasks -> States]
  BY <1>5, TableTypes DEF Register, UnderWay, Core
<1>7. mail' \in [Tasks -> Seq(Nat)] /\ delivered' \in [Tasks -> Seq(Nat)]
  <2>1. mail[t] # <<>> => Tail(mail[t]) \in Seq(Nat)
    BY DEF Core
  <2>2. mail' \in [Tasks -> Seq(Nat)]
    BY <2>1 DEF Core, Register, Taken
  <2>3. Append(delivered[t], msg) \in Seq(Nat)
    BY DEF Core
  <2> QED BY <2>2, <2>3 DEF Core, Register
<1>8. runs' \in [Tasks -> Nat] /\ runs'[t] # 0 /\ \A u \in Tasks : u # t => runs'[u] = runs[u]
  BY DEF Core, Register
<1>9. stack' = base
  BY DEF Register
<1>10. \A u \in cred' : runs'[u] # 0 \/ StartingIn(u, stack')
  BY <1>8, <1>9 DEF Core
<1>11. SandboxOwned'
  BY <1>4 DEF Core, SandboxOwned
<1> QED BY <1>4, <1>6, <1>7, <1>8, <1>9, <1>10, <1>11 DEF Core

\* Starting a worker keeps the invariant.
LEMMA LaunchCore ==
  ASSUME Core, NEW t \in Tasks, NEW s \in [Tasks -> States], NEW l \in Seq(Tasks),
         NEW base \in Seq(Frames), NEW g \in BOOLEAN, NumberedIn(base),
         \A u \in Tasks : StartingIn(u, stack) => StartingIn(u, base),
         Launch(t, s, l, base, g)
  PROVE  Core'
<1> USE RunAssumption
<1> DEFINE resumed == conv[t].open /\ mail[t] # <<>>
           msg == IF resumed THEN Head(mail[t]) ELSE 0
           p   == Put(conv[t])
           c   == IF resumed THEN conv[t] ELSE [p EXCEPT !.boxed = TRUE]
           bx  == IF resumed THEN iso ELSE iso \cup {t}
           n   == started + 1
           s1  == [s EXCEPT ![t] = "starting"]
           f   == Frame("start", t, n, msg, g)
<1>1. msg \in Nat /\ n \in Nat \ {0}
  BY DEF Core
<1>2. s1 \in [Tasks -> States]
  BY DEF States, Live
<1>3. conv[t] \in Conv /\ conv[t].attempts < MaxAttempts
  BY DEF Core
<1>4. /\ c \in Conv /\ c.attempts < MaxAttempts
      /\ t \in bx => c.open /\ c.boxed
  <2>1. p \in Conv /\ p.open /\ p.attempts = conv[t].attempts
    BY <1>3, ConvTypes
  <2> HIDE DEF p
  <2>2. LET d == [p EXCEPT !.boxed = TRUE]
        IN d \in Conv /\ d.open /\ d.boxed /\ d.attempts = p.attempts
    BY <2>1, ConvFields
  <2> QED BY <1>3, <2>1, <2>2 DEF Core, SandboxOwned
<1>5. bx \in SUBSET Tasks /\ iso \ {t} \in SUBSET Tasks /\ bx \subseteq iso \cup {t}
  BY DEF Core
<1> HIDE DEF msg, n
<1>6. f \in Frames /\ f.k = "start" /\ f.t = t /\ f.n = n
  BY <1>1, FrameType
<1> HIDE DEF f
<1>7. /\ <<f>> \o base \in Seq(Frames) /\ NumberedIn(<<f>> \o base)
      /\ StartingIn(t, <<f>> \o base)
      /\ \A u : StartingIn(u, base) => StartingIn(u, <<f>> \o base)
  BY <1>1, <1>6, Push, SMTT(30)
<1> HIDE DEF c, bx, s1
<1>8. CASE /\ StartError(t, conv[t], s1, l, iso \ {t}, base, g)
           /\ UNCHANGED <<runs, alive, started, mail, delivered>>
  <2> DEFINE c0 == conv[t]
             b0 == iso \ {t}
  <2>1. c0 \in Conv /\ c0.attempts < MaxAttempts
    BY <1>3
  <2>2. b0 \in SUBSET Tasks /\ t \notin b0 /\ \A u \in b0 : u \in iso
    BY DEF Core
  <2>3. StartError(t, c0, s1, l, b0, base, g)
    BY <1>8
  <2> HIDE DEF c0, b0
  <2> QED BY <1>2, <1>8, <2>1, <2>2, <2>3, StartErrorCore, SMTT(30)
<1>9. CASE /\ StartError(t, c, s1, l, bx, base, g)
           /\ UNCHANGED <<runs, alive, started, mail, delivered>>
  BY <1>2, <1>4, <1>5, <1>9, StartErrorCore, SMTT(30)
<1>10. CASE /\ started' = n /\ alive' = alive \cup {[t |-> t, n |-> n]}
            /\ cred' = cred \cup {t} /\ iso' = bx /\ line' = l
            /\ state' = s1 /\ conv' = [conv EXCEPT ![t] = c]
            /\ stack' = <<f>> \o base /\ UNCHANGED <<runs, mail, delivered>>
  <2>1. conv' \in [Tasks -> Conv] /\ \A u \in Tasks : conv'[u].attempts < MaxAttempts
    BY <1>4, <1>10 DEF Core
  <2>2. SandboxOwned'
    BY <1>4, <1>5, <1>10 DEF Core, SandboxOwned
  <2>3. \A u \in cred' : runs'[u] # 0 \/ StartingIn(u, stack')
    BY <1>7, <1>10 DEF Core
  <2>4. alive' \subseteq [t : Tasks, n : Nat]
    BY <1>1, <1>10 DEF Core
  <2> QED BY <1>1, <1>2, <1>5, <1>7, <1>10, <2>1, <2>2, <2>3, <2>4 DEF Core
<1>11. CASE /\ started' = n /\ alive' = alive \cup {[t |-> t, n |-> n]}
            /\ cred' = cred \cup {t} /\ iso' = bx /\ line' = l
            /\ Register(t, n, msg, c, s1, base)
  <2>1. alive' \subseteq [t : Tasks, n : Nat]
    BY <1>1, <1>11 DEF Core
  <2> QED BY <1>1, <1>2, <1>4, <1>5, <1>11, <2>1, RegisterCore, ZenonT(40)
<1> QED BY <1>8, <1>9, <1>10, <1>11 DEF Launch, msg, c, bx, n, s1, f, p

\* cmacs-brigade-start-task keeps the invariant, from whatever handler it is
\* called: base is what is left of that handler.
LEMMA StartTaskCore ==
  ASSUME Core, NEW t \in Tasks, NEW s \in [Tasks -> States], NEW l \in Seq(Tasks),
         NEW base \in Seq(Frames), NEW g \in BOOLEAN, NumberedIn(base),
         \A u \in Tasks : StartingIn(u, stack) => StartingIn(u, base),
         StartTask(t, s, l, base, g)
  PROVE  Core'
<1>1. "failed" \in States
  BY DEF States, Terminal
<1>2. Moved(s, t, "failed") \in [Tasks -> States]
  BY <1>1, TableTypes
<1>3. CASE /\ state' \in {s, Moved(s, t, "failed")} /\ line' = l /\ stack' = base
           /\ UNCHANGED <<conv, mail, delivered, workers>>
  BY <1>2, <1>3 DEF Core, SandboxOwned, workers
<1>4. CASE Launch(t, s, l, base, g)
  BY <1>4, LaunchCore
<1> QED BY <1>3, <1>4 DEF StartTask

\* Ending a turn keeps the invariant: the credential goes with the run.
LEMMA FinishCore ==
  ASSUME Core, finishing \subseteq Tasks,
         NEW t \in Tasks, NEW outcome \in {"done", "failed"},
         NEW base \in Seq(Frames), NEW g \in BOOLEAN, NumberedIn(base),
         \A u \in Tasks : StartingIn(u, stack) => StartingIn(u, base),
         Finish(t, outcome, base, g),
         alive' \subseteq [t : Tasks, n : Nat],
         UNCHANGED <<line, mail, delivered, started>>
  PROVE  Core' /\ finishing' \subseteq Tasks
<1> USE RunAssumption
<1> DEFINE keep == conv[t].open /\ outcome = "done"
           f    == Frame("finish", t, 0, 0, g)
           c1   == IF keep THEN Answered(conv[t]) ELSE NoConv
<1>1. CASE t \in finishing
  BY <1>1 DEF Core, Finish, SandboxOwned
<1>2. CASE t \notin finishing
  <2>1. f \in Frames /\ f.k = "finish"
    BY FrameType
  <2> HIDE DEF f
  <2>2. /\ <<f>> \o base \in Seq(Frames) /\ NumberedIn(<<f>> \o base)
        /\ \A u : StartingIn(u, base) => StartingIn(u, <<f>> \o base)
    BY <2>1, Push, SMTT(30)
  <2>3. /\ c1 \in Conv /\ c1.attempts = 0
        /\ keep => c1.open /\ c1.boxed = conv[t].boxed
    BY ConvTypes, ConvFields DEF Core
  <2>4. conv' = [conv EXCEPT ![t] = c1]
    BY <1>2 DEF Finish
  <2>5. /\ runs' = [runs EXCEPT ![t] = 0] /\ stack' = <<f>> \o base
        /\ state' = Moved(state, t, outcome) /\ finishing' = finishing \cup {t}
        /\ iso' = SandboxesAfter(t, keep)
        /\ runs[t] # 0 => cred' = cred \ {t}
        /\ cred' \subseteq cred
    BY <1>2 DEF Finish, Released, f
  <2> HIDE DEF c1
  <2>6. outcome \in States
    BY DEF States, Terminal
  <2>7. state' \in [Tasks -> States]
    BY <2>5, <2>6, TableTypes DEF Core
  <2>8. conv' \in [Tasks -> Conv] /\ \A u \in Tasks : conv'[u].attempts < MaxAttempts
    BY <2>3, <2>4 DEF Core
  <2>9. iso' \subseteq iso /\ (~keep => t \notin iso')
    BY <2>5 DEF SandboxesAfter, Core, SandboxOwned
  <2>10. SandboxOwned'
    BY <2>3, <2>4, <2>9 DEF Core, SandboxOwned
  <2>11. \A u \in cred' : runs'[u] # 0 \/ StartingIn(u, stack')
    BY <2>2, <2>5 DEF Core
  <2> QED BY <2>2, <2>5, <2>7, <2>8, <2>9, <2>10, <2>11 DEF Core
<1> QED BY <1>1, <1>2

\* Cancelling keeps the invariant.
LEMMA CancelRestCore ==
  ASSUME IInv, NEW t \in Tasks, NEW hadRun \in BOOLEAN,
         NEW base \in Seq(Frames), NEW g \in BOOLEAN, NumberedIn(base),
         \A u \in Tasks : StartingIn(u, stack) => StartingIn(u, base),
         CancelRest(t, hadRun, base, g),
         UNCHANGED <<alive, started, sent, reruns>>
  PROVE  IInv'
<1> USE RunAssumption
<1> DEFINE d == Drain(t, g)
           h == Frame("hooks", t, 0, 0, g)
           b == IF CanTransition(state[t], "cancelled") THEN <<h>> \o base ELSE base
<1>1. d \in Frames /\ d.k = "drain0" /\ h \in Frames /\ h.k = "hooks"
  BY FrameType, DrainType
<1> HIDE DEF d, h
<1>2. /\ b \in Seq(Frames) /\ NumberedIn(b)
      /\ \A u : StartingIn(u, base) => StartingIn(u, b)
  BY <1>1, Push, SMTT(30)
<1> HIDE DEF b
<1>3. /\ <<d>> \o b \in Seq(Frames) /\ NumberedIn(<<d>> \o b)
      /\ \A u : StartingIn(u, b) => StartingIn(u, <<d>> \o b)
  BY <1>1, <1>2, Push, SMTT(30)
<1>4. stack' = <<d>> \o b
  BY DEF CancelRest, d, h, b
<1>5. "cancelled" \in States
  BY DEF States, Terminal
<1>6. state' \in [Tasks -> States]
  BY <1>5, TableTypes DEF CancelRest, IInv, Core
<1>7. conv' \in [Tasks -> Conv] /\ \A u \in Tasks : conv'[u].attempts < MaxAttempts
  BY ConvTypes DEF CancelRest, IInv, Core
<1>8. iso' \subseteq iso /\ t \notin iso'
  BY DEF CancelRest, SandboxesWithout, IInv, Core, SandboxOwned
<1>9. SandboxOwned'
  BY <1>8 DEF CancelRest, IInv, Core, SandboxOwned
<1>10. \A u \in cred' : runs'[u] # 0 \/ StartingIn(u, stack')
  BY <1>2, <1>3, <1>4 DEF CancelRest, IInv, Core
<1>11. mail' \in [Tasks -> Seq(Nat)] /\ dropped' \subseteq Nat
  <2>1. Elements(mail[t]) \subseteq Nat
    BY MessageNumbers DEF IInv, Core
  <2>2. mail' = [mail EXCEPT ![t] = <<>>] /\ dropped' = dropped \cup Elements(mail[t])
    BY DEF CancelRest
  <2>3. mail' \in [Tasks -> Seq(Nat)]
    BY <2>2 DEF IInv, Core
  <2> QED BY <2>1, <2>2, <2>3 DEF IInv, Rest
<1>12. Core'
  BY <1>3, <1>4, <1>6, <1>7, <1>8, <1>9, <1>10, <1>11 DEF CancelRest, IInv, Core
<1>13. Rest'
  BY <1>11 DEF CancelRest, IInv, Rest
<1> QED BY <1>12, <1>13 DEF IInv

\* Initially nothing runs and nothing is held.
LEMMA InitIInv == Init => IInv
<1> SUFFICES ASSUME Init PROVE IInv
  OBVIOUS
<1> USE RunAssumption
<1>1. "draft" \in States
  BY DEF States
<1>2. Core
  BY <1>1, ConvTypes DEF Init, Core, SandboxOwned, NumberedIn
<1>3. Rest
  BY DEF Init, Rest
<1> QED BY <1>2, <1>3 DEF IInv

\* Every handler keeps the inductive invariant.
LEMMA NextIInv == IInv /\ [Next]_vars => IInv'
<1> SUFFICES ASSUME IInv, [Next]_vars PROVE IInv'
  OBVIOUS
<1> USE RunAssumption
<1>0. Core /\ Rest /\ stack \in Seq(Frames) /\ NumberedIn(stack)
  BY DEF IInv, Core
<1> DEFINE top == Head(stack)
           under == Tail(stack)
<1>a. ASSUME stack # <<>>
      PROVE  /\ top \in Frames /\ top.t \in Tasks /\ top.glib \in BOOLEAN
             /\ top.n \in Nat /\ top.msg \in Nat
             /\ top.order \in Seq(Tasks) /\ top.queued \in SUBSET Tasks
             /\ under \in Seq(Frames) /\ NumberedIn(under)
             /\ top.k = "start" => top.n # 0
             /\ \A u : StartingIn(u, stack) =>
                         StartingIn(u, under) \/ (top.k = "start" /\ top.t = u)
  BY <1>0, <1>a, Pop DEF Frames
<1>1. ASSUME DrainStep PROVE IInv'
  <2> DEFINE order  == IF top.k = "drain0" THEN line ELSE top.order
             queued == IF top.k = "drain0" THEN {t \in Tasks : state[t] = "queued"}
                       ELSE top.queued
  <2>0. stack # <<>> /\ top.k \in {"drain0", "drain"} /\ UNCHANGED reruns
    BY <1>1 DEF DrainStep
  <2>1. order \in Seq(Tasks) /\ queued \in SUBSET Tasks
    BY <1>a, <2>0 DEF IInv, Core
  <2>2. CASE stack' = under /\ UNCHANGED <<table, convs, workers, sent>>
    BY <1>0, <1>a, <2>0, <2>2 DEF IInv, Core, Rest, SandboxOwned, table, convs, workers
  <2>3. ASSUME NEW i \in DOMAIN order,
               StartTask(order[i], state, line,
                         <<[top EXCEPT !.k = "drain", !.queued = queued,
                                       !.order = SubSeq(order, i + 1, Len(order))]>> \o under,
                         top.glib)
        PROVE  IInv'
    <3> DEFINE rest == SubSeq(order, i + 1, Len(order))
               g == [top EXCEPT !.k = "drain", !.queued = queued, !.order = rest]
    <3> HIDE DEF order, queued
    <3>1. order[i] \in Tasks /\ rest \in Seq(Tasks)
      BY <2>1
    <3> HIDE DEF rest
    <3>2. g \in Frames /\ g.k = "drain"
      BY <1>a, <2>0, <2>1, <3>1 DEF Frames
    <3> HIDE DEF g, top, under
    <3>3. /\ <<g>> \o under \in Seq(Frames) /\ NumberedIn(<<g>> \o under)
          /\ \A u : StartingIn(u, stack) => StartingIn(u, <<g>> \o under)
      BY <1>a, <2>0, <3>2, Push, ZenonT(40)
    <3>4. StartTask(order[i], state, line, <<g>> \o under, top.glib)
      BY <2>3 DEF g, rest
    <3>5. state \in [Tasks -> States] /\ line \in Seq(Tasks)
      BY <1>0 DEF Core
    <3>6. PICK s \in [Tasks -> States], l \in Seq(Tasks), base \in Seq(Frames),
               h \in BOOLEAN, t \in Tasks :
             s = state /\ l = line /\ base = <<g>> \o under /\ h = top.glib /\ t = order[i]
      BY <1>a, <2>0, <3>1, <3>3, <3>5
    <3>7. /\ StartTask(t, s, l, base, h) /\ NumberedIn(base)
          /\ \A u \in Tasks : StartingIn(u, stack) => StartingIn(u, base)
      BY <3>3, <3>4, <3>6
    <3>8. Core'
      BY <1>0, <3>7, StartTaskCore, SMTT(30)
    <3>9. Rest'
      BY <1>0, <2>0, <3>4 DEF StartTask, Rest
    <3> QED BY <3>8, <3>9 DEF IInv
  <2> QED BY <1>1, <2>2, <2>3 DEF DrainStep
<1>2. ASSUME StartResume PROVE IInv'
  <2> DEFINE t == top.t
  <2>0. /\ stack # <<>> /\ top.k = "start"
        /\ UNCHANGED <<alive, started, finishing, dropped, sent, reruns>>
    BY <1>2 DEF StartResume
  <2>1. /\ t \in Tasks /\ conv[t] \in Conv /\ conv[t].attempts < MaxAttempts
        /\ state \in [Tasks -> States] /\ line \in Seq(Tasks) /\ iso \in SUBSET Tasks
        /\ t \in iso => conv[t].open /\ conv[t].boxed
    BY <1>0, <1>a, <2>0 DEF Core, SandboxOwned
  <2>2. \A u \in Tasks : u # t /\ StartingIn(u, stack) => StartingIn(u, under)
    BY <1>a, <2>0
  <2>3. Rest'
    BY <1>0, <2>0 DEF Rest
  <2> DEFINE c == conv[t]
  <2>4. CASE /\ Register(t, top.n, top.msg, c, state, under)
             /\ UNCHANGED <<line, cred, iso>>
    <3>1. top.n \in Nat \ {0} /\ top.msg \in Nat
      BY <1>a, <2>0
    <3>2. alive' \subseteq [t : Tasks, n : Nat] /\ started' \in Nat
      BY <1>0, <2>0 DEF Core
    <3> HIDE DEF c, t, under
    <3>3. Core'
      BY <1>0, <1>a, <2>0, <2>1, <2>2, <2>4, <3>1, <3>2, RegisterCore, ZenonT(40) DEF c
    <3> QED BY <2>3, <3>3 DEF IInv
  <2>5. CASE /\ StartError(t, c, state, line, iso, under, top.glib)
             /\ UNCHANGED <<runs, mail, delivered>>
    <3>1. UNCHANGED <<runs, alive, started, mail, delivered>>
      BY <2>0, <2>5
    <3>2. /\ c \in Conv /\ c.attempts < MaxAttempts /\ (t \in iso /\ c.open => c.boxed)
          /\ top.glib \in BOOLEAN /\ under \in Seq(Frames) /\ NumberedIn(under)
      BY <1>a, <2>0, <2>1
    <3>3. PICK g \in BOOLEAN, d \in Conv, v \in Tasks, b \in Seq(Frames), bx \in SUBSET Tasks,
               s \in [Tasks -> States], l \in Seq(Tasks) :
             g = top.glib /\ d = c /\ v = t /\ b = under /\ bx = iso /\ s = state /\ l = line
      BY <2>1, <3>2
    <3>4. /\ StartError(v, d, s, l, bx, b, g) /\ NumberedIn(b)
          /\ d.attempts < MaxAttempts /\ (v \in bx => d.open /\ d.boxed)
          /\ \A u \in Tasks : u # v /\ StartingIn(u, stack) => StartingIn(u, b)
          /\ \A u \in bx : u # v => u \in iso
      BY <2>1, <2>2, <2>5, <3>2, <3>3
    <3> HIDE DEF c, t, under
    <3>5. Core'
      BY <1>0, <3>1, <3>4, StartErrorCore, SMTT(30)
    <3> QED BY <2>3, <3>5 DEF IInv
  <2> QED BY <1>2, <2>4, <2>5 DEF StartResume
<1>3. ASSUME FinishResume PROVE IInv'
  <2> DEFINE d == Drain(top.t, top.glib)
  <2>0. /\ stack # <<>> /\ top.k = "finish" /\ finishing' = finishing \ {top.t}
        /\ UNCHANGED <<conv, mail, delivered, dropped, workers, sent, reruns>>
    BY <1>3 DEF FinishResume, Unguarded
  <2>1. d \in Frames /\ d.k = "drain0"
    BY <1>a, <2>0, DrainType
  <2> HIDE DEF d
  <2>2. /\ <<d>> \o under \in Seq(Frames) /\ NumberedIn(<<d>> \o under)
        /\ \A u : StartingIn(u, under) => StartingIn(u, <<d>> \o under)
    BY <1>a, <2>0, <2>1, Push, ZenonT(40)
  <2> DEFINE b == <<d>> \o under
  <2> HIDE DEF b
  <2>3. /\ <<d>> \o b \in Seq(Frames) /\ NumberedIn(<<d>> \o b)
        /\ \A u : StartingIn(u, b) => StartingIn(u, <<d>> \o b)
    BY <2>1, <2>2, Push, ZenonT(40) DEF b
  <2>4. "queued" \in States
    BY DEF States
  <2>5. /\ Moved(state, top.t, "queued") \in [Tasks -> States]
        /\ Stamped(line, state, top.t, "queued") \in Seq(Tasks)
    BY <1>0, <1>a, <2>0, <2>4, TableTypes DEF Core
  <2>6. stack' \in {under, b, <<d>> \o b}
    BY <1>3 DEF FinishResume, Drains, d, b
  <2>7. /\ stack' \in Seq(Frames) /\ NumberedIn(stack')
        /\ \A u : StartingIn(u, stack) => StartingIn(u, stack')
    BY <1>a, <2>0, <2>2, <2>3, <2>6 DEF b
  <2>8. state' \in [Tasks -> States] /\ line' \in Seq(Tasks)
    BY <1>0, <1>3, <2>5 DEF FinishResume, Core, table
  <2>9. Core'
    BY <1>0, <2>0, <2>7, <2>8 DEF Core, SandboxOwned, workers
  <2>10. Rest'
    BY <1>0, <2>0 DEF Rest
  <2> QED BY <2>9, <2>10 DEF IInv
<1>4. ASSUME HooksResume PROVE IInv'
  BY <1>0, <1>a, <1>4 DEF HooksResume, IInv, Core, Rest, SandboxOwned, table, convs, workers
<1>5. ASSUME CancelResume PROVE IInv'
  <2>0. /\ stack # <<>> /\ top.k = "cancel"
        /\ CancelRest(top.t, TRUE, under, top.glib)
        /\ UNCHANGED <<alive, started, sent, reruns>>
    BY <1>5 DEF CancelResume
  <2> HIDE DEF top, under
  <2> QED BY <1>a, <2>0, CancelRestCore, ZenonT(40)
<1>6. ASSUME NEW w \in alive, NEW outcome \in {"done", "failed"}, NEW g \in BOOLEAN,
             Finish(w.t, outcome, stack, g), alive' = alive \ {w},
             UNCHANGED <<line, mail, delivered, dropped, started, sent, reruns>>
      PROVE  IInv'
  <2>1. w.t \in Tasks /\ alive' \subseteq [t : Tasks, n : Nat] /\ finishing \subseteq Tasks
    BY <1>0, <1>6 DEF Core, Rest
  <2>2. Core' /\ finishing' \subseteq Tasks
    BY <1>0, <1>6, <2>1, FinishCore, SMTT(30)
  <2>3. Rest'
    BY <1>0, <1>6, <2>2 DEF Rest
  <2> QED BY <2>2, <2>3 DEF IInv
<1>7. ASSUME Report PROVE IInv'
  BY <1>6, <1>7 DEF Report, ProcessExit, InprocDone
<1>8. ASSUME NEW t \in Tasks, NEW g \in BOOLEAN, reruns' \in Nat,
             StartTask(t, Moved(state, t, "queued"), Stamped(line, state, t, "queued"),
                       stack, g)
      PROVE  IInv'
  <2> DEFINE s == Moved(state, t, "queued")
             l == Stamped(line, state, t, "queued")
  <2>1. "queued" \in States
    BY DEF States
  <2>2. s \in [Tasks -> States] /\ l \in Seq(Tasks)
    BY <1>0, <2>1, TableTypes DEF Core
  <2> HIDE DEF s, l
  <2>3. StartTask(t, s, l, stack, g)
    BY <1>8 DEF s, l
  <2>4. Core'
    BY <1>0, <2>2, <2>3, StartTaskCore, SMTT(30)
  <2>5. Rest'
    BY <1>0, <1>8, <2>3 DEF StartTask, Rest
  <2> QED BY <2>4, <2>5 DEF IInv
<1>9. ASSUME NEW t \in Tasks, NEW tool \in BOOLEAN, Spawn(t, tool) PROVE IInv'
  BY <1>0, <1>8, <1>9 DEF Spawn, Rest
<1>10. ASSUME NEW t \in Tasks, Rerun(t) PROVE IInv'
  <2>1. reruns' \in Nat /\ FALSE \in BOOLEAN
    BY <1>0, <1>10 DEF Rerun, Rest
  <2> QED BY <1>8, <1>10, <2>1 DEF Rerun
<1>11. ASSUME NEW t \in Tasks, NEW tool \in BOOLEAN, AgentSend(t, tool) PROVE IInv'
  <2> DEFINE d == Drain(t, tool)
  <2>1. d \in Frames /\ d.k = "drain0"
    BY DrainType
  <2> HIDE DEF d
  <2>2. /\ <<d>> \o stack \in Seq(Frames) /\ NumberedIn(<<d>> \o stack)
        /\ \A u : StartingIn(u, stack) => StartingIn(u, <<d>> \o stack)
    BY <1>0, <2>1, Push, SMTT(30)
  <2>3. "queued" \in States
    BY DEF States
  <2>4. /\ Moved(state, t, "queued") \in [Tasks -> States]
        /\ Stamped(line, state, t, "queued") \in Seq(Tasks)
    BY <1>0, <2>3, TableTypes DEF Core
  <2>5. /\ stack' \in {stack, <<d>> \o stack}
        /\ state' \in [Tasks -> States] /\ line' \in Seq(Tasks)
    BY <1>0, <1>11, <2>4 DEF AgentSend, Core, table, d
  <2>6. mail' \in [Tasks -> Seq(Nat)] /\ sent' \in Nat
    <3>1. Append(mail[t], sent + 1) \in Seq(Nat)
      BY <1>0 DEF Core, Rest
    <3> QED BY <1>0, <1>11, <3>1 DEF AgentSend, Core, Rest
  <2>7. Core'
    BY <1>0, <1>11, <2>2, <2>5, <2>6 DEF AgentSend, Core, SandboxOwned, workers
  <2>8. Rest'
    BY <1>0, <1>11, <2>6 DEF AgentSend, Rest
  <2> QED BY <2>7, <2>8 DEF IInv
<1>12. ASSUME NEW t \in Tasks PROVE mail[t] \in Seq(Nat) /\ Elements(mail[t]) \subseteq Nat
  BY <1>0, <1>12, MessageNumbers DEF Core
<1>13. ASSUME NEW t \in Tasks, NEW i \in 0 .. MailboxMax, AgentDrop(t, i) PROVE IInv'
  <2>1. i # 0 => RemoveAt(mail[t], i) \in Seq(Nat) /\ mail[t][i] \in Nat
    BY <1>12, <1>13 DEF RemoveAt, AgentDrop
  <2>2. mail' \in [Tasks -> Seq(Nat)]
    BY <1>0, <1>13, <2>1 DEF AgentDrop, Core
  <2>3. dropped' \subseteq Nat
    BY <1>0, <1>12, <1>13, <2>1 DEF AgentDrop, Rest
  <2>4. Core'
    BY <1>0, <1>13, <2>2 DEF AgentDrop, Core, SandboxOwned, table, workers
  <2> QED BY <1>0, <1>13, <2>3, <2>4 DEF AgentDrop, IInv, Rest
<1>14. ASSUME NEW t \in Tasks, Close(t), mail' \in [Tasks -> Seq(Nat)],
              UNCHANGED <<line, delivered, runs, alive, started, stack>>
       PROVE  Core'
  <2>1. "done" \in States
    BY DEF States, Terminal
  <2>2. state' \in [Tasks -> States]
    BY <1>0, <1>14, <2>1, TableTypes DEF Close, Core
  <2>3. conv' \in [Tasks -> Conv] /\ \A u \in Tasks : conv'[u].attempts < MaxAttempts
    BY <1>0, <1>14, ConvTypes DEF Close, Core
  <2>4. iso' \subseteq iso /\ t \notin iso'
    BY <1>0, <1>14 DEF Close, SandboxesWithout, Core, SandboxOwned
  <2>5. SandboxOwned'
    BY <1>0, <1>14, <2>4 DEF Close, Core, SandboxOwned
  <2>6. cred' \subseteq cred
    BY <1>14 DEF Close
  <2> QED BY <1>0, <1>14, <2>2, <2>3, <2>4, <2>5, <2>6 DEF Core
<1>15. ASSUME NEW t \in Tasks, AgentClose(t) PROVE IInv'
  <2>1. mail' \in [Tasks -> Seq(Nat)]
    BY <1>0, <1>15 DEF AgentClose, Core
  <2>2. Core'
    BY <1>14, <1>15, <2>1 DEF AgentClose
  <2> QED BY <1>0, <1>12, <1>15, <2>2 DEF AgentClose, IInv, Rest
<1>16. ASSUME HookClose PROVE IInv'
  <2>1. stack # <<>> /\ Head(stack).t \in Tasks
    BY <1>a, <1>16 DEF HookClose
  <2>2. mail' \in [Tasks -> Seq(Nat)]
    BY <1>0, <1>16 DEF HookClose, Core
  <2>3. Core'
    BY <1>14, <1>16, <2>1, <2>2 DEF HookClose
  <2> QED BY <1>0, <1>16, <2>3 DEF HookClose, IInv, Rest
<1>17. ASSUME NEW t \in Tasks, NEW tool \in BOOLEAN, AgentCancel(t, tool) PROVE IInv'
  <2> DEFINE f == Frame("cancel", t, 0, 0, tool)
             w == [t |-> t, n |-> runs[t]]
  <2>1. f \in Frames /\ f.k = "cancel"
    BY FrameType
  <2> HIDE DEF f
  <2>2. /\ <<f>> \o stack \in Seq(Frames) /\ NumberedIn(<<f>> \o stack)
        /\ \A u : StartingIn(u, stack) => StartingIn(u, <<f>> \o stack)
    BY <1>0, <2>1, Push, SMTT(30)
  <2>3. CASE /\ alive' = alive \ {w} /\ Finish(t, "failed", <<f>> \o stack, tool)
             /\ UNCHANGED <<line, mail, delivered, dropped>>
    <3> DEFINE b == <<f>> \o stack
    <3> HIDE DEF b
    <3>1. alive' \subseteq [t : Tasks, n : Nat] /\ finishing \subseteq Tasks
      BY <1>0, <2>3 DEF Core, Rest
    <3>2. UNCHANGED <<line, mail, delivered, started>>
      BY <1>17, <2>3 DEF AgentCancel
    <3>3. Core' /\ finishing' \subseteq Tasks
      BY <1>0, <2>2, <2>3, <3>1, <3>2, FinishCore, ZenonT(40) DEF b
    <3> QED BY <1>0, <1>17, <2>3, <3>3 DEF AgentCancel, IInv, Rest
  <2>4. CASE CancelRest(t, runs[t] # 0, stack, tool) /\ UNCHANGED alive
    <3> DEFINE had == runs[t] # 0
    <3>1. had \in BOOLEAN
      OBVIOUS
    <3>2. UNCHANGED <<alive, started, sent, reruns>>
      BY <1>17, <2>4 DEF AgentCancel
    <3> HIDE DEF had
    <3>3. CancelRest(t, had, stack, tool)
      BY <2>4 DEF had
    <3> QED BY <1>0, <3>1, <3>2, <3>3, CancelRestCore, SMTT(30)
  <2> QED BY <1>17, <2>3, <2>4 DEF AgentCancel, f
<1>18. ASSUME NEW t \in Tasks, Age(t) PROVE IInv'
  <2> DEFINE c == [conv[t] EXCEPT !.idle = TRUE]
  <2>1. c \in Conv /\ c.open = conv[t].open /\ c.boxed = conv[t].boxed
        /\ c.attempts = conv[t].attempts
    BY <1>0 DEF Core, Conv
  <2>2. conv' = [conv EXCEPT ![t] = c]
    BY <1>18 DEF Age
  <2> HIDE DEF c
  <2>3. Core'
    <3>1. UNCHANGED <<state, line, mail, delivered, runs, cred, iso, alive, started, stack>>
      BY <1>18 DEF Age, table, workers
    <3>2. conv' \in [Tasks -> Conv] /\ \A u \in Tasks : conv'[u].attempts < MaxAttempts
      BY <1>0, <2>1, <2>2 DEF Core
    <3>3. SandboxOwned'
      BY <1>0, <2>1, <2>2, <3>1 DEF Core, SandboxOwned
    <3> QED BY <1>0, <3>1, <3>2, <3>3 DEF Core
  <2> QED BY <1>0, <1>18, <2>3 DEF Age, IInv, Rest
<1>19. ASSUME NEW force \in BOOLEAN, Sweep(force) PROVE IInv'
  <2>1. PICK swept \in SUBSET Tasks :
           /\ \A t \in swept : conv[t].open
           /\ state' = [t \in Tasks |-> IF t \in swept /\ mail[t] # <<>>
                                        THEN Moved(state, t, "failed")[t] ELSE state[t]]
           /\ conv' = [t \in Tasks |-> IF t \in swept THEN NoConv ELSE conv[t]]
           /\ cred' = cred \ swept
           /\ iso' = iso \ {t \in swept : conv[t].boxed}
           /\ UNCHANGED <<line, mail, finishing, delivered, dropped, runs, alive, started,
                          sent, reruns, stack>>
    <3> DEFINE swept == {t \in Tasks : /\ conv[t].open /\ runs[t] = 0 /\ t \notin finishing
                                       /\ force \/ conv[t].idle}
    <3>1. swept \in SUBSET Tasks /\ \A t \in swept : conv[t].open
      OBVIOUS
    <3>2. /\ state' = [t \in Tasks |-> IF t \in swept /\ mail[t] # <<>>
                                       THEN Moved(state, t, "failed")[t] ELSE state[t]]
          /\ conv' = [t \in Tasks |-> IF t \in swept THEN NoConv ELSE conv[t]]
          /\ cred' = cred \ swept
          /\ iso' = iso \ {t \in swept : conv[t].boxed}
          /\ UNCHANGED <<line, mail, finishing, delivered, dropped, runs, alive, started,
                         sent, reruns, stack>>
      BY <1>19 DEF Sweep
    <3> QED BY <3>1, <3>2
  <2>2. "failed" \in States
    BY DEF States, Terminal
  <2>3. \A t \in Tasks : Moved(state, t, "failed") \in [Tasks -> States]
    BY <1>0, <2>2, TableTypes DEF Core
  <2>4. state' \in [Tasks -> States]
    BY <1>0, <2>1, <2>3, ZenonT(40) DEF Core
  <2>5. conv' \in [Tasks -> Conv] /\ \A u \in Tasks : conv'[u].attempts < MaxAttempts
    <3>1. NoConv \in Conv /\ NoConv.attempts < MaxAttempts
      BY ConvTypes
    <3>2. \A u \in Tasks : conv[u] \in Conv /\ conv[u].attempts < MaxAttempts
      BY <1>0 DEF Core
    <3>3. conv' = [t \in Tasks |-> IF t \in swept THEN NoConv ELSE conv[t]]
      BY <2>1
    <3>4. \A u \in Tasks : conv'[u] = NoConv \/ conv'[u] = conv[u]
      BY <3>3, Zenon
    <3>5. \A u \in Tasks : conv'[u].attempts < MaxAttempts
      BY <3>1, <3>2, <3>4, Zenon
    <3> QED BY <3>1, <3>2, <3>3, <3>5, Zenon
  <2>6. SandboxOwned'
    <3>1. SUFFICES ASSUME NEW u \in iso'
                   PROVE  conv'[u].open /\ conv'[u].boxed
      BY DEF SandboxOwned
    <3>2. u \in iso /\ conv[u].open /\ conv[u].boxed /\ u \in Tasks
      BY <1>0, <2>1, <3>1 DEF Core, SandboxOwned
    <3>3. u \notin swept
      BY <2>1, <3>1, <3>2
    <3>4. conv'[u] = conv[u]
      BY <2>1, <3>2, <3>3
    <3> QED BY <3>2, <3>4
  <2>7. Core'
    BY <1>0, <2>1, <2>4, <2>5, <2>6 DEF Core
  <2> QED BY <1>0, <2>1, <2>7 DEF IInv, Rest
<1>20. CASE UNCHANGED vars
  BY <1>0, <1>20 DEF vars, table, convs, workers, IInv, Core, Rest, SandboxOwned
<1> QED BY <1>1, <1>2, <1>3, <1>4, <1>5, <1>7, <1>9, <1>10, <1>11, <1>13, <1>15,
           <1>16, <1>17, <1>18, <1>19, <1>20 DEF Next, Resume

\* The type invariant, and what follows from the inductive one.
LEMMA IInvImplies == IInv => TypeOK /\ CredentialScoped /\ SandboxOwned
BY DEF IInv, Core, Rest, TypeOK, CredentialScoped, Starting, StartingIn

\* TypeOK for any constants: in particular a conversation is always given up
\* before its failed starts reach cmacs-brigade-conversation-max-attempts.
THEOREM TypeCorrect == Spec => []TypeOK
BY InitIInv, NextIInv, IInvImplies, PTL DEF Spec

\* CredentialScoped for any constants, whatever fails and whatever nests inside a
\* start or a completion: a token never outlives the run that needed it.
THEOREM CredentialsAreScoped == Spec => []CredentialScoped
BY InitIInv, NextIInv, IInvImplies, PTL DEF Spec

\* SandboxOwned for any constants: no path through starting, finishing, cancelling,
\* closing or sweeping leaks a worktree or a container.
THEOREM SandboxesAreOwned == Spec => []SandboxOwned
BY InitIInv, NextIInv, IInvImplies, PTL DEF Spec
=============================================================================
