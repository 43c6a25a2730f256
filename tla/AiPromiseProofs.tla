-------------------------- MODULE AiPromiseProofs --------------------------
(***************************************************************************)
(* AiTools implements ToolPromise, for every value of the constants.  The  *)
(* refinement needs, besides the invariant of AiToolsProofs, that a worker *)
(* which no longer waits for its call either saw it done or gave it up.    *)
(***************************************************************************)
EXTENDS AiToolsProofs

Msgs == [run : Run, call : Call \cup {None},
         kind : {"use", "value", "error", "timeout", "none", "text"}]

\* What the messages of a run say about its calls.
NewsInv ==
  /\ news \in [Run -> Seq(Msgs)]
  /\ \A r \in Run, c \in Call : TimedOut(r, c) => caller[c] = r /\ cur[r] # c
  /\ \A r \in Run, c \in Call : caller[c] = r /\ cur[r] # c => done[c] \/ TimedOut(r, c)

PInv == IInv /\ NewsInv

\* A run gets one message more.
LEMMA AppendNews ==
  ASSUME news \in [Run -> Seq(Msgs)], NEW r \in Run, NEW m \in Msgs,
         news' = [news EXCEPT ![r] = Append(@, m)]
  PROVE  /\ news' \in [Run -> Seq(Msgs)]
         /\ \A q \in Run, c \in Call :
               TimedOut(q, c)' <=> TimedOut(q, c) \/ (q = r /\ m = Msg(r, c, "timeout"))
<1> DEFINE s == news[r]
           t == Append(s, m)
<1>1. s \in Seq(Msgs) /\ news'[r] = t /\ \A q \in Run \ {r} : news'[q] = news[q]
  OBVIOUS
<1>2. /\ t \in Seq(Msgs) /\ Len(s) \in Nat /\ DOMAIN s = 1 .. Len(s)
      /\ DOMAIN t = 1 .. Len(s) + 1 /\ t[Len(s) + 1] = m
      /\ \A i \in 1 .. Len(s) : t[i] = s[i]
  BY <1>1
<1>3. 1 .. Len(s) + 1 = 1 .. Len(s) \cup {Len(s) + 1}
  BY <1>2
<1> HIDE DEF s, t
<1>4. news' \in [Run -> Seq(Msgs)]
  BY <1>1, <1>2 DEF t, s
<1>5. \A c \in Call : TimedOut(r, c)' <=> TimedOut(r, c) \/ m = Msg(r, c, "timeout")
  BY <1>1, <1>2, <1>3 DEF TimedOut, s
<1>6. \A q \in Run \ {r}, c \in Call : TimedOut(q, c)' <=> TimedOut(q, c)
  BY <1>1 DEF TimedOut
<1> QED BY <1>4, <1>5, <1>6

\* The phase of a call that the Lisp thread, or a worker, asked for; and the
\* same after a step.
LEMMA PhaseIs ==
  ASSUME NEW c \in Call, NEW r \in Run
  PROVE  /\ caller[c] = None => Phase(c) = "none"
         /\ caller[c] = Lisp => Phase(c) = IF mem[c] = "live" THEN "asked" ELSE "answered"
         /\ caller[c] = r =>
              Phase(c) = IF cur[r] = c THEN "asked"
                         ELSE IF TimedOut(r, c) THEN "given_up" ELSE "answered"
BY ToolsAssumption DEF Phase, WorkerHolds

LEMMA PhaseBecomes ==
  ASSUME NEW c \in Call, NEW r \in Run, caller'[c] = r
  PROVE  Phase(c)' = IF cur'[r] = c THEN "asked"
                     ELSE IF TimedOut(r, c)' THEN "given_up" ELSE "answered"
<1>1. TimedOut(caller[c], c)' <=> TimedOut(r, c)'
  BY DEF TimedOut
<1>2. WorkerHolds(c)' <=> cur'[r] = c
  BY DEF WorkerHolds
<1>3. caller'[c] # None /\ caller'[c] # Lisp
  BY ToolsAssumption
<1> QED BY <1>1, <1>2, <1>3 DEF Phase

\* A call none of whose circumstances change keeps its phase.
LEMMA SamePhase ==
  ASSUME TypeOK, NEW d \in Call, caller'[d] = caller[d],
         caller[d] = Lisp => (mem'[d] = "live" <=> mem[d] = "live"),
         \A q \in Run : caller[d] = q => /\ (cur'[q] = d) <=> (cur[q] = d)
                                         /\ TimedOut(q, d)' <=> TimedOut(q, d)
  PROVE  Phase(d)' = Phase(d)
<1>1. caller[d] \in Run \cup {Lisp, None}
  BY DEF TypeOK
<1>2. CASE caller[d] \in Run
  <2>1. PICK q \in Run : caller[d] = q
    BY <1>2
  <2>2. Phase(d) = IF cur[q] = d THEN "asked"
                   ELSE IF TimedOut(q, d) THEN "given_up" ELSE "answered"
    BY <2>1, PhaseIs
  <2>3. Phase(d)' = IF cur'[q] = d THEN "asked"
                    ELSE IF TimedOut(q, d)' THEN "given_up" ELSE "answered"
    BY <2>1, PhaseBecomes
  <2> QED BY <2>1, <2>2, <2>3
<1>3. CASE caller[d] \in {Lisp, None}
  BY <1>3, ToolsAssumption DEF Phase
<1> QED BY <1>1, <1>2, <1>3

\* The steps of ToolPromise, told by the phase of one call.
LEMMA MapPhase ==
  ASSUME NEW c \in Call, UNCHANGED done, \A d \in Call \ {c} : Phase(d)' = Phase(d)
  PROVE  /\ Phase(c) = "none" /\ Phase(c)' = "asked" => Promise!Ask(c)
         /\ Phase(c) = "asked" /\ Phase(c)' = "given_up" => Promise!GiveUp(c)
         /\ Phase(c) = "asked" /\ Phase(c)' = "answered" /\ done[c] => Promise!Answer(c)
BY DEF Promise!Ask, Promise!GiveUp, Promise!Answer

LEMMA MapServe ==
  ASSUME TypeOK, NEW c \in Call, \A d \in Call : Phase(d)' = Phase(d),
         Phase(c) \in {"asked", "given_up"}, ~done[c],
         done' = [done EXCEPT ![c] = TRUE]
  PROVE  Promise!Serve(c)
<1>1. {d \in Call : done'[d]} = {d \in Call : done[d]} \cup {c}
  BY DEF TypeOK
<1> QED BY <1>1 DEF Promise!Serve

LEMMA MapStutter ==
  ASSUME UNCHANGED done, \A d \in Call : Phase(d)' = Phase(d)
  PROVE  UNCHANGED Promise!promiseVars
BY DEF Promise!promiseVars

\* What the implementation's step owes the promise.
Kept == NewsInv' /\ [Promise!PromiseNext]_(Promise!promiseVars)

LEMMA AskToolKept ==
  ASSUME PInv, NEW r \in Run, NEW c \in Call, AskTool(r, c)
  PROVE  Kept
<1> USE ToolsAssumption
<1>1. TypeOK /\ NewsInv /\ caller[c] = None /\ cur[r] = None
  BY DEF PInv, IInv, AskTool, CallNew, CallInv, WorkerInv
<1>2. /\ caller' = [caller EXCEPT ![c] = r] /\ cur' = [cur EXCEPT ![r] = c]
      /\ mem' = [mem EXCEPT ![c] = "live"] /\ UNCHANGED done
      /\ news' = [news EXCEPT ![r] = Append(@, Msg(r, c, "use"))]
  BY DEF AskTool, CallNew
<1>3. Msg(r, c, "use") \in Msgs /\ \A d : Msg(r, c, "use") # Msg(r, d, "timeout")
  BY DEF Msg, Msgs
<1>4. /\ news' \in [Run -> Seq(Msgs)]
      /\ \A q \in Run, d \in Call : TimedOut(q, d)' <=> TimedOut(q, d)
  <2>1. news \in [Run -> Seq(Msgs)]
    BY <1>1 DEF NewsInv
  <2>2. /\ news' \in [Run -> Seq(Msgs)]
        /\ \A q \in Run, d \in Call :
              TimedOut(q, d)' <=> TimedOut(q, d) \/ (q = r /\ Msg(r, c, "use") = Msg(r, d, "timeout"))
    BY <1>2, <1>3, <2>1, AppendNews
  <2> QED BY <1>3, <2>2
<1>5. /\ caller'[c] = r /\ cur'[r] = c
      /\ \A d \in Call \ {c} : caller'[d] = caller[d] /\ mem'[d] = mem[d]
      /\ \A q \in Run, d \in Call \ {c} : cur'[q] = d <=> cur[q] = d
  <2>1. /\ caller \in [Call -> Run \cup {Lisp, None}] /\ cur \in [Run -> Call \cup {None}]
        /\ mem \in [Call -> {"none", "live", "freed"}]
    BY <1>1 DEF TypeOK
  <2>2. \A q \in Run : cur'[q] = IF q = r THEN c ELSE cur[q]
    BY <1>2, <2>1
  <2> QED BY <1>1, <1>2, <2>1, <2>2
<1>6. NewsInv'
  <2>1. ASSUME NEW q \in Run, NEW d \in Call, TimedOut(q, d)'
        PROVE  caller'[d] = q /\ cur'[q] # d
    <3>1. caller[d] = q /\ cur[q] # d
      BY <1>1, <1>4, <2>1 DEF NewsInv
    <3> QED BY <1>1, <1>5, <3>1
  <2>2. ASSUME NEW q \in Run, NEW d \in Call, caller'[d] = q, cur'[q] # d
        PROVE  done'[d] \/ TimedOut(q, d)'
    <3>1. d # c
      BY <1>5, <2>2
    <3>2. caller[d] = q /\ cur[q] # d
      BY <1>5, <2>2, <3>1
    <3>3. done[d] \/ TimedOut(q, d)
      BY <1>1, <3>2 DEF NewsInv
    <3> QED BY <1>2, <1>4, <3>3
  <2> QED BY <1>4, <2>1, <2>2 DEF NewsInv
<1>7. Promise!Ask(c)
  <2>1. \A d \in Call \ {c} : Phase(d)' = Phase(d)
    BY <1>1, <1>4, <1>5, SamePhase
  <2>2. Phase(c) = "none"
    BY <1>1, PhaseIs
  <2>3. Phase(c)' = "asked"
    BY <1>5, PhaseBecomes
  <2> QED BY <1>2, <2>1, <2>2, <2>3, MapPhase
<1> QED BY <1>6, <1>7 DEF Kept, Promise!PromiseNext

\* The worker leaves with the tool's own outcome, or gives up.
LEMMA LeaveKept ==
  ASSUME PInv, NEW r \in Run, NEW c, c = cur[r], Collect(r) \/ TimeOut(r)
  PROVE  Kept
<1> USE ToolsAssumption
<1>1. /\ TypeOK /\ NewsInv /\ CallInv
      /\ c \in Call /\ caller[c] = r /\ WorkerHolds(c)
  <2>1. pc[r] \in {"posted", "blocked"}
    BY DEF Collect, TimeOut
  <2> QED BY <2>1 DEF PInv, IInv, TypeOK, WorkerInv, WorkerHolds
<1>2. PICK kind \in {"value", "error", "timeout"} :
        /\ Leave(r, kind)
        /\ kind # "timeout" => done[c]
  BY <1>1 DEF Collect, TimeOut, CallInv
<1>3. /\ cur' = [cur EXCEPT ![r] = None] /\ UNCHANGED <<done, caller>>
      /\ mem' = [mem EXCEPT ![c] = IF refs[c] = 1 THEN "freed" ELSE @]
      /\ news' = [news EXCEPT ![r] = Append(@, Msg(r, c, kind))]
  BY <1>2 DEF Leave, Unref
<1>4. /\ Msg(r, c, kind) \in Msgs
      /\ \A d : Msg(r, c, kind) = Msg(r, d, "timeout") <=> d = c /\ kind = "timeout"
  BY <1>1, <1>2 DEF Msg, Msgs
<1>5. /\ news' \in [Run -> Seq(Msgs)]
      /\ \A q \in Run, d \in Call : TimedOut(q, d)'
            <=> TimedOut(q, d) \/ (q = r /\ d = c /\ kind = "timeout")
  <2>1. news \in [Run -> Seq(Msgs)]
    BY <1>1 DEF NewsInv
  <2>2. /\ news' \in [Run -> Seq(Msgs)]
        /\ \A q \in Run, d \in Call :
              TimedOut(q, d)' <=> TimedOut(q, d) \/ (q = r /\ Msg(r, c, kind) = Msg(r, d, "timeout"))
    BY <1>3, <1>4, <2>1, AppendNews
  <2> QED BY <1>4, <2>2
<1>6. /\ cur'[r] = None
      /\ \A d \in Call \ {c} : mem'[d] = mem[d]
      /\ \A q \in Run, d \in Call \ {c} : cur'[q] = d <=> cur[q] = d
      /\ \A q \in Run, d \in Call : cur'[q] = d => cur[q] = d
  <2>1. /\ cur \in [Run -> Call \cup {None}]
        /\ mem \in [Call -> {"none", "live", "freed"}]
    BY <1>1 DEF TypeOK
  <2>2. \A q \in Run : cur'[q] = IF q = r THEN None ELSE cur[q]
    BY <1>3, <2>1
  <2> QED BY <1>1, <1>3, <2>1, <2>2
<1>7. ~TimedOut(r, c) /\ (TimedOut(r, c)' <=> kind = "timeout")
  <2>1. ~TimedOut(r, c)
    BY <1>1 DEF NewsInv
  <2> QED BY <1>1, <1>5, <2>1
<1>8. NewsInv'
  <2>1. ASSUME NEW q \in Run, NEW d \in Call, TimedOut(q, d)'
        PROVE  caller'[d] = q /\ cur'[q] # d
    <3>1. CASE TimedOut(q, d)
      BY <1>1, <1>3, <1>6, <3>1 DEF NewsInv
    <3>2. CASE q = r /\ d = c
      BY <1>1, <1>3, <1>6, <3>2
    <3> QED BY <1>5, <2>1, <3>1, <3>2
  <2>2. ASSUME NEW q \in Run, NEW d \in Call, caller'[d] = q, cur'[q] # d
        PROVE  done'[d] \/ TimedOut(q, d)'
    <3>1. CASE d = c
      BY <1>1, <1>2, <1>3, <1>7, <2>2, <3>1
    <3>2. CASE d # c
      <4>1. done[d] \/ TimedOut(q, d)
        BY <1>1, <1>3, <1>6, <2>2, <3>2 DEF NewsInv
      <4> QED BY <1>3, <1>5, <4>1
    <3> QED BY <3>1, <3>2
  <2> QED BY <1>5, <2>1, <2>2 DEF NewsInv
<1>9. Promise!Answer(c) \/ Promise!GiveUp(c)
  <2>1. \A d \in Call \ {c} : Phase(d)' = Phase(d)
    <3> SUFFICES ASSUME NEW d \in Call \ {c} PROVE Phase(d)' = Phase(d)
      OBVIOUS
    <3>1. \A q \in Run : (cur'[q] = d <=> cur[q] = d) /\ (TimedOut(q, d)' <=> TimedOut(q, d))
      BY <1>5, <1>6
    <3> QED BY <1>1, <1>3, <1>6, <3>1, SamePhase
  <2>2. Phase(c) = "asked"
    BY <1>1, PhaseIs
  <2>3. Phase(c)' = IF kind = "timeout" THEN "given_up" ELSE "answered"
    <3>1. caller'[c] = r /\ cur'[r] # c
      BY <1>1, <1>3, <1>6
    <3> QED BY <1>1, <1>7, <3>1, PhaseBecomes
  <2> QED BY <1>1, <1>2, <1>3, <2>1, <2>2, <2>3, MapPhase
<1> QED BY <1>1, <1>8, <1>9 DEF Kept, Promise!PromiseNext

\* Steps that the promise does not see.
LEMMA UnseenKept ==
  ASSUME PInv, UNCHANGED <<caller, cur, done>>, news' \in [Run -> Seq(Msgs)],
         \A q \in Run, d \in Call : TimedOut(q, d)' <=> TimedOut(q, d),
         \A d \in Call : caller[d] = Lisp => mem'[d] = mem[d]
  PROVE  Kept
<1>1. NewsInv'
  BY DEF PInv, NewsInv
<1>2. \A d \in Call : Phase(d)' = Phase(d)
  <2> SUFFICES ASSUME NEW d \in Call PROVE Phase(d)' = Phase(d)
    OBVIOUS
  <2> QED BY SamePhase DEF PInv, IInv
<1> QED BY <1>1, <1>2, MapStutter DEF Kept

LEMMA QuietKept ==
  ASSUME PInv, UNCHANGED <<caller, cur, done, news>>,
         \A d \in Call : caller[d] = Lisp => mem'[d] = mem[d]
  PROVE  Kept
<1>1. /\ news' \in [Run -> Seq(Msgs)]
      /\ \A q \in Run, d \in Call : TimedOut(q, d)' <=> TimedOut(q, d)
  BY DEF PInv, NewsInv, TimedOut
<1> QED BY <1>1, UnseenKept

LEMMA FinishKept ==
  ASSUME PInv, NEW r \in Run, NEW ok \in BOOLEAN, Finish(r, ok)
  PROVE  Kept
<1>1. UNCHANGED <<mem, done, caller, cur>>
  BY DEF Finish, callVars
<1>2. CASE ok
  <2>1. /\ news' = [news EXCEPT ![r] = Append(@, Msg(r, None, "text"))]
        /\ news \in [Run -> Seq(Msgs)]
    BY <1>2 DEF Finish, PInv, NewsInv
  <2>2. /\ Msg(r, None, "text") \in Msgs
        /\ \A d : Msg(r, None, "text") # Msg(r, d, "timeout")
    BY DEF Msg, Msgs
  <2>3. /\ news' \in [Run -> Seq(Msgs)]
        /\ \A q \in Run, d \in Call :
              TimedOut(q, d)' <=> TimedOut(q, d)
                                  \/ (q = r /\ Msg(r, None, "text") = Msg(r, d, "timeout"))
    BY <2>1, <2>2, AppendNews
  <2> QED BY <1>1, <2>2, <2>3, UnseenKept
<1>3. CASE ~ok
  <2>1. news' = news
    BY <1>3 DEF Finish, PInv, NewsInv
  <2> QED BY <1>1, <2>1, QuietKept
<1> QED BY <1>2, <1>3

\* The steps in which the Lisp thread answers call c.
LEMMA ServedKept ==
  ASSUME PInv, NEW c \in Call, UNCHANGED <<caller, cur, news, mem>>, ~done[c],
         caller[c] \in Run \/ (caller[c] = Lisp /\ mem[c] = "live"),
         done' = [done EXCEPT ![c] = TRUE]
  PROVE  Kept
<1>1. TypeOK /\ NewsInv
  BY DEF PInv, IInv
<1>2. \A q \in Run, d \in Call : TimedOut(q, d)' <=> TimedOut(q, d)
  BY DEF TimedOut
<1>3. \A d \in Call : done[d] => done'[d]
  BY <1>1 DEF TypeOK
<1>4. NewsInv'
  BY <1>1, <1>2, <1>3 DEF NewsInv
<1>5. \A d \in Call : Phase(d)' = Phase(d)
  <2> SUFFICES ASSUME NEW d \in Call PROVE Phase(d)' = Phase(d)
    OBVIOUS
  <2> QED BY <1>1, <1>2, SamePhase
<1>6. Phase(c) \in {"asked", "given_up"}
  <2>1. CASE caller[c] \in Run
    <3>1. PICK q \in Run : caller[c] = q
      BY <2>1
    <3>2. cur[q] = c \/ TimedOut(q, c)
      BY <1>1, <3>1 DEF NewsInv
    <3> QED BY <3>1, <3>2, PhaseIs
  <2>2. CASE caller[c] = Lisp /\ mem[c] = "live"
    BY <2>2, ToolsAssumption DEF Phase
  <2> QED BY <2>1, <2>2
<1> QED BY <1>1, <1>4, <1>5, <1>6, MapServe DEF Kept, Promise!PromiseNext

LEMMA BeginCallKept ==
  ASSUME PInv, NEW c, c = Head(posted), BeginCall
  PROVE  Kept
<1>1. /\ TypeOK /\ CallInv /\ c \in Call /\ c \in Range(posted) /\ c \notin fresh
  BY HeadTaken DEF PInv, IInv, BeginCall
<1>2. caller[c] \in Run /\ ~done[c]
  BY <1>1 DEF CallInv, TypeOK
<1>3. UNCHANGED <<caller, cur, news, mem>>
  BY DEF BeginCall, runVars
<1>4. CASE executor
  <2>1. UNCHANGED done
    BY <1>4 DEF BeginCall, CallOnMain
  <2> QED BY <1>3, <2>1, QuietKept
<1>5. CASE ~executor
  <2>1. done' = [done EXCEPT ![c] = TRUE]
    BY <1>5 DEF BeginCall, CallOnMain
  <2> QED BY <1>1, <1>2, <1>3, <2>1, ServedKept
<1> QED BY <1>4, <1>5

LEMMA ToolReturnsKept ==
  ASSUME PInv, NEW value \in BOOLEAN, NEW c, c = Last(stack).id, ToolReturns(value)
  PROVE  Kept
<1>1. /\ IInv /\ stack # <<>> /\ Last(stack).k = "tool" /\ Last(stack).at = "lisp"
  BY DEF PInv, ToolReturns
<1>2. /\ Len(stack) \in Nat \ {0} /\ Last(stack) = stack[Len(stack)]
      /\ Last(stack) \in Frames /\ FrameInv(Last(stack))
  BY <1>1, Innermost
<1>3. /\ c \in Call /\ ~done[c]
      /\ Last(stack).direct \/ caller[c] \in Run
      /\ Last(stack).direct => caller[c] = Lisp
  BY <1>1, <1>2 DEF FrameInv
<1>4. Last(stack).direct => mem[c] = "live"
  <2> SUFFICES ASSUME Last(stack).direct PROVE mem[c] = "live"
    OBVIOUS
  <2>1. DirectHolds(c)
    <3>1. Len(stack) \in DOMAIN stack
      BY <1>1, <1>2 DEF IInv, TypeOK
    <3> QED BY <1>2, <3>1 DEF DirectHolds
  <2>2. refs[c] = One(WorkerHolds(c)) + One(SourceHolds(c)) + 2 * One(DirectHolds(c))
    BY <1>1, <1>3 DEF IInv, CallCounted
  <2>3. refs[c] > 0
    BY <2>1, <2>2 DEF One
  <2> QED BY <1>1, <1>3, <2>3 DEF IInv, CallCounted
<1>5. UNCHANGED <<caller, cur, news, mem>> /\ done' = [done EXCEPT ![c] = TRUE]
  BY DEF ToolReturns, runVars
<1> QED BY <1>3, <1>4, <1>5, ServedKept

LEMMA ExecuteDirectKept ==
  ASSUME PInv, NEW c \in Call, ExecuteDirect(c)
  PROVE  Kept
<1> USE ToolsAssumption
<1>1. TypeOK /\ NewsInv /\ caller[c] = None
  BY DEF PInv, IInv, ExecuteDirect, CallNew, CallInv
<1>2. /\ caller' = [caller EXCEPT ![c] = Lisp] /\ mem' = [mem EXCEPT ![c] = "live"]
      /\ UNCHANGED <<cur, news, done>>
  BY DEF ExecuteDirect, CallNew, CallOnMain, runVars
<1>3. /\ caller'[c] = Lisp /\ mem'[c] = "live"
      /\ \A d \in Call \ {c} : caller'[d] = caller[d] /\ mem'[d] = mem[d]
  BY <1>1, <1>2 DEF TypeOK
<1>4. \A q \in Run, d \in Call : TimedOut(q, d)' <=> TimedOut(q, d)
  BY <1>2 DEF TimedOut
<1>5. NewsInv'
  <2>1. \A q \in Run, d \in Call : TimedOut(q, d)' => caller'[d] = q /\ cur'[q] # d
    BY <1>1, <1>2, <1>3, <1>4 DEF NewsInv
  <2>2. \A q \in Run, d \in Call : caller'[d] = q /\ cur'[q] # d
                                   => done'[d] \/ TimedOut(q, d)'
    BY <1>1, <1>2, <1>3, <1>4 DEF NewsInv
  <2>3. news' \in [Run -> Seq(Msgs)]
    BY <1>1, <1>2 DEF NewsInv
  <2> QED BY <2>1, <2>2, <2>3 DEF NewsInv
<1>6. Promise!Ask(c)
  <2>1. ASSUME NEW d \in Call \ {c} PROVE Phase(d)' = Phase(d)
    BY <1>1, <1>2, <1>3, <1>4, SamePhase
  <2>2. Phase(c) = "none" /\ Phase(c)' = "asked"
    BY <1>1, <1>3 DEF Phase
  <2> QED BY <1>2, <2>1, <2>2, MapPhase
<1> QED BY <1>5, <1>6 DEF Kept, Promise!PromiseNext

LEMMA EndDirectKept ==
  ASSUME PInv, NEW c, c = Last(stack).id, EndDirect
  PROVE  Kept
<1> USE ToolsAssumption
<1>1. /\ IInv /\ TypeOK /\ NewsInv /\ stack # <<>> /\ Last(stack).direct
      /\ Last(stack).at = "answered"
  BY DEF PInv, IInv, EndDirect
<1>2. /\ Len(stack) \in Nat \ {0} /\ Last(stack) = stack[Len(stack)]
      /\ Last(stack) \in Frames /\ FrameInv(Last(stack))
  BY <1>1, Innermost
<1>3. Last(stack).k = "tool"
  BY <1>1, <1>2 DEF Frames, FrameInv
<1>4. c \in Call /\ done[c] /\ caller[c] = Lisp
  BY <1>1, <1>2, <1>3 DEF FrameInv
<1>5. mem[c] = "live" /\ refs[c] = 2
  <2>1. ~SourceHolds(c) /\ ~WorkerHolds(c)
    BY <1>1, <1>4 DEF SourceHolds, WorkerHolds, IInv, CallInv, QueueInv
  <2>2. DirectHolds(c)
    <3>1. Len(stack) \in DOMAIN stack
      BY <1>1, <1>2 DEF TypeOK
    <3> QED BY <1>1, <1>2, <3>1 DEF DirectHolds
  <2>3. refs[c] = 2
    BY <1>1, <1>4, <2>1, <2>2 DEF IInv, CallCounted, One
  <2> QED BY <1>1, <1>4, <2>3 DEF IInv, CallCounted
<1>6. /\ mem' = [mem EXCEPT ![c] = "freed"]
      /\ UNCHANGED <<caller, cur, news, done>>
  BY <1>5 DEF EndDirect, Unref, runVars
<1>7. \A q \in Run, d \in Call : TimedOut(q, d)' <=> TimedOut(q, d)
  BY <1>6 DEF TimedOut
<1>8. NewsInv'
  BY <1>1, <1>6, <1>7 DEF NewsInv
<1>9. Promise!Answer(c)
  <2>1. ASSUME NEW d \in Call \ {c} PROVE Phase(d)' = Phase(d)
    <3>1. mem'[d] = mem[d]
      BY <1>1, <1>6 DEF TypeOK
    <3> QED BY <1>1, <1>6, <1>7, <3>1, SamePhase
  <2>2. Phase(c) = "asked"
    BY <1>4, <1>5 DEF Phase
  <2>3. Phase(c)' = "answered"
    <3>1. caller'[c] = Lisp /\ mem'[c] = "freed"
      BY <1>1, <1>4, <1>6 DEF TypeOK
    <3> QED BY <3>1 DEF Phase
  <2> QED BY <1>4, <1>6, <2>1, <2>2, <2>3, MapPhase
<1> QED BY <1>4, <1>8, <1>9 DEF Kept, Promise!PromiseNext

LEMMA EndCallKept ==
  ASSUME PInv, EndCall
  PROVE  Kept
<1>1. /\ IInv /\ stack # <<>> /\ Last(stack).at = "answered" /\ ~Last(stack).direct
      /\ TypeOK
  BY DEF PInv, IInv, EndCall
<1>2. Last(stack) \in Frames /\ FrameInv(Last(stack))
  BY <1>1, Innermost
<1>3. Last(stack).k = "tool"
  BY <1>1, <1>2 DEF Frames, FrameInv
<1>4. Last(stack).id \in Call /\ caller[Last(stack).id] \in Run
  BY <1>1, <1>2, <1>3 DEF FrameInv
<1>5. \A d \in Call : caller[d] = Lisp => mem'[d] = mem[d]
  <2>1. \A d \in Call \ {Last(stack).id} : mem'[d] = mem[d]
    BY <1>1 DEF EndCall, Unref, TypeOK
  <2> QED BY <1>4, <2>1, ToolsAssumption
<1>6. UNCHANGED <<caller, cur, done, news>>
  BY DEF EndCall, runVars
<1> QED BY <1>5, <1>6, QuietKept

LEMMA OtherKept ==
  ASSUME PInv,
         \/ \E r \in Run : Block(r) \/ RunAsync(r)
         \/ BeginDone \/ EndDone \/ FreeSession \/ FreeExecutor \/ UNCHANGED vars
  PROVE  Kept
<1>1. UNCHANGED <<caller, cur, done, news, mem>>
  BY DEF Block, RunAsync, BeginDone, EndDone, FreeSession, FreeExecutor,
         vars, callVars, runVars
<1> QED BY <1>1, QuietKept

LEMMA NextKept == PInv /\ [Next]_vars => Kept
<1> SUFFICES ASSUME PInv, [Next]_vars PROVE Kept
  OBVIOUS
<1>1. ASSUME NEW r \in Run, Collect(r) \/ TimeOut(r) PROVE Kept
  BY <1>1, LeaveKept
<1>2. ASSUME NEW r \in Run, NEW ok \in BOOLEAN, Finish(r, ok) PROVE Kept
  BY <1>2, FinishKept
<1>3. ASSUME NEW r \in Run, NEW c \in Call, AskTool(r, c) PROVE Kept
  BY <1>3, AskToolKept
<1>4. CASE BeginCall
  BY <1>4, BeginCallKept
<1>5. CASE EndCall
  BY <1>5, EndCallKept
<1>6. CASE EndDirect
  BY <1>6, EndDirectKept
<1>7. ASSUME NEW value \in BOOLEAN, ToolReturns(value) PROVE Kept
  BY <1>7, ToolReturnsKept
<1>8. ASSUME NEW c \in Call, ExecuteDirect(c) PROVE Kept
  BY <1>8, ExecuteDirectKept
<1>9. CASE \/ \E r \in Run : Block(r) \/ RunAsync(r)
           \/ BeginDone \/ EndDone \/ FreeSession \/ FreeExecutor \/ UNCHANGED vars
  BY <1>9, OtherKept
<1> QED BY <1>1, <1>2, <1>3, <1>4, <1>5, <1>6, <1>7, <1>8, <1>9 DEF Next

LEMMA InitKept == Init => NewsInv /\ Promise!PromiseInit
<1> SUFFICES ASSUME Init PROVE NewsInv /\ Promise!PromiseInit
  OBVIOUS
<1> USE ToolsAssumption
<1>1. /\ news = [r \in Run |-> <<>>] /\ caller = [c \in Call |-> None]
      /\ done = [c \in Call |-> FALSE]
  BY DEF Init
<1>2. \A r \in Run, c \in Call : ~TimedOut(r, c) /\ caller[c] # r
  BY <1>1 DEF TimedOut
<1>3. news \in [Run -> Seq(Msgs)]
  BY <1>1
<1>4. NewsInv
  BY <1>2, <1>3 DEF NewsInv
<1>5. \A c \in Call : Phase(c) = "none" /\ ~done[c]
  BY <1>1 DEF Phase
<1>6. Promise!PromiseInit
  BY <1>5 DEF Promise!PromiseInit
<1> QED BY <1>4, <1>6

\* The queue, the struct, the condition and the deadline of cmacs-ai-tools.c
\* keep the promise made to a worker, for any number of runs and calls: each
\* tool is served at most once and answered at most once, with its own
\* outcome, and a late one after the deadline answers nobody.
THEOREM PromiseIsKept == Spec => PromiseKept
<1>1. Init => Promise!PromiseInit
  BY InitKept
<1>2. PInv /\ [Next]_vars => [Promise!PromiseNext]_(Promise!promiseVars)
  BY NextKept DEF Kept
<1>3. IInv /\ NewsInv /\ [Next]_vars => NewsInv'
  BY NextKept DEF Kept, PInv
<1>4. Init => NewsInv
  BY InitKept
<1>5. Spec => []IInv
  BY SpecIInv
<1>6. Spec => []NewsInv
  BY <1>3, <1>4, <1>5, PTL DEF Spec
<1>7. IInv /\ NewsInv => PInv
  BY DEF PInv
<1> QED BY <1>1, <1>2, <1>5, <1>6, <1>7, PTL DEF Spec, PromiseKept, Promise!PromiseSpec

=============================================================================
