---------------------------- MODULE AiToolsProofs ----------------------------
(***************************************************************************)
(* Proofs about AiTools for any runs, any calls, any history limit and any *)
(* depth of nesting on the Lisp thread.                                    *)
(***************************************************************************)
EXTENDS AiTools, TLAPS

\* What is in a sequence after an Append.
LEMMA AppendRange ==
  ASSUME NEW S, NEW s \in Seq(S), NEW e \in S
  PROVE  /\ Append(s, e) \in Seq(S)
         /\ Range(Append(s, e)) = Range(s) \cup {e}
<1> DEFINE q == Append(s, e)
<1>1. /\ q \in Seq(S) /\ Len(q) = Len(s) + 1 /\ q[Len(s) + 1] = e
      /\ DOMAIN q = 1 .. Len(s) + 1 /\ DOMAIN s = 1 .. Len(s)
      /\ \A i \in 1 .. Len(s) : q[i] = s[i]
  OBVIOUS
<1> HIDE DEF q
<1>2. Range(q) = Range(s) \cup {e}
  BY <1>1, Len(s) \in Nat DEF Range
<1> QED BY <1>1, <1>2 DEF q

\* No element occurs twice.
Distinct(s) == \A i, j \in 1 .. Len(s) : s[i] = s[j] => i = j

LEMMA AppendDistinct ==
  ASSUME NEW S, NEW s \in Seq(S), NEW e \in S, Distinct(s), e \notin Range(s)
  PROVE  Distinct(Append(s, e))
<1> DEFINE q == Append(s, e)
<1>1. /\ q \in Seq(S) /\ Len(q) = Len(s) + 1 /\ q[Len(s) + 1] = e
      /\ \A i \in 1 .. Len(s) : q[i] = s[i]
  OBVIOUS
<1>2. \A i \in 1 .. Len(s) : s[i] # e
  BY DEF Range
<1> HIDE DEF q
<1>3. Distinct(q)
  BY <1>1, <1>2, Len(s) \in Nat DEF Distinct
<1> QED BY <1>3 DEF q

\* What is in a sequence without its head.
LEMMA TailRange ==
  ASSUME NEW S, NEW s \in Seq(S), s # <<>>, Distinct(s)
  PROVE  /\ Head(s) \in Range(s) /\ Head(s) \in S
         /\ Tail(s) \in Seq(S) /\ Distinct(Tail(s))
         /\ Range(Tail(s)) = Range(s) \ {Head(s)}
<1> DEFINE q == Tail(s)
<1>1. /\ q \in Seq(S) /\ Len(s) \in Nat /\ Len(s) > 0 /\ Len(q) = Len(s) - 1
      /\ Head(s) = s[1] /\ DOMAIN q = 1 .. Len(s) - 1 /\ DOMAIN s = 1 .. Len(s)
      /\ \A i \in 1 .. Len(s) - 1 : q[i] = s[i + 1]
      /\ s[1] \in S
  OBVIOUS
<1> HIDE DEF q
<1>2. Head(s) \in Range(s)
  BY <1>1 DEF Range
<1>3. Distinct(q)
  BY <1>1 DEF Distinct
<1>4. \A x : x \in Range(q) => x \in Range(s) \ {Head(s)}
  <2> SUFFICES ASSUME NEW i \in 1 .. Len(s) - 1
               PROVE  q[i] \in Range(s) \ {Head(s)}
    BY <1>1 DEF Range
  <2> i + 1 \in 1 .. Len(s) /\ i + 1 # 1 /\ 1 \in 1 .. Len(s)
    BY <1>1
  <2> QED BY <1>1 DEF Range, Distinct
<1>5. \A x : x \in Range(s) \ {Head(s)} => x \in Range(q)
  <2> SUFFICES ASSUME NEW i \in 1 .. Len(s), i # 1
               PROVE  s[i] \in Range(q)
    BY <1>1 DEF Range
  <2> i - 1 \in 1 .. Len(s) - 1 /\ (i - 1) + 1 = i
    BY <1>1
  <2> QED BY <1>1 DEF Range
<1> QED BY <1>1, <1>2, <1>3, <1>4, <1>5 DEF q

\* The innermost frame of a stack, and the stack under it.
LEMMA TopFrame ==
  ASSUME NEW s \in Seq(Frames), s # <<>>
  PROVE  /\ Len(s) \in Nat \ {0} /\ Last(s) = s[Len(s)] /\ Last(s) \in Frames
         /\ Front(s) \in Seq(Frames) /\ Len(Front(s)) = Len(s) - 1
         /\ \A i \in 1 .. Len(s) - 1 : Front(s)[i] = s[i]
<1>1. Len(s) \in Nat \ {0} /\ s[Len(s)] \in Frames
  OBVIOUS
<1>2. \A i \in 1 .. Len(s) - 1 : s[i] \in Frames
  OBVIOUS
<1>3. /\ Front(s) = [i \in 1 .. Len(s) - 1 |-> s[i]]
      /\ Len(s) - 1 \in Nat
  BY <1>1, SMTT(20) DEF Front
<1> QED BY <1>1, <1>2, <1>3 DEF Last

-----------------------------------------------------------------------------
(* The inductive invariant. *)

\* A piece of work is new, queued or running, and queued at most once.
QueueInv ==
  /\ Distinct(posted)
  /\ \A x \in Range(posted) : x \notin fresh /\ x \notin running
  /\ \A x \in running : x \notin fresh

\* Whom the frames belong to; no call has two.
FrameInv(f) ==
  /\ f.k = "done" => f.id \in Run \cap running /\ ~f.direct /\ f.at = "lisp"
  /\ f.k = "tool" => /\ f.id \in Call
                     /\ f.direct => caller[f.id] = Lisp
                     /\ ~f.direct => f.id \in running /\ caller[f.id] \in Run
                     /\ done[f.id] <=> f.at = "answered"

StackInv ==
  /\ \A i \in 1 .. Len(stack) : FrameInv(stack[i])
  /\ \A i, j \in 1 .. Len(stack) : stack[i].id = stack[j].id => i = j

\* How a struct's caller, its place in the queue and its outcome agree.
CallInv ==
  \A c \in Call :
    /\ mem[c] = "none" <=> caller[c] = None
    /\ caller[c] = None => c \in fresh /\ ~done[c]
    /\ caller[c] = Lisp => c \in fresh
    /\ caller[c] \in Run => c \notin fresh
    /\ c \in Range(posted) => ~done[c]
    /\ done[c] => out[c] \in {"value", "error"}

\* Which call a worker waits for; one that posted its end is over.
WorkerInv ==
  \A r \in Run :
    /\ cur[r] # None <=> pc[r] \in {"posted", "blocked"}
    /\ cur[r] # None => caller[cur[r]] = r
    /\ r \notin fresh => pc[r] \in {"over", "reported"}

IInv == TypeOK /\ QueueInv /\ StackInv /\ CallInv /\ WorkerInv /\ CallCounted

LEMMA InitIInv == Init => IInv
<1> SUFFICES ASSUME Init PROVE IInv
  OBVIOUS
<1> USE ToolsAssumption DEF Init, Queue!QueueInit
<1>1. TypeOK
  <2>1. /\ fresh \in SUBSET (Run \cup Call) /\ running \in SUBSET (Run \cup Call)
        /\ posted \in Seq(Run \cup Call) /\ stack \in Seq(Frames)
        /\ cookies \in SUBSET Run
    OBVIOUS
  <2>2. /\ mem \in [Call -> {"none", "live", "freed"}] /\ refs \in [Call -> 0..2]
        /\ out \in [Call -> {"none", "value", "error"}]
        /\ caller \in [Call -> Run \cup {Lisp, None}]
    OBVIOUS
  <2>3. /\ pc \in [Run -> {"idle", "model", "posted", "blocked", "over", "reported"}]
        /\ cur \in [Run -> Call \cup {None}]
    OBVIOUS
  <2>4. /\ done \in [Call -> BOOLEAN]
        /\ executor \in BOOLEAN /\ session \in BOOLEAN /\ stray \in BOOLEAN
    OBVIOUS
  <2> QED BY <2>1, <2>2, <2>3, <2>4 DEF TypeOK
<1>2. Range(posted) = {} /\ Len(posted) = 0 /\ Len(stack) = 0 /\ DOMAIN stack = {}
  BY DEF Range
<1>3. QueueInv
  BY <1>2 DEF QueueInv, Distinct
<1>4. StackInv
  BY <1>2 DEF StackInv
<1>5. CallInv
  BY <1>2 DEF CallInv
<1>6. WorkerInv
  BY DEF WorkerInv
<1>7. CallCounted
  BY <1>2 DEF CallCounted, WorkerHolds, SourceHolds, DirectHolds, One
<1> QED BY <1>1, <1>3, <1>4, <1>5, <1>6, <1>7 DEF IInv

\* Work that is not running, and a call that is not the Lisp thread's own,
\* has no frame.
LEMMA NotStacked ==
  ASSUME IInv, NEW x \in Run \cup Call, x \notin running,
         x \in Call => caller[x] # Lisp
  PROVE  \A i \in 1 .. Len(stack) : stack[i].id # x
<1> USE ToolsAssumption
<1> SUFFICES ASSUME NEW i \in 1 .. Len(stack), stack[i].id = x
             PROVE  FALSE
  OBVIOUS
<1>1. stack[i] \in Frames /\ FrameInv(stack[i])
  BY DEF IInv, TypeOK, StackInv
<1>2. stack[i].k = "tool" \/ stack[i].k = "done"
  BY <1>1 DEF Frames
<1>3. CASE stack[i].k = "done"
  BY <1>1, <1>3 DEF FrameInv
<1>4. CASE stack[i].k = "tool"
  BY <1>1, <1>4 DEF FrameInv
<1> QED BY <1>2, <1>3, <1>4

\* A worker asks for a tool.
LEMMA AskToolIInv ==
  ASSUME IInv, NEW r \in Run, NEW c \in Call, AskTool(r, c)
  PROVE  IInv'
<1> USE ToolsAssumption
<1>1. /\ TypeOK /\ QueueInv /\ StackInv /\ CallInv /\ WorkerInv /\ CallCounted
  BY DEF IInv
<1>2. /\ mem[c] = "none" /\ caller[c] = None /\ ~done[c] /\ c \in fresh
      /\ cur[r] = None
  BY <1>1 DEF AskTool, CallNew, CallInv, WorkerInv
<1>3. /\ fresh' = fresh \ {c} /\ running' = running /\ posted' = Append(posted, c)
      /\ posted' \in Seq(Run \cup Call) /\ Range(posted') = Range(posted) \cup {c}
      /\ c \notin Range(posted) /\ Distinct(posted')
  BY <1>1, <1>2, AppendRange, AppendDistinct
     DEF AskTool, Queue!Post, TypeOK, QueueInv
<1>4. \A i \in 1 .. Len(stack) : stack[i].id # c
  BY <1>1, <1>2, NotStacked DEF QueueInv
<1>5. TypeOK'
  BY <1>1, <1>3 DEF AskTool, CallNew, TypeOK, tableVars
<1>6. QueueInv'
  BY <1>1, <1>2, <1>3 DEF QueueInv
<1>7. StackInv'
  BY <1>1, <1>3, <1>4 DEF AskTool, CallNew, StackInv, FrameInv, TypeOK, tableVars
<1>8. CallInv'
  BY <1>1, <1>2, <1>3 DEF AskTool, CallNew, CallInv, TypeOK, tableVars
<1>9. WorkerInv'
  BY <1>1, <1>2, <1>3 DEF AskTool, CallNew, WorkerInv, TypeOK
<1>10. CallCounted'
  <2> SUFFICES ASSUME NEW d \in Call
               PROVE  /\ refs'[d] = One(WorkerHolds(d)') + One(SourceHolds(d)')
                                    + 2 * One(DirectHolds(d)')
                      /\ mem'[d] = "live" <=> refs'[d] > 0
    BY DEF CallCounted
  <2>1. DOMAIN stack = 1 .. Len(stack) /\ stack' = stack
    BY <1>1 DEF TypeOK, AskTool
  <2>2. DirectHolds(d)' <=> DirectHolds(d)
    BY <2>1 DEF DirectHolds
  <2>3. CASE d = c
    <3>1. WorkerHolds(c)' /\ SourceHolds(c)' /\ ~DirectHolds(c)
      BY <1>1, <1>3, <1>4, <2>1
         DEF AskTool, CallNew, WorkerHolds, SourceHolds, DirectHolds, TypeOK
    <3> QED BY <1>1, <2>2, <2>3, <3>1 DEF AskTool, CallNew, One, TypeOK
  <2>4. CASE d # c
    <3>1. SourceHolds(d)' <=> SourceHolds(d)
      BY <1>3, <2>4 DEF SourceHolds
    <3>2. WorkerHolds(d)' <=> WorkerHolds(d)
      BY <1>1, <1>2, <2>4 DEF AskTool, CallNew, WorkerHolds, TypeOK
    <3> QED BY <1>1, <2>2, <2>4, <3>1, <3>2
            DEF AskTool, CallNew, CallCounted, One, TypeOK
  <2> QED BY <2>3, <2>4
<1> QED BY <1>5, <1>6, <1>7, <1>8, <1>9, <1>10 DEF IInv

\* A worker stops waiting for its call, with the answer or without.
LEMMA LeaveIInv ==
  ASSUME IInv, NEW r \in Run, NEW kind, pc[r] \in {"posted", "blocked"},
         Leave(r, kind)
  PROVE  IInv'
<1> USE ToolsAssumption
<1> DEFINE c == cur[r]
<1>1. /\ TypeOK /\ QueueInv /\ StackInv /\ CallInv /\ WorkerInv /\ CallCounted
  BY DEF IInv
<1>2. c \in Call /\ caller[c] = r /\ refs[c] \in 0..2
  BY <1>1 DEF WorkerInv, TypeOK
<1>3. WorkerHolds(c) /\ refs[c] \in 1..2 /\ mem[c] = "live"
  <2>1. WorkerHolds(c)
    BY <1>2 DEF WorkerHolds
  <2>2. refs[c] > 0
    BY <1>1, <1>2, <2>1 DEF CallCounted, One
  <2> QED BY <1>1, <1>2, <2>1, <2>2 DEF CallCounted
<1>4. TypeOK'
  BY <1>1, <1>2, <1>3 DEF Leave, Unref, TypeOK, tableVars, queueVars
<1>5. QueueInv'
  BY <1>1 DEF Leave, QueueInv, queueVars
<1>6. StackInv'
  BY <1>1 DEF Leave, StackInv, FrameInv, queueVars
<1>7. CallInv'
  BY <1>1, <1>2, <1>3 DEF Leave, Unref, CallInv, TypeOK, queueVars
<1>8. WorkerInv'
  BY <1>1 DEF Leave, WorkerInv, TypeOK, queueVars
<1>9. CallCounted'
  <2> SUFFICES ASSUME NEW d \in Call
               PROVE  /\ refs'[d] = One(WorkerHolds(d)') + One(SourceHolds(d)')
                                    + 2 * One(DirectHolds(d)')
                      /\ mem'[d] = "live" <=> refs'[d] > 0
    BY DEF CallCounted
  <2>1. (SourceHolds(d)' <=> SourceHolds(d)) /\ (DirectHolds(d)' <=> DirectHolds(d))
    BY DEF Leave, SourceHolds, DirectHolds, queueVars
  <2>2. CASE d = c
    <3>1. ~WorkerHolds(d)'
      BY <1>1, <1>2, <2>2 DEF Leave, WorkerHolds, TypeOK
    <3> QED BY <1>1, <1>2, <1>3, <2>1, <2>2, <3>1
            DEF Leave, Unref, CallCounted, One, TypeOK
  <2>3. CASE d # c
    <3>1. WorkerHolds(d)' <=> WorkerHolds(d)
      BY <1>1, <1>2, <2>3 DEF Leave, WorkerHolds, TypeOK
    <3> QED BY <1>1, <2>1, <2>3, <3>1
            DEF Leave, Unref, CallCounted, One, TypeOK
  <2> QED BY <2>2, <2>3
<1> QED BY <1>4, <1>5, <1>6, <1>7, <1>8, <1>9 DEF IInv

\* A step after which every call has the holders it had.
LEMMA SameHoldersCounted ==
  ASSUME CallCounted, UNCHANGED <<refs, mem>>,
         \A d \in Call : /\ WorkerHolds(d)' <=> WorkerHolds(d)
                         /\ SourceHolds(d)' <=> SourceHolds(d)
                         /\ DirectHolds(d)' <=> DirectHolds(d)
  PROVE  CallCounted'
BY DEF CallCounted, One

\* A step that leaves the calls, the stack, the queue and what the workers
\* wait for alone.
LEMMA QuietIInv ==
  ASSUME IInv, TypeOK', UNCHANGED <<queueVars, callVars, cur, stack>>,
         \A r \in Run :
           /\ pc'[r] \in {"posted", "blocked"} <=> pc[r] \in {"posted", "blocked"}
           /\ pc'[r] # pc[r] => pc[r] \in {"idle", "posted"}
  PROVE  IInv'
<1>1. QueueInv'
  BY DEF IInv, QueueInv, queueVars
<1>2. StackInv'
  BY DEF IInv, StackInv, FrameInv, queueVars, callVars
<1>3. CallInv'
  BY DEF IInv, CallInv, queueVars, callVars
<1>4. WorkerInv'
  BY DEF IInv, WorkerInv, callVars, queueVars
<1>5. CallCounted'
  <2>1. \A d \in Call : /\ WorkerHolds(d)' <=> WorkerHolds(d)
                        /\ SourceHolds(d)' <=> SourceHolds(d)
                        /\ DirectHolds(d)' <=> DirectHolds(d)
    BY DEF WorkerHolds, SourceHolds, DirectHolds, queueVars, callVars
  <2> QED BY <2>1, SameHoldersCounted DEF IInv, callVars
<1> QED BY <1>1, <1>2, <1>3, <1>4, <1>5 DEF IInv

\* A worker begins to wait.
LEMMA BlockIInv ==
  ASSUME IInv, NEW r \in Run, Block(r)
  PROVE  IInv'
<1>1. TypeOK'
  BY DEF Block, IInv, TypeOK, queueVars, callVars, tableVars
<1>2. \A q \in Run :
        /\ pc'[q] \in {"posted", "blocked"} <=> pc[q] \in {"posted", "blocked"}
        /\ pc'[q] # pc[q] => pc[q] \in {"idle", "posted"}
  BY DEF Block, IInv, TypeOK
<1> QED BY <1>1, <1>2, QuietIInv DEF Block

\* A run starts.
LEMMA RunAsyncIInv ==
  ASSUME IInv, NEW r \in Run, RunAsync(r)
  PROVE  IInv'
<1>1. TypeOK'
  BY DEF RunAsync, IInv, TypeOK, queueVars, callVars
<1>2. \A q \in Run :
        /\ pc'[q] \in {"posted", "blocked"} <=> pc[q] \in {"posted", "blocked"}
        /\ pc'[q] # pc[q] => pc[q] \in {"idle", "posted"}
  BY DEF RunAsync, IInv, TypeOK
<1> QED BY <1>1, <1>2, QuietIInv DEF RunAsync

\* The session or the executor is freed, or nothing happens.
LEMMA FreeIInv ==
  ASSUME IInv, FreeSession \/ FreeExecutor \/ UNCHANGED vars
  PROVE  IInv'
<1>1. UNCHANGED <<queueVars, callVars, runVars, cookies, stray, stack>>
  BY DEF FreeSession, FreeExecutor, vars, tableVars
<1>2. executor' \in BOOLEAN /\ session' \in BOOLEAN
  BY DEF FreeSession, FreeExecutor, vars, tableVars, IInv, TypeOK
<1>3. TypeOK'
  BY <1>1, <1>2 DEF IInv, TypeOK, queueVars, callVars, runVars
<1> QED BY <1>1, <1>3, QuietIInv DEF runVars

\* A worker posts the end of its run.
LEMMA FinishIInv ==
  ASSUME IInv, NEW r \in Run, NEW ok \in BOOLEAN, Finish(r, ok)
  PROVE  IInv'
<1> USE ToolsAssumption
<1>1. /\ TypeOK /\ QueueInv /\ StackInv /\ CallInv /\ WorkerInv /\ CallCounted
  BY DEF IInv
<1>2. r \in fresh /\ fresh' = fresh \ {r} /\ running' = running /\ posted' = Append(posted, r)
  BY DEF Finish, Queue!Post
<1>3. /\ posted' \in Seq(Run \cup Call) /\ Range(posted') = Range(posted) \cup {r}
      /\ Distinct(posted')
  BY <1>1, <1>2, AppendRange, AppendDistinct DEF TypeOK, QueueInv
<1>4. TypeOK'
  BY <1>1, <1>2, <1>3 DEF Finish, TypeOK, callVars, tableVars
<1>5. QueueInv'
  BY <1>1, <1>2, <1>3 DEF QueueInv
<1>6. StackInv'
  BY <1>1, <1>2 DEF Finish, StackInv, FrameInv, callVars
<1>7. CallInv'
  BY <1>1, <1>2, <1>3 DEF Finish, CallInv, callVars
<1>8. WorkerInv'
  BY <1>1, <1>2 DEF Finish, WorkerInv, TypeOK, callVars
<1>9. CallCounted'
  <2>1. \A d \in Call : /\ WorkerHolds(d)' <=> WorkerHolds(d)
                        /\ DirectHolds(d)' <=> DirectHolds(d)
    BY DEF Finish, WorkerHolds, DirectHolds, callVars
  <2>2. \A d \in Call : SourceHolds(d)' <=> SourceHolds(d)
    BY <1>2, <1>3 DEF SourceHolds
  <2> QED BY <1>1, <2>1, <2>2, SameHoldersCounted DEF Finish, callVars
<1> QED BY <1>4, <1>5, <1>6, <1>7, <1>8, <1>9 DEF IInv

\* What is first in the queue when the Lisp thread takes it.
LEMMA HeadTaken ==
  ASSUME IInv, Queue!Begin
  PROVE  /\ Head(posted) \in Run \cup Call /\ Head(posted) \in Range(posted)
         /\ Head(posted) \notin running /\ Head(posted) \notin fresh
         /\ fresh' = fresh /\ running' = running \cup {Head(posted)}
         /\ posted' \in Seq(Run \cup Call) /\ Distinct(posted')
         /\ Range(posted') = Range(posted) \ {Head(posted)}
         /\ QueueInv'
<1>1. posted \in Seq(Run \cup Call) /\ QueueInv
  BY DEF IInv, TypeOK
<1>2. /\ posted # <<>> /\ posted' = Tail(posted) /\ fresh' = fresh
      /\ running' = running \cup {Head(posted)}
  BY DEF Queue!Begin
<1>3. /\ Head(posted) \in Run \cup Call /\ Head(posted) \in Range(posted)
      /\ posted' \in Seq(Run \cup Call) /\ Distinct(posted')
      /\ Range(posted') = Range(posted) \ {Head(posted)}
  BY <1>1, <1>2, TailRange DEF QueueInv
<1> QED BY <1>1, <1>2, <1>3 DEF QueueInv

\* A frame is pushed whose owner had none.
LEMMA PushedFrame ==
  ASSUME stack \in Seq(Frames), NEW f \in Frames, stack' = Append(stack, f),
         \A i \in 1 .. Len(stack) : stack[i].id # f.id,
         \A i, j \in 1 .. Len(stack) : stack[i].id = stack[j].id => i = j
  PROVE  /\ stack' \in Seq(Frames)
         /\ \A i \in 1 .. Len(stack') :
               stack'[i] = f \/ (i \in 1 .. Len(stack) /\ stack'[i] = stack[i])
         /\ \A i, j \in 1 .. Len(stack') : stack'[i].id = stack'[j].id => i = j
         /\ \A d \in Call : DirectHolds(d)' <=> DirectHolds(d) \/ (f.id = d /\ f.direct)
<1>1. /\ stack' \in Seq(Frames) /\ Len(stack) \in Nat /\ Len(stack') = Len(stack) + 1
      /\ DOMAIN stack = 1 .. Len(stack) /\ DOMAIN stack' = 1 .. Len(stack')
      /\ stack'[Len(stack) + 1] = f
      /\ \A i \in 1 .. Len(stack) : stack'[i] = stack[i]
  OBVIOUS
<1>2. \A i \in 1 .. Len(stack') :
        \/ i = Len(stack) + 1 /\ stack'[i] = f
        \/ i \in 1 .. Len(stack) /\ stack'[i] = stack[i]
  BY <1>1
<1>3. \A i, j \in 1 .. Len(stack') : stack'[i].id = stack'[j].id => i = j
  BY <1>2
<1>4. \A d \in Call : DirectHolds(d)' <=> DirectHolds(d) \/ (f.id = d /\ f.direct)
  <2>1. 1 .. Len(stack') = 1 .. Len(stack) \cup {Len(stack) + 1}
    BY <1>1
  <2> QED BY <1>1, <2>1 DEF DirectHolds
<1> QED BY <1>1, <1>2, <1>3, <1>4

\* The Lisp thread takes a tool call from its queue.
LEMMA BeginCallIInv ==
  ASSUME IInv, BeginCall
  PROVE  IInv'
<1> USE ToolsAssumption
<1> DEFINE c == Head(posted)
           f == ToolFrame(c, FALSE, IF executor THEN "lisp" ELSE "answered")
<1>1. /\ TypeOK /\ QueueInv /\ StackInv /\ CallInv /\ WorkerInv /\ CallCounted
  BY DEF IInv
<1>2. /\ c \in Call /\ c \in Range(posted) /\ c \notin running /\ c \notin fresh
      /\ fresh' = fresh /\ running' = running \cup {c}
      /\ posted' \in Seq(Run \cup Call) /\ Range(posted') = Range(posted) \ {c}
      /\ QueueInv'
  BY HeadTaken DEF BeginCall
<1>3. caller[c] \in Run /\ ~done[c]
  BY <1>1, <1>2 DEF CallInv, TypeOK
<1>4. /\ f \in Frames /\ f.k = "tool" /\ f.id = c /\ ~f.direct
      /\ stack' = Append(stack, f)
  BY <1>1, <1>2 DEF BeginCall, CallOnMain, ToolFrame, Frames, TypeOK
<1>5. /\ done' = IF executor THEN done ELSE [done EXCEPT ![c] = TRUE]
      /\ out' = IF executor THEN out ELSE [out EXCEPT ![c] = "error"]
      /\ f.at = IF executor THEN "lisp" ELSE "answered"
  BY DEF BeginCall, CallOnMain, ToolFrame
<1>6. UNCHANGED <<mem, refs, caller, pc, cur, news, cookies, executor, session, stray>>
  BY DEF BeginCall, runVars, tableVars
<1>7. \A i \in 1 .. Len(stack) : stack[i].id # c
  <2>1. caller[c] # Lisp
    BY <1>3
  <2> QED BY <1>2, <2>1, NotStacked
<1> HIDE DEF c, f
<1>8. /\ stack' \in Seq(Frames)
      /\ \A i \in 1 .. Len(stack') :
            stack'[i] = f \/ (i \in 1 .. Len(stack) /\ stack'[i] = stack[i])
      /\ \A i, j \in 1 .. Len(stack') : stack'[i].id = stack'[j].id => i = j
      /\ \A d \in Call : DirectHolds(d)' <=> DirectHolds(d)
  BY <1>1, <1>4, <1>7, PushedFrame DEF TypeOK, StackInv
<1>9. TypeOK'
  BY <1>1, <1>2, <1>5, <1>6, <1>8 DEF TypeOK
<1>10. StackInv'
  <2> SUFFICES ASSUME NEW i \in 1 .. Len(stack')
               PROVE  FrameInv(stack[i])'
    BY <1>8 DEF StackInv
  <2>1. CASE stack'[i] = f
    <3>1. done'[c] <=> f.at = "answered"
      BY <1>1, <1>2, <1>3, <1>5 DEF TypeOK
    <3> QED BY <2>1, <3>1, <1>2, <1>3, <1>4, <1>6 DEF FrameInv
  <2>2. CASE i \in 1 .. Len(stack) /\ stack'[i] = stack[i]
    <3>1. FrameInv(stack[i]) /\ stack[i].id # c
      BY <1>1, <1>7, <2>2 DEF StackInv
    <3>2. stack[i].id \in Call => done'[stack[i].id] = done[stack[i].id]
      BY <1>1, <1>5, <3>1 DEF TypeOK
    <3> QED BY <2>2, <3>1, <3>2, <1>2, <1>6 DEF FrameInv
  <2> QED BY <1>8, <2>1, <2>2
<1>11. CallInv'
  BY <1>1, <1>2, <1>3, <1>5, <1>6 DEF CallInv, TypeOK
<1>12. WorkerInv'
  BY <1>1, <1>2, <1>6 DEF WorkerInv
<1>13. CallCounted'
  <2>1. \A d \in Call : /\ WorkerHolds(d)' <=> WorkerHolds(d)
                        /\ SourceHolds(d)' <=> SourceHolds(d)
    BY <1>2, <1>6 DEF WorkerHolds, SourceHolds
  <2> QED BY <1>1, <1>6, <1>8, <2>1, SameHoldersCounted
<1> QED BY <1>2, <1>9, <1>10, <1>11, <1>12, <1>13 DEF IInv

\* The Lisp thread takes the end of a run from its queue.
LEMMA BeginDoneIInv ==
  ASSUME IInv, BeginDone
  PROVE  IInv'
<1> USE ToolsAssumption
<1> DEFINE r == Head(posted)
           f == DoneFrame(r)
<1>1. /\ TypeOK /\ QueueInv /\ StackInv /\ CallInv /\ WorkerInv /\ CallCounted
  BY DEF IInv
<1>2. /\ r \in Run /\ r \notin running
      /\ fresh' = fresh /\ running' = running \cup {r}
      /\ posted' \in Seq(Run \cup Call) /\ Range(posted') = Range(posted) \ {r}
      /\ QueueInv'
  BY HeadTaken DEF BeginDone
<1>3. /\ f \in Frames /\ f.k = "done" /\ f.id = r /\ ~f.direct /\ f.at = "lisp"
      /\ stack' = Append(stack, f) /\ cookies' = cookies \ {r}
  BY <1>2 DEF BeginDone, DoneFrame, Frames
<1>4. UNCHANGED <<mem, refs, done, out, caller, pc, cur, news, executor, session, stray>>
  BY DEF BeginDone, runVars, callVars
<1>5. \A i \in 1 .. Len(stack) : stack[i].id # r
  BY <1>2, NotStacked
<1> HIDE DEF r, f
<1>6. /\ stack' \in Seq(Frames)
      /\ \A i \in 1 .. Len(stack') :
            stack'[i] = f \/ (i \in 1 .. Len(stack) /\ stack'[i] = stack[i])
      /\ \A i, j \in 1 .. Len(stack') : stack'[i].id = stack'[j].id => i = j
      /\ \A d \in Call : DirectHolds(d)' <=> DirectHolds(d)
  BY <1>1, <1>3, <1>5, PushedFrame DEF TypeOK, StackInv
<1>7. TypeOK'
  BY <1>1, <1>2, <1>3, <1>4, <1>6 DEF TypeOK
<1>8. StackInv'
  <2> SUFFICES ASSUME NEW i \in 1 .. Len(stack')
               PROVE  FrameInv(stack[i])'
    BY <1>6 DEF StackInv
  <2>1. CASE stack'[i] = f
    BY <2>1, <1>2, <1>3 DEF FrameInv
  <2>2. CASE i \in 1 .. Len(stack) /\ stack'[i] = stack[i]
    <3>1. FrameInv(stack[i])
      BY <1>1, <2>2 DEF StackInv
    <3> QED BY <2>2, <3>1, <1>2, <1>4 DEF FrameInv
  <2> QED BY <1>6, <2>1, <2>2
<1>9. CallInv'
  BY <1>1, <1>2, <1>4 DEF CallInv
<1>10. WorkerInv'
  BY <1>1, <1>2, <1>4 DEF WorkerInv
<1>11. CallCounted'
  <2>1. \A d \in Call : /\ WorkerHolds(d)' <=> WorkerHolds(d)
                        /\ SourceHolds(d)' <=> SourceHolds(d)
    BY <1>2, <1>4 DEF WorkerHolds, SourceHolds
  <2> QED BY <1>1, <1>4, <1>6, <2>1, SameHoldersCounted
<1> QED BY <1>2, <1>7, <1>8, <1>9, <1>10, <1>11 DEF IInv

\* The Lisp thread calls a tool for its own Lisp.
LEMMA ExecuteDirectIInv ==
  ASSUME IInv, NEW c \in Call, ExecuteDirect(c)
  PROVE  IInv'
<1> USE ToolsAssumption
<1> DEFINE f == ToolFrame(c, TRUE, "lisp")
<1>1. /\ TypeOK /\ QueueInv /\ StackInv /\ CallInv /\ WorkerInv /\ CallCounted
  BY DEF IInv
<1>2. /\ mem[c] = "none" /\ caller[c] = None /\ ~done[c] /\ c \in fresh
      /\ c \notin running /\ c \notin Range(posted)
  BY <1>1 DEF ExecuteDirect, CallNew, CallInv, QueueInv
<1>3. /\ mem' = [mem EXCEPT ![c] = "live"] /\ refs' = [refs EXCEPT ![c] = 2]
      /\ caller' = [caller EXCEPT ![c] = Lisp]
      /\ UNCHANGED <<fresh, posted, running, done, out, pc, cur, news,
                     cookies, executor, session, stray>>
  BY DEF ExecuteDirect, CallNew, CallOnMain, queueVars, runVars, tableVars
<1>4. /\ f \in Frames /\ f.k = "tool" /\ f.id = c /\ f.direct /\ f.at = "lisp"
      /\ stack' = Append(stack, f)
  BY DEF ExecuteDirect, CallOnMain, ToolFrame, Frames
<1>5. \A i \in 1 .. Len(stack) : stack[i].id # c
  BY <1>2, NotStacked
<1> HIDE DEF f
<1>6. /\ stack' \in Seq(Frames)
      /\ \A i \in 1 .. Len(stack') :
            stack'[i] = f \/ (i \in 1 .. Len(stack) /\ stack'[i] = stack[i])
      /\ \A i, j \in 1 .. Len(stack') : stack'[i].id = stack'[j].id => i = j
      /\ \A d \in Call : DirectHolds(d)' <=> DirectHolds(d) \/ d = c
  BY <1>1, <1>4, <1>5, PushedFrame DEF TypeOK, StackInv
<1>7. TypeOK'
  BY <1>1, <1>3, <1>6 DEF TypeOK
<1>8. QueueInv'
  BY <1>1, <1>3 DEF QueueInv
<1>9. StackInv'
  <2> SUFFICES ASSUME NEW i \in 1 .. Len(stack')
               PROVE  FrameInv(stack[i])'
    BY <1>6 DEF StackInv
  <2>1. CASE stack'[i] = f
    <3>1. caller'[c] = Lisp
      BY <1>1, <1>3 DEF TypeOK
    <3> QED BY <2>1, <3>1, <1>2, <1>3, <1>4 DEF FrameInv
  <2>2. CASE i \in 1 .. Len(stack) /\ stack'[i] = stack[i]
    <3>1. FrameInv(stack[i]) /\ stack[i].id # c
      BY <1>1, <1>5, <2>2 DEF StackInv
    <3>2. stack[i].id \in Call => caller'[stack[i].id] = caller[stack[i].id]
      BY <1>1, <1>3, <3>1 DEF TypeOK
    <3> QED BY <2>2, <3>1, <3>2, <1>3 DEF FrameInv
  <2> QED BY <1>6, <2>1, <2>2
<1>10. CallInv'
  BY <1>1, <1>2, <1>3 DEF CallInv, TypeOK
<1>11. WorkerInv'
  BY <1>1, <1>2, <1>3 DEF WorkerInv, TypeOK
<1>12. CallCounted'
  <2> SUFFICES ASSUME NEW d \in Call
               PROVE  /\ refs'[d] = One(WorkerHolds(d)') + One(SourceHolds(d)')
                                    + 2 * One(DirectHolds(d)')
                      /\ mem'[d] = "live" <=> refs'[d] > 0
    BY DEF CallCounted
  <2>1. SourceHolds(d)' <=> SourceHolds(d)
    BY <1>3 DEF SourceHolds
  <2>2. CASE d = c
    <3>1. ~WorkerHolds(d)' /\ ~SourceHolds(d)' /\ DirectHolds(d)'
      BY <1>1, <1>2, <1>3, <1>6, <2>1, <2>2 DEF WorkerHolds, SourceHolds, TypeOK
    <3> QED BY <1>1, <1>3, <2>2, <3>1 DEF One, TypeOK
  <2>3. CASE d # c
    <3>1. (WorkerHolds(d)' <=> WorkerHolds(d)) /\ (DirectHolds(d)' <=> DirectHolds(d))
      BY <1>1, <1>3, <1>6, <2>3 DEF WorkerHolds, TypeOK
    <3> QED BY <1>1, <1>3, <2>1, <2>3, <3>1 DEF CallCounted, One, TypeOK
  <2> QED BY <2>2, <2>3
<1> QED BY <1>7, <1>8, <1>9, <1>10, <1>11, <1>12 DEF IInv

\* The innermost frame is the one and only frame of its owner.
LEMMA Innermost ==
  ASSUME IInv, stack # <<>>
  PROVE  /\ Len(stack) \in Nat \ {0} /\ Last(stack) = stack[Len(stack)]
         /\ Last(stack) \in Frames /\ FrameInv(Last(stack))
         /\ \A i \in 1 .. Len(stack) - 1 : stack[i].id # Last(stack).id
<1>1. /\ Len(stack) \in Nat \ {0} /\ Last(stack) = stack[Len(stack)]
      /\ Last(stack) \in Frames
  BY TopFrame DEF IInv, TypeOK
<1>2. Len(stack) \in 1 .. Len(stack)
  BY <1>1
<1>3. FrameInv(Last(stack))
  BY <1>1, <1>2 DEF IInv, StackInv
<1>4. \A i \in 1 .. Len(stack) - 1 : i \in 1 .. Len(stack) /\ i # Len(stack)
  BY <1>1
<1> QED BY <1>1, <1>2, <1>3, <1>4 DEF IInv, StackInv

\* That frame is popped.
LEMMA PoppedFrame ==
  ASSUME IInv, stack # <<>>, stack' = Front(stack)
  PROVE  /\ stack' \in Seq(Frames)
         /\ \A i \in 1 .. Len(stack') : /\ i \in 1 .. Len(stack) /\ stack'[i] = stack[i]
                                        /\ stack[i].id # Last(stack).id
         /\ \A d \in Call : DirectHolds(d)'
                           <=> DirectHolds(d) /\ d # Last(stack).id
<1>1. /\ stack' \in Seq(Frames) /\ Len(stack') = Len(stack) - 1
      /\ Len(stack) \in Nat \ {0} /\ Last(stack) = stack[Len(stack)]
      /\ \A i \in 1 .. Len(stack) - 1 : stack'[i] = stack[i]
  BY TopFrame DEF IInv, TypeOK
<1>2. \A i \in 1 .. Len(stack') : /\ i \in 1 .. Len(stack) /\ stack'[i] = stack[i]
                                 /\ stack[i].id # Last(stack).id
  BY <1>1, Innermost
<1>3. /\ DOMAIN stack = 1 .. Len(stack) /\ DOMAIN stack' = 1 .. Len(stack')
      /\ 1 .. Len(stack) = 1 .. Len(stack') \cup {Len(stack)}
  BY <1>1 DEF IInv, TypeOK
<1> QED BY <1>1, <1>2, <1>3 DEF DirectHolds

\* The frames that stay keep their facts.
LEMMA PoppedStack ==
  ASSUME IInv, stack # <<>>, stack' = Front(stack), UNCHANGED <<caller, done>>,
         running \ {Last(stack).id} \subseteq running'
  PROVE  StackInv'
<1>1. \A i \in 1 .. Len(stack') : /\ i \in 1 .. Len(stack) /\ stack'[i] = stack[i]
                                 /\ stack[i].id # Last(stack).id
  BY PoppedFrame
<1> SUFFICES ASSUME NEW i \in 1 .. Len(stack')
             PROVE  FrameInv(stack[i])'
  BY <1>1 DEF StackInv, IInv
<1>2. FrameInv(stack[i])
  BY <1>1 DEF IInv, StackInv
<1> QED BY <1>1, <1>2 DEF FrameInv

\* A Lisp callback returns, and the answer is signalled.
LEMMA ToolReturnsIInv ==
  ASSUME IInv, NEW value \in BOOLEAN, ToolReturns(value)
  PROVE  IInv'
<1> USE ToolsAssumption
<1> DEFINE t == Last(stack)
           c == t.id
           n == Len(stack)
           f == ToolFrame(c, t.direct, "answered")
<1>1. /\ TypeOK /\ QueueInv /\ StackInv /\ CallInv /\ WorkerInv /\ CallCounted
  BY DEF IInv
<1>2. /\ n \in Nat \ {0} /\ t = stack[n] /\ t \in Frames /\ FrameInv(t)
      /\ \A i \in 1 .. n - 1 : stack[i].id # c
      /\ t.k = "tool"
  BY Innermost DEF ToolReturns
<1>3. /\ c \in Call /\ t.direct \in BOOLEAN /\ (t.direct => caller[c] = Lisp)
      /\ ~t.direct => c \in running /\ caller[c] \in Run
  BY <1>2 DEF FrameInv, Frames
<1>4. /\ Front(stack) \in Seq(Frames) /\ Len(Front(stack)) = n - 1
      /\ \A i \in 1 .. n - 1 : Front(stack)[i] = stack[i]
  BY <1>1, TopFrame DEF TypeOK, ToolReturns
<1>5. /\ f \in Frames /\ f.k = "tool" /\ f.id = c /\ f.direct = t.direct
      /\ f.at = "answered" /\ stack' = Append(Front(stack), f)
  BY <1>3 DEF ToolReturns, ToolFrame, Frames
<1>6. /\ out' = [out EXCEPT ![c] = IF value THEN "value" ELSE "error"]
      /\ done' = [done EXCEPT ![c] = TRUE]
      /\ UNCHANGED <<fresh, posted, running, mem, refs, caller, pc, cur, news,
                     cookies, executor, session, stray>>
  BY DEF ToolReturns, queueVars, runVars, tableVars
<1> HIDE DEF t, c, n, f
<1>7. /\ stack' \in Seq(Frames) /\ Len(stack') = n /\ stack'[n] = f
      /\ \A i \in 1 .. n - 1 : stack'[i] = stack[i]
  <2> DEFINE s == Front(stack)
  <2> HIDE DEF s
  <2>1. /\ s \in Seq(Frames) /\ Len(s) = n - 1
        /\ \A i \in 1 .. n - 1 : s[i] = stack[i]
        /\ stack' = Append(s, f)
    BY <1>4, <1>5 DEF s
  <2>2. /\ Append(s, f) \in Seq(Frames) /\ Len(Append(s, f)) = n
        /\ Append(s, f)[n] = f
        /\ \A i \in 1 .. n - 1 : Append(s, f)[i] = s[i]
    BY <1>2, <1>5, <2>1
  <2> QED BY <2>1, <2>2
<1>8. \A i \in 1 .. n : (i = n /\ stack'[i] = f)
                       \/ (i \in 1 .. n - 1 /\ stack'[i] = stack[i])
  BY <1>2, <1>7
<1>9. TypeOK'
  BY <1>1, <1>3, <1>6, <1>7 DEF TypeOK
<1>10. QueueInv'
  BY <1>1, <1>6 DEF QueueInv
<1>11. StackInv'
  <2>1. \A i \in 1 .. n : FrameInv(stack[i])'
    <3> SUFFICES ASSUME NEW i \in 1 .. n PROVE FrameInv(stack[i])'
      OBVIOUS
    <3>1. CASE i = n /\ stack'[i] = f
      <4>1. done'[c]
        BY <1>1, <1>3, <1>6 DEF TypeOK
      <4> QED BY <1>3, <1>5, <1>6, <3>1, <4>1 DEF FrameInv
    <3>2. CASE i \in 1 .. n - 1 /\ stack'[i] = stack[i]
      <4>1. FrameInv(stack[i]) /\ stack[i].id # c
        BY <1>1, <1>2, <3>2 DEF StackInv, n
      <4>2. stack[i].id \in Call => done'[stack[i].id] = done[stack[i].id]
        BY <1>1, <1>6, <4>1 DEF TypeOK
      <4> QED BY <1>6, <3>2, <4>1, <4>2 DEF FrameInv
    <3> QED BY <1>8, <3>1, <3>2
  <2>2. \A i \in 1 .. n : stack'[i].id = stack[i].id
    BY <1>2, <1>5, <1>8 DEF c
  <2>3. \A i, j \in 1 .. n : stack[i].id = stack[j].id => i = j
    BY <1>1 DEF StackInv, n
  <2> QED BY <1>7, <2>1, <2>2, <2>3 DEF StackInv
<1>12. CallInv'
  <2>1. c \notin Range(posted)
    BY <1>1, <1>3 DEF QueueInv, CallInv
  <2> QED BY <1>1, <1>3, <1>6, <2>1 DEF CallInv, TypeOK
<1>13. WorkerInv'
  BY <1>1, <1>6 DEF WorkerInv
<1>14. CallCounted'
  <2>1. \A d \in Call : /\ WorkerHolds(d)' <=> WorkerHolds(d)
                        /\ SourceHolds(d)' <=> SourceHolds(d)
    BY <1>6 DEF WorkerHolds, SourceHolds
  <2>2. DOMAIN stack = 1 .. n /\ DOMAIN stack' = 1 .. n
    BY <1>1, <1>7 DEF TypeOK, n
  <2>3. \A i \in 1 .. n : stack'[i].id = stack[i].id /\ stack'[i].direct = stack[i].direct
    BY <1>2, <1>5, <1>8 DEF c
  <2>4. \A d \in Call : DirectHolds(d)' <=> DirectHolds(d)
    BY <2>2, <2>3 DEF DirectHolds
  <2> QED BY <1>1, <1>6, <2>1, <2>4, SameHoldersCounted
<1> QED BY <1>9, <1>10, <1>11, <1>12, <1>13, <1>14 DEF IInv

\* The source of a call drops its reference.
LEMMA EndCallIInv ==
  ASSUME IInv, EndCall
  PROVE  IInv'
<1> USE ToolsAssumption
<1> DEFINE t == Last(stack)
           c == t.id
<1>1. /\ TypeOK /\ QueueInv /\ StackInv /\ CallInv /\ WorkerInv /\ CallCounted
  BY DEF IInv
<1>2. /\ stack # <<>> /\ stack' = Front(stack) /\ t.at = "answered" /\ ~t.direct
      /\ t \in Frames /\ FrameInv(t)
  BY Innermost DEF EndCall
<1>3. t.k = "tool"
  BY <1>2 DEF Frames, FrameInv
<1>4. c \in Call /\ c \in running /\ caller[c] \in Run
  BY <1>2, <1>3 DEF FrameInv
<1>5. /\ refs' = [refs EXCEPT ![c] = @ - 1]
      /\ mem' = [mem EXCEPT ![c] = IF refs[c] = 1 THEN "freed" ELSE @]
      /\ running' = running \ {c}
      /\ UNCHANGED <<fresh, posted, done, out, caller, pc, cur, news,
                     cookies, executor, session, stray>>
  BY DEF EndCall, Unref, Queue!End, runVars, tableVars
<1>6. /\ stack' \in Seq(Frames)
      /\ \A d \in Call : DirectHolds(d)' <=> DirectHolds(d) /\ d # c
      /\ StackInv'
  <2>1. running \ {Last(stack).id} \subseteq running'
    BY <1>5
  <2> QED BY <1>2, <1>5, <2>1, PoppedFrame, PoppedStack
<1>7. SourceHolds(c) /\ refs[c] \in 1..2 /\ mem[c] = "live" /\ c \notin Range(posted)
  <2>1. SourceHolds(c)
    BY <1>4 DEF SourceHolds
  <2>2. refs[c] > 0 /\ refs[c] \in 0..2
    <3>1. refs[c] \in 0..2
      BY <1>1, <1>4 DEF TypeOK
    <3>2. refs[c] = One(WorkerHolds(c)) + One(SourceHolds(c)) + 2 * One(DirectHolds(c))
      BY <1>1, <1>4 DEF CallCounted
    <3> QED BY <2>1, <3>1, <3>2 DEF One
  <2> QED BY <1>1, <1>4, <2>1, <2>2 DEF CallCounted, QueueInv
<1> HIDE DEF c, t
<1>8. TypeOK'
  BY <1>1, <1>4, <1>5, <1>6, <1>7 DEF TypeOK
<1>9. QueueInv'
  BY <1>1, <1>5 DEF QueueInv
<1>10. CallInv'
  BY <1>1, <1>4, <1>5, <1>7 DEF CallInv, TypeOK
<1>11. WorkerInv'
  BY <1>1, <1>5 DEF WorkerInv
<1>12. CallCounted'
  <2> SUFFICES ASSUME NEW d \in Call
               PROVE  /\ refs'[d] = One(WorkerHolds(d)') + One(SourceHolds(d)')
                                    + 2 * One(DirectHolds(d)')
                      /\ mem'[d] = "live" <=> refs'[d] > 0
    BY DEF CallCounted
  <2>1. WorkerHolds(d)' <=> WorkerHolds(d)
    BY <1>5 DEF WorkerHolds
  <2>2. CASE d = c
    <3>1. ~SourceHolds(d)' /\ ~DirectHolds(d)'
      BY <1>5, <1>6, <1>7, <2>2 DEF SourceHolds
    <3>2. ~DirectHolds(d)
      <4>1. refs[d] = One(WorkerHolds(d)) + One(SourceHolds(d)) + 2 * One(DirectHolds(d))
        BY <1>1 DEF CallCounted
      <4> QED BY <1>7, <2>2, <4>1 DEF One
    <3> QED BY <1>1, <1>5, <1>7, <2>1, <2>2, <3>1, <3>2 DEF CallCounted, One, TypeOK
  <2>3. CASE d # c
    <3>1. (SourceHolds(d)' <=> SourceHolds(d)) /\ (DirectHolds(d)' <=> DirectHolds(d))
      BY <1>5, <1>6, <2>3 DEF SourceHolds
    <3> QED BY <1>1, <1>5, <2>1, <2>3, <3>1 DEF CallCounted, One, TypeOK
  <2> QED BY <2>2, <2>3
<1> QED BY <1>6, <1>8, <1>9, <1>10, <1>11, <1>12 DEF IInv

\* A call made for Lisp itself drops both references.
LEMMA EndDirectIInv ==
  ASSUME IInv, EndDirect
  PROVE  IInv'
<1> USE ToolsAssumption
<1> DEFINE t == Last(stack)
           c == t.id
<1>1. /\ TypeOK /\ QueueInv /\ StackInv /\ CallInv /\ WorkerInv /\ CallCounted
  BY DEF IInv
<1>2. /\ stack # <<>> /\ stack' = Front(stack) /\ t.direct
      /\ t \in Frames /\ FrameInv(t)
      /\ Len(stack) \in Nat \ {0} /\ t = stack[Len(stack)]
  BY Innermost DEF EndDirect
<1>3. t.k = "tool"
  BY <1>2 DEF Frames, FrameInv
<1>4. c \in Call /\ caller[c] = Lisp /\ c \in fresh
  BY <1>1, <1>2, <1>3 DEF FrameInv, CallInv
<1>5. /\ refs' = [refs EXCEPT ![c] = @ - 2]
      /\ mem' = [mem EXCEPT ![c] = IF refs[c] = 2 THEN "freed" ELSE @]
      /\ stray' = (stray \/ ~session)
      /\ UNCHANGED <<fresh, posted, running, done, out, caller, pc, cur, news,
                     cookies, executor, session>>
  BY DEF EndDirect, Unref, queueVars, runVars
<1>6. /\ stack' \in Seq(Frames)
      /\ \A d \in Call : DirectHolds(d)' <=> DirectHolds(d) /\ d # c
      /\ StackInv'
  <2>1. running \ {Last(stack).id} \subseteq running'
    BY <1>5
  <2> QED BY <1>2, <1>5, <2>1, PoppedFrame, PoppedStack
<1>7. ~SourceHolds(c) /\ ~WorkerHolds(c) /\ refs[c] = 2 /\ mem[c] = "live"
  <2>1. ~SourceHolds(c) /\ ~WorkerHolds(c)
    BY <1>1, <1>4 DEF SourceHolds, WorkerHolds, QueueInv
  <2>2. DirectHolds(c)
    <3>1. Len(stack) \in DOMAIN stack
      BY <1>1, <1>2 DEF TypeOK
    <3> QED BY <1>2, <3>1 DEF DirectHolds
  <2>3. refs[c] = 2
    BY <1>1, <1>4, <2>1, <2>2 DEF CallCounted, One
  <2> QED BY <1>1, <1>4, <2>1, <2>3 DEF CallCounted
<1> HIDE DEF c, t
<1>8. TypeOK'
  <2>1. stray' \in BOOLEAN
    BY <1>5
  <2> QED BY <1>1, <1>4, <1>5, <1>6, <1>7, <2>1 DEF TypeOK
<1>9. QueueInv'
  BY <1>1, <1>5 DEF QueueInv
<1>10. CallInv'
  BY <1>1, <1>4, <1>5, <1>7 DEF CallInv, TypeOK
<1>11. WorkerInv'
  BY <1>1, <1>5 DEF WorkerInv
<1>12. CallCounted'
  <2> SUFFICES ASSUME NEW d \in Call
               PROVE  /\ refs'[d] = One(WorkerHolds(d)') + One(SourceHolds(d)')
                                    + 2 * One(DirectHolds(d)')
                      /\ mem'[d] = "live" <=> refs'[d] > 0
    BY DEF CallCounted
  <2>1. (WorkerHolds(d)' <=> WorkerHolds(d)) /\ (SourceHolds(d)' <=> SourceHolds(d))
    BY <1>5 DEF WorkerHolds, SourceHolds
  <2>2. CASE d = c
    BY <1>1, <1>5, <1>6, <1>7, <2>1, <2>2 DEF One, TypeOK
  <2>3. CASE d # c
    BY <1>1, <1>5, <1>6, <2>1, <2>3 DEF CallCounted, One, TypeOK
  <2> QED BY <2>2, <2>3
<1> QED BY <1>6, <1>8, <1>9, <1>10, <1>11, <1>12 DEF IInv

\* The callback of a run returns.
LEMMA EndDoneIInv ==
  ASSUME IInv, EndDone
  PROVE  IInv'
<1> USE ToolsAssumption
<1> DEFINE r == Last(stack).id
<1>1. /\ TypeOK /\ QueueInv /\ StackInv /\ CallInv /\ WorkerInv /\ CallCounted
  BY DEF IInv
<1>2. /\ stack # <<>> /\ stack' = Front(stack) /\ Last(stack).k = "done"
      /\ FrameInv(Last(stack))
  BY Innermost DEF EndDone
<1>3. r \in Run /\ r \in running
  BY <1>2 DEF FrameInv
<1>4. /\ pc' = [pc EXCEPT ![r] = "reported"] /\ running' = running \ {r}
      /\ UNCHANGED <<fresh, posted, mem, refs, done, out, caller, cur, news,
                     cookies, executor, session, stray>>
  BY DEF EndDone, Queue!End, callVars, tableVars
<1>5. /\ stack' \in Seq(Frames)
      /\ \A d \in Call : DirectHolds(d)' <=> DirectHolds(d) /\ d # r
      /\ StackInv'
  <2>1. running \ {Last(stack).id} \subseteq running'
    BY <1>4
  <2> QED BY <1>2, <1>4, <2>1, PoppedFrame, PoppedStack
<1> HIDE DEF r
<1>6. TypeOK'
  BY <1>1, <1>3, <1>4, <1>5 DEF TypeOK
<1>7. QueueInv'
  BY <1>1, <1>4 DEF QueueInv
<1>8. CallInv'
  BY <1>1, <1>4 DEF CallInv
<1>9. WorkerInv'
  <2>1. r \notin fresh
    BY <1>1, <1>3 DEF QueueInv
  <2> QED BY <1>1, <1>3, <1>4, <2>1 DEF WorkerInv, TypeOK
<1>10. CallCounted'
  <2>1. \A d \in Call : /\ WorkerHolds(d)' <=> WorkerHolds(d)
                        /\ SourceHolds(d)' <=> SourceHolds(d)
                        /\ DirectHolds(d)' <=> DirectHolds(d)
    BY <1>3, <1>4, <1>5 DEF WorkerHolds, SourceHolds
  <2> QED BY <1>1, <1>4, <2>1, SameHoldersCounted
<1> QED BY <1>5, <1>6, <1>7, <1>8, <1>9, <1>10 DEF IInv

LEMMA NextIInv == IInv /\ [Next]_vars => IInv'
<1> SUFFICES ASSUME IInv, [Next]_vars PROVE IInv'
  OBVIOUS
<1>1. ASSUME NEW r \in Run, Block(r) PROVE IInv'
  BY <1>1, BlockIInv
<1>2. ASSUME NEW r \in Run, Collect(r) PROVE IInv'
  BY <1>2, LeaveIInv DEF Collect
<1>3. ASSUME NEW r \in Run, TimeOut(r) PROVE IInv'
  BY <1>3, LeaveIInv DEF TimeOut
<1>4. ASSUME NEW r \in Run, RunAsync(r) PROVE IInv'
  BY <1>4, RunAsyncIInv
<1>5. ASSUME NEW r \in Run, NEW ok \in BOOLEAN, Finish(r, ok) PROVE IInv'
  BY <1>5, FinishIInv
<1>6. ASSUME NEW r \in Run, NEW c \in Call, AskTool(r, c) PROVE IInv'
  BY <1>6, AskToolIInv
<1>7. CASE BeginCall
  BY <1>7, BeginCallIInv
<1>8. CASE EndCall
  BY <1>8, EndCallIInv
<1>9. CASE EndDirect
  BY <1>9, EndDirectIInv
<1>10. CASE BeginDone
  BY <1>10, BeginDoneIInv
<1>11. CASE EndDone
  BY <1>11, EndDoneIInv
<1>12. ASSUME NEW value \in BOOLEAN, ToolReturns(value) PROVE IInv'
  BY <1>12, ToolReturnsIInv
<1>13. ASSUME NEW c \in Call, ExecuteDirect(c) PROVE IInv'
  BY <1>13, ExecuteDirectIInv
<1>14. CASE FreeSession \/ FreeExecutor \/ UNCHANGED vars
  BY <1>14, FreeIInv
<1> QED BY <1>1, <1>2, <1>3, <1>4, <1>5, <1>6, <1>7, <1>8, <1>9, <1>10, <1>11,
           <1>12, <1>13, <1>14 DEF Next

LEMMA SpecIInv == Spec => []IInv
BY InitIInv, NextIInv, PTL DEF Spec

\* The reference count of every tool call is the number of its holders, for
\* any number of runs, calls and nested Lisp calls: neither the worker that
\* timed out nor the source on the Lisp thread (cmacs_ai_tool_call_unref)
\* ever touches a call that was freed, and no call is leaked.
THEOREM CallsCounted == Spec => [](TypeOK /\ CallCounted)
<1>1. IInv => TypeOK /\ CallCounted
  BY DEF IInv
<1> QED BY <1>1, SpecIInv, PTL
=============================================================================
