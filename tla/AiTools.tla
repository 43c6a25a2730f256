------------------------------ MODULE AiTools ------------------------------
(***************************************************************************)
(* The tool loop of the AI client (cmacs/ai/cmacs-ai-tools.c).  A run has  *)
(* a worker thread that talks to the model; a tool written in Lisp is      *)
(* called on the Lisp thread while the worker sleeps on a condition, at    *)
(* most cmacs-ai-tool-call-timeout seconds.  When the run is over its      *)
(* messages are folded into the session (cmacs/ai/cmacs-ai-session.c) and  *)
(* its callback is called, once.  Work reaches the Lisp thread through the *)
(* queue that GlibLoop implements.                                         *)
(***************************************************************************)
EXTENDS Naturals, Sequences, SequencesExt, FiniteSets

CONSTANTS
  Run,          \* runs of cmacs-ai-tools-run-async
  Call,         \* CmacsAiToolCall structs
  Lisp, None,   \* the Lisp thread as a caller; nobody
  HistoryLimit, \* cmacs-ai-history-limit
  MaxNest       \* bound: Lisp calls nested on the Lisp thread

ASSUME ToolsAssumption ==
  /\ Lisp \notin Run /\ None \notin Run \cup Call \cup {Lisp}
  /\ Run \cap Call = {}

VARIABLES
  fresh, posted, running,   \* the queue of the Lisp thread
  mem,       \* each struct: "none", "live" or "freed"
  refs,      \* its reference count
  done,      \* its done flag
  out,       \* its outcome: "none", "value" or "error"
  caller,    \* the run that asked, or the Lisp thread itself
  pc,        \* where the worker of each run is
  cur,       \* the call it is waiting for
  news,      \* messages the run has produced
  cookies,   \* runs whose callback is registered
  executor,  \* whether the executor and its Lisp callbacks are in their tables
  session,   \* whether the session's handle is in the table
  messages,  \* the session's history
  stray,     \* whether a message went to a session that was already freed
  stack      \* calls nested on the Lisp thread, innermost last

callVars == <<mem, refs, done, out, caller>>
runVars == <<pc, cur, news>>
tableVars == <<cookies, executor, session, messages, stray>>
queueVars == <<fresh, posted, running>>
vars == <<queueVars, callVars, runVars, tableVars, stack>>

Queue == INSTANCE MainQueue WITH Job <- Run \cup Call

Msg(r, c, kind) == [run |-> r, call |-> c, kind |-> kind]

Init ==
  /\ Queue!QueueInit
  /\ mem = [c \in Call |-> "none"]
  /\ refs = [c \in Call |-> 0]
  /\ done = [c \in Call |-> FALSE]
  /\ out = [c \in Call |-> "none"]
  /\ caller = [c \in Call |-> None]
  /\ pc = [r \in Run |-> "idle"]
  /\ cur = [r \in Run |-> None]
  /\ news = [r \in Run |-> <<>>]
  /\ cookies = {}
  /\ executor = TRUE
  /\ session = TRUE /\ messages = <<>> /\ stray = FALSE
  /\ stack = <<>>

\* cmacs_ai_tool_call_new: one reference each for the caller and the source.
CallNew(c, who) ==
  /\ mem[c] = "none"
  /\ mem' = [mem EXCEPT ![c] = "live"]
  /\ refs' = [refs EXCEPT ![c] = 2]
  /\ caller' = [caller EXCEPT ![c] = who]

\* cmacs_ai_tool_call_unref, n times.
Unref(c, n) ==
  /\ refs' = [refs EXCEPT ![c] = @ - n]
  /\ mem' = [mem EXCEPT ![c] = IF refs[c] = n THEN "freed" ELSE @]

\* cmacs_ai_session_trim: the oldest messages go.
Trim(s) ==
  IF Len(s) <= HistoryLimit THEN s
  ELSE SubSeq(s, Len(s) - HistoryLimit + 1, Len(s))

-----------------------------------------------------------------------------
(* The worker of a run. *)

\* The model asked for a tool written in Lisp: cmacs_ai_tool__elisp_dispatch
\* up to its g_main_context_invoke.
AskTool(r, c) ==
  /\ pc[r] = "model"
  /\ CallNew(c, r)
  /\ Queue!Post(c)
  /\ pc' = [pc EXCEPT ![r] = "posted"]
  /\ cur' = [cur EXCEPT ![r] = c]
  /\ news' = [news EXCEPT ![r] = Append(@, Msg(r, c, "use"))]
  /\ UNCHANGED <<done, out, tableVars, stack>>

\* The wait begins: the lock is taken and done is not set.
Block(r) ==
  /\ pc[r] = "posted" /\ ~done[cur[r]]
  /\ pc' = [pc EXCEPT ![r] = "blocked"]
  /\ UNCHANGED <<queueVars, callVars, cur, news, tableVars, stack>>

\* The worker is done with the call and tells the model kind.
Leave(r, kind) ==
  /\ Unref(cur[r], 1)
  /\ pc' = [pc EXCEPT ![r] = "model"]
  /\ cur' = [cur EXCEPT ![r] = None]
  /\ news' = [news EXCEPT ![r] = Append(@, Msg(r, cur[r], kind))]
  /\ UNCHANGED <<queueVars, done, out, caller, tableVars, stack>>

\* The worker woke up to its answer.
Collect(r) ==
  /\ pc[r] \in {"posted", "blocked"} /\ done[cur[r]]
  /\ Leave(r, out[cur[r]])

\* g_cond_wait_until reached the deadline, whether or not done was set since.
\* One mutant frees the call under the Lisp thread, the other takes what is in
\* it for an answer.
TimeOutFreeing(r) ==
  /\ pc[r] = "blocked"
  /\ refs' = [refs EXCEPT ![cur[r]] = 0]
  /\ mem' = [mem EXCEPT ![cur[r]] = "freed"]
  /\ pc' = [pc EXCEPT ![r] = "model"]
  /\ cur' = [cur EXCEPT ![r] = None]
  /\ news' = [news EXCEPT ![r] = Append(@, Msg(r, cur[r], "timeout"))]
  /\ UNCHANGED <<queueVars, done, out, caller, tableVars, stack>>

TimeOutAnswering(r) ==
  /\ pc[r] = "blocked"
  /\ Leave(r, "error")

TimeOut(r) ==
  /\ pc[r] = "blocked"
  /\ Leave(r, "timeout")

\* ai_tool_executor_run_full returned, with a text or an error, and
\* cmacs_ai_tools__worker posts its end.
Finish(r, ok) ==
  /\ pc[r] = "model"
  /\ Queue!Post(r)
  /\ pc' = [pc EXCEPT ![r] = "over"]
  /\ news' = [news EXCEPT ![r] = IF ok THEN Append(@, Msg(r, None, "text")) ELSE @]
  /\ UNCHANGED <<callVars, cur, tableVars, stack>>

-----------------------------------------------------------------------------
(* The Lisp thread. *)

ToolFrame(c, direct, at) == [k |-> "tool", id |-> c, direct |-> direct, at |-> at]
DoneFrame(r) == [k |-> "done", id |-> r, direct |-> FALSE, at |-> "lisp"]

InLisp == stack # <<>> => Last(stack).at = "lisp"
HasRoom == Len(stack) < MaxNest

\* cmacs_ai_tool__call_on_main up to the Lisp call; without a callback it
\* goes straight to its answer, which the mutant does not signal.
CallOnMainUnsignalled(c, direct) ==
  /\ stack' = Append(stack, ToolFrame(c, direct, IF executor THEN "lisp" ELSE "answered"))
  /\ UNCHANGED <<done, out>>

CallOnMain(c, direct) ==
  IF executor
  THEN /\ stack' = Append(stack, ToolFrame(c, direct, "lisp"))
       /\ UNCHANGED <<done, out>>
  ELSE /\ stack' = Append(stack, ToolFrame(c, direct, "answered"))
       /\ out' = [out EXCEPT ![c] = "error"]
       /\ done' = [done EXCEPT ![c] = TRUE]

BeginCall ==
  /\ InLisp /\ HasRoom
  /\ posted # <<>> /\ Head(posted) \in Call
  /\ Queue!Begin
  /\ CallOnMain(Head(posted), FALSE)
  /\ UNCHANGED <<mem, refs, caller, runVars, tableVars>>

\* The callback returned (a string, or something printed; nil, or an error
\* that safe_funcall caught); done is set and signalled under the lock.
ToolReturns(value) ==
  /\ stack # <<>> /\ Last(stack).k = "tool" /\ Last(stack).at = "lisp"
  /\ LET c == Last(stack).id
     IN  /\ out' = [out EXCEPT ![c] = IF value THEN "value" ELSE "error"]
         /\ done' = [done EXCEPT ![c] = TRUE]
         /\ stack' = Append(Front(stack), ToolFrame(c, Last(stack).direct, "answered"))
  /\ UNCHANGED <<queueVars, mem, refs, caller, runVars, tableVars>>

\* The source drops its reference.
EndCall ==
  /\ stack # <<>> /\ Last(stack).at = "answered" /\ ~Last(stack).direct
  /\ Unref(Last(stack).id, 1)
  /\ Queue!End(Last(stack).id)
  /\ stack' = Front(stack)
  /\ UNCHANGED <<done, out, caller, runVars, tableVars>>

\* cmacs-ai-tools-execute-into-session: on the Lisp thread the call is made
\* directly, and EndDirect drops both references.  The session was looked up
\* before the call, and its pointer is used after it.
ExecuteDirect(c) ==
  /\ InLisp /\ HasRoom /\ session /\ executor
  /\ CallNew(c, Lisp)
  /\ CallOnMain(c, TRUE)
  /\ UNCHANGED <<queueVars, runVars, tableVars>>

EndDirect ==
  /\ stack # <<>> /\ Last(stack).at = "answered" /\ Last(stack).direct
  /\ LET c == Last(stack).id
     IN  /\ Unref(c, 2)
         /\ messages' = IF session THEN Append(messages, Msg(Lisp, c, out[c]))
                                   ELSE messages
         /\ stray' = (stray \/ ~session)
  /\ stack' = Front(stack)
  /\ UNCHANGED <<queueVars, done, out, caller, runVars, cookies, executor,
                 session>>

\* What the session holds once the run's messages are folded into it.  The
\* mutant prepends them one by one.
FoldReversed(r) == Trim(messages \o Reverse(news[r]))

Fold(r) == Trim(messages \o news[r])

\* cmacs_ai_tools__main_done: fold, trim, and call the callback, once.
BeginDone ==
  /\ InLisp /\ HasRoom
  /\ posted # <<>> /\ Head(posted) \in Run
  /\ Queue!Begin
  /\ LET r == Head(posted)
     IN  /\ messages' = IF session /\ news[r] # <<>> THEN Fold(r) ELSE messages
         /\ cookies' = cookies \ {r}
         /\ stack' = Append(stack, DoneFrame(r))
  /\ UNCHANGED <<callVars, runVars, executor, session, stray>>

EndDone ==
  /\ stack # <<>> /\ Last(stack).k = "done"
  /\ Queue!End(Last(stack).id)
  /\ pc' = [pc EXCEPT ![Last(stack).id] = "reported"]
  /\ stack' = Front(stack)
  /\ UNCHANGED <<callVars, cur, news, tableVars>>

\* cmacs-ai-tools-run-async
RunAsync(r) ==
  /\ InLisp /\ session /\ executor
  /\ pc[r] = "idle"
  /\ pc' = [pc EXCEPT ![r] = "model"]
  /\ cookies' = cookies \cup {r}
  /\ UNCHANGED <<queueVars, callVars, cur, news, executor, session,
                 messages, stray, stack>>

\* cmacs-ai-session-free; the handle is never used again.
FreeSession ==
  /\ InLisp /\ session
  /\ session' = FALSE /\ messages' = <<>>
  /\ UNCHANGED <<queueVars, callVars, runVars, cookies, executor, stray, stack>>

\* cmacs-ai-tools-free and cmacs_ai_tools_drop: the callbacks go too; a run
\* in progress keeps its own reference to the executor.
FreeExecutor ==
  /\ InLisp /\ executor
  /\ executor' = FALSE
  /\ UNCHANGED <<queueVars, callVars, runVars, cookies, session, messages,
                 stray, stack>>

Next ==
  \/ \E r \in Run :
       \/ Block(r) \/ Collect(r) \/ TimeOut(r) \/ RunAsync(r)
       \/ \E ok \in BOOLEAN : Finish(r, ok)
       \/ \E c \in Call : AskTool(r, c)
  \/ BeginCall \/ EndCall \/ EndDirect \/ BeginDone \/ EndDone
  \/ \E value \in BOOLEAN : ToolReturns(value)
  \/ \E c \in Call : ExecuteDirect(c)
  \/ FreeSession \/ FreeExecutor

Spec == Init /\ [][Next]_vars

\* Each worker keeps running, and the Lisp thread comes back to its queue
\* and out of the Lisp it calls.  No timeout is assumed ever to fire.
Fairness ==
  /\ \A r \in Run : /\ WF_vars(Block(r)) /\ WF_vars(Collect(r))
                    /\ WF_vars(\E ok \in BOOLEAN : Finish(r, ok))
  /\ WF_vars(BeginCall \/ BeginDone)
  /\ WF_vars(\E value \in BOOLEAN : ToolReturns(value))
  /\ WF_vars(EndCall \/ EndDirect \/ EndDone)

FairSpec == Spec /\ Fairness

-----------------------------------------------------------------------------
(* Properties *)

Frames == [k : {"tool", "done"}, id : Run \cup Call, direct : BOOLEAN,
           at : {"lisp", "answered"}]

\* Type invariant of the calls, the runs, the tables and the Lisp stack.
TypeOK ==
  /\ fresh \in SUBSET (Run \cup Call) /\ running \in SUBSET (Run \cup Call)
  /\ posted \in Seq(Run \cup Call)
  /\ mem \in [Call -> {"none", "live", "freed"}]
  /\ refs \in [Call -> 0..2] /\ done \in [Call -> BOOLEAN]
  /\ out \in [Call -> {"none", "value", "error"}]
  /\ caller \in [Call -> Run \cup {Lisp, None}]
  /\ pc \in [Run -> {"idle", "model", "posted", "blocked", "over", "reported"}]
  /\ cur \in [Run -> Call \cup {None}]
  /\ cookies \in SUBSET Run
  /\ executor \in BOOLEAN /\ session \in BOOLEAN /\ stray \in BOOLEAN
  /\ stack \in Seq(Frames)

One(b) == IF b THEN 1 ELSE 0

WorkerHolds(c) == caller[c] \in Run /\ cur[caller[c]] = c
SourceHolds(c) == c \in Range(posted) \cup running
DirectHolds(c) == \E i \in DOMAIN stack : stack[i].id = c /\ stack[i].direct

\* The reference count of a call (cmacs_ai_tool_call_unref) is the number of
\* those that will still touch it: the waiting worker, and the source queued
\* or running on the Lisp thread.  So a call that timed out is not freed
\* under the Lisp thread, nor one that was answered under the worker, and
\* the last of the two frees it.
CallCounted ==
  \A c \in Call :
    /\ refs[c] = One(WorkerHolds(c)) + One(SourceHolds(c)) + 2 * One(DirectHolds(c))
    /\ mem[c] = "live" <=> refs[c] > 0

\* What a worker tells the model about a tool is that tool's own outcome,
\* for the call this run made last, or that it timed out.
AnswerIsOwn ==
  \A r \in Run : \A i \in DOMAIN news[r] :
    LET m == news[r][i]
    IN  m.kind \in {"value", "error", "timeout", "none"} =>
          /\ i > 1 /\ news[r][i - 1] = Msg(r, m.call, "use")
          /\ caller[m.call] = r
          /\ m.kind # "timeout" => done[m.call] /\ out[m.call] = m.kind

\* The positions of r's messages in the session.
Places(r) == {i \in DOMAIN messages : messages[i].run = r}
Folded(r) == pc[r] = "reported" \/ r \in running

\* cmacs_ai_tools__main_done: while the session lives, a run whose callback
\* has started is in the history once, whole and uninterrupted, however the
\* runs and the direct calls interleave, unless trimming cut its front; a
\* run that is not over yet is not in it.
HistoryWhole ==
  session =>
    \A r \in Run :
      IF Folded(r)
      THEN /\ \A i \in Places(r) :
                messages[i] = news[r][Len(news[r]) - Cardinality({j \in Places(r) : j > i})]
           /\ \A i, j \in Places(r) : \A k \in i..j : k \in Places(r)
           /\ Cardinality(Places(r)) < Len(news[r]) => Places(r) = {} \/ 1 \in Places(r)
      ELSE Places(r) = {}

\* A call the Lisp thread has accepted is always answered, a worker never
\* sleeps for good on the condition, and every run reports to its callback.
RunReports == \A r \in Run : pc[r] # "idle" ~> pc[r] = "reported" /\ r \notin cookies

TimedOut(r, c) == \E i \in DOMAIN news[r] : news[r][i] = Msg(r, c, "timeout")

\* What became of a call, as ToolPromise tells it.
Phase(c) ==
  CASE caller[c] = None -> "none"
    [] caller[c] = Lisp -> IF mem[c] = "live" THEN "asked" ELSE "answered"
    [] OTHER -> IF WorkerHolds(c) THEN "asked"
                ELSE IF TimedOut(caller[c], c) THEN "given_up" ELSE "answered"

Promise == INSTANCE ToolPromise
             WITH phase <- [c \in Call |-> Phase(c)],
                  served <- {c \in Call : done[c]}

\* The struct, the queue, the condition and the deadline together implement
\* ToolPromise: each tool is served at most once and answered at most once,
\* by its own outcome or by giving up.
PromiseKept == Promise!PromiseSpec

\* The comment in CmacsAiToolsJob says why a session is named by its handle:
\* it may be freed meanwhile, and a stale pointer would be dereferenced.  No
\* message is ever appended to a session that was freed.
AppendsToLive == ~stray

=============================================================================
