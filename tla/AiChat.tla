------------------------------- MODULE AiChat -------------------------------
(***************************************************************************)
(* One chat buffer with its session (lisp/cmacs/cmacs-ai-chat.el,          *)
(* cmacs/ai/cmacs-ai-stream.c, and the tool jobs of cmacs-ai-tools.c).     *)
(* The user sends a message; the reply streams in; the tools it asks for   *)
(* run one after another, on a worker thread or in Lisp; their results are *)
(* appended to the session and the model is asked to go on.  The user may  *)
(* cancel or kill the buffer between any two events, also from inside a    *)
(* tool that waits.                                                        *)
(***************************************************************************)
EXTENDS Naturals, Sequences, SequencesExt, FiniteSets

CONSTANTS
  Tool,       \* tool_use ids the model may emit
  Builtin,    \* those of tools that run off the command loop
  Stream,     \* requests, reused once they are over
  None,
  MaxUses,    \* bound: tools one reply asks for
  MaxTurns,   \* cmacs-ai-chat-tool-loop-max-turns
  MaxSends    \* bound: messages the user sends

ASSUME ChatAssumption ==
  /\ Builtin \subseteq Tool /\ None \notin Tool \cup Stream
  /\ MaxTurns \in Nat /\ MaxSends \in Nat

VARIABLES
  live,       \* the buffer, and with it the session, exists
  executor,   \* cmacs-ai-chat-tool-executor is non-nil
  messages,   \* the session's history
  flight,     \* requests: "unused", "open", "signalled" (stream-end) or "over"
  ctx,        \* requests whose CmacsAiStream is allocated
  said,       \* tool uses a request has signalled before its end
  token,      \* request whose cancellable the session holds
  cancelled,  \* requests whose cancellable was cancelled
  late,       \* a payload went to a CmacsAiStream that was freed
  pending,    \* cmacs-ai-chat--pending-tool-uses, oldest first
  depth,      \* cmacs-ai-chat--tool-loop-depth
  tooljob,    \* cmacs-ai-chat--tool-job
  stop,       \* cmacs-ai-chat--tools-cancelled
  turn,       \* cmacs-ai-chat--turn-open
  marker,     \* cmacs-ai-chat--assistant-marker is set
  job,        \* tool jobs: "none", "running", "posted" or "done"
  rest,       \* calls still to run after each job
  sync,       \* the call running on the Lisp thread, with its rest, if any
  sends,      \* messages sent so far
  abandoned,  \* calls the chat gave up on
  stopped     \* the user cancelled something since the last message

requestVars == <<flight, ctx, said>>
cancelVars == <<token, cancelled, late>>
bufferVars == <<pending, depth, tooljob, stop, turn, marker>>
toolVars == <<job, rest, sync>>
ghostVars == <<sends, abandoned, stopped>>
vars == <<live, executor, messages, requestVars, cancelVars, bufferVars,
          toolVars, ghostVars>>

User == [kind |-> "user", ids |-> <<>>]
Asst(uses) == [kind |-> "asst", ids |-> uses]
Result(id) == [kind |-> "result", ids |-> <<id>>]

NoCall == [id |-> None, rest |-> <<>>]

Init ==
  /\ live = TRUE /\ executor \in BOOLEAN /\ messages = <<>>
  /\ flight = [s \in Stream |-> "unused"] /\ ctx = {}
  /\ said = [s \in Stream |-> <<>>]
  /\ token = None /\ cancelled = {} /\ late = FALSE
  /\ pending = <<>> /\ depth = 0 /\ tooljob = None /\ stop = FALSE
  /\ turn = FALSE /\ marker = FALSE
  /\ job = [i \in Tool |-> "none"] /\ rest = [i \in Tool |-> <<>>]
  /\ sync = NoCall
  /\ sends = 0 /\ abandoned = {} /\ stopped = FALSE

\* The requests as the others see them.
Free(s) == flight[s] \in {"unused", "over"}
Used == UNION {ToSet(said[s]) : s \in Stream}
        \cup UNION {ToSet(messages[i].ids) : i \in DOMAIN messages}
        \cup {i \in Tool : job[i] # "none"} \cup abandoned

-----------------------------------------------------------------------------
(* Pieces of the handlers. *)

\* cmacs_ai__start_stream on a session that holds msgs.
StartStream(s, msgs) ==
  /\ Free(s)
  /\ messages' = msgs
  /\ flight' = [flight EXCEPT ![s] = "open"]
  /\ ctx' = ctx \cup {s}
  /\ said' = [said EXCEPT ![s] = <<>>]
  /\ token' = s
  /\ cancelled' = cancelled \ {s}

\* cmacs-ai-chat--close-turn
CloseTurn == turn' = FALSE /\ marker' = FALSE

\* The calls left when the user cancelled are answered without running; the
\* mutant drops them.
SkippedNone(list) == <<>>

Skipped(list) == [i \in DOMAIN list |-> Result(list[i])]

\* The first call of list: a job, or right here on the Lisp thread.
StartTool(list, jobs) ==
  IF Head(list) \in Builtin
  THEN /\ tooljob' = Head(list)
       /\ job' = [jobs EXCEPT ![Head(list)] = "running"]
       /\ rest' = [rest EXCEPT ![Head(list)] = Tail(list)]
       /\ sync' = NoCall
  ELSE /\ sync' = [id |-> Head(list), rest |-> Tail(list)]
       /\ tooljob' = None
       /\ job' = jobs
       /\ UNCHANGED rest

\* cmacs-ai-chat--run-tools after a call, on the calls of list that are left,
\* with the session at msgs and the jobs at jobs.  The mutant asks the model
\* to go on after every call.
RunToolsRestreaming(list, msgs, jobs) ==
  /\ live
  /\ \E s \in Stream : StartStream(s, msgs)
  /\ IF list # <<>> THEN StartTool(list, jobs)
     ELSE sync' = NoCall /\ tooljob' = None /\ job' = jobs /\ UNCHANGED rest
  /\ UNCHANGED <<depth, stop, turn, marker>>

RunTools(list, msgs, jobs) ==
  \/ /\ live /\ stop
     /\ messages' = msgs \o Skipped(list)
     /\ depth' = 0 /\ stop' = FALSE
     /\ CloseTurn
     /\ sync' = NoCall /\ tooljob' = None /\ job' = jobs
     /\ UNCHANGED <<requestVars, token, cancelled, rest>>
  \/ /\ live /\ ~stop /\ list = <<>>
     /\ \E s \in Stream : StartStream(s, msgs)
     /\ sync' = NoCall /\ tooljob' = None /\ job' = jobs
     /\ UNCHANGED <<depth, stop, turn, marker, rest>>
  \/ /\ live /\ ~stop /\ list # <<>>
     /\ messages' = msgs
     /\ StartTool(list, jobs)
     /\ UNCHANGED <<requestVars, token, cancelled, depth, stop, turn, marker>>

\* cmacs-ai-chat--drive-tool-loop.
DriveToolLoop(list) ==
  /\ pending' = <<>>
  /\ marker' = FALSE
  /\ IF ~executor \/ depth >= MaxTurns
     THEN /\ depth' = IF executor THEN 0 ELSE depth
          /\ abandoned' = abandoned \cup ToSet(list)
          /\ UNCHANGED <<stop, turn, tooljob, toolVars>>
     ELSE /\ depth' = depth + 1
          /\ stop' = FALSE
          /\ StartTool(list, job)
          /\ UNCHANGED <<turn, abandoned>>

\* :tool-use is queued once, though a request may signal it and repeat it at
\* its end.
Queued(list, uses) == list \o SelectSeq(uses, LAMBDA i : i \notin ToSet(list))

-----------------------------------------------------------------------------
(* Events of a request, on the Lisp thread. *)

\* A request that was cancelled only fails; killing the buffer cancels it.
Speaks(s) == live /\ flight[s] = "open" /\ s \notin cancelled

\* on_stream_delta: the first text opens the turn.
Delta(s) ==
  /\ Speaks(s)
  /\ turn' = TRUE /\ marker' = TRUE
  /\ UNCHANGED <<live, executor, messages, requestVars, cancelVars, pending,
                 depth, tooljob, stop, toolVars, ghostVars>>

\* on_stream_tool_use
ToolUse(s, i) ==
  /\ Speaks(s) /\ i \notin Used
  /\ said' = [said EXCEPT ![s] = Append(@, i)]
  /\ pending' = Queued(pending, <<i>>)
  /\ UNCHANGED <<live, executor, messages, flight, ctx, cancelVars, depth,
                 tooljob, stop, turn, marker, toolVars, ghostVars>>

\* What the session holds as its cancellable once a request has ended.
TokenCleared == None

\* on_stream_end: cmacs_ai_stream__complete appends the reply with its tool
\* uses, drops the cancellable, delivers the uses again and then :end, and
\* frees the context.
End(s, uses, reason) ==
  /\ Speaks(s)
  /\ IsPrefix(said[s], uses)
  /\ \A i \in ToSet(uses) \ ToSet(said[s]) : i \notin Used
  /\ flight' = [flight EXCEPT ![s] = "signalled"]
  /\ ctx' = ctx \ {s}
  /\ messages' = Append(messages, Asst(uses))
  /\ token' = TokenCleared
  /\ LET queue == Queued(pending, uses)
     IN  IF reason = "tool-use" /\ queue # <<>>
         THEN DriveToolLoop(queue)
         ELSE /\ CloseTurn
              /\ depth' = 0
              /\ pending' = queue
              /\ abandoned' = abandoned \cup ToSet(queue)
              /\ UNCHANGED <<tooljob, stop, toolVars>>
  /\ UNCHANGED <<live, executor, said, cancelled, late, sends, stopped>>

\* on_stream_finished after stream-end.  The task reports a cancellable that
\* was cancelled meanwhile, and :error would go to the freed context.
Finish(s) ==
  /\ flight[s] = "signalled"
  /\ flight' = [flight EXCEPT ![s] = "over"]
  /\ late' = (late \/ s \in cancelled)
  /\ UNCHANGED <<live, executor, messages, ctx, said, token, cancelled,
                 bufferVars, toolVars, ghostVars>>

\* on_stream_finished without stream-end: the request failed or was cancelled.
Fail(s) ==
  /\ flight[s] = "open"
  /\ flight' = [flight EXCEPT ![s] = "over"]
  /\ ctx' = ctx \ {s}
  /\ IF live THEN CloseTurn /\ depth' = 0 /\ pending' = <<>>
             ELSE UNCHANGED <<turn, marker, depth, pending>>
  /\ UNCHANGED <<live, executor, messages, said, cancelVars, tooljob, stop,
                 toolVars, ghostVars>>

-----------------------------------------------------------------------------
(* Tools. *)

\* cmacs_ai_tool_job__worker hands its job back; the mutant does not when it
\* was cancelled.
JobEndsUnlessCancelled(i) ==
  /\ job[i] = "running" /\ ~stop
  /\ job' = [job EXCEPT ![i] = "posted"]
  /\ UNCHANGED <<live, executor, messages, requestVars, cancelVars, bufferVars,
                 rest, sync, ghostVars>>

JobEnds(i) ==
  /\ job[i] = "running"
  /\ job' = [job EXCEPT ![i] = "posted"]
  /\ UNCHANGED <<live, executor, messages, requestVars, cancelVars, bufferVars,
                 rest, sync, ghostVars>>

\* A call that returned when its buffer is gone.
Dropped(jobs) ==
  /\ ~live
  /\ sync' = NoCall /\ job' = jobs
  /\ UNCHANGED <<messages, requestVars, token, cancelled, depth, tooljob, stop,
                 turn, marker, rest>>

\* cmacs_ai_tool_job__main_done and cmacs-ai-chat--tool-finished
JobDone(i) ==
  /\ job[i] = "posted"
  /\ LET jobs == [job EXCEPT ![i] = "done"]
     IN  Dropped(jobs) \/ RunTools(rest[i], Append(messages, Result(i)), jobs)
  /\ UNCHANGED <<live, executor, late, pending, ghostVars>>

\* A call on the Lisp thread returned: the rest of
\* cmacs-ai-tools-execute-into-session, and the next call.
SyncDone ==
  /\ sync # NoCall
  /\ Dropped(job) \/ RunTools(sync.rest, Append(messages, Result(sync.id)), job)
  /\ UNCHANGED <<live, executor, late, pending, ghostVars>>

-----------------------------------------------------------------------------
(* The user. *)

\* cmacs-ai-chat-send-compose
Send(s) ==
  /\ live /\ sends < MaxSends
  /\ StartStream(s, Append(messages, User))
  /\ pending' = <<>> /\ depth' = 0
  /\ sends' = sends + 1 /\ stopped' = FALSE
  /\ UNCHANGED <<live, executor, late, tooljob, stop, turn, marker, toolVars,
                 abandoned>>

\* Whether the calls still queued are dropped by a cancel; the mutant stops
\* only the running one.
StopKept == stop

StopQueue == stop \/ tooljob # None

\* cmacs-ai-chat-cancel-stream
Cancel ==
  /\ live
  /\ cancelled' = cancelled \cup ({token} \ {None})
  /\ token' = None
  /\ stop' = StopQueue
  /\ marker' = FALSE
  /\ stopped' = (stopped \/ tooljob # None \/ (token # None /\ flight[token] = "open"))
  /\ UNCHANGED <<live, executor, messages, requestVars, late, pending, depth,
                 tooljob, turn, toolVars, sends, abandoned>>

\* cmacs-ai-chat-clear-history
ClearHistory ==
  /\ live /\ messages # <<>>
  /\ messages' = <<>>
  /\ UNCHANGED <<live, executor, requestVars, cancelVars, bufferVars, toolVars,
                 ghostVars>>

\* cmacs-ai-chat--on-buffer-killed
KillBuffer ==
  /\ live
  /\ live' = FALSE /\ executor' = FALSE /\ tooljob' = None
  /\ cancelled' = cancelled \cup ({token} \ {None})
  /\ token' = None
  /\ messages' = <<>>
  /\ UNCHANGED <<requestVars, late, pending, depth, stop, turn, marker,
                 toolVars, ghostVars>>

Idle ==
  /\ \A s \in Stream : flight[s] # "open"
  /\ \A i \in Tool : job[i] \notin {"running", "posted"}
  /\ sync = NoCall

Replies == {u \in UNION {[1..n -> Tool] : n \in 0..MaxUses} : IsInjective(u)}

EndsSomehow(s) ==
  \E uses \in Replies, reason \in {"tool-use", "other"} : End(s, uses, reason)

\* The user of Next is patient: they send, or clear the history, only when
\* nothing is in flight.
Next ==
  \/ \E s \in Stream :
       \/ Delta(s) \/ EndsSomehow(s) \/ Finish(s) \/ Fail(s)
       \/ \E i \in Tool : ToolUse(s, i)
       \/ Idle /\ Send(s)
  \/ \E i \in Tool : JobEnds(i) \/ JobDone(i)
  \/ SyncDone \/ Cancel \/ KillBuffer
  \/ Idle /\ ClearHistory

Spec == Init /\ [][Next]_vars

\* A provider ends or fails every request, a worker its job, and a tool on the
\* Lisp thread returns.
Fairness ==
  /\ \A s \in Stream : WF_vars(Fail(s) \/ EndsSomehow(s)) /\ WF_vars(Finish(s))
  /\ \A i \in Tool : WF_vars(JobEnds(i)) /\ WF_vars(JobDone(i))
  /\ WF_vars(SyncDone)

FairSpec == Spec /\ Fairness

\* cmacs-brigade-loopback--chat-ready-p, and mail that the loopback delivers
\* into a chat it finds ready.
ChatReady == live /\ ~turn /\ ~marker /\ pending = <<>>

ChatDeliver(s) == ChatReady /\ Send(s)

DeliverySpec == Init /\ [][Next \/ \E s \in Stream : ChatDeliver(s)]_vars

-----------------------------------------------------------------------------
(* Properties *)

\* Type invariant of the chat.
TypeOK ==
  /\ flight \in [Stream -> {"unused", "open", "signalled", "over"}]
  /\ ctx = {s \in Stream : flight[s] = "open"}
  /\ token \in Stream \cup {None} /\ cancelled \subseteq Stream
  /\ ToSet(pending) \subseteq Tool /\ depth \in 0..MaxTurns
  /\ job \in [Tool -> {"none", "running", "posted", "done"}]
  /\ tooljob \in Builtin \cup {None}

InFlight ==
  Cardinality({s \in Stream : flight[s] = "open"})
  + Cardinality({i \in Tool : job[i] \in {"running", "posted"}})
  + (IF sync = NoCall THEN 0 ELSE 1)

\* A chat does one thing at a time: it streams one reply, or runs one tool.
\* Every stream of a client emits on the same provider object, so a second
\* one would be told the first one's text and end.
OneAtATime == InFlight <= 1

\* The user's calls and answers, as a provider reads them.
Calls == {<<m, k>> \in (DOMAIN messages) \X (1..MaxUses) :
            messages[m].kind = "asst" /\ k \in DOMAIN messages[m].ids}
Answers(i) == {m \in DOMAIN messages : messages[m] = Result(i)}

\* Every tool call of the history has exactly one answer, after it, except
\* those of a loop that was given up, and every answer has its call.
Answered ==
  /\ \A c \in Calls :
       LET i == messages[c[1]].ids[c[2]]
       IN  /\ Cardinality(Answers(i)) = 1 \/ i \in abandoned
           /\ \A m \in Answers(i) : c[1] < m
  /\ \A i \in Tool : Answers(i) # {} =>
       \E c \in Calls : messages[c[1]].ids[c[2]] = i

\* A request is sent only on an answered history, whatever the order in which
\* tools end, the user cancels and the turn goes on: a provider rejects
\* anything else.
RequestsAnswered ==
  [][\A s \in Stream : flight[s] # "open" /\ flight'[s] = "open" => Answered']_vars

\* Once a context is freed nothing is delivered through it: an end and a
\* cancellation do not both report.
NothingLate == ~late

\* After the user has cancelled a request or a tool job, no request and no
\* tool is started until they send again.
CancelStops ==
  [][stopped /\ stopped' =>
       /\ \A s \in Stream : flight'[s] = "open" => flight[s] = "open"
       /\ \A i \in Tool : job'[i] = "running" => job[i] = "running"
       /\ sync' \in {sync, NoCall}]_vars

\* A turn comes to an end, and leaves nothing running.
TurnEnds == ~Idle ~> Idle
=============================================================================
