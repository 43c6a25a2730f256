------------------------------ MODULE GlibLoop ------------------------------
(***************************************************************************)
(* The GMainContext that CMacs pumps from Emacs's own pselect              *)
(* (cmacs/glib/cmacs-glib-loop.c and its call site in src/process.c).      *)
(* wait_reading_process_output calls cmacs_glib_prepare, sleeps in         *)
(* xg_select without the global Lisp lock, and calls cmacs_glib_dispatch.  *)
(* Callbacks run Lisp, which may wait again, so every Lisp thread has a    *)
(* stack of frames.                                                        *)
(***************************************************************************)
EXTENDS Naturals, Sequences, SequencesExt, FiniteSets

CONSTANTS
  LispThread, Main,   \* Lisp threads; Main runs the command loop
  Posted,             \* idle sources of cmacs_glib_invoke_on_main
  Timer,              \* sources of cmacs-glib-timeout-add
  Fd,                 \* sources that watch a descriptor (D-Bus, sockets)
  None,
  MaxDepth            \* bound: frames nested on one Lisp thread

ASSUME LoopAssumption == Main \in LispThread /\ None \notin LispThread

VARIABLES
  acquired,     \* cmacs_context_acquired
  dispatching,  \* cmacs_context_dispatching
  owner, depth, \* thread that owns the GMainContext, and how often
  srcs,         \* sources attached to the context, oldest first
  pend,         \* context->pending_dispatches not yet called
  walking,      \* a g_main_context_dispatch is walking pend
  wake,         \* the context's wakeup descriptor is signalled
  hot,          \* timers that expired, descriptors that are ready
  cells,        \* timers with a cell on cmacs_glib_live_callbacks
  fresh,        \* posted sources not created yet
  lock,         \* holder of the global Lisp lock
  frames,       \* what each Lisp thread is nested in, innermost last
  waiting       \* waiting_for_input of each Lisp thread

ctxVars == <<owner, depth, pend, walking>>
srcVars == <<srcs, wake, hot, cells, fresh>>
thrVars == <<lock, frames, waiting>>
vars == <<acquired, dispatching, ctxVars, srcVars, thrVars>>

SelectFrame(poll, due) == [k |-> "select", poll |-> poll, due |-> due]
DispatchFrame == [k |-> "dispatch"]
IterFrame == [k |-> "iter"]
LispFrame(w) == [k |-> "lisp", was |-> w]
CbFrame(s) == [k |-> "cb", src |-> s]

Attached == ToSet(srcs)
Running ==
  {s \in Posted \cup Timer \cup Fd :
    \E t \in LispThread : \E i \in DOMAIN frames[t] : frames[t][i] = CbFrame(s)}

Top(t) == IF frames[t] = <<>> THEN "lisp" ELSE Last(frames[t]).k
RunsLisp(t) == lock = t /\ Top(t) \in {"lisp", "cb"}
Push(t, f) == frames' = [frames EXCEPT ![t] = Append(@, f)]
Pop(t) == frames' = [frames EXCEPT ![t] = Front(@)]
HasRoom(t) == Len(frames[t]) < MaxDepth

Init ==
  /\ acquired = FALSE /\ dispatching = FALSE
  /\ owner = None /\ depth = 0
  /\ srcs = SetToSeq(Fd)
  /\ pend = <<>> /\ walking = FALSE /\ wake = FALSE
  /\ hot = {} /\ cells = {} /\ fresh = Posted
  /\ lock = Main
  /\ frames = [t \in LispThread |-> <<>>]
  /\ waiting = [t \in LispThread |-> FALSE]

-----------------------------------------------------------------------------
(* GLib's side of the context. *)

CanAcquire(t) == depth = 0 \/ owner = t

Acquire(t) == owner' = t /\ depth' = depth + 1

Release ==
  /\ depth' = depth - 1
  /\ owner' = IF depth = 1 THEN None ELSE owner

\* g_main_context_check: the ready sources of the best priority, in order of
\* attachment; a source whose callback is running is not ready.
Collected(revents) ==
  LET Ready(s) == s \notin Running
                  /\ (s \in Posted \/ s \in hot \cap Timer \/ s \in revents)
      ready == SelectSeq(srcs, Ready)
      urgent == SelectSeq(ready, LAMBDA s : s \notin Posted)
  IN  IF urgent # <<>> THEN urgent ELSE ready

-----------------------------------------------------------------------------
(* wait_reading_process_output around xg_select. *)

\* Whether the timeout that g_main_context_query returned ends the wait at
\* once or later; the mutant drops it.
NeverDue == FALSE

Due == Attached \ Fd # {}

\* cmacs_glib_prepare, then xg_select gives up the global lock.
Wait(t) ==
  /\ RunsLisp(t) /\ HasRoom(t)
  /\ lock' = None
  /\ waiting' = [waiting EXCEPT ![t] = (t = Main /\ frames[t] = <<>>)]
  /\ IF acquired \/ ~CanAcquire(t)
     THEN Push(t, SelectFrame(FALSE, FALSE)) /\ UNCHANGED <<acquired, ctxVars>>
     ELSE /\ acquired' = TRUE
          /\ Acquire(t)
          /\ pend' = <<>> /\ walking' = FALSE
          /\ Push(t, SelectFrame(TRUE, Due))
  /\ UNCHANGED <<dispatching, srcVars>>

\* The descriptors whose revents dispatch sets from pselect's sets, which mean
\* something only when pselect said so.
Heard(t, r) == r = "ready" /\ Last(frames[t]).poll

Revents(t, r) == IF Heard(t, r) THEN hot \cap Fd ELSE {}

\* cmacs_glib_dispatch when nothing is prepared or an outer dispatch has it.
DispatchSkipped(t) ==
  /\ ~acquired \/ dispatching
  /\ Pop(t)
  /\ UNCHANGED <<acquired, dispatching, ctxVars, wake>>

\* ... after a pselect that failed.  The mutant forgets the release.
DispatchAbortedHeld(t) ==
  /\ acquired /\ ~dispatching
  /\ acquired' = FALSE
  /\ Pop(t)
  /\ UNCHANGED <<dispatching, ctxVars, wake>>

DispatchAborted(t) ==
  /\ acquired /\ ~dispatching
  /\ Release
  /\ acquired' = FALSE
  /\ Pop(t)
  /\ UNCHANGED <<dispatching, pend, walking, wake>>

\* ... up to its g_main_context_dispatch.  The mutant has no flag to stop an
\* inner dispatch.
DispatchStartedUnmarked(t, r) ==
  /\ acquired /\ ~dispatching
  /\ pend' = Collected(Revents(t, r))
  /\ walking' = TRUE
  /\ wake' = (wake /\ ~Heard(t, r))
  /\ frames' = [frames EXCEPT ![t] = Append(Front(@), DispatchFrame)]
  /\ UNCHANGED <<acquired, dispatching, owner, depth>>

DispatchStarted(t, r) ==
  /\ acquired /\ ~dispatching
  /\ dispatching' = TRUE
  /\ pend' = Collected(Revents(t, r))
  /\ walking' = TRUE
  /\ wake' = (wake /\ ~Heard(t, r))
  /\ frames' = [frames EXCEPT ![t] = Append(Front(@), DispatchFrame)]
  /\ UNCHANGED <<acquired, owner, depth>>

\* clear_waiting_for_input before callbacks run.
NoLongerWaiting(t) == waiting' = [waiting EXCEPT ![t] = FALSE]

\* pselect returned r and the thread has the lock again.
SelectReturn(t, r) ==
  /\ lock = None /\ Top(t) = "select"
  /\ lock' = t
  /\ NoLongerWaiting(t)
  /\ \/ DispatchSkipped(t)
     \/ r = "fail" /\ DispatchAborted(t)
     \/ r # "fail" /\ DispatchStarted(t, r)
  /\ UNCHANGED <<srcs, hot, cells, fresh>>

\* xg_select runs a handler of the default context, which runs Lisp.
HandlerBegin(t) ==
  /\ lock = None /\ Top(t) = "select" /\ HasRoom(t)
  /\ lock' = t
  /\ Push(t, LispFrame(waiting[t]))
  /\ waiting' = [waiting EXCEPT ![t] = FALSE]
  /\ UNCHANGED <<acquired, dispatching, ctxVars, srcVars>>

HandlerEnd(t) ==
  /\ lock = t /\ frames[t] # <<>> /\ Top(t) = "lisp"
  /\ lock' = None
  /\ waiting' = [waiting EXCEPT ![t] = Last(frames[t]).was]
  /\ LET below == Front(frames[t])
     IN  frames' = [frames EXCEPT ![t] =
                      [below EXCEPT ![Len(below)].due = TRUE]]
  /\ UNCHANGED <<acquired, dispatching, ctxVars, srcVars>>

-----------------------------------------------------------------------------
(* g_main_context_dispatch, from cmacs_glib_dispatch or an iteration. *)

DispatchNext(t) ==
  /\ lock = t /\ Top(t) \in {"dispatch", "iter"} /\ pend # <<>>
  /\ pend' = Tail(pend)
  /\ IF Head(pend) \in Attached THEN Push(t, CbFrame(Head(pend)))
                                ELSE UNCHANGED frames
  /\ UNCHANGED <<acquired, dispatching, owner, depth, walking, srcVars,
                 lock, waiting>>

\* Release and clear the flags; set_waiting_for_input, which
\* wait_reading_process_output then clears again.
DispatchEnd(t) ==
  /\ lock = t /\ Top(t) \in {"dispatch", "iter"} /\ pend = <<>>
  /\ walking' = FALSE
  /\ Release
  /\ IF Top(t) = "dispatch"
     THEN acquired' = FALSE /\ dispatching' = FALSE
     ELSE UNCHANGED <<acquired, dispatching>>
  /\ Pop(t)
  /\ UNCHANGED <<pend, srcVars, lock, waiting>>

\* Whether a source stays attached when its callback returned keep: posted
\* work returns G_SOURCE_REMOVE, whatever its Lisp returned.
StaysIfAsked(s, keep) == s \in Attached /\ (keep \/ s \in Fd)

Stays(s, keep) == s \in Attached /\ s \notin Posted /\ (keep \/ s \in Fd)

\* The callback of a source returned; keep is what it returned.
CbReturn(t, keep) ==
  /\ lock = t /\ Top(t) = "cb"
  /\ LET s == Last(frames[t]).src
     IN  /\ srcs' = IF Stays(s, keep) THEN srcs ELSE SelectSeq(srcs, LAMBDA x : x # s)
         /\ cells' = IF Stays(s, keep) THEN cells ELSE cells \ {s}
         /\ hot' = hot \ ({s} \cap Timer)
  /\ Pop(t)
  /\ UNCHANGED <<acquired, dispatching, ctxVars, wake, fresh, lock, waiting>>

\* cmacs-glib-iteration
Iterate(t) ==
  /\ RunsLisp(t) /\ HasRoom(t) /\ CanAcquire(t)
  /\ Acquire(t)
  /\ pend' = Collected(hot \cap Fd)
  /\ walking' = TRUE
  /\ Push(t, IterFrame)
  /\ UNCHANGED <<acquired, dispatching, srcVars, lock, waiting>>

-----------------------------------------------------------------------------
(* Sources. *)

\* Attaching wakes the context's owner when that is another thread.
Woken(t) == wake \/ (depth > 0 /\ owner # t)

\* cmacs_glib_invoke_on_main from a thread Emacs did not start.
InvokeOnMain(s) ==
  /\ s \in fresh
  /\ fresh' = fresh \ {s}
  /\ srcs' = Append(srcs, s)
  /\ wake' = Woken(None)
  /\ UNCHANGED <<acquired, dispatching, ctxVars, hot, cells, thrVars>>

TimeoutAdd(t, s) ==
  /\ RunsLisp(t)
  /\ s \in Timer \ (Attached \cup Running)
  /\ cells' = cells \cup {s}
  /\ srcs' = Append(srcs, s)
  /\ wake' = Woken(t)
  /\ UNCHANGED <<acquired, dispatching, ctxVars, hot, fresh, thrVars>>

\* g_source_destroy; the callback's data outlives a call in progress.  The
\* mutant drops the root at once.
SourceRemoveUnrooting(t, s) ==
  /\ RunsLisp(t)
  /\ s \in Timer \cap Attached
  /\ srcs' = SelectSeq(srcs, LAMBDA x : x # s)
  /\ hot' = hot \ {s}
  /\ cells' = cells \ {s}
  /\ UNCHANGED <<acquired, dispatching, ctxVars, wake, fresh, thrVars>>

SourceRemove(t, s) ==
  /\ RunsLisp(t)
  /\ s \in Timer \cap Attached
  /\ srcs' = SelectSeq(srcs, LAMBDA x : x # s)
  /\ hot' = hot \ {s}
  /\ cells' = IF s \in Running THEN cells ELSE cells \ {s}
  /\ UNCHANGED <<acquired, dispatching, ctxVars, wake, fresh, thrVars>>

\* A timer expires, a descriptor becomes ready or is drained.
Environment(s) ==
  /\ s \in Attached \ Posted
  /\ hot' = IF s \in hot /\ s \in Fd THEN hot \ {s} ELSE hot \cup {s}
  /\ UNCHANGED <<acquired, dispatching, ctxVars, srcs, wake, cells, fresh,
                 thrVars>>

-----------------------------------------------------------------------------
(* Lisp threads. *)

\* thread-yield, or a thread that can run takes the free lock.
Yield(t) ==
  /\ RunsLisp(t) /\ lock' = None
  /\ UNCHANGED <<acquired, dispatching, ctxVars, srcVars, frames, waiting>>

Resume(t) ==
  /\ lock = None /\ Top(t) # "select" /\ lock' = t
  /\ UNCHANGED <<acquired, dispatching, ctxVars, srcVars, frames, waiting>>

\* A throw is not a signal: safe_funcall does not stop it.
Throw(t) ==
  /\ RunsLisp(t)
  /\ \E n \in 0 .. Len(frames[t]) - 1 :
       /\ n # 0 => frames[t][n].k \in {"lisp", "cb"}
       /\ frames' = [frames EXCEPT ![t] = SubSeq(@, 1, n)]
  /\ UNCHANGED <<acquired, dispatching, ctxVars, srcVars, lock, waiting>>

Results == {"fail", "timeout", "ready"}

\* doc_org/cmacs/build.org: cmacs-glib-iteration is for "Lisp code that knows
\* Emacs is not in input-wait state".
OutsideWait(t) == \A i \in DOMAIN frames[t] : frames[t][i].k # "select"

\* What Lisp code on thread t may do, and what happens around it.
LispStep(t) ==
  \/ Wait(t) \/ (OutsideWait(t) /\ Iterate(t)) \/ Yield(t)
  \/ \E s \in Timer : TimeoutAdd(t, s) \/ SourceRemove(t, s)

LoopStep(t) ==
  \/ HandlerBegin(t) \/ HandlerEnd(t)
  \/ DispatchNext(t) \/ DispatchEnd(t) \/ Resume(t)
  \/ \E r \in Results : SelectReturn(t, r)
  \/ \E keep \in BOOLEAN : CbReturn(t, keep)
  \/ \E s \in Timer \cup Fd : Environment(s)

Next ==
  \/ \E t \in LispThread : LispStep(t) \/ LoopStep(t)
  \/ \E s \in Posted : InvokeOnMain(s)

Spec == Init /\ [][Next]_vars

\* The same with Lisp that throws past the GLib frames above it.
ThrowSpec == Init /\ [][Next \/ \E t \in LispThread : Throw(t)]_vars

\* What the liveness property assumes of the environment.  A wait of the
\* command loop ends when the context has something to do; any other wait
\* ends by itself; Lisp that GLib called returns; the command loop waits
\* again; EINTR does not fail every pselect that a dispatch could follow; and
\* urgent sources, which GLib serves before idle ones, fall quiet in the end.
Roused(t) ==
  LET f == Last(frames[t])
  IN  f.due \/ (f.poll /\ (wake \/ hot # {})) \/ t # Main \/ Len(frames[t]) > 1

WaitEnds(t) ==
  Top(t) = "select" /\ Roused(t) /\ \E r \in Results : SelectReturn(t, r)
DispatchBegins(t) ==
  /\ acquired /\ ~dispatching /\ Top(t) = "select" /\ Roused(t)
  /\ \E r \in Results \ {"fail"} : SelectReturn(t, r)
Returns(t, n) ==
  /\ Len(frames[t]) = n
  /\ HandlerEnd(t) \/ \E keep \in BOOLEAN : CbReturn(t, keep)

Fairness ==
  /\ <>[](hot = {})
  /\ \A t \in LispThread :
    /\ SF_vars(WaitEnds(t)) /\ SF_vars(DispatchBegins(t))
    /\ WF_vars(DispatchNext(t)) /\ WF_vars(DispatchEnd(t))
    /\ WF_vars(Resume(t))
    /\ \A n \in 1 .. MaxDepth + 1 : SF_vars(Returns(t, n))
    /\ t = Main => SF_vars(frames[t] = <<>> /\ Wait(t))

FairSpec == Spec /\ Fairness

-----------------------------------------------------------------------------
(* Properties. *)

FrameCount(kind) ==
  LET At(t) == {i \in DOMAIN frames[t] : frames[t][i].k = kind}
  IN  Cardinality({<<t, i>> \in LispThread \X (1 .. MaxDepth) : i \in At(t)})

\* Type invariant of the flags, the context, the sources and the threads.
TypeOK ==
  /\ acquired \in BOOLEAN /\ dispatching \in BOOLEAN /\ walking \in BOOLEAN
  /\ wake \in BOOLEAN
  /\ owner \in LispThread \cup {None} /\ depth \in 0 .. MaxDepth + 1
  /\ (depth = 0) <=> (owner = None)
  /\ IsInjective(srcs) /\ Attached \subseteq Posted \cup Timer \cup Fd
  /\ ToSet(pend) \subseteq Posted \cup Timer \cup Fd
  /\ hot \subseteq Timer \cup Fd /\ cells \subseteq Timer /\ fresh \subseteq Posted
  /\ lock \in LispThread \cup {None}
  /\ waiting \in [LispThread -> BOOLEAN]

\* cmacs_glib_dispatch never reaches g_main_context_check while an outer
\* g_main_context_dispatch is walking the pending list without a prepare in
\* between: that is the assertion failure its two flags are there to prevent.
NoNestedCheck == acquired /\ ~dispatching => ~walking

\* The context is owned once for the prepare that is outstanding and once for
\* every iteration in progress, whoever does the release; the flag that turns
\* inner dispatches into no-ops is set exactly while one dispatch is running,
\* and an outstanding prepare belongs to a thread that is still in its wait.
FlagsMatchFrames ==
  /\ depth = FrameCount("iter") + (IF acquired THEN 1 ELSE 0)
  /\ FrameCount("dispatch") = (IF dispatching THEN 1 ELSE 0)
  /\ dispatching => acquired
  /\ acquired /\ ~dispatching =>
       \E t \in LispThread : \E i \in DOMAIN frames[t] :
          frames[t][i].k = "select" /\ frames[t][i].poll

\* What the comment in cmacs_glib_dispatch says of an inner dispatch that
\* returns at once: the outer one still owns the acquire and will check,
\* dispatch and release when it unwinds.
OuterDispatchLives == dispatching => FrameCount("dispatch") = 1

\* A timer's function is rooted while the source can still call it or is
\* calling it, and not a moment longer: removing the source from inside its
\* own callback keeps the cell until the callback returns.
RootedWhileLive == cells = (Attached \cup Running) \cap Timer

\* Lisp run from a GLib callback or from a handler of the default context
\* never sees waiting_for_input, under which a Lisp error aborts Emacs.
NoLispInInputWait ==
  \A t \in LispThread : lock = t /\ Top(t) \in {"lisp", "cb"} => ~waiting[t]

\* A descriptor's source is collected only when the descriptor is ready, not
\* because of bits pselect left in its sets on a timeout or bits of another
\* wait's sets.
NoStaleReadiness ==
  [][\A f \in Fd : f \in ToSet(pend') \ ToSet(pend) => f \in hot]_vars

\* Work posted to the Lisp thread runs in order and once, whatever waits,
\* iterations and threads dispatch it.
Queue ==
  INSTANCE MainQueue WITH
    Job <- Posted,
    posted <- SelectSeq(srcs, LAMBDA s : s \in Posted \ Running),
    running <- Running \cap Posted
PostedInOrder == Queue!QueueSpec

\* Work posted to the Lisp thread is eventually run, whatever is nested around
\* the wait that has to notice it.
PostedRuns == \A s \in Posted : s \in Attached ~> s \notin Attached
=============================================================================
