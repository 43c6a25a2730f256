------------------------------ MODULE GClosure ------------------------------
(***************************************************************************)
(* Lisp functions connected to GObject signals                             *)
(* (cmacs/gobject/cmacs-gclosure.c), composed with the loop that runs what *)
(* they post.  A signal is emitted, and the object it belongs to           *)
(* finalised, on the Lisp thread or on a thread of a library; off the Lisp *)
(* thread both are handed over with cmacs_glib_invoke_on_main.  The        *)
(* garbage collector takes any function that has no root.                  *)
(***************************************************************************)
EXTENDS GlibLoop

CONSTANT Closure

VARIABLES
  closure,      \* "none", "valid" or "invalid" (is_invalid)
  protect,      \* closures with a cell on cmacs_gclosure_prevent_gc_list
  gone,         \* closures whose function was collected
  emitting,     \* emissions off the Lisp thread, before they post
  unhooking,    \* invalidations off the Lisp thread, before they post
  work,         \* what each posted source is for
  calling       \* posted sources whose Lisp function is being called

gcVars == <<closure, protect, gone, emitting, unhooking, work, calling>>
allVars == <<vars, gcVars>>

Work == [op : {"call", "unprotect"}, c : Closure]

ClosureInit ==
  /\ Init
  /\ closure = [c \in Closure |-> "none"]
  /\ protect = {} /\ gone = {} /\ emitting = {} /\ unhooking = {}
  /\ work = [s \in Posted |-> None]
  /\ calling = {}

\* cmacs_gclosure_new
New(t, c) ==
  /\ RunsLisp(t) /\ closure[c] = "none"
  /\ closure' = [closure EXCEPT ![c] = "valid"]
  /\ protect' = protect \cup {c}
  /\ UNCHANGED <<vars, gone, emitting, unhooking, work, calling>>

\* cmacs_gclosure_marshal on the Lisp thread: the function is called at once.
EmitOnMain(t, c) ==
  /\ RunsLisp(t) /\ t = Main /\ HasRoom(t) /\ closure[c] = "valid"
  /\ Push(t, CbFrame(c))
  /\ UNCHANGED <<acquired, dispatching, ctxVars, srcVars, lock, waiting, gcVars>>

\* ... and off it: GLib sees a valid closure, the marshaller posts the call.
EmitOff(c) ==
  /\ closure[c] = "valid" /\ c \notin emitting
  /\ emitting' = emitting \cup {c}
  /\ UNCHANGED <<vars, closure, protect, gone, unhooking, work, calling>>

EmitPost(c, s) ==
  /\ c \in emitting
  /\ InvokeOnMain(s)
  /\ work' = [work EXCEPT ![s] = [op |-> "call", c |-> c]]
  /\ emitting' = emitting \ {c}
  /\ UNCHANGED <<closure, protect, gone, unhooking, calling>>

\* cmacs_gclosure_invalidate on the Lisp thread
InvalidateOnMain(t, c) ==
  /\ RunsLisp(t) /\ t = Main /\ closure[c] = "valid"
  /\ closure' = [closure EXCEPT ![c] = "invalid"]
  /\ protect' = protect \ {c}
  /\ UNCHANGED <<vars, gone, emitting, unhooking, work, calling>>

\* ... and off it: GLib marks the closure, then the notifier posts.
InvalidateOff(c) ==
  /\ closure[c] = "valid"
  /\ closure' = [closure EXCEPT ![c] = "invalid"]
  /\ unhooking' = unhooking \cup {c}
  /\ UNCHANGED <<vars, protect, gone, emitting, work, calling>>

InvalidatePost(c, s) ==
  /\ c \in unhooking
  /\ InvokeOnMain(s)
  /\ work' = [work EXCEPT ![s] = [op |-> "unprotect", c |-> c]]
  /\ unhooking' = unhooking \ {c}
  /\ UNCHANGED <<closure, protect, gone, emitting, calling>>

\* cmacs_gclosure_deferred_idle calls the function of a closure that is still
\* valid; cmacs_gclosure_invoke refuses on any thread but the main one.  The
\* mutant does not look whether the closure is still valid.
CallsAnyway(t, s) == work[s].op = "call" /\ t = Main

Calls(t, s) ==
  work[s].op = "call" /\ closure[work[s].c] = "valid" /\ t = Main

\* cmacs_gclosure_unprotect_idle, and the mutant that keeps the root.
UnprotectsNone(s) == {}

Unprotects(s) == IF work[s].op = "unprotect" THEN {work[s].c} ELSE {}

\* A step of the loop on thread t: what it starts and what it ends.
Pumped(t) ==
  /\ LoopStep(t)
  /\ LET begun == (Running' \ Running) \cap Posted
         ended == (Running \ Running') \cap Posted
     IN  /\ calling' = (calling \cup {s \in begun : Calls(t, s)}) \ ended
         /\ protect' = protect \ UNION {Unprotects(s) : s \in ended}
  /\ UNCHANGED <<closure, gone, emitting, unhooking, work>>

\* The callback that runs on t does not call Lisp.
Quiet(t) ==
  /\ frames[t] # <<>> /\ Top(t) = "cb"
  /\ Last(frames[t]).src \in Posted \ calling

\* A function on the stack of a call is not collected.
OnStack(c) ==
  \/ \E s \in calling : work[s].c = c
  \/ \E t \in LispThread : \E i \in DOMAIN frames[t] : frames[t][i] = CbFrame(c)

CollectGarbage(c) ==
  /\ closure[c] # "none" /\ c \notin protect /\ ~OnStack(c)
  /\ gone' = gone \cup {c}
  /\ UNCHANGED <<vars, closure, protect, emitting, unhooking, work, calling>>

ClosureNext ==
  \/ \E t \in LispThread :
       \/ Pumped(t)
       \/ /\ ~Quiet(t)
          /\ \/ LispStep(t) /\ UNCHANGED gcVars
             \/ \E c \in Closure :
                  New(t, c) \/ EmitOnMain(t, c) \/ InvalidateOnMain(t, c)
  \/ \E c \in Closure :
       \/ EmitOff(c) \/ InvalidateOff(c) \/ CollectGarbage(c)
       \/ \E s \in Posted : EmitPost(c, s) \/ InvalidatePost(c, s)

\* A thread of a library that has begun to emit or to invalidate goes on.
ClosureFairness ==
  /\ Fairness
  /\ \A c \in Closure :
       /\ WF_allVars(\E s \in Posted : EmitPost(c, s))
       /\ WF_allVars(\E s \in Posted : InvalidatePost(c, s))

ClosureSpec ==
  ClosureInit /\ [][ClosureNext]_allVars /\ ClosureFairness

-----------------------------------------------------------------------------
(* Properties. *)

\* A handler that was deferred never calls a function the collector took:
\* between the emission and the call the object may have gone, its closure
\* been invalidated on either thread and its root dropped.
NoStaleCall ==
  /\ \A s \in calling : work[s].c \notin gone
  /\ \A c \in Closure : closure[c] = "valid" => c \in protect

\* The root of a closure whose object was finalised on another thread is
\* dropped in the end, as long as the bound on posted sources is not reached.
RootsDropped ==
  \A c \in Closure :
    closure[c] = "invalid" /\ fresh # {} ~> c \notin protect \/ fresh = {}
=============================================================================
