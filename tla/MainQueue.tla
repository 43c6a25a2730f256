----------------------------- MODULE MainQueue -----------------------------
(***************************************************************************)
(* What the rest of CMacs relies on when it hands work to the Lisp thread  *)
(* (cmacs_glib_invoke_on_main, g_main_context_invoke): work is posted from *)
(* any thread without waiting, started in the order it was posted, never   *)
(* twice, and finished once started.  One piece of work may start while    *)
(* another is still running, because a callback may pump the loop.         *)
(***************************************************************************)
EXTENDS Sequences

CONSTANT Job

VARIABLES
  fresh,      \* work not posted yet
  posted,     \* work waiting for the Lisp thread, oldest first
  running     \* work whose callback is on the stack

queueVars == <<fresh, posted, running>>

QueueInit ==
  /\ fresh = Job
  /\ posted = <<>>
  /\ running = {}

Post(j) ==
  /\ j \in fresh
  /\ fresh' = fresh \ {j}
  /\ posted' = Append(posted, j)
  /\ UNCHANGED running

Begin ==
  /\ posted # <<>>
  /\ posted' = Tail(posted)
  /\ running' = running \cup {Head(posted)}
  /\ UNCHANGED fresh

End(j) ==
  /\ j \in running
  /\ running' = running \ {j}
  /\ UNCHANGED <<fresh, posted>>

QueueNext ==
  \/ \E j \in Job : Post(j) \/ End(j)
  \/ Begin

QueueSpec == QueueInit /\ [][QueueNext]_queueVars

=============================================================================
