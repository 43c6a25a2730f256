---------------------------- MODULE ToolPromise ----------------------------
(***************************************************************************)
(* What a worker is promised when it asks the Lisp thread for a tool call: *)
(* the tool is served at most once; the worker gets one answer, which is   *)
(* the tool's own if it waited for it; and a call the worker gave up on    *)
(* may still be served later, without an answer.                           *)
(***************************************************************************)
CONSTANT Call

VARIABLES
  phase,    \* "none", "asked", "answered" or "given_up"
  served    \* calls the Lisp thread has dealt with

promiseVars == <<phase, served>>

PromiseInit ==
  /\ phase = [c \in Call |-> "none"]
  /\ served = {}

Ask(c) ==
  /\ phase[c] = "none"
  /\ phase' = [phase EXCEPT ![c] = "asked"]
  /\ UNCHANGED served

Serve(c) ==
  /\ phase[c] \in {"asked", "given_up"} /\ c \notin served
  /\ served' = served \cup {c}
  /\ UNCHANGED phase

Answer(c) ==
  /\ phase[c] = "asked" /\ c \in served
  /\ phase' = [phase EXCEPT ![c] = "answered"]
  /\ UNCHANGED served

GiveUp(c) ==
  /\ phase[c] = "asked"
  /\ phase' = [phase EXCEPT ![c] = "given_up"]
  /\ UNCHANGED served

PromiseNext == \E c \in Call : Ask(c) \/ Serve(c) \/ Answer(c) \/ GiveUp(c)

PromiseSpec == PromiseInit /\ [][PromiseNext]_promiseVars

=============================================================================
