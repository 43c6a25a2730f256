----------------------------- MODULE BrigadeRun -----------------------------
(***************************************************************************)
(* The agent runner: starting, finishing, cancelling, closing and sweeping *)
(* tasks, their conversations and their mailboxes                          *)
(* (lisp/cmacs/cmacs-brigade-run.el, cmacs-brigade-mailbox.el).            *)
(*                                                                         *)
(* Emacs runs this on one thread, but not one handler at a time.  A large  *)
(* prompt written to a worker's stdin, and the "finished" hooks, pump the  *)
(* main loop; while they do, sentinels, worker callbacks and MCP tool      *)
(* calls run to completion inside them.  The stack of suspended handlers   *)
(* is explicit: each action is the code between two pump points, the       *)
(* suspended rest of a handler is a frame, and an event may arrive only    *)
(* when the stack is empty or its top frame is pumping.  GLib refuses to   *)
(* dispatch inside a dispatch, so a tool call or an in-process completion  *)
(* cannot nest inside another one.                                         *)
(***************************************************************************)
EXTENDS BrigadeTable, Naturals, Sequences, FiniteSets

CONSTANTS
  Tasks,          \* task ids
  Inproc,         \* tasks whose agent runs in-process; the others are processes
  Large,          \* process tasks whose prompts overfill the stdin pipe
  Sessionless,    \* tasks whose worker cannot continue a conversation
  NoAgent,        \* tasks naming an agent that is not defined
  NoWorker,       \* tasks whose worker or isolation backend is not available
  MaxConcurrent,  \* cmacs-brigade-max-concurrent; 0 is no limit
  MaxAttempts,    \* cmacs-brigade-conversation-max-attempts
  MailboxMax,     \* cmacs-brigade-mailbox-max
  Faults,         \* what may go wrong: "prepare", "spawn", "stdin", "hook", "late"
  MaxSends,       \* bound: messages sent in a behaviour
  MaxReruns,      \* bound: times the user starts a task by hand
  MaxDepth        \* bound: suspended frames under which an event may arrive

ASSUME RunAssumption ==
  /\ IsFiniteSet(Tasks)
  /\ Inproc \subseteq Tasks /\ Large \subseteq Tasks \ Inproc
  /\ Sessionless \subseteq Tasks \ Inproc
  /\ NoAgent \subseteq Tasks /\ NoWorker \subseteq Tasks
  /\ MaxConcurrent \in Nat /\ MaxAttempts \in Nat \ {0}
  /\ MailboxMax \in Nat /\ MaxSends \in Nat /\ MaxReruns \in Nat /\ MaxDepth \in Nat
  /\ Faults \subseteq {"prepare", "spawn", "stdin", "hook", "late"}

VARIABLES
  state,      \* the C task table: task -> state
  line,       \* tasks by queued_at, oldest first
  runs,       \* cmacs-brigade--runs: task -> worker number, 0 for no entry
  conv,       \* cmacs-brigade--conversations
  mail,       \* cmacs-brigade--mailbox: task -> messages, oldest first
  finishing,  \* cmacs-brigade--finishing
  cred,       \* tasks holding a provisioned credential
  iso,        \* tasks whose worktree or container exists
  alive,      \* workers that have yet to report: [t |-> task, n |-> number]
  started,    \* workers started so far
  sent,       \* messages sent so far; message i is the i-th
  reruns,     \* hand starts so far
  stack,      \* suspended handlers, innermost first
  delivered,  \* history: task -> messages handed to a worker, in order
  dropped     \* history: messages somebody took back

table   == <<state, line>>
convs   == <<conv, mail, finishing, delivered, dropped>>
workers == <<runs, cred, iso, alive, started>>
vars == <<table, convs, workers, sent, reruns, stack>>

\* A sequence's elements, and a sequence without its i-th element.
Elements(q) == {q[i] : i \in DOMAIN q}

RemoveAt(q, i) == SubSeq(q, 1, i - 1) \o SubSeq(q, i + 1, Len(q))

NoConv == [open |-> FALSE, turn |-> 0, attempts |-> 0, boxed |-> FALSE, idle |-> FALSE]

\* cmacs-brigade-conversation-put with no fields: creates the record if absent
\* and counts as activity.
Put(c) == [c EXCEPT !.open = TRUE, !.idle = FALSE]

\* The same, counting one more turn and clearing the failed attempts.
Answered(c) ==
  [open |-> TRUE, turn |-> c.turn + 1, attempts |-> 0, boxed |-> c.boxed, idle |-> FALSE]

\* A suspended handler: its kind, its task, the worker and message of a start, and
\* whether a GLib source is running it.  A drain under way also has what is left of
\* its snapshot: an order of tasks, and those among them that were queued.
Frame(k, t, n, msg, g) ==
  [k |-> k, t |-> t, n |-> n, msg |-> msg, glib |-> g, order |-> <<>>, queued |-> {}]

Drain(t, g) == Frame("drain0", t, 0, 0, g)

\* The frames inside which Emacs pumps its main loop.
Pumping == {"start", "finish", "hooks"}

MayPump == stack # <<>> => Head(stack).k \in Pumping /\ Len(stack) < MaxDepth

InGlib == \E i \in 1 .. Len(stack) : stack[i].glib

\* A GLib source can run now: an MCP tool call, an in-process worker's callback.
MayDispatch == MayPump /\ ~InGlib

\* Who calls: a tool, or the user with a command, which never nests.
Caller(tool) == IF tool THEN MayDispatch ELSE stack = <<>>

\* cmacs-brigade-task-transition on the table: state and place in line.
Moved(s, t, to) == IF CanTransition(s[t], to) THEN [s EXCEPT ![t] = to] ELSE s

Without(l, t) ==
  IF \E i \in DOMAIN l : l[i] = t THEN RemoveAt(l, CHOOSE i \in DOMAIN l : l[i] = t) ELSE l

Stamped(l, s, t, to) ==
  IF CanTransition(s[t], to) /\ s[t] # to /\ to \in {"queued", "waiting-input"}
  THEN Append(Without(l, t), t) ELSE l

LiveCount == Cardinality({t \in Tasks : runs[t] # 0})

\* Mutant: the cap is off by one.
CanStartLoose == MaxConcurrent = 0 \/ LiveCount <= MaxConcurrent

CanStart == MaxConcurrent = 0 \/ LiveCount < MaxConcurrent

\* cmacs-brigade-outstanding-count.
Outstanding ==
  LiveCount + Cardinality({t \in Tasks : conv[t].open /\ runs[t] = 0 /\ mail[t] # <<>>})
-----------------------------------------------------------------------------
(* Starting a turn.                                                        *)

\* Whether one more failed start uses up the attempt budget, and its mutant.
GivesUpLate(c) == c.attempts >= MaxAttempts

GivesUp(c) == c.attempts + 1 >= MaxAttempts

\* Revoking the credential of a start that failed; the mutant forgets to when the
\* conversation lives on.
RevokedIfClosed(t, c) == IF c.open THEN cred ELSE cred \ {t}

Revoked(t, c) == cred \ {t}

\* The error branch of cmacs-brigade--start-now and cmacs-brigade--start-failed:
\* revoke, remove the sandbox only if there is no conversation, then fail, park
\* or give up.  c is the conversation record, s and l the table, bx the sandboxes
\* at the moment of the error.
StartError(t, c, s, l, bx, base, g) ==
  /\ cred' = Revoked(t, c)
  /\ \/ /\ ~c.open
        /\ state' = Moved(s, t, "failed") /\ line' = l
        /\ iso' = bx \ {t}
        /\ conv' = [conv EXCEPT ![t] = c]
        /\ stack' = base
     \/ /\ c.open /\ ~GivesUp(c)
        /\ state' = Moved(s, t, "waiting-input")
        /\ line' = Stamped(l, s, t, "waiting-input")
        /\ iso' = bx
        /\ conv' = [conv EXCEPT ![t] = [Put(c) EXCEPT !.attempts = @ + 1]]
        /\ stack' = base
     \/ /\ c.open /\ GivesUp(c)
        /\ state' = Moved(s, t, "failed") /\ line' = l
        /\ iso' = IF c.boxed THEN bx \ {t} ELSE bx
        /\ conv' = [conv EXCEPT ![t] = NoConv]
        /\ stack' = <<Frame("hooks", t, 0, 0, g)>> \o base

\* The mailboxes once message msg of t is under way, and its mutant.
NothingTaken(t, msg) == mail

Taken(t, msg) ==
  IF msg = 0 \/ mail[t] = <<>> THEN mail ELSE [mail EXCEPT ![t] = Tail(@)]

\* The table once t's worker is under way; the mutant leaves t in "starting".
NotUnderWay(s, t) == s

UnderWay(s, t) == Moved(s, t, "running")

\* The worker is under way: enter it in the runs table, and only now take the
\* message it was given (0: it was given the plan's task text) off the queue.
Register(t, n, msg, c, s, base) ==
  /\ runs' = [runs EXCEPT ![t] = n]
  /\ mail' = Taken(t, msg)
  /\ delivered' = IF msg = 0 THEN delivered ELSE [delivered EXCEPT ![t] = Append(@, msg)]
  /\ conv' = [conv EXCEPT ![t] = IF msg = 0 THEN c ELSE [Put(c) EXCEPT !.attempts = 0]]
  /\ state' = UnderWay(s, t)
  /\ stack' = base

\* cmacs-brigade--start-now past its checks.  A turn is resumed when there is a
\* conversation with a message waiting; otherwise the sandbox is made afresh and
\* recorded in the conversation.  Either step may fail; a prompt that overfills
\* the pipe suspends the start before the run is registered.
Launch(t, s, l, base, g) ==
  LET resumed == conv[t].open /\ mail[t] # <<>>
      msg     == IF resumed THEN Head(mail[t]) ELSE 0
      c       == IF resumed THEN conv[t] ELSE [Put(conv[t]) EXCEPT !.boxed = TRUE]
      bx      == IF resumed THEN iso ELSE iso \cup {t}
      n       == started + 1
      s1      == [s EXCEPT ![t] = "starting"]
  IN \/ /\ ~resumed /\ "prepare" \in Faults
        /\ StartError(t, conv[t], s1, l, iso \ {t}, base, g)
        /\ UNCHANGED <<runs, alive, started, mail, delivered>>
     \/ /\ "spawn" \in Faults
        /\ StartError(t, c, s1, l, bx, base, g)
        /\ UNCHANGED <<runs, alive, started, mail, delivered>>
     \/ /\ started' = n
        /\ alive' = alive \cup {[t |-> t, n |-> n]}
        /\ cred' = cred \cup {t}
        /\ iso' = bx
        /\ line' = l
        /\ IF t \in Large
           THEN /\ state' = s1
                /\ conv' = [conv EXCEPT ![t] = c]
                /\ stack' = <<Frame("start", t, n, msg, g)>> \o base
                /\ UNCHANGED <<runs, mail, delivered>>
           ELSE Register(t, n, msg, c, s1, base)

\* cmacs-brigade-start-task and the checks at the head of --start-now.
StartTask(t, s, l, base, g) ==
  /\ \/ /\ \/ t \in NoAgent
           \/ t \notin NoAgent /\ CanStart /\ t \in NoWorker
        /\ state' = Moved(s, t, "failed")
        /\ line' = l /\ stack' = base
        /\ UNCHANGED <<conv, mail, delivered, workers>>
     \/ /\ t \notin NoAgent
        /\ ~CanStart \/ (t \notin NoWorker /\ ~CanTransition(s[t], "starting"))
        /\ state' = s /\ line' = l /\ stack' = base
        /\ UNCHANGED <<conv, mail, delivered, workers>>
     \/ /\ t \notin NoAgent \cup NoWorker
        /\ CanStart /\ CanTransition(s[t], "starting")
        /\ Launch(t, s, l, base, g)
  /\ UNCHANGED <<finishing, dropped, sent>>

\* A fresh task is queued and offered a slot: by agent_spawn, or by a schedule's
\* timer, which is no GLib source.
Spawn(t, tool) ==
  /\ IF tool THEN MayDispatch ELSE MayPump
  /\ state[t] = "draft"
  /\ StartTask(t, Moved(state, t, "queued"), Stamped(line, state, t, "queued"), stack, tool)
  /\ UNCHANGED reruns

\* cmacs-brigade-dashboard-start: the user starts or re-runs a task by hand.
Rerun(t) ==
  /\ stack = <<>>
  /\ reruns < MaxReruns
  /\ reruns' = reruns + 1
  /\ StartTask(t, Moved(state, t, "queued"), Stamped(line, state, t, "queued"), stack, FALSE)

\* Which candidate the drain offers a slot to; the mutant takes the newest.
Newest(i, candidates) == \A j \in candidates : j <= i

Oldest(i, candidates) == \A j \in candidates : i <= j

\* cmacs-brigade--drain-queue: the snapshot of the queue is taken once; every
\* task in it is offered a slot in turn, as long as there is one.
DrainStep ==
  LET f      == Head(stack)
      order  == IF f.k = "drain0" THEN line ELSE f.order
      queued == IF f.k = "drain0" THEN {t \in Tasks : state[t] = "queued"} ELSE f.queued
      todo   == {i \in DOMAIN order : order[i] \in queued}
  IN /\ stack # <<>> /\ f.k \in {"drain0", "drain"}
     /\ \/ /\ todo = {} \/ ~CanStart
           /\ stack' = Tail(stack)
           /\ UNCHANGED <<table, convs, workers, sent>>
        \/ \E i \in todo :
             /\ CanStart /\ Oldest(i, todo)
             /\ LET g == [f EXCEPT !.k = "drain", !.queued = queued,
                                   !.order = SubSeq(order, i + 1, Len(order))]
                IN StartTask(order[i], state, line, <<g>> \o Tail(stack), f.glib)
     /\ UNCHANGED reruns

\* The rest of a start that was suspended on the stdin pipe.  Writing to a worker
\* that died meanwhile signals an error, and so may writing to a live one.
StartResume ==
  LET f == Head(stack)
      t == f.t
  IN /\ stack # <<>> /\ f.k = "start"
     /\ \/ /\ [t |-> t, n |-> f.n] \in alive
           /\ Register(t, f.n, f.msg, conv[t], state, Tail(stack))
           /\ UNCHANGED <<line, cred, iso>>
        \/ /\ [t |-> t, n |-> f.n] \notin alive \/ "stdin" \in Faults
           /\ StartError(t, conv[t], state, line, iso, Tail(stack), f.glib)
           /\ UNCHANGED <<runs, mail, delivered>>
     /\ UNCHANGED <<alive, started, finishing, dropped, sent, reruns>>
-----------------------------------------------------------------------------
(* Ending a turn.                                                          *)

\* The slot is released here; the mutant leaves the run registered.
NotReleased(t) == runs

Released(t) == [runs EXCEPT ![t] = 0]

\* The sandboxes after a turn of t; the mutant removes them between turns.
SandboxesAfterTurn(t, keep) == IF runs[t] # 0 \/ conv[t].boxed THEN iso \ {t} ELSE iso

SandboxesAfter(t, keep) ==
  IF ~keep /\ (runs[t] # 0 \/ (conv[t].open /\ conv[t].boxed)) THEN iso \ {t} ELSE iso

\* cmacs-brigade--finish up to its hooks, for an outcome of "done" or "failed".
\* A second entry for a task that is already finishing does nothing.  Only a
\* clean finish keeps the conversation; the slot is released here.
Finish(t, outcome, base, g) ==
  LET hasRun == runs[t] # 0
      hasCon == conv[t].open
      keep   == hasCon /\ outcome = "done"
  IN IF t \in finishing
     THEN /\ stack' = base
          /\ UNCHANGED <<state, runs, conv, finishing, cred, iso>>
     ELSE /\ finishing' = finishing \cup {t}
          /\ cred' = IF hasRun \/ (hasCon /\ ~keep) THEN cred \ {t} ELSE cred
          /\ iso' = SandboxesAfter(t, keep)
          /\ runs' = Released(t)
          /\ conv' = [conv EXCEPT ![t] =
                        IF keep THEN Answered(@) ELSE NoConv]
          /\ state' = Moved(state, t, outcome)
          /\ stack' = <<Frame("finish", t, 0, 0, g)>> \o base

\* A worker process exits and its sentinel runs (--on-exit).
ProcessExit(w, outcome) ==
  /\ MayPump
  /\ w \in alive /\ w.t \notin Inproc
  /\ alive' = alive \ {w}
  /\ Finish(w.t, outcome, stack, FALSE)
  /\ UNCHANGED <<line, mail, delivered, dropped, started, sent, reruns>>

\* An in-process tool loop reports to its callback (--inproc-done).
InprocDone(w, outcome) ==
  /\ MayDispatch
  /\ w \in alive /\ w.t \in Inproc
  /\ alive' = alive \ {w}
  /\ Finish(w.t, outcome, stack, TRUE)
  /\ UNCHANGED <<line, mail, delivered, dropped, started, sent, reruns>>

\* cmacs-brigade-kick-conversation moves the task to the queue and drains: its
\* condition, for mailboxes m and finishing set fin.
Kickable(t, m, fin) ==
  /\ conv[t].open
  /\ runs[t] = 0
  /\ t \notin fin
  /\ m[t] # <<>>
  /\ state[t] \notin {"starting", "running"}
  /\ CanTransition(state[t], "queued")

\* What is left to run once t's hooks are done: the drain that a successful kick
\* makes and the drain that --finish makes itself.  The mutant leaves out the
\* second.
DrainsIfKicked(kicked, d, base) == IF kicked THEN <<d>> \o base ELSE base

Drains(kicked, d, base) == <<d>> \o (IF kicked THEN <<d>> \o base ELSE base)

\* Mutant: the wake-up refused during the hooks is not repeated after them.
NeverKicked(t, fin) == FALSE

KickedAfter(t, fin) == Kickable(t, mail, fin)

\* The re-entrancy guard once t's hooks are done, and its mutant.
StillGuarded(t) == finishing

Unguarded(t) == finishing \ {t}

\* The tail of --finish after its hooks: clear the guard, kick, drain.  A hook
\* that signals leaves through the unwind form, which only clears the guard.
FinishResume ==
  LET f   == Head(stack)
      fin == Unguarded(f.t)
      d   == Drain(f.t, f.glib)
  IN /\ stack # <<>> /\ f.k = "finish"
     /\ finishing' = fin
     /\ \/ /\ KickedAfter(f.t, fin)
           /\ state' = Moved(state, f.t, "queued")
           /\ line' = Stamped(line, state, f.t, "queued")
           /\ stack' = Drains(TRUE, d, Tail(stack))
        \/ /\ ~KickedAfter(f.t, fin)
           /\ stack' = Drains(FALSE, d, Tail(stack))
           /\ UNCHANGED table
        \/ /\ "hook" \in Faults
           /\ stack' = Tail(stack)
           /\ UNCHANGED table
     /\ UNCHANGED <<conv, mail, delivered, dropped, workers, sent, reruns>>

HooksResume ==
  /\ stack # <<>> /\ Head(stack).k = "hooks"
  /\ stack' = Tail(stack)
  /\ UNCHANGED <<table, convs, workers, sent, reruns>>

-----------------------------------------------------------------------------
(* Talking to a task.                                                      *)

\* cmacs-brigade-mailbox-send: queue first, then look whether to wake the task.
AgentSend(t, tool) ==
  LET m == [mail EXCEPT ![t] = Append(@, sent + 1)]
  IN /\ Caller(tool)
     /\ sent < MaxSends
     /\ t \notin Sessionless
     /\ Len(mail[t]) < MailboxMax
     /\ sent' = sent + 1
     /\ mail' = m
     /\ IF Kickable(t, m, finishing)
        THEN /\ state' = Moved(state, t, "queued")
             /\ line' = Stamped(line, state, t, "queued")
             /\ stack' = <<Drain(t, tool)>> \o stack
        ELSE UNCHANGED <<table, stack>>
     /\ UNCHANGED <<conv, finishing, delivered, dropped, workers, reruns>>

\* agent_drop of the i-th message, or of the whole queue (0: no index given).
AgentDrop(t, i) ==
  /\ MayDispatch
  /\ mail[t] # <<>> /\ i <= Len(mail[t])
  /\ mail' = [mail EXCEPT ![t] = IF i = 0 THEN <<>> ELSE RemoveAt(@, i)]
  /\ dropped' = dropped \cup (IF i = 0 THEN Elements(mail[t]) ELSE {mail[t][i]})
  /\ UNCHANGED <<table, conv, finishing, delivered, workers, sent, reruns, stack>>

\* The sandboxes after t's conversation is torn down, and the mutant that forgets.
SandboxesLeft(t) == iso

SandboxesWithout(t) == IF conv[t].open /\ conv[t].boxed THEN iso \ {t} ELSE iso

\* cmacs-brigade-close-conversation: release what the conversation holds, and
\* settle a task that was parked.
Close(t) ==
  /\ conv' = [conv EXCEPT ![t] = NoConv]
  /\ cred' = IF conv[t].open THEN cred \ {t} ELSE cred
  /\ iso' = SandboxesWithout(t)
  /\ state' = IF conv[t].open /\ state[t] \in {"waiting-input", "blocked"}
              THEN Moved(state, t, "done") ELSE state

\* agent_close: drop the whole queue, then close.
AgentClose(t) ==
  /\ MayDispatch
  /\ mail' = [mail EXCEPT ![t] = <<>>]
  /\ dropped' = dropped \cup Elements(mail[t])
  /\ Close(t)
  /\ UNCHANGED <<line, finishing, delivered, runs, alive, started, sent, reruns, stack>>

\* The loopback's finished hook closes a conversation whose target has gone
\* (cmacs-brigade-loopback--report), from inside --finish.
HookClose ==
  /\ stack # <<>> /\ Head(stack).k = "finish"
  /\ conv[Head(stack).t].open
  /\ Close(Head(stack).t)
  /\ UNCHANGED <<line, mail, finishing, delivered, dropped, runs, alive, started,
                 sent, reruns, stack>>

-----------------------------------------------------------------------------
(* Stopping a task.                                                        *)

\* What cmacs-brigade-cancel-task returns: whether the move to "cancelled" was
\* accepted or the task had already ended.
CancelReturns(t) == CanTransition(state[t], "cancelled") \/ state[t] \in Terminal

\* cmacs-brigade-cancel-task after the worker's own cancel function.  The finished
\* hooks run after the drain, and only if the move was accepted.
CancelRest(t, hadRun, base, g) ==
  /\ mail' = [mail EXCEPT ![t] = <<>>]
  /\ dropped' = dropped \cup Elements(mail[t])
  /\ conv' = [conv EXCEPT ![t] = NoConv]
  /\ cred' = cred \ {t}
  /\ iso' = IF hadRun THEN iso \ {t} ELSE SandboxesWithout(t)
  /\ runs' = [runs EXCEPT ![t] = 0]
  /\ finishing' = finishing \ {t}
  /\ state' = Moved(state, t, "cancelled")
  /\ stack' = <<Drain(t, g)>> \o (IF CanTransition(state[t], "cancelled")
                                  THEN <<Frame("hooks", t, 0, 0, g)>> \o base ELSE base)
  /\ UNCHANGED <<line, delivered>>

\* agent_cancel.  A live process is deleted, which runs its sentinel on the spot:
\* the turn is finished as "failed" before the rest of the cancel.  Otherwise
\* nothing is stopped: there is no run, or the process has exited and its
\* sentinel is still to come, or the in-process loop carries on (its session has
\* no cancellable to trigger).
AgentCancel(t, tool) ==
  LET w == [t |-> t, n |-> runs[t]]
  IN /\ Caller(tool)
     /\ \/ /\ runs[t] # 0 /\ t \notin Inproc /\ w \in alive
           /\ alive' = alive \ {w}
           /\ Finish(t, "failed", <<Frame("cancel", t, 0, 0, tool)>> \o stack, tool)
           /\ UNCHANGED <<line, mail, delivered, dropped>>
        \/ /\ runs[t] = 0 \/ t \in Inproc \/ "late" \in Faults
           /\ CancelRest(t, runs[t] # 0, stack, tool)
           /\ UNCHANGED alive
     /\ UNCHANGED <<started, sent, reruns>>

CancelResume ==
  LET f == Head(stack)
  IN /\ stack # <<>> /\ f.k = "cancel"
     /\ CancelRest(f.t, TRUE, Tail(stack), f.glib)
     /\ UNCHANGED <<alive, started, sent, reruns>>

\* A conversation sits untouched for longer than cmacs-brigade-conversation-ttl.
Age(t) ==
  /\ stack = <<>>
  /\ conv[t].open /\ ~conv[t].idle
  /\ conv' = [conv EXCEPT ![t].idle = TRUE]
  /\ UNCHANGED <<table, mail, finishing, delivered, dropped, workers, sent, reruns, stack>>

\* cmacs-brigade-sweep-conversations, a command: every parked conversation that is
\* idle, or every parked one when forced.  Its mail stays in the mailbox.
Sweep(force) ==
  LET swept == {t \in Tasks : /\ conv[t].open /\ runs[t] = 0 /\ t \notin finishing
                              /\ force \/ conv[t].idle}
  IN /\ stack = <<>>
     /\ swept # {}
     /\ state' = [t \in Tasks |-> IF t \in swept /\ mail[t] # <<>>
                                  THEN Moved(state, t, "failed")[t] ELSE state[t]]
     /\ conv' = [t \in Tasks |-> IF t \in swept THEN NoConv ELSE conv[t]]
     /\ cred' = cred \ swept
     /\ iso' = iso \ {t \in swept : conv[t].boxed}
     /\ UNCHANGED <<line, mail, finishing, delivered, dropped, runs, alive, started,
                    sent, reruns, stack>>

-----------------------------------------------------------------------------
Init ==
  /\ state = [t \in Tasks |-> "draft"]
  /\ line = <<>>
  /\ runs = [t \in Tasks |-> 0]
  /\ conv = [t \in Tasks |-> NoConv]
  /\ mail = [t \in Tasks |-> <<>>]
  /\ finishing = {} /\ cred = {} /\ iso = {} /\ alive = {} /\ dropped = {}
  /\ started = 0 /\ sent = 0 /\ reruns = 0
  /\ stack = <<>>
  /\ delivered = [t \in Tasks |-> <<>>]

Resume == DrainStep \/ StartResume \/ FinishResume \/ HooksResume \/ CancelResume

Report == \E w \in alive, outcome \in {"done", "failed"} :
            ProcessExit(w, outcome) \/ InprocDone(w, outcome)

Next ==
  \/ Resume
  \/ Report
  \/ \E t \in Tasks :
       \/ Rerun(t) \/ AgentClose(t) \/ Age(t)
       \/ \E tool \in BOOLEAN : Spawn(t, tool) \/ AgentSend(t, tool) \/ AgentCancel(t, tool)
       \/ \E i \in 0 .. MailboxMax : AgentDrop(t, i)
  \/ HookClose
  \/ \E force \in BOOLEAN : Sweep(force)

Spec == Init /\ [][Next]_vars
-----------------------------------------------------------------------------
\* Fairness.  Code between two pump points runs on; a handler that pumps does so for
\* a bounded piece of work of its own, so it is resumed however many events nest in
\* it; and a worker ends, its report being taken from a main loop that polls every
\* source each time it is entered.
ReportOf(t) == \E w \in alive, outcome \in {"done", "failed"} :
                 w.t = t /\ (ProcessExit(w, outcome) \/ InprocDone(w, outcome))

FairSpec ==
  /\ Spec
  /\ WF_vars(DrainStep) /\ WF_vars(CancelResume)
  /\ SF_vars(StartResume) /\ SF_vars(FinishResume) /\ SF_vars(HooksResume)
  /\ \A t \in Tasks : SF_vars(ReportOf(t))

-----------------------------------------------------------------------------
Conv == [open : BOOLEAN, turn : Nat, attempts : Nat, boxed : BOOLEAN, idle : BOOLEAN]

Frames == [k : {"start", "finish", "hooks", "cancel", "drain0", "drain"}, t : Tasks,
           n : Nat, msg : Nat, glib : BOOLEAN, order : Seq(Tasks), queued : SUBSET Tasks]

\* Type invariant; a conversation is given up before it has used its attempts.
TypeOK ==
  /\ state \in [Tasks -> States]
  /\ line \in Seq(Tasks)
  /\ runs \in [Tasks -> Nat]
  /\ conv \in [Tasks -> Conv]
  /\ \A t \in Tasks : conv[t].attempts < MaxAttempts
  /\ mail \in [Tasks -> Seq(Nat)]
  /\ finishing \subseteq Tasks /\ cred \subseteq Tasks /\ iso \subseteq Tasks
  /\ alive \subseteq [t : Tasks, n : Nat]
  /\ started \in Nat /\ sent \in Nat /\ reruns \in Nat
  /\ stack \in Seq(Frames)
  /\ delivered \in [Tasks -> Seq(Nat)]
  /\ dropped \subseteq Nat

\* A start of t suspended on its stdin pipe.
Starting(t) == \E i \in 1 .. Len(stack) : stack[i].k = "start" /\ stack[i].t = t

\* "Silently starting it anyway would make the concurrency cap a suggestion": no
\* more runs are registered than cmacs-brigade-max-concurrent allows.
CapRespected == MaxConcurrent # 0 => LiveCount <= MaxConcurrent

\* The runs table and the C state table, kept by different code, agree on what is
\* running: a run with no running task holds a slot and reports nowhere, a running
\* task with no run is an agent that is not there.  Holds while prompts fit the
\* pipe (Large = {}): a task cancelled during a suspended start is registered anyway.
RunMatchesState == \A t \in Tasks : runs[t] # 0 <=> state[t] = "running"

\* A registered run always has a worker whose report is still to come, so the slot
\* it holds is released.
RunWillReport == \A t \in Tasks : runs[t] # 0 => [t |-> t, n |-> runs[t]] \in alive

\* "A token never outlives the run that needed it": a provisioned credential
\* belongs to a registered run or to a start that is still in progress.
CredentialScoped == \A t \in cred : runs[t] # 0 \/ Starting(t)

\* No sandbox is leaked: a worktree or container belongs to an open conversation
\* that knows of it, so that tearing the conversation down removes it.
SandboxOwned == \A t \in iso : conv[t].open /\ conv[t].boxed

\* "Isolation is NOT torn down while the conversation lives": an open conversation
\* that was given a sandbox still has it.
SandboxKept == \A t \in Tasks : conv[t].open /\ conv[t].boxed => t \in iso

\* The re-entrancy guard of --finish: it is set only while the task's completion is
\* on the stack, and no completion of a task runs inside another of the same task,
\* which "would otherwise fire the turn hooks twice".  Holds without the "late"
\* fault: a cancel that meets an exited process clears the guard of a completion
\* that is still running its hooks.
FinishOnce ==
  /\ \A t \in finishing : \E i \in 1 .. Len(stack) : stack[i].k = "finish" /\ stack[i].t = t
  /\ \A i, j \in 1 .. Len(stack) :
       stack[i].k = "finish" /\ stack[j].k = "finish" /\ stack[i].t = stack[j].t => i = j

\* No lost wake-up: when every handler has returned, a task is left in the queue
\* only because every slot is taken.  Holds without the "hook" fault: a finished
\* hook that signals skips the drain.
NoIdleQueue ==
  stack = <<>> /\ CanStart => \A t \in Tasks : state[t] # "queued"

Inbox == INSTANCE BrigadeInbox

\* The runner delivers mail the way the abstract mailbox does: whole, in order,
\* once, from the head of the queue.
InboxRefined == Inbox!Spec

IsDraining == stack # <<>> /\ Head(stack).k \in {"drain0", "drain"}

LeavesQueue(t) == state[t] = "queued" /\ state'[t] \in {"starting", "running"}

Before(u, t) == \E i, j \in 1 .. Len(line) : i < j /\ line[i] = u /\ line[j] = t

\* "Start whatever queued tasks now fit, oldest first": the drain starts no task
\* while another that became ready earlier is still queued.
OldestFirst ==
  [][IsDraining => \A t, u \in Tasks : LeavesQueue(t) /\ Before(u, t) => state[u] # "queued"]_vars

\* "The message is delivered when its current turn ends": mail for an open
\* conversation does not wait for ever.
MailDelivered ==
  \A t \in Tasks : (conv[t].open /\ mail[t] # <<>>) ~> (~conv[t].open \/ mail[t] = <<>>)
-----------------------------------------------------------------------------
(* What comments and documents say that the code does not do.              *)

\* "Returns non-nil only if the task actually reached `cancelled'": of a cancel
\* that found a live worker.
CancelReturnsTruth ==
  [][CancelResume /\ CancelReturns(Head(stack).t) => state'[Head(stack).t] = "cancelled"]_vars

\* "One waiting behind a busy concurrency cap is not swept while its message is
\* still pending."
SweepSparesWaiting ==
  [][Sweep(FALSE) => \A t \in Tasks : state[t] = "queued" /\ mail[t] # <<>> => conv'[t] = conv[t]]_vars

\* The last completion "means the whole fan-out is done": nothing is queued when
\* the finished hook finds nothing outstanding and announces that all are done.
AllDoneIsTrue ==
  [][\A t \in finishing' \ finishing :
       Outstanding' = 0 => \A u \in Tasks : state'[u] # "queued"]_vars
=============================================================================
