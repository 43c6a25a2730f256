-------------------------- MODULE BrigadeSchedule --------------------------
(***************************************************************************)
(* The scheduler (lisp/cmacs/cmacs-brigade-schedule.el): the schedule      *)
(* file, the last-fire times in memory and in the state file, the one      *)
(* timer, and the loops that fire what is due: a tick, the catch-up and    *)
(* the @reboot pass of turning the mode on, and run-now.                   *)
(*                                                                         *)
(* A loop is a frame, because starting a task waits for subprocesses and   *)
(* the wait runs timers and agents' tools: another tick, or an edit of the *)
(* schedules, can happen in the middle of one.  A firing is three steps,   *)
(* so that a crash can come between them.                                  *)
(***************************************************************************)
EXTENDS CronNext, Functions

CONSTANTS
  Order,     \* the schedule ids, in file order
  Files,     \* the schedule files to begin with: id -> entry or Absent
  Entries,   \* the headlines in use: specification, catch-up policy, enabled
  Absent,    \* no such headline
  Idle,      \* no firing under way
  Grace,     \* cmacs-brigade-schedule-catchup-grace
  Start,     \* where the clock starts
  MaxTime,   \* bound on the clock
  MaxOps,    \* bound on commands: edits, run-now, turning the mode off
  MaxFaults, \* bound on failed firings and crashes
  MaxDepth   \* bound on nested loops

Ids == Range(Order)

ASSUME ScheduleAssumption ==
  /\ IsInjective(Order)
  /\ Files \subseteq [Ids -> Entries \cup {Absent}]
  /\ \A e \in Entries : e.catchup \in {"skip", "run"} /\ e.enabled \in BOOLEAN
  /\ {Grace, MaxOps, MaxFaults, MaxDepth, Start, MaxTime} \subseteq Nat
  /\ Start >= Minute

VARIABLES
  now,      \* the clock
  file,     \* the schedule file: id -> entry
  last,     \* cmacs-brigade-schedule--last: id -> last fire
  disk,     \* the state file
  mode,     \* cmacs-brigade-schedule-mode
  timer,    \* when cmacs-brigade-schedule--timer goes off
  frames,   \* the loops under way, innermost first
  ops,      \* commands given so far
  faults,   \* failures and crashes so far
  started,  \* history: id -> when a task of it was last started
  since,    \* history: id -> since when it has been enabled, unedited, mode on
  failed,   \* history: ids whose last firing failed before it was recorded
  lost      \* history: the state file has lost a last-fire time

tables == <<last, disk>>
bounds == <<ops, faults>>
history == <<started, since, failed, lost>>
vars == <<now, file, tables, mode, timer, frames, bounds, history>>

Present == {s \in Ids : file[s] # Absent}
Nothing == [s \in Ids |-> Never]
Time == (Start - Minute)..MaxTime
Loops == {"tick", "catchup", "reboot", "now"}
Stages == {"write", "record", "start", "wait"}

-----------------------------------------------------------------------------
(* Helpers.                                                                *)

\* cmacs-brigade-schedule-list: what a loop walks is a snapshot of the file.
Listing ==
  LET there == SelectSeq(Order, LAMBDA s : s \in Present)
  IN [i \in DOMAIN there |-> [id |-> there[i], entry |-> file[there[i]]]]

Frame(kind, todo, job, stage) ==
  [kind |-> kind, todo |-> todo, at |-> now, job |-> job, stage |-> stage]

With(f, job, stage) ==
  [kind |-> f.kind, todo |-> f.todo, at |-> f.at, job |-> job, stage |-> stage]

Top == Head(frames)
Put(f) == frames' = <<f>> \o Tail(frames)
Working(stage) == frames # <<>> /\ Top.stage = stage

\* Timers and tools run at top level and while a started task is waited for.
Waiting == frames = <<>> \/ Working("wait")

\* When each entry fires after each time, worked out once.
NextFire == [e \in Entries, t \in Time |-> NextTime(e.spec, t)]

Due(entry, after) == IF entry.enabled THEN NextFire[entry, after] ELSE Never

\* The timer as rearm leaves it: a second past the earliest coming fire.
Rearmed(f) ==
  LET coming == {Due(f[s], now) : s \in {x \in Ids : f[x] # Absent}} \ {Never}
  IN IF coming = {} THEN Never
     ELSE 1 + (CHOOSE t \in coming : \A u \in coming : t <= u)

\* Saving writes the whole table, whether or not it was ever loaded.
Loses(table, spared) ==
  \E s \in Ids \ spared : disk[s] # Never /\ table[s] = Never

\* The moment the timer goes off taken for the anchor even after a fire.
TickDueFromNow(item, at) ==
  LET next == Due(item.entry, at - Minute)
  IN next # Never /\ next < at

TickDue(item, at) ==
  LET from == IF last[item.id] = Never THEN at - Minute ELSE last[item.id]
      next == Due(item.entry, from)
  IN next # Never /\ next < at

CatchupDue(item, at) ==
  /\ last[item.id] # Never
  /\ item.entry.catchup = "run"
  /\ LET next == Due(item.entry, last[item.id])
     IN next # Never /\ next < at /\ at - next < Grace

RebootDue(item) == item.entry.enabled /\ item.entry.spec.kind = "reboot"

IsDue(item, f) ==
  CASE f.kind = "tick" -> TickDue(item, f.at)
    [] f.kind = "catchup" -> CatchupDue(item, f.at)
    [] f.kind = "reboot" -> RebootDue(item)

-----------------------------------------------------------------------------
Init ==
  /\ now = Start
  /\ file \in Files
  /\ last = Nothing /\ disk = Nothing
  /\ mode = FALSE /\ timer = Never
  /\ frames = <<>>
  /\ ops = 0 /\ faults = 0
  /\ started = Nothing /\ since = Nothing
  /\ failed = {} /\ lost = FALSE

\* Time passes while cmacs is idle, busy elsewhere, asleep or not running.
Pass ==
  /\ now < MaxTime
  /\ Waiting
  /\ now' = now + 1
  /\ UNCHANGED <<file, tables, mode, timer, frames, bounds, history>>

Command == ops < MaxOps /\ ops' = ops + 1 /\ UNCHANGED faults
Fault == faults < MaxFaults /\ faults' = faults + 1 /\ UNCHANGED ops

-----------------------------------------------------------------------------
(* The loops.                                                              *)

Enabled(e) == e # Absent /\ e.enabled

\* (cmacs-brigade-schedule-mode 1), up to the start of the catch-up.
ModeOn ==
  /\ frames = <<>>
  /\ last' = disk
  /\ mode' = TRUE
  /\ frames' = <<Frame("catchup", Listing, Idle, "idle")>>
  /\ since' = [s \in Ids |-> IF Enabled(file[s]) THEN now ELSE Never]
  /\ UNCHANGED <<now, file, disk, timer, bounds, started, failed, lost>>

ModeOff ==
  /\ frames = <<>>
  /\ mode
  /\ Command
  /\ mode' = FALSE /\ timer' = Never
  /\ since' = Nothing
  /\ UNCHANGED <<now, file, tables, frames, started, failed, lost>>

\* The timer goes off; anything that keeps cmacs busy makes it late.
Tick ==
  /\ timer # Never /\ timer <= now
  /\ Waiting /\ Len(frames) < MaxDepth
  /\ timer' = Never
  /\ frames' = <<Frame("tick", Listing, Idle, "idle")>> \o frames
  /\ UNCHANGED <<now, file, tables, mode, bounds, history>>

RunNow(s) ==
  /\ frames = <<>>
  /\ s \in Present
  /\ Command
  /\ frames' = <<Frame("now", <<>>, [id |-> s, entry |-> file[s]], "write")>>
  /\ UNCHANGED <<now, file, tables, mode, timer, history>>

\* The next schedule of a loop: fired if it is due.
Consider ==
  /\ Working("idle") /\ Top.todo # <<>>
  /\ LET item == Head(Top.todo)
         f == [Top EXCEPT !.todo = Tail(@)]
     IN Put(IF IsDue(item, f) THEN With(f, item, "write") ELSE f)
  /\ UNCHANGED <<now, file, tables, mode, timer, bounds, history>>

\* The end of a loop.  Catching up is followed by the @reboot pass; that and a
\* tick end by aiming the timer.
EndLoop ==
  /\ Working("idle") /\ Top.todo = <<>>
  /\ IF Top.kind = "catchup"
     THEN Put(Frame("reboot", Listing, Idle, "idle")) /\ UNCHANGED timer
     ELSE /\ frames' = Tail(frames)
          /\ timer' = IF Top.kind = "now" THEN timer ELSE Rearmed(file)
  /\ UNCHANGED <<now, file, tables, mode, bounds, history>>

-----------------------------------------------------------------------------
(* Firing.                                                                 *)

\* The agent is derived, the task appended to the run log and adopted.
FireWrite ==
  /\ Working("write")
  /\ Put(With(Top, Top.job, "record"))
  /\ UNCHANGED <<now, file, tables, mode, timer, bounds, history>>

GiveUp(f) ==
  /\ \E stage \in {"write", "start"} : Working(stage)
  /\ Fault
  /\ failed' = IF Top.stage = "write" THEN failed \cup {Top.job.id} ELSE failed
  /\ Put(f)
  /\ UNCHANGED <<now, file, tables, mode, timer, started, since, lost>>

Done(f) == With(f, Idle, "idle")

\* The rest of the loop given up with the schedule that failed.
FireFailStops == GiveUp([Done(Top) EXCEPT !.todo = <<>>])

\* No such agent, an unwritable log, or a task that cannot be started: the
\* loop goes on, and run-now, which has nothing left to do, ends.
FireFail == GiveUp(Done(Top))

Recorded(table) ==
  /\ Working("record")
  /\ last' = [last EXCEPT ![Top.job.id] = now]
  /\ disk' = table
  /\ lost' = (lost \/ Loses(disk', {}))
  /\ failed' = failed \ {Top.job.id}
  /\ Put(With(Top, Top.job, "start"))
  /\ UNCHANGED <<now, file, mode, timer, bounds, started, since>>

\* The time kept in memory only.
FireRecordUnsaved == Recorded(disk)

FireRecord == Recorded(last')

FireStart ==
  /\ Working("start")
  /\ started' = [started EXCEPT ![Top.job.id] = now]
  /\ Put(With(Top, Top.job, "wait"))
  /\ UNCHANGED <<now, file, tables, mode, timer, bounds, since, failed, lost>>

FireDone ==
  /\ Working("wait")
  /\ Put(Done(Top))
  /\ UNCHANGED <<now, file, tables, mode, timer, bounds, history>>

-----------------------------------------------------------------------------
(* Edits of the schedule file, from a command or from an agent's tool.     *)

\* An id is minted for a new headline and never used again.
Unused(s) ==
  /\ last[s] = Never /\ disk[s] = Never /\ started[s] = Never
  /\ \A i \in DOMAIN frames :
       /\ frames[i].job # Idle => frames[i].job.id # s
       /\ \A j \in DOMAIN frames[i].todo : frames[i].todo[j].id # s

Edited(s, e, t) ==
  /\ Waiting
  /\ Command
  /\ file' = [file EXCEPT ![s] = e]
  /\ timer' = t
  /\ since' = [since EXCEPT ![s] = IF mode /\ Enabled(e) THEN now ELSE Never]
  /\ UNCHANGED <<now, mode, frames, started, failed>>

Reloaded(f) == IF mode THEN Rearmed(f) ELSE timer

\* The file changed and the timer left as it was.
SetPropertyUnarmed(s, e) ==
  /\ s \in Present \/ Unused(s)
  /\ file[s] # e
  /\ Edited(s, e, timer)
  /\ UNCHANGED <<tables, lost>>

\* schedule-add, schedule-set-property and schedule-set-enabled.
SetProperty(s, e) ==
  /\ s \in Present \/ Unused(s)
  /\ file[s] # e
  /\ Edited(s, e, Reloaded(file'))
  /\ UNCHANGED <<tables, lost>>

Delete(s) ==
  /\ s \in Present
  /\ Edited(s, Absent, Reloaded(file'))
  /\ last' = [last EXCEPT ![s] = Never]
  /\ disk' = last'
  /\ lost' = (lost \/ Loses(disk', {s}))

\* cmacs exits or dies.  The state file is rewritten in place: dying while it
\* is written leaves one that cannot be read, which loads as no times at all.
Crash ==
  /\ Fault
  /\ frames' = <<>> /\ mode' = FALSE /\ timer' = Never
  /\ last' = Nothing /\ since' = Nothing /\ failed' = {}
  /\ disk' \in IF Working("record") THEN {disk, Nothing} ELSE {disk}
  /\ lost' = (lost \/ Loses(disk', {}))
  /\ UNCHANGED <<now, file, started>>

-----------------------------------------------------------------------------
Next ==
  \/ Pass
  \/ ModeOn
  \/ ModeOff
  \/ Tick
  \/ \E s \in Ids : RunNow(s)
  \/ Consider
  \/ EndLoop
  \/ FireWrite
  \/ FireFail
  \/ FireRecord
  \/ FireStart
  \/ FireDone
  \/ \E s \in Ids, e \in Entries : SetProperty(s, e)
  \/ \E s \in Ids : Delete(s)
  \/ Crash

Spec == Init /\ [][Next]_vars

-----------------------------------------------------------------------------
(* Properties.                                                             *)

Items == [id : Ids, entry : Entries]

\* The shape of the state: a loop is between two firings exactly when it has no
\* job (the dolist bodies of --tick, --catch-up and the mode).
TypeOK ==
  /\ now \in Time
  /\ file \in [Ids -> Entries \cup {Absent}]
  /\ \A f \in {last, disk, started, since} : f \in [Ids -> Time \cup {Never}]
  /\ mode \in BOOLEAN /\ lost \in BOOLEAN
  /\ timer = Never \/ timer \in Nat
  /\ ops \in 0..MaxOps /\ faults \in 0..MaxFaults
  /\ failed \subseteq Ids
  /\ Len(frames) <= MaxDepth
  /\ \A i \in DOMAIN frames :
       /\ frames[i].kind \in Loops /\ frames[i].at \in Time
       /\ \A j \in DOMAIN frames[i].todo : frames[i].todo[j] \in Items
       /\ IF frames[i].stage = "idle" THEN frames[i].job = Idle
          ELSE frames[i].stage \in Stages /\ frames[i].job \in Items

\* The reference for when an entry fires after a given time.
FirstFire ==
  [e \in Entries, t \in Time |->
     IF e.spec.kind = "cron" THEN FirstMatch(e.spec, t) ELSE NextTime(e.spec, t)]
Slot(entry, after) == FirstFire[entry, after]

\* The field-wise search of cmacs-brigade-schedule-next finds the first matching
\* minute, skipping none, and gives up only on what never fires.
NextIsFirst ==
  \A s \in Present :
    NextFire[file[s], now] = Slot(file[s], now)

\* At rest with the mode on, the one timer never sleeps past the next fire of
\* any enabled schedule, whatever was edited, fired or failed; with the mode off
\* there is no timer (cmacs-brigade-schedule--rearm, -reload, -mode).
TimerAimed ==
  frames = <<>> =>
    /\ ~mode => timer = Never
    /\ mode => \A s \in Present :
         file[s].enabled /\ Slot(file[s], now) # Never
           => timer # Never /\ timer <= Slot(file[s], now) + 1

\* A task that was started is one a restart will not forget: its time was in
\* the state file first, unless that file was lost (schedule-fire's order).
RunRemembered ==
  \A s \in Present :
    started[s] # Never /\ ~lost => disk[s] # Never /\ disk[s] >= started[s]

\* Ticks and catch-ups, nested or after a restart, never start a schedule twice
\* for one fire: its next time after the previous start has come.
NoDoubleRun ==
  [][\A s \in Present :
       started'[s] # started[s] /\ started[s] # Never /\ ~lost
         /\ Top.kind \in {"tick", "catchup"}
       => /\ Slot(Top.job.entry, started[s]) # Never
          /\ Slot(Top.job.entry, started[s]) < now]_vars

\* When a tick ends, every schedule that had fired before and was left alone
\* meanwhile has nothing outstanding from before the tick, however late the
\* tick, unless firing it failed (cmacs-brigade-schedule--tick).
TickServes ==
  [][Len(frames') < Len(frames) /\ mode' /\ Top.kind = "tick"
     => \A s \in Present \ failed :
          last[s] # Never /\ since[s] # Never /\ since[s] < Top.at
          => LET due == Slot(file[s], last[s]) IN due = Never \/ due >= Top.at]_vars

\* An @every schedule left enabled has fired by the end of its second interval,
\* once no tick is pending: "a plain interval, e.g. @every 30m"
\* (doc_org/cmacs/ai-brigade/scheduling.org).
EveryFires ==
  frames = <<>> /\ (timer = Never \/ timer > now) =>
    \A s \in Present \ failed :
      file[s].spec.kind = "every" /\ since[s] # Never
        /\ now > since[s] + 2 * file[s].spec.interval
      => last[s] # Never
=============================================================================
