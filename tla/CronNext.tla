------------------------------ MODULE CronNext ------------------------------
(***************************************************************************)
(* When a schedule fires next (lisp/cmacs/cmacs-brigade-schedule.el).      *)
(*                                                                         *)
(* A time is a number of seconds since the first day of the calendar.  The *)
(* calendar itself, which the code takes from encode-time and decode-time, *)
(* is a parameter: the lengths of a minute, an hour, a day and a week, and *)
(* the months of each year of the leap cycle.  A specification is what     *)
(* cmacs-brigade-schedule-parse returns: a cron record with a set per      *)
(* field and the two "was it a star" flags, an interval, @reboot, or an    *)
(* expression that does not parse.                                         *)
(***************************************************************************)
EXTENDS Integers, Sequences, FiniteSets

CONSTANTS
  Minute,      \* seconds in a minute
  HourLen,     \* minutes in an hour
  DayLen,      \* hours in a day
  WeekLen,     \* days in a week
  MonthDays,   \* the lengths of the months, a sequence per year of the cycle
  HorizonDays, \* cmacs-brigade-schedule-max-horizon-days
  Never        \* nil: no such time

ASSUME CalendarAssumption ==
  /\ {Minute, HourLen, DayLen, WeekLen, HorizonDays} \subseteq Nat \ {0}
  /\ \A y \in DOMAIN MonthDays :
       /\ Len(MonthDays[y]) = Len(MonthDays[1])
       /\ \A m \in DOMAIN MonthDays[y] :
            MonthDays[y][m] \in Nat /\ MonthDays[y][m] >= WeekLen
  /\ Never \notin Nat

Hour == Minute * HourLen
Day == Hour * DayLen

-----------------------------------------------------------------------------
(* The calendar: months are counted from 0 through a leap cycle.           *)

Months == Len(MonthDays[1])
Cycle == Months * Len(MonthDays)

\* The first day of month k of a cycle, days counted from 0.
FirstDay[k \in 0..Cycle] ==
  IF k = 0 THEN 0
  ELSE FirstDay[k - 1] + MonthDays[((k - 1) \div Months) + 1][((k - 1) % Months) + 1]

CycleDays == FirstDay[Cycle]

\* The month day d is in, and the first day of the month after it.
MonthOf(d) ==
  CHOOSE k \in 0..(Cycle - 1) :
    FirstDay[k] <= d % CycleDays /\ d % CycleDays < FirstDay[k + 1]
NextMonth(d) == d - (d % CycleDays) + FirstDay[MonthOf(d) + 1]

Decode(t) ==
  LET d == t \div Day
      k == MonthOf(d)
  IN [minute |-> (t \div Minute) % HourLen,
      hour   |-> (t \div Hour) % DayLen,
      dom    |-> (d % CycleDays) - FirstDay[k] + 1,
      dow    |-> d % WeekLen,
      month  |-> (k % Months) + 1]

-----------------------------------------------------------------------------
(* Matching and searching.                                                 *)

\* Two restricted day fields are a union, not an intersection.
DayMatches(spec, d) ==
  LET domOk == d.dom \in spec.dom
      dowOk == d.dow \in spec.dow
  IN /\ spec.domStar => spec.dowStar \/ dowOk
     /\ spec.dowStar => spec.domStar \/ domOk
     /\ ~spec.domStar /\ ~spec.dowStar => domOk \/ dowOk

Matches(spec, t) ==
  LET d == Decode(t)
  IN /\ d.month \in spec.month
     /\ DayMatches(spec, d)
     /\ d.hour \in spec.hour
     /\ d.minute \in spec.minute

\* The next day skipped to without going back to its first minute.
AdvanceKeepingTime(spec, t) ==
  LET d == Decode(t)
  IN IF d.month \notin spec.month
     THEN NextMonth(t \div Day) * Day
     ELSE IF ~DayMatches(spec, d) THEN t + Day
     ELSE IF d.hour \notin spec.hour THEN ((t \div Hour) + 1) * Hour
     ELSE t + Minute

\* One step of the search: past the coarsest field that fails, every finer
\* field back at its beginning.
Advance(spec, t) ==
  LET d == Decode(t)
  IN IF d.month \notin spec.month
     THEN NextMonth(t \div Day) * Day
     ELSE IF ~DayMatches(spec, d) THEN ((t \div Day) + 1) * Day
     ELSE IF d.hour \notin spec.hour THEN ((t \div Hour) + 1) * Hour
     ELSE t + Minute

\* From the top of the minute after AFTER, looking at no more times than
\* there are minutes in the horizon.
CronNextTime(spec, after) ==
  LET Search[n \in Nat, t \in Nat] ==
        IF n = 0 THEN Never
        ELSE IF Matches(spec, t) THEN t
        ELSE Search[n - 1, Advance(spec, t)]
  IN Search[HorizonDays * DayLen * HourLen, ((after + Minute) \div Minute) * Minute]

\* cmacs-brigade-schedule-next, and nil for what does not parse.
NextTime(spec, after) ==
  CASE spec.kind = "cron" -> CronNextTime(spec, after)
    [] spec.kind = "every" -> after + spec.interval
    [] OTHER -> Never

-----------------------------------------------------------------------------
(* What the search is for.                                                 *)

\* The first minute after AFTER, within the leap cycle, that SPEC names.
FirstMatch(spec, after) ==
  LET Slots == {t \in (after + 1)..(after + CycleDays * Day) :
                  t % Minute = 0 /\ Matches(spec, t)}
  IN IF Slots = {} THEN Never
     ELSE CHOOSE t \in Slots : \A u \in Slots : t <= u
=============================================================================
