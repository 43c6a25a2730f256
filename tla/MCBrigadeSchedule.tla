------------------------- MODULE MCBrigadeSchedule -------------------------
(* A calendar of two-minute hours and two-hour days in which a month is no   *)
(* shorter than a week and only every other year has a third day in its last *)
(* month.                                                                    *)
EXTENDS BrigadeSchedule, TLC

CONSTANTS s1, s2

MCMonthDays == <<<<2, 2>>, <<2, 3>>>>
MCOrder == <<s1, s2>>
OneOrder == <<s1>>

Cron(minute, hour, dom, month, dow) ==
  [kind |-> "cron",
   minute |-> minute, hour |-> hour,
   dom |-> IF dom = {} THEN 1..3 ELSE dom, domStar |-> dom = {},
   month |-> month,
   dow |-> IF dow = {} THEN 0..1 ELSE dow, dowStar |-> dow = {}]

Entry(spec, catchup, enabled) ==
  [spec |-> spec, catchup |-> catchup, enabled |-> enabled]
Every(interval) == [kind |-> "every", interval |-> interval]

\* Every hour at its second minute; the first of the month or the second day
\* of the week; the leap day; an interval shorter than a minute; at startup;
\* and a typo.
Hourly == Entry(Cron({1}, {0, 1}, {}, {1, 2}, {}), "skip", TRUE)
Either == Entry(Cron({1}, {0}, {1}, {1, 2}, {1}), "run", TRUE)
Leap   == Entry(Cron({0}, {1}, {3}, {2}, {}), "run", TRUE)
Often  == Entry(Every(1), "skip", TRUE)
Reboot == Entry([kind |-> "reboot"], "skip", TRUE)
Typo   == Entry([kind |-> "error"], "skip", TRUE)
Parked == [Hourly EXCEPT !.enabled = FALSE]

HourlyRun == [Hourly EXCEPT !.catchup = "run"]
MCEntries == {Hourly, HourlyRun, Either, Leap, Often, Reboot, Typo, Parked}
Pair(a, b) == s1 :> a @@ s2 :> b
MCFiles ==
  {Pair(Hourly, Either), Pair(Often, Either), Pair(Reboot, Leap),
   Pair(Typo, HourlyRun), Pair(Parked, Absent)}

Rarely == Entry(Every(4), "skip", TRUE)
EveryEntries == {Rarely}
EveryFiles == {s1 :> Rarely}
=============================================================================
