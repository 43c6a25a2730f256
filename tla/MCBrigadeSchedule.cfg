CONSTANTS
  Minute = 2
  HourLen = 2
  DayLen = 2
  WeekLen = 2
  HorizonDays = 9
  Never = never
  Absent = absent
  Idle = idle
  s1 = s1
  s2 = s2
  MonthDays <- MCMonthDays
  Order <- MCOrder
  Files <- MCFiles
  Entries <- MCEntries
  Grace = 8
  Start = 57
  MaxTime = 63
  MaxOps = 1
  MaxFaults = 1
  MaxDepth = 2
SPECIFICATION Spec
INVARIANTS NextIsFirst TimerAimed RunRemembered
PROPERTIES NoDoubleRun 
CHECK_DEADLOCK FALSE
