CONSTANTS
  Minute = 2
  HourLen = 2
  DayLen = 2
  WeekLen = 2
  HorizonDays = 9
  Never = never
  Absent = absent
  Idle = idle
  s1 = s1
  s2 = s2
  MonthDays <- MCMonthDays
  Order <- OneOrder
  Files <- EveryFiles
  Entries <- EveryEntries
  Grace = 8
  Start = 2
  MaxTime = 14
  MaxOps = 0
  MaxFaults = 0
  MaxDepth = 1
SPECIFICATION Spec
INVARIANT EveryFires
CHECK_DEADLOCK FALSE
