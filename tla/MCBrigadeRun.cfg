SPECIFICATION Spec
CONSTANTS
  Tasks = {t1, t2}
  Inproc = {t2}
  Large = {}
  Sessionless = {}
  NoAgent = {}
  NoWorker = {}
  MaxConcurrent = 1
  MaxAttempts = 2
  MailboxMax = 2
  Faults = {"spawn"}
  MaxSends = 2
  MaxReruns = 1
  MaxDepth = 4
SYMMETRY Symmetry
INVARIANTS
  TypeOK
  
  
  RunWillReport
  
  FinishOnce
  NoIdleQueue
PROPERTIES
  InboxRefined
  OldestFirst
