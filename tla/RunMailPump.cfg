SPECIFICATION Spec
CONSTANTS
  Tasks = {t1}
  Inproc = {}
  Large = {t1}
  Sessionless = {}
  NoAgent = {}
  NoWorker = {}
  MaxConcurrent = 1
  MaxAttempts = 2
  MailboxMax = 2
  Faults = {}
  MaxSends = 2
  MaxReruns = 0
  MaxDepth = 4
SYMMETRY Symmetry
PROPERTIES
  InboxRefined
