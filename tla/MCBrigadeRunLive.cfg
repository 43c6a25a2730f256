SPECIFICATION FairSpec
CONSTANTS
  Tasks = {t1, t2}
  Inproc = {t2}
  Large = {}
  Sessionless = {}
  NoAgent = {}
  NoWorker = {}
  MaxConcurrent = 1
  MaxAttempts = 2
  MailboxMax = 2
  Faults = {}
  MaxSends = 2
  MaxReruns = 0
  MaxDepth = 3
PROPERTIES
  MailDelivered
