SPECIFICATION Spec
CONSTANTS
  Tasks = {t1, t2, t3}
  Inproc = {}
  Large = {t1}
  Sessionless = {t3}
  NoAgent = {t3}
  NoWorker = {t2}
  MaxConcurrent = 1
  MaxAttempts = 2
  MailboxMax = 1
  Faults = {"prepare", "spawn", "hook", "late"}
  MaxSends = 1
  MaxReruns = 1
  MaxDepth = 3
SYMMETRY Symmetry
INVARIANTS
  CredentialScoped
  SandboxOwned
