SPECIFICATION FairSpec
CONSTANTS
  s1 = s1
  s2 = s2
  s3 = s3
  Sessions = {s1, s2}
  None = None
  DefaultLimit = 0
  Cmds <- AuditCmds
  InitAccs <- AuditAccs
  InitCards <- NoCards
  Fees <- NoFees
  MaxOps = 2
  MaxFaults = 1
INVARIANTS LedgerBalanced LockOrder
PROPERTIES NoLogRecordLost UnlimitedNotCharged EveryCommandAnswered
