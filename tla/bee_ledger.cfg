SPECIFICATION Spec
CONSTANTS
  s1 = s1
  s2 = s2
  s3 = s3
  Sessions = {s1, s2}
  None = None
  DefaultLimit = 0
  Cmds <- LedgerCmds
  InitAccs <- LedgerAccs
  InitCards <- TwoCards
  Fees <- DailyFees
  MaxOps = 2
  MaxFaults = 0
SYMMETRY Symmetry
INVARIANTS TypeOK NoStaleWrite NewAccountsDistinct
PROPERTIES LedgerRefined FrozenHolds LockCommandExcludes
