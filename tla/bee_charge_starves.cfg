SPECIFICATION FairSpec
CONSTANTS
  s1 = s1
  s2 = s2
  s3 = s3
  Sessions = {s1, s2}
  None = None
  DefaultLimit = 0
  Cmds <- ChargeCmds
  InitAccs <- ChargeAccs
  InitCards <- NoCards
  Fees <- DailyFees
  MaxOps = 1
  MaxFaults = 0
PROPERTIES EveryCommandAnswered
