SPECIFICATION Spec
CONSTANTS
  s1 = s1
  s2 = s2
  s3 = s3
  Sessions = {s1, s2}
  None = None
  DefaultLimit = 0
  Cmds <- OffCmds
  InitAccs <- OffAccs
  InitCards <- NoCards
  Fees <- NoFees
  MaxOps = 2
  MaxFaults = 0
PROPERTIES UnlimitNotDebited
