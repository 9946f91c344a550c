SPECIFICATION Spec
CONSTANTS
  s1 = s1
  s2 = s2
  n1 = n1
  n2 = n2
  Sessions = {s1, s2}
  None = None
  Names = {n1, n2}
  AnyName = AnyName
  Width = 2
  DefaultLimit = 0
  InitAccs <- TwoAccs
  InitGates <- TwoGates
  Contents <- Switches
  Cmds <- StaleCmds
  MaxOps = 2
  MaxCrashes = 0
INVARIANTS EveryGatePublished
