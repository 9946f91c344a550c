SPECIFICATION FairSpec
CONSTANTS
  s1 = s1
  s2 = s2
  n1 = n1
  n2 = n2
  Sessions = {s1, s2}
  None = None
  Names = {n1, n2}
  AnyName = AnyName
  Width = 2
  DefaultLimit = 0
  InitAccs <- TwoAccs
  InitGates <- TwoGates
  Contents <- Switches
  Cmds <- GateCmds
  MaxOps = 3
  MaxCrashes = 1
INVARIANTS GatesDistinct Published ActiveSettles
PROPERTIES NoGateLost CommandsEnd
