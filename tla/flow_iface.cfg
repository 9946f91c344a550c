SPECIFICATION FairSpec
CONSTANTS
  c1 = c1
  c2 = c2
  d1 = d1
  d2 = d2
  em0 = em0
  em1 = em1
  Callers = {c1, c2}
  Master = Master
  Names = {em0, em1}
  Descs = {d1, d2}
  Nil = Nil
  UserSigs = {"HUP", "TERM"}
  MaxCmds = 3
  MaxEvents = 2
INVARIANTS IfaceTypeOK NoUseAfterFree NoLeak ResetDone CleanUnload
PROPERTIES CallsReturn
CONSTRAINT UntilTheyMeet
CHECK_DEADLOCK FALSE
