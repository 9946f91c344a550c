SPECIFICATION Spec
CONSTANTS
  c1 = c1
  c2 = c2
  d1 = d1
  d2 = d2
  em0 = em0
  em1 = em1
  Callers = {c1, c2}
  Master = Master
  Names = {em0, em1}
  Descs = {d1, d2}
  Nil = Nil
  UserSigs = {"HUP", "TERM"}
  MaxCmds = 2
  MaxEvents = 0
CHECK_DEADLOCK FALSE
INVARIANTS OneProcess
