SPECIFICATION Spec
CONSTANTS
  c1 = c1
  c2 = c2
  c3 = c3
  k1 = k1
  k2 = k2
  k3 = k3
  Callers = {c1, c2}
  Keys = {k1, k2, k3}
  Garbage = Garbage
  MinFlows = 1
  DefFlows = 2
  LimitFlows = 3
  Faulty = TRUE
  Cmds <- AllCmds
  MaxPackets = 4
  MaxCalls = 3
SYMMETRY Symmetry
INVARIANTS TypeOK TableSound Conserved NoSleepingPoller
PROPERTIES MeterRefined
CHECK_DEADLOCK FALSE
