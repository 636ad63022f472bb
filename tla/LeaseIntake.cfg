SPECIFICATION Spec

CONSTANTS
  Items = {a1, a2, s1}
  AutoItems = {a1, a2}
  InvalidItems = {a2}
  BotItems = {s1}
  NoItem = NoItem
  Workers = {w1}
  JobIds = {j1, j2, j3}
  NoJob = NoJob
  RetryLimit = 1
  HopSlots = 1
  ErrorKinds = {"transient", "terminal", "preflight"}
  Crashes = 0
  Aborts = 0
  Stalls = 0
  Arms = 1
  Defers = 1
  Throws = 1
  FaultBudget <- MCFaultBudget

SYMMETRY SlotAndJobSymmetry

INVARIANT TypeOK
INVARIANT HolderRecorded
PROPERTY ClosureFreesLease
PROPERTY TerminalAbsorbing

CHECK_DEADLOCK FALSE
