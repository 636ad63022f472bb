SPECIFICATION Spec

CONSTANTS
  Items = {a1}
  AutoItems = {a1}
  InvalidItems = {}
  BotItems = {}
  NoItem = NoItem
  Workers = {w1, w2}
  JobIds = {j1, j2, j3, j4}
  NoJob = NoJob
  RetryLimit = 1
  HopSlots = 1
  ErrorKinds = {"transient"}
  Crashes = 1
  Aborts = 1
  Stalls = 0
  Arms = 0
  Defers = 0
  Throws = 1
  FaultBudget <- MCFaultBudget

SYMMETRY SlotAndJobSymmetry

INVARIANT NothingStranded

CHECK_DEADLOCK FALSE
