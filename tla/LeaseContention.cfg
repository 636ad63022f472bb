SPECIFICATION Spec

CONSTANTS
  Items = {a1, s1}
  AutoItems = {a1}
  InvalidItems = {}
  BotItems = {}
  NoItem = NoItem
  Workers = {w1, w2}
  JobIds = {j1, j2, j3}
  NoJob = NoJob
  RetryLimit = 1
  HopSlots = 1
  ErrorKinds = {}
  Crashes = 0
  Aborts = 0
  Stalls = 1
  Arms = 0
  Defers = 0
  Throws = 0
  FaultBudget <- MCFaultBudget

SYMMETRY SlotAndJobSymmetry

INVARIANT EpochUnique
INVARIANT AdmissionsDistinct
PROPERTY StaleHolderInert
PROPERTY ImplementsSingleActor

CHECK_DEADLOCK FALSE
