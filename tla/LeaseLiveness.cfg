SPECIFICATION FairSpec

CONSTANTS
  Items = {a1}
  AutoItems = {a1}
  InvalidItems = {}
  BotItems = {}
  NoItem = NoItem
  Workers = {w1, w2}
  JobIds = {j1, j2, j3}
  NoJob = NoJob
  RetryLimit = 1
  HopSlots = 1
  ErrorKinds = {}
  Crashes = 1
  Aborts = 0
  Stalls = 0
  Arms = 0
  Defers = 0
  Throws = 0
  FaultBudget <- MCFaultBudget

PROPERTY WorkSettles

CHECK_DEADLOCK FALSE
