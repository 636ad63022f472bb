SPECIFICATION RecoverySpec

CONSTANTS
  i1 = i1
  i2 = i2
  Items = {i1}
  NoItem = NoItem
  Execs = {x1, x2}
  Ops = {o1}
  NoOp = NoOp
  FirstOps = {o1}
  MarkedOps = {o1}
  VoidOps = {}
  Owner <- MCOwner
  Budget <- MCBudget
  Claims = 3
  Crashes = 1
  Lapses = 1
  Revives = 0
  Aborts = 1
  Cancels = 0
  Rejects = 1
  Timeouts = 1
  Unreads = 1
  Calls = 2
  AskWorkers = {w1, w2}
  AskRetryLimit = 1
  AskFaults = 2

SYMMETRY RecoverySymmetry

INVARIANT TypeOK
INVARIANT AtMostOnce
INVARIANT FailedIsUnsent
 
PROPERTY AskSound

CHECK_DEADLOCK FALSE
