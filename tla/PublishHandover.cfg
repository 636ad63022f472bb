SPECIFICATION HandoverSpec

CONSTANTS
  i1 = i1
  i2 = i2
  Items = {i1, i2}
  NoItem = NoItem
  Execs = {x1, x2}
  Ops = {o1, o2}
  NoOp = NoOp
  FirstOps = {o1}
  MarkedOps = {o1}
  VoidOps = {o2}
  Owner <- MCOwner
  Budget <- MCBudget
  Claims = 3
  Crashes = 1
  Lapses = 1
  Revives = 1
  Aborts = 0
  Cancels = 1
  Rejects = 0
  Timeouts = 0
  Unreads = 0
  Calls = 3
  b1 = b1
  b2 = b2
  RecordRuns = {x1, x2}
  RecordBatches = {b1, b2}
  BatchItem <- MCBatchItem
  SpecialistBatches = {b1}
  LightItems = {}
  MaxRecordClaims = 3
  MaxRecordFaults = 1
  FindingThreads = {"t1"}
  MaxVerifyRuns = 2
  FirstRevisions = {1}
  MaxVerifyMoves = 2

SYMMETRY ExecSymmetry

INVARIANT ReconciledIsReal
PROPERTY OutcomesHonest
 
PROPERTY VerificationSound

CHECK_DEADLOCK FALSE
