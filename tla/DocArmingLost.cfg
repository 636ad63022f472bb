SPECIFICATION Spec

CONSTANTS
  i1 = i1
  i2 = i2
  Items = {i1}
  NoItem = NoItem
  Execs = {x1, x2}
  Ops = {o1}
  NoOp = NoOp
  FirstOps = {o1}
  MarkedOps = {o1}
  VoidOps = {}
  Owner <- MCOwner
  Budget <- MCBudget
  Claims = 3
  Crashes = 1
  Lapses = 1
  Revives = 1
  Aborts = 0
  Cancels = 0
  Rejects = 0
  Timeouts = 1
  Unreads = 0
  Calls = 3

SYMMETRY ExecSymmetry

INVARIANT AtMostOnce

CHECK_DEADLOCK FALSE
