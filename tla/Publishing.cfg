\* What a pull request is shown, whoever writes it and in whatever order.
SPECIFICATION PublishingSpec
CONSTANTS
  PublishingParts = {"verdict", "progress", "finding", "ci", "triage", "review"}
  \* verdict: two lease epochs, one repairer
  Acknowledged = FALSE
  LastEpoch = 2
  RepairerCount = 1
  MaxVerdictFaults = 1
  Published <- MCPublished
  \* progress comment: a review and the one that replaces it
  MaxProgressItems = 2
  MaxTick = 0
  PoolMax = 4
  MaxProgressFaults = 0
  MaxOtherLocks = 0
  \* findings: two threads on one place, two runs
  FindingPlaces = {1}
  FirstSeverities <- MCFirstSeverities
  MaxFindingThreads = 2
  MaxFindingRuns = 2
  MaxObservations = 1
  MaxThreadMoves = 1
  \* head CI: two checks over a limit of one
  CheckNames = {"c1", "c2"}
  MaxChecks = 1
  Projectors = {"p1"}
  LastRevision = 1
  MaxCiEvents = 2
  MaxCiQueued = 1
  \* triage: two items, each tried twice
  TriageThreads = {"t1"}
  TriageModes = {"preview", "apply", "bulk"}
  TriageForks = {FALSE, TRUE}
  MaxTriageItems = 2
  MaxTriageTries = 2
  MaxTriageMoves = 1
  \* orchestrated review: two specialists, two tries
  Specialists = {"s1", "s2"}
  RepairRounds = 2
  RecoveryRounds = 1
  MaxReviewTries = 2
  MaxReviewFaults = 1
  Interrupts = {"superseded", "crash"}
INVARIANTS
  
  TriageSound
PROPERTIES
  VerdictSound
  ProgressCommentSound
  FindingSound
  
CHECK_DEADLOCK FALSE
