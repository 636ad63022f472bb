\* What a review waits for comes to an end.
SPECIFICATION EndsSpec
CONSTANTS
  EndsParts = {"verdict", "progress", "review", "session"}
  \* verdict: one execution, the acknowledgement, one repairer
  Acknowledged = TRUE
  LastEpoch = 1
  RepairerCount = 1
  MaxVerdictFaults = 1
  Published <- MCPublished
  \* progress comment: a small pool under the pressure of other locks
  MaxProgressItems = 1
  MaxTick = 1
  PoolMax = 4
  MaxProgressFaults = 1
  MaxOtherLocks = 2
  \* orchestrated review: one specialist, two tries
  Specialists = {"s1"}
  RepairRounds = 2
  RecoveryRounds = 1
  MaxReviewTries = 2
  MaxReviewFaults = 1
  Interrupts = {"deadline", "abort"}
  \* agent session: one send with any provider mishap
  MaxSends = 1
  MaxMishaps = 1
  MaxToolRounds = 2
  TurnRetryMax = 1
  OverflowCompactMax = 1
  KeepRecent = 2
  StopAt = 2
  SessionSignals = {"abort", "host"}
  Reservations = {TRUE}
PROPERTIES
  ReviewWaitsEnd
CHECK_DEADLOCK FALSE
