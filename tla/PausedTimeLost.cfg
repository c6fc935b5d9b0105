SPECIFICATION Spec
CONSTANTS
  Start = 7
  MaxNow = 10
  Minutes = 2
  MaxPurchases = 2
  MaxCrashes = 0
  JobQueueSize = 2
INVARIANT PausedOnFlash
