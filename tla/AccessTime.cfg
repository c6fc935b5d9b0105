SPECIFICATION Spec
CONSTANTS
  Start = 7
  MaxNow = 9
  Minutes = 2
  MaxPurchases = 2
  MaxCrashes = 1
  JobQueueSize = 2
INVARIANTS
  TypeOK
  NeverNowhere
