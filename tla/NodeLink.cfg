SPECIFICATION Spec
CONSTANTS
  s = s
  t = t
  NoCoin = NoCoin
  Slaves = {s, t}
  Skew <- InStep
  Fresh = 1
  Gap = 1
  RingSize = 6
  MaxNow = 4
  MaxWindows = 1
INVARIANTS
  CountedOnce
  FirstArrivalCounts
CHECK_DEADLOCK FALSE
