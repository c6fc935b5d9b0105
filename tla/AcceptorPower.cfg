SPECIFICATION PowerSpec
CONSTANT MaxOutages = 2
INVARIANTS
  OffWhenIdle
  OnInWindow
PROPERTIES
  OffAfterOutage
  LedFollows
