SPECIFICATION FairSpec
CONSTANTS
  Master = m
  Slaves = {s1}
  Tasks = {t1, t2}
  Builds = {1, 2, 3}
  Size = 2
  NoSession = NoSession
  MaxUpdates = 2
  MaxFaults = 2
INVARIANTS
  TypeOK
  CommittedWhole
  SessionReleased
PROPERTIES
  NeverDowngraded
  SlavesFollow
