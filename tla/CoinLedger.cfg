SPECIFICATION LedgerSpec
CONSTANTS
  a = a
  b = b
  f1 = f1
  f2 = f2
  m = m
  s = s
  NoClient = NoClient
  NoFd = NoFd
  NoNode = NoNode
  Clients = {a, b}
  Fds = {f1, f2}
  MasterNode = m
  Nodes = {m, s}
  Pulses <- BurstPulses
  SessionQueueSize = 2
  PulseQueueSize = 1
  MaxFraud = 1
  MaxCoins = 2
  MaxAccepted = 2
INVARIANTS
  CoinsConserved
  LogsMatchSettlements
  TypeOK
  ClaimExclusive
  ChargedToHolder
  SlotOwned
  BootTestExclusive
PROPERTIES
  RebindOwn
SYMMETRY Symmetry
