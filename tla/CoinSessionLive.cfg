SPECIFICATION FairSpec
CONSTANTS
  a = a
  b = b
  f1 = f1
  f2 = f2
  m = m
  s = s
  NoClient = NoClient
  NoFd = NoFd
  NoNode = NoNode
  Clients = {a, b}
  MasterNode = m
  Nodes = {m, s}
  Fds = {f1}
  Pulses <- BurstPulses
  SessionQueueSize = 1
  PulseQueueSize = 1
  MaxFraud = 1
  MaxCoins = 2
PROPERTIES
  ImplementsCoinSlot
  WindowReleased
  ClaimServed
