SPECIFICATION Spec
CONSTANTS
  a = a
  b = b
  p = p
  q = q
  r = r
  NoIp = NoIp
  NoKey = NoKey
  Macs <- MCMacs
  Ips <- MCIps
INVARIANTS
  TypeOK
  LastSeenFound
SYMMETRY Symmetry
