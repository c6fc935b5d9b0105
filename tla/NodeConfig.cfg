SPECIFICATION FairSpec
CONSTANTS
  Values = {v1, v2}
  Digits = {v2}
  EnvText = v1
  KeyMax = 2
  Absent = Absent
  Garbled = Garbled
  NoFlash = NoFlash
  Slots = 4
  Others = 4
  MaxActs = 5
INVARIANTS
  TypeOK
  SettingsKept
  StaysProvisioned
PROPERTIES
  ComesBack
CHECK_DEADLOCK FALSE
