SPECIFICATION Spec
CONSTANTS
  g = g
  NoMonth = NoMonth
  Groups = {g}
  Created <- FirstMonth
  MaxDay = 1
  MonthLength = 2
  KeepDays = 0
  MaxUsed = 1
  MaxSales = 1
  LostMonths = {}
  MaxJobs = 3
  MaxIncome = 1
INVARIANTS
  RolledUpKept
  FrozenWhenAbsent
  VoucherBacked
PROPERTY VendoKept
