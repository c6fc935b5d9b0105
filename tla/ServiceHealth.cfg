SPECIFICATION Spec
CONSTANTS
  MaxRestarts = 2
  MaxSales = 1
PROPERTY Recovers
