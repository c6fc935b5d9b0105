SPECIFICATION Spec
CONSTANTS
  MaxRestarts = 1
  MaxSales = 1
PROPERTY OutageNoticed
