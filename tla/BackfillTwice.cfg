SPECIFICATION Spec
CONSTANTS
  Editors = {1}
  PerUnit = 2
  Stock = 10
  MaxSold = 2
  MaxQueue = 2
INVARIANT
  RunsOnce
