SPECIFICATION Spec
CONSTANTS
  bread = bread
  milk = milk
  ana = ana
  ivan = ivan
  first = first
  second = second
  norow = norow
  noone = noone
  Products = {bread, milk}
  Revisions = {first, second}
  Clerks = {ana, ivan}
  Amounts <- MCAmounts
  NoRow = norow
  NoOne = noone
  Opening <- MCOpening
  MaxFound = 1
  MaxMoved = 1
INVARIANTS
  TypeOK
  OneOpenRevision
  CountsReachStock
  StockMatchesHistory
PROPERTIES
  ClosedStaysClosed
  ChangesAreRecorded
SYMMETRY Symmetric
