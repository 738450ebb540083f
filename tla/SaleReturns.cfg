SPECIFICATION Spec
CONSTANTS
  bread = bread
  milk = milk
  first = first
  second = second
  a = a
  b = b
  c = c
  refund1 = refund1
  refund2 = refund2
  delete1 = delete1
  delete2 = delete2
  nobody = nobody
  Sales = {first, second}
  Lines = {a, b, c}
  SaleOf <- MCSaleOf
  ProductOf <- MCProductOf
  Sold <- MCSold
  Products = {bread, milk}
  Opening <- MCOpening
  Refunders = {refund1, refund2}
  Deleters = {delete1, delete2}
  Quantities = {0, 1, 2}
  Nobody = nobody
INVARIANTS
  TypeOK
  RefundKeepsSale
  GivesBackItsOwn
  StockMatchesRows
