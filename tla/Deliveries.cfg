SPECIFICATION Spec
CONSTANTS
  flour = flour
  sugar = sugar
  mill = mill
  none = none
  invoice = invoice
  writeoff = writeoff
  a = a
  b = b
  c = c
  edit1 = edit1
  edit2 = edit2
  delete1 = delete1
  delete2 = delete2
  noline = noline
  nobody = nobody
  Deliveries = {invoice, writeoff}
  Lines = {a, b, c}
  DeliveryOf <- MCDeliveryOf
  KindOf <- MCKindOf
  Suppliers = {mill}
  NoSupplier = none
  Products = {flour, sugar}
  Quantities = {1}
  Editors = {edit1, edit2}
  Deleters = {delete1, delete2}
  Opening <- MCOpening
  NoLine = noline
  Nobody = nobody
SYMMETRY Alike
INVARIANTS
  TypeOK
  NoLineAlone
PROPERTIES
  
  StockFollowsLines
CHECK_DEADLOCK FALSE
