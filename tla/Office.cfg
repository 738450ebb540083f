CONSTANTS
  n1 = n1
  n2 = n2
  n3 = n3
  n4 = n4
  k1 = k1
  k2 = k2
  w1 = w1
  w2 = w2
  mill = mill
  clerk = clerk
  Users = {w1, w2}
  Requests = {n1, n2, n3, n4}
  OrderedProducts = {k1}
  Suppliers = {mill}
  Categories = {n1, n2, n3}
  Ranked <- MCRanked
  Orderable = {k1}
  Tabs = {1, 2}
  SaleCarts = {k1, k2}
  DeliveryCarts = {"bread", "waste"}
  KindOf <- MCKindOf
  MaxInFlight = 2
  MaxRequests = 4
  Lists = {1, 2}
  PricedProducts = {"tea", "bread"}
  PriceCategories = {"drinks"}
  PriceSuppliers = {"mill"}
  CategoryOf <- MCCategoryOf
  SuppliersOf <- MCSuppliersOf
  SellPrice <- MCSellPrice
  PriceRows <- MCRows
  Periods <- MCPeriods
  Priorities = {0, 1}
  PriceEditors = {clerk}
  LastPriceDay = 2
  MaxRules = 2
  Goods = {"flour"}
  Recipes = {"bun"}
  Uses <- MCUses
  Cooked <- MCCooked
  Opening <- MCOpening
  Quantities = {1}
  SalePrices = {1, 2}
  FirstPrice = 1
  LastDay = 2
  MaxEvents = 4
  Attributes = {k1, k2}
  Fields = {"is_archived"}
  Listed = {}
  Values = {0, 1}
  Unset = 0
  Codes = {n1, n2, n3}
  GRID_SLOT_COUNT = 2
  MaxRows = 3
  Local <- MCLocal
  Interval = 1
  ForceAfter = 2
  KeepMin = 2
  MaxSize = 1
  MaxChanges = 1
  FileNames = {"a", "b", "long"}
  TooLong = {"long"}
  MaxImports = 2
  FileCodes = {1, 2}
  FileBarcodes = {"x"}
  Files <- MCFiles
  MaxOthers = 2
  BlankCode = 0
  Amounts = {1, 2}
  MaxCommands = 4
  Top = top
  Blank = blank
  Empty = empty
  Bare = bare
  Nothing = nothing
  Off = off
SPECIFICATION Spec
SYMMETRY Alike
CHECK_DEADLOCK FALSE
INVARIANTS
  TypeOK
  OrderNumbers
  OrdersIntact
  DraftsStayHome
  DoneIsGone
  PageAgreesWithRegister
  ChargedAsShown
  AsOfIsAsItWas
  BalanceAddsUp
  TreeStaysWhole
  ProductAsEdited
  UnchangedMeansSaved
  NewestKept
  ImportOutcome
  TillExplained
