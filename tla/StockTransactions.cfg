SPECIFICATION Spec
CONSTANTS
  latte = latte
  milk = milk
  coffee = coffee
  till1 = till1
  till2 = till2
  office = office
  nobody = nobody
  Products <- MCProducts
  RecipeProducts = {latte}
  Recipe <- MCRecipe
  Requests = {till1, till2}
  NoRequest = nobody
  Documents <- MCDocuments
  Opening <- MCOpening
INVARIANTS
  TypeOK
  NoLostUpdate
  NoOrphanLock
  StockMatchesDocuments
PROPERTY
  ImplementsLedger
