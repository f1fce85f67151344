SPECIFICATION CartSpec
CONSTANTS
  NoProduct = NoProduct
  Products = {agua}
  Handlers = {h1, h2}
  CartIds = {1, 2}
  MaxStock = 2
  StockChanges = FALSE
  TTL = 1
  MaxTime = 2
  MaxQuantity = 2
INVARIANTS
  CartWithinStock
CHECK_DEADLOCK FALSE
