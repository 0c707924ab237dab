SPECIFICATION Spec
CONSTANTS
  order = order
  line = line
  partner = partner
  bank = bank
  product = product
  Records <- OrderRecords
  Models <- OrderModels
  ModelOf <- OrderModel
  Deps <- OrderDeps
  Posts <- OrderPosts
  Exported = {order}
  Edited = {order}
  Chunked = FALSE
  MaxVersion = 2
  MaxClock = 3
  MaxRuns = 2
  MaxAgain = 0
  MaxErrors = 0
CHECK_DEADLOCK FALSE
INVARIANT DiffMissesNothing
