SPECIFICATION FairSpec
CONSTANTS
  order = order
  line = line
  partner = partner
  bank = bank
  product = product
  Records <- OrderRecords
  Models <- OrderModels
  ModelOf <- OrderModel
  Deps <- OrderDeps
  Posts <- OrderPosts
  Exported = {order}
  Edited = {order, partner}
  Chunked = FALSE
  MaxVersion = 2
  MaxClock = 2
  MaxRuns = 1
  MaxAgain = 1
  MaxErrors = 1
CHECK_DEADLOCK FALSE
INVARIANTS TypeOK DependenciesFirst DoneIsTrue
PROPERTIES NeverBackwards ExportsArrive PostDependenciesFollow
