SPECIFICATION Spec
CONSTANTS
  Needs <- TwoNeeds
  MinQty = 1
  Packaging = 2
  Separate = {"redistribute", "fill"}
  NProcs = 5
  MaxLaunches = 3
  MaxReceipts = 2
  MaxChanges = 1
CHECK_DEADLOCK FALSE
INVARIANTS TypeOK RunningOnLine QuantityConserved EveryNeedOrdered NothingOrderedTwice OrderedOnlyWhenShort
