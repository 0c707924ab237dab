SPECIFICATION FairSpec
CONSTANTS
  p1 = p1
  p2 = p2
  Passes = {p1, p2}
  Horizon = 2
  MinQty = 1
  MaxQty = 2
  Multiple = 1
  NeedQtys = {2}
  FirstStock = {1}
  NProcs = 4
  MaxChanges = 3
CHECK_DEADLOCK FALSE
INVARIANT TypeOK
PROPERTIES PassCoversNeeds PassTrimsSupply PassesSettle
