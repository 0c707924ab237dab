SPECIFICATION Spec
CONSTANTS
  box = box
  pallet = pallet
  lot1 = lot1
  line1 = line1
  line2 = line2
  None = None
  Other = Other
  Lines = {line1, line2}
  Parent <- MCParent
  Pickings <- MCPickings
  Stocks <- MCStocks
  EditQtys = {1, 3}
  MaxEdits = 1
CHECK_DEADLOCK FALSE
INVARIANTS TypeOK LinksFit VerdictIsTrue PreparedIsReserved
