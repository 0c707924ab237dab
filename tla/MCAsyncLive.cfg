SPECIFICATION FairSpec
CONSTANTS
  NProcs = 2
  m1 = m1
  m2 = m2
  Moves = {m1, m2}
  ProcOf <- MCOwnMove
  NJobs = 6
  NoJob = NoJob
  MaxRetries = 1
  UserMoves = TRUE
  Drained = TRUE
  Kinds = {"run", "moves"}
CHECK_DEADLOCK FALSE
PROPERTIES ConfirmedProcsRun DraftMovesConfirm
