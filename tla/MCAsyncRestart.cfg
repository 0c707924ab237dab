SPECIFICATION Spec
CONSTANTS
  NProcs = 1
  m1 = m1
  m2 = m2
  Moves = {m1, m2}
  ProcOf <- MCOneProc
  NJobs = 2
  NoJob = NoJob
  MaxRetries = 2
  UserMoves = FALSE
  Drained = FALSE
  Kinds = {"run", "restart"}
CHECK_DEADLOCK FALSE
PROPERTY RestartRelaunches
