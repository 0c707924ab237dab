SPECIFICATION Spec
CONSTANTS
  NProcs = 1
  m1 = m1
  m2 = m2
  Moves = {m1, m2}
  ProcOf <- MCOneProc
  NJobs = 3
  NoJob = NoJob
  MaxRetries = 2
  UserMoves = FALSE
  Drained = FALSE
  Kinds = {"run", "check", "restart", "moves", "cancel", "reconfirm"}
CHECK_DEADLOCK FALSE
VIEW MCView
SYMMETRY MCMoveSymmetry
INVARIANTS TypeOK OneLiveJobPerProc ConfirmedOnce
