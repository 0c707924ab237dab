SPECIFICATION Spec
CONSTANTS
  j1 = j1
  j2 = j2
  w1 = w1
  w2 = w2
  Jobs = {j1}
  Workers = {w1, w2}
  NoJob = NoJob
  Day = 6
  RunLimit = 2
  QueueLimit = 1
  MaxRetries = 2
  AutoRequeue = TRUE
  PromptHTTP = FALSE
  CarefulUsers = FALSE
  MaxMishaps = 1
  MaxCommits = 3
  MaxReqs = 2
INVARIANT DoneMeansCommitted
