SPECIFICATION FairSpec
CONSTANTS
  j1 = j1
  j2 = j2
  w1 = w1
  w2 = w2
  Jobs = {j1, j2}
  Workers = {w1, w2}
  NoJob = NoJob
  Day = 4
  RunLimit = 2
  QueueLimit = 1
  MaxRetries = 1
  AutoRequeue = FALSE
  PromptHTTP = TRUE
  CarefulUsers = TRUE
  MaxMishaps = 1
  MaxCommits = 2
  MaxReqs = 1
INVARIANTS TypeOK CommitsAtMostOnce
PROPERTIES CronsSpareLiveRuns DoneIsFinal EveryJobSettles
