SPECIFICATION Spec
CONSTANTS
  o1 = o1
  o2 = o2
  c1 = c1
  c2 = c2
  Orderpoints = {o1, o2}
  Companies = {c1, c2}
  CompanyOf <- MCCompanyOf
  SeqsOf <- MCSeqsOfFirst
  RunProcs = RunProcs
  NoJob = NoJob
  NoCompany = NoCompany
  Kinds = {"orderpoint"}
  Filters = {{o1, o2}}
  LinesAge = FALSE
  MaxRuns = 2
  MaxPops = 3
  ChunkSize = 1
  ManualRequeue = TRUE
  Screens = TRUE
  MaxDeletions = 0
CHECK_DEADLOCK FALSE
INVARIANTS SequenceBarrier DatedMeansProcessed InvalidatedNeverProcessed
PROPERTY ImplementsLineSchedule
