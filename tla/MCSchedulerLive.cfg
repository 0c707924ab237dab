SPECIFICATION FairSpec
CONSTANTS
  o1 = o1
  o2 = o2
  c1 = c1
  c2 = c2
  Orderpoints = {o1, o2}
  Companies = {c1}
  CompanyOf <- MCCompanyOf
  SeqsOf <- MCSeqsOf
  RunProcs = RunProcs
  NoJob = NoJob
  NoCompany = NoCompany
  Kinds = {"all"}
  Filters = {{o1}, {o1, o2}}
  LinesAge = TRUE
  MaxRuns = 1
  MaxPops = 5
  ChunkSize = 1
  ManualRequeue = FALSE
  Screens = FALSE
  MaxDeletions = 1
CHECK_DEADLOCK FALSE
INVARIANTS TypeOK SequencesDoNotOverlap OneJobPerLine GateMeansIdle
PROPERTY LinesSettle
