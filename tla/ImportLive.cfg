\* Every queued job is owned and ends; no symmetry, because the property is temporal.
SPECIFICATION FairSpec
CONSTANTS
  a = a
  b = b
  c = c
  Samples = {a, b, c}
  Manifest <- TwoImages
  AssetsOf <- SharedAnnotation
  CommitBatch = 1
  Workers = {w1, w2}
  Clients = {r1}
  FirstScan = scan1
  Rescans = {}
  ImportJobs = {imp1}
  NoJob = NoJob
  MaxFaults = 2
  MaxCopies = 1
  ApiMayDie = FALSE
INVARIANT ActiveJobsAreOwned
PROPERTY QueuedJobsEnd
\* A session may come to rest: nothing is left to do once its jobs have ended.
CHECK_DEADLOCK FALSE
