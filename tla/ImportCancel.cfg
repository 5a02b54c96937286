\* One request cancels while one worker runs.
SPECIFICATION Spec
CONSTANTS
  a = a
  b = b
  c = c
  Samples = {a, b, c}
  Manifest <- TwoImages
  AssetsOf <- SharedAnnotation
  CommitBatch = 2
  Workers = {w1}
  Clients = {r1}
  FirstScan = scan1
  Rescans = {}
  ImportJobs = {imp1}
  NoJob = NoJob
  MaxFaults = 0
  MaxCopies = 1
  ApiMayDie = FALSE
PROPERTY CancelIsFinal
\* A session may come to rest: nothing is left to do once its jobs have ended.
CHECK_DEADLOCK FALSE
