\* A rescan at any moment, the API dying before its enqueue included.
SPECIFICATION Spec
CONSTANTS
  a = a
  b = b
  c = c
  Samples = {a, b, c}
  Manifest <- RepeatedImage
  AssetsOf <- SharedAnnotation
  CommitBatch = 2
  Workers = {w1, w2}
  Clients = {r1}
  FirstScan = scan1
  Rescans = {scan2}
  ImportJobs = {imp1, imp2}
  NoJob = NoJob
  MaxFaults = 1
  MaxCopies = 1
  ApiMayDie = TRUE
SYMMETRY Symmetry
INVARIANTS
  TypeOK
  IInv
  ReferencedAssetsStored
  ReadyMeansComplete
  SamplesAreIndexed
  ImportingHasActiveImport
PROPERTY ImplementsBatchedImport
\* A session may come to rest: nothing is left to do once its jobs have ended.
CHECK_DEADLOCK FALSE
