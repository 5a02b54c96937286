\* Competing purges under fair workers, with a crash or redelivery.
SPECIFICATION FairSpec
CONSTANTS
  Workers = {w1, w2}
  Clients = {r1, r2}
  Purges = {p1, p2}
  Exports = {}
  NoJob = NoJob
  Stored = {x}
  MaxFaults = 1
  MaxCopies = 1
  ApiMayDie = FALSE
INVARIANT PurgingIsUnderWay
PROPERTY PurgingEnds
\* A dataset may come to rest: nothing need happen once its jobs have ended.
CHECK_DEADLOCK FALSE
