\* One user and no fault: a purge queued while an earlier one fails.
SPECIFICATION Spec
CONSTANTS
  Workers = {w1, w2}
  Clients = {r1}
  Purges = {p1, p2}
  Exports = {e1}
  NoJob = NoJob
  Stored = {x, y}
  MaxFaults = 0
  MaxCopies = 1
  ApiMayDie = FALSE
SYMMETRY Symmetry
PROPERTY VisibleIsNotDestroyed
\* A dataset may come to rest: nothing need happen once its jobs have ended.
CHECK_DEADLOCK FALSE
