\* Two users delete, restore, purge and export one dataset; one fault anywhere.
SPECIFICATION Spec
CONSTANTS
  Workers = {w1, w2}
  Clients = {r1, r2}
  Purges = {p1, p2}
  Exports = {e1}
  NoJob = NoJob
  Stored = {x, y}
  MaxFaults = 1
  MaxCopies = 1
  ApiMayDie = TRUE
SYMMETRY Symmetry
INVARIANTS
  TypeOK
  PInv
  RowsOutliveObjects
  ActiveIsWhole
  SomePurgeReports
\* A dataset may come to rest: nothing need happen once its jobs have ended.
CHECK_DEADLOCK FALSE
