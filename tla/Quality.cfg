\* Two checks of one version that may overlap, be cancelled and run twice.
SPECIFICATION Spec
CONSTANTS
  Workers = {w1, w2}
  Clients = {r1}
  Checks = {q1, q2}
  NoJob = NoJob
  Samples = {a, b, c, d}
  Bad = {a, c, d}
  Missing = {c}
  Empty = {a}
  Twins = {a, b}
  MaxFaults = 1
  MaxCopies = 1
  Lasting = {b, c, d}
SYMMETRY Symmetry
CONSTRAINT LastingStay
INVARIANTS
  TypeOK
  LastReportIsKept
  ReportIsOfOneCheck
\* A version may come to rest.
CHECK_DEADLOCK FALSE
