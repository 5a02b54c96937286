\* Two users edit, delete, undo and redo while the import is adding samples.
SPECIFICATION Spec
CONSTANTS
  Clients = {r1, r2}
  Samples = {a, b}
  Subsets = {"train", "val"}
  Imported = "train"
  Names = {"part", "renamed"}
  FirstName = "part"
  MaxOps = 3
SYMMETRY Symmetry
INVARIANTS
  TypeOK
  DeletionsAreExplained
  HistoryExplainsColumns
CONSTRAINT Bounded
\* A part may come to rest.
CHECK_DEADLOCK FALSE
