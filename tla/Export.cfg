\* Two Parts, an edit, rescans and an export in every format.
SPECIFICATION Spec
CONSTANTS
  Workers = {w1, w2}
  MaxFiles = 20
  MaxDepth = 5
  ClassNames <- MCClassNames
  Undotted <- MCUndotted
  Archives <- MCArchives
  Formats = {"manifest", "yolo", "coco", "labelme", "voc"}
  Filters <- MCFilters
  NewNames = {"van"}
  MaxClass = 2
  MaxParts = 2
  MaxEdits = 1
  MaxFaults = 1
INVARIANTS
  TypeOK
  LabelsAreAsGiven
  ExportReadsBack
  ResultDescribesObject
CONSTRAINT Bounded
SYMMETRY Symmetry
\* A dataset may come to rest.
CHECK_DEADLOCK FALSE
