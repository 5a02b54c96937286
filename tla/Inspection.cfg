\* Every archive of up to four of sixteen files, packed in any order.
SPECIFICATION Spec
CONSTANTS
  MaxFiles = 4
  MaxDepth = 4
  MaxPacked = 4
  ClassNames <- MCClassNames
  Undotted <- MCUndotted
  Files <- MCFiles
INVARIANTS
  TypeOK
  ScanPredictsImport
  LabelsNameAnnotations
  OrderDoesNotMatter
  CocoKeepsImages
\* An archive may be complete.
CHECK_DEADLOCK FALSE
