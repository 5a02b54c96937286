\* One user completes an upload while the dataset is purged.
SPECIFICATION Spec
CONSTANTS
  Uploads = {u1}
  Keys = {k}
  NoKey = NoKey
  Clients = {r1}
  Workers = {w1, w2}
  None = None
SYMMETRY Symmetry
INVARIANT PurgeLeavesNoAsset
\* A dataset may come to rest.
CHECK_DEADLOCK FALSE
