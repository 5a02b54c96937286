\* Two users upload to one dataset that is deleted, restored and purged.
SPECIFICATION Spec
CONSTANTS
  Uploads = {u1, u2}
  Keys = {k}
  NoKey = NoKey
  Clients = {r1, r2}
  Workers = {w1, w2}
  None = None
SYMMETRY Symmetry
INVARIANTS
  TypeOK
  KeysNameOneUpload
  NumbersHaveNoGaps
  JobsHaveUploads
CONSTRAINT Bounded
\* A dataset may come to rest.
CHECK_DEADLOCK FALSE
