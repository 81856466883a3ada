SPECIFICATION Spec
CONSTANTS
  User = {u1, u2}
  Save = {n1}
  Removed = {n1}
  Listing = {l1}
  Deletion = {d1, d2}
  LIMIT = 1
  Skips = {0}
  MaxClock = 0
SYMMETRY CallSymmetry
INVARIANTS
  DanglingExplained
  DeletedStaysDeleted
PROPERTIES
  OnlyOwnersDelete
  ImplementsMailbox
CHECK_DEADLOCK FALSE
