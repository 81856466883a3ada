SPECIFICATION Spec
CONSTANTS
  User = {u1}
  Save = {n1, n2}
  Removed = {n1}
  Listing = {l1}
  Deletion = {}
  LIMIT = 1
  Skips = {0}
  MaxClock = 0
SYMMETRY CallSymmetry
INVARIANTS
  UnseenIsCounted
CHECK_DEADLOCK FALSE
