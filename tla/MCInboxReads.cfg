SPECIFICATION Spec
CONSTANTS
  User = {u1}
  Save = {n1, n2}
  Removed = {n1}
  Listing = {l1, l2}
  Deletion = {}
  LIMIT = 1
  Skips = {0, 1}
  MaxClock = 1
SYMMETRY CallSymmetry
INVARIANTS
  TypeOK
  ReadUnseenExplained
  UnreadIsNew
  TotalCoversPage
CHECK_DEADLOCK FALSE
