SPECIFICATION Spec
CONSTANTS
  User = {u1, u2}
  NoUser = NoUser
  Socket = {c1, c2}
  Lookup = {e1}
  MaxLosses = 1
PROPERTIES
  MemoryPassedOn
CHECK_DEADLOCK FALSE
