SPECIFICATION Spec
CONSTANTS
  User = {u1, u2}
  Change = {c1, c2, c3}
  Default = on
  Value = {on, off}
INVARIANTS
  TypeOK
  QuietChangeHolds
  DuplicatesExplained
PROPERTIES
  ImplementsStore
CHECK_DEADLOCK FALSE
