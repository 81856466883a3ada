SPECIFICATION Spec
CONSTANTS
  Mail = {m1, m2}
  User = {u1, u2}
  Address = {a1, a2}
  None = None
  MaxChanges = 2
SYMMETRY Symmetry
INVARIANTS
  TypeOK
  SentOnce
  OnlyToTheAddressee
