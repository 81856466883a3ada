SPECIFICATION Spec
CONSTANTS
  Mail = {m1}
  User = {u1}
  Address = {a1}
  None = None
  MaxChanges = 0
PROPERTIES
  PlainMailIsTried
