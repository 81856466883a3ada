SPECIFICATION Spec
CONSTANTS
  Student = {u1}
  Staff = {}
  Course = {k1}
  None = None
  Process = {p1}
  Socket = {c1}
  Space = {"/students"}
  Event = {e1}
  Target = {u1, k1}
  MaxMoves = 1
INVARIANTS
  OptOutHonoured
