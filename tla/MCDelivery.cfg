SPECIFICATION Spec
CONSTANTS
  Student = {u1}
  Staff = {t1}
  Course = {k1, k2}
  None = None
  Process = {p1, p2}
  Socket = {c1}
  Space = {"/", "/students"}
  Event = {e1}
  Target = {u1, k1, k2, "global", "student"}
  MaxMoves = 2
SYMMETRY Symmetry
PROPERTIES
  ImplementsAnnouncement
INVARIANTS
  TypeOK
  HintAnnouncesRecord
  RecordIsHinted
  CourseIsRecorded
