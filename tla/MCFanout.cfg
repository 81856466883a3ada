SPECIFICATION FairSpec
CONSTANTS
  User = {s1, s2, t1}
  Student = {s1, s2}
  Event = {e1}
  LIMIT = 2
  MaxChanges = 4
PROPERTIES
  ImplementsAnnouncement
  LoopAdvances
  EveryCallEnds
INVARIANTS
  TypeOK
  MissedAtMostDrops
  RepeatsAtMostReturns
  OptedOutGetNothing
  StudentsOnly
  NoPageBeyondActive
CHECK_DEADLOCK FALSE
