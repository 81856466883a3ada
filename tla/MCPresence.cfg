SPECIFICATION FairSpec
CONSTANTS
  User = {u1, u2}
  NoUser = NoUser
  Socket = {c1, c2}
  Lookup = {e1}
  MaxLosses = 2
INVARIANTS
  TypeOK
  RegistrationKept
  StaleExplained
  ExpectedAreHinted
  NobodyWaitsInVain
PROPERTIES
  LookupsAdvance
  ImplementsDirectory
  EveryLookupEnds
CHECK_DEADLOCK FALSE
