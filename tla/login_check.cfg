SPECIFICATION FairSpec
CONSTANTS
  SessionCount = 4
  CheckSlice = 2
  LoginLimit = 2
INVARIANTS
  TypeOK
PROPERTIES
  LateSessionsAreClosed
  ClosesOnlyLateSessions
