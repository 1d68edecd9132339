SPECIFICATION Spec
CONSTANTS
  SessionCount = 1
  MaxSendBuffer = 4
  MaxConnections = 2
  MaxRequests = 2
INVARIANTS
  RepliesReachTheirSession
