SPECIFICATION FairSpec
CONSTANTS
  SessionCount = 2
  MaxSendBuffer = 4
  MaxConnections = 3
  MaxRequests = 2
INVARIANTS
  TypeOK
  SessionPoolConsistent
  QueueInProtocol
  LogicTracksNetwork
  RequestsHandledInTime
  
PROPERTIES
  GoneClientsAreForgotten
  StopEndsTheThread
