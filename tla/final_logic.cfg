SPECIFICATION Spec
CONSTANTS
  MaxClientCount = 2
  ExtraClientCount = 1
  MaxLobbyCount = 2
  MaxLobbyUserCount = 2
  MaxRoomCountByLobby = 1
  MaxRoomUserCount = 1
  RoomPageSize = 1
  UserPageSize = 1
  NoID = NoID
  UserIDs = {alice, bob}
  StartIndexes = {0}
VIEW logicVars
INVARIANTS
  TypeOK
  PresentAreListed
  ListedHaveSeats
PROPERTIES
  GhostsAreForEver
  LobbyMovesAnnounced
  ImplementsPresence
