SPECIFICATION Spec
CONSTANTS
  MaxClientCount = 2
  ExtraClientCount = 0
  MaxLobbyCount = 2
  MaxLobbyUserCount = 2
  MaxRoomCountByLobby = 1
  MaxRoomUserCount = 1
  RoomPageSize = 1
  UserPageSize = 1
  NoID = NoID
  UserIDs = {alice, bob}
  StartIndexes <- MCAllStarts
  FreshGameStates <- MCIdleGames
  MaxRoomCreations = 1
SYMMETRY IDSymmetry
VIEW logicVars
INVARIANTS
  LobbyMembership
  RoomMembership
  RemoveUserStaysInside
PROPERTIES
  UsedUpLobbiesStayShut
  NewsStaysInPlace
  ImplementsPresence
