SPECIFICATION Spec
CONSTANTS
  MaxClientCount = 2
  ExtraClientCount = 0
  MaxLobbyCount = 1
  MaxLobbyUserCount = 3
  MaxRoomCountByLobby = 1
  MaxRoomUserCount = 2
  RoomPageSize = 1
  UserPageSize = 2
  NoID = NoID
  UserIDs = {alice, bob}
  StartIndexes <- MCStartIndexes
  FreshGameStates <- MCIdleGames
  MaxRoomCreations = 1
SYMMETRY IDSymmetry
VIEW logicVars
PROPERTY LobbyClosesAnnounced
