SPECIFICATION Spec
CONSTANTS
  MaxClientCount = 2
  ExtraClientCount = 1
  MaxLobbyCount = 1
  MaxLobbyUserCount = 3
  MaxRoomCountByLobby = 2
  MaxRoomUserCount = 2
  RoomPageSize = 1
  UserPageSize = 1
  NoID = NoID
  UserIDs = {alice, bob}
  StartIndexes <- MCStartIndexes
  FreshGameStates <- MCOneFresh
  MaxRoomCreations = 2
SYMMETRY IDSymmetry
VIEW logicVars
INVARIANTS
  TypeOK
  UserPoolConsistent
  SessionsOwnUsers
  LobbyMembership
  RoomMembership
  RemoveUserStaysInside
  RoomManagerCovers
PROPERTIES
  RoomChangesAnnounced
  LobbyMovesAnnounced
  NewsStaysInPlace
  GameStartIsShared
  ImplementsPresence

