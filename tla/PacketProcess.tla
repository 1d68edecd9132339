---------------------------- MODULE PacketProcess ---------------------------
(***************************************************************************)
(* PacketProcess: the logic thread handles one packet at a time.  Each     *)
(* action below is one handler, run to completion.  A handler's early      *)
(* returns are its ...Error operator: the first check that fails names the *)
(* ErrorCode of the reply, "NONE" lets the handler go on.  Requests of a   *)
(* session are handled between its NTF_SYS_CONNECT_SESSION and its         *)
(* NTF_SYS_CLOSE_SESSION: TcpNetwork queues them in that order.            *)
(***************************************************************************)
EXTENDS Room

CONSTANTS
  StartIndexes,     \* start indices that list requests ask for
  MaxRoomCreations  \* bound on the creations explored: createdRooms only grows

(* From 32768 creations on, RoomManager::GetRoom finds no room and          *)
(* RoomUserList would follow nullptr (LEMMA ListTooLongIsBlind).            *)
ASSUME RequestAssumption == StartIndexes \subseteq Int /\ MaxRoomCreations \in 0..32767

VARIABLES
  connected,   \* ConnectedUser::m_ConnectedTime is set
  loginOK,     \* ConnectedUser::m_IsLoginSuccess
  sent         \* what the last handler passed to SendData, in order

connVars  == <<connected, loginOK>>
logicVars == <<userVars, lobbyVars, roomVars, connVars>>
vars      == <<freeUsers, sessionDic, domain, sessionOf, idOf, lobbyOf, roomOf,
               slots, lobbyUsers, used, members, game, createdRooms,
               connected, loginOK, sent>>

Init ==
  /\ UserInit
  /\ LobbyInit
  /\ RoomInit
  /\ connected = [s \in Sessions |-> FALSE]
  /\ loginOK   = [s \in Sessions |-> FALSE]
  /\ sent      = <<>>

(* u is the user object of session s, and l and r are the indices it holds. *)
IsAt(s, u, l, r) == u = sessionDic[s] /\ l = lobbyOf[u] /\ r = roomOf[u]

(* The CHECK_ERR exit of a handler: an error reply and nothing else. *)
Refuse(s, pkt, err) ==
  /\ err # "NONE"
  /\ sent' = <<Reply(s, pkt, err)>>
  /\ UNCHANGED logicVars

(* GetUser, then the domain check with its own error code. *)
DomainError(s, wanted, err) ==
  IF GetUserError(s) # "NONE" THEN GetUserError(s)
  ELSE IF ~IsCurDomainIn(sessionDic[s], wanted) THEN err
  ELSE "NONE"

(* ... then GetLobby of the user's lobby index. *)
LobbyError(s, wanted, domainErr, lobbyErr) ==
  IF DomainError(s, wanted, domainErr) # "NONE" THEN DomainError(s, wanted, domainErr)
  ELSE IF lobbyOf[sessionDic[s]] \notin Lobbies THEN lobbyErr
  ELSE "NONE"

(* ... then, for a user in a room, GetRoom of the user's room index. *)
RoomError(s, domainErr, lobbyErr) ==
  IF LobbyError(s, "ROOM", domainErr, lobbyErr) # "NONE"
  THEN LobbyError(s, "ROOM", domainErr, lobbyErr)
  ELSE IF roomOf[sessionDic[s]] \notin RoomNos THEN "ROOM_ENTER_INVALID_ROOM_INDEX"
  ELSE "NONE"

-----------------------------------------------------------------------------
(* Connection and login *)

NtfSysConnctSession(s) ==
  /\ ~connected[s]
  /\ connected' = [connected EXCEPT ![s] = TRUE]
  /\ sent' = <<>>
  /\ UNCHANGED <<userVars, lobbyVars, roomVars, loginOK>>

CloseUserLobbyOnly(s, u, l, r) ==   \* a user in a room is not taken out of the lobby
  LET rm == <<l, r>>
      hasLobby == l \in Lobbies
      hasRoom  == hasLobby /\ r \in RoomNos
  IN  /\ IF hasRoom /\ RoomLeaveUserError(rm, u) = "NONE"
         THEN RoomLeaveUser(rm, u)
         ELSE UNCHANGED roomVars
      /\ IF hasLobby /\ ~hasRoom THEN LeaveUser(l, u) ELSE UNCHANGED lobbyVars
      /\ RemoveUser(s, u)
      /\ sent' = <<>>

(* Leave the room the indices point to, then the lobby, then the server.  *)
(* The lobby index survives LobbyLeave and the room index survives both   *)
(* RoomLeave and LobbyLeave, so they may point where the user no longer   *)
(* is; the results of both LeaveUser calls are ignored.                   *)
CloseUser(s, u, l, r) ==
  LET rm == <<l, r>>
      hasLobby == l \in Lobbies
      hasRoom  == hasLobby /\ r \in RoomNos
  IN  /\ IF hasRoom /\ RoomLeaveUserError(rm, u) = "NONE"
         THEN RoomLeaveUser(rm, u)
         ELSE UNCHANGED roomVars
      /\ IF hasLobby THEN LeaveUser(l, u) ELSE UNCHANGED lobbyVars
      /\ RemoveUser(s, u)
      /\ sent' =
           IF hasRoom
           THEN <<NotifyUser("ROOM_LEAVE_USER_NTF", RoomLeaveListeners(rm)', idOf[u]),
                  RoomChanged(LobbyListeners(l, None), RoomInfo(rm)')>>
           ELSE IF hasLobby
           THEN <<NotifyUser("LOBBY_LEAVE_USER_NTF", LobbyListeners(l, u)', idOf[u])>>
           ELSE <<>>

NtfSysCloseSession(s) ==
  /\ connected[s]
  /\ connected' = [connected EXCEPT ![s] = FALSE]
  /\ loginOK'   = [loginOK EXCEPT ![s] = FALSE]
  /\ \/ /\ GetUserError(s) = "NONE"
        /\ \E u \in Users, l \in Lobbies \cup {None}, r \in RoomNos \cup {None} :
             /\ IsAt(s, u, l, r)
             /\ CloseUser(s, u, l, r)
     \/ /\ GetUserError(s) # "NONE"
        /\ sent' = <<>>
        /\ UNCHANGED <<userVars, lobbyVars, roomVars>>

(* There is no check that the session has not logged in before. *)
Login(s, id) ==
  \/ Refuse(s, "LOGIN_IN_RES", AddUserError(id))
  \/ /\ AddUserError(id) = "NONE"
     /\ AddUser(s, id)
     /\ loginOK' = [loginOK EXCEPT ![s] = TRUE]
     /\ sent' = <<Reply(s, "LOGIN_IN_RES", "NONE")>>
     /\ UNCHANGED <<lobbyVars, roomVars, connected>>

LobbyList(s) ==
  LET err == DomainError(s, "LOGIN", "LOBBY_LIST_INVALID_DOMAIN")
  IN  \/ Refuse(s, "LOBBY_LIST_RES", err)
      \/ /\ err = "NONE"
         /\ sent' = <<LobbyListInfo(s)>>
         /\ UNCHANGED logicVars

-----------------------------------------------------------------------------
(* Lobby *)

LobbyEnterError(s, l) ==
  IF DomainError(s, "LOGIN", "LOBBY_ENTER_INVALID_DOMAIN") # "NONE"
  THEN DomainError(s, "LOGIN", "LOBBY_ENTER_INVALID_DOMAIN")
  ELSE IF l \notin Lobbies THEN "LOBBY_ENTER_INVALID_LOBBY_INDEX"
  ELSE EnterUserError(l, sessionDic[s])

LobbyEnter(s, l) ==
  \/ Refuse(s, "LOBBY_ENTER_RES", LobbyEnterError(s, l))
  \/ /\ LobbyEnterError(s, l) = "NONE"
     /\ UNCHANGED <<poolVars, roomVars, connVars>>
     /\ \E u \in Users :
          /\ u = sessionDic[s]
          /\ EnterUser(l, u)
          /\ sent' = <<NotifyLobbyEnterUserInfo(l, u)',
                       Reply(s, "LOBBY_ENTER_RES", "NONE")>>

LobbyLeaveError(s) ==
  LET err == LobbyError(s, "LOBBY", "LOBBY_LEAVE_INVALID_DOMAIN",
                        "LOBBY_LEAVE_INVALID_LOBBY_INDEX")
  IN  IF err # "NONE" THEN err
      ELSE LeaveUserError(lobbyOf[sessionDic[s]], sessionDic[s])

LobbyLeave(s) ==
  \/ Refuse(s, "LOBBY_LEAVE_RES", LobbyLeaveError(s))
  \/ /\ LobbyLeaveError(s) = "NONE"
     /\ UNCHANGED <<poolVars, roomVars, connVars>>
     /\ \E u \in Users, l \in Lobbies :
          /\ u = sessionDic[s] /\ l = lobbyOf[u]
          /\ LeaveUser(l, u)
          /\ UserLeaveLobby(u)
          /\ sent' = <<NotifyLobbyLeaveUserInfo(l, u)',
                       Reply(s, "LOBBY_LEAVE_RES", "NONE")>>

LobbyRoomList(s, start) ==
  LET err == LobbyError(s, "LOBBY", "LOBBY_ROOM_LIST_INVALID_DOMAIN",
                        "LOBBY_ROOM_LIST_INVALID_LOBBY_INDEX")
  IN  \/ Refuse(s, "LOBBY_ENTER_ROOM_LIST_RES", err)
      \/ /\ err = "NONE"
         /\ sent' = SendRoomList(s, lobbyOf[sessionDic[s]], start)
         /\ UNCHANGED logicVars

LobbyUserList(s, start) ==
  LET err == LobbyError(s, "LOBBY", "LOBBY_USER_LIST_INVALID_DOMAIN",
                        "LOBBY_USER_LIST_INVALID_LOBBY_INDEX")
  IN  \/ Refuse(s, "LOBBY_ENTER_USER_LIST_RES", err)
      \/ /\ err = "NONE"
         /\ sent' = SendUserList(s, lobbyOf[sessionDic[s]], start)
         /\ UNCHANGED logicVars

LOBBYChat(s) ==
  LET u == sessionDic[s]
      err == LobbyError(s, "LOBBY", "LOBBY_CHAT_INVALID_DOMAIN",
                        "LOBBY_CHAT_INVALID_LOBBY_INDEX")
  IN  \/ Refuse(s, "LOBBY_CHAT_RES", err)
      \/ /\ err = "NONE"
         /\ sent' = <<NotifyChat(lobbyOf[u], sessionOf[u], idOf[u]),
                      Reply(s, "LOBBY_CHAT_RES", "NONE")>>
         /\ UNCHANGED logicVars

WisperError(s, id) ==
  LET u == sessionDic[s]
      to == FindUserByID(id)
  IN  IF GetUserError(s) # "NONE" THEN GetUserError(s)
      ELSE IF to = None THEN "LOBBY_WHISPER_CHAT_INVALID_SEND_USER"
      ELSE IF lobbyOf[to] # lobbyOf[u] THEN "LOBBY_WHISPER_USER_DIFFERENT_DOMAIN"
      ELSE LobbyError(s, "LOBBY", "LOBBY_CHAT_INVALID_DOMAIN",
                      "LOBBY_CHAT_INVALID_LOBBY_INDEX")

LOBBYWisperChat(s, id) ==
  LET u == sessionDic[s]
      to == FindUserByID(id)
  IN  \/ Refuse(s, "LOBBY_WHISPER_CHAT_RES", WisperError(s, id))
      \/ /\ WisperError(s, id) = "NONE"
         /\ sent' = <<NotifyWisperChat(to, idOf[u]),
                      Reply(s, "LOBBY_WHISPER_CHAT_RES", "NONE")>>
         /\ UNCHANGED logicVars

-----------------------------------------------------------------------------
(* Room *)

RoomEnterError(s, create, r) ==
  LET err == LobbyError(s, "LOBBY", "ROOM_ENTER_INVALID_DOMAIN",
                        "ROOM_ENTER_INVALID_LOBBY_INDEX")
      l == lobbyOf[sessionDic[s]]
  IN  IF err # "NONE" THEN err
      ELSE IF create
      THEN IF UnusedRoomNo(l) = None THEN "ROOM_ENTER_EMPTY_ROOM" ELSE "NONE"
      ELSE IF r \notin RoomNos THEN "ROOM_ENTER_INVALID_ROOM_INDEX"
      ELSE RoomEnterUserError(<<l, r>>)

(* A room that is not in use is empty, so the user who creates it is never *)
(* refused by EnterUser (RoomMembership).                                  *)
RoomEnter(s, create, r) ==
  \/ Refuse(s, "ROOM_ENTER_RES", RoomEnterError(s, create, r))
  \/ /\ RoomEnterError(s, create, r) = "NONE"
     /\ UNCHANGED <<poolVars, lobbyVars, connVars>>
     /\ \E u \in Users, l \in Lobbies, no \in RoomNos :
          /\ u = sessionDic[s] /\ l = lobbyOf[u]
          /\ no = IF create THEN UnusedRoomNo(l) ELSE r
          /\ IF create
             THEN Len(createdRooms) < MaxRoomCreations /\ CreateRoomFor(<<l, no>>, u)
             ELSE RoomEnterUser(<<l, no>>, u)
          /\ UserEnterRoom(u, l, no)
          /\ sent' =
               <<NotifyLobbyLeaveUserInfo(l, u)',
                 RoomChanged(LobbyListeners(l, None)', RoomInfo(<<l, no>>)'),
                 NotifyUser("ROOM_ENTER_USER_NTF", RoomListeners(<<l, no>>, u)', idOf[u]),
                 Reply(s, "ROOM_ENTER_RES", "NONE")>>

RoomLeaveError(s) ==
  LET u == sessionDic[s]
      err == RoomError(s, "ROOM_LEAVE_INVALID_DOMAIN", "ROOM_ENTER_INVALID_LOBBY_INDEX")
  IN  IF err # "NONE" THEN err
      ELSE RoomLeaveUserError(<<lobbyOf[u], roomOf[u]>>, u)

RoomLeave(s) ==
  \/ Refuse(s, "ROOM_LEAVE_RES", RoomLeaveError(s))
  \/ /\ RoomLeaveError(s) = "NONE"
     /\ UNCHANGED <<poolVars, lobbyVars, connVars>>
     /\ \E u \in Users, l \in Lobbies, r \in RoomNos :
          /\ IsAt(s, u, l, r)
          /\ RoomLeaveUser(<<l, r>>, u)
          /\ UserEnterLobby(u, l)
          /\ sent' =
               <<NotifyUser("ROOM_LEAVE_USER_NTF", RoomLeaveListeners(<<l, r>>)', idOf[u]),
                 NotifyLobbyEnterUserInfo(l, u)',
                 RoomChanged(LobbyListeners(l, None)', RoomInfo(<<l, r>>)'),
                 Reply(s, "ROOM_LEAVE_RES", "NONE")>>

RoomChat(s) ==
  LET u == sessionDic[s]
      err == RoomError(s, "ROOM_CHAT_INVALID_DOMAIN", "ROOM_CHAT_INVALID_LOBBY_INDEX")
  IN  \/ Refuse(s, "ROOM_CHAT_RES", err)
      \/ /\ err = "NONE"
         /\ sent' = <<RoomNotifyChat(<<lobbyOf[u], roomOf[u]>>, sessionOf[u], idOf[u]),
                      Reply(s, "ROOM_CHAT_RES", "NONE")>>
         /\ UNCHANGED logicVars

(* The room is looked up in RoomManager's list of all rooms created so far, *)
(* at the number the user's room has in its lobby.  The code does not check *)
(* the result for nullptr (RoomManagerCovers: up to 32767 creations a room  *)
(* is found).                                                               *)
RoomUserList(s, start) ==
  LET u == sessionDic[s]
      err == DomainError(s, "ROOM", "LOBBY_USER_LIST_INVALID_DOMAIN")
      rm == createdRooms[roomOf[u] + 1]
  IN  \/ Refuse(s, "ROOM_ENTER_USER_LIST_RES", err)
      \/ /\ err = "NONE"
         /\ Refuse(s, "ROOM_ENTER_USER_LIST_RES", RoomSendUserListError(rm, start))
      \/ /\ err = "NONE"
         /\ RoomSendUserListError(rm, start) = "NONE"
         /\ sent' = <<RoomSendUserList(s, rm, start)>>
         /\ UNCHANGED logicVars

-----------------------------------------------------------------------------
(* Game *)

GameErrorAnyCount(s) ==   \* a dropped member count check
  LET u == sessionDic[s]
      rm == <<lobbyOf[u], roomOf[u]>>
      err == RoomError(s, "ROOM_CHAT_INVALID_DOMAIN", "ROOM_CHAT_INVALID_LOBBY_INDEX")
  IN  IF err # "NONE" THEN err
      ELSE IF ~IsMaster(rm, u) THEN "ROOM_GAME_USER_INVALID_MASTER"
      ELSE "NONE"

GameError(s) ==
  LET u == sessionDic[s]
      rm == <<lobbyOf[u], roomOf[u]>>
      err == RoomError(s, "ROOM_CHAT_INVALID_DOMAIN", "ROOM_CHAT_INVALID_LOBBY_INDEX")
  IN  IF err # "NONE" THEN err
      ELSE IF ~IsMaster(rm, u) THEN "ROOM_GAME_USER_INVALID_MASTER"
      ELSE IF Len(members[rm]) # 2 THEN "ROOM_GAME_USER_COUNT"
      ELSE "NONE"

StartGame(rm) ==
  /\ game' = [game EXCEPT ![rm] = "STARTING"]
  /\ UNCHANGED <<userVars, lobbyVars, used, members, createdRooms, connVars>>

(* CGame::NowState, of the room the session's user is in *)
NowState(s) == game[<<lobbyOf[sessionDic[s]], roomOf[sessionDic[s]]>>]

MasterGameError(s) ==
  IF GameError(s) # "NONE" THEN GameError(s)
  ELSE IF NowState(s) = "NONE" THEN "ROOM_GAME_STATE"
  ELSE "NONE"

(* The other member gets the reply packet, with no body. *)
RoomMasterGameStart(s) ==
  LET u == sessionDic[s]
      rm == <<lobbyOf[u], roomOf[u]>>
  IN  \/ Refuse(s, "ROOM_MASTER_GAME_STATE_RES", MasterGameError(s))
      \/ /\ MasterGameError(s) = "NONE"
         /\ StartGame(rm)
         /\ sent' = <<NotifyUser("ROOM_MASTER_GAME_STATE_RES", RoomListeners(rm, u), NoID),
                      Reply(s, "ROOM_MASTER_GAME_STATE_RES", "NONE")>>

GameStartError(s) ==
  IF GameError(s) # "NONE" THEN GameError(s)
  ELSE IF NowState(s) # "STARTING" THEN "ROOM_GAME_STATE"
  ELSE "NONE"

RoomGameStart(s) ==
  LET u == sessionDic[s]
  IN  \/ Refuse(s, "ROOM_GAME_STATE_RES", GameStartError(s))
      \/ /\ GameStartError(s) = "NONE"
         /\ StartGame(<<lobbyOf[u], roomOf[u]>>)
         /\ sent' = <<Reply(s, "ROOM_GAME_STATE_RES", "NONE")>>

-----------------------------------------------------------------------------
(* PacketProcess::Process.  Lobby and room numbers are explored one beyond *)
(* the valid ones.                                                         *)

Request(s) ==
  /\ connected[s]
  /\ \/ \E id \in UserIDs : Login(s, id) \/ LOBBYWisperChat(s, id)
     \/ LobbyList(s)
     \/ \E l \in 0..MaxLobbyCount : LobbyEnter(s, l)
     \/ LobbyLeave(s)
     \/ \E start \in StartIndexes :
          LobbyRoomList(s, start) \/ LobbyUserList(s, start) \/ RoomUserList(s, start)
     \/ LOBBYChat(s)
     \/ RoomEnter(s, TRUE, None)
     \/ \E r \in 0..MaxRoomCountByLobby : RoomEnter(s, FALSE, r)
     \/ RoomLeave(s)
     \/ RoomChat(s)
     \/ RoomMasterGameStart(s)
     \/ RoomGameStart(s)

Next ==
  \E s \in Sessions :
    NtfSysConnctSession(s) \/ NtfSysCloseSession(s) \/ Request(s)

Spec == Init /\ [][Next]_vars
=============================================================================
