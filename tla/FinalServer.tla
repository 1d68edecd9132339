----------------------------- MODULE FinalServer ----------------------------
(***************************************************************************)
(* The logic of Final/ChatServer, the later copy of the server that is     *)
(* being moved to another network: the same user objects and lobbies, no   *)
(* rooms (their handlers are not registered), and a NtfSysCloseSession     *)
(* that no longer takes the user out of the lobby.                         *)
(***************************************************************************)
EXTENDS Lobby

CONSTANT StartIndexes   \* start indices that list requests ask for

ASSUME StartAssumption == StartIndexes \subseteq Int

VARIABLES
  connected,   \* ConnectedUser::m_ConnectedTime is set
  loginOK,     \* ConnectedUser::m_IsLoginSuccess
  sent         \* what the last handler passed to SendData, in order

logicVars == <<userVars, lobbyVars, connected, loginOK>>
vars      == <<freeUsers, sessionDic, domain, sessionOf, idOf, lobbyOf, roomOf,
               slots, lobbyUsers, connected, loginOK, sent>>

Init ==
  /\ UserInit
  /\ LobbyInit
  /\ connected = [s \in Sessions |-> FALSE]
  /\ loginOK   = [s \in Sessions |-> FALSE]
  /\ sent      = <<>>

(* The error of a request: of GetUser, of the domain, then of the lobby. *)
UserError(s, wanted, domainErr) ==
  IF GetUserError(s) # "NONE" THEN GetUserError(s)
  ELSE IF ~IsCurDomainIn(sessionDic[s], wanted) THEN domainErr
  ELSE "NONE"

InLobbyError(s, domainErr, lobbyErr) ==
  IF UserError(s, "LOBBY", domainErr) # "NONE" THEN UserError(s, "LOBBY", domainErr)
  ELSE IF lobbyOf[sessionDic[s]] \notin Lobbies THEN lobbyErr
  ELSE "NONE"

(* A request that only sends. *)
Answer(messages) ==
  /\ sent' = messages
  /\ UNCHANGED logicVars

Refuse(s, pkt, err) == err # "NONE" /\ Answer(<<Reply(s, pkt, err)>>)

-----------------------------------------------------------------------------
NtfSysConnctSession(s) ==
  /\ ~connected[s]
  /\ connected' = [connected EXCEPT ![s] = TRUE]
  /\ sent' = <<>>
  /\ UNCHANGED <<userVars, lobbyVars, loginOK>>

CloseUserBySession(s, u) ==   \* half a repair: the session index as the key
  /\ RemoveUser(s, u)
  /\ lobbyUsers' = [l \in Lobbies |->
                      IF l = lobbyOf[u] THEN lobbyUsers[l] \ {s} ELSE lobbyUsers[l]]
  /\ UNCHANGED slots

(* The calls that took the user out of the lobby are commented out. *)
CloseUser(s, u) == RemoveUser(s, u) /\ UNCHANGED lobbyVars

NtfSysCloseSession(s) ==
  /\ connected[s]
  /\ connected' = [connected EXCEPT ![s] = FALSE]
  /\ loginOK'   = [loginOK EXCEPT ![s] = FALSE]
  /\ sent' = <<>>
  /\ \/ GetUserError(s) = "NONE" /\ \E u \in Users : u = sessionDic[s] /\ CloseUser(s, u)
     \/ GetUserError(s) # "NONE" /\ UNCHANGED <<userVars, lobbyVars>>

Login(s, id) ==
  \/ Refuse(s, "LOGIN_IN_RES", AddUserError(id))
  \/ /\ AddUserError(id) = "NONE"
     /\ AddUser(s, id)
     /\ loginOK' = [loginOK EXCEPT ![s] = TRUE]
     /\ sent' = <<Reply(s, "LOGIN_IN_RES", "NONE")>>
     /\ UNCHANGED <<lobbyVars, connected>>

LobbyList(s) ==
  LET err == UserError(s, "LOGIN", "LOBBY_LIST_INVALID_DOMAIN")
  IN  \/ Refuse(s, "LOBBY_LIST_RES", err)
      \/ err = "NONE" /\ Answer(<<LobbyListInfo(s)>>)

-----------------------------------------------------------------------------
LobbyEnterError(s, l) ==
  LET err == UserError(s, "LOGIN", "LOBBY_ENTER_INVALID_DOMAIN")
  IN  IF err # "NONE" THEN err
      ELSE IF l \notin Lobbies THEN "LOBBY_ENTER_INVALID_LOBBY_INDEX"
      ELSE EnterUserError(l, sessionDic[s])

LobbyEnter(s, l) ==
  \/ Refuse(s, "LOBBY_ENTER_RES", LobbyEnterError(s, l))
  \/ /\ LobbyEnterError(s, l) = "NONE"
     /\ UNCHANGED <<poolVars, connected, loginOK>>
     /\ \E u \in Users :
          /\ u = sessionDic[s]
          /\ EnterUser(l, u)
          /\ sent' = <<NotifyLobbyEnterUserInfo(l, u)',
                       Reply(s, "LOBBY_ENTER_RES", "NONE")>>

(* The call that sends the list is commented out: no answer but an error. *)
LobbyRoomList(s) ==
  LET err == InLobbyError(s, "LOBBY_ROOM_LIST_INVALID_DOMAIN",
                          "LOBBY_ROOM_LIST_INVALID_LOBBY_INDEX")
  IN  \/ Refuse(s, "LOBBY_ENTER_ROOM_LIST_RES", err)
      \/ err = "NONE" /\ Answer(<<>>)

LobbyUserList(s, start) ==
  LET err == InLobbyError(s, "LOBBY_USER_LIST_INVALID_DOMAIN",
                          "LOBBY_USER_LIST_INVALID_LOBBY_INDEX")
  IN  \/ Refuse(s, "LOBBY_ENTER_USER_LIST_RES", err)
      \/ err = "NONE" /\ Answer(SendUserList(s, lobbyOf[sessionDic[s]], start))

LOBBYChat(s) ==
  LET u == sessionDic[s]
      err == InLobbyError(s, "LOBBY_CHAT_INVALID_DOMAIN", "LOBBY_CHAT_INVALID_LOBBY_INDEX")
  IN  \/ Refuse(s, "LOBBY_CHAT_RES", err)
      \/ /\ err = "NONE"
         /\ Answer(<<NotifyChat(lobbyOf[u], sessionOf[u], idOf[u]),
                     Reply(s, "LOBBY_CHAT_RES", "NONE")>>)

LobbyLeaveError(s) ==
  LET err == InLobbyError(s, "LOBBY_LEAVE_INVALID_DOMAIN", "LOBBY_LEAVE_INVALID_LOBBY_INDEX")
  IN  IF err # "NONE" THEN err
      ELSE LeaveUserError(lobbyOf[sessionDic[s]], sessionDic[s])

LobbyLeave(s) ==
  \/ Refuse(s, "LOBBY_LEAVE_RES", LobbyLeaveError(s))
  \/ /\ LobbyLeaveError(s) = "NONE"
     /\ UNCHANGED <<poolVars, connected, loginOK>>
     /\ \E u \in Users, l \in Lobbies :
          /\ u = sessionDic[s] /\ l = lobbyOf[u]
          /\ LeaveUser(l, u)
          /\ UserLeaveLobby(u)
          /\ sent' = <<NotifyLobbyLeaveUserInfo(l, u)',
                       Reply(s, "LOBBY_LEAVE_RES", "NONE")>>

WisperError(s, id) ==
  LET to == FindUserByID(id)
  IN  IF GetUserError(s) # "NONE" THEN GetUserError(s)
      ELSE IF to = None THEN "LOBBY_WHISPER_CHAT_INVALID_SEND_USER"
      ELSE IF lobbyOf[to] # lobbyOf[sessionDic[s]] THEN "LOBBY_WHISPER_USER_DIFFERENT_DOMAIN"
      ELSE InLobbyError(s, "LOBBY_CHAT_INVALID_DOMAIN", "LOBBY_CHAT_INVALID_LOBBY_INDEX")

LOBBYWisperChat(s, id) ==
  \/ Refuse(s, "LOBBY_WHISPER_CHAT_RES", WisperError(s, id))
  \/ /\ WisperError(s, id) = "NONE"
     /\ Answer(<<NotifyWisperChat(FindUserByID(id), idOf[sessionDic[s]]),
                 Reply(s, "LOBBY_WHISPER_CHAT_RES", "NONE")>>)

-----------------------------------------------------------------------------
(* The handlers Init registers.  Lobby numbers are explored one beyond the *)
(* valid ones.                                                             *)
Request(s) ==
  /\ connected[s]
  /\ \/ \E id \in UserIDs : Login(s, id) \/ LOBBYWisperChat(s, id)
     \/ LobbyList(s)
     \/ \E l \in 0..MaxLobbyCount : LobbyEnter(s, l)
     \/ LobbyRoomList(s)
     \/ \E start \in StartIndexes : LobbyUserList(s, start)
     \/ LOBBYChat(s)
     \/ LobbyLeave(s)

Next ==
  \E s \in Sessions :
    NtfSysConnctSession(s) \/ NtfSysCloseSession(s) \/ Request(s)

Spec == Init /\ [][Next]_vars
=============================================================================
