----------------------------- MODULE PeopleProofs ----------------------------
(***************************************************************************)
(* The server implements Presence, and what it tells the clients about     *)
(* each other is complete and goes nowhere else: for every configuration.  *)
(* Every step of the server is one of nine moves; what a move does to the *)
(* users, and what it sends, is all the proofs below need of the handlers. *)
(***************************************************************************)
EXTENDS RoomProofs

(* The packets that tell clients where other users are, and a step that     *)
(* sends none of them.                                                      *)
NewsIDs == {"LOBBY_ENTER_USER_NTF", "LOBBY_LEAVE_USER_NTF",
            "ROOM_ENTER_USER_NTF", "ROOM_LEAVE_USER_NTF"}

NoNews == \A m \in SentNow : m.pkt \notin NewsIDs

(* The nine moves. *)
Rests ==
  /\ UNCHANGED <<sessionDic, domain, sessionOf, idOf, lobbyOf, roomOf, lobbyUsers,
                 members, connected>>
  /\ NoNews

Connects(s) ==
  /\ ~connected[s]
  /\ connected' = [connected EXCEPT ![s] = TRUE]
  /\ UNCHANGED <<sessionDic, domain, sessionOf, idOf, lobbyOf, roomOf, lobbyUsers, members>>
  /\ NoNews

(* The connection of a session without a user is lost. *)
Vanishes(s) ==
  /\ sessionDic[s] = None
  /\ connected[s]
  /\ connected' = [connected EXCEPT ![s] = FALSE]
  /\ UNCHANGED <<sessionDic, domain, sessionOf, idOf, lobbyOf, roomOf, lobbyUsers, members>>
  /\ NoNews

(* The user object u is Cleared and owned by no session; a session that has *)
(* logged in before keeps the object it has.                                *)
LogsIn(s, u, id) ==
  /\ connected[s]
  /\ domain[u] = "NONE"
  /\ \A t \in Sessions : sessionDic[t] # u
  /\ \A t \in Sessions : sessionDic[t] # None => idOf[sessionDic[t]] # id
  /\ sessionDic' = IF sessionDic[s] = None THEN [sessionDic EXCEPT ![s] = u] ELSE sessionDic
  /\ domain'    = [domain EXCEPT ![u] = "LOGIN"]
  /\ sessionOf' = [sessionOf EXCEPT ![u] = s]
  /\ idOf'      = [idOf EXCEPT ![u] = id]
  /\ UNCHANGED <<lobbyOf, roomOf, lobbyUsers, members, connected>>
  /\ NoNews

(* Session s, connected, owns the user object u. *)
Owns(s, u) == u = sessionDic[s] /\ sessionOf[u] = s /\ connected[s]

(* Nobody else's object, and no session's entry, is touched. *)
OnlyPlaceOf(u) ==
  /\ UNCHANGED <<sessionDic, sessionOf, idOf, connected>>
  /\ \A v \in Users \ {u} : /\ domain'[v] = domain[v]
                            /\ lobbyOf'[v] = lobbyOf[v] /\ roomOf'[v] = roomOf[v]

EntersLobby(s, u, l) ==
  /\ Owns(s, u) /\ domain[u] = "LOGIN"
  /\ Cardinality(lobbyUsers[l]) < MaxLobbyUserCount
  /\ domain'[u] = "LOBBY" /\ lobbyOf'[u] = l
  /\ lobbyUsers' = [lobbyUsers EXCEPT ![l] = @ \cup {u}]
  /\ OnlyPlaceOf(u) /\ UNCHANGED members
  /\ sent' = <<NotifyLobbyEnterUserInfo(l, u)', Reply(s, "LOBBY_ENTER_RES", "NONE")>>

LeavesLobby(s, u, l) ==
  /\ Owns(s, u) /\ domain[u] = "LOBBY" /\ lobbyOf[u] = l
  /\ domain'[u] = "LOGIN"
  /\ lobbyUsers' = [lobbyUsers EXCEPT ![l] = @ \ {u}]
  /\ OnlyPlaceOf(u) /\ UNCHANGED members
  /\ sent' = <<NotifyLobbyLeaveUserInfo(l, u)', Reply(s, "LOBBY_LEAVE_RES", "NONE")>>

EntersRoom(s, u, l, no) ==
  /\ Owns(s, u) /\ domain[u] = "LOBBY" /\ lobbyOf[u] = l
  /\ Len(members[<<l, no>>]) < MaxRoomUserCount
  /\ domain'[u] = "ROOM" /\ lobbyOf'[u] = l /\ roomOf'[u] = no
  /\ members' = [members EXCEPT ![<<l, no>>] = Append(@, u)]
  /\ OnlyPlaceOf(u) /\ UNCHANGED lobbyUsers
  /\ sent' = <<NotifyLobbyLeaveUserInfo(l, u)',
               RoomChanged(LobbyListeners(l, None)', RoomInfo(<<l, no>>)'),
               NotifyUser("ROOM_ENTER_USER_NTF", RoomListeners(<<l, no>>, u)', idOf[u]),
               Reply(s, "ROOM_ENTER_RES", "NONE")>>

LeavesRoom(s, u, l, no) ==
  /\ Owns(s, u) /\ domain[u] = "ROOM" /\ lobbyOf[u] = l /\ roomOf[u] = no
  /\ domain'[u] = "LOBBY" /\ lobbyOf'[u] = l
  /\ members' = [members EXCEPT ![<<l, no>>] = RemainingMembers(<<l, no>>, u)]
  /\ OnlyPlaceOf(u) /\ UNCHANGED lobbyUsers
  /\ sent' = <<NotifyUser("ROOM_LEAVE_USER_NTF", RoomLeaveListeners(<<l, no>>)', idOf[u]),
               NotifyLobbyEnterUserInfo(l, u)',
               RoomChanged(LobbyListeners(l, None)', RoomInfo(<<l, no>>)'),
               Reply(s, "ROOM_LEAVE_RES", "NONE")>>

(* What NtfSysCloseSession sends, by the indices of the user object. *)
FarewellOf(u, l, r) ==
  IF l \in Lobbies /\ r \in RoomNos
  THEN <<NotifyUser("ROOM_LEAVE_USER_NTF", RoomLeaveListeners(<<l, r>>)', idOf[u]),
         RoomChanged(LobbyListeners(l, None), RoomInfo(<<l, r>>)')>>
  ELSE IF l \in Lobbies
  THEN <<NotifyUser("LOBBY_LEAVE_USER_NTF", LobbyListeners(l, u)', idOf[u])>>
  ELSE <<>>

Closes(s, u, l, r) ==
  /\ Owns(s, u) /\ domain[u] # "NONE" /\ l = lobbyOf[u] /\ r = roomOf[u]
  /\ connected'  = [connected EXCEPT ![s] = FALSE]
  /\ sessionDic' = [sessionDic EXCEPT ![s] = None]
  /\ domain'     = [domain EXCEPT ![u] = "NONE"]
  /\ sessionOf'  = [sessionOf EXCEPT ![u] = 0]
  /\ idOf'       = [idOf EXCEPT ![u] = NoID]
  /\ lobbyOf'    = [lobbyOf EXCEPT ![u] = None]
  /\ roomOf'     = [roomOf EXCEPT ![u] = None]
  /\ lobbyUsers' = [k \in Lobbies |-> lobbyUsers[k] \ {u}]
  /\ members' = IF domain[u] = "ROOM"
                THEN [members EXCEPT ![RoomOf(u)] = RemainingMembers(RoomOf(u), u)]
                ELSE members
  /\ sent' = FarewellOf(u, l, r)

Moves(s) ==
  \/ Rests \/ Connects(s) \/ Vanishes(s)
  \/ \E u \in Users, id \in UserIDs : LogsIn(s, u, id)
  \/ \E u \in Users, l \in Lobbies \cup {None}, r \in RoomNos \cup {None} : Closes(s, u, l, r)
  \/ \E u \in Users, l \in Lobbies : EntersLobby(s, u, l) \/ LeavesLobby(s, u, l)
  \/ \E u \in Users, l \in Lobbies, no \in RoomNos :
       EntersRoom(s, u, l, no) \/ LeavesRoom(s, u, l, no)

-----------------------------------------------------------------------------
(* Which handler makes which move *)

(* A handler that sends nothing spreads no news of users, *)
LEMMA SilenceIsNoNews ==
  ASSUME sent' = <<>>
  PROVE  NoNews
  BY DEF NoNews, SentNow

(* nor does one message of another kind, *)
LEMMA OneIsNoNews ==
  ASSUME NEW m, sent' = <<m>>, m.pkt \notin NewsIDs
  PROVE  NoNews
  BY DEF NoNews, SentNow

(* nor do two. *)
LEMMA TwoAreNoNews ==
  ASSUME NEW m, NEW n, sent' = <<m, n>>, m.pkt \notin NewsIDs, n.pkt \notin NewsIDs
  PROVE  NoNews
  BY DEF NoNews, SentNow

(* A handler that changes nothing and tells no news lets everybody rest. *)
LEMMA LogicRests ==
  ASSUME UNCHANGED logicVars, NoNews
  PROVE  Rests
  BY DEF logicVars, userVars, lobbyVars, roomVars, connVars, Rests

(* A refusal lets everybody rest. *)
LEMMA RefuseRests ==
  ASSUME NEW s, NEW pkt, NEW err, pkt \notin NewsIDs, Refuse(s, pkt, err)
  PROVE  Rests
<1>1. Reply(s, pkt, err).pkt \notin NewsIDs /\ sent' = <<Reply(s, pkt, err)>>
  BY DEF Refuse, Reply, Send
<1>2. NoNews
  BY <1>1, OneIsNoNews
<1> QED BY <1>2, LogicRests DEF Refuse

(* Lists, chat, whispers and games leave everybody where they are. *)
LEMMA ReadingRests ==
  ASSUME NEW s \in Sessions,
         \/ \E id \in UserIDs : LOBBYWisperChat(s, id)
         \/ LobbyList(s) \/ LOBBYChat(s) \/ RoomChat(s)
         \/ \E start \in StartIndexes :
              LobbyRoomList(s, start) \/ LobbyUserList(s, start) \/ RoomUserList(s, start)
         \/ RoomMasterGameStart(s) \/ RoomGameStart(s)
  PROVE  Rests
<1> USE DEF NewsIDs
<1>r. ASSUME NEW pkt \in {"LOBBY_WHISPER_CHAT_RES", "LOBBY_LIST_RES", "LOBBY_CHAT_RES",
                          "ROOM_CHAT_RES", "LOBBY_ENTER_ROOM_LIST_RES",
                          "LOBBY_ENTER_USER_LIST_RES", "ROOM_ENTER_USER_LIST_RES",
                          "ROOM_MASTER_GAME_STATE_RES", "ROOM_GAME_STATE_RES"},
             NEW err, Refuse(s, pkt, err)
      PROVE  Rests
  BY <1>r, RefuseRests
<1>1. ASSUME NEW id \in UserIDs, LOBBYWisperChat(s, id) PROVE Rests
  <2>1. CASE Refuse(s, "LOBBY_WHISPER_CHAT_RES", WisperError(s, id))
    BY <1>r, <2>1
  <2>2. CASE /\ sent' = <<NotifyWisperChat(FindUserByID(id), idOf[sessionDic[s]]),
                          Reply(s, "LOBBY_WHISPER_CHAT_RES", "NONE")>>
             /\ UNCHANGED logicVars
    <3>1. /\ NotifyWisperChat(FindUserByID(id), idOf[sessionDic[s]]).pkt \notin NewsIDs
          /\ Reply(s, "LOBBY_WHISPER_CHAT_RES", "NONE").pkt \notin NewsIDs
      BY DEF NotifyWisperChat, SendToUser, NotifyUser, Reply, Send
    <3> QED BY <2>2, <3>1, TwoAreNoNews, LogicRests
  <2> QED BY <1>1, <2>1, <2>2 DEF LOBBYWisperChat
<1>2. ASSUME LobbyList(s) PROVE Rests
  <2>1. LobbyListInfo(s).pkt \notin NewsIDs
    BY DEF LobbyListInfo, ReplyList
  <2>2. ASSUME sent' = <<LobbyListInfo(s)>>, UNCHANGED logicVars PROVE Rests
    BY <2>1, <2>2, OneIsNoNews, LogicRests
  <2> QED BY <1>2, <1>r, <2>2 DEF LobbyList
<1>3. ASSUME LOBBYChat(s) PROVE Rests
  <2> DEFINE u == sessionDic[s]
  <2>1. /\ NotifyChat(lobbyOf[u], sessionOf[u], idOf[u]).pkt \notin NewsIDs
        /\ Reply(s, "LOBBY_CHAT_RES", "NONE").pkt \notin NewsIDs
    BY DEF NotifyChat, NotifyUser, Reply, Send
  <2>2. ASSUME sent' = <<NotifyChat(lobbyOf[u], sessionOf[u], idOf[u]),
                         Reply(s, "LOBBY_CHAT_RES", "NONE")>>, UNCHANGED logicVars
        PROVE  Rests
    BY <2>1, <2>2, TwoAreNoNews, LogicRests
  <2> QED BY <1>3, <1>r, <2>2 DEF LOBBYChat
<1>4. ASSUME RoomChat(s) PROVE Rests
  <2> DEFINE u == sessionDic[s]
             note == RoomNotifyChat(<<lobbyOf[u], roomOf[u]>>, sessionOf[u], idOf[u])
  <2>1. note.pkt \notin NewsIDs /\ Reply(s, "ROOM_CHAT_RES", "NONE").pkt \notin NewsIDs
    BY DEF RoomNotifyChat, NotifyUser, Reply, Send
  <2>2. ASSUME sent' = <<note, Reply(s, "ROOM_CHAT_RES", "NONE")>>, UNCHANGED logicVars
        PROVE  Rests
    BY <2>1, <2>2, TwoAreNoNews, LogicRests
  <2> QED BY <1>4, <1>r, <2>2 DEF RoomChat
<1>5. ASSUME NEW start \in StartIndexes, LobbyRoomList(s, start) PROVE Rests
  <2>1. ASSUME sent' = SendRoomList(s, lobbyOf[sessionDic[s]], start), UNCHANGED logicVars
        PROVE  Rests
    <3>1. CASE sent' = <<>>
      BY <2>1, <3>1, SilenceIsNoNews, LogicRests
    <3>2. CASE \E list, end : sent' = <<ReplyList(s, "LOBBY_ENTER_ROOM_LIST_RES", list, end)>>
      BY <2>1, <3>2, OneIsNoNews, LogicRests DEF ReplyList
    <3> QED BY <2>1, <3>1, <3>2 DEF SendRoomList
  <2> QED BY <1>5, <1>r, <2>1 DEF LobbyRoomList
<1>6. ASSUME NEW start \in StartIndexes, LobbyUserList(s, start) PROVE Rests
  <2>1. ASSUME sent' = SendUserList(s, lobbyOf[sessionDic[s]], start), UNCHANGED logicVars
        PROVE  Rests
    <3>1. CASE sent' = <<>>
      BY <2>1, <3>1, SilenceIsNoNews, LogicRests
    <3>2. CASE \E list, end : sent' = <<ReplyList(s, "LOBBY_ENTER_USER_LIST_RES", list, end)>>
      BY <2>1, <3>2, OneIsNoNews, LogicRests DEF ReplyList
    <3> QED BY <2>1, <3>1, <3>2 DEF SendUserList
  <2> QED BY <1>6, <1>r, <2>1 DEF LobbyUserList
<1>7. ASSUME NEW start \in StartIndexes, RoomUserList(s, start) PROVE Rests
  <2> DEFINE rm == createdRooms[roomOf[sessionDic[s]] + 1]
  <2>1. RoomSendUserList(s, rm, start).pkt \notin NewsIDs
    BY DEF RoomSendUserList, ReplyList
  <2>2. ASSUME sent' = <<RoomSendUserList(s, rm, start)>>, UNCHANGED logicVars PROVE Rests
    BY <2>1, <2>2, OneIsNoNews, LogicRests
  <2> QED BY <1>7, <1>r, <2>2 DEF RoomUserList
<1>8. ASSUME NEW rm, StartGame(rm), NoNews PROVE Rests
  BY <1>8 DEF StartGame, userVars, lobbyVars, connVars, Rests
<1>9. ASSUME RoomMasterGameStart(s) PROVE Rests
  <2> DEFINE u == sessionDic[s]
             rm == <<lobbyOf[u], roomOf[u]>>
             note == NotifyUser("ROOM_MASTER_GAME_STATE_RES", RoomListeners(rm, u), NoID)
             answer == Reply(s, "ROOM_MASTER_GAME_STATE_RES", "NONE")
  <2>1. note.pkt \notin NewsIDs /\ answer.pkt \notin NewsIDs
    BY DEF NotifyUser, Reply, Send
  <2>2. ASSUME sent' = <<note, answer>>, StartGame(rm) PROVE Rests
    BY <1>8, <2>1, <2>2, TwoAreNoNews
  <2> QED BY <1>9, <1>r, <2>2 DEF RoomMasterGameStart
<1>10. ASSUME RoomGameStart(s) PROVE Rests
  <2> DEFINE answer == Reply(s, "ROOM_GAME_STATE_RES", "NONE")
  <2>1. answer.pkt \notin NewsIDs
    BY DEF Reply, Send
  <2>2. ASSUME sent' = <<answer>>, NEW rm, StartGame(rm) PROVE Rests
    BY <1>8, <2>1, <2>2, OneIsNoNews
  <2> QED BY <1>10, <1>r, <2>2 DEF RoomGameStart
<1> QED BY <1>1, <1>2, <1>3, <1>4, <1>5, <1>6, <1>7, <1>9, <1>10

(* The first and the last packet of a session, and each request, move ... *)
LEMMA LoginMoves ==
  ASSUME ServerInv, NEW s \in Sessions, connected[s], NEW id \in UserIDs, Login(s, id)
  PROVE  Moves(s)
<1>1. CASE Refuse(s, "LOGIN_IN_RES", AddUserError(id))
  BY <1>1, RefuseRests DEF NewsIDs, Moves
<1>2. CASE /\ AddUserError(id) = "NONE" /\ AddUser(s, id)
           /\ sent' = <<Reply(s, "LOGIN_IN_RES", "NONE")>>
           /\ UNCHANGED <<lobbyVars, roomVars, connected>>
  <2> DEFINE u == Head(freeUsers)
  <2>1. /\ freeUsers # <<>>
        /\ \A t \in Sessions : sessionDic[t] # None => idOf[sessionDic[t]] # id
    BY <1>2, NameIsFree DEF ServerInv, StateTypeOK, UserTypeOK
  <2>2. u \in Users /\ domain[u] = "NONE"
    BY <2>1, HeadIsFree
  <2>3. \A t \in Sessions : sessionDic[t] # u
    BY <2>2, NoneIsNoIndex DEF ServerInv, SessionsOwnUsers
  <2>4. /\ sessionDic' = IF sessionDic[s] = None THEN [sessionDic EXCEPT ![s] = u] ELSE sessionDic
        /\ domain'    = [domain EXCEPT ![u] = "LOGIN"]
        /\ sessionOf' = [sessionOf EXCEPT ![u] = s]
        /\ idOf'      = [idOf EXCEPT ![u] = id]
        /\ UNCHANGED <<lobbyOf, roomOf, lobbyUsers, members, connected>>
    BY <1>2 DEF AddUser, AllocUserObjPoolIndex, SetUser, lobbyVars, roomVars
  <2>5. Reply(s, "LOGIN_IN_RES", "NONE").pkt \notin NewsIDs
    BY DEF Reply, Send, NewsIDs
  <2>6. NoNews
    BY <1>2, <2>5, OneIsNoNews
  <2>7. LogsIn(s, u, id)
    BY <2>1, <2>2, <2>3, <2>4, <2>6 DEF LogsIn
  <2> QED BY <2>2, <2>7 DEF Moves
<1> QED BY <1>1, <1>2 DEF Login

(* LobbyEnter lets a user enter a lobby, or refuses. *)
LEMMA LobbyEnterMoves ==
  ASSUME ServerInv, NEW s \in Sessions, NEW l, LobbyEnter(s, l)
  PROVE  Moves(s)
<1>1. CASE Refuse(s, "LOBBY_ENTER_RES", LobbyEnterError(s, l))
  BY <1>1, RefuseRests DEF NewsIDs, Moves
<1>2. ASSUME LobbyEnterError(s, l) = "NONE", UNCHANGED <<poolVars, roomVars, connVars>>,
             NEW u \in Users, u = sessionDic[s], EnterUser(l, u),
             sent' = <<NotifyLobbyEnterUserInfo(l, u)', Reply(s, "LOBBY_ENTER_RES", "NONE")>>
      PROVE  Moves(s)
  <2>1. GetUserError(s) = "NONE" /\ domain[u] = "LOGIN" /\ l \in Lobbies
    BY <1>2 DEF LobbyEnterError, DomainError, IsCurDomainIn
  <2>2. Owns(s, u)
    BY <1>2, <2>1, OwnerOfSession DEF Owns
  <2>3. EnterUserError(l, u) = "NONE"
    BY <1>2, <2>1 DEF LobbyEnterError, DomainError, IsCurDomainIn
  <2>4. Cardinality(lobbyUsers[l]) < MaxLobbyUserCount
    <3>1. lobbyUsers[l] \subseteq Users
      BY <2>1 DEF ServerInv, StateTypeOK, LobbyTypeOK
    <3>2. Cardinality(lobbyUsers[l]) \in Nat
      BY <3>1, UsersAreFinite
    <3> QED BY <2>3, <3>2, ConfigAssumption DEF EnterUserError
  <2>5. /\ domain'  = [domain EXCEPT ![u] = "LOBBY"]
        /\ lobbyOf' = [lobbyOf EXCEPT ![u] = l]
        /\ lobbyUsers' = [lobbyUsers EXCEPT ![l] = @ \cup {u}]
        /\ UNCHANGED <<roomOf, sessionDic, sessionOf, idOf, members, connected>>
    BY <1>2 DEF EnterUser, UserEnterLobby, poolVars, roomVars, connVars
  <2>6. domain'[u] = "LOBBY" /\ lobbyOf'[u] = l /\ OnlyPlaceOf(u)
    BY <2>5 DEF ServerInv, StateTypeOK, UserTypeOK, OnlyPlaceOf
  <2>7. EntersLobby(s, u, l)
    BY <1>2, <2>1, <2>2, <2>4, <2>5, <2>6 DEF EntersLobby
  <2> QED BY <2>1, <2>7 DEF Moves
<1> QED BY <1>1, <1>2 DEF LobbyEnter

(* LobbyLeave lets a user leave the lobby, or refuses. *)
LEMMA LobbyLeaveMoves ==
  ASSUME ServerInv, NEW s \in Sessions, LobbyLeave(s)
  PROVE  Moves(s)
<1>1. CASE Refuse(s, "LOBBY_LEAVE_RES", LobbyLeaveError(s))
  BY <1>1, RefuseRests DEF NewsIDs, Moves
<1>2. ASSUME LobbyLeaveError(s) = "NONE", UNCHANGED <<poolVars, roomVars, connVars>>,
             NEW u \in Users, NEW l \in Lobbies, u = sessionDic[s], l = lobbyOf[u],
             LeaveUser(l, u), UserLeaveLobby(u),
             sent' = <<NotifyLobbyLeaveUserInfo(l, u)', Reply(s, "LOBBY_LEAVE_RES", "NONE")>>
      PROVE  Moves(s)
  <2>1. domain[u] = "LOBBY" /\ GetUserError(s) = "NONE"
    BY <1>2, LobbyErrorNone DEF LobbyLeaveError
  <2>2. Owns(s, u)
    BY <1>2, <2>1, OwnerOfSession DEF Owns
  <2>3. /\ domain' = [domain EXCEPT ![u] = "LOGIN"]
        /\ lobbyUsers' = [lobbyUsers EXCEPT ![l] = @ \ {u}]
        /\ UNCHANGED <<lobbyOf, roomOf, sessionDic, sessionOf, idOf, members, connected>>
    BY <1>2 DEF LeaveUser, UserLeaveLobby, poolVars, roomVars, connVars
  <2>4. domain'[u] = "LOGIN" /\ OnlyPlaceOf(u)
    BY <2>3 DEF ServerInv, StateTypeOK, UserTypeOK, OnlyPlaceOf
  <2>5. LeavesLobby(s, u, l)
    BY <1>2, <2>1, <2>2, <2>3, <2>4 DEF LeavesLobby
  <2> QED BY <2>5 DEF Moves
<1> QED BY <1>1, <1>2 DEF LobbyLeave

(* RoomEnter lets a user of the lobby enter a room, or refuses. *)
LEMMA RoomEnterMoves ==
  ASSUME ServerInv, RoomInv, NEW s \in Sessions, NEW create \in BOOLEAN, NEW r,
         RoomEnter(s, create, r)
  PROVE  Moves(s)
<1>1. CASE Refuse(s, "ROOM_ENTER_RES", RoomEnterError(s, create, r))
  BY <1>1, RefuseRests DEF NewsIDs, Moves
<1>2. ASSUME RoomEnterError(s, create, r) = "NONE", UNCHANGED <<poolVars, lobbyVars, connVars>>,
             NEW u \in Users, NEW l \in Lobbies, NEW no \in RoomNos,
             u = sessionDic[s], l = lobbyOf[u],
             no = IF create THEN UnusedRoomNo(l) ELSE r,
             IF create
             THEN Len(createdRooms) < MaxRoomCreations /\ CreateRoomFor(<<l, no>>, u)
             ELSE RoomEnterUser(<<l, no>>, u),
             UserEnterRoom(u, l, no),
             sent' = <<NotifyLobbyLeaveUserInfo(l, u)',
                       RoomChanged(LobbyListeners(l, None)', RoomInfo(<<l, no>>)'),
                       NotifyUser("ROOM_ENTER_USER_NTF", RoomListeners(<<l, no>>, u)', idOf[u]),
                       Reply(s, "ROOM_ENTER_RES", "NONE")>>
      PROVE  Moves(s)
  <2> DEFINE rm == <<l, no>>
  <2>1. domain[u] = "LOBBY" /\ GetUserError(s) = "NONE"
    BY <1>2, LobbyErrorNone DEF RoomEnterError
  <2>2. Owns(s, u)
    BY <1>2, <2>1, OwnerOfSession DEF Owns
  <2>3. /\ rm \in Rooms /\ MaxRoomUserCount \in Nat \ {0}
        /\ members[rm] \in Seq(Users) /\ StateTypeOK
    BY ConfigAssumption DEF Rooms, ServerInv, StateTypeOK, RoomTypeOK
  <2>4. /\ Len(members[rm]) < MaxRoomUserCount
        /\ members' = [members EXCEPT ![rm] = Append(@, u)]
    <3>1. CASE create
      <4>1. CreateRoomFor(rm, u) /\ no = UnusedRoomNo(l) /\ Len(createdRooms) < MaxRoomCreations
        BY <1>2, <3>1
      <4>2. ~used[rm]
        BY <2>3, <4>1, CreationIsCovered DEF RoomInv
      <4> QED BY <2>3, <4>1, <4>2 DEF RoomInv, RoomMembership, CreateRoomFor
    <3>2. CASE ~create
      <4>1. RoomEnterUser(rm, u) /\ no = r
        BY <1>2, <3>2
      <4>2. RoomEnterUserError(rm) = "NONE"
        BY <1>2, <3>2, <4>1 DEF RoomEnterError
      <4> QED BY <2>3, <4>1, <4>2 DEF RoomInv, RoomMembership, RoomEnterUser, RoomEnterUserError
    <3> QED BY <3>1, <3>2
  <2>5. /\ domain'  = [domain EXCEPT ![u] = "ROOM"]
        /\ lobbyOf' = [lobbyOf EXCEPT ![u] = l]
        /\ roomOf'  = [roomOf EXCEPT ![u] = no]
        /\ UNCHANGED <<sessionDic, sessionOf, idOf, lobbyUsers, connected>>
    BY <1>2 DEF UserEnterRoom, poolVars, lobbyVars, connVars
  <2>6. domain'[u] = "ROOM" /\ lobbyOf'[u] = l /\ roomOf'[u] = no /\ OnlyPlaceOf(u)
    BY <2>3, <2>5 DEF StateTypeOK, UserTypeOK, OnlyPlaceOf
  <2>7. EntersRoom(s, u, l, no)
    BY <1>2, <2>1, <2>2, <2>4, <2>5, <2>6 DEF EntersRoom
  <2> QED BY <2>7 DEF Moves
<1> QED BY <1>1, <1>2 DEF RoomEnter

(* RoomLeave takes a user back to the lobby, or refuses. *)
LEMMA RoomLeaveMoves ==
  ASSUME ServerInv, NEW s \in Sessions, RoomLeave(s)
  PROVE  Moves(s)
<1>1. CASE Refuse(s, "ROOM_LEAVE_RES", RoomLeaveError(s))
  BY <1>1, RefuseRests DEF NewsIDs, Moves
<1>2. ASSUME RoomLeaveError(s) = "NONE", UNCHANGED <<poolVars, lobbyVars, connVars>>,
             NEW u \in Users, NEW l \in Lobbies, NEW r \in RoomNos, IsAt(s, u, l, r),
             RoomLeaveUser(<<l, r>>, u), UserEnterLobby(u, l),
             sent' = <<NotifyUser("ROOM_LEAVE_USER_NTF", RoomLeaveListeners(<<l, r>>)', idOf[u]),
                       NotifyLobbyEnterUserInfo(l, u)',
                       RoomChanged(LobbyListeners(l, None)', RoomInfo(<<l, r>>)'),
                       Reply(s, "ROOM_LEAVE_RES", "NONE")>>
      PROVE  Moves(s)
  <2>1. /\ domain[u] = "ROOM" /\ l = lobbyOf[u] /\ r = roomOf[u] /\ <<l, r>> \in Rooms
        /\ RoomLeaveUserError(<<l, r>>, u) = "NONE"
    BY <1>2, RoomLeaveErrorNone
  <2>2. Owns(s, u)
    <3>1. u = sessionDic[s]
      BY <1>2 DEF IsAt
    <3>2. GetUserError(s) = "NONE"
      BY <2>1, <3>1, NoneIsNoIndex DEF GetUserError
    <3> QED BY <3>1, <3>2, OwnerOfSession DEF Owns
  <2>3. members' = [members EXCEPT ![<<l, r>>] = RemainingMembers(<<l, r>>, u)]
    BY <1>2, <2>1, RoomLeaveUserEffect DEF ServerInv, StateTypeOK, RoomLeaveUserError
  <2>4. /\ domain'  = [domain EXCEPT ![u] = "LOBBY"]
        /\ lobbyOf' = [lobbyOf EXCEPT ![u] = l]
        /\ UNCHANGED <<roomOf, sessionDic, sessionOf, idOf, lobbyUsers, connected>>
    BY <1>2 DEF UserEnterLobby, poolVars, lobbyVars, connVars
  <2>5. domain'[u] = "LOBBY" /\ lobbyOf'[u] = l /\ OnlyPlaceOf(u)
    BY <2>4 DEF ServerInv, StateTypeOK, UserTypeOK, OnlyPlaceOf
  <2>6. LeavesRoom(s, u, l, r)
    BY <1>2, <2>1, <2>2, <2>3, <2>4, <2>5 DEF LeavesRoom
  <2> QED BY <2>6 DEF Moves
<1> QED BY <1>1, <1>2 DEF RoomLeave

(* The indices of a closing user may be stale: the lobby and the room they  *)
(* point to then do not know the user.                                      *)
LEMMA CloseMoves ==
  ASSUME ServerInv, RoomInv, NEW s \in Sessions, NtfSysCloseSession(s)
  PROVE  Moves(s)
<1>1. CASE GetUserError(s) # "NONE" /\ sent' = <<>> /\ UNCHANGED <<userVars, lobbyVars, roomVars>>
  <2>1. sessionDic[s] = None
    BY <1>1 DEF GetUserError, ServerInv, SessionsOwnUsers
  <2>2. Vanishes(s)
    BY <1>1, <2>1, SilenceIsNoNews
    DEF NtfSysCloseSession, Vanishes, userVars, lobbyVars, roomVars
  <2> QED BY <2>2 DEF Moves
<1>2. ASSUME GetUserError(s) = "NONE", NEW u \in Users,
             NEW l \in Lobbies \cup {None}, NEW r \in RoomNos \cup {None},
             IsAt(s, u, l, r), CloseUser(s, u, l, r)
      PROVE  Moves(s)
  <2>1. u = sessionDic[s] /\ l = lobbyOf[u] /\ r = roomOf[u]
    BY <1>2 DEF IsAt
  <2>2. Owns(s, u) /\ domain[u] # "NONE"
    BY <1>2, <2>1, OwnerOfSession DEF Owns
  <2>3. /\ connected'  = [connected EXCEPT ![s] = FALSE]
        /\ sessionDic' = [sessionDic EXCEPT ![s] = None]
        /\ domain'     = [domain EXCEPT ![u] = "NONE"]
        /\ sessionOf'  = [sessionOf EXCEPT ![u] = 0]
        /\ idOf'       = [idOf EXCEPT ![u] = NoID]
        /\ lobbyOf'    = [lobbyOf EXCEPT ![u] = None]
        /\ roomOf'     = [roomOf EXCEPT ![u] = None]
    BY <1>2 DEF NtfSysCloseSession, CloseUser, RemoveUser, ReleaseUserObjPoolIndex, ClearUser
  <2>4. lobbyUsers' = [k \in Lobbies |-> lobbyUsers[k] \ {u}]
    <3>1. lobbyUsers' = IF l \in Lobbies THEN [lobbyUsers EXCEPT ![l] = @ \ {u}] ELSE lobbyUsers
      BY <1>2 DEF CloseUser, LeaveUser, lobbyVars
    <3>2. \A k \in Lobbies : k # l => u \notin lobbyUsers[k]
      BY <2>1 DEF ServerInv, LobbyMembership
    <3> QED BY <3>1, <3>2 DEF ServerInv, StateTypeOK, LobbyTypeOK
  <2>5. members' = IF domain[u] = "ROOM"
                   THEN [members EXCEPT ![RoomOf(u)] = RemainingMembers(RoomOf(u), u)]
                   ELSE members
    <3>1. RoomTypeOK
      BY DEF ServerInv, StateTypeOK
    <3>2. CASE domain[u] = "ROOM"
      <4>1. l \in Lobbies /\ r \in RoomNos /\ <<l, r>> \in Rooms /\ <<l, r>> = RoomOf(u)
        BY <2>1, <3>2
        DEF ServerInv, LobbyMembership, RoomInv, RoomMembership, Rooms, RoomOf
      <4>2. IsMember(<<l, r>>, u)
        BY <2>1, <3>2, <4>1 DEF RoomInv, RoomMembership
      <4>3. used[<<l, r>>]
        BY <3>1, <4>1, <4>2 DEF RoomInv, RoomMembership, IsMember, RoomTypeOK
      <4>4. RoomLeaveUser(<<l, r>>, u)
        BY <1>2, <4>1, <4>2, <4>3 DEF CloseUser, RoomLeaveUserError
      <4> QED BY <3>1, <3>2, <4>1, <4>3, <4>4, RoomLeaveUserEffect
    <3>3. CASE domain[u] # "ROOM"
      <4>1. l \in Lobbies /\ r \in RoomNos => RoomLeaveUserError(<<l, r>>, u) # "NONE"
        BY <3>3 DEF RoomInv, RoomMembership, RoomLeaveUserError, Rooms
      <4>2. UNCHANGED roomVars
        BY <1>2, <4>1 DEF CloseUser
      <4> QED BY <3>3, <4>2 DEF roomVars
    <3> QED BY <3>2, <3>3
  <2>6. sent' = FarewellOf(u, l, r)
    BY <1>2 DEF CloseUser, FarewellOf
  <2>7. Closes(s, u, l, r)
    BY <2>1, <2>2, <2>3, <2>4, <2>5, <2>6 DEF Closes
  <2> QED BY <2>7 DEF Moves
<1> QED BY <1>1, <1>2 DEF NtfSysCloseSession

(* Every step of the server is a move. *)
LEMMA StepMoves ==
  ASSUME ServerInv, RoomInv, Next
  PROVE  \E s \in Sessions : Moves(s)
<1>1. ASSUME NEW s \in Sessions, NtfSysConnctSession(s) PROVE Moves(s)
  BY <1>1, SilenceIsNoNews
  DEF NtfSysConnctSession, userVars, lobbyVars, roomVars, Connects, Moves
<1>2. ASSUME NEW s \in Sessions, Request(s) PROVE Moves(s)
  <2>1. connected[s]
    BY <1>2 DEF Request
  <2>2. CASE \E id \in UserIDs : Login(s, id)
    BY <2>1, <2>2, LoginMoves
  <2>3. CASE \E l \in 0..MaxLobbyCount : LobbyEnter(s, l)
    BY <2>3, LobbyEnterMoves
  <2>4. CASE LobbyLeave(s)
    BY <2>4, LobbyLeaveMoves
  <2>5. CASE RoomEnter(s, TRUE, None) \/ \E r \in 0..MaxRoomCountByLobby : RoomEnter(s, FALSE, r)
    BY <2>5, RoomEnterMoves
  <2>6. CASE RoomLeave(s)
    BY <2>6, RoomLeaveMoves
  <2>7. CASE \/ \E id \in UserIDs : LOBBYWisperChat(s, id)
             \/ LobbyList(s) \/ LOBBYChat(s) \/ RoomChat(s)
             \/ \E start \in StartIndexes :
                  LobbyRoomList(s, start) \/ LobbyUserList(s, start) \/ RoomUserList(s, start)
             \/ RoomMasterGameStart(s) \/ RoomGameStart(s)
    <3>1. Rests
      BY <2>7, ReadingRests
    <3> QED BY <3>1 DEF Moves
  <2> QED BY <1>2, <2>2, <2>3, <2>4, <2>5, <2>6, <2>7 DEF Request
<1> QED BY <1>1, <1>2, CloseMoves DEF Next
-----------------------------------------------------------------------------
(* Presence, seen through the user objects *)

(* Presence names its copies of these operators; they are the same. *)
LEMMA PeopleOperators ==
  /\ People!AllRooms = Rooms
  /\ \A S : People!Cardinality(S) = Cardinality(S)
  /\ \A q, k : People!RemoveAt(q, k) = RemoveAt(q, k)
  /\ \A S : People!Min(S) = Min(S)
<1>1. People!AllRooms = Rooms
  BY DEF People!AllRooms, Rooms
<1>2. ASSUME NEW S PROVE People!Cardinality(S) = Cardinality(S)
  BY DEF People!Cardinality, Cardinality
<1>3. ASSUME NEW q, NEW k PROVE People!RemoveAt(q, k) = RemoveAt(q, k)
  BY DEF People!RemoveAt, RemoveAt
<1>4. ASSUME NEW S PROVE People!Min(S) = Min(S)
  BY DEF People!Min, Min
<1> QED BY <1>1, <1>2, <1>3, <1>4

(* What Presence knows of a session tells whether it has a user, which lobby *)
(* the user is in, and the number of sessions with a user, or in a lobby.    *)
LEMMA SessionKnown ==
  ASSUME ServerInv, NEW s \in Sessions
  PROVE  /\ s \in OnlineNow <=> connected[s]
         /\ NameTable[s] # NoID <=> sessionDic[s] # None
         /\ sessionDic[s] # None => NameTable[s] = idOf[sessionDic[s]] /\ s \in OnlineNow
         /\ LobbyTable[s] # -1 <=> (/\ sessionDic[s] # None
                                    /\ domain[sessionDic[s]] \in {"LOBBY", "ROOM"})
         /\ LobbyTable[s] # -1 => /\ LobbyTable[s] \in Lobbies
                                  /\ LobbyTable[s] = lobbyOf[sessionDic[s]]
<1>1. s \in OnlineNow <=> connected[s]
  BY DEF OnlineNow
<1>2. NameTable[s] = LoggedInAs(s) /\ LobbyTable[s] = InLobby(s)
  BY DEF NameTable, LobbyTable
<1>3. NameTable[s] # NoID <=> sessionDic[s] # None
  BY <1>2, NoneIsNoIndex DEF LoggedInAs, ServerInv, SessionsOwnUsers
<1>4. sessionDic[s] # None => NameTable[s] = idOf[sessionDic[s]] /\ s \in OnlineNow
  BY <1>1, <1>2 DEF LoggedInAs, ServerInv, SessionsOwnUsers
<1>5. ASSUME sessionDic[s] # None, domain[sessionDic[s]] \in {"LOBBY", "ROOM"}
      PROVE  LobbyTable[s] # -1 /\ LobbyTable[s] \in Lobbies
               /\ LobbyTable[s] = lobbyOf[sessionDic[s]]
  <2>1. LobbyTable[s] = lobbyOf[sessionDic[s]]
    BY <1>2, <1>5 DEF InLobby
  <2>2. sessionDic[s] \in Users
    BY <1>5 DEF ServerInv, StateTypeOK, UserTypeOK
  <2>3. lobbyOf[sessionDic[s]] \in Lobbies
    BY <1>5, <2>2 DEF ServerInv, LobbyMembership
  <2> QED BY <2>1, <2>3, NoneIsNoIndex DEF None
<1>6. LobbyTable[s] # -1 => (/\ sessionDic[s] # None
                             /\ domain[sessionDic[s]] \in {"LOBBY", "ROOM"})
  BY <1>2 DEF InLobby
<1> QED BY <1>1, <1>3, <1>4, <1>5, <1>6

(* No two sessions share a user object. *)
LEMMA OneSessionEach ==
  ASSUME ServerInv, NEW s \in Sessions, NEW t \in Sessions,
         sessionDic[s] # None, sessionDic[s] = sessionDic[t]
  PROVE  s = t
  BY DEF ServerInv, SessionsOwnUsers

(* A session is in a room's roster exactly if its user is in the room. *)
LEMMA RosterEntry ==
  ASSUME ServerInv, RoomInv, NEW s \in Sessions, NEW rm \in Rooms
  PROVE  /\ DOMAIN RosterTable[rm] = DOMAIN members[rm]
         /\ \A i \in DOMAIN members[rm] :
              RosterTable[rm][i] = s <=> (sessionDic[s] # None /\ members[rm][i] = sessionDic[s])
         /\ People!InRoster(s, rm) <=> (sessionDic[s] # None /\ IsMember(rm, sessionDic[s]))
<1>1. RosterTable[rm] = [i \in DOMAIN members[rm] |-> sessionOf[members[rm][i]]]
  BY DEF RosterTable
<1>2. ASSUME NEW i \in DOMAIN members[rm]
      PROVE  RosterTable[rm][i] = s <=> (sessionDic[s] # None /\ members[rm][i] = sessionDic[s])
  <2> DEFINE u == members[rm][i]
  <2>1. u \in Users
    BY DEF ServerInv, StateTypeOK, RoomTypeOK
  <2>2. domain[u] = "ROOM"
    BY <2>1 DEF RoomInv, RoomMembership, IsMember
  <2>3. sessionDic[sessionOf[u]] = u
    BY <2>1, <2>2 DEF ServerInv, LobbyMembership
  <2>4. sessionOf[u] = s => sessionDic[s] # None /\ u = sessionDic[s]
    BY <2>1, <2>3, NoneIsNoIndex
  <2>5. sessionDic[s] # None /\ u = sessionDic[s] => sessionOf[u] = s
    BY DEF ServerInv, SessionsOwnUsers
  <2>6. RosterTable[rm][i] = sessionOf[u]
    BY <1>1
  <2> QED BY <2>4, <2>5, <2>6
<1>3. DOMAIN RosterTable[rm] = DOMAIN members[rm]
  BY <1>1
<1>4. People!InRoster(s, rm) <=> \E i \in DOMAIN RosterTable[rm] : RosterTable[rm][i] = s
  BY DEF People!InRoster
<1> HIDE DEF RoomInv
<1>5. People!InRoster(s, rm) <=> (sessionDic[s] # None /\ IsMember(rm, sessionDic[s]))
  BY <1>2, <1>3, <1>4 DEF IsMember
<1> QED BY <1>2, <1>3, <1>5

(* ... and is in some room exactly if its user says so. *)
LEMMA InARoom ==
  ASSUME ServerInv, RoomInv, NEW s \in Sessions
  PROVE  People!InSomeRoom(s) <=> (sessionDic[s] # None /\ domain[sessionDic[s]] = "ROOM")
<1>1. ASSUME NEW rm \in Rooms, People!InRoster(s, rm)
      PROVE  sessionDic[s] # None /\ domain[sessionDic[s]] = "ROOM"
  <2>1. sessionDic[s] # None /\ IsMember(rm, sessionDic[s])
    BY <1>1, RosterEntry
  <2>2. sessionDic[s] \in Users
    BY <2>1 DEF ServerInv, StateTypeOK, UserTypeOK
  <2> QED BY <2>1, <2>2 DEF RoomInv, RoomMembership
<1>2. ASSUME sessionDic[s] # None, domain[sessionDic[s]] = "ROOM"
      PROVE  \E rm \in Rooms : People!InRoster(s, rm)
  <2> DEFINE u == sessionDic[s]
             rm == <<lobbyOf[u], roomOf[u]>>
  <2>1. u \in Users
    BY <1>2 DEF ServerInv, StateTypeOK, UserTypeOK
  <2>2. rm \in Rooms
    BY <1>2, <2>1 DEF ServerInv, LobbyMembership, RoomInv, RoomMembership, Rooms
  <2>3. IsMember(rm, u)
    BY <1>2, <2>1, <2>2 DEF RoomInv, RoomMembership
  <2> QED BY <1>2, <2>2, <2>3, RosterEntry
<1> QED BY <1>1, <1>2, PeopleOperators DEF People!InSomeRoom

(* The roster of a room without the session of a member is that of the      *)
(* members that remain.                                                     *)
LEMMA RosterWithout ==
  ASSUME ServerInv, RoomInv, NEW s \in Sessions, NEW rm \in Rooms, NEW u \in Users,
         u = sessionDic[s], IsMember(rm, u)
  PROVE  People!Without(RosterTable[rm], s)
           = Image(sessionOf, RemainingMembers(rm, u))
<1> DEFINE q == members[rm]
           at == {i \in DOMAIN q : q[i] = u}
           k == Min(at)
<1>1. q \in Seq(Users) /\ DOMAIN q = 1..Len(q) /\ Len(q) \in Nat
  BY DEF ServerInv, StateTypeOK, RoomTypeOK
<1>2. at # {} /\ at \in SUBSET Nat
  BY <1>1 DEF IsMember
<1>3. k \in at
  BY <1>2, MinOfNaturals
<1>4. k \in 1..Len(q)
  BY <1>1, <1>3
<1>5. sessionDic[s] # None
  BY NoneIsNoIndex
<1>6. /\ DOMAIN RosterTable[rm] = DOMAIN q
      /\ \A i \in DOMAIN q : RosterTable[rm][i] = s <=> q[i] = u
  BY <1>5, RosterEntry
<1>7. {i \in DOMAIN RosterTable[rm] : RosterTable[rm][i] = s} = at
  BY <1>6
<1>8. People!Without(RosterTable[rm], s) = RemoveAt(RosterTable[rm], k)
  BY <1>7, PeopleOperators DEF People!Without
<1>9. RosterTable[rm] = Image(sessionOf, q)
  BY DEF RosterTable, Image
<1>10. RemainingMembers(rm, u) = RemoveAt(q, k)
  BY DEF RemainingMembers
<1> HIDE DEF q, at, k
<1>11. Image(sessionOf, RemoveAt(q, k)) = RemoveAt(Image(sessionOf, q), k)
  BY <1>1, <1>4, ImageOfRemoveAt
<1> QED BY <1>8, <1>9, <1>10, <1>11

(* The rosters stay while the members and their sessions do. *)
LEMMA RosterStays ==
  ASSUME members' = members,
         \A rm \in Rooms : \A i \in DOMAIN members[rm] :
           sessionOf'[members[rm][i]] = sessionOf[members[rm][i]]
  PROVE  RosterTable' = RosterTable
  BY DEF RosterTable

-----------------------------------------------------------------------------
(* Each move is a step of Presence, or none *)

(* Nothing Presence tells apart changes. *)
Stutters == UNCHANGED <<OnlineNow, NameTable, LobbyTable, RosterTable>>

(* A step that leaves everybody in place is none of Presence. *)
LEMMA RestIsStutter ==
  ASSUME UNCHANGED <<sessionDic, domain, sessionOf, idOf, lobbyOf, members, connected>>
  PROVE  Stutters
  BY DEF Stutters, OnlineNow, NameTable, LobbyTable, RosterTable, LoggedInAs, InLobby

(* A new connection is Presence's Connect. *)
LEMMA ConnectIsConnect ==
  ASSUME ServerInv, NEW s \in Sessions, Connects(s)
  PROVE  People!Connect(s)
<1>1. /\ connected \in [Sessions -> BOOLEAN] /\ ~connected[s]
      /\ connected' = [connected EXCEPT ![s] = TRUE]
  BY DEF Connects, ServerInv, StateTypeOK, ConnTypeOK
<1>2. s \notin OnlineNow /\ OnlineNow' = OnlineNow \cup {s}
  BY <1>1 DEF OnlineNow
<1>3. UNCHANGED <<NameTable, LobbyTable, RosterTable>>
  BY DEF Connects, NameTable, LobbyTable, RosterTable, LoggedInAs, InLobby
<1> QED BY <1>2, <1>3 DEF People!Connect

(* A session without a user is nowhere: only the connection goes. *)
LEMMA VanishIsDisconnect ==
  ASSUME ServerInv, RoomInv, NEW s \in Sessions, Vanishes(s)
  PROVE  People!Disconnect(s)
<1>1. /\ connected \in [Sessions -> BOOLEAN] /\ connected[s] /\ sessionDic[s] = None
      /\ connected' = [connected EXCEPT ![s] = FALSE]
  BY DEF Vanishes, ServerInv, StateTypeOK, ConnTypeOK
<1>2. s \in OnlineNow /\ OnlineNow' = OnlineNow \ {s}
  BY <1>1 DEF OnlineNow
<1>3. UNCHANGED <<NameTable, LobbyTable, RosterTable>>
  BY DEF Vanishes, NameTable, LobbyTable, RosterTable, LoggedInAs, InLobby
<1>4. NameTable[s] = NoID /\ LobbyTable[s] = -1
  BY <1>1 DEF NameTable, LobbyTable, LoggedInAs, InLobby
<1>5. /\ NameTable = [NameTable EXCEPT ![s] = NoID]
      /\ LobbyTable = [LobbyTable EXCEPT ![s] = -1]
  <2>1. NameTable = [t \in Sessions |-> NameTable[t]] /\ LobbyTable = [t \in Sessions |-> LobbyTable[t]]
    BY DEF NameTable, LobbyTable
  <2> QED BY <1>4, <2>1
<1>6. \A rm \in Rooms : ~People!InRoster(s, rm)
  BY <1>1, RosterEntry
<1>7. RosterTable = [rm \in People!AllRooms |->
                       IF People!InRoster(s, rm) THEN People!Without(RosterTable[rm], s)
                                                 ELSE RosterTable[rm]]
  <2>1. RosterTable = [rm \in Rooms |-> RosterTable[rm]]
    BY DEF RosterTable
  <2> QED BY <1>6, <2>1, PeopleOperators
<1> QED BY <1>2, <1>3, <1>5, <1>7 DEF People!Disconnect

(* The sessions with a user, one user each, leave out the free object u. *)
LEMMA ServerHasASeat ==
  ASSUME ServerInv, NEW u \in Users, \A t \in Sessions : sessionDic[t] # u
  PROVE  Cardinality({t \in Sessions : NameTable[t] # NoID}) < MaxClientCount
<1> DEFINE busy == {t \in Sessions : NameTable[t] # NoID}
           f == [t \in busy |-> sessionDic[t]]
<1>1. \A t \in busy : t \in Sessions /\ sessionDic[t] # None
  BY SessionKnown
<1>2. \A t \in busy : sessionDic[t] \in Users \ {u}
  BY <1>1 DEF ServerInv, StateTypeOK, UserTypeOK
<1>3. f \in Injection(busy, Users \ {u})
  <2>1. f \in [busy -> Users \ {u}]
    BY <1>2
  <2>2. \A t, v \in busy : f[t] = f[v] => t = v
    BY <1>1, OneSessionEach
  <2> HIDE DEF f, busy
  <2> QED BY <2>1, <2>2 DEF Injection, IsInjective
<1>4. IsFiniteSet(Users \ {u}) /\ Cardinality(Users \ {u}) = MaxClientCount - 1
  BY UsersAreFinite, FS_RemoveElement
<1> HIDE DEF f, busy
<1>5. IsFiniteSet(busy) /\ Cardinality(busy) <= MaxClientCount - 1
  BY <1>3, <1>4, FS_Injection
<1>6. Cardinality(busy) \in Nat
  BY <1>5, FS_CardinalityType
<1> QED BY <1>5, <1>6, ConfigAssumption DEF busy

(* A first login logs in; another one of the same session changes nothing   *)
(* Presence tells apart: the object it takes is owned by no session.        *)
LEMMA LogInIsLogIn ==
  ASSUME ServerInv, RoomInv, NEW s \in Sessions, NEW u \in Users, NEW id \in UserIDs,
         LogsIn(s, u, id)
  PROVE  People!LogIn(s, id) \/ Stutters
<1>1. /\ connected[s] /\ domain[u] = "NONE" /\ \A t \in Sessions : sessionDic[t] # u
      /\ \A t \in Sessions : sessionDic[t] # None => idOf[sessionDic[t]] # id
      /\ sessionDic' = IF sessionDic[s] = None THEN [sessionDic EXCEPT ![s] = u] ELSE sessionDic
      /\ domain'    = [domain EXCEPT ![u] = "LOGIN"]
      /\ sessionOf' = [sessionOf EXCEPT ![u] = s]
      /\ idOf'      = [idOf EXCEPT ![u] = id]
      /\ UNCHANGED <<lobbyOf, members, connected>>
  BY DEF LogsIn
<1>2. StateTypeOK /\ u # None
  BY NoneIsNoIndex DEF ServerInv
<1>3. RosterTable' = RosterTable
  <2>1. ASSUME NEW rm \in Rooms, NEW i \in DOMAIN members[rm]
        PROVE  sessionOf'[members[rm][i]] = sessionOf[members[rm][i]]
    <3>1. members[rm][i] \in Users
      BY <1>2 DEF StateTypeOK, RoomTypeOK
    <3>2. domain[members[rm][i]] = "ROOM"
      BY <3>1 DEF RoomInv, RoomMembership, IsMember
    <3> QED BY <1>1, <1>2, <3>1, <3>2 DEF StateTypeOK, UserTypeOK
  <2> QED BY <1>1, <2>1, RosterStays
<1>4. OnlineNow' = OnlineNow
  BY <1>1 DEF OnlineNow
<1>5. ASSUME NEW t \in Sessions, t # s \/ sessionDic[s] # None
      PROVE  NameTable'[t] = NameTable[t] /\ LobbyTable'[t] = LobbyTable[t]
  <2>1. sessionDic'[t] = sessionDic[t] /\ sessionDic[t] # u
    BY <1>1, <1>2, <1>5 DEF StateTypeOK, UserTypeOK
  <2>2. sessionDic[t] # None => sessionDic[t] \in Users
    BY <1>2 DEF StateTypeOK, UserTypeOK
  <2>3. sessionDic[t] # None => /\ idOf'[sessionDic[t]] = idOf[sessionDic[t]]
                                /\ domain'[sessionDic[t]] = domain[sessionDic[t]]
                                /\ lobbyOf'[sessionDic[t]] = lobbyOf[sessionDic[t]]
    BY <1>1, <1>2, <2>1, <2>2 DEF StateTypeOK, UserTypeOK
  <2> QED BY <2>1, <2>3 DEF NameTable, LobbyTable, LoggedInAs, InLobby
<1>6. /\ NameTable' = [t \in Sessions |-> NameTable'[t]] /\ NameTable = [t \in Sessions |-> NameTable[t]]
      /\ LobbyTable' = [t \in Sessions |-> LobbyTable'[t]]
      /\ LobbyTable = [t \in Sessions |-> LobbyTable[t]]
  BY DEF NameTable, LobbyTable
<1>7. CASE sessionDic[s] # None
  <2>1. NameTable' = NameTable /\ LobbyTable' = LobbyTable
    BY <1>5, <1>6, <1>7
  <2> QED BY <1>3, <1>4, <2>1 DEF Stutters
<1>8. CASE sessionDic[s] = None
  <2>1. sessionDic'[s] = u /\ idOf'[u] = id /\ domain'[u] = "LOGIN"
    BY <1>1, <1>2, <1>8 DEF StateTypeOK, UserTypeOK
  <2>2. NameTable'[s] = id /\ LobbyTable'[s] = -1
    BY <1>2, <2>1 DEF NameTable, LobbyTable, LoggedInAs, InLobby
  <2>3. NameTable[s] = NoID /\ LobbyTable[s] = -1
    BY <1>8, SessionKnown
  <2>4. NameTable' = [NameTable EXCEPT ![s] = id] /\ LobbyTable' = LobbyTable
    BY <1>5, <1>6, <2>2, <2>3
  <2>5. \A t \in Sessions : NameTable[t] # id
    BY <1>1, NoneIsNoIndex, SessionKnown
  <2>6. People!Cardinality({t \in Sessions : NameTable[t] # NoID}) < MaxClientCount
    BY <1>1, ServerHasASeat, PeopleOperators
  <2>7. s \in OnlineNow
    BY <1>1, SessionKnown
  <2> QED BY <1>3, <1>4, <2>3, <2>4, <2>5, <2>6, <2>7 DEF People!LogIn
<1> QED BY <1>7, <1>8

(* The users of the sessions Presence has in a lobby are in its dictionary. *)
LEMMA LobbyHasASeat ==
  ASSUME ServerInv, NEW l \in Lobbies, Cardinality(lobbyUsers[l]) < MaxLobbyUserCount
  PROVE  Cardinality({t \in Sessions : LobbyTable[t] = l}) < MaxLobbyUserCount
<1> DEFINE here == {t \in Sessions : LobbyTable[t] = l}
           f == [t \in here |-> sessionDic[t]]
<1>1. \A t \in here : /\ t \in Sessions /\ sessionDic[t] # None /\ lobbyOf[sessionDic[t]] = l
                      /\ domain[sessionDic[t]] \in {"LOBBY", "ROOM"}
  BY SessionKnown, NoneIsNoIndex DEF None
<1>2. \A t \in here : sessionDic[t] \in lobbyUsers[l]
  BY <1>1 DEF ServerInv, StateTypeOK, UserTypeOK, LobbyMembership
<1>3. f \in Injection(here, lobbyUsers[l])
  <2>1. f \in [here -> lobbyUsers[l]]
    BY <1>2
  <2>2. \A t, v \in here : f[t] = f[v] => t = v
    BY <1>1, OneSessionEach
  <2> HIDE DEF f, here
  <2> QED BY <2>1, <2>2 DEF Injection, IsInjective
<1>4. IsFiniteSet(lobbyUsers[l]) /\ Cardinality(lobbyUsers[l]) \in Nat
  BY UsersAreFinite DEF ServerInv, StateTypeOK, LobbyTypeOK
<1> HIDE DEF f, here
<1>5. IsFiniteSet(here) /\ Cardinality(here) <= Cardinality(lobbyUsers[l])
  BY <1>3, <1>4, FS_Injection
<1>6. Cardinality(here) \in Nat
  BY <1>5, FS_CardinalityType
<1> QED BY <1>4, <1>5, <1>6, ConfigAssumption DEF here

(* A user who moves, and nobody else: the others' sessions stay where they  *)
(* are, and so do all names and connections.                                *)
LEMMA OthersStay ==
  ASSUME ServerInv, NEW s \in Sessions, NEW u \in Users, Owns(s, u), OnlyPlaceOf(u)
  PROVE  /\ UNCHANGED <<OnlineNow, NameTable>>
         /\ sessionDic[s] # None /\ sessionDic' = sessionDic /\ sessionOf' = sessionOf
         /\ LobbyTable'[s] = IF domain'[u] \in {"LOBBY", "ROOM"} THEN lobbyOf'[u] ELSE -1
         /\ LobbyTable' = [LobbyTable EXCEPT ![s] = LobbyTable'[s]]
<1>1. /\ u = sessionDic[s] /\ u # None
      /\ UNCHANGED <<sessionDic, sessionOf, idOf, connected>>
      /\ \A v \in Users \ {u} : domain'[v] = domain[v] /\ lobbyOf'[v] = lobbyOf[v]
  BY NoneIsNoIndex DEF Owns, OnlyPlaceOf
<1>2. UNCHANGED <<OnlineNow, NameTable>>
  BY <1>1 DEF OnlineNow, NameTable, LoggedInAs
<1>3. LobbyTable'[s] = IF domain'[u] \in {"LOBBY", "ROOM"} THEN lobbyOf'[u] ELSE -1
  BY <1>1 DEF LobbyTable, InLobby
<1>4. ASSUME NEW t \in Sessions, t # s PROVE LobbyTable'[t] = LobbyTable[t]
  <2>1. sessionDic[t] # None => sessionDic[t] \in Users \ {u}
    BY <1>1, <1>4, OneSessionEach DEF ServerInv, StateTypeOK, UserTypeOK
  <2> QED BY <1>1, <2>1 DEF LobbyTable, InLobby
<1>5. LobbyTable' = [t \in Sessions |-> LobbyTable'[t]] /\ LobbyTable = [t \in Sessions |-> LobbyTable[t]]
  BY DEF LobbyTable
<1> QED BY <1>1, <1>2, <1>3, <1>4, <1>5

(* Whoever enters a lobby of the server enters it in Presence, *)
LEMMA EnterLobbyIsEnterLobby ==
  ASSUME ServerInv, NEW s \in Sessions, NEW u \in Users, NEW l \in Lobbies, EntersLobby(s, u, l)
  PROVE  People!EnterLobby(s, l)
<1>1. /\ Owns(s, u) /\ OnlyPlaceOf(u) /\ domain[u] = "LOGIN"
      /\ Cardinality(lobbyUsers[l]) < MaxLobbyUserCount
      /\ domain'[u] = "LOBBY" /\ lobbyOf'[u] = l /\ members' = members
  BY DEF EntersLobby
<1>2. u = sessionDic[s] /\ sessionDic[s] # None
  BY <1>1, NoneIsNoIndex DEF Owns
<1>3. NameTable[s] # NoID /\ LobbyTable[s] = -1
  BY <1>1, <1>2, SessionKnown
<1>4. People!Cardinality({t \in Sessions : LobbyTable[t] = l}) < MaxLobbyUserCount
  BY <1>1, LobbyHasASeat, PeopleOperators
<1>5. LobbyTable' = [LobbyTable EXCEPT ![s] = l] /\ UNCHANGED <<OnlineNow, NameTable>>
  BY <1>1, OthersStay
<1>6. RosterTable' = RosterTable
  BY <1>1, OthersStay DEF RosterTable
<1> QED BY <1>3, <1>4, <1>5, <1>6 DEF People!EnterLobby

(* and leaves it there when leaving it in the server. *)
LEMMA LeaveLobbyIsLeaveLobby ==
  ASSUME ServerInv, RoomInv, NEW s \in Sessions, NEW u \in Users, NEW l \in Lobbies,
         LeavesLobby(s, u, l)
  PROVE  People!LeaveLobby(s)
<1>1. /\ Owns(s, u) /\ OnlyPlaceOf(u) /\ domain[u] = "LOBBY" /\ domain'[u] = "LOGIN"
      /\ members' = members
  BY DEF LeavesLobby
<1>2. u = sessionDic[s] /\ sessionDic[s] # None
  BY <1>1, NoneIsNoIndex DEF Owns
<1>3. LobbyTable[s] # -1
  BY <1>1, <1>2, SessionKnown
<1>4. ~People!InSomeRoom(s)
  BY <1>1, <1>2, InARoom
<1>5. LobbyTable' = [LobbyTable EXCEPT ![s] = -1] /\ UNCHANGED <<OnlineNow, NameTable>>
  BY <1>1, OthersStay
<1>6. RosterTable' = RosterTable
  BY <1>1, OthersStay DEF RosterTable
<1> QED BY <1>3, <1>4, <1>5, <1>6 DEF People!LeaveLobby

(* The new member's session is the last of the roster. *)
LEMMA EnterRoomIsEnterRoom ==
  ASSUME ServerInv, RoomInv, NEW s \in Sessions, NEW u \in Users, NEW l \in Lobbies,
         NEW no \in RoomNos, EntersRoom(s, u, l, no)
  PROVE  People!EnterRoom(s, <<l, no>>)
<1> DEFINE rm == <<l, no>>
<1>1. /\ Owns(s, u) /\ OnlyPlaceOf(u) /\ domain[u] = "LOBBY" /\ lobbyOf[u] = l
      /\ Len(members[rm]) < MaxRoomUserCount
      /\ domain'[u] = "ROOM" /\ lobbyOf'[u] = l
      /\ members' = [members EXCEPT ![rm] = Append(@, u)]
  BY DEF EntersRoom
<1>2. u = sessionDic[s] /\ sessionDic[s] # None /\ sessionOf[u] = s
  BY <1>1, NoneIsNoIndex DEF Owns
<1>3. rm \in Rooms /\ rm[1] = l
  BY DEF Rooms
<1>4. LobbyTable[s] = l
  BY <1>1, <1>2, SessionKnown
<1>5. ~People!InSomeRoom(s)
  BY <1>1, <1>2, InARoom
<1>6. LobbyTable' = LobbyTable /\ UNCHANGED <<OnlineNow, NameTable>>
  <2>1. LobbyTable' = [LobbyTable EXCEPT ![s] = l] /\ UNCHANGED <<OnlineNow, NameTable>>
    BY <1>1, OthersStay
  <2>2. LobbyTable = [t \in Sessions |-> LobbyTable[t]]
    BY DEF LobbyTable
  <2> QED BY <1>4, <2>1, <2>2
<1>7. members \in [Rooms -> Seq(Users)]
  BY DEF ServerInv, StateTypeOK, RoomTypeOK
<1>8. Len(RosterTable[rm]) = Len(members[rm])
  BY <1>3, <1>7 DEF RosterTable
<1>9. RosterTable' = [RosterTable EXCEPT ![rm] = Append(@, s)]
  <2>1. /\ RosterTable  = [r \in Rooms |-> Image(sessionOf, members[r])]
        /\ RosterTable' = [r \in Rooms |-> Image(sessionOf, members'[r])]
    BY <1>1, OthersStay DEF RosterTable, Image
  <2>2. Image(sessionOf, Append(members[rm], u)) = Append(Image(sessionOf, members[rm]), s)
    <3>1. members[rm] \in Seq(Users)
      BY <1>3, <1>7
    <3>2. Image(sessionOf, Append(members[rm], u))
            = Append(Image(sessionOf, members[rm]), sessionOf[u])
      BY <3>1, ImageOfAppend
    <3> QED BY <1>2, <3>2
  <2> QED BY <1>1, <1>3, <1>7, <2>1, <2>2
<1> QED BY <1>1, <1>3, <1>4, <1>5, <1>6, <1>8, <1>9 DEF People!EnterRoom

(* A user who leaves a room leaves its roster in Presence. *)
LEMMA LeaveRoomIsLeaveRoom ==
  ASSUME ServerInv, RoomInv, NEW s \in Sessions, NEW u \in Users, NEW l \in Lobbies,
         NEW no \in RoomNos, LeavesRoom(s, u, l, no)
  PROVE  People!LeaveRoom(s, <<l, no>>)
<1> DEFINE rm == <<l, no>>
<1>1. /\ Owns(s, u) /\ OnlyPlaceOf(u) /\ domain[u] = "ROOM" /\ lobbyOf[u] = l /\ roomOf[u] = no
      /\ domain'[u] = "LOBBY" /\ lobbyOf'[u] = l
      /\ members' = [members EXCEPT ![rm] = RemainingMembers(rm, u)]
  BY DEF LeavesRoom
<1>2. u = sessionDic[s] /\ sessionDic[s] # None
  BY <1>1, NoneIsNoIndex DEF Owns
<1>3. rm \in Rooms
  BY DEF Rooms
<1>4. IsMember(rm, u)
  BY <1>1, <1>3 DEF RoomInv, RoomMembership
<1>5. People!InRoster(s, rm)
  BY <1>2, <1>3, <1>4, RosterEntry
<1>6. LobbyTable' = LobbyTable /\ UNCHANGED <<OnlineNow, NameTable>>
  <2>1. LobbyTable' = [LobbyTable EXCEPT ![s] = l] /\ UNCHANGED <<OnlineNow, NameTable>>
    BY <1>1, OthersStay
  <2>2. LobbyTable = [t \in Sessions |-> LobbyTable[t]]
    BY DEF LobbyTable
  <2>3. LobbyTable[s] = l
    BY <1>1, <1>2, SessionKnown
  <2> QED BY <2>1, <2>2, <2>3
<1>7. members \in [Rooms -> Seq(Users)]
  BY DEF ServerInv, StateTypeOK, RoomTypeOK
<1>8. RosterTable' = [RosterTable EXCEPT ![rm] = People!Without(@, s)]
  <2>1. /\ RosterTable  = [r \in Rooms |-> Image(sessionOf, members[r])]
        /\ RosterTable' = [r \in Rooms |-> Image(sessionOf, members'[r])]
    BY <1>1, OthersStay DEF RosterTable, Image
  <2>2. People!Without(RosterTable[rm], s) = Image(sessionOf, RemainingMembers(rm, u))
    BY <1>2, <1>3, <1>4, RosterWithout
  <2> QED BY <1>1, <1>3, <1>7, <2>1, <2>2
<1> QED BY <1>5, <1>6, <1>8 DEF People!LeaveRoom

(* The closing session's user is a member of no room any more, and its      *)
(* Cleared object is nobody's: the rosters of the other rooms stay, and so  *)
(* does what Presence knows of the other sessions.                          *)
LEMMA CloseIsDisconnect ==
  ASSUME ServerInv, RoomInv, ServerInv', RoomInv', NEW s \in Sessions, NEW u \in Users,
         NEW l \in Lobbies \cup {None}, NEW r \in RoomNos \cup {None}, Closes(s, u, l, r)
  PROVE  People!Disconnect(s)
<1>1. /\ Owns(s, u) /\ domain[u] # "NONE"
      /\ connected'  = [connected EXCEPT ![s] = FALSE]
      /\ sessionDic' = [sessionDic EXCEPT ![s] = None]
      /\ domain'     = [domain EXCEPT ![u] = "NONE"]
      /\ sessionOf'  = [sessionOf EXCEPT ![u] = 0]
      /\ idOf'       = [idOf EXCEPT ![u] = NoID]
      /\ lobbyOf'    = [lobbyOf EXCEPT ![u] = None]
      /\ members' = IF domain[u] = "ROOM"
                    THEN [members EXCEPT ![RoomOf(u)] = RemainingMembers(RoomOf(u), u)]
                    ELSE members
  BY DEF Closes
<1>2. u = sessionDic[s] /\ sessionDic[s] # None /\ connected[s]
  BY <1>1, NoneIsNoIndex DEF Owns
<1>3. StateTypeOK /\ StateTypeOK'
  BY DEF ServerInv
<1>4. s \in OnlineNow /\ OnlineNow' = OnlineNow \ {s}
  BY <1>1, <1>2, <1>3 DEF OnlineNow, StateTypeOK, ConnTypeOK
<1>5. NameTable' = [NameTable EXCEPT ![s] = NoID] /\ LobbyTable' = [LobbyTable EXCEPT ![s] = -1]
  <2>1. ASSUME NEW t \in Sessions, t # s
        PROVE  NameTable'[t] = NameTable[t] /\ LobbyTable'[t] = LobbyTable[t]
    <3>1. sessionDic'[t] = sessionDic[t]
      BY <1>1, <1>3, <2>1 DEF StateTypeOK, UserTypeOK
    <3>2. sessionDic[t] # None => sessionDic[t] \in Users /\ sessionDic[t] # u
      BY <1>2, <1>3, <2>1, OneSessionEach DEF StateTypeOK, UserTypeOK
    <3>3. sessionDic[t] # None => /\ idOf'[sessionDic[t]] = idOf[sessionDic[t]]
                                  /\ domain'[sessionDic[t]] = domain[sessionDic[t]]
                                  /\ lobbyOf'[sessionDic[t]] = lobbyOf[sessionDic[t]]
      BY <1>1, <1>3, <3>2 DEF StateTypeOK, UserTypeOK
    <3> QED BY <3>1, <3>3 DEF NameTable, LobbyTable, LoggedInAs, InLobby
  <2>2. sessionDic'[s] = None
    BY <1>1, <1>3 DEF StateTypeOK, UserTypeOK
  <2>3. NameTable'[s] = NoID /\ LobbyTable'[s] = -1
    BY <2>2 DEF NameTable, LobbyTable, LoggedInAs, InLobby
  <2>4. /\ NameTable' = [t \in Sessions |-> NameTable'[t]] /\ NameTable = [t \in Sessions |-> NameTable[t]]
        /\ LobbyTable' = [t \in Sessions |-> LobbyTable'[t]]
        /\ LobbyTable = [t \in Sessions |-> LobbyTable[t]]
    BY DEF NameTable, LobbyTable
  <2> QED BY <2>1, <2>3, <2>4
<1>6. ASSUME NEW rm \in Rooms
      PROVE  RosterTable'[rm] = IF People!InRoster(s, rm) THEN People!Without(RosterTable[rm], s)
                                                          ELSE RosterTable[rm]
  <2>1. RosterTable'[rm] = Image(sessionOf, members'[rm])
    <3>1. ASSUME NEW i \in DOMAIN members'[rm]
          PROVE  sessionOf'[members'[rm][i]] = sessionOf[members'[rm][i]]
      <4>1. members'[rm][i] \in Users
        BY <1>3 DEF StateTypeOK, RoomTypeOK
      <4>2. domain'[members'[rm][i]] = "ROOM"
        BY <4>1 DEF RoomInv, RoomMembership, IsMember
      <4> QED BY <1>1, <1>3, <4>1, <4>2 DEF StateTypeOK, UserTypeOK
    <3>2. RosterTable'[rm] = [i \in DOMAIN members'[rm] |-> sessionOf'[members'[rm][i]]]
      BY DEF RosterTable
    <3> QED BY <3>1, <3>2 DEF Image
  <2>2. RosterTable[rm] = Image(sessionOf, members[rm])
    BY DEF RosterTable, Image
  <2>3. CASE IsMember(rm, u)
    <3>1. domain[u] = "ROOM" /\ RoomOf(u) = rm
      BY <2>3 DEF RoomInv, RoomMembership, RoomOf
    <3>2. members'[rm] = RemainingMembers(rm, u)
      BY <1>1, <1>3, <3>1 DEF StateTypeOK, RoomTypeOK
    <3>3. People!InRoster(s, rm)
      BY <1>2, <2>3, RosterEntry
    <3>4. People!Without(RosterTable[rm], s) = Image(sessionOf, RemainingMembers(rm, u))
      BY <1>2, <2>3, RosterWithout
    <3> QED BY <2>1, <3>2, <3>3, <3>4
  <2>4. CASE ~IsMember(rm, u)
    <3>1. domain[u] = "ROOM" => RoomOf(u) # rm
      BY <2>4 DEF RoomInv, RoomMembership, RoomOf
    <3>2. members'[rm] = members[rm]
      BY <1>1, <1>3, <3>1 DEF StateTypeOK, RoomTypeOK
    <3>3. ~People!InRoster(s, rm)
      BY <1>2, <2>4, RosterEntry
    <3> QED BY <2>1, <2>2, <3>2, <3>3
  <2> QED BY <2>3, <2>4
<1>7. RosterTable' = [rm \in People!AllRooms |->
                        IF People!InRoster(s, rm) THEN People!Without(RosterTable[rm], s)
                                                  ELSE RosterTable[rm]]
  <2>1. RosterTable' = [rm \in Rooms |-> RosterTable'[rm]]
    BY DEF RosterTable
  <2> QED BY <1>6, <2>1, PeopleOperators
<1> QED BY <1>4, <1>5, <1>7 DEF People!Disconnect

(* When the server has started, nobody is there. *)
LEMMA InitIsInit ==
  ASSUME Init
  PROVE  People!PInit
<1>1. /\ connected  = [s \in Sessions |-> FALSE]
      /\ sessionDic = [s \in Sessions |-> None]
      /\ members = [rm \in Rooms |-> <<>>]
  BY DEF Init, UserInit, RoomInit
<1>2. OnlineNow = {}
  BY <1>1 DEF OnlineNow
<1>3. NameTable = [s \in Sessions |-> NoID] /\ LobbyTable = [s \in Sessions |-> -1]
  BY <1>1 DEF NameTable, LobbyTable, LoggedInAs, InLobby
<1>4. RosterTable = [rm \in Rooms |-> <<>>]
  <2>1. \A rm \in Rooms : [i \in DOMAIN members[rm] |-> sessionOf[members[rm][i]]] = <<>>
    BY <1>1
  <2> QED BY <2>1 DEF RosterTable
<1> QED BY <1>2, <1>3, <1>4, PeopleOperators DEF People!PInit

(* Every step of the server is a step of Presence, or changes nothing it    *)
(* tells apart.                                                             *)
LEMMA MoveIsPresenceStep ==
  ASSUME ServerInv, RoomInv, ServerInv', RoomInv', NEW s \in Sessions, Moves(s)
  PROVE  People!PNext \/ Stutters
<1>1. CASE Rests
  BY <1>1, RestIsStutter DEF Rests
<1>2. CASE Connects(s)
  BY <1>2, ConnectIsConnect DEF People!PNext
<1>3. CASE Vanishes(s)
  BY <1>3, VanishIsDisconnect DEF People!PNext
<1>4. CASE \E u \in Users, id \in UserIDs : LogsIn(s, u, id)
  BY <1>4, LogInIsLogIn DEF People!PNext
<1>5. CASE \E u \in Users, l \in Lobbies \cup {None}, r \in RoomNos \cup {None} : Closes(s, u, l, r)
  BY <1>5, CloseIsDisconnect DEF People!PNext
<1>6. CASE \E u \in Users, l \in Lobbies : EntersLobby(s, u, l) \/ LeavesLobby(s, u, l)
  BY <1>6, EnterLobbyIsEnterLobby, LeaveLobbyIsLeaveLobby DEF People!PNext
<1>7. ASSUME NEW u \in Users, NEW l \in Lobbies, NEW no \in RoomNos,
             EntersRoom(s, u, l, no) \/ LeavesRoom(s, u, l, no)
      PROVE  People!PNext
  <2>1. <<l, no>> \in People!AllRooms
    BY DEF People!AllRooms
  <2>2. People!EnterRoom(s, <<l, no>>) \/ People!LeaveRoom(s, <<l, no>>)
    BY <1>7, EnterRoomIsEnterRoom, LeaveRoomIsLeaveRoom
  <2> QED BY <2>1, <2>2 DEF People!PNext
<1> QED BY <1>1, <1>2, <1>3, <1>4, <1>5, <1>6, <1>7 DEF Moves

(* The server implements Presence: ImplementsPresence. *)
THEOREM ServerImplementsPresence == Spec => ImplementsPresence
<1>1. Init => People!PInit
  BY InitIsInit
<1>2. ASSUME ServerInv, RoomInv, ServerInv', RoomInv', [Next]_vars
      PROVE  [People!PNext]_(People!pvars)
  <2>1. CASE Next
    <3>1. PICK s \in Sessions : Moves(s)
      BY <1>2, <2>1, StepMoves
    <3> QED BY <1>2, <3>1, MoveIsPresenceStep DEF Stutters, People!pvars
  <2>2. CASE UNCHANGED vars
    BY <2>2, RestIsStutter DEF vars, Stutters, People!pvars
  <2> QED BY <1>2, <2>1, <2>2
<1> QED BY <1>1, <1>2, ServerInvariant, RoomInvariant, PTL DEF Spec, ImplementsPresence, People!PSpec

-----------------------------------------------------------------------------
(* What is told, and to whom *)

(* The messages of a handler that sends two, *)
LEMMA TwoSent ==
  ASSUME NEW a, NEW b, sent' = <<a, b>>
  PROVE  SentNow = {a, b}
  BY DEF SentNow

(* or four. *)
LEMMA FourSent ==
  ASSUME NEW a, NEW b, NEW c, NEW d, sent' = <<a, b, c, d>>
  PROVE  SentNow = {a, b, c, d}
  BY DEF SentNow

(* Whoever the broadcast of a lobby reaches after a step is then in the     *)
(* lobby and not in a room, and its session leads back to it.               *)
LEMMA LobbyHears ==
  ASSUME ServerInv', NEW l \in Lobbies, NEW u
  PROVE  /\ LobbyListeners(l, u)' = SessionsOf(Visible(l) \ {u})'
         /\ \A t \in LobbyListeners(l, u)' :
              t \in Sessions /\ sessionDic'[t] \in Visible(l)' /\ sessionDic'[t] # u
<1>1. LobbyListeners(l, u)' = SessionsOf(Visible(l) \ {u})'
  BY DEF LobbyListeners, SessionsOf, Visible, IsCurDomainIn
<1>2. ASSUME NEW v \in Visible(l)' \ {u}
      PROVE  sessionOf'[v] \in Sessions /\ sessionDic'[sessionOf'[v]] = v
  <2>1. v \in Users /\ domain'[v] = "LOBBY"
    BY DEF Visible, ServerInv, StateTypeOK, LobbyTypeOK
  <2> QED BY <2>1 DEF ServerInv, LobbyMembership
<1> QED BY <1>1, <1>2 DEF SessionsOf

(* The same of the two broadcasts of a room: the one that says nothing when *)
(* the room has become unused then has nobody to tell.                      *)
LEMMA RoomHears ==
  ASSUME ServerInv', RoomInv', NEW rm \in Rooms, NEW u
  PROVE  /\ RoomListeners(rm, u)' = SessionsOf(MembersOf(rm) \ {u})'
         /\ RoomLeaveListeners(rm)' = SessionsOf(MembersOf(rm))'
         /\ MembersOf(rm)' \subseteq Users
         /\ \A t \in RoomListeners(rm, u)' :
              t \in Sessions /\ sessionDic'[t] \in MembersOf(rm)' /\ sessionDic'[t] # u
         /\ \A t \in RoomLeaveListeners(rm)' :
              t \in Sessions /\ sessionDic'[t] \in MembersOf(rm)'
<1>1. RoomListeners(rm, u)' = SessionsOf(MembersOf(rm) \ {u})'
  BY DEF RoomListeners, SessionsOf, MembersOf
<1>2. MembersOf(rm)' \subseteq Users
  BY DEF MembersOf, ServerInv, StateTypeOK, RoomTypeOK
<1>3. RoomLeaveListeners(rm)' = SessionsOf(MembersOf(rm))'
  <2>1. RoomListeners(rm, None)' = SessionsOf(MembersOf(rm) \ {None})'
    BY DEF RoomListeners, SessionsOf, MembersOf
  <2>2. MembersOf(rm)' \ {None} = MembersOf(rm)'
    BY <1>2, NoneIsNoIndex
  <2>3. CASE used'[rm]
    BY <2>1, <2>2, <2>3 DEF RoomLeaveListeners, SessionsOf
  <2>4. CASE ~used'[rm]
    <3>1. members'[rm] = <<>>
      BY <2>4 DEF RoomInv, RoomMembership
    <3>2. MembersOf(rm)' = {}
      BY <3>1 DEF MembersOf
    <3> QED BY <2>4, <3>2 DEF RoomLeaveListeners, SessionsOf
  <2> QED BY <2>3, <2>4
<1>4. ASSUME NEW v \in MembersOf(rm)'
      PROVE  sessionOf'[v] \in Sessions /\ sessionDic'[sessionOf'[v]] = v
  <2>1. v \in Users /\ IsMember(rm, v)'
    BY <1>2 DEF MembersOf, IsMember
  <2>2. domain'[v] = "ROOM"
    BY <2>1 DEF RoomInv, RoomMembership
  <2> QED BY <2>1, <2>2 DEF ServerInv, LobbyMembership
<1> QED BY <1>1, <1>2, <1>3, <1>4 DEF SessionsOf

(* Who is seen in the lobbies changes by the moving user alone. *)
LEMMA OnlyTheMoverAppears ==
  ASSUME ServerInv, NEW u \in Users,
         \A v \in Users \ {u} : domain'[v] = domain[v],
         \A k \in Lobbies : \A v \in Users \ {u} : v \in lobbyUsers'[k] <=> v \in lobbyUsers[k],
         ServerInv', NEW k \in Lobbies
  PROVE  /\ Visible(k)' \ {u} = Visible(k) \ {u}
         /\ u \in Visible(k)  <=> domain[u] = "LOBBY" /\ lobbyOf[u] = k
         /\ u \in Visible(k)' <=> domain'[u] = "LOBBY" /\ lobbyOf'[u] = k
<1>1. Visible(k) \subseteq Users /\ Visible(k)' \subseteq Users
  BY DEF Visible, ServerInv, StateTypeOK, LobbyTypeOK
<1>2. \A v \in Users \ {u} : v \in Visible(k)' <=> v \in Visible(k)
  BY DEF Visible
<1>3. u \in Visible(k)  <=> domain[u] = "LOBBY" /\ lobbyOf[u] = k
  BY DEF Visible, ServerInv, LobbyMembership
<1>4. u \in Visible(k)' <=> domain'[u] = "LOBBY" /\ lobbyOf'[u] = k
  BY DEF Visible, ServerInv, LobbyMembership
<1> QED BY <1>1, <1>2, <1>3, <1>4

(* The news of the lobby l. *)
LobbyTold(l) ==
  /\ \A u \in Visible(l)' \ Visible(l) :
       Told("LOBBY_ENTER_USER_NTF", idOf[u], SessionsOf(Visible(l) \ {u})')
  /\ \A u \in Visible(l) \ Visible(l)' : domain'[u] # "NONE" =>
       Told("LOBBY_LEAVE_USER_NTF", idOf[u], SessionsOf(Visible(l) \ {u})')

(* Where nobody moves, there is nothing to tell. *)
LEMMA StillLobbyTold ==
  ASSUME UNCHANGED <<domain, lobbyUsers>>, NEW k \in Lobbies
  PROVE  LobbyTold(k)
  BY DEF LobbyTold, Visible

(* A login is seen in no lobby. *)
LEMMA LogInLobbyTold ==
  ASSUME ServerInv, ServerInv', NEW s \in Sessions, NEW u \in Users, NEW id, LogsIn(s, u, id),
         NEW k \in Lobbies
  PROVE  LobbyTold(k)
<1>1. /\ domain[u] = "NONE" /\ domain' = [domain EXCEPT ![u] = "LOGIN"] /\ lobbyUsers' = lobbyUsers
  BY DEF LogsIn
<1>2. domain'[u] = "LOGIN" /\ \A v \in Users \ {u} : domain'[v] = domain[v]
  BY <1>1 DEF ServerInv, StateTypeOK, UserTypeOK
<1>3. Visible(k)' = Visible(k)
  BY <1>1, <1>2, OnlyTheMoverAppears
<1> QED BY <1>3 DEF LobbyTold

(* Whoever comes into the lobby, or back from a room of it, is announced. *)
LEMMA AppearingIsTold ==
  ASSUME ServerInv, ServerInv', NEW u \in Users, NEW l \in Lobbies, OnlyPlaceOf(u),
         \A k \in Lobbies : \A v \in Users \ {u} : v \in lobbyUsers'[k] <=> v \in lobbyUsers[k],
         domain[u] # "LOBBY", domain'[u] = "LOBBY", lobbyOf'[u] = l,
         NotifyLobbyEnterUserInfo(l, u)' \in SentNow, NEW k \in Lobbies
  PROVE  LobbyTold(k)
<1>1. /\ Visible(k)' \ {u} = Visible(k) \ {u}
      /\ u \notin Visible(k) /\ (u \in Visible(k)' <=> l = k)
  BY OnlyTheMoverAppears DEF OnlyPlaceOf
<1>2. /\ NotifyLobbyEnterUserInfo(l, u)'.pkt = "LOBBY_ENTER_USER_NTF"
      /\ NotifyLobbyEnterUserInfo(l, u)'.who = idOf[u]
      /\ NotifyLobbyEnterUserInfo(l, u)'.to = SessionsOf(Visible(l) \ {u})'
  <2>1. NotifyLobbyEnterUserInfo(l, u)'
          = NotifyUser("LOBBY_ENTER_USER_NTF", SessionsOf(Visible(l) \ {u})', idOf[u])
    BY LobbyHears DEF NotifyLobbyEnterUserInfo, OnlyPlaceOf, NotifyUser, Send
  <2> QED BY <2>1 DEF NotifyUser, Send
<1>3. Told("LOBBY_ENTER_USER_NTF", idOf[u], SessionsOf(Visible(l) \ {u})')
  BY <1>2 DEF Told
<1> QED BY <1>1, <1>3 DEF LobbyTold

(* Whoever leaves the lobby, or goes to a room of it, is announced. *)
LEMMA DisappearingIsTold ==
  ASSUME ServerInv, ServerInv', NEW u \in Users, NEW l \in Lobbies, OnlyPlaceOf(u),
         \A k \in Lobbies : \A v \in Users \ {u} : v \in lobbyUsers'[k] <=> v \in lobbyUsers[k],
         domain[u] = "LOBBY", domain'[u] # "LOBBY", lobbyOf[u] = l,
         NotifyLobbyLeaveUserInfo(l, u)' \in SentNow, NEW k \in Lobbies
  PROVE  LobbyTold(k)
<1>1. /\ Visible(k)' \ {u} = Visible(k) \ {u}
      /\ u \notin Visible(k)' /\ (u \in Visible(k) <=> l = k)
  BY OnlyTheMoverAppears DEF OnlyPlaceOf
<1>2. /\ NotifyLobbyLeaveUserInfo(l, u)'.pkt = "LOBBY_LEAVE_USER_NTF"
      /\ NotifyLobbyLeaveUserInfo(l, u)'.who = idOf[u]
      /\ NotifyLobbyLeaveUserInfo(l, u)'.to = SessionsOf(Visible(l) \ {u})'
  <2>1. NotifyLobbyLeaveUserInfo(l, u)'
          = NotifyUser("LOBBY_LEAVE_USER_NTF", SessionsOf(Visible(l) \ {u})', idOf[u])
    BY LobbyHears DEF NotifyLobbyLeaveUserInfo, OnlyPlaceOf, NotifyUser, Send
  <2> QED BY <2>1 DEF NotifyUser, Send
<1>3. Told("LOBBY_LEAVE_USER_NTF", idOf[u], SessionsOf(Visible(l) \ {u})')
  BY <1>2 DEF Told
<1> QED BY <1>1, <1>3 DEF LobbyTold

(* A user lost with the connection is not announced; nobody appears. *)
LEMMA CloseLobbyTold ==
  ASSUME ServerInv, ServerInv', NEW s \in Sessions, NEW u \in Users, NEW l, NEW r,
         Closes(s, u, l, r), NEW k \in Lobbies
  PROVE  LobbyTold(k)
<1>1. /\ domain' = [domain EXCEPT ![u] = "NONE"]
      /\ lobbyUsers' = [j \in Lobbies |-> lobbyUsers[j] \ {u}]
  BY DEF Closes
<1>2. domain'[u] = "NONE" /\ \A v \in Users \ {u} : domain'[v] = domain[v]
  BY <1>1 DEF ServerInv, StateTypeOK, UserTypeOK
<1>3. Visible(k)' = Visible(k) \ {u}
  BY <1>1, <1>2, OnlyTheMoverAppears
<1> QED BY <1>2, <1>3 DEF LobbyTold

(* Every move is told to the lobbies as LobbyTold asks. *)
LEMMA MoveLobbyTold ==
  ASSUME ServerInv, ServerInv', NEW s \in Sessions, Moves(s), NEW k \in Lobbies
  PROVE  LobbyTold(k)
<1>1. CASE Rests \/ Connects(s) \/ Vanishes(s)
  BY <1>1, StillLobbyTold DEF Rests, Connects, Vanishes
<1>2. CASE \E u \in Users, id \in UserIDs : LogsIn(s, u, id)
  BY <1>2, LogInLobbyTold
<1>3. CASE \E u \in Users, l \in Lobbies \cup {None}, r \in RoomNos \cup {None} : Closes(s, u, l, r)
  BY <1>3, CloseLobbyTold
<1>t. lobbyUsers \in [Lobbies -> SUBSET Users]
  BY DEF ServerInv, StateTypeOK, LobbyTypeOK
<1>4. ASSUME NEW u \in Users, NEW l \in Lobbies, EntersLobby(s, u, l) PROVE LobbyTold(k)
  <2>1. NotifyLobbyEnterUserInfo(l, u)' \in SentNow
    BY <1>4, TwoSent DEF EntersLobby
  <2>2. lobbyUsers' = [lobbyUsers EXCEPT ![l] = @ \cup {u}]
    BY <1>4 DEF EntersLobby
  <2>3. \A j \in Lobbies : \A v \in Users \ {u} : v \in lobbyUsers'[j] <=> v \in lobbyUsers[j]
    BY <1>t, <2>2
  <2> QED BY <1>4, <2>1, <2>3, AppearingIsTold DEF EntersLobby
<1>5. ASSUME NEW u \in Users, NEW l \in Lobbies, LeavesLobby(s, u, l) PROVE LobbyTold(k)
  <2>1. NotifyLobbyLeaveUserInfo(l, u)' \in SentNow
    BY <1>5, TwoSent DEF LeavesLobby
  <2>2. lobbyUsers' = [lobbyUsers EXCEPT ![l] = @ \ {u}]
    BY <1>5 DEF LeavesLobby
  <2>3. \A j \in Lobbies : \A v \in Users \ {u} : v \in lobbyUsers'[j] <=> v \in lobbyUsers[j]
    BY <1>t, <2>2
  <2> QED BY <1>5, <2>1, <2>3, DisappearingIsTold DEF LeavesLobby
<1>6. ASSUME NEW u \in Users, NEW l \in Lobbies, NEW no \in RoomNos, EntersRoom(s, u, l, no)
      PROVE  LobbyTold(k)
  <2>1. NotifyLobbyLeaveUserInfo(l, u)' \in SentNow
    BY <1>6, FourSent DEF EntersRoom
  <2> QED BY <1>6, <2>1, DisappearingIsTold DEF EntersRoom
<1>7. ASSUME NEW u \in Users, NEW l \in Lobbies, NEW no \in RoomNos, LeavesRoom(s, u, l, no)
      PROVE  LobbyTold(k)
  <2>1. NotifyLobbyEnterUserInfo(l, u)' \in SentNow
    BY <1>7, FourSent DEF LeavesRoom
  <2> QED BY <1>7, <2>1, AppearingIsTold DEF LeavesRoom
<1> QED BY <1>1, <1>2, <1>3, <1>4, <1>5, <1>6, <1>7 DEF Moves

(* Every user who appears in a lobby or disappears from it, the ones who    *)
(* lose their connection apart, is announced to all the others in it:       *)
(* LobbyMovesAnnounced.                                                     *)
THEOREM LobbyMovesAreAnnounced == Spec => LobbyMovesAnnounced
<1>1. ASSUME ServerInv, RoomInv, ServerInv', [Next]_vars
      PROVE  [\A l \in Lobbies : LobbyTold(l)]_vars
  BY <1>1, StepMoves, MoveLobbyTold
<1>2. (\A l \in Lobbies : LobbyTold(l)) <=>
        \A l \in Lobbies :
          /\ \A u \in Visible(l)' \ Visible(l) :
               Told("LOBBY_ENTER_USER_NTF", idOf[u], SessionsOf(Visible(l) \ {u})')
          /\ \A u \in Visible(l) \ Visible(l)' : domain'[u] # "NONE" =>
               Told("LOBBY_LEAVE_USER_NTF", idOf[u], SessionsOf(Visible(l) \ {u})')
  BY DEF LobbyTold
<1> QED BY <1>1, <1>2, ServerInvariant, RoomInvariant, PTL DEF Spec, LobbyMovesAnnounced

(* The news of the room rm, when its members change. *)
RoomTold(rm) ==
  members'[rm] # members[rm] =>
    /\ \E m \in SentNow :
         /\ m.pkt = "ROOM_CHANGED_INFO_NTF"
         /\ m.room = <<rm[2], Len(members'[rm])>>
         /\ SessionsOf(Visible(rm[1]))' \subseteq m.to
    /\ \A u \in MembersOf(rm) \ MembersOf(rm)' :
         Told("ROOM_LEAVE_USER_NTF", idOf[u], SessionsOf(MembersOf(rm))')
    /\ \A u \in MembersOf(rm)' \ MembersOf(rm) :
         Told("ROOM_ENTER_USER_NTF", idOf[u], SessionsOf(MembersOf(rm) \ {u})')

(* A new member is the only one to be new, and nobody is gone. *)
LEMMA NewMember ==
  ASSUME RoomTypeOK, NEW rm \in Rooms, NEW u,
         members' = [members EXCEPT ![rm] = Append(@, u)]
  PROVE  /\ MembersOf(rm)' \ MembersOf(rm) \subseteq {u}
         /\ MembersOf(rm) \ MembersOf(rm)' = {}
         /\ \A k \in Rooms \ {rm} : members'[k] = members[k]
<1>1. members[rm] \in Seq(Users) /\ members'[rm] = Append(members[rm], u)
      /\ \A k \in Rooms \ {rm} : members'[k] = members[k]
  BY DEF RoomTypeOK
<1>2. /\ DOMAIN members[rm] = 1..Len(members[rm]) /\ Len(members[rm]) \in Nat
      /\ DOMAIN members'[rm] = 1..(Len(members[rm]) + 1)
      /\ \A i \in 1..Len(members[rm]) : members'[rm][i] = members[rm][i]
      /\ members'[rm][Len(members[rm]) + 1] = u
  BY <1>1
<1>3. MembersOf(rm)' \ MembersOf(rm) \subseteq {u}
  BY <1>2 DEF MembersOf
<1>4. MembersOf(rm) \ MembersOf(rm)' = {}
  BY <1>2 DEF MembersOf
<1> QED BY <1>1, <1>3, <1>4

(* A member who leaves is the only one to be gone, and nobody is new. *)
LEMMA GoneMember ==
  ASSUME RoomTypeOK, RoomMembership, NEW rm \in Rooms, NEW u \in Users, IsMember(rm, u),
         members' = [members EXCEPT ![rm] = RemainingMembers(rm, u)]
  PROVE  /\ MembersOf(rm) \ MembersOf(rm)' \subseteq {u}
         /\ MembersOf(rm)' \ MembersOf(rm) = {}
         /\ \A k \in Rooms \ {rm} : members'[k] = members[k]
<1>1. members'[rm] = RemainingMembers(rm, u) /\ \A k \in Rooms \ {rm} : members'[k] = members[k]
  BY DEF RoomTypeOK
<1>2. /\ RemainingMembers(rm, u) \in Seq(Users) /\ members[rm] \in Seq(Users)
      /\ \A v \in Users : (\E i \in DOMAIN RemainingMembers(rm, u) : RemainingMembers(rm, u)[i] = v)
                            <=> (v # u /\ \E i \in DOMAIN members[rm] : members[rm][i] = v)
  <2>1. \A i, j \in DOMAIN members[rm] : members[rm][i] = members[rm][j] => i = j
    BY DEF RoomMembership
  <2> QED BY <2>1, RemoveMember DEF RoomTypeOK
<1>3. MembersOf(rm) \subseteq Users /\ MembersOf(rm)' \subseteq Users
  BY <1>1, <1>2 DEF MembersOf
<1>4. \A v \in Users : v \in MembersOf(rm)' <=> (v # u /\ v \in MembersOf(rm))
  BY <1>1, <1>2 DEF MembersOf
<1> QED BY <1>1, <1>3, <1>4

(* A user who enters a room is announced to those who were there. *)
LEMMA EnterRoomTold ==
  ASSUME ServerInv, RoomInv, ServerInv', RoomInv', NEW s \in Sessions, NEW u \in Users,
         NEW l \in Lobbies, NEW no \in RoomNos, EntersRoom(s, u, l, no), NEW k \in Rooms
  PROVE  RoomTold(k)
<1> DEFINE rm == <<l, no>>
           changed == RoomChanged(LobbyListeners(l, None)', RoomInfo(rm)')
           news == NotifyUser("ROOM_ENTER_USER_NTF", RoomListeners(rm, u)', idOf[u])
<1>1. rm \in Rooms /\ rm[1] = l /\ rm[2] = no /\ RoomTypeOK
  BY DEF Rooms, ServerInv, StateTypeOK
<1>2. /\ MembersOf(rm)' \ MembersOf(rm) \subseteq {u} /\ MembersOf(rm) \ MembersOf(rm)' = {}
      /\ \A j \in Rooms \ {rm} : members'[j] = members[j]
  BY <1>1, NewMember DEF EntersRoom
<1>3. changed \in SentNow /\ news \in SentNow
  BY FourSent DEF EntersRoom
<1>4. /\ changed.pkt = "ROOM_CHANGED_INFO_NTF" /\ changed.room = <<no, Len(members'[rm])>>
      /\ changed.to = SessionsOf(Visible(l))'
  <2>1. Visible(l)' \ {None} = Visible(l)'
    BY NoneIsNoIndex DEF Visible, ServerInv, StateTypeOK, LobbyTypeOK
  <2>2. LobbyListeners(l, None)' = SessionsOf(Visible(l))'
    BY <2>1, LobbyHears DEF SessionsOf
  <2> QED BY <1>1, <2>2 DEF RoomChanged, RoomInfo, Send
<1>5. news.pkt = "ROOM_ENTER_USER_NTF" /\ news.who = idOf[u]
      /\ news.to = SessionsOf(MembersOf(rm) \ {u})'
  BY <1>1, RoomHears DEF NotifyUser, Send
<1> HIDE DEF changed, news
<1>6. Told("ROOM_ENTER_USER_NTF", idOf[u], SessionsOf(MembersOf(rm) \ {u})')
  BY <1>3, <1>5 DEF Told
<1>7. CASE k = rm
  BY <1>1, <1>2, <1>3, <1>4, <1>6, <1>7 DEF RoomTold
<1>8. CASE k # rm
  BY <1>2, <1>8 DEF RoomTold
<1> QED BY <1>7, <1>8

(* A user who leaves a room is announced to those who stay. *)
LEMMA LeaveRoomTold ==
  ASSUME ServerInv, RoomInv, ServerInv', RoomInv', NEW s \in Sessions, NEW u \in Users,
         NEW l \in Lobbies, NEW no \in RoomNos, LeavesRoom(s, u, l, no), NEW k \in Rooms
  PROVE  RoomTold(k)
<1> DEFINE rm == <<l, no>>
           changed == RoomChanged(LobbyListeners(l, None)', RoomInfo(rm)')
           news == NotifyUser("ROOM_LEAVE_USER_NTF", RoomLeaveListeners(rm)', idOf[u])
<1>1. rm \in Rooms /\ rm[1] = l /\ rm[2] = no /\ RoomTypeOK /\ RoomMembership
  BY DEF Rooms, ServerInv, StateTypeOK, RoomInv
<1>2. IsMember(rm, u)
  BY <1>1 DEF LeavesRoom, RoomMembership
<1>3. /\ MembersOf(rm) \ MembersOf(rm)' \subseteq {u} /\ MembersOf(rm)' \ MembersOf(rm) = {}
      /\ \A j \in Rooms \ {rm} : members'[j] = members[j]
  BY <1>1, <1>2, GoneMember DEF LeavesRoom
<1>4. changed \in SentNow /\ news \in SentNow
  BY FourSent DEF LeavesRoom
<1>5. /\ changed.pkt = "ROOM_CHANGED_INFO_NTF" /\ changed.room = <<no, Len(members'[rm])>>
      /\ changed.to = SessionsOf(Visible(l))'
  <2>1. Visible(l)' \ {None} = Visible(l)'
    BY NoneIsNoIndex DEF Visible, ServerInv, StateTypeOK, LobbyTypeOK
  <2>2. LobbyListeners(l, None)' = SessionsOf(Visible(l))'
    BY <2>1, LobbyHears DEF SessionsOf
  <2> QED BY <1>1, <2>2 DEF RoomChanged, RoomInfo, Send
<1>6. news.pkt = "ROOM_LEAVE_USER_NTF" /\ news.who = idOf[u] /\ news.to = SessionsOf(MembersOf(rm))'
  BY <1>1, RoomHears DEF NotifyUser, Send
<1> HIDE DEF changed, news
<1>7. Told("ROOM_LEAVE_USER_NTF", idOf[u], SessionsOf(MembersOf(rm))')
  BY <1>4, <1>6 DEF Told
<1>8. CASE k = rm
  BY <1>1, <1>3, <1>4, <1>5, <1>7, <1>8 DEF RoomTold
<1>9. CASE k # rm
  BY <1>3, <1>9 DEF RoomTold
<1> QED BY <1>8, <1>9

(* The new count goes to those who were in the lobby before, so also to all *)
(* that are left there.                                                     *)
LEMMA CloseRoomTold ==
  ASSUME ServerInv, RoomInv, ServerInv', RoomInv', NEW s \in Sessions, NEW u \in Users,
         NEW l \in Lobbies \cup {None}, NEW r \in RoomNos \cup {None}, Closes(s, u, l, r),
         NEW k \in Rooms
  PROVE  RoomTold(k)
<1> DEFINE rm == <<l, r>>
           changed == RoomChanged(LobbyListeners(l, None), RoomInfo(rm)')
           news == NotifyUser("ROOM_LEAVE_USER_NTF", RoomLeaveListeners(rm)', idOf[u])
<1>1. /\ l = lobbyOf[u] /\ r = roomOf[u] /\ sent' = FarewellOf(u, l, r)
      /\ domain' = [domain EXCEPT ![u] = "NONE"]
      /\ sessionOf' = [sessionOf EXCEPT ![u] = 0]
      /\ lobbyUsers' = [j \in Lobbies |-> lobbyUsers[j] \ {u}]
      /\ members' = IF domain[u] = "ROOM"
                    THEN [members EXCEPT ![rm] = RemainingMembers(rm, u)]
                    ELSE members
  BY DEF Closes, RoomOf
<1>2. CASE domain[u] # "ROOM"
  BY <1>1, <1>2 DEF RoomTold
<1>3. CASE domain[u] = "ROOM"
  <2>1. /\ l \in Lobbies /\ r \in RoomNos /\ rm \in Rooms /\ rm[1] = l /\ rm[2] = r
        /\ RoomTypeOK /\ RoomMembership
    BY <1>1, <1>3 DEF ServerInv, LobbyMembership, RoomInv, RoomMembership, Rooms, StateTypeOK
  <2>2. IsMember(rm, u)
    BY <1>1, <1>3, <2>1 DEF RoomMembership
  <2>3. /\ MembersOf(rm) \ MembersOf(rm)' \subseteq {u} /\ MembersOf(rm)' \ MembersOf(rm) = {}
        /\ \A j \in Rooms \ {rm} : members'[j] = members[j]
    BY <1>1, <1>3, <2>1, <2>2, GoneMember
  <2>4. changed \in SentNow /\ news \in SentNow
    BY <1>1, <2>1, TwoSent DEF FarewellOf
  <2>5. /\ changed.pkt = "ROOM_CHANGED_INFO_NTF" /\ changed.room = <<r, Len(members'[rm])>>
        /\ changed.to = LobbyListeners(l, None)
    BY <2>1 DEF RoomChanged, RoomInfo, Send
  <2>6. SessionsOf(Visible(l))' \subseteq LobbyListeners(l, None)
    <3>1. ASSUME NEW v \in Visible(l)' PROVE sessionOf'[v] \in LobbyListeners(l, None)
      <4>1. v \in lobbyUsers'[l] /\ domain'[v] = "LOBBY" /\ v \in Users
        BY <2>1 DEF Visible, ServerInv, StateTypeOK, LobbyTypeOK
      <4>2. v # u /\ v \in lobbyUsers[l] /\ domain[v] = "LOBBY" /\ sessionOf'[v] = sessionOf[v]
        BY <1>1, <2>1, <4>1 DEF ServerInv, StateTypeOK, UserTypeOK
      <4> QED BY <4>1, <4>2, NoneIsNoIndex DEF LobbyListeners, IsCurDomainIn
    <3> QED BY <3>1 DEF SessionsOf
  <2>7. news.pkt = "ROOM_LEAVE_USER_NTF" /\ news.who = idOf[u] /\ news.to = SessionsOf(MembersOf(rm))'
    BY <2>1, RoomHears DEF NotifyUser, Send
  <2> HIDE DEF changed, news
  <2>8. Told("ROOM_LEAVE_USER_NTF", idOf[u], SessionsOf(MembersOf(rm))')
    BY <2>4, <2>7 DEF Told
  <2>9. CASE k = rm
    BY <2>1, <2>3, <2>4, <2>5, <2>6, <2>8, <2>9 DEF RoomTold
  <2>10. CASE k # rm
    BY <2>3, <2>10 DEF RoomTold
  <2> QED BY <2>9, <2>10
<1> QED BY <1>2, <1>3

(* Every move is told to the rooms as RoomTold asks. *)
LEMMA MoveRoomTold ==
  ASSUME ServerInv, RoomInv, ServerInv', RoomInv', NEW s \in Sessions, Moves(s), NEW k \in Rooms
  PROVE  RoomTold(k)
<1>1. ASSUME UNCHANGED members PROVE RoomTold(k)
  BY <1>1 DEF RoomTold
<1>2. CASE Rests \/ Connects(s) \/ Vanishes(s)
  BY <1>1, <1>2 DEF Rests, Connects, Vanishes
<1>3. CASE \E u \in Users, id \in UserIDs : LogsIn(s, u, id)
  BY <1>1, <1>3 DEF LogsIn
<1>4. CASE \E u \in Users, l \in Lobbies \cup {None}, r \in RoomNos \cup {None} : Closes(s, u, l, r)
  BY <1>4, CloseRoomTold
<1>5. CASE \E u \in Users, l \in Lobbies : EntersLobby(s, u, l) \/ LeavesLobby(s, u, l)
  BY <1>1, <1>5 DEF EntersLobby, LeavesLobby
<1>6. CASE \E u \in Users, l \in Lobbies, no \in RoomNos :
             EntersRoom(s, u, l, no) \/ LeavesRoom(s, u, l, no)
  BY <1>6, EnterRoomTold, LeaveRoomTold
<1> QED BY <1>2, <1>3, <1>4, <1>5, <1>6 DEF Moves

(* Every change of a room's members is told to the lobby, to those who are  *)
(* left and to those who were there: RoomChangesAnnounced.                  *)
THEOREM RoomChangesAreAnnounced == Spec => RoomChangesAnnounced
<1>1. ASSUME ServerInv, RoomInv, ServerInv', RoomInv', [Next]_vars
      PROVE  [\A rm \in Rooms : RoomTold(rm)]_vars
  BY <1>1, StepMoves, MoveRoomTold
<1>2. (\A rm \in Rooms : RoomTold(rm)) <=>
        \A rm \in Rooms : members'[rm] # members[rm] =>
          /\ \E m \in SentNow :
               /\ m.pkt = "ROOM_CHANGED_INFO_NTF"
               /\ m.room = <<rm[2], Len(members'[rm])>>
               /\ SessionsOf(Visible(rm[1]))' \subseteq m.to
          /\ \A u \in MembersOf(rm) \ MembersOf(rm)' :
               Told("ROOM_LEAVE_USER_NTF", idOf[u], SessionsOf(MembersOf(rm))')
          /\ \A u \in MembersOf(rm)' \ MembersOf(rm) :
               Told("ROOM_ENTER_USER_NTF", idOf[u], SessionsOf(MembersOf(rm) \ {u})')
  BY DEF RoomTold
<1> QED BY <1>1, <1>2, ServerInvariant, RoomInvariant, PTL DEF Spec, RoomChangesAnnounced

(* Replies, lists and chats are no news of where users are. *)
LEMMA OtherNewsInPlace ==
  ASSUME NEW m, m.pkt \notin NewsIDs
  PROVE  NewsInPlace(m)
  BY DEF NewsInPlace, NewsIDs

(* Nobody who can be reached after a step has the name of the moving user. *)
LEMMA OthersHaveOtherNames ==
  ASSUME ServerInv, ServerInv', NEW s \in Sessions, NEW u \in Users, Owns(s, u),
         OnlyPlaceOf(u) \/ \E l, r : Closes(s, u, l, r),
         NEW v \in Users, v # u, domain'[v] \in {"LOBBY", "ROOM"}
  PROVE  idOf'[v] # idOf[u]
<1>1. u = sessionDic[s] /\ u # None /\ v # None
  BY NoneIsNoIndex DEF Owns
<1>2. /\ domain'[v] = domain[v] /\ sessionOf'[v] = sessionOf[v] /\ idOf'[v] = idOf[v]
  <2>1. CASE OnlyPlaceOf(u)
    BY <2>1 DEF OnlyPlaceOf
  <2>2. CASE \E l, r : Closes(s, u, l, r)
    BY <2>2 DEF Closes, ServerInv, StateTypeOK, UserTypeOK
  <2> QED BY <2>1, <2>2
<1>3. sessionOf[v] \in Sessions /\ sessionDic[sessionOf[v]] = v
  BY <1>2 DEF ServerInv, LobbyMembership
<1> QED BY <1>1, <1>2, <1>3 DEF ServerInv, SessionsOwnUsers

(* What a lobby is told of a user who has come, is leaving, or disconnects   *)
(* with its index goes to the other users in it.                             *)
LEMMA LobbyNewsInPlace ==
  ASSUME ServerInv, ServerInv', NEW s \in Sessions, NEW u \in Users, Owns(s, u),
         OnlyPlaceOf(u) \/ \E k, r : Closes(s, u, k, r), NEW l \in Lobbies, NEW m,
         \/ /\ m = NotifyUser("LOBBY_ENTER_USER_NTF", LobbyListeners(l, u)', idOf[u])
            /\ domain'[u] = "LOBBY" /\ lobbyOf'[u] = l /\ idOf'[u] = idOf[u]
         \/ /\ m = NotifyUser("LOBBY_LEAVE_USER_NTF", LobbyListeners(l, u)', idOf[u])
            /\ lobbyOf[u] = l /\ (domain[u] = "LOBBY" \/ Disconnects(u))
  PROVE  NewsInPlace(m)
<1>1. ASSUME NEW t \in LobbyListeners(l, u)'
      PROVE  sessionDic'[t] \in Visible(l)' /\ idOf'[sessionDic'[t]] # idOf[u]
  <2>1. sessionDic'[t] \in Visible(l)' /\ sessionDic'[t] # u
    BY LobbyHears
  <2>2. sessionDic'[t] \in Users /\ domain'[sessionDic'[t]] = "LOBBY"
    BY <2>1 DEF Visible, ServerInv, StateTypeOK, LobbyTypeOK
  <2> QED BY <2>1, <2>2, OthersHaveOtherNames
<1>2. ASSUME NEW pkt, m = NotifyUser(pkt, LobbyListeners(l, u)', idOf[u])
      PROVE  m.pkt = pkt /\ m.who = idOf[u] /\ HeardAmong(Visible(l)', m)
  <2>1. m.pkt = pkt /\ m.to = LobbyListeners(l, u)' /\ m.who = idOf[u]
    BY <1>2 DEF NotifyUser, Send
  <2> QED BY <1>1, <2>1 DEF HeardAmong
<1>3. CASE /\ m = NotifyUser("LOBBY_ENTER_USER_NTF", LobbyListeners(l, u)', idOf[u])
           /\ domain'[u] = "LOBBY" /\ lobbyOf'[u] = l /\ idOf'[u] = idOf[u]
  <2>1. u \in Visible(l)'
    BY <1>3 DEF Visible, ServerInv, LobbyMembership
  <2>2. idOf[u] \in NamesOf(Visible(l))'
    BY <1>3, <2>1 DEF NamesOf
  <2> QED BY <1>2, <1>3, <2>2 DEF NewsInPlace
<1>4. CASE /\ m = NotifyUser("LOBBY_LEAVE_USER_NTF", LobbyListeners(l, u)', idOf[u])
           /\ lobbyOf[u] = l /\ (domain[u] = "LOBBY" \/ Disconnects(u))
  <2>1. domain[u] = "LOBBY" => u \in Visible(l)
    BY <1>4 DEF Visible, ServerInv, LobbyMembership
  <2>2. WasInLobby(idOf[u], l)
    BY <1>4, <2>1 DEF WasInLobby
  <2> QED BY <1>2, <1>4, <2>2 DEF NewsInPlace
<1> QED BY <1>3, <1>4

(* What a room is told of a user who has come, is leaving, or disconnects    *)
(* with its indices goes to the other members of it.                         *)
LEMMA RoomNewsInPlace ==
  ASSUME ServerInv, RoomInv, ServerInv', RoomInv', NEW s \in Sessions, NEW u \in Users, Owns(s, u),
         OnlyPlaceOf(u) \/ \E k, r : Closes(s, u, k, r), NEW rm \in Rooms, NEW m,
         \/ /\ m = NotifyUser("ROOM_ENTER_USER_NTF", RoomListeners(rm, u)', idOf[u])
            /\ domain'[u] = "ROOM" /\ <<lobbyOf'[u], roomOf'[u]>> = rm /\ idOf'[u] = idOf[u]
         \/ /\ m = NotifyUser("ROOM_LEAVE_USER_NTF", RoomLeaveListeners(rm)', idOf[u])
            /\ domain'[u] # "ROOM"
            /\ <<lobbyOf[u], roomOf[u]>> = rm /\ (domain[u] = "ROOM" \/ Disconnects(u))
  PROVE  NewsInPlace(m)
<1>0. /\ MembersOf(rm)' \subseteq Users
      /\ \A t \in RoomListeners(rm, u)' :
           t \in Sessions /\ sessionDic'[t] \in MembersOf(rm)' /\ sessionDic'[t] # u
      /\ \A t \in RoomLeaveListeners(rm)' : t \in Sessions /\ sessionDic'[t] \in MembersOf(rm)'
  BY RoomHears
<1>1. ASSUME NEW t \in Sessions, sessionDic'[t] \in MembersOf(rm)', sessionDic'[t] # u
      PROVE  idOf'[sessionDic'[t]] # idOf[u]
  <2>1. sessionDic'[t] \in Users
    BY <1>0, <1>1
  <2>2. domain'[sessionDic'[t]] = "ROOM"
    BY <1>1, <2>1 DEF MembersOf, RoomInv, RoomMembership, IsMember
  <2> QED BY <1>1, <2>1, <2>2, OthersHaveOtherNames
<1>2. CASE /\ m = NotifyUser("ROOM_ENTER_USER_NTF", RoomListeners(rm, u)', idOf[u])
           /\ domain'[u] = "ROOM" /\ <<lobbyOf'[u], roomOf'[u]>> = rm /\ idOf'[u] = idOf[u]
  <2>1. m.pkt = "ROOM_ENTER_USER_NTF" /\ m.to = RoomListeners(rm, u)' /\ m.who = idOf[u]
    BY <1>2 DEF NotifyUser, Send
  <2>2. HeardAmong(MembersOf(rm)', m)
    BY <1>0, <1>1, <2>1 DEF HeardAmong
  <2>3. IsMember(rm, u)'
    BY <1>2 DEF RoomInv, RoomMembership
  <2>4. u \in MembersOf(rm)'
    BY <2>3 DEF MembersOf, IsMember
  <2>5. idOf[u] \in NamesOf(MembersOf(rm))'
    BY <1>2, <2>4 DEF NamesOf
  <2> QED BY <2>1, <2>2, <2>5 DEF NewsInPlace
<1>3. CASE /\ m = NotifyUser("ROOM_LEAVE_USER_NTF", RoomLeaveListeners(rm)', idOf[u])
           /\ domain'[u] # "ROOM"
           /\ <<lobbyOf[u], roomOf[u]>> = rm /\ (domain[u] = "ROOM" \/ Disconnects(u))
  <2>1. m.pkt = "ROOM_LEAVE_USER_NTF" /\ m.to = RoomLeaveListeners(rm)' /\ m.who = idOf[u]
    BY <1>3 DEF NotifyUser, Send
  <2>2. u \notin MembersOf(rm)'
    BY <1>3 DEF MembersOf, RoomInv, RoomMembership, IsMember
  <2>3. HeardAmong(MembersOf(rm)', m)
    BY <1>0, <1>1, <2>1, <2>2 DEF HeardAmong
  <2>4. domain[u] = "ROOM" => u \in MembersOf(rm)
    <3>1. domain[u] = "ROOM" => IsMember(rm, u)
      BY <1>3 DEF RoomInv, RoomMembership
    <3> QED BY <3>1 DEF MembersOf, IsMember
  <2>5. WasInRoom(idOf[u], rm)
    BY <1>3, <2>4 DEF WasInRoom
  <2> QED BY <2>1, <2>3, <2>5 DEF NewsInPlace
<1> QED BY <1>2, <1>3

(* The news of every move goes to those who share the place. *)
LEMMA MoveInPlace ==
  ASSUME ServerInv, RoomInv, ServerInv', RoomInv', NEW s \in Sessions, Moves(s), NEW m \in SentNow
  PROVE  NewsInPlace(m)
<1>1. CASE NoNews
  BY <1>1, OtherNewsInPlace DEF NoNews
<1>2. ASSUME NEW pkt, m = Reply(s, pkt, "NONE"), pkt \notin NewsIDs PROVE NewsInPlace(m)
  <2>1. m.pkt = pkt
    BY <1>2 DEF Reply, Send
  <2> QED BY <1>2, <2>1, OtherNewsInPlace
<1>3. ASSUME NEW to, NEW info, m = RoomChanged(to, info) PROVE NewsInPlace(m)
  <2>1. m.pkt \notin NewsIDs
    BY <1>3 DEF RoomChanged, Send, NewsIDs
  <2> QED BY <2>1, OtherNewsInPlace
<1>4. ASSUME NEW u \in Users, NEW l \in Lobbies, Owns(s, u), OnlyPlaceOf(u),
             \/ /\ m = NotifyLobbyEnterUserInfo(l, u)'
                /\ domain'[u] = "LOBBY" /\ lobbyOf'[u] = l
             \/ /\ m = NotifyLobbyLeaveUserInfo(l, u)'
                /\ domain[u] = "LOBBY" /\ lobbyOf[u] = l
      PROVE  NewsInPlace(m)
  <2>1. idOf' = idOf
    BY <1>4 DEF OnlyPlaceOf
  <2>2. /\ NotifyLobbyEnterUserInfo(l, u)' =
              NotifyUser("LOBBY_ENTER_USER_NTF", LobbyListeners(l, u)', idOf[u])
        /\ NotifyLobbyLeaveUserInfo(l, u)' =
              NotifyUser("LOBBY_LEAVE_USER_NTF", LobbyListeners(l, u)', idOf[u])
    BY <2>1 DEF NotifyLobbyEnterUserInfo, NotifyLobbyLeaveUserInfo, NotifyUser, Send
  <2> QED BY <1>4, <2>1, <2>2, LobbyNewsInPlace
<1>5. ASSUME NEW u \in Users, NEW l \in Lobbies, EntersLobby(s, u, l) PROVE NewsInPlace(m)
  <2>1. \/ m = NotifyLobbyEnterUserInfo(l, u)' \/ m = Reply(s, "LOBBY_ENTER_RES", "NONE")
    BY <1>5, TwoSent DEF EntersLobby
  <2> QED BY <1>2, <1>4, <1>5, <2>1 DEF EntersLobby, NewsIDs
<1>6. ASSUME NEW u \in Users, NEW l \in Lobbies, LeavesLobby(s, u, l) PROVE NewsInPlace(m)
  <2>1. \/ m = NotifyLobbyLeaveUserInfo(l, u)' \/ m = Reply(s, "LOBBY_LEAVE_RES", "NONE")
    BY <1>6, TwoSent DEF LeavesLobby
  <2> QED BY <1>2, <1>4, <1>6, <2>1 DEF LeavesLobby, NewsIDs
<1>7. ASSUME NEW u \in Users, NEW l \in Lobbies, NEW no \in RoomNos, EntersRoom(s, u, l, no)
      PROVE  NewsInPlace(m)
  <2>1. /\ Owns(s, u) /\ OnlyPlaceOf(u) /\ <<l, no>> \in Rooms /\ idOf' = idOf
        /\ domain[u] = "LOBBY" /\ lobbyOf[u] = l
        /\ domain'[u] = "ROOM" /\ <<lobbyOf'[u], roomOf'[u]>> = <<l, no>>
    BY <1>7 DEF EntersRoom, OnlyPlaceOf, Rooms
  <2>2. \/ m = NotifyLobbyLeaveUserInfo(l, u)'
        \/ m = RoomChanged(LobbyListeners(l, None)', RoomInfo(<<l, no>>)')
        \/ m = NotifyUser("ROOM_ENTER_USER_NTF", RoomListeners(<<l, no>>, u)', idOf[u])
        \/ m = Reply(s, "ROOM_ENTER_RES", "NONE")
    BY <1>7, FourSent DEF EntersRoom
  <2>3. CASE m = NotifyUser("ROOM_ENTER_USER_NTF", RoomListeners(<<l, no>>, u)', idOf[u])
    BY <2>1, <2>3, RoomNewsInPlace
  <2> QED BY <1>2, <1>3, <1>4, <2>1, <2>2, <2>3 DEF NewsIDs
<1>8. ASSUME NEW u \in Users, NEW l \in Lobbies, NEW no \in RoomNos, LeavesRoom(s, u, l, no)
      PROVE  NewsInPlace(m)
  <2>1. /\ Owns(s, u) /\ OnlyPlaceOf(u) /\ <<l, no>> \in Rooms
        /\ domain[u] = "ROOM" /\ <<lobbyOf[u], roomOf[u]>> = <<l, no>>
        /\ domain'[u] = "LOBBY" /\ lobbyOf'[u] = l
    BY <1>8 DEF LeavesRoom, Rooms
  <2>2. \/ m = NotifyUser("ROOM_LEAVE_USER_NTF", RoomLeaveListeners(<<l, no>>)', idOf[u])
        \/ m = NotifyLobbyEnterUserInfo(l, u)'
        \/ m = RoomChanged(LobbyListeners(l, None)', RoomInfo(<<l, no>>)')
        \/ m = Reply(s, "ROOM_LEAVE_RES", "NONE")
    BY <1>8, FourSent DEF LeavesRoom
  <2>3. CASE m = NotifyUser("ROOM_LEAVE_USER_NTF", RoomLeaveListeners(<<l, no>>)', idOf[u])
    BY <2>1, <2>3, RoomNewsInPlace
  <2> QED BY <1>2, <1>3, <1>4, <2>1, <2>2, <2>3 DEF NewsIDs
<1>9. ASSUME NEW u \in Users, NEW l \in Lobbies \cup {None}, NEW r \in RoomNos \cup {None},
             Closes(s, u, l, r)
      PROVE  NewsInPlace(m)
  <2>1. /\ Owns(s, u) /\ domain'[u] = "NONE" /\ Disconnects(u)
        /\ lobbyOf[u] = l /\ roomOf[u] = r /\ sent' = FarewellOf(u, l, r)
    BY <1>9 DEF Closes, Disconnects, ServerInv, StateTypeOK, UserTypeOK
  <2>2. CASE l \in Lobbies /\ r \in RoomNos
    <3>1. <<l, r>> \in Rooms
      BY <2>2 DEF Rooms
    <3>2. \/ m = NotifyUser("ROOM_LEAVE_USER_NTF", RoomLeaveListeners(<<l, r>>)', idOf[u])
          \/ m = RoomChanged(LobbyListeners(l, None), RoomInfo(<<l, r>>)')
      BY <2>1, <2>2, TwoSent DEF FarewellOf
    <3>3. CASE m = NotifyUser("ROOM_LEAVE_USER_NTF", RoomLeaveListeners(<<l, r>>)', idOf[u])
      BY <1>9, <2>1, <3>1, <3>3, RoomNewsInPlace
    <3> QED BY <1>3, <3>2, <3>3
  <2>3. CASE l \in Lobbies /\ r \notin RoomNos
    <3>1. m = NotifyUser("LOBBY_LEAVE_USER_NTF", LobbyListeners(l, u)', idOf[u])
      BY <2>1, <2>3 DEF FarewellOf, SentNow
    <3> QED BY <1>9, <2>1, <2>3, <3>1, LobbyNewsInPlace
  <2>4. CASE l \notin Lobbies
    BY <2>1, <2>4 DEF FarewellOf, SentNow
  <2> QED BY <2>2, <2>3, <2>4
<1> QED BY <1>1, <1>5, <1>6, <1>7, <1>8, <1>9 DEF Moves, Rests, Connects, Vanishes, LogsIn

(* Presence news is told only to those who share the place the user came to *)
(* or left, and never to the user itself: NewsStaysInPlace.                 *)
THEOREM NewsDoesStayInPlace == Spec => NewsStaysInPlace
<1>1. ASSUME ServerInv, RoomInv, ServerInv', RoomInv', [Next]_vars
      PROVE  [\A m \in SentNow : NewsInPlace(m)]_vars
  BY <1>1, StepMoves, MoveInPlace
<1> QED BY <1>1, ServerInvariant, RoomInvariant, PTL DEF Spec, NewsStaysInPlace
=============================================================================
