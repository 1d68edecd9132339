-------------------------------- MODULE Lobby -------------------------------
(***************************************************************************)
(* LobbyManager and Lobby: who is in which lobby.  A lobby keeps its users *)
(* twice: m_UserList, a fixed vector of seats, and m_UserIndexDic, keyed   *)
(* by user index.  A user who is in a room stays in both.  (The third copy,*)
(* Lobby::m_UserIDDic, is written and never read: left out.)               *)
(***************************************************************************)
EXTENDS UserManager

VARIABLES
  slots,       \* m_UserList: the user object each seat points to, or None
  lobbyUsers   \* the keys of m_UserIndexDic

lobbyVars == <<slots, lobbyUsers>>

LobbyInitOneSeatMore ==   \* a plausible slip: "<=" in the loop of Lobby::Init
  /\ slots      = [l \in Lobbies |-> [i \in 0..MaxLobbyUserCount |-> None]]
  /\ lobbyUsers = [l \in Lobbies |-> {}]

LobbyInit ==
  /\ slots      = [l \in Lobbies |-> [i \in Slots |-> None]]
  /\ lobbyUsers = [l \in Lobbies |-> {}]

FreeSlotsReused(l) ==   \* a repair: the seat of a user who is not in the lobby is free
  {i \in Slots : slots[l][i] = None \/ domain[slots[l][i]] # "LOBBY"}

FreeSlots(l) == {i \in Slots : slots[l][i] = None}

HasUser(l, u) == u \in lobbyUsers[l]   \* FindUser finds it

GetUserCount(l) == Cardinality(lobbyUsers[l])

EnterUserErrorNoDuplication(l, u) ==   \* a dropped FindUser check
  IF Cardinality(lobbyUsers[l]) >= MaxLobbyUserCount THEN "LOBBY_ENTER_MAX_USER_COUNT"
  ELSE IF FreeSlots(l) = {} THEN "LOBBY_ENTER_EMPTY_USER_LIST"
  ELSE "NONE"

EnterUserError(l, u) ==
  IF Cardinality(lobbyUsers[l]) >= MaxLobbyUserCount THEN "LOBBY_ENTER_MAX_USER_COUNT"
  ELSE IF HasUser(l, u) THEN "LOBBY_ENTER_USER_DUPLICATION"
  ELSE IF FreeSlots(l) = {} THEN "LOBBY_ENTER_EMPTY_USER_LIST"
  ELSE "NONE"

(* AddUser: the first seat that points to nobody. *)
AddUserToSlot(l, u) ==
  slots' = [slots EXCEPT ![l] = [@ EXCEPT ![Min(FreeSlots(l))] = u]]

RemoveUserFromSlotClears(l, u) ==   \* half a repair: the seat found is cleared
  slots' = [slots EXCEPT ![l] =
              [i \in Slots |-> IF slots[l][i] = u THEN None ELSE slots[l][i]]]

(* RemoveUser: a seat that points to the user is found and left as it is; *)
(* only when no seat is found does the code write, through end(), one     *)
(* seat beyond the vector.  Neither changes a seat.                       *)
RemoveUserFromSlot(l, u) == slots' = slots

(* RemoveUser(l, u) would write beyond the vector in this state. *)
RemoveUserOverruns(l, u) == \A i \in Slots : slots[l][i] # u

EnterUser(l, u) ==
  /\ AddUserToSlot(l, u)
  /\ UserEnterLobby(u, l)
  /\ lobbyUsers' = [lobbyUsers EXCEPT ![l] = @ \cup {u}]

LeaveUserError(l, u) ==
  IF ~HasUser(l, u) THEN "LOBBY_LEAVE_USER_NVALID_UNIQUEINDEX" ELSE "NONE"

(* LeaveUser also calls User::LeaveLobby: the handlers pair the two, except *)
(* NtfSysCloseSession, whose RemoveUser clears the object right after.      *)
LeaveUser(l, u) ==
  /\ RemoveUserFromSlot(l, u)
  /\ lobbyUsers' = [lobbyUsers EXCEPT ![l] = @ \ {u}]

LobbyListenersInRoomsToo(l, pass) ==   \* a dropped domain check
  {sessionOf[u] : u \in {v \in lobbyUsers[l] : v # pass}}

LobbyListenersBySession(l, pass) ==   \* a session index compared with a user index
  {sessionOf[u] : u \in {v \in lobbyUsers[l] : sessionOf[v] # pass /\ domain[v] = "LOBBY"}}

(* SendToAllUser: the sessions of the users of the lobby that are not in a *)
(* room, but for the user whose index is "pass".                           *)
LobbyListeners(l, pass) ==
  {sessionOf[u] : u \in {v \in lobbyUsers[l] : v # pass /\ IsCurDomainIn(v, "LOBBY")}}

NotifyLobbyEnterUserInfo(l, u) ==
  NotifyUser("LOBBY_ENTER_USER_NTF", LobbyListeners(l, u), idOf[u])

NotifyLobbyLeaveUserInfo(l, u) ==
  NotifyUser("LOBBY_LEAVE_USER_NTF", LobbyListeners(l, u), idOf[u])

(* NotifyChat passes the sender's session index where SendToAllUser takes  *)
(* the user index to pass over, and SendToUser hands the receiver's user   *)
(* index to SendData, which takes a session index.                         *)
NotifyChat(l, s, id) == NotifyUser("LOBBY_CHAT_NTF", LobbyListeners(l, s), id)

SendToUser(pkt, to, id) == NotifyUser(pkt, {to}, id)

NotifyWisperChat(to, id) == SendToUser("LOBBY_WHISPER_CHAT_NTF", to, id)

(* SendUserList: the seats it shows, and one page of them.  The start      *)
(* index is refused, with no reply, from the last seat on.                 *)
ShownSlots(l, start) ==
  {i \in Slots : i >= start /\ slots[l][i] # None /\ IsCurDomainIn(slots[l][i], "LOBBY")}

LobbyListStartAccepted(start, count) == start >= 0 /\ start < count - 1

SendUserList(s, l, start) ==
  LET page == PageOf(ShownSlots(l, start), UserPageSize)
  IN  IF LobbyListStartAccepted(start, MaxLobbyUserCount)
      THEN << ReplyList(s, "LOBBY_ENTER_USER_LIST_RES",
                        {<<i, idOf[slots[l][i]]>> : i \in page},
                        IsLastPage(page, UserPageSize, MaxLobbyUserCount - 1)) >>
      ELSE <<>>

(* LobbyManager::SendLobbyListInfo: each lobby with its user count. *)
LobbyListInfo(s) ==
  ReplyList(s, "LOBBY_LIST_RES",
            {<<l, GetUserCount(l)>> : l \in Lobbies}, TRUE)
=============================================================================
