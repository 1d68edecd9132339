-------------------------------- MODULE Room --------------------------------
(***************************************************************************)
(* Room, the rooms a Lobby owns, RoomManager's list of created rooms, and  *)
(* the CGame each room owns.  A room is named by its lobby and its number  *)
(* in that lobby.  Titles are left out.                                    *)
(***************************************************************************)
EXTENDS Lobby

CONSTANT FreshGameStates  \* what the uninitialised CGame::m_state may hold

VARIABLES
  used,        \* m_IsUsed
  members,     \* m_UserList, in order of entry; the first is the master
  game,        \* m_pGame->m_state
  createdRooms \* RoomManager::m_RoomList: grows by one at every creation

roomVars == <<used, members, game, createdRooms>>

GameStates == {"NONE", "STARTING", "ING", "END", "GARBAGE"}

ASSUME GameAssumption == FreshGameStates \subseteq GameStates /\ FreshGameStates # {}

RoomInit ==
  /\ used    = [rm \in Rooms |-> FALSE]
  /\ members = [rm \in Rooms |-> <<>>]
  /\ game \in [Rooms -> FreshGameStates]
  /\ createdRooms = <<>>

IsMember(rm, u) == \E i \in DOMAIN members[rm] : members[rm][i] = u

IsMaster(rm, u) == members[rm][1] = u

(* Lobby::CreateRoom: the first room that is not in use, or None. *)
UnusedRoomNo(l) ==
  LET unused == {r \in RoomNos : ~used[<<l, r>>]}
  IN  IF unused = {} THEN None ELSE Min(unused)

(* A count cast to short: 16 bits, two's complement. *)
AsShort(n) == IF n % 65536 < 32768 THEN n % 65536 ELSE (n % 65536) - 65536

(* RoomManager::GetRoom returns a room and not nullptr. *)
RoomManagerFinds(no) == no >= 0 /\ no < AsShort(Len(createdRooms))

RegisterRoom(rm) == createdRooms' = Append(createdRooms, rm)   \* RoomManager::CreateRoom

CreateRoomUnregistered(rm, u) ==   \* without RoomManager::CreateRoom
  /\ used'    = [used EXCEPT ![rm] = TRUE]
  /\ members' = [members EXCEPT ![rm] = Append(@, u)]
  /\ UNCHANGED <<game, createdRooms>>

(* Room::CreateRoom and RoomManager::CreateRoom, then Room::EnterUser. *)
CreateRoomFor(rm, u) ==
  /\ used'    = [used EXCEPT ![rm] = TRUE]
  /\ members' = [members EXCEPT ![rm] = Append(@, u)]
  /\ RegisterRoom(rm)
  /\ UNCHANGED game

RoomEnterUserErrorNoLimit(rm) ==   \* a dropped capacity check
  IF ~used[rm] THEN "ROOM_ENTER_NOT_CREATED" ELSE "NONE"

RoomEnterUserError(rm) ==
  IF ~used[rm] THEN "ROOM_ENTER_NOT_CREATED"
  ELSE IF Len(members[rm]) = MaxRoomUserCount THEN "ROOM_ENTER_MEMBER_FULL"
  ELSE "NONE"

RoomEnterUser(rm, u) ==
  /\ members' = [members EXCEPT ![rm] = Append(@, u)]
  /\ UNCHANGED <<used, game, createdRooms>>

RoomLeaveUserError(rm, u) ==
  IF ~used[rm] THEN "ROOM_ENTER_NOT_CREATED"
  ELSE IF ~IsMember(rm, u) THEN "ROOM_LEAVE_NOT_MEMBER"
  ELSE "NONE"

(* LeaveUser erases the user; the last one to leave Clears the room, which *)
(* becomes unused.  The game keeps its state and createdRooms its entry.   *)
ClearRoom(rm) ==
  /\ used'    = [used EXCEPT ![rm] = FALSE]
  /\ members' = [members EXCEPT ![rm] = <<>>]

RemainingMembers(rm, u) ==
  RemoveAt(members[rm], Min({i \in DOMAIN members[rm] : members[rm][i] = u}))

RoomLeaveUserNoClear(rm, u) ==   \* the last one to leave does not Clear
  /\ members' = [members EXCEPT ![rm] = RemainingMembers(rm, u)]
  /\ UNCHANGED <<used, game, createdRooms>>

RoomLeaveUser(rm, u) ==
  /\ IF RemainingMembers(rm, u) = <<>>
     THEN ClearRoom(rm)
     ELSE members' = [members EXCEPT ![rm] = RemainingMembers(rm, u)] /\ UNCHANGED used
  /\ UNCHANGED <<game, createdRooms>>

(* Room::SendToAllUser *)
RoomListeners(rm, pass) ==
  {sessionOf[u] : u \in {members[rm][i] : i \in DOMAIN members[rm]} \ {pass}}

RoomLeaveListenersInverted(rm) == IF used[rm] THEN {} ELSE RoomListeners(rm, None)

(* NotifyLeaveUserInfo says nothing when the room has become unused. *)
RoomLeaveListeners(rm) == IF used[rm] THEN RoomListeners(rm, None) ELSE {}

(* As in the lobby, a session index is passed as the user to pass over. *)
RoomNotifyChat(rm, s, id) == NotifyUser("ROOM_CHAT_NTF", RoomListeners(rm, s), id)

(* NotifyChangedRoomInfo: the room and its member count, to every user of *)
(* its lobby who is not in a room.                                        *)
RoomInfo(rm) == <<rm[2], Len(members[rm])>>

RoomChanged(to, info) == Send("ROOM_CHANGED_INFO_NTF", to, "NONE", NoID, info)

(* Lobby::SendRoomList *)
SendRoomList(s, l, start) ==
  LET page == PageOf({r \in RoomNos : r >= start /\ used[<<l, r>>]}, RoomPageSize)
  IN  IF LobbyListStartAccepted(start, MaxRoomCountByLobby)
      THEN << ReplyList(s, "LOBBY_ENTER_ROOM_LIST_RES",
                        {<<r, Len(members[<<l, r>>])>> : r \in page},
                        IsLastPage(page, RoomPageSize, MaxRoomCountByLobby - 1)) >>
      ELSE <<>>

(* Room::SendUserList, members numbered from 0 *)
RoomSendUserListError(rm, start) ==
  IF ~used[rm] THEN "ROOM_ENTER_NOT_CREATED"
  ELSE IF start < 0 \/ start >= Len(members[rm])
       THEN "ROOM_USER_LIST_INVALID_START_USER_INDEX"
  ELSE "NONE"

RoomSendUserList(s, rm, start) ==
  LET last == Len(members[rm]) - 1
      page == PageOf(start..last, UserPageSize)
  IN  ReplyList(s, "ROOM_ENTER_USER_LIST_RES",
                {<<i, idOf[members[rm][i + 1]]>> : i \in page},
                IsLastPage(page, UserPageSize, last))
=============================================================================
