---------------------------- MODULE ServerConfig ----------------------------
(***************************************************************************)
(* The limits of ServerConfig.ini (ServerNetLib/Define.h, ServerConfig),   *)
(* the index ranges they give the pools of the server, and the packets the *)
(* logic thread hands to TcpNetwork::SendData.                             *)
(***************************************************************************)
EXTENDS Integers, FiniteSets, SequencesExt

CONSTANTS
  MaxClientCount,      \* user objects: UserManager::Init(MaxClientCount)
  ExtraClientCount,    \* sessions beyond MaxClientCount, to be refused at login
  MaxLobbyCount,       \* lobbies
  MaxLobbyUserCount,   \* seats of each lobby
  MaxRoomCountByLobby, \* rooms of each lobby
  MaxRoomUserCount,    \* seats of each room
  RoomPageSize,        \* MAX_NTF_LOBBY_ROOM_LIST_COUNT, 12 in the code
  UserPageSize,        \* MAX_SEND_LOBBY/ROOM_USER_LIST_COUNT, 32 in the code
  UserIDs,             \* the login names clients use
  NoID                 \* the empty m_ID of a user object that is not in use

ASSUME ConfigAssumption ==
  /\ MaxClientCount \in Nat \ {0}
  /\ ExtraClientCount \in Nat
  /\ MaxLobbyCount \in Nat \ {0}
  /\ MaxLobbyUserCount \in Nat \ {0}
  /\ MaxRoomCountByLobby \in Nat \ {0}
  /\ MaxRoomUserCount \in Nat \ {0}
  /\ RoomPageSize \in Nat \ {0}
  /\ UserPageSize \in Nat \ {0}
  /\ NoID \notin UserIDs

(* The counts and the indices fit the shorts they are stored in (User,      *)
(* Lobby and Room::Init), and LobbyList the 20 entries of PktLobbyListRes.  *)
ASSUME WidthAssumption ==
  /\ MaxClientCount <= 32767
  /\ MaxLobbyCount <= 20
  /\ MaxLobbyUserCount <= 32767
  /\ MaxRoomCountByLobby <= 32767
  /\ MaxRoomUserCount <= 32767

Sessions == 0..(MaxClientCount + ExtraClientCount - 1)
Users    == 0..(MaxClientCount - 1)
Lobbies  == 0..(MaxLobbyCount - 1)
Slots    == 0..(MaxLobbyUserCount - 1)
RoomNos  == 0..(MaxRoomCountByLobby - 1)
Rooms    == Lobbies \X RoomNos

None == -1    \* nullptr, and the -1 of every unset index

-----------------------------------------------------------------------------
(* One call of SendData, or one broadcast loop of such calls: the packet, *)
(* the sessions it goes to, the ErrorCode of a reply, and what its body   *)
(* says: a user, a room with its member count, or one page of a list.     *)

NoRoomInfo == <<None, 0>>

(* PACKET_ID: the packets a server sends. *)
PacketIDs == {
  "LOGIN_IN_RES", "LOBBY_LIST_RES", "LOBBY_ENTER_RES", "LOBBY_ENTER_USER_NTF",
  "LOBBY_ENTER_ROOM_LIST_RES", "LOBBY_ENTER_USER_LIST_RES", "LOBBY_LEAVE_RES",
  "LOBBY_LEAVE_USER_NTF", "LOBBY_CHAT_RES", "LOBBY_CHAT_NTF",
  "LOBBY_WHISPER_CHAT_RES", "LOBBY_WHISPER_CHAT_NTF", "ROOM_ENTER_RES",
  "ROOM_ENTER_USER_NTF", "ROOM_LEAVE_RES", "ROOM_LEAVE_USER_NTF",
  "ROOM_CHANGED_INFO_NTF", "ROOM_CHAT_RES", "ROOM_CHAT_NTF",
  "ROOM_ENTER_USER_LIST_RES", "ROOM_MASTER_GAME_STATE_NTF",
  "ROOM_MASTER_GAME_STATE_RES", "ROOM_GAME_STATE_NTF", "ROOM_GAME_STATE_RES"}

ErrorCodes == {
  "NONE", "UNASSIGNED_ERROR", "MAIN_INIT_NETWORK_INIT_FAIL",
  "USER_MGR_ID_DUPLICATION", "USER_MGR_MAX_USER_COUNT",
  "USER_MGR_INVALID_SESSION_INDEX", "USER_MGR_NOT_CONFIRM_USER",
  "USER_MGR_REMOVE_INVALID_SESSION", "LOBBY_LIST_INVALID_DOMAIN",
  "LOBBY_ENTER_INVALID_DOMAIN", "LOBBY_ENTER_INVALID_LOBBY_INDEX",
  "LOBBY_ENTER_USER_DUPLICATION", "LOBBY_ENTER_MAX_USER_COUNT",
  "LOBBY_ENTER_EMPTY_USER_LIST", "LOBBY_ROOM_LIST_INVALID_START_ROOM_INDEX",
  "LOBBY_ROOM_LIST_INVALID_DOMAIN", "LOBBY_ROOM_LIST_INVALID_LOBBY_INDEX",
  "LOBBY_USER_LIST_INVALID_DOMAIN", "LOBBY_USER_LIST_INVALID_LOBBY_INDEX",
  "LOBBY_USER_LIST_INVALID_START_USER_INDEX", "LOBBY_LEAVE_INVALID_DOMAIN",
  "LOBBY_LEAVE_INVALID_LOBBY_INDEX", "LOBBY_LEAVE_USER_NVALID_UNIQUEINDEX",
  "LOBBY_CHAT_INVALID_DOMAIN", "LOBBY_CHAT_INVALID_LOBBY_INDEX",
  "LOBBY_CHAT_INVALID_ROOM_INDEX", "LOBBY_WHISPER_CHAT_INVALID_DOMAIN",
  "LOBBY_WHISPER_CHAT_INVALID_LOBBY_INDEX",
  "LOBBY_WHISPER_CHAT_INVALID_ROOM_INDEX",
  "LOBBY_WHISPER_CHAT_INVALID_SEND_USER",
  "LOBBY_WHISPER_USER_DIFFERENT_DOMAIN", "ROOM_ENTER_INVALID_DOMAIN",
  "ROOM_ENTER_INVALID_LOBBY_INDEX", "ROOM_ENTER_INVALID_ROOM_INDEX",
  "ROOM_ENTER_CREATE_FAIL", "ROOM_ENTER_NOT_CREATED", "ROOM_ENTER_MEMBER_FULL",
  "ROOM_ENTER_EMPTY_ROOM", "ROOM_LEAVE_INVALID_DOMAIN",
  "ROOM_LEAVE_INVALID_LOBBY_INDEX", "ROOM_LEAVE_INVALID_ROOM_INDEX",
  "ROOM_LEAVE_NOT_CREATED", "ROOM_LEAVE_NOT_MEMBER",
  "ROOM_CHAT_INVALID_DOMAIN", "ROOM_CHAT_INVALID_LOBBY_INDEX",
  "ROOM_CHAT_INVALID_ROOM_INDEX", "ROOM_USER_LIST_INVALID_DOMAIN",
  "ROOM_USER_LIST_INVALID_LOBBY_INDEX",
  "ROOM_USER_LIST_INVALID_START_USER_INDEX", "ROOM_GAME_USER_INVALID_MASTER",
  "ROOM_GAME_STATE", "ROOM_GAME_USER_COUNT"}

Message == [pkt  : PacketIDs,
            to   : SUBSET (Sessions \cup {None}),
            err  : ErrorCodes,
            who  : UserIDs \cup {NoID},
            room : Int \X Int,
            list : SUBSET (Int \X (Int \cup UserIDs \cup {NoID})),
            end  : BOOLEAN]

Send(pkt, to, err, who, room) ==
  [pkt |-> pkt, to |-> to, err |-> err, who |-> who, room |-> room,
   list |-> {}, end |-> FALSE]

Reply(s, pkt, err)      == Send(pkt, {s}, err, NoID, NoRoomInfo)
NotifyUser(pkt, to, id) == Send(pkt, to, "NONE", id, NoRoomInfo)

ReplyList(s, pkt, list, end) ==
  [pkt |-> pkt, to |-> {s}, err |-> "NONE", who |-> NoID,
   room |-> NoRoomInfo, list |-> list, end |-> end]

-----------------------------------------------------------------------------
(* The paging loop of the three list requests: of the wanted indices, the *)
(* lowest "size" ones are put in the packet, and the loop stops there or  *)
(* at the end of the vector.                                              *)

PageOf(wanted, size) ==
  {i \in wanted : Cardinality({j \in wanted : j < i}) < size}

(* IsEnd: nothing was found, or the last index looked at is the last one. *)
IsLastPage(page, size, last) ==
  \/ page = {}
  \/ Cardinality(page) < size
  \/ last \in page
=============================================================================
