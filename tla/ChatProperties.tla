---------------------------- MODULE ChatProperties --------------------------
(***************************************************************************)
(* What must hold of PacketProcess: how the copies the server keeps of     *)
(* "who is where" agree, what each change tells the clients, and that the  *)
(* whole implements Presence.                                              *)
(***************************************************************************)
EXTENDS PacketProcess

UserTypeOK ==
  /\ freeUsers  \in Seq(Users)
  /\ sessionDic \in [Sessions -> Users \cup {None}]
  /\ domain     \in [Users -> Domains]
  /\ sessionOf  \in [Users -> Sessions \cup {None}]
  /\ idOf       \in [Users -> UserIDs \cup {NoID}]
  /\ lobbyOf    \in [Users -> Lobbies \cup {None}]
  /\ roomOf     \in [Users -> RoomNos \cup {None}]

LobbyTypeOK ==
  /\ slots      \in [Lobbies -> [Slots -> Users \cup {None}]]
  /\ lobbyUsers \in [Lobbies -> SUBSET Users]

RoomTypeOK ==
  /\ used       \in [Rooms -> BOOLEAN]
  /\ members    \in [Rooms -> Seq(Users)]
  /\ game       \in [Rooms -> GameStates]
  /\ createdRooms \in Seq(Rooms)

ConnTypeOK ==
  /\ connected  \in [Sessions -> BOOLEAN]
  /\ loginOK    \in [Sessions -> BOOLEAN]

(* Types of the variables of PacketProcess and the modules below it. *)
TypeOK ==
  /\ UserTypeOK
  /\ LobbyTypeOK
  /\ RoomTypeOK
  /\ ConnTypeOK
  /\ sent \in Seq(Message)

(* The pool hands an object to one owner at a time: the free list has no    *)
(* duplicates and holds exactly the objects that are Cleared, through any   *)
(* number of logins, repeated logins and disconnections (UserManager,       *)
(* AllocUserObjPoolIndex and ReleaseUserObjPoolIndex).                      *)
UserPoolConsistent ==
  /\ \A i, j \in DOMAIN freeUsers : freeUsers[i] = freeUsers[j] => i = j
  /\ \A u \in Users : (\E i \in DOMAIN freeUsers : freeUsers[i] = u) <=> domain[u] = "NONE"

(* A session's entry leads to an object that points back to that session, *)
(* and exists exactly while ConnectedUserManager counts the session as    *)
(* logged in and the connection is there; no two sessions share a name.   *)
SessionsOwnUsers ==
  /\ \A s \in Sessions : loginOK[s] <=> sessionDic[s] # None
  /\ \A s \in Sessions : sessionDic[s] # None =>
       /\ connected[s]
       /\ domain[sessionDic[s]] # "NONE"
       /\ sessionOf[sessionDic[s]] = s
       /\ idOf[sessionDic[s]] \in UserIDs
  /\ \A s, t \in Sessions :
       (sessionDic[s] # None /\ sessionDic[t] # None
          /\ idOf[sessionDic[s]] = idOf[sessionDic[t]]) => s = t

(* A lobby's dictionary holds exactly the users whose own state says they   *)
(* are in that lobby or in one of its rooms, and each of them is reached    *)
(* from a live session: no broadcast follows a pointer to a released user   *)
(* (Lobby::EnterUser, LeaveUser, NtfSysCloseSession).                       *)
LobbyMembership ==
  /\ \A l \in Lobbies, u \in Users :
       u \in lobbyUsers[l] <=> (domain[u] \in {"LOBBY", "ROOM"} /\ lobbyOf[u] = l)
  /\ \A u \in Users : domain[u] \in {"LOBBY", "ROOM"} =>
       /\ lobbyOf[u] \in Lobbies
       /\ sessionOf[u] \in Sessions
       /\ sessionDic[sessionOf[u]] = u

(* A room lists, once each, exactly the users whose own state says they are *)
(* in it; it is in use exactly while somebody is in it and never holds more *)
(* than MaxRoomUserCount (Room::EnterUser, LeaveUser, Clear).               *)
RoomMembership ==
  /\ \A rm \in Rooms, u \in Users :
       IsMember(rm, u) <=> (domain[u] = "ROOM" /\ <<lobbyOf[u], roomOf[u]>> = rm)
  /\ \A u \in Users : domain[u] = "ROOM" => roomOf[u] \in RoomNos
  /\ \A rm \in Rooms : \A i, j \in DOMAIN members[rm] :
       members[rm][i] = members[rm][j] => i = j
  /\ \A rm \in Rooms : used[rm] <=> members[rm] # <<>>
  /\ \A rm \in Rooms : Len(members[rm]) <= MaxRoomUserCount

(* Lobby::RemoveUser writes through end() when no seat points to the user:  *)
(* wherever a handler may call it - for the lobby index a user object holds,*)
(* stale or not - a seat does.                                              *)
RemoveUserStaysInside ==
  \A u \in Users : lobbyOf[u] # None => ~RemoveUserOverruns(lobbyOf[u], u)

(* RoomUserList follows RoomManager::GetRoom without a null check: the list *)
(* of created rooms, its size cast to short, reaches the number of every    *)
(* room in use.                                                             *)
RoomManagerCovers ==
  \A rm \in Rooms : used[rm] => RoomManagerFinds(rm[2])

(* A lobby whose seats have all been used once is shut for good: whoever    *)
(* leaves it, by LobbyLeave or by disconnecting, frees no seat, and nobody  *)
(* comes in again, while its count of users says that there is room.        *)
UsedUpLobbiesStayShut ==
  [][\A l \in Lobbies : FreeSlots(l) = {} =>
       FreeSlots(l)' = {} /\ lobbyUsers'[l] \subseteq lobbyUsers[l]]_vars

-----------------------------------------------------------------------------
(* What the clients are told *)

SentNow == {sent'[i] : i \in DOMAIN sent'}

Told(pkt, who, to) ==
  \A s \in to : \E m \in SentNow : m.pkt = pkt /\ m.who = who /\ s \in m.to

(* The users of a lobby who are not in a room, and the members of a room. *)
Visible(l)     == {u \in lobbyUsers[l] : domain[u] = "LOBBY"}
MembersOf(rm)  == {members[rm][i] : i \in DOMAIN members[rm]}
SessionsOf(us) == {sessionOf[u] : u \in us}
NamesOf(us)    == {idOf[u] : u \in us}

(* Whenever the members of a room change - entering, leaving, losing the    *)
(* connection - the users of its lobby who are not in a room are told the   *)
(* new count, those left in the room are told who left, and those who were  *)
(* there are told who came.                                                 *)
RoomChangesAnnounced ==
  [][\A rm \in Rooms : members'[rm] # members[rm] =>
       /\ \E m \in SentNow :
            /\ m.pkt = "ROOM_CHANGED_INFO_NTF"
            /\ m.room = <<rm[2], Len(members'[rm])>>
            /\ SessionsOf(Visible(rm[1]))' \subseteq m.to
       /\ \A u \in MembersOf(rm) \ MembersOf(rm)' :
            Told("ROOM_LEAVE_USER_NTF", idOf[u], SessionsOf(MembersOf(rm))')
       /\ \A u \in MembersOf(rm)' \ MembersOf(rm) :
            Told("ROOM_ENTER_USER_NTF", idOf[u], SessionsOf(MembersOf(rm) \ {u})')]_vars

(* Every user list a client keeps of its lobby stays right while the users  *)
(* of the lobby stay connected: one who appears in the lobby (from login,   *)
(* or back from a room) or disappears from it (to a room, or leaving) is    *)
(* announced to all the others who are in it.                               *)
LobbyMovesAnnounced ==
  [][\A l \in Lobbies :
       /\ \A u \in Visible(l)' \ Visible(l) :
            Told("LOBBY_ENTER_USER_NTF", idOf[u], SessionsOf(Visible(l) \ {u})')
       /\ \A u \in Visible(l) \ Visible(l)' : domain'[u] # "NONE" =>
            Told("LOBBY_LEAVE_USER_NTF", idOf[u], SessionsOf(Visible(l) \ {u})')]_vars

(* u loses its connection in this step. *)
Disconnects(u) == domain[u] # "NONE" /\ domain'[u] = "NONE"

(* The user named who was in the lobby, or in the room, or disconnects and  *)
(* its indices, which may have outlived its stay, name that place.          *)
WasInLobby(who, l) ==
  \E u \in Users : idOf[u] = who /\ (u \in Visible(l) \/ (Disconnects(u) /\ lobbyOf[u] = l))

WasInRoom(who, rm) ==
  \E u \in Users :
    /\ idOf[u] = who
    /\ u \in MembersOf(rm) \/ (Disconnects(u) /\ <<lobbyOf[u], roomOf[u]>> = rm)

(* Those who hear m are live users among us, and m is about none of them. *)
HeardAmong(us, m) ==
  \A s \in m.to : sessionDic'[s] \in us /\ idOf'[sessionDic'[s]] # m.who

NewsInPlace(m) ==
  /\ m.pkt = "LOBBY_ENTER_USER_NTF" =>
       \E l \in Lobbies : m.who \in NamesOf(Visible(l))' /\ HeardAmong(Visible(l)', m)
  /\ m.pkt = "LOBBY_LEAVE_USER_NTF" =>
       \E l \in Lobbies : WasInLobby(m.who, l) /\ HeardAmong(Visible(l)', m)
  /\ m.pkt = "ROOM_ENTER_USER_NTF" =>
       \E rm \in Rooms : m.who \in NamesOf(MembersOf(rm))' /\ HeardAmong(MembersOf(rm)', m)
  /\ m.pkt = "ROOM_LEAVE_USER_NTF" =>
       \E rm \in Rooms : WasInRoom(m.who, rm) /\ HeardAmong(MembersOf(rm)', m)

(* Presence news stays where it happened.  That a user came is told only to *)
(* those who are with it now, in its lobby outside the rooms or in its      *)
(* room; that it left, only to those who are where it was; neither to a     *)
(* closed session nor to the user itself.  The one exception is a user who  *)
(* disconnects: where it was is then read off the indices its object holds, *)
(* so that NtfSysCloseSession may tell a room of a user who left it long    *)
(* before.                                                                  *)
NewsStaysInPlace == [][\A m \in SentNow : NewsInPlace(m)]_vars

(* A game starts only in a room of exactly two live members, at the wish of *)
(* the one who came first, and the other one is told.                       *)
GameStartIsShared ==
  [][\A rm \in Rooms : game'[rm] # game[rm] =>
       \E u, v \in Users :
         /\ members[rm] = <<u, v>>
         /\ sessionDic[sessionOf[v]] = v
         /\ Reply(sessionOf[u], "ROOM_MASTER_GAME_STATE_RES", "NONE") \in SentNow
         /\ Told("ROOM_MASTER_GAME_STATE_RES", NoID, {sessionOf[v]})]_vars

-----------------------------------------------------------------------------
(* Disagreements between the code and what is said of it *)

(* The leaving user is announced to the users in the lobby (Packet.h:120),  *)
(* also when the user leaves by losing the connection: NtfSysCloseSession   *)
(* calls NotifyLobbyLeaveUserInfo, but only if the room index is unset.     *)
LobbyClosesAnnounced ==
  [][\A l \in Lobbies : \A u \in Visible(l) \ Visible(l)' : domain'[u] = "NONE" =>
       Told("LOBBY_LEAVE_USER_NTF", idOf[u], SessionsOf(Visible(l) \ {u})')]_vars

(* A whisper is sent to the user it names (Lobby.cpp:254, Packet.h:215): to *)
(* the session of that user.                                                *)
WhisperReachesItsUser ==
  [][\A s \in Sessions, id \in UserIDs :
       LOBBYWisperChat(s, id) /\ WisperError(s, id) = "NONE" =>
         \A m \in SentNow : m.pkt = "LOBBY_WHISPER_CHAT_NTF" =>
           m.to = {sessionOf[FindUserByID(id)]}]_vars

(* The user list of a room (PacketProcessRoom.cpp:238, Packet.h:152) names  *)
(* members of the room the asking user is in.                               *)
UserListIsTheRooms ==
  [][\A m \in SentNow, s \in Sessions :
       m.pkt = "ROOM_ENTER_USER_LIST_RES" /\ m.to = {s} /\ m.err = "NONE" =>
         {e[2] : e \in m.list} \subseteq
           NamesOf(MembersOf(<<lobbyOf[sessionDic[s]], roomOf[sessionDic[s]]>>))]_vars

(* An ID in use is refused at login (PacketProcessLogin.cpp:19): no two     *)
(* user objects that have been confirmed, and whose clients were told so,   *)
(* carry one ID.                                                            *)
LoginNamesUnique ==
  \A u, v \in Users :
    (domain[u] # "NONE" /\ domain[v] # "NONE" /\ idOf[u] = idOf[v]) => u = v

-----------------------------------------------------------------------------
(* The server implements Presence: what Presence knows of a session is read *)
(* off the object its entry leads to.                                       *)

LoggedInAs(s) == IF sessionDic[s] = None THEN NoID ELSE idOf[sessionDic[s]]

InLobby(s) ==
  IF sessionDic[s] = None THEN -1
  ELSE IF domain[sessionDic[s]] \in {"LOBBY", "ROOM"} THEN lobbyOf[sessionDic[s]]
  ELSE -1

OnlineNow   == {s \in Sessions : connected[s]}
NameTable   == [s \in Sessions |-> LoggedInAs(s)]
LobbyTable  == [s \in Sessions |-> InLobby(s)]
RosterTable == [rm \in Rooms |-> [i \in DOMAIN members[rm] |-> sessionOf[members[rm][i]]]]

People == INSTANCE Presence WITH
  Names <- UserIDs, NoName <- NoID,
  ServerSeats <- MaxClientCount, LobbySeats <- MaxLobbyUserCount,
  RoomSeats <- MaxRoomUserCount,
  online <- OnlineNow, name <- NameTable, lobby <- LobbyTable, roster <- RosterTable

(* Every step of the server is a step of Presence, or changes nothing it *)
(* tells apart.                                                           *)
ImplementsPresence == People!PSpec
=============================================================================
