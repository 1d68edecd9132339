----------------------------- MODULE UserManager ----------------------------
(***************************************************************************)
(* UserManager and the User objects it pools: which session owns which     *)
(* object, and where each user is.  m_IsConfirm is TRUE exactly when       *)
(* m_CurDomainState is not NONE (Set and Clear write both), so the domain  *)
(* stands for the two.  m_UserIDDic is written and never read: left out.   *)
(***************************************************************************)
EXTENDS ServerConfig

VARIABLES
  freeUsers,   \* m_UserObjPoolIndex, a deque: taken at the front, released at the back
  sessionDic,  \* m_UserSessionDic: the user object of a session, or None
  domain,      \* m_CurDomainState of each user object
  sessionOf,   \* m_SessionIndex
  idOf,        \* m_ID
  lobbyOf,     \* m_LobbyIndex
  roomOf       \* m_RoomIndex

poolVars   == <<freeUsers, sessionDic, sessionOf, idOf>>
placeVars  == <<domain, lobbyOf, roomOf>>
userVars   == <<freeUsers, sessionDic, domain, sessionOf, idOf, lobbyOf, roomOf>>

Domains == {"NONE", "LOGIN", "LOBBY", "ROOM"}

UserInit ==
  /\ freeUsers  = [i \in 1..MaxClientCount |-> i - 1]
  /\ sessionDic = [s \in Sessions |-> None]
  /\ domain     = [u \in Users |-> "NONE"]
  /\ sessionOf  = [u \in Users |-> None]
  /\ idOf       = [u \in Users |-> NoID]
  /\ lobbyOf    = [u \in Users |-> None]
  /\ roomOf     = [u \in Users |-> None]

(* User::Set and User::Clear, which sets m_SessionIndex to 0. *)
SetUser(u, s, id) ==
  /\ domain'    = [domain EXCEPT ![u] = "LOGIN"]
  /\ sessionOf' = [sessionOf EXCEPT ![u] = s]
  /\ idOf'      = [idOf EXCEPT ![u] = id]
  /\ UNCHANGED <<lobbyOf, roomOf>>

ClearUser(u) ==
  /\ domain'    = [domain EXCEPT ![u] = "NONE"]
  /\ sessionOf' = [sessionOf EXCEPT ![u] = 0]
  /\ idOf'      = [idOf EXCEPT ![u] = NoID]
  /\ lobbyOf'   = [lobbyOf EXCEPT ![u] = None]
  /\ roomOf'    = [roomOf EXCEPT ![u] = None]

(* The object at the front of the pool, and one put back and Cleared. *)
AllocUserObjPoolIndex == freeUsers' = Tail(freeUsers)

ReleaseUserObjPoolIndex(u) ==
  /\ freeUsers' = Append(freeUsers, u)
  /\ ClearUser(u)

(* User::IsCurDomainInLogIn, IsCurDomainInLobby and IsCurDomainInRoom *)
IsCurDomainIn(u, wanted) == domain[u] = wanted

FindUserByID(id) ==
  LET found == {u \in Users : idOf[u] = id /\ \E s \in Sessions : sessionDic[s] = u}
  IN  IF found = {} THEN None ELSE CHOOSE u \in found : TRUE

GetUserError(s) ==
  IF sessionDic[s] = None THEN "USER_MGR_INVALID_SESSION_INDEX"
  ELSE IF domain[sessionDic[s]] = "NONE" THEN "USER_MGR_NOT_CONFIRM_USER"
  ELSE "NONE"

AddUserErrorNoDuplication(id) ==   \* a dropped FindUser check
  IF freeUsers = <<>> THEN "USER_MGR_MAX_USER_COUNT" ELSE "NONE"

AddUserError(id) ==
  IF FindUserByID(id) # None THEN "USER_MGR_ID_DUPLICATION"
  ELSE IF freeUsers = <<>> THEN "USER_MGR_MAX_USER_COUNT"
  ELSE "NONE"

(* The rest of AddUser: take the front object, Set it, and insert it; the *)
(* insert of a std::unordered_map keeps the entry a session already has.  *)
AddUser(s, id) ==
  LET u == Head(freeUsers)
  IN  /\ AllocUserObjPoolIndex
      /\ SetUser(u, s, id)
      /\ sessionDic' = IF sessionDic[s] = None
                       THEN [sessionDic EXCEPT ![s] = u]
                       ELSE sessionDic

RemoveUserNoClear(s, u) ==   \* a release that does not Clear the object
  /\ freeUsers'  = Append(freeUsers, u)
  /\ sessionDic' = [sessionDic EXCEPT ![s] = None]
  /\ UNCHANGED <<domain, sessionOf, idOf, lobbyOf, roomOf>>

(* Erase the session's entry, release the object. *)
RemoveUser(s, u) ==
  /\ sessionDic' = [sessionDic EXCEPT ![s] = None]
  /\ ReleaseUserObjPoolIndex(u)

(* User::EnterLobby: the room index keeps its last value. *)
UserEnterLobby(u, l) ==
  /\ domain'  = [domain EXCEPT ![u] = "LOBBY"]
  /\ lobbyOf' = [lobbyOf EXCEPT ![u] = l]
  /\ UNCHANGED roomOf

(* User::LeaveLobby: both indices keep their last values. *)
UserLeaveLobby(u) ==
  /\ domain' = [domain EXCEPT ![u] = "LOGIN"]
  /\ UNCHANGED <<lobbyOf, roomOf>>

UserEnterRoom(u, l, r) ==
  /\ domain'  = [domain EXCEPT ![u] = "ROOM"]
  /\ lobbyOf' = [lobbyOf EXCEPT ![u] = l]
  /\ roomOf'  = [roomOf EXCEPT ![u] = r]
=============================================================================
