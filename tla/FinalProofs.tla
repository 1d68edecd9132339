----------------------------- MODULE FinalProofs ----------------------------
(***************************************************************************)
(* What FinalProperties says of Final, for every configuration: the people *)
(* in a lobby and the entries disconnected users leave behind, what those  *)
(* who are there are told, and that Final implements Presence.  Every step *)
(* is one of seven moves; FinalInv is inductive, one lemma per move.       *)
(***************************************************************************)
EXTENDS FinalProperties, LogicLemmas

(* TypeOK but for "sent". *)
StateTypeOK ==
  /\ PeopleTyped
  /\ freeUsers \in Seq(Users)
  /\ domain    \in [Users -> Domains \ {"ROOM"}]
  /\ lobbyOf   \in [Users -> Lobbies \cup {None}]
  /\ roomOf    = [u \in Users |-> None]
  /\ connected \in [Sessions -> BOOLEAN]
  /\ loginOK   \in [Sessions -> BOOLEAN]

(* The pool holds Cleared objects, each of them once. *)
FreeAreCleared ==
  /\ \A i, j \in DOMAIN freeUsers : freeUsers[i] = freeUsers[j] => i = j
  /\ \A i \in DOMAIN freeUsers : domain[freeUsers[i]] = "NONE"

(* A session's entry leads to an object in use that points back to it. *)
SessionsOwn ==
  \A s \in Sessions : sessionDic[s] # None =>
    /\ connected[s]
    /\ domain[sessionDic[s]] # "NONE"
    /\ sessionOf[sessionDic[s]] = s
    /\ idOf[sessionDic[s]] \in UserIDs

(* The inductive invariant: the two properties of the lobbies need only the *)
(* types, the refinement also that no session owns an object of the pool.   *)
FinalInv ==
  StateTypeOK /\ FreeAreCleared /\ SessionsOwn /\ PresentAreListed /\ ListedHaveSeats

-----------------------------------------------------------------------------
(* The moves: what a step does to users, lobbies and connections, and what *)
(* it tells when somebody enters or leaves a lobby.                        *)

Rests == UNCHANGED <<userVars, lobbyVars, connected>>

Connects(s) ==
  /\ ~connected[s]
  /\ connected' = [connected EXCEPT ![s] = TRUE]
  /\ UNCHANGED <<userVars, lobbyVars>>

(* The connection of a session without a user is lost. *)
Vanishes(s) ==
  /\ connected[s] /\ GetUserError(s) # "NONE"
  /\ connected' = [connected EXCEPT ![s] = FALSE]
  /\ UNCHANGED <<userVars, lobbyVars>>

LogsIn(s, id) ==
  /\ connected[s] /\ AddUserError(id) = "NONE"
  /\ AddUser(s, id)
  /\ UNCHANGED <<lobbyVars, connected>>

Closes(s, u) ==
  /\ connected[s] /\ u = sessionDic[s] /\ domain[u] # "NONE"
  /\ connected' = [connected EXCEPT ![s] = FALSE]
  /\ RemoveUser(s, u)
  /\ UNCHANGED lobbyVars

EntersLobby(s, u, l) ==
  /\ u = sessionDic[s] /\ domain[u] = "LOGIN" /\ EnterUserError(l, u) = "NONE"
  /\ EnterUser(l, u)
  /\ UNCHANGED <<poolVars, connected>>
  /\ sent' = <<NotifyLobbyEnterUserInfo(l, u)', Reply(s, "LOBBY_ENTER_RES", "NONE")>>

LeavesLobby(s, u, l) ==
  /\ u = sessionDic[s] /\ IsIn(u, l)
  /\ LeaveUser(l, u) /\ UserLeaveLobby(u)
  /\ UNCHANGED <<poolVars, connected>>
  /\ sent' = <<NotifyLobbyLeaveUserInfo(l, u)', Reply(s, "LOBBY_LEAVE_RES", "NONE")>>

Moves(s) ==
  \/ Rests \/ Connects(s) \/ Vanishes(s)
  \/ \E id \in UserIDs : LogsIn(s, id)
  \/ \E u \in Users : Closes(s, u)
  \/ \E u \in Users, l \in Lobbies : EntersLobby(s, u, l) \/ LeavesLobby(s, u, l)

(* A request that is refused, and one that only sends, moves nobody. *)
LEMMA AnswerRests ==
  ASSUME NEW messages, Answer(messages)
  PROVE  Rests
  BY DEF Answer, logicVars, Rests

(* A user whose request passes the checks of a lobby request is in a lobby. *)
LEMMA CheckedUsersAreIn ==
  ASSUME NEW s \in Sessions, NEW e1, NEW e2, e1 # "NONE", e2 # "NONE",
         InLobbyError(s, e1, e2) = "NONE"
  PROVE  /\ sessionDic[s] # None /\ domain[sessionDic[s]] = "LOBBY"
         /\ lobbyOf[sessionDic[s]] \in Lobbies
<1>1. UserError(s, "LOBBY", e1) = "NONE" /\ lobbyOf[sessionDic[s]] \in Lobbies
  BY DEF InLobbyError
<1> QED BY <1>1 DEF UserError, GetUserError, IsCurDomainIn

(* LobbyEnter takes a user who is nowhere into a lobby with a seat for it. *)
LEMMA LobbyEnterMoves ==
  ASSUME NEW s \in Sessions, NEW l, LobbyEnter(s, l)
  PROVE  Moves(s)
<1>1. CASE Refuse(s, "LOBBY_ENTER_RES", LobbyEnterError(s, l))
  BY <1>1, AnswerRests DEF Refuse, Moves
<1>2. ASSUME LobbyEnterError(s, l) = "NONE", UNCHANGED <<poolVars, connected, loginOK>>,
             NEW u \in Users, u = sessionDic[s], EnterUser(l, u),
             sent' = <<NotifyLobbyEnterUserInfo(l, u)', Reply(s, "LOBBY_ENTER_RES", "NONE")>>
      PROVE  Moves(s)
  <2>1. UserError(s, "LOGIN", "LOBBY_ENTER_INVALID_DOMAIN") = "NONE"
    BY <1>2 DEF LobbyEnterError
  <2>2. l \in Lobbies /\ EnterUserError(l, u) = "NONE"
    BY <1>2, <2>1 DEF LobbyEnterError
  <2>3. domain[u] = "LOGIN"
    BY <1>2, <2>1 DEF UserError, IsCurDomainIn
  <2>4. EntersLobby(s, u, l)
    BY <1>2, <2>2, <2>3 DEF EntersLobby
  <2> QED BY <2>2, <2>4 DEF Moves
<1> QED BY <1>1, <1>2 DEF LobbyEnter

(* LobbyLeave takes a user out of the lobby it is in. *)
LEMMA LobbyLeaveMoves ==
  ASSUME NEW s \in Sessions, LobbyLeave(s)
  PROVE  Moves(s)
<1>1. CASE Refuse(s, "LOBBY_LEAVE_RES", LobbyLeaveError(s))
  BY <1>1, AnswerRests DEF Refuse, Moves
<1>2. ASSUME LobbyLeaveError(s) = "NONE", UNCHANGED <<poolVars, connected, loginOK>>,
             NEW u \in Users, NEW l \in Lobbies, u = sessionDic[s], l = lobbyOf[u],
             LeaveUser(l, u), UserLeaveLobby(u),
             sent' = <<NotifyLobbyLeaveUserInfo(l, u)', Reply(s, "LOBBY_LEAVE_RES", "NONE")>>
      PROVE  Moves(s)
  <2>1. InLobbyError(s, "LOBBY_LEAVE_INVALID_DOMAIN", "LOBBY_LEAVE_INVALID_LOBBY_INDEX") = "NONE"
    BY <1>2 DEF LobbyLeaveError
  <2>2. domain[u] = "LOBBY"
    BY <1>2, <2>1, CheckedUsersAreIn
  <2>3. LeavesLobby(s, u, l)
    BY <1>2, <2>2 DEF LeavesLobby, IsIn
  <2> QED BY <2>3 DEF Moves
<1> QED BY <1>1, <1>2 DEF LobbyLeave

(* Every request is a move. *)
LEMMA RequestMoves ==
  ASSUME NEW s \in Sessions, Request(s)
  PROVE  Moves(s)
<1>0. connected[s]
  BY DEF Request
<1>1. ASSUME NEW id \in UserIDs, Login(s, id) PROVE Moves(s)
  <2>1. CASE Refuse(s, "LOGIN_IN_RES", AddUserError(id))
    BY <2>1, AnswerRests DEF Refuse, Moves
  <2>2. CASE /\ AddUserError(id) = "NONE" /\ AddUser(s, id)
             /\ UNCHANGED <<lobbyVars, connected>>
    BY <1>0, <2>2 DEF LogsIn, Moves
  <2> QED BY <1>1, <2>1, <2>2 DEF Login
<1>2. CASE \E messages : Answer(messages)
  BY <1>2, AnswerRests DEF Moves
<1>3. ASSUME NEW id \in UserIDs, LOBBYWisperChat(s, id) PROVE Moves(s)
  BY <1>2, <1>3 DEF LOBBYWisperChat, Refuse
<1>4. CASE LobbyList(s) \/ LobbyRoomList(s) \/ LOBBYChat(s)
  BY <1>2, <1>4 DEF LobbyList, LobbyRoomList, LOBBYChat, Refuse
<1>5. ASSUME NEW start, LobbyUserList(s, start) PROVE Moves(s)
  BY <1>2, <1>5 DEF LobbyUserList, Refuse
<1> QED
  BY <1>1, <1>3, <1>4, <1>5, LobbyEnterMoves, LobbyLeaveMoves DEF Request

(* Every step of Final is a move of some session, or of nobody. *)
LEMMA StepMoves ==
  ASSUME [Next]_vars
  PROVE  Rests \/ \E s \in Sessions : Moves(s)
<1>1. CASE UNCHANGED vars
  BY <1>1 DEF vars, userVars, lobbyVars, Rests
<1>2. ASSUME NEW s \in Sessions, NtfSysConnctSession(s) PROVE Moves(s)
  BY <1>2 DEF NtfSysConnctSession, Connects, Moves
<1>3. ASSUME NEW s \in Sessions, NtfSysCloseSession(s) PROVE Moves(s)
  <2>1. CASE GetUserError(s) = "NONE" /\ \E u \in Users : u = sessionDic[s] /\ CloseUser(s, u)
    <3>1. PICK u \in Users : u = sessionDic[s] /\ CloseUser(s, u)
      BY <2>1
    <3>2. domain[u] # "NONE"
      BY <2>1, <3>1 DEF GetUserError
    <3>3. Closes(s, u)
      BY <1>3, <3>1, <3>2 DEF NtfSysCloseSession, CloseUser, Closes
    <3> QED BY <3>3 DEF Moves
  <2>2. CASE GetUserError(s) # "NONE" /\ UNCHANGED <<userVars, lobbyVars>>
    BY <1>3, <2>2 DEF NtfSysCloseSession, Vanishes, Moves
  <2> QED BY <1>3, <2>1, <2>2 DEF NtfSysCloseSession
<1> QED BY <1>1, <1>2, <1>3, RequestMoves DEF Next

(* loginOK is written by Login and NtfSysCloseSession, and read by nobody. *)
LEMMA FlagsStayTyped ==
  ASSUME loginOK \in [Sessions -> BOOLEAN], [Next]_vars
  PROVE  loginOK' \in [Sessions -> BOOLEAN]
<1>1. ASSUME NEW s \in Sessions, Request(s) PROVE loginOK' \in [Sessions -> BOOLEAN]
  <2>1. ASSUME NEW id \in UserIDs, Login(s, id) PROVE loginOK' \in [Sessions -> BOOLEAN]
    BY <2>1 DEF Login, Refuse, Answer, logicVars
  <2>2. CASE UNCHANGED loginOK
    BY <2>2
  <2>3. ASSUME NEW messages, Answer(messages) PROVE UNCHANGED loginOK
    BY <2>3 DEF Answer, logicVars
  <2>4. ASSUME NEW id \in UserIDs, LOBBYWisperChat(s, id) PROVE UNCHANGED loginOK
    BY <2>3, <2>4 DEF LOBBYWisperChat, Refuse
  <2>5. ASSUME NEW start, LobbyUserList(s, start) PROVE UNCHANGED loginOK
    BY <2>3, <2>5 DEF LobbyUserList, Refuse
  <2>6. ASSUME NEW l, LobbyEnter(s, l) PROVE UNCHANGED loginOK
    BY <2>3, <2>6 DEF LobbyEnter, Refuse
  <2>7. CASE LobbyList(s) \/ LobbyRoomList(s) \/ LOBBYChat(s) \/ LobbyLeave(s)
    BY <2>2, <2>3, <2>7 DEF LobbyList, LobbyRoomList, LOBBYChat, LobbyLeave, Refuse
  <2> QED BY <1>1, <2>1, <2>2, <2>4, <2>5, <2>6, <2>7 DEF Request
<1>2. CASE UNCHANGED vars
  BY <1>2 DEF vars
<1> QED BY <1>1, <1>2 DEF Next, NtfSysConnctSession, NtfSysCloseSession

-----------------------------------------------------------------------------
(* FinalInv holds when Final has started. *)
LEMMA FinalInit == Init => FinalInv
<1> SUFFICES ASSUME Init PROVE FinalInv
  OBVIOUS
<1>1. MaxClientCount \in Nat /\ Users = 0..(MaxClientCount - 1)
  BY ConfigAssumption DEF Users
<1>2. /\ freeUsers \in Seq(Users)
      /\ DOMAIN freeUsers = 1..MaxClientCount
      /\ \A i \in 1..MaxClientCount : freeUsers[i] = i - 1
  BY <1>1 DEF Init, UserInit
<1>3. StateTypeOK
  BY <1>2 DEF Init, UserInit, LobbyInit, StateTypeOK, PeopleTyped, Domains
<1>4. FreeAreCleared
  <2>1. \A u \in Users : domain[u] = "NONE"
    BY DEF Init, UserInit
  <2> QED BY <1>1, <1>2, <2>1 DEF FreeAreCleared
<1>5. SessionsOwn /\ PresentAreListed /\ ListedHaveSeats
  BY DEF Init, UserInit, LobbyInit, SessionsOwn, PresentAreListed, ListedHaveSeats
<1> QED BY <1>3, <1>4, <1>5 DEF FinalInv

(* A connection made, or lost by a session without a user. *)
LEMMA ConnectionKeeps ==
  ASSUME FinalInv, loginOK' \in [Sessions -> BOOLEAN], NEW s \in Sessions,
         Rests \/ Connects(s) \/ Vanishes(s)
  PROVE  FinalInv'
<1>1. UNCHANGED <<freeUsers, sessionDic, domain, sessionOf, idOf, lobbyOf, roomOf,
                  slots, lobbyUsers>>
  BY DEF Rests, Connects, Vanishes, userVars, lobbyVars
<1>2. StateTypeOK'
  BY <1>1 DEF FinalInv, StateTypeOK, PeopleTyped, Rests, Connects, Vanishes
<1>3. SessionsOwn'
  <2>1. CASE Rests
    BY <1>1, <2>1 DEF FinalInv, SessionsOwn, Rests
  <2>2. CASE Connects(s)
    BY <1>1, <2>2 DEF FinalInv, StateTypeOK, SessionsOwn, Connects
  <2>3. CASE Vanishes(s)
    <3>1. sessionDic[s] = None
      BY <2>3 DEF FinalInv, SessionsOwn, Vanishes, GetUserError
    <3> QED BY <1>1, <2>3, <3>1 DEF FinalInv, StateTypeOK, SessionsOwn, Vanishes
  <2> QED BY <2>1, <2>2, <2>3
<1>4. FreeAreCleared' /\ PresentAreListed' /\ ListedHaveSeats'
  BY <1>1 DEF FinalInv, FreeAreCleared, PresentAreListed, ListedHaveSeats, RemoveUserOverruns
<1> QED BY <1>2, <1>3, <1>4 DEF FinalInv

(* The object a login takes is Cleared and owned by no session.  It leaves *)
(* the pool also when the session keeps the object it has.                 *)
LEMMA LogsInEffect ==
  ASSUME FinalInv, NEW s \in Sessions, NEW id \in UserIDs, LogsIn(s, id)
  PROVE  /\ connected[s]
         /\ \A t \in Sessions : sessionDic[t] # None => idOf[sessionDic[t]] # id
         /\ freeUsers \in Seq(Users) /\ freeUsers # <<>> /\ freeUsers' = Tail(freeUsers)
         /\ UNCHANGED <<lobbyOf, roomOf, slots, lobbyUsers, connected>>
         /\ \E u \in Users :
              /\ u = freeUsers[1] /\ domain[u] = "NONE"
              /\ \A t \in Sessions : sessionDic[t] # u
              /\ sessionDic' = IF sessionDic[s] = None THEN [sessionDic EXCEPT ![s] = u]
                                                       ELSE sessionDic
              /\ domain'    = [domain EXCEPT ![u] = "LOGIN"]
              /\ sessionOf' = [sessionOf EXCEPT ![u] = s]
              /\ idOf'      = [idOf EXCEPT ![u] = id]
<1>1. StateTypeOK /\ PeopleTyped
  BY DEF FinalInv, StateTypeOK
<1>2. /\ freeUsers # <<>>
      /\ \A t \in Sessions : sessionDic[t] # None => idOf[sessionDic[t]] # id
  BY <1>1, NameIsFree DEF LogsIn, PeopleTyped
<1>3. freeUsers \in Seq(Users)
  BY <1>1 DEF StateTypeOK
<1>4. PICK u \in Users : u = Head(freeUsers) /\ u = freeUsers[1] /\ 1 \in DOMAIN freeUsers
  BY <1>2, <1>3
<1>5. domain[u] = "NONE"
  BY <1>4 DEF FinalInv, FreeAreCleared
<1>6. \A t \in Sessions : sessionDic[t] # u
  BY <1>5, NoneIsNoIndex DEF FinalInv, SessionsOwn
<1>7. /\ freeUsers' = Tail(freeUsers)
      /\ sessionDic' = IF sessionDic[s] = None THEN [sessionDic EXCEPT ![s] = u] ELSE sessionDic
      /\ domain'    = [domain EXCEPT ![u] = "LOGIN"]
      /\ sessionOf' = [sessionOf EXCEPT ![u] = s]
      /\ idOf'      = [idOf EXCEPT ![u] = id]
      /\ UNCHANGED <<lobbyOf, roomOf, slots, lobbyUsers, connected>>
  BY <1>4 DEF LogsIn, AddUser, AllocUserObjPoolIndex, SetUser, lobbyVars
<1> QED BY <1>2, <1>3, <1>4, <1>5, <1>6, <1>7 DEF LogsIn

(* Login. *)
LEMMA LogsInKeeps ==
  ASSUME FinalInv, loginOK' \in [Sessions -> BOOLEAN],
         NEW s \in Sessions, NEW id \in UserIDs, LogsIn(s, id)
  PROVE  FinalInv'
<1>1. /\ connected[s]
      /\ freeUsers \in Seq(Users) /\ freeUsers # <<>> /\ freeUsers' = Tail(freeUsers)
      /\ UNCHANGED <<lobbyOf, roomOf, slots, lobbyUsers, connected>>
  BY LogsInEffect
<1>2. PICK u \in Users :
        /\ u = freeUsers[1] /\ domain[u] = "NONE"
        /\ \A t \in Sessions : sessionDic[t] # u
        /\ sessionDic' = IF sessionDic[s] = None THEN [sessionDic EXCEPT ![s] = u]
                                                 ELSE sessionDic
        /\ domain'    = [domain EXCEPT ![u] = "LOGIN"]
        /\ sessionOf' = [sessionOf EXCEPT ![u] = s]
        /\ idOf'      = [idOf EXCEPT ![u] = id]
  BY LogsInEffect
<1>3. StateTypeOK /\ PeopleTyped
  BY DEF FinalInv, StateTypeOK
<1>4. /\ Tail(freeUsers) \in Seq(Users)
      /\ Len(Tail(freeUsers)) = Len(freeUsers) - 1
      /\ \A i \in 1..(Len(freeUsers) - 1) : Tail(freeUsers)[i] = freeUsers[i + 1]
  BY <1>1, HeadTailProperties
<1>5. PeopleTyped'
  BY <1>1, <1>2, <1>3 DEF PeopleTyped
<1>6. StateTypeOK'
  BY <1>1, <1>2, <1>3, <1>4, <1>5 DEF StateTypeOK, Domains
<1>7. FreeAreCleared'
  <2>1. /\ DOMAIN freeUsers' = 1..(Len(freeUsers) - 1) /\ DOMAIN freeUsers = 1..Len(freeUsers)
        /\ Len(freeUsers) \in Nat \ {0}
    BY <1>1, <1>4
  <2>2. \A i \in DOMAIN freeUsers' : i + 1 \in DOMAIN freeUsers /\ freeUsers'[i] = freeUsers[i + 1]
    BY <1>1, <1>4, <2>1
  <2>3. \A i, j \in DOMAIN freeUsers' : freeUsers'[i] = freeUsers'[j] => i = j
    BY <2>1, <2>2 DEF FinalInv, FreeAreCleared
  <2>4. ASSUME NEW i \in DOMAIN freeUsers' PROVE domain'[freeUsers'[i]] = "NONE"
    <3>1. freeUsers[i + 1] # u
      BY <1>2, <2>1, <2>2 DEF FinalInv, FreeAreCleared
    <3>2. freeUsers[i + 1] \in Users /\ domain[freeUsers[i + 1]] = "NONE"
      BY <1>1, <2>2 DEF FinalInv, FreeAreCleared
    <3> QED BY <1>2, <1>3, <2>2, <3>1, <3>2 DEF StateTypeOK
  <2> QED BY <2>3, <2>4 DEF FreeAreCleared
<1>8. SessionsOwn'
  <2> SUFFICES ASSUME NEW t \in Sessions, sessionDic'[t] # None
               PROVE  /\ connected'[t]
                      /\ domain'[sessionDic'[t]] # "NONE"
                      /\ sessionOf'[sessionDic'[t]] = t
                      /\ idOf'[sessionDic'[t]] \in UserIDs
    BY DEF SessionsOwn
  <2>1. CASE t = s /\ sessionDic[s] = None
    BY <1>1, <1>2, <1>3, <2>1 DEF StateTypeOK, PeopleTyped
  <2>2. CASE ~(t = s /\ sessionDic[s] = None)
    <3>1. sessionDic'[t] = sessionDic[t] /\ sessionDic[t] # None
      BY <1>2, <1>3, <2>2 DEF PeopleTyped
    <3>2. sessionDic[t] \in Users /\ sessionDic[t] # u
      BY <1>2, <1>3, <3>1 DEF PeopleTyped
    <3> QED BY <1>1, <1>2, <1>3, <3>1, <3>2 DEF StateTypeOK, PeopleTyped, FinalInv, SessionsOwn
  <2> QED BY <2>1, <2>2
<1>9. PresentAreListed'
  BY <1>1, <1>2, <1>3 DEF FinalInv, StateTypeOK, PresentAreListed
<1>10. ListedHaveSeats'
  BY <1>1 DEF FinalInv, ListedHaveSeats, RemoveUserOverruns
<1> QED BY <1>6, <1>7, <1>8, <1>9, <1>10 DEF FinalInv

(* No two sessions share a user object. *)
LEMMA OneSessionEach ==
  ASSUME FinalInv, NEW s \in Sessions, NEW t \in Sessions,
         sessionDic[s] # None, sessionDic[s] = sessionDic[t]
  PROVE  s = t
  BY DEF FinalInv, SessionsOwn

(* NtfSysCloseSession: the object goes back to the pool; the lobbies keep it. *)
LEMMA ClosesKeeps ==
  ASSUME FinalInv, loginOK' \in [Sessions -> BOOLEAN],
         NEW s \in Sessions, NEW u \in Users, Closes(s, u)
  PROVE  FinalInv'
<1>1. /\ freeUsers'  = Append(freeUsers, u)
      /\ sessionDic' = [sessionDic EXCEPT ![s] = None]
      /\ domain'     = [domain EXCEPT ![u] = "NONE"]
      /\ sessionOf'  = [sessionOf EXCEPT ![u] = 0]
      /\ idOf'       = [idOf EXCEPT ![u] = NoID]
      /\ lobbyOf'    = [lobbyOf EXCEPT ![u] = None]
      /\ roomOf'     = [roomOf EXCEPT ![u] = None]
      /\ connected'  = [connected EXCEPT ![s] = FALSE]
      /\ UNCHANGED <<slots, lobbyUsers>>
  BY DEF Closes, RemoveUser, ReleaseUserObjPoolIndex, ClearUser, lobbyVars
<1>2. u = sessionDic[s] /\ domain[u] # "NONE"
  BY DEF Closes
<1>3. StateTypeOK /\ PeopleTyped /\ 0 \in Sessions /\ freeUsers \in Seq(Users)
  BY ConfigAssumption DEF FinalInv, StateTypeOK, Sessions
<1>4. PeopleTyped'
  BY <1>1, <1>3 DEF PeopleTyped
<1>5. StateTypeOK'
  <2>1. freeUsers' \in Seq(Users)
    BY <1>1, <1>3
  <2> QED BY <1>1, <1>3, <1>4, <2>1 DEF StateTypeOK, Domains
<1>6. FreeAreCleared'
  <2>1. /\ DOMAIN freeUsers' = 1..(Len(freeUsers) + 1) /\ DOMAIN freeUsers = 1..Len(freeUsers)
        /\ Len(freeUsers) \in Nat
        /\ freeUsers'[Len(freeUsers) + 1] = u
        /\ \A i \in DOMAIN freeUsers : freeUsers'[i] = freeUsers[i]
    BY <1>1, <1>3
  <2>2. \A i \in DOMAIN freeUsers : freeUsers[i] # u
    BY <1>2 DEF FinalInv, FreeAreCleared
  <2>3. \A i, j \in DOMAIN freeUsers' : freeUsers'[i] = freeUsers'[j] => i = j
    BY <2>1, <2>2 DEF FinalInv, FreeAreCleared
  <2>4. ASSUME NEW i \in DOMAIN freeUsers' PROVE domain'[freeUsers'[i]] = "NONE"
    <3>1. CASE i = Len(freeUsers) + 1
      BY <1>1, <1>3, <2>1, <3>1 DEF StateTypeOK
    <3>2. CASE i \in DOMAIN freeUsers
      <4>1. freeUsers[i] \in Users /\ domain[freeUsers[i]] = "NONE"
        BY <1>3, <3>2 DEF FinalInv, FreeAreCleared
      <4> QED BY <1>1, <1>3, <2>1, <3>2, <4>1 DEF StateTypeOK
    <3> QED BY <2>1, <3>1, <3>2
  <2> QED BY <2>3, <2>4 DEF FreeAreCleared
<1>7. SessionsOwn'
  <2> SUFFICES ASSUME NEW t \in Sessions, sessionDic'[t] # None
               PROVE  /\ connected'[t]
                      /\ domain'[sessionDic'[t]] # "NONE"
                      /\ sessionOf'[sessionDic'[t]] = t
                      /\ idOf'[sessionDic'[t]] \in UserIDs
    BY DEF SessionsOwn
  <2>1. t # s /\ sessionDic'[t] = sessionDic[t] /\ sessionDic[t] \in Users
    BY <1>1, <1>3 DEF PeopleTyped
  <2>2. sessionDic[t] # u
    BY <1>2, <2>1, NoneIsNoIndex, OneSessionEach
  <2> QED BY <1>1, <1>3, <2>1, <2>2, NoneIsNoIndex
          DEF StateTypeOK, PeopleTyped, FinalInv, SessionsOwn
<1>8. PresentAreListed'
  BY <1>1, <1>3 DEF FinalInv, StateTypeOK, PresentAreListed
<1>9. ListedHaveSeats'
  BY <1>1 DEF FinalInv, ListedHaveSeats, RemoveUserOverruns
<1> QED BY <1>5, <1>6, <1>7, <1>8, <1>9 DEF FinalInv

(* A user who enters a lobby gets an empty seat; the seats of the others stay. *)
LEMMA EntersLobbyKeeps ==
  ASSUME FinalInv, loginOK' \in [Sessions -> BOOLEAN],
         NEW s \in Sessions, NEW u \in Users, NEW l \in Lobbies, EntersLobby(s, u, l)
  PROVE  FinalInv'
<1>1. /\ domain'  = [domain EXCEPT ![u] = "LOBBY"]
      /\ lobbyOf' = [lobbyOf EXCEPT ![u] = l]
      /\ lobbyUsers' = [lobbyUsers EXCEPT ![l] = @ \cup {u}]
      /\ UNCHANGED <<freeUsers, sessionDic, sessionOf, idOf, roomOf, connected>>
      /\ domain[u] = "LOGIN"
  BY DEF EntersLobby, EnterUser, UserEnterLobby, poolVars
<1>2. PICK i \in Slots : slots[l][i] = None /\ slots' = [slots EXCEPT ![l] = [@ EXCEPT ![i] = u]]
  <2>1. FreeSlots(l) # {}
    BY DEF EntersLobby, EnterUserError, HasUser
  <2>2. FreeSlots(l) \in SUBSET Nat
    BY ConfigAssumption DEF FreeSlots, Slots
  <2>3. Min(FreeSlots(l)) \in FreeSlots(l)
    BY <2>1, <2>2, MinOfNaturals
  <2> QED BY <2>3 DEF EntersLobby, EnterUser, AddUserToSlot, FreeSlots
<1>3. StateTypeOK /\ PeopleTyped
  BY DEF FinalInv, StateTypeOK
<1>4. PeopleTyped'
  BY <1>1, <1>2, <1>3 DEF PeopleTyped
<1>5. StateTypeOK'
  BY <1>1, <1>3, <1>4 DEF StateTypeOK, Domains
<1>6. FreeAreCleared'
  <2>1. \A j \in DOMAIN freeUsers : freeUsers[j] \in Users /\ freeUsers[j] # u
    BY <1>1, <1>3 DEF FinalInv, FreeAreCleared, StateTypeOK
  <2> QED BY <1>1, <1>3, <2>1 DEF FinalInv, FreeAreCleared, StateTypeOK
<1>7. SessionsOwn'
  BY <1>1, <1>3, NoneIsNoIndex DEF FinalInv, SessionsOwn, StateTypeOK, PeopleTyped
<1>8. PresentAreListed'
  <2> SUFFICES ASSUME NEW v \in Users, domain'[v] = "LOBBY"
               PROVE  lobbyOf'[v] \in Lobbies /\ v \in lobbyUsers'[lobbyOf'[v]]
    BY DEF PresentAreListed
  <2>1. CASE v = u
    BY <1>1, <1>3, <2>1 DEF StateTypeOK, PeopleTyped
  <2>2. CASE v # u
    BY <1>1, <1>3, <2>2 DEF StateTypeOK, PeopleTyped, FinalInv, PresentAreListed
  <2> QED BY <2>1, <2>2
<1>9. ListedHaveSeats'
  <2> SUFFICES ASSUME NEW k \in Lobbies, NEW v \in lobbyUsers'[k]
               PROVE  \E j \in Slots : slots'[k][j] = v
    BY DEF ListedHaveSeats, RemoveUserOverruns
  <2>1. CASE v = u /\ k = l
    BY <1>2, <1>3, <2>1 DEF PeopleTyped
  <2>2. CASE ~(v = u /\ k = l)
    <3>1. v \in lobbyUsers[k] /\ v \in Users
      BY <1>1, <1>3, <2>2 DEF PeopleTyped
    <3>2. PICK j \in Slots : slots[k][j] = v
      BY <3>1 DEF FinalInv, ListedHaveSeats, RemoveUserOverruns
    <3>3. slots'[k][j] = v
      BY <1>2, <1>3, <3>1, <3>2, NoneIsNoIndex DEF PeopleTyped
    <3> QED BY <3>3
  <2> QED BY <2>1, <2>2
<1> QED BY <1>5, <1>6, <1>7, <1>8, <1>9 DEF FinalInv

(* A user who leaves a lobby leaves its dictionary, and its seat as it was. *)
LEMMA LeavesLobbyKeeps ==
  ASSUME FinalInv, loginOK' \in [Sessions -> BOOLEAN],
         NEW s \in Sessions, NEW u \in Users, NEW l \in Lobbies, LeavesLobby(s, u, l)
  PROVE  FinalInv'
<1>1. /\ domain' = [domain EXCEPT ![u] = "LOGIN"]
      /\ lobbyUsers' = [lobbyUsers EXCEPT ![l] = @ \ {u}]
      /\ UNCHANGED <<freeUsers, sessionDic, sessionOf, idOf, lobbyOf, roomOf, slots, connected>>
      /\ domain[u] = "LOBBY"
  BY DEF LeavesLobby, LeaveUser, RemoveUserFromSlot, UserLeaveLobby, poolVars, IsIn
<1>2. StateTypeOK /\ PeopleTyped
  BY DEF FinalInv, StateTypeOK
<1>3. PeopleTyped'
  BY <1>1, <1>2 DEF PeopleTyped
<1>4. StateTypeOK'
  BY <1>1, <1>2, <1>3 DEF StateTypeOK, Domains
<1>5. FreeAreCleared'
  <2>1. \A j \in DOMAIN freeUsers : freeUsers[j] \in Users /\ freeUsers[j] # u
    BY <1>1, <1>2 DEF FinalInv, FreeAreCleared, StateTypeOK
  <2> QED BY <1>1, <1>2, <2>1 DEF FinalInv, FreeAreCleared, StateTypeOK
<1>6. SessionsOwn'
  BY <1>1, <1>2, NoneIsNoIndex DEF FinalInv, SessionsOwn, StateTypeOK, PeopleTyped
<1>7. PresentAreListed'
  BY <1>1, <1>2 DEF FinalInv, StateTypeOK, PeopleTyped, PresentAreListed
<1>8. ListedHaveSeats'
  BY <1>1, <1>2 DEF PeopleTyped, FinalInv, ListedHaveSeats, RemoveUserOverruns
<1> QED BY <1>4, <1>5, <1>6, <1>7, <1>8 DEF FinalInv

(* Every step keeps FinalInv. *)
LEMMA FinalStep == FinalInv /\ [Next]_vars => FinalInv'
<1> SUFFICES ASSUME FinalInv, [Next]_vars PROVE FinalInv'
  OBVIOUS
<1>1. loginOK' \in [Sessions -> BOOLEAN]
  BY FlagsStayTyped DEF FinalInv, StateTypeOK
<1>2. 0 \in Sessions
  BY ConfigAssumption DEF Sessions
<1> QED
  BY <1>1, <1>2, StepMoves, ConnectionKeeps, LogsInKeeps, ClosesKeeps, EntersLobbyKeeps,
     LeavesLobbyKeeps DEF Moves

(* FinalInv holds in every state Final reaches. *)
THEOREM FinalInvariant == Spec => []FinalInv
<1> QED BY FinalInit, FinalStep, PTL DEF Spec

(* The broadcasts of a lobby reach everyone who is in it, and LobbyLeave    *)
(* finds them: PresentAreListed, in Final of any size.                      *)
THEOREM PresentAlwaysListed == Spec => []PresentAreListed
<1>1. FinalInv => PresentAreListed
  BY DEF FinalInv
<1> QED BY <1>1, FinalInvariant, PTL

(* Lobby::RemoveUser never writes through end(): ListedHaveSeats, in Final  *)
(* of any size.                                                             *)
THEOREM ListedAlwaysHaveSeats == Spec => []ListedHaveSeats
<1>1. FinalInv => ListedHaveSeats
  BY DEF FinalInv
<1> QED BY <1>1, FinalInvariant, PTL

-----------------------------------------------------------------------------
(* The entry of somebody who is not in the lobby survives each move. *)
LEMMA MoveKeepsGhosts ==
  ASSUME FinalInv, NEW l \in Lobbies, NEW u \in lobbyUsers[l], ~IsIn(u, l),
         NEW s \in Sessions, Moves(s)
  PROVE  u \in lobbyUsers'[l] /\ ~IsIn(u, l)'
<1>1. StateTypeOK /\ PeopleTyped /\ u \in Users
  BY DEF FinalInv, StateTypeOK, PeopleTyped
<1>2. CASE Rests \/ Connects(s) \/ Vanishes(s)
  BY <1>2 DEF IsIn, Rests, Connects, Vanishes, userVars, lobbyVars
<1>3. ASSUME NEW id \in UserIDs, LogsIn(s, id) PROVE u \in lobbyUsers'[l] /\ ~IsIn(u, l)'
  BY <1>1, <1>3, LogsInEffect DEF IsIn, StateTypeOK
<1>4. ASSUME NEW v \in Users, Closes(s, v) PROVE u \in lobbyUsers'[l] /\ ~IsIn(u, l)'
  BY <1>1, <1>4 DEF IsIn, Closes, RemoveUser, ReleaseUserObjPoolIndex, ClearUser,
      lobbyVars, StateTypeOK
<1>5. ASSUME NEW v \in Users, NEW k \in Lobbies, EntersLobby(s, v, k)
      PROVE  u \in lobbyUsers'[l] /\ ~IsIn(u, l)'
  <2>1. v \notin lobbyUsers[k]
    BY <1>5 DEF EntersLobby, EnterUserError, HasUser
  <2>2. /\ domain'  = [domain EXCEPT ![v] = "LOBBY"]
        /\ lobbyOf' = [lobbyOf EXCEPT ![v] = k]
        /\ lobbyUsers' = [lobbyUsers EXCEPT ![k] = @ \cup {v}]
    BY <1>5 DEF EntersLobby, EnterUser, UserEnterLobby
  <2> QED BY <1>1, <2>1, <2>2 DEF IsIn, StateTypeOK, PeopleTyped
<1>6. ASSUME NEW v \in Users, NEW k \in Lobbies, LeavesLobby(s, v, k)
      PROVE  u \in lobbyUsers'[l] /\ ~IsIn(u, l)'
  <2>1. /\ IsIn(v, k)
        /\ domain' = [domain EXCEPT ![v] = "LOGIN"]
        /\ lobbyUsers' = [lobbyUsers EXCEPT ![k] = @ \ {v}]
        /\ UNCHANGED lobbyOf
    BY <1>6 DEF LeavesLobby, LeaveUser, UserLeaveLobby
  <2> QED BY <1>1, <2>1 DEF IsIn, StateTypeOK, PeopleTyped
<1> QED BY <1>2, <1>3, <1>4, <1>5, <1>6 DEF Moves

(* What a disconnected user leaves in a lobby stays there for ever:         *)
(* GhostsAreForEver, in Final of any size.                                  *)
THEOREM GhostsStay == Spec => GhostsAreForEver
<1>1. ASSUME FinalInv, [Next]_vars, NEW l \in Lobbies, NEW u \in lobbyUsers[l], ~IsIn(u, l)
      PROVE  u \in lobbyUsers'[l] /\ ~IsIn(u, l)'
  <2>1. CASE Rests
    BY <1>1, <2>1 DEF IsIn, Rests, userVars, lobbyVars
  <2> QED BY <1>1, <2>1, MoveKeepsGhosts, StepMoves
<1>2. FinalInv /\ [Next]_vars =>
        [\A l \in Lobbies : \A u \in lobbyUsers[l] :
           ~IsIn(u, l) => u \in lobbyUsers'[l] /\ ~IsIn(u, l)']_vars
  BY <1>1
<1> QED BY <1>2, FinalInvariant, PTL DEF Spec, GhostsAreForEver

-----------------------------------------------------------------------------
(* What those who are in a lobby are told *)

(* After a step, the broadcast of a lobby reaches everyone who was in it,   *)
(* but for the user it is about, if they are still there.                   *)
LEMMA LobbyHears ==
  ASSUME PresentAreListed', NEW l \in Lobbies, NEW u
  PROVE  SessionsOf(PeopleOf(l) \ {u})' \subseteq LobbyListeners(l, u)'
<1>1. ASSUME NEW v \in PeopleOf(l)', v # u PROVE sessionOf'[v] \in LobbyListeners(l, u)'
  <2>1. v \in Users /\ domain'[v] = "LOBBY" /\ lobbyOf'[v] = l
    BY DEF PeopleOf, IsIn
  <2>2. v \in lobbyUsers'[l]
    BY <2>1 DEF PresentAreListed
  <2> QED BY <1>1, <2>1, <2>2 DEF LobbyListeners, IsCurDomainIn
<1> QED BY <1>1 DEF SessionsOf

(* Only a user who enters the lobby appears in it, and only one who leaves  *)
(* or disconnects is no longer there.                                       *)
LEMMA PeopleAfter ==
  ASSUME FinalInv, NEW l \in Lobbies, NEW s \in Sessions
  PROVE  /\ Rests \/ Connects(s) \/ Vanishes(s) => PeopleOf(l)' = PeopleOf(l)
         /\ \A id \in UserIDs : LogsIn(s, id) => PeopleOf(l)' = PeopleOf(l)
         /\ \A u \in Users : Closes(s, u) =>
              PeopleOf(l)' = PeopleOf(l) \ {u} /\ domain'[u] = "NONE"
         /\ \A u \in Users, k \in Lobbies : EntersLobby(s, u, k) =>
              /\ u \notin PeopleOf(l)
              /\ PeopleOf(l)' = IF k = l THEN PeopleOf(l) \cup {u} ELSE PeopleOf(l)
         /\ \A u \in Users, k \in Lobbies : LeavesLobby(s, u, k) =>
              PeopleOf(l)' = IF k = l THEN PeopleOf(l) \ {u} ELSE PeopleOf(l)
<1>1. StateTypeOK
  BY DEF FinalInv
<1>2. ASSUME Rests \/ Connects(s) \/ Vanishes(s) PROVE PeopleOf(l)' = PeopleOf(l)
  BY <1>2 DEF Rests, Connects, Vanishes, userVars, PeopleOf, IsIn
<1>3. ASSUME NEW id \in UserIDs, LogsIn(s, id) PROVE PeopleOf(l)' = PeopleOf(l)
  <2>1. PICK u \in Users : /\ domain[u] = "NONE" /\ domain' = [domain EXCEPT ![u] = "LOGIN"]
                           /\ lobbyOf' = lobbyOf
    BY <1>3, LogsInEffect
  <2> QED BY <1>1, <2>1 DEF StateTypeOK, PeopleOf, IsIn
<1>4. ASSUME NEW u \in Users, Closes(s, u)
      PROVE  PeopleOf(l)' = PeopleOf(l) \ {u} /\ domain'[u] = "NONE"
  <2>1. /\ domain'  = [domain EXCEPT ![u] = "NONE"]
        /\ lobbyOf' = [lobbyOf EXCEPT ![u] = None]
    BY <1>4 DEF Closes, RemoveUser, ReleaseUserObjPoolIndex, ClearUser
  <2> QED BY <1>1, <2>1 DEF StateTypeOK, PeopleOf, IsIn
<1>5. ASSUME NEW u \in Users, NEW k \in Lobbies, EntersLobby(s, u, k)
      PROVE  /\ u \notin PeopleOf(l)
             /\ PeopleOf(l)' = IF k = l THEN PeopleOf(l) \cup {u} ELSE PeopleOf(l)
  <2>1. /\ domain[u] = "LOGIN"
        /\ domain'  = [domain EXCEPT ![u] = "LOBBY"]
        /\ lobbyOf' = [lobbyOf EXCEPT ![u] = k]
    BY <1>5 DEF EntersLobby, EnterUser, UserEnterLobby
  <2> QED BY <1>1, <2>1 DEF StateTypeOK, PeopleOf, IsIn
<1>6. ASSUME NEW u \in Users, NEW k \in Lobbies, LeavesLobby(s, u, k)
      PROVE  PeopleOf(l)' = IF k = l THEN PeopleOf(l) \ {u} ELSE PeopleOf(l)
  <2>1. /\ lobbyOf[u] = k
        /\ domain'  = [domain EXCEPT ![u] = "LOGIN"]
        /\ lobbyOf' = lobbyOf
    BY <1>6 DEF LeavesLobby, UserLeaveLobby, IsIn
  <2> QED BY <1>1, <2>1 DEF StateTypeOK, PeopleOf, IsIn
<1> QED BY <1>2, <1>3, <1>4, <1>5, <1>6

(* Everyone who was in the lobby is told of u, in a packet about its arrival *)
(* or its departure.                                                         *)
LobbyTold(l) ==
  /\ \A u \in PeopleOf(l)' \ PeopleOf(l) :
       Told("LOBBY_ENTER_USER_NTF", idOf[u], SessionsOf(PeopleOf(l)))
  /\ \A u \in PeopleOf(l) \ PeopleOf(l)' : domain'[u] # "NONE" =>
       Told("LOBBY_LEAVE_USER_NTF", idOf[u], SessionsOf(PeopleOf(l) \ {u}))

(* The news a lobby sends first reaches everyone else who is in it then. *)
LEMMA NewsReaches ==
  ASSUME PresentAreListed', NEW l \in Lobbies, NEW u \in Users, NEW answer,
         UNCHANGED <<sessionOf, idOf>>, NEW us, us = (PeopleOf(l) \ {u})'
  PROVE  /\ sent' = <<NotifyLobbyEnterUserInfo(l, u)', answer>> =>
              Told("LOBBY_ENTER_USER_NTF", idOf[u], SessionsOf(us))
         /\ sent' = <<NotifyLobbyLeaveUserInfo(l, u)', answer>> =>
              Told("LOBBY_LEAVE_USER_NTF", idOf[u], SessionsOf(us))
<1>1. SessionsOf(us) \subseteq LobbyListeners(l, u)'
  <2>1. SessionsOf(PeopleOf(l) \ {u})' = SessionsOf(us)
    BY DEF SessionsOf
  <2> QED BY <2>1, LobbyHears
<1>2. ASSUME NEW m, NEW pkt, sent' = <<m, answer>>,
             m = NotifyUser(pkt, LobbyListeners(l, u)', idOf'[u])
      PROVE  Told(pkt, idOf[u], SessionsOf(us))
  <2>1. m \in SentNow
    BY <1>2 DEF SentNow
  <2>2. m.pkt = pkt /\ m.who = idOf[u] /\ m.to = LobbyListeners(l, u)'
    BY <1>2 DEF NotifyUser, Send
  <2> QED BY <1>1, <2>1, <2>2 DEF Told
<1>3. /\ NotifyLobbyEnterUserInfo(l, u)' =
           NotifyUser("LOBBY_ENTER_USER_NTF", LobbyListeners(l, u)', idOf'[u])
      /\ NotifyLobbyLeaveUserInfo(l, u)' =
           NotifyUser("LOBBY_LEAVE_USER_NTF", LobbyListeners(l, u)', idOf'[u])
  BY DEF NotifyLobbyEnterUserInfo, NotifyLobbyLeaveUserInfo, NotifyUser, Send
<1> QED BY <1>2, <1>3

(* Each move tells the people of each lobby. *)
LEMMA MoveLobbyTold ==
  ASSUME FinalInv, FinalInv', NEW l \in Lobbies, NEW s \in Sessions, Moves(s)
  PROVE  LobbyTold(l)
<1>1. CASE PeopleOf(l)' = PeopleOf(l)
  BY <1>1 DEF LobbyTold
<1>2. ASSUME NEW u \in Users, Closes(s, u) PROVE LobbyTold(l)
  <2>1. PeopleOf(l)' = PeopleOf(l) \ {u} /\ domain'[u] = "NONE"
    BY <1>2, PeopleAfter
  <2> QED BY <2>1 DEF LobbyTold
<1>3. ASSUME NEW u \in Users, EntersLobby(s, u, l) PROVE LobbyTold(l)
  <2>1. u \notin PeopleOf(l) /\ PeopleOf(l)' = PeopleOf(l) \cup {u}
    BY <1>3, PeopleAfter
  <2>2. /\ UNCHANGED <<sessionOf, idOf>>
        /\ sent' = <<NotifyLobbyEnterUserInfo(l, u)', Reply(s, "LOBBY_ENTER_RES", "NONE")>>
    BY <1>3 DEF EntersLobby, poolVars
  <2>3. PeopleOf(l) = (PeopleOf(l) \ {u})'
    BY <2>1
  <2>4. Told("LOBBY_ENTER_USER_NTF", idOf[u], SessionsOf(PeopleOf(l)))
    BY <2>2, <2>3, NewsReaches DEF FinalInv
  <2> QED BY <2>1, <2>4 DEF LobbyTold
<1>4. ASSUME NEW u \in Users, LeavesLobby(s, u, l) PROVE LobbyTold(l)
  <2>1. PeopleOf(l)' = PeopleOf(l) \ {u}
    BY <1>4, PeopleAfter
  <2>2. /\ UNCHANGED <<sessionOf, idOf>>
        /\ sent' = <<NotifyLobbyLeaveUserInfo(l, u)', Reply(s, "LOBBY_LEAVE_RES", "NONE")>>
    BY <1>4 DEF LeavesLobby, poolVars
  <2>3. PeopleOf(l) \ {u} = (PeopleOf(l) \ {u})'
    BY <2>1
  <2>4. Told("LOBBY_LEAVE_USER_NTF", idOf[u], SessionsOf(PeopleOf(l) \ {u}))
    BY <2>2, <2>3, NewsReaches DEF FinalInv
  <2> QED BY <2>1, <2>4 DEF LobbyTold
<1>5. ASSUME NEW u \in Users, NEW k \in Lobbies, k # l,
             EntersLobby(s, u, k) \/ LeavesLobby(s, u, k)
      PROVE  PeopleOf(l)' = PeopleOf(l)
  BY <1>5, PeopleAfter
<1>6. (\/ Rests \/ Connects(s) \/ Vanishes(s)
       \/ \E id \in UserIDs : LogsIn(s, id)) => PeopleOf(l)' = PeopleOf(l)
  BY PeopleAfter
<1> QED BY <1>1, <1>2, <1>3, <1>4, <1>5, <1>6 DEF Moves

(* Who enters a lobby of Final, and who leaves it by LobbyLeave, is         *)
(* announced to all others who are in it: LobbyMovesAnnounced.              *)
THEOREM FinalLobbyMovesAreAnnounced == Spec => LobbyMovesAnnounced
<1>1. ASSUME FinalInv, FinalInv', [Next]_vars, NEW l \in Lobbies
      PROVE  LobbyTold(l)
  <2>1. CASE Rests
    <3>1. PeopleOf(l)' = PeopleOf(l)
      BY <2>1 DEF Rests, userVars, PeopleOf, IsIn
    <3> QED BY <3>1 DEF LobbyTold
  <2> QED BY <1>1, <2>1, MoveLobbyTold, StepMoves
<1>2. FinalInv /\ FinalInv' /\ [Next]_vars =>
        [\A l \in Lobbies :
           /\ \A u \in PeopleOf(l)' \ PeopleOf(l) :
                Told("LOBBY_ENTER_USER_NTF", idOf[u], SessionsOf(PeopleOf(l)))
           /\ \A u \in PeopleOf(l) \ PeopleOf(l)' : domain'[u] # "NONE" =>
                Told("LOBBY_LEAVE_USER_NTF", idOf[u], SessionsOf(PeopleOf(l) \ {u}))]_vars
  BY <1>1 DEF LobbyTold
<1> QED BY <1>2, FinalInvariant, PTL DEF Spec, LobbyMovesAnnounced

-----------------------------------------------------------------------------
(* Final implements Presence *)

(* The standard operators Presence brings along are the same. *)
LEMMA PeopleOperators ==
  People!AllRooms = {} /\ \A S : People!Cardinality(S) = Cardinality(S)
<1>1. People!AllRooms = {}
  BY DEF People!AllRooms
<1>2. ASSUME NEW S PROVE People!Cardinality(S) = Cardinality(S)
  BY DEF People!Cardinality, Cardinality
<1> QED BY <1>1, <1>2

(* What Presence knows of a session tells whether it has a user, and which *)
(* lobby the user is in.                                                   *)
LEMMA SessionKnown ==
  ASSUME FinalInv, NEW s \in Sessions
  PROVE  /\ s \in OnlineNow <=> connected[s]
         /\ NameTable[s] # NoID <=> sessionDic[s] # None
         /\ sessionDic[s] # None => NameTable[s] = idOf[sessionDic[s]]
         /\ LobbyTable[s] # -1 <=> sessionDic[s] # None /\ domain[sessionDic[s]] = "LOBBY"
         /\ LobbyTable[s] # -1 => /\ LobbyTable[s] \in Lobbies
                                  /\ LobbyTable[s] = lobbyOf[sessionDic[s]]
<1>1. s \in OnlineNow <=> connected[s]
  BY DEF OnlineNow
<1>2. NameTable[s] = LoggedInAs(s) /\ LobbyTable[s] = InLobby(s)
  BY DEF NameTable, LobbyTable
<1>3. NameTable[s] # NoID <=> sessionDic[s] # None
  BY <1>2, NoneIsNoIndex DEF LoggedInAs, FinalInv, SessionsOwn
<1>4. sessionDic[s] # None => NameTable[s] = idOf[sessionDic[s]]
  BY <1>2 DEF LoggedInAs
<1>5. ASSUME sessionDic[s] # None, domain[sessionDic[s]] = "LOBBY"
      PROVE  LobbyTable[s] # -1 /\ LobbyTable[s] \in Lobbies
               /\ LobbyTable[s] = lobbyOf[sessionDic[s]]
  <2>1. LobbyTable[s] = lobbyOf[sessionDic[s]]
    BY <1>2, <1>5 DEF InLobby
  <2>2. sessionDic[s] \in Users
    BY <1>5 DEF FinalInv, StateTypeOK, PeopleTyped
  <2>3. lobbyOf[sessionDic[s]] \in Lobbies
    BY <1>5, <2>2 DEF FinalInv, PresentAreListed
  <2> QED BY <2>1, <2>3, NoneIsNoIndex DEF None
<1>6. LobbyTable[s] # -1 => sessionDic[s] # None /\ domain[sessionDic[s]] = "LOBBY"
  BY <1>2 DEF InLobby
<1> QED BY <1>1, <1>3, <1>4, <1>5, <1>6

(* Nothing Presence tells apart changes. *)
Stutters == UNCHANGED <<OnlineNow, NameTable, LobbyTable, RosterTable>>

(* What Presence knows depends on these variables only. *)
LEMMA RestIsStutter ==
  ASSUME UNCHANGED <<sessionDic, domain, idOf, lobbyOf, connected>>
  PROVE  Stutters
  BY DEF Stutters, OnlineNow, NameTable, LobbyTable, RosterTable, LoggedInAs, InLobby

(* A connection is a connection. *)
LEMMA ConnectIsConnect ==
  ASSUME FinalInv, NEW s \in Sessions, Connects(s)
  PROVE  People!Connect(s)
<1>1. /\ connected \in [Sessions -> BOOLEAN] /\ ~connected[s]
      /\ connected' = [connected EXCEPT ![s] = TRUE]
      /\ UNCHANGED <<sessionDic, domain, idOf, lobbyOf>>
  BY DEF Connects, FinalInv, StateTypeOK, userVars
<1>2. s \notin OnlineNow /\ OnlineNow' = OnlineNow \cup {s}
  BY <1>1 DEF OnlineNow
<1>3. UNCHANGED <<NameTable, LobbyTable, RosterTable>>
  BY <1>1 DEF NameTable, LobbyTable, RosterTable, LoggedInAs, InLobby
<1> QED BY <1>2, <1>3 DEF People!Connect

(* Losing the connection is a disconnection, with a user or without: the    *)
(* entry the user leaves in its lobby is none of Presence's.                *)
LEMMA CloseIsDisconnect ==
  ASSUME FinalInv, NEW s \in Sessions, Vanishes(s) \/ \E u \in Users : Closes(s, u)
  PROVE  People!Disconnect(s)
<1>1. /\ connected \in [Sessions -> BOOLEAN] /\ connected[s]
      /\ connected' = [connected EXCEPT ![s] = FALSE]
  BY DEF Vanishes, Closes, FinalInv, StateTypeOK
<1>2. s \in OnlineNow /\ OnlineNow' = OnlineNow \ {s}
  BY <1>1 DEF OnlineNow
<1>3. /\ \A t \in Sessions : t # s => NameTable'[t] = NameTable[t] /\ LobbyTable'[t] = LobbyTable[t]
      /\ NameTable'[s] = NoID /\ LobbyTable'[s] = -1
  <2>1. CASE Vanishes(s)
    <3>1. sessionDic[s] = None
      BY <2>1 DEF Vanishes, GetUserError, FinalInv, SessionsOwn
    <3>2. UNCHANGED <<sessionDic, domain, idOf, lobbyOf>>
      BY <2>1 DEF Vanishes, userVars
    <3> QED BY <3>1, <3>2 DEF NameTable, LobbyTable, LoggedInAs, InLobby
  <2>2. ASSUME NEW u \in Users, Closes(s, u)
        PROVE  /\ \A t \in Sessions : t # s =>
                     NameTable'[t] = NameTable[t] /\ LobbyTable'[t] = LobbyTable[t]
               /\ NameTable'[s] = NoID /\ LobbyTable'[s] = -1
    <3>1. /\ u = sessionDic[s]
          /\ sessionDic' = [sessionDic EXCEPT ![s] = None]
          /\ domain'     = [domain EXCEPT ![u] = "NONE"]
          /\ idOf'       = [idOf EXCEPT ![u] = NoID]
          /\ lobbyOf'    = [lobbyOf EXCEPT ![u] = None]
      BY <2>2 DEF Closes, RemoveUser, ReleaseUserObjPoolIndex, ClearUser
    <3>2. StateTypeOK /\ PeopleTyped /\ u # None
      BY NoneIsNoIndex DEF FinalInv, StateTypeOK
    <3>3. sessionDic'[s] = None
      BY <3>1, <3>2 DEF PeopleTyped
    <3>4. ASSUME NEW t \in Sessions, t # s
          PROVE  NameTable'[t] = NameTable[t] /\ LobbyTable'[t] = LobbyTable[t]
      <4>1. sessionDic'[t] = sessionDic[t]
        BY <3>1, <3>2, <3>4 DEF PeopleTyped
      <4>2. sessionDic[t] # None => sessionDic[t] \in Users /\ sessionDic[t] # u
        BY <3>1, <3>2, <3>4, OneSessionEach DEF PeopleTyped
      <4>3. sessionDic[t] # None => /\ idOf'[sessionDic[t]] = idOf[sessionDic[t]]
                                    /\ domain'[sessionDic[t]] = domain[sessionDic[t]]
                                    /\ lobbyOf'[sessionDic[t]] = lobbyOf[sessionDic[t]]
        BY <3>1, <3>2, <4>2 DEF StateTypeOK, PeopleTyped
      <4> QED BY <4>1, <4>3 DEF NameTable, LobbyTable, LoggedInAs, InLobby
    <3> QED BY <3>3, <3>4 DEF NameTable, LobbyTable, LoggedInAs, InLobby
  <2> QED BY <2>1, <2>2
<1>4. /\ NameTable' = [t \in Sessions |-> NameTable'[t]] /\ NameTable = [t \in Sessions |-> NameTable[t]]
      /\ LobbyTable' = [t \in Sessions |-> LobbyTable'[t]]
      /\ LobbyTable = [t \in Sessions |-> LobbyTable[t]]
  BY DEF NameTable, LobbyTable
<1>5. NameTable' = [NameTable EXCEPT ![s] = NoID] /\ LobbyTable' = [LobbyTable EXCEPT ![s] = -1]
  BY <1>3, <1>4
<1>6. RosterTable' = [rm \in People!AllRooms |->
                        IF People!InRoster(s, rm) THEN People!Without(RosterTable[rm], s)
                                                  ELSE RosterTable[rm]]
  BY PeopleOperators DEF RosterTable
<1> QED BY <1>1, <1>2, <1>5, <1>6 DEF People!Disconnect

(* The sessions with a user, one user each, leave out the free object u. *)
LEMMA ServerHasASeat ==
  ASSUME FinalInv, NEW u \in Users, \A t \in Sessions : sessionDic[t] # u
  PROVE  Cardinality({t \in Sessions : NameTable[t] # NoID}) < MaxClientCount
<1> DEFINE busy == {t \in Sessions : NameTable[t] # NoID}
           f == [t \in busy |-> sessionDic[t]]
<1>1. \A t \in busy : t \in Sessions /\ sessionDic[t] # None
  BY SessionKnown
<1>2. \A t \in busy : sessionDic[t] \in Users \ {u}
  BY <1>1 DEF FinalInv, StateTypeOK, PeopleTyped
<1>3. f \in Injection(busy, Users \ {u})
  <2>1. f \in [busy -> Users \ {u}]
    BY <1>2
  <2>2. \A t, v \in busy : f[t] = f[v] => t = v
    BY <1>1, OneSessionEach
  <2> HIDE DEF f, busy
  <2> QED BY <2>1, <2>2 DEF Injection, IsInjective
<1>4. IsFiniteSet(Users \ {u}) /\ Cardinality(Users \ {u}) = MaxClientCount - 1
  BY UsersAreFinite, FS_RemoveElement
<1> HIDE DEF f, busy
<1>5. IsFiniteSet(busy) /\ Cardinality(busy) <= MaxClientCount - 1
  BY <1>3, <1>4, FS_Injection
<1>6. Cardinality(busy) \in Nat
  BY <1>5, FS_CardinalityType
<1> QED BY <1>5, <1>6, ConfigAssumption DEF busy

(* The users of the sessions Presence has in a lobby are in its dictionary,  *)
(* which the entries left behind only make fuller.                           *)
LEMMA LobbyHasASeat ==
  ASSUME FinalInv, NEW l \in Lobbies, Cardinality(lobbyUsers[l]) < MaxLobbyUserCount
  PROVE  Cardinality({t \in Sessions : LobbyTable[t] = l}) < MaxLobbyUserCount
<1> DEFINE here == {t \in Sessions : LobbyTable[t] = l}
           f == [t \in here |-> sessionDic[t]]
<1>1. \A t \in here : /\ t \in Sessions /\ sessionDic[t] # None /\ lobbyOf[sessionDic[t]] = l
                      /\ domain[sessionDic[t]] = "LOBBY"
  BY SessionKnown, NoneIsNoIndex DEF None
<1>2. \A t \in here : sessionDic[t] \in lobbyUsers[l]
  BY <1>1 DEF FinalInv, StateTypeOK, PeopleTyped, PresentAreListed
<1>3. f \in Injection(here, lobbyUsers[l])
  <2>1. f \in [here -> lobbyUsers[l]]
    BY <1>2
  <2>2. \A t, v \in here : f[t] = f[v] => t = v
    BY <1>1, OneSessionEach
  <2> HIDE DEF f, here
  <2> QED BY <2>1, <2>2 DEF Injection, IsInjective
<1>4. IsFiniteSet(lobbyUsers[l]) /\ Cardinality(lobbyUsers[l]) \in Nat
  BY UsersAreFinite DEF FinalInv, StateTypeOK, PeopleTyped
<1> HIDE DEF f, here
<1>5. IsFiniteSet(here) /\ Cardinality(here) <= Cardinality(lobbyUsers[l])
  BY <1>3, <1>4, FS_Injection
<1>6. Cardinality(here) \in Nat
  BY <1>5, FS_CardinalityType
<1> QED BY <1>4, <1>5, <1>6, ConfigAssumption DEF here

(* A first login logs in; another one of the same session changes nothing   *)
(* Presence tells apart: the object it takes is owned by no session.        *)
LEMMA LogInIsLogIn ==
  ASSUME FinalInv, NEW s \in Sessions, NEW id \in UserIDs, LogsIn(s, id)
  PROVE  People!LogIn(s, id) \/ Stutters
<1>1. /\ connected[s]
      /\ \A t \in Sessions : sessionDic[t] # None => idOf[sessionDic[t]] # id
      /\ UNCHANGED <<lobbyOf, connected>>
  BY LogsInEffect
<1>2. PICK u \in Users :
        /\ \A t \in Sessions : sessionDic[t] # u
        /\ sessionDic' = IF sessionDic[s] = None THEN [sessionDic EXCEPT ![s] = u]
                                                 ELSE sessionDic
        /\ domain'    = [domain EXCEPT ![u] = "LOGIN"]
        /\ idOf'      = [idOf EXCEPT ![u] = id]
  BY LogsInEffect
<1>3. StateTypeOK /\ PeopleTyped /\ u # None
  BY NoneIsNoIndex DEF FinalInv, StateTypeOK
<1>4. UNCHANGED <<OnlineNow, RosterTable>>
  BY <1>1 DEF OnlineNow, RosterTable
<1>5. ASSUME NEW t \in Sessions, t # s \/ sessionDic[s] # None
      PROVE  NameTable'[t] = NameTable[t] /\ LobbyTable'[t] = LobbyTable[t]
  <2>1. sessionDic'[t] = sessionDic[t] /\ sessionDic[t] # u
    BY <1>2, <1>3, <1>5 DEF PeopleTyped
  <2>2. sessionDic[t] # None => sessionDic[t] \in Users
    BY <1>3 DEF PeopleTyped
  <2>3. sessionDic[t] # None => /\ idOf'[sessionDic[t]] = idOf[sessionDic[t]]
                                /\ domain'[sessionDic[t]] = domain[sessionDic[t]]
                                /\ lobbyOf'[sessionDic[t]] = lobbyOf[sessionDic[t]]
    BY <1>1, <1>2, <1>3, <2>1, <2>2 DEF StateTypeOK, PeopleTyped
  <2> QED BY <2>1, <2>3 DEF NameTable, LobbyTable, LoggedInAs, InLobby
<1>6. /\ NameTable' = [t \in Sessions |-> NameTable'[t]] /\ NameTable = [t \in Sessions |-> NameTable[t]]
      /\ LobbyTable' = [t \in Sessions |-> LobbyTable'[t]]
      /\ LobbyTable = [t \in Sessions |-> LobbyTable[t]]
  BY DEF NameTable, LobbyTable
<1>7. CASE sessionDic[s] # None
  <2>1. NameTable' = NameTable /\ LobbyTable' = LobbyTable
    BY <1>5, <1>6, <1>7
  <2> QED BY <1>4, <2>1 DEF Stutters
<1>8. CASE sessionDic[s] = None
  <2>1. sessionDic'[s] = u /\ idOf'[u] = id /\ domain'[u] = "LOGIN"
    BY <1>2, <1>3, <1>8 DEF StateTypeOK, PeopleTyped
  <2>2. NameTable'[s] = id /\ LobbyTable'[s] = -1
    BY <1>3, <2>1 DEF NameTable, LobbyTable, LoggedInAs, InLobby
  <2>3. NameTable[s] = NoID /\ LobbyTable[s] = -1
    BY <1>8, SessionKnown
  <2>4. NameTable' = [NameTable EXCEPT ![s] = id] /\ LobbyTable' = LobbyTable
    BY <1>5, <1>6, <2>2, <2>3
  <2>5. \A t \in Sessions : NameTable[t] # id
    BY <1>1, NoneIsNoIndex, SessionKnown
  <2>6. People!Cardinality({t \in Sessions : NameTable[t] # NoID}) < MaxClientCount
    BY <1>2, ServerHasASeat, PeopleOperators
  <2>7. s \in OnlineNow
    BY <1>1, SessionKnown
  <2> QED BY <1>4, <2>3, <2>4, <2>5, <2>6, <2>7 DEF People!LogIn
<1> QED BY <1>7, <1>8

(* A user who moves, and nobody else. *)
LEMMA OthersStay ==
  ASSUME FinalInv, NEW s \in Sessions, NEW u \in Users, u = sessionDic[s],
         UNCHANGED <<sessionDic, idOf, connected>>,
         \A v \in Users \ {u} : domain'[v] = domain[v] /\ lobbyOf'[v] = lobbyOf[v]
  PROVE  /\ UNCHANGED <<OnlineNow, NameTable, RosterTable>> /\ sessionDic[s] # None
         /\ LobbyTable' = [LobbyTable EXCEPT ![s] = IF domain'[u] = "LOBBY" THEN lobbyOf'[u] ELSE -1]
<1>1. UNCHANGED <<OnlineNow, NameTable, RosterTable>> /\ sessionDic[s] # None
  BY NoneIsNoIndex DEF OnlineNow, NameTable, RosterTable, LoggedInAs
<1>2. LobbyTable'[s] = IF domain'[u] = "LOBBY" THEN lobbyOf'[u] ELSE -1
  BY <1>1 DEF LobbyTable, InLobby
<1>3. ASSUME NEW t \in Sessions, t # s PROVE LobbyTable'[t] = LobbyTable[t]
  <2>1. sessionDic[t] # None => sessionDic[t] \in Users \ {u}
    BY <1>1, <1>3, OneSessionEach DEF FinalInv, StateTypeOK, PeopleTyped
  <2> QED BY <2>1 DEF LobbyTable, InLobby
<1>4. LobbyTable' = [t \in Sessions |-> LobbyTable'[t]] /\ LobbyTable = [t \in Sessions |-> LobbyTable[t]]
  BY DEF LobbyTable
<1> QED BY <1>1, <1>2, <1>3, <1>4

(* Entering a lobby is entering it ... *)
LEMMA EnterLobbyIsEnterLobby ==
  ASSUME FinalInv, NEW s \in Sessions, NEW u \in Users, NEW l \in Lobbies, EntersLobby(s, u, l)
  PROVE  People!EnterLobby(s, l)
<1>1. /\ u = sessionDic[s] /\ domain[u] = "LOGIN"
      /\ domain'  = [domain EXCEPT ![u] = "LOBBY"]
      /\ lobbyOf' = [lobbyOf EXCEPT ![u] = l]
      /\ UNCHANGED <<sessionDic, idOf, connected>>
  BY DEF EntersLobby, EnterUser, UserEnterLobby, poolVars
<1>2. StateTypeOK /\ PeopleTyped
  BY DEF FinalInv, StateTypeOK
<1>3. /\ domain'[u] = "LOBBY" /\ lobbyOf'[u] = l
      /\ \A v \in Users \ {u} : domain'[v] = domain[v] /\ lobbyOf'[v] = lobbyOf[v]
  BY <1>1, <1>2 DEF StateTypeOK
<1>4. /\ UNCHANGED <<OnlineNow, NameTable, RosterTable>> /\ sessionDic[s] # None
      /\ LobbyTable' = [LobbyTable EXCEPT ![s] = l]
  BY <1>1, <1>3, OthersStay
<1>5. NameTable[s] # NoID /\ LobbyTable[s] = -1
  BY <1>1, <1>4, SessionKnown
<1>6. Cardinality(lobbyUsers[l]) < MaxLobbyUserCount
  <2>1. Cardinality(lobbyUsers[l]) \in Nat
    BY <1>2, UsersAreFinite DEF PeopleTyped
  <2> QED BY <2>1, ConfigAssumption DEF EntersLobby, EnterUserError
<1>7. People!Cardinality({t \in Sessions : LobbyTable[t] = l}) < MaxLobbyUserCount
  BY <1>6, LobbyHasASeat, PeopleOperators
<1> QED BY <1>4, <1>5, <1>7 DEF People!EnterLobby

(* ... and leaving it is leaving it. *)
LEMMA LeaveLobbyIsLeaveLobby ==
  ASSUME FinalInv, NEW s \in Sessions, NEW u \in Users, NEW l \in Lobbies, LeavesLobby(s, u, l)
  PROVE  People!LeaveLobby(s)
<1>1. /\ u = sessionDic[s] /\ domain[u] = "LOBBY"
      /\ domain'  = [domain EXCEPT ![u] = "LOGIN"]
      /\ UNCHANGED <<sessionDic, idOf, connected, lobbyOf>>
  BY DEF LeavesLobby, UserLeaveLobby, poolVars, IsIn
<1>2. /\ domain'[u] = "LOGIN"
      /\ \A v \in Users \ {u} : domain'[v] = domain[v] /\ lobbyOf'[v] = lobbyOf[v]
  BY <1>1 DEF FinalInv, StateTypeOK
<1>3. /\ UNCHANGED <<OnlineNow, NameTable, RosterTable>> /\ sessionDic[s] # None
      /\ LobbyTable' = [LobbyTable EXCEPT ![s] = -1]
  BY <1>1, <1>2, OthersStay
<1>4. LobbyTable[s] # -1
  BY <1>1, <1>3, SessionKnown
<1>5. ~People!InSomeRoom(s)
  BY PeopleOperators DEF People!InSomeRoom
<1> QED BY <1>3, <1>4, <1>5 DEF People!LeaveLobby

(* Final starts as Presence starts. *)
LEMMA InitIsInit ==
  ASSUME Init
  PROVE  People!PInit
<1>1. /\ connected  = [s \in Sessions |-> FALSE]
      /\ sessionDic = [s \in Sessions |-> None]
  BY DEF Init, UserInit
<1>2. OnlineNow = {}
  BY <1>1 DEF OnlineNow
<1>3. NameTable = [s \in Sessions |-> NoID] /\ LobbyTable = [s \in Sessions |-> -1]
  BY <1>1 DEF NameTable, LobbyTable, LoggedInAs, InLobby
<1> QED BY <1>2, <1>3, PeopleOperators DEF People!PInit, RosterTable

(* Final implements Presence, without rooms: ImplementsPresence. *)
THEOREM FinalIsPresence == Spec => ImplementsPresence
<1>1. Init => People!PInit
  BY InitIsInit
<1>2. ASSUME FinalInv, [Next]_vars PROVE [People!PNext]_(People!pvars)
  <2>1. CASE Rests
    BY <2>1, RestIsStutter DEF Rests, userVars, Stutters, People!pvars
  <2>2. ASSUME NEW s \in Sessions, Moves(s) PROVE People!PNext \/ Stutters
    <3>1. CASE Rests
      BY <3>1, RestIsStutter DEF Rests, userVars
    <3>2. CASE Connects(s)
      BY <1>2, <3>2, ConnectIsConnect DEF People!PNext
    <3>3. CASE Vanishes(s) \/ \E u \in Users : Closes(s, u)
      BY <1>2, <3>3, CloseIsDisconnect DEF People!PNext
    <3>4. CASE \E id \in UserIDs : LogsIn(s, id)
      BY <1>2, <3>4, LogInIsLogIn DEF People!PNext
    <3>5. CASE \E u \in Users, l \in Lobbies : EntersLobby(s, u, l) \/ LeavesLobby(s, u, l)
      BY <1>2, <3>5, EnterLobbyIsEnterLobby, LeaveLobbyIsLeaveLobby DEF People!PNext
    <3> QED BY <2>2, <3>1, <3>2, <3>3, <3>4, <3>5 DEF Moves
  <2> QED BY <1>2, <2>1, <2>2, StepMoves DEF Stutters, People!pvars
<1> QED BY <1>1, <1>2, FinalInvariant, PTL DEF Spec, ImplementsPresence, People!PSpec

-----------------------------------------------------------------------------
(* What Final hands to SendData are messages *)

(* Every check of a request answers with an ErrorCode. *)
LEMMA ErrorsAreCodes ==
  ASSUME NEW s \in Sessions
  PROVE  /\ "NONE" \in ErrorCodes
         /\ \A id : AddUserError(id) \in ErrorCodes /\ WisperError(s, id) \in ErrorCodes
         /\ \A l : LobbyEnterError(s, l) \in ErrorCodes
         /\ \A wanted : \A e \in ErrorCodes : UserError(s, wanted, e) \in ErrorCodes
         /\ \A e1, e2 \in ErrorCodes : InLobbyError(s, e1, e2) \in ErrorCodes
         /\ LobbyLeaveError(s) \in ErrorCodes
<1>1. /\ "NONE" \in ErrorCodes /\ GetUserError(s) \in ErrorCodes
      /\ \A id : AddUserError(id) \in ErrorCodes
      /\ \A l, u : /\ EnterUserError(l, u) \in ErrorCodes
                   /\ LeaveUserError(l, u) \in ErrorCodes
  BY DEF ErrorCodes, GetUserError, AddUserError, EnterUserError, LeaveUserError
<1>2. \A wanted : \A e \in ErrorCodes : UserError(s, wanted, e) \in ErrorCodes
  BY <1>1 DEF UserError
<1>3. \A e1, e2 \in ErrorCodes : InLobbyError(s, e1, e2) \in ErrorCodes
  BY <1>1, <1>2 DEF InLobbyError
<1>4. /\ "LOBBY_ENTER_INVALID_DOMAIN" \in ErrorCodes
      /\ "LOBBY_ENTER_INVALID_LOBBY_INDEX" \in ErrorCodes
      /\ "LOBBY_LEAVE_INVALID_DOMAIN" \in ErrorCodes
      /\ "LOBBY_LEAVE_INVALID_LOBBY_INDEX" \in ErrorCodes
      /\ "LOBBY_WHISPER_CHAT_INVALID_SEND_USER" \in ErrorCodes
      /\ "LOBBY_WHISPER_USER_DIFFERENT_DOMAIN" \in ErrorCodes
      /\ "LOBBY_CHAT_INVALID_DOMAIN" \in ErrorCodes
      /\ "LOBBY_CHAT_INVALID_LOBBY_INDEX" \in ErrorCodes
  BY DEF ErrorCodes
<1>5. \A l : LobbyEnterError(s, l) \in ErrorCodes
  BY <1>1, <1>2, <1>4 DEF LobbyEnterError
<1>6. LobbyLeaveError(s) \in ErrorCodes
  BY <1>1, <1>3, <1>4 DEF LobbyLeaveError
<1>7. \A id : WisperError(s, id) \in ErrorCodes
  BY <1>1, <1>3, <1>4 DEF WisperError
<1> QED BY <1>1, <1>2, <1>3, <1>5, <1>6, <1>7

(* A refusal is one message. *)
LEMMA RefusalTyped ==
  ASSUME NEW s \in Sessions, NEW pkt \in PacketIDs, NEW err \in ErrorCodes, Refuse(s, pkt, err)
  PROVE  sent' \in Seq(Message)
<1>1. Reply(s, pkt, err) \in Message /\ sent' = <<Reply(s, pkt, err)>>
  BY ReplyIsMessage DEF Refuse, Answer
<1> QED BY <1>1, MessagesInARow

(* What a handler that only reads and sends hands to SendData. *)
LEMMA ReadingTyped ==
  ASSUME FinalInv, NEW s \in Sessions,
         \/ LobbyList(s) \/ LobbyRoomList(s) \/ LOBBYChat(s)
         \/ \E start \in StartIndexes : LobbyUserList(s, start)
         \/ \E id \in UserIDs : LOBBYWisperChat(s, id)
  PROVE  sent' \in Seq(Message)
<1> DEFINE u == sessionDic[s]
<1>t. PeopleTyped
  BY DEF FinalInv, StateTypeOK
<1>e. \A e1, e2 : InLobbyError(s, e1, e2) = "NONE" /\ e1 # "NONE" /\ e2 # "NONE" =>
        u \in Users /\ lobbyOf[u] \in Lobbies
  BY <1>t, CheckedUsersAreIn DEF PeopleTyped
<1>c. /\ {"LOBBY_LIST_INVALID_DOMAIN", "LOBBY_ROOM_LIST_INVALID_DOMAIN",
         "LOBBY_ROOM_LIST_INVALID_LOBBY_INDEX", "LOBBY_CHAT_INVALID_DOMAIN",
         "LOBBY_CHAT_INVALID_LOBBY_INDEX", "LOBBY_USER_LIST_INVALID_DOMAIN",
         "LOBBY_USER_LIST_INVALID_LOBBY_INDEX"} \subseteq ErrorCodes
      /\ {"LOBBY_LIST_RES", "LOBBY_ENTER_ROOM_LIST_RES", "LOBBY_CHAT_RES",
          "LOBBY_ENTER_USER_LIST_RES", "LOBBY_WHISPER_CHAT_RES"} \subseteq PacketIDs
  BY DEF ErrorCodes, PacketIDs
<1>1. ASSUME LobbyList(s) PROVE sent' \in Seq(Message)
  <2>1. CASE Refuse(s, "LOBBY_LIST_RES", UserError(s, "LOGIN", "LOBBY_LIST_INVALID_DOMAIN"))
    BY <1>c, <2>1, ErrorsAreCodes, RefusalTyped
  <2>2. CASE Answer(<<LobbyListInfo(s)>>)
    BY <1>t, <2>2, LobbyListsAreMessages, MessagesInARow DEF Answer
  <2> QED BY <1>1, <2>1, <2>2 DEF LobbyList
<1>2. ASSUME LobbyRoomList(s) PROVE sent' \in Seq(Message)
  <2> DEFINE err == InLobbyError(s, "LOBBY_ROOM_LIST_INVALID_DOMAIN",
                                 "LOBBY_ROOM_LIST_INVALID_LOBBY_INDEX")
  <2>1. CASE Refuse(s, "LOBBY_ENTER_ROOM_LIST_RES", err)
    BY <1>c, <2>1, ErrorsAreCodes, RefusalTyped
  <2>2. CASE Answer(<<>>)
    BY <2>2 DEF Answer
  <2> QED BY <1>2, <2>1, <2>2 DEF LobbyRoomList
<1>3. ASSUME LOBBYChat(s) PROVE sent' \in Seq(Message)
  <2> DEFINE err == InLobbyError(s, "LOBBY_CHAT_INVALID_DOMAIN", "LOBBY_CHAT_INVALID_LOBBY_INDEX")
             note == NotifyChat(lobbyOf[u], sessionOf[u], idOf[u])
             answer == Reply(s, "LOBBY_CHAT_RES", "NONE")
  <2>1. CASE Refuse(s, "LOBBY_CHAT_RES", err)
    BY <1>c, <2>1, ErrorsAreCodes, RefusalTyped
  <2>2. CASE err = "NONE" /\ Answer(<<note, answer>>)
    <3>1. u \in Users /\ lobbyOf[u] \in Lobbies
      BY <1>e, <2>2
    <3>2. note \in Message /\ answer \in Message
      BY <1>t, <1>c, <3>1, ChatIsMessage, ReplyIsMessage, ErrorsAreCodes
    <3> QED BY <2>2, <3>2, MessagesInARow DEF Answer
  <2> QED BY <1>3, <2>1, <2>2 DEF LOBBYChat
<1>4. ASSUME NEW start \in StartIndexes, LobbyUserList(s, start) PROVE sent' \in Seq(Message)
  <2> DEFINE err == InLobbyError(s, "LOBBY_USER_LIST_INVALID_DOMAIN",
                                 "LOBBY_USER_LIST_INVALID_LOBBY_INDEX")
  <2>1. CASE Refuse(s, "LOBBY_ENTER_USER_LIST_RES", err)
    BY <1>c, <2>1, ErrorsAreCodes, RefusalTyped
  <2>2. CASE err = "NONE" /\ Answer(SendUserList(s, lobbyOf[u], start))
    <3>1. lobbyOf[u] \in Lobbies
      BY <1>e, <2>2
    <3> QED BY <1>t, <2>2, <3>1, LobbyListsAreMessages DEF Answer
  <2> QED BY <1>4, <2>1, <2>2 DEF LobbyUserList
<1>5. ASSUME NEW id \in UserIDs, LOBBYWisperChat(s, id) PROVE sent' \in Seq(Message)
  <2> DEFINE note == NotifyWisperChat(FindUserByID(id), idOf[u])
             answer == Reply(s, "LOBBY_WHISPER_CHAT_RES", "NONE")
  <2>1. CASE Refuse(s, "LOBBY_WHISPER_CHAT_RES", WisperError(s, id))
    BY <1>c, <2>1, ErrorsAreCodes, RefusalTyped
  <2>2. CASE WisperError(s, id) = "NONE" /\ Answer(<<note, answer>>)
    <3>1. /\ FindUserByID(id) # None
          /\ InLobbyError(s, "LOBBY_CHAT_INVALID_DOMAIN", "LOBBY_CHAT_INVALID_LOBBY_INDEX") = "NONE"
      BY <2>2 DEF WisperError
    <3>2. u \in Users /\ lobbyOf[u] \in Lobbies /\ FindUserByID(id) \in Users
      BY <1>e, <3>1, FoundIsUser
    <3>3. note \in Message /\ answer \in Message
      BY <1>t, <1>c, <3>2, ChatIsMessage, ReplyIsMessage, ErrorsAreCodes
    <3> QED BY <2>2, <3>3, MessagesInARow DEF Answer
  <2> QED BY <1>5, <2>1, <2>2 DEF LOBBYWisperChat
<1> QED BY <1>1, <1>2, <1>3, <1>4, <1>5

(* Every step hands messages to SendData. *)
LEMMA StepTyped ==
  ASSUME FinalInv, FinalInv', Next
  PROVE  sent' \in Seq(Message)
<1>c. {"LOGIN_IN_RES", "LOBBY_ENTER_RES", "LOBBY_LEAVE_RES"} \subseteq PacketIDs
  BY DEF PacketIDs
<1>1. CASE sent' = <<>>
  BY <1>1
<1>2. ASSUME NEW s \in Sessions, NEW id \in UserIDs, Login(s, id) PROVE sent' \in Seq(Message)
  <2>1. CASE Refuse(s, "LOGIN_IN_RES", AddUserError(id))
    BY <1>c, <2>1, ErrorsAreCodes, RefusalTyped
  <2>2. CASE sent' = <<Reply(s, "LOGIN_IN_RES", "NONE")>>
    BY <1>c, <2>2, ErrorsAreCodes, ReplyIsMessage, MessagesInARow
  <2> QED BY <1>2, <2>1, <2>2 DEF Login
<1>3. ASSUME NEW s \in Sessions, NEW l, LobbyEnter(s, l) PROVE sent' \in Seq(Message)
  <2>1. CASE Refuse(s, "LOBBY_ENTER_RES", LobbyEnterError(s, l))
    BY <1>c, <2>1, ErrorsAreCodes, RefusalTyped
  <2>2. ASSUME NEW u \in Users, LobbyEnterError(s, l) = "NONE",
               sent' = <<NotifyLobbyEnterUserInfo(l, u)', Reply(s, "LOBBY_ENTER_RES", "NONE")>>
        PROVE  sent' \in Seq(Message)
    <3>1. l \in Lobbies
      BY <2>2 DEF LobbyEnterError
    <3>2. PeopleTyped'
      BY DEF FinalInv, StateTypeOK
    <3>3. /\ NotifyLobbyEnterUserInfo(l, u)' \in Message
          /\ Reply(s, "LOBBY_ENTER_RES", "NONE") \in Message
      BY <1>c, <3>1, <3>2, LobbyNewsIsMessage, ErrorsAreCodes, ReplyIsMessage
    <3> QED BY <2>2, <3>3, MessagesInARow
  <2> QED BY <1>3, <2>1, <2>2 DEF LobbyEnter
<1>4. ASSUME NEW s \in Sessions, LobbyLeave(s) PROVE sent' \in Seq(Message)
  <2>1. CASE Refuse(s, "LOBBY_LEAVE_RES", LobbyLeaveError(s))
    BY <1>c, <2>1, ErrorsAreCodes, RefusalTyped
  <2>2. ASSUME NEW u \in Users, NEW l \in Lobbies,
               sent' = <<NotifyLobbyLeaveUserInfo(l, u)', Reply(s, "LOBBY_LEAVE_RES", "NONE")>>
        PROVE  sent' \in Seq(Message)
    <3>1. PeopleTyped'
      BY DEF FinalInv, StateTypeOK
    <3>2. /\ NotifyLobbyLeaveUserInfo(l, u)' \in Message
          /\ Reply(s, "LOBBY_LEAVE_RES", "NONE") \in Message
      BY <1>c, <3>1, LobbyNewsIsMessage, ErrorsAreCodes, ReplyIsMessage
    <3> QED BY <2>2, <3>2, MessagesInARow
  <2> QED BY <1>4, <2>1, <2>2 DEF LobbyLeave
<1> QED BY <1>1, <1>2, <1>3, <1>4, ReadingTyped
        DEF Next, Request, NtfSysConnctSession, NtfSysCloseSession

SentTyped == sent \in Seq(Message)

(* The variables of Final stay in their types, and what it sends are        *)
(* messages: TypeOK.                                                        *)
THEOREM FinalTypesCorrect == Spec => []TypeOK
<1>1. Init => SentTyped
  BY DEF Init, SentTyped
<1>2. FinalInv /\ FinalInv' /\ SentTyped /\ [Next]_vars => SentTyped'
  BY StepTyped DEF vars, SentTyped
<1>3. FinalInv /\ SentTyped => TypeOK
  BY DEF FinalInv, StateTypeOK, PeopleTyped, TypeOK, SentTyped
<1> QED BY <1>1, <1>2, <1>3, FinalInvariant, PTL DEF Spec
=============================================================================
