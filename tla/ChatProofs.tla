------------------------------ MODULE ChatProofs -----------------------------
(***************************************************************************)
(* The user pool, the session entries and the lobby dictionaries agree in  *)
(* every state the server reaches, for every configuration: ServerInv is   *)
(* inductive, one lemma per handler that changes the state.  The stale     *)
(* indices, the leaked objects and the seats that are never freed are all  *)
(* part of the model; none of them breaks ServerInv.                       *)
(***************************************************************************)
EXTENDS ChatProperties, LogicLemmas

(* TypeOK but for "sent". *)
StateTypeOK == UserTypeOK /\ LobbyTypeOK /\ RoomTypeOK /\ ConnTypeOK

(* The inductive invariant: UserPoolConsistent needs that a closing session's *)
(* object is in use (SessionsOwnUsers), and LobbyMembership that a lobby's    *)
(* user is reached from its session and that nobody has a Cleared object.     *)
ServerInv == StateTypeOK /\ UserPoolConsistent /\ SessionsOwnUsers /\ LobbyMembership

(* The object at the front of the pool is Cleared, and no session owns it. *)
LEMMA HeadIsFree ==
  ASSUME ServerInv, freeUsers # <<>>
  PROVE  /\ Head(freeUsers) \in Users
         /\ domain[Head(freeUsers)] = "NONE"
         /\ Head(freeUsers) = freeUsers[1] /\ 1 \in DOMAIN freeUsers
         /\ Tail(freeUsers) \in Seq(Users)
         /\ Len(Tail(freeUsers)) = Len(freeUsers) - 1
         /\ \A i \in 1..(Len(freeUsers) - 1) : Tail(freeUsers)[i] = freeUsers[i + 1]
<1>1. freeUsers \in Seq(Users)
  BY DEF ServerInv, StateTypeOK, UserTypeOK
<1>2. /\ Head(freeUsers) \in Users
      /\ Head(freeUsers) = freeUsers[1] /\ 1 \in DOMAIN freeUsers
  BY <1>1
<1>3. domain[Head(freeUsers)] = "NONE"
  BY <1>2 DEF ServerInv, UserPoolConsistent
<1>4. /\ Tail(freeUsers) \in Seq(Users)
      /\ Len(Tail(freeUsers)) = Len(freeUsers) - 1
      /\ \A i \in 1..(Len(freeUsers) - 1) : Tail(freeUsers)[i] = freeUsers[i + 1]
  BY <1>1, HeadTailProperties
<1> QED BY <1>2, <1>3, <1>4

(* Login, also when the session has logged in before: the object taken is *)
(* Cleared, and the insert keeps the entry the session has.                 *)
LEMMA AddUserKeepsInv ==
  ASSUME ServerInv, NEW s \in Sessions, NEW id \in UserIDs, connected[s],
         AddUserError(id) = "NONE", AddUser(s, id),
         loginOK' = [loginOK EXCEPT ![s] = TRUE],
         UNCHANGED <<lobbyVars, roomVars, connected>>
  PROVE  ServerInv'
<1> DEFINE u == Head(freeUsers)
<1>0. /\ freeUsers # <<>>
      /\ \A t \in Sessions : sessionDic[t] # None => idOf[sessionDic[t]] # id
  BY NameIsFree DEF ServerInv, StateTypeOK, UserTypeOK
<1>1. /\ u \in Users /\ domain[u] = "NONE" /\ u = freeUsers[1]
      /\ Tail(freeUsers) \in Seq(Users)
      /\ Len(Tail(freeUsers)) = Len(freeUsers) - 1
      /\ \A i \in 1..(Len(freeUsers) - 1) : Tail(freeUsers)[i] = freeUsers[i + 1]
  BY <1>0, HeadIsFree
<1> HIDE DEF u
<1>2. /\ freeUsers' = Tail(freeUsers)
      /\ domain' = [domain EXCEPT ![u] = "LOGIN"]
      /\ sessionOf' = [sessionOf EXCEPT ![u] = s]
      /\ idOf' = [idOf EXCEPT ![u] = id]
      /\ sessionDic' = IF sessionDic[s] = None
                       THEN [sessionDic EXCEPT ![s] = u] ELSE sessionDic
      /\ UNCHANGED <<lobbyOf, roomOf>>
  BY DEF AddUser, AllocUserObjPoolIndex, SetUser, u
<1>3. UNCHANGED <<slots, lobbyUsers, used, members, game, createdRooms, connected>>
  BY DEF lobbyVars, roomVars
<1>t. StateTypeOK
  BY DEF ServerInv
<1>4. StateTypeOK'
  <2>1. UserTypeOK'
    BY <1>t, <1>1, <1>2 DEF StateTypeOK, UserTypeOK, Domains
  <2>2. LobbyTypeOK' /\ RoomTypeOK'
    BY <1>t, <1>3 DEF StateTypeOK, LobbyTypeOK, RoomTypeOK
  <2>3. ConnTypeOK'
    BY <1>t, <1>3 DEF StateTypeOK, ConnTypeOK
  <2> QED BY <2>1, <2>2, <2>3 DEF StateTypeOK
<1>5. UserPoolConsistent'
  <2>1. freeUsers \in Seq(Users) /\ domain \in [Users -> Domains] /\ UserPoolConsistent
    BY <1>t DEF StateTypeOK, UserTypeOK, ServerInv
  <2>2. DOMAIN freeUsers' = 1..(Len(freeUsers) - 1) /\ DOMAIN freeUsers = 1..Len(freeUsers)
    BY <1>1, <1>2, <2>1
  <2>3. \A i, j \in DOMAIN freeUsers' : freeUsers'[i] = freeUsers'[j] => i = j
    BY <1>1, <1>2, <2>1, <2>2 DEF UserPoolConsistent
  <2>4. ASSUME NEW v \in Users
        PROVE  (\E i \in DOMAIN freeUsers' : freeUsers'[i] = v) <=> domain'[v] = "NONE"
    <3>1. CASE v = u
      <4>1. domain'[v] # "NONE"
        BY <3>1, <1>2, <2>1
      <4>2. \A i \in DOMAIN freeUsers' : freeUsers'[i] # v
        BY <3>1, <1>1, <1>2, <2>1, <2>2 DEF UserPoolConsistent
      <4> QED BY <4>1, <4>2
    <3>2. CASE v # u
      <4>1. domain'[v] = domain[v]
        BY <3>2, <1>2, <2>1
      <4>2. \A i \in DOMAIN freeUsers : freeUsers[i] = v => i - 1 \in DOMAIN freeUsers' /\ freeUsers'[i - 1] = v
        BY <3>2, <1>1, <1>2, <2>1, <2>2
      <4>3. \A i \in DOMAIN freeUsers' : freeUsers'[i] = v => i + 1 \in DOMAIN freeUsers /\ freeUsers[i + 1] = v
        BY <1>1, <1>2, <2>1, <2>2
      <4> QED BY <4>1, <4>2, <4>3, <2>1 DEF UserPoolConsistent
    <3> QED BY <3>1, <3>2
  <2> QED BY <2>3, <2>4 DEF UserPoolConsistent
<1>6. \A t \in Sessions : sessionDic[t] # u
  BY <1>1, <1>t, NoneIsNoIndex DEF ServerInv, SessionsOwnUsers
<1>7. SessionsOwnUsers'
  BY <1>0, <1>1, <1>2, <1>3, <1>6, <1>t, NoneIsNoIndex
  DEF ServerInv, SessionsOwnUsers, StateTypeOK, UserTypeOK, ConnTypeOK
<1>8. LobbyMembership'
  BY <1>1, <1>2, <1>3, <1>6, <1>t, NoneIsNoIndex
  DEF ServerInv, LobbyMembership, StateTypeOK, UserTypeOK, LobbyTypeOK
<1> QED BY <1>4, <1>5, <1>7, <1>8 DEF ServerInv

(* What Room::LeaveUser leaves of the member list. *)
LEMMA RemainingMembersProperties ==
  ASSUME RoomTypeOK, NEW rm \in Rooms, NEW u \in Users, IsMember(rm, u)
  PROVE  /\ RemainingMembers(rm, u) \in Seq(Users)
         /\ Len(RemainingMembers(rm, u)) = Len(members[rm]) - 1
         /\ \E k \in 1..Len(members[rm]) :
              /\ members[rm][k] = u
              /\ \A i \in 1..(Len(members[rm]) - 1) :
                   RemainingMembers(rm, u)[i] = IF i < k THEN members[rm][i]
                                                ELSE members[rm][i + 1]
<1> DEFINE q == members[rm]
           at == {i \in DOMAIN q : q[i] = u}
           k == Min(at)
<1>1. q \in Seq(Users)
  BY DEF RoomTypeOK
<1>2. at \in SUBSET Nat /\ at # {}
  BY <1>1 DEF IsMember
<1>3. k \in at
  BY <1>2, MinOfNaturals
<1>4. k \in 1..Len(q) /\ q[k] = u
  BY <1>1, <1>3
<1>5. RemainingMembers(rm, u) = RemoveAt(q, k)
  BY DEF RemainingMembers
<1> HIDE DEF q, at, k
<1>6. /\ RemoveAt(q, k) \in Seq(Users)
      /\ Len(RemoveAt(q, k)) = Len(q) - 1
      /\ \A i \in 1..(Len(q) - 1) : RemoveAt(q, k)[i] = IF i < k THEN q[i] ELSE q[i + 1]
  BY <1>1, <1>4, RemoveAtProperties
<1> QED BY <1>4, <1>5, <1>6 DEF q

(* A request that GetUser lets through comes from the owner of its object. *)
LEMMA OwnerOfSession ==
  ASSUME ServerInv, NEW s \in Sessions, GetUserError(s) = "NONE"
  PROVE  /\ sessionDic[s] \in Users /\ sessionDic[s] # None
         /\ domain[sessionDic[s]] # "NONE"
         /\ sessionOf[sessionDic[s]] = s
         /\ connected[s]
  BY NoneIsNoIndex
  DEF GetUserError, ServerInv, SessionsOwnUsers, StateTypeOK, UserTypeOK

(* Room::LeaveUser, and the Clear of the last one's, in one. *)
LEMMA RoomLeaveUserEffect ==
  ASSUME RoomTypeOK, NEW rm \in Rooms, NEW u, used[rm], RoomLeaveUser(rm, u)
  PROVE  /\ members' = [members EXCEPT ![rm] = RemainingMembers(rm, u)]
         /\ used' = [used EXCEPT ![rm] = RemainingMembers(rm, u) # <<>>]
         /\ UNCHANGED <<game, createdRooms>>
<1> DEFINE p == RemainingMembers(rm, u)
<1>1. CASE p = <<>>
  BY <1>1 DEF RoomLeaveUser, ClearRoom, RoomTypeOK
<1>2. CASE p # <<>>
  BY <1>2 DEF RoomLeaveUser, RoomTypeOK
<1> QED BY <1>1, <1>2

(* Room::LeaveUser keeps the types of the rooms. *)
LEMMA RoomLeaveUserType ==
  ASSUME RoomTypeOK, NEW rm \in Rooms, NEW u \in Users,
         RoomLeaveUserError(rm, u) = "NONE", RoomLeaveUser(rm, u)
  PROVE  RoomTypeOK'
<1>1. IsMember(rm, u) /\ used[rm]
  BY DEF RoomLeaveUserError
<1>2. RemainingMembers(rm, u) \in Seq(Users)
  BY <1>1, RemainingMembersProperties
<1>3. /\ members' = [members EXCEPT ![rm] = RemainingMembers(rm, u)]
      /\ used' = [used EXCEPT ![rm] = RemainingMembers(rm, u) # <<>>]
      /\ UNCHANGED <<game, createdRooms>>
  BY <1>1, RoomLeaveUserEffect
<1>4. used' \in [Rooms -> BOOLEAN]
  BY <1>3 DEF RoomTypeOK
<1> QED
  BY <1>2, <1>3, <1>4 DEF RoomTypeOK

(* NtfSysCloseSession of a session with a user: the object goes back to the *)
(* pool, and the lobby its index points to forgets it.                      *)
LEMMA CloseUserKeepsInv ==
  ASSUME ServerInv, NEW s \in Sessions, GetUserError(s) = "NONE",
         NEW u \in Users, NEW l \in Lobbies \cup {None}, NEW r \in RoomNos \cup {None},
         IsAt(s, u, l, r), CloseUser(s, u, l, r),
         connected' = [connected EXCEPT ![s] = FALSE],
         loginOK' = [loginOK EXCEPT ![s] = FALSE]
  PROVE  ServerInv'
<1>0. /\ u = sessionDic[s] /\ l = lobbyOf[u] /\ sessionOf[u] = s /\ domain[u] # "NONE"
      /\ connected[s]
  BY OwnerOfSession DEF IsAt
<1>1. /\ freeUsers' = Append(freeUsers, u)
      /\ sessionDic' = [sessionDic EXCEPT ![s] = None]
      /\ domain' = [domain EXCEPT ![u] = "NONE"]
      /\ sessionOf' = [sessionOf EXCEPT ![u] = 0]
      /\ idOf' = [idOf EXCEPT ![u] = NoID]
      /\ lobbyOf' = [lobbyOf EXCEPT ![u] = None]
      /\ roomOf' = [roomOf EXCEPT ![u] = None]
  BY DEF CloseUser, RemoveUser, ReleaseUserObjPoolIndex, ClearUser
<1>2. /\ slots' = slots
      /\ lobbyUsers' = IF l \in Lobbies THEN [lobbyUsers EXCEPT ![l] = @ \ {u}] ELSE lobbyUsers
  BY DEF CloseUser, LeaveUser, RemoveUserFromSlot, lobbyVars
<1>t. StateTypeOK
  BY DEF ServerInv
<1>3. RoomTypeOK'
  <2>1. CASE /\ l \in Lobbies /\ r \in RoomNos
             /\ RoomLeaveUserError(<<l, r>>, u) = "NONE"
    <3>1. <<l, r>> \in Rooms
      BY <2>1 DEF Rooms
    <3>2. RoomLeaveUser(<<l, r>>, u)
      BY <2>1 DEF CloseUser
    <3> QED BY <2>1, <3>1, <3>2, <1>t, RoomLeaveUserType DEF StateTypeOK
  <2>2. CASE ~ /\ l \in Lobbies /\ r \in RoomNos
               /\ RoomLeaveUserError(<<l, r>>, u) = "NONE"
    <3>1. UNCHANGED roomVars
      BY <2>2 DEF CloseUser
    <3> QED BY <3>1, <1>t DEF StateTypeOK, RoomTypeOK, roomVars
  <2> QED BY <2>1, <2>2
<1>4. StateTypeOK'
  <2>0. 0 \in Sessions
    BY ConfigAssumption DEF Sessions
  <2>1. UserTypeOK'
    BY <1>t, <1>1, <2>0 DEF StateTypeOK, UserTypeOK, Domains
  <2>2. LobbyTypeOK'
    BY <1>t, <1>2 DEF StateTypeOK, LobbyTypeOK
  <2>3. ConnTypeOK'
    BY <1>t DEF StateTypeOK, ConnTypeOK
  <2> QED BY <1>3, <2>1, <2>2, <2>3 DEF StateTypeOK
<1>5. UserPoolConsistent'
  <2>1. freeUsers \in Seq(Users) /\ domain \in [Users -> Domains] /\ UserPoolConsistent
    BY <1>t DEF StateTypeOK, UserTypeOK, ServerInv
  <2>2. /\ DOMAIN freeUsers' = 1..(Len(freeUsers) + 1) /\ DOMAIN freeUsers = 1..Len(freeUsers)
        /\ Len(freeUsers) \in Nat
        /\ freeUsers'[Len(freeUsers) + 1] = u
        /\ \A i \in DOMAIN freeUsers : freeUsers'[i] = freeUsers[i]
    BY <1>1, <2>1
  <2>3. \A i \in DOMAIN freeUsers : freeUsers[i] # u
    BY <1>0, <2>1 DEF UserPoolConsistent
  <2>4. \A i, j \in DOMAIN freeUsers' : freeUsers'[i] = freeUsers'[j] => i = j
    BY <2>1, <2>2, <2>3 DEF UserPoolConsistent
  <2>5. ASSUME NEW v \in Users
        PROVE  (\E i \in DOMAIN freeUsers' : freeUsers'[i] = v) <=> domain'[v] = "NONE"
    <3>1. CASE v = u
      <4>1. domain'[v] = "NONE"
        BY <3>1, <1>1, <2>1
      <4>2. Len(freeUsers) + 1 \in DOMAIN freeUsers'
        BY <2>2
      <4>3. freeUsers'[Len(freeUsers) + 1] = v
        BY <3>1, <2>2
      <4> QED BY <4>1, <4>2, <4>3
    <3>2. CASE v # u
      <4>1. domain'[v] = domain[v]
        BY <3>2, <1>1, <2>1
      <4>2. \A i \in DOMAIN freeUsers' : freeUsers'[i] = v => i \in DOMAIN freeUsers
        BY <3>2, <2>2
      <4> QED BY <4>1, <4>2, <2>1, <2>2 DEF UserPoolConsistent
    <3> QED BY <3>1, <3>2
  <2> QED BY <2>4, <2>5 DEF UserPoolConsistent
<1>6. \A t \in Sessions : t # s => sessionDic[t] # u
  BY <1>0, <1>t, NoneIsNoIndex DEF ServerInv, SessionsOwnUsers
<1>7. SessionsOwnUsers'
  BY <1>0, <1>1, <1>6, <1>t, NoneIsNoIndex
  DEF ServerInv, SessionsOwnUsers, StateTypeOK, UserTypeOK, ConnTypeOK
<1>8. LobbyMembership'
  BY <1>0, <1>1, <1>2, <1>6, <1>t, NoneIsNoIndex
  DEF ServerInv, LobbyMembership, StateTypeOK, UserTypeOK, LobbyTypeOK
<1> QED BY <1>4, <1>5, <1>7, <1>8 DEF ServerInv

(* A user object that stays in use disturbs neither pool nor sessions.     *)
LEMMA MovingKeepsOwners ==
  ASSUME ServerInv, NEW u \in Users, NEW d \in Domains, domain[u] # "NONE", d # "NONE",
         domain' = [domain EXCEPT ![u] = d], UNCHANGED <<poolVars, connVars>>
  PROVE  UserPoolConsistent' /\ SessionsOwnUsers'
<1>1. domain \in [Users -> Domains] /\ sessionDic \in [Sessions -> Users \cup {None}]
  BY DEF ServerInv, StateTypeOK, UserTypeOK
<1>2. UNCHANGED <<freeUsers, sessionDic, sessionOf, idOf, connected, loginOK>>
  BY DEF poolVars, connVars
<1>3. \A v \in Users : domain'[v] = "NONE" <=> domain[v] = "NONE"
  BY <1>1
<1>4. UserPoolConsistent'
  BY <1>2, <1>3 DEF ServerInv, UserPoolConsistent
<1>5. SessionsOwnUsers'
  BY <1>1, <1>2, <1>3, NoneIsNoIndex DEF ServerInv, SessionsOwnUsers
<1> QED BY <1>4, <1>5

(* LobbyEnter: the user was in no lobby's dictionary. *)
LEMMA LobbyEnterKeepsInv ==
  ASSUME ServerInv, NEW s \in Sessions, NEW l, LobbyEnterError(s, l) = "NONE",
         UNCHANGED <<poolVars, roomVars, connVars>>,
         NEW u \in Users, u = sessionDic[s], EnterUser(l, u)
  PROVE  ServerInv'
<1>1. /\ GetUserError(s) = "NONE" /\ domain[u] = "LOGIN"
      /\ l \in Lobbies /\ FreeSlots(l) # {}
  BY DEF LobbyEnterError, DomainError, IsCurDomainIn, EnterUserError, HasUser
<1>2. sessionOf[u] = s
  BY <1>1, OwnerOfSession
<1>3. /\ slots' = [slots EXCEPT ![l] = [@ EXCEPT ![Min(FreeSlots(l))] = u]]
      /\ domain' = [domain EXCEPT ![u] = "LOBBY"]
      /\ lobbyOf' = [lobbyOf EXCEPT ![u] = l]
      /\ roomOf' = roomOf
      /\ lobbyUsers' = [lobbyUsers EXCEPT ![l] = @ \cup {u}]
  BY DEF EnterUser, AddUserToSlot, UserEnterLobby
<1>4. UNCHANGED <<freeUsers, sessionDic, sessionOf, idOf, used, members, game,
                  createdRooms, connected, loginOK>>
  BY DEF poolVars, roomVars, connVars
<1>t. StateTypeOK
  BY DEF ServerInv
<1>5. Min(FreeSlots(l)) \in Slots
  <2>1. FreeSlots(l) \in SUBSET Nat /\ FreeSlots(l) \subseteq Slots
    BY DEF FreeSlots, Slots
  <2> QED BY <2>1, <1>1, MinOfNaturals
<1>6. StateTypeOK'
  <2>1. UserTypeOK'
    BY <1>t, <1>1, <1>3, <1>4 DEF StateTypeOK, UserTypeOK, Domains
  <2>2. LobbyTypeOK'
    <3> DEFINE k == Min(FreeSlots(l))
               row == [slots[l] EXCEPT ![k] = u]
    <3>1. slots[l] \in [Slots -> Users \cup {None}]
      BY <1>t, <1>1 DEF StateTypeOK, LobbyTypeOK
    <3>2. row \in [Slots -> Users \cup {None}]
      <4> HIDE DEF k
      <4> QED BY <3>1
    <3>3. slots' = [slots EXCEPT ![l] = row]
      BY <1>3
    <3> HIDE DEF row
    <3> QED BY <1>t, <1>1, <1>3, <3>2, <3>3 DEF StateTypeOK, LobbyTypeOK
  <2>3. RoomTypeOK' /\ ConnTypeOK'
    BY <1>t, <1>4 DEF StateTypeOK, RoomTypeOK, ConnTypeOK
  <2> QED BY <2>1, <2>2, <2>3 DEF StateTypeOK
<1>7. UserPoolConsistent' /\ SessionsOwnUsers'
  BY <1>1, <1>3, MovingKeepsOwners DEF Domains
<1>8. LobbyMembership'
  BY <1>1, <1>2, <1>3, <1>4, <1>t, NoneIsNoIndex
  DEF ServerInv, LobbyMembership, StateTypeOK, UserTypeOK, LobbyTypeOK
<1> QED BY <1>6, <1>7, <1>8 DEF ServerInv

(* LobbyError lets through a user of the wanted domain, in a lobby. *)
LEMMA LobbyErrorNone ==
  ASSUME ServerInv, NEW s \in Sessions, NEW d, NEW e1, NEW e2, e1 # "NONE", e2 # "NONE",
         LobbyError(s, d, e1, e2) = "NONE"
  PROVE  /\ GetUserError(s) = "NONE"
         /\ sessionDic[s] \in Users /\ sessionOf[sessionDic[s]] = s
         /\ domain[sessionDic[s]] = d
         /\ lobbyOf[sessionDic[s]] \in Lobbies
<1>1. /\ GetUserError(s) = "NONE"
      /\ domain[sessionDic[s]] = d
      /\ lobbyOf[sessionDic[s]] \in Lobbies
  BY DEF LobbyError, DomainError, IsCurDomainIn
<1> QED BY <1>1, OwnerOfSession

(* LobbyLeave: the lobby index that stays behind points to a lobby that no  *)
(* longer has the user.                                                     *)
LEMMA LobbyLeaveKeepsInv ==
  ASSUME ServerInv, NEW s \in Sessions, LobbyLeaveError(s) = "NONE",
         UNCHANGED <<poolVars, roomVars, connVars>>,
         NEW u \in Users, NEW l \in Lobbies, u = sessionDic[s], l = lobbyOf[u],
         LeaveUser(l, u), UserLeaveLobby(u)
  PROVE  ServerInv'
<1>1. domain[u] = "LOBBY" /\ sessionOf[u] = s
  BY LobbyErrorNone DEF LobbyLeaveError
<1>2. /\ domain' = [domain EXCEPT ![u] = "LOGIN"]
      /\ lobbyUsers' = [lobbyUsers EXCEPT ![l] = @ \ {u}]
      /\ UNCHANGED <<slots, lobbyOf, roomOf>>
  BY DEF LeaveUser, UserLeaveLobby, RemoveUserFromSlot
<1>3. UNCHANGED <<freeUsers, sessionDic, sessionOf, idOf, used, members, game,
                  createdRooms, connected, loginOK>>
  BY DEF poolVars, roomVars, connVars
<1>t. StateTypeOK
  BY DEF ServerInv
<1>4. StateTypeOK'
  <2>1. UserTypeOK' /\ LobbyTypeOK'
    BY <1>t, <1>2, <1>3 DEF StateTypeOK, UserTypeOK, LobbyTypeOK, Domains
  <2>2. RoomTypeOK' /\ ConnTypeOK'
    BY <1>t, <1>3 DEF StateTypeOK, RoomTypeOK, ConnTypeOK
  <2> QED BY <2>1, <2>2 DEF StateTypeOK
<1>5. UserPoolConsistent' /\ SessionsOwnUsers'
  BY <1>1, <1>2, MovingKeepsOwners DEF Domains
<1>6. LobbyMembership'
  BY <1>1, <1>2, <1>3, <1>t, NoneIsNoIndex
  DEF ServerInv, LobbyMembership, StateTypeOK, UserTypeOK, LobbyTypeOK
<1> QED BY <1>4, <1>5, <1>6 DEF ServerInv

(* Between the lobby and its rooms: the lobby's dictionary is not touched. *)
LEMMA RoomMoveKeepsInv ==
  ASSUME ServerInv, NEW u \in Users, NEW l \in Lobbies, l = lobbyOf[u],
         NEW d \in {"LOBBY", "ROOM"}, domain[u] \in {"LOBBY", "ROOM"},
         domain' = [domain EXCEPT ![u] = d], lobbyOf' = [lobbyOf EXCEPT ![u] = l],
         roomOf' \in [Users -> RoomNos \cup {None}],
         UNCHANGED <<poolVars, lobbyVars, connVars>>, RoomTypeOK'
  PROVE  ServerInv'
<1>1. UNCHANGED <<freeUsers, sessionDic, sessionOf, idOf, slots, lobbyUsers,
                  connected, loginOK>>
  BY DEF poolVars, lobbyVars, connVars
<1>t. StateTypeOK
  BY DEF ServerInv
<1>2. StateTypeOK'
  <2>1. UserTypeOK'
    BY <1>t, <1>1 DEF StateTypeOK, UserTypeOK, Domains
  <2>2. LobbyTypeOK' /\ ConnTypeOK'
    BY <1>t, <1>1 DEF StateTypeOK, LobbyTypeOK, ConnTypeOK
  <2> QED BY <2>1, <2>2 DEF StateTypeOK
<1>3. UserPoolConsistent' /\ SessionsOwnUsers'
  BY MovingKeepsOwners DEF Domains
<1>4. lobbyOf' = lobbyOf
  BY <1>t DEF StateTypeOK, UserTypeOK
<1>5. \A v \in Users : domain'[v] \in {"LOBBY", "ROOM"} <=> domain[v] \in {"LOBBY", "ROOM"}
  BY <1>t DEF StateTypeOK, UserTypeOK
<1>6. LobbyMembership'
  BY <1>1, <1>4, <1>5 DEF ServerInv, LobbyMembership
<1> QED BY <1>2, <1>3, <1>6 DEF ServerInv

(* RoomEnter, creating the room or not. *)
LEMMA RoomEnterKeepsInv ==
  ASSUME ServerInv, NEW s \in Sessions, NEW create, NEW r,
         RoomEnterError(s, create, r) = "NONE",
         UNCHANGED <<poolVars, lobbyVars, connVars>>,
         NEW u \in Users, NEW l \in Lobbies, NEW no \in RoomNos,
         u = sessionDic[s], l = lobbyOf[u],
         IF create
         THEN Len(createdRooms) < MaxRoomCreations /\ CreateRoomFor(<<l, no>>, u)
         ELSE RoomEnterUser(<<l, no>>, u),
         UserEnterRoom(u, l, no)
  PROVE  ServerInv'
<1>1. domain[u] = "LOBBY"
  BY LobbyErrorNone DEF RoomEnterError
<1>2. /\ domain' = [domain EXCEPT ![u] = "ROOM"]
      /\ lobbyOf' = [lobbyOf EXCEPT ![u] = l]
      /\ roomOf' \in [Users -> RoomNos \cup {None}]
  BY DEF UserEnterRoom, ServerInv, StateTypeOK, UserTypeOK
<1>3. RoomTypeOK'
  <2>1. <<l, no>> \in Rooms /\ RoomTypeOK
    BY DEF Rooms, ServerInv, StateTypeOK
  <2> DEFINE q == Append(members[<<l, no>>], u)
  <2>2. q \in Seq(Users)
    BY <2>1 DEF RoomTypeOK
  <2>3. Append(createdRooms, <<l, no>>) \in Seq(Rooms)
    BY <2>1 DEF RoomTypeOK
  <2>4. members' = [members EXCEPT ![<<l, no>>] = q]
    BY DEF CreateRoomFor, RegisterRoom, RoomEnterUser
  <2>5. /\ used' \in [Rooms -> BOOLEAN]
        /\ game' = game
        /\ createdRooms' \in Seq(Rooms)
    <3>1. CASE create
      BY <3>1, <2>1, <2>3 DEF CreateRoomFor, RegisterRoom, RoomTypeOK
    <3>2. CASE ~create
      BY <3>2, <2>1 DEF RoomEnterUser, RoomTypeOK
    <3> QED BY <3>1, <3>2
  <2> HIDE DEF q
  <2> QED BY <2>1, <2>2, <2>4, <2>5 DEF RoomTypeOK
<1> QED BY <1>1, <1>2, <1>3, RoomMoveKeepsInv

(* RoomLeave lets through a member of the room the indices point to. *)
LEMMA RoomLeaveErrorNone ==
  ASSUME ServerInv, NEW s \in Sessions, RoomLeaveError(s) = "NONE",
         NEW u \in Users, NEW l \in Lobbies, NEW r \in RoomNos, IsAt(s, u, l, r)
  PROVE  /\ domain[u] = "ROOM" /\ l = lobbyOf[u] /\ r = roomOf[u]
         /\ <<l, r>> \in Rooms
         /\ RoomLeaveUserError(<<l, r>>, u) = "NONE"
<1>1. /\ u = sessionDic[s] /\ l = lobbyOf[u] /\ r = roomOf[u] /\ <<l, r>> \in Rooms
  BY DEF IsAt, Rooms
<1>2. RoomError(s, "ROOM_LEAVE_INVALID_DOMAIN", "ROOM_ENTER_INVALID_LOBBY_INDEX") = "NONE"
  BY DEF RoomLeaveError
<1>3. LobbyError(s, "ROOM", "ROOM_LEAVE_INVALID_DOMAIN",
                 "ROOM_ENTER_INVALID_LOBBY_INDEX") = "NONE"
  BY <1>2 DEF RoomError
<1>4. domain[u] = "ROOM"
  BY <1>1, <1>3, LobbyErrorNone
<1>5. RoomLeaveUserError(<<l, r>>, u) = "NONE"
  BY <1>1, <1>2 DEF RoomLeaveError
<1> QED BY <1>1, <1>4, <1>5

(* RoomLeave. *)
LEMMA RoomLeaveKeepsInv ==
  ASSUME ServerInv, NEW s \in Sessions, RoomLeaveError(s) = "NONE",
         UNCHANGED <<poolVars, lobbyVars, connVars>>,
         NEW u \in Users, NEW l \in Lobbies, NEW r \in RoomNos, IsAt(s, u, l, r),
         RoomLeaveUser(<<l, r>>, u), UserEnterLobby(u, l)
  PROVE  ServerInv'
<1>1. /\ domain[u] = "ROOM" /\ l = lobbyOf[u]
      /\ <<l, r>> \in Rooms
      /\ RoomLeaveUserError(<<l, r>>, u) = "NONE"
  BY RoomLeaveErrorNone
<1>2. /\ domain' = [domain EXCEPT ![u] = "LOBBY"]
      /\ lobbyOf' = [lobbyOf EXCEPT ![u] = l]
      /\ roomOf' \in [Users -> RoomNos \cup {None}]
  BY DEF UserEnterLobby, ServerInv, StateTypeOK, UserTypeOK
<1>3. RoomTypeOK'
  BY <1>1, RoomLeaveUserType DEF ServerInv, StateTypeOK
<1> QED BY <1>1, <1>2, <1>3, RoomMoveKeepsInv

(* RoomMasterGameStart and RoomGameStart. *)
LEMMA StartGameKeepsInv ==
  ASSUME ServerInv, NEW rm, StartGame(rm)
  PROVE  ServerInv'
  BY DEF StartGame, userVars, lobbyVars, connVars, ServerInv, StateTypeOK, UserTypeOK,
         LobbyTypeOK, RoomTypeOK, ConnTypeOK, GameStates, UserPoolConsistent,
         SessionsOwnUsers, LobbyMembership

(* Refusals, lists, chat and whispers change nothing. *)
LEMMA ReadingKeepsInv ==
  ASSUME ServerInv, UNCHANGED logicVars
  PROVE  ServerInv'
  BY DEF logicVars, userVars, lobbyVars, roomVars, connVars, ServerInv, StateTypeOK,
         UserTypeOK, LobbyTypeOK, RoomTypeOK, ConnTypeOK, UserPoolConsistent,
         SessionsOwnUsers, LobbyMembership

(* NtfSysConnctSession. *)
LEMMA ConnectKeepsInv ==
  ASSUME ServerInv, NEW s \in Sessions, NtfSysConnctSession(s)
  PROVE  ServerInv'
<1>1. /\ connected' = [connected EXCEPT ![s] = TRUE]
      /\ UNCHANGED <<freeUsers, sessionDic, domain, sessionOf, idOf, lobbyOf, roomOf,
                     slots, lobbyUsers, used, members, game, createdRooms, loginOK>>
  BY DEF NtfSysConnctSession, userVars, lobbyVars, roomVars
<1>2. StateTypeOK'
  BY <1>1 DEF ServerInv, StateTypeOK, UserTypeOK, LobbyTypeOK, RoomTypeOK, ConnTypeOK
<1>3. UserPoolConsistent' /\ LobbyMembership'
  BY <1>1 DEF ServerInv, UserPoolConsistent, LobbyMembership
<1>4. SessionsOwnUsers'
  BY <1>1 DEF ServerInv, SessionsOwnUsers, StateTypeOK, ConnTypeOK
<1> QED BY <1>2, <1>3, <1>4 DEF ServerInv

(* NtfSysCloseSession: a session GetUser refuses has no entry at all. *)
LEMMA CloseKeepsInv ==
  ASSUME ServerInv, NEW s \in Sessions, NtfSysCloseSession(s)
  PROVE  ServerInv'
<1>1. /\ connected' = [connected EXCEPT ![s] = FALSE]
      /\ loginOK' = [loginOK EXCEPT ![s] = FALSE]
  BY DEF NtfSysCloseSession
<1>2. CASE /\ GetUserError(s) = "NONE"
           /\ \E u \in Users, l \in Lobbies \cup {None}, r \in RoomNos \cup {None} :
                IsAt(s, u, l, r) /\ CloseUser(s, u, l, r)
  BY <1>1, <1>2, CloseUserKeepsInv
<1>3. CASE /\ GetUserError(s) # "NONE"
           /\ UNCHANGED <<userVars, lobbyVars, roomVars>>
  <2>1. UNCHANGED <<freeUsers, sessionDic, domain, sessionOf, idOf, lobbyOf, roomOf,
                    slots, lobbyUsers, used, members, game, createdRooms>>
    BY <1>3 DEF userVars, lobbyVars, roomVars
  <2>2. sessionDic[s] = None
    BY <1>3 DEF GetUserError, ServerInv, SessionsOwnUsers
  <2>3. StateTypeOK'
    BY <1>1, <2>1
    DEF ServerInv, StateTypeOK, UserTypeOK, LobbyTypeOK, RoomTypeOK, ConnTypeOK
  <2>4. UserPoolConsistent' /\ LobbyMembership'
    BY <2>1 DEF ServerInv, UserPoolConsistent, LobbyMembership
  <2>5. SessionsOwnUsers'
    BY <1>1, <2>1, <2>2 DEF ServerInv, SessionsOwnUsers, StateTypeOK, ConnTypeOK
  <2> QED BY <2>3, <2>4, <2>5 DEF ServerInv
<1> QED BY <1>2, <1>3 DEF NtfSysCloseSession

(* The room a user object's indices point to. *)
RoomOf(u) == <<lobbyOf[u], roomOf[u]>>

(* A request changes the state in one of seven ways, or not at all. *)
LEMMA RequestCases ==
  ASSUME NEW s \in Sessions, Request(s)
  PROVE  \/ UNCHANGED logicVars
         \/ \E id \in UserIDs :
              /\ connected[s] /\ AddUserError(id) = "NONE" /\ AddUser(s, id)
              /\ loginOK' = [loginOK EXCEPT ![s] = TRUE]
              /\ UNCHANGED <<lobbyVars, roomVars, connected>>
         \/ \E l \in 0..MaxLobbyCount :
              /\ LobbyEnterError(s, l) = "NONE"
              /\ UNCHANGED <<poolVars, roomVars, connVars>>
              /\ \E u \in Users : u = sessionDic[s] /\ EnterUser(l, u)
         \/ /\ LobbyLeaveError(s) = "NONE"
            /\ UNCHANGED <<poolVars, roomVars, connVars>>
            /\ \E u \in Users, l \in Lobbies :
                 /\ u = sessionDic[s] /\ l = lobbyOf[u]
                 /\ LeaveUser(l, u) /\ UserLeaveLobby(u)
         \/ \E create \in BOOLEAN, r \in 0..MaxRoomCountByLobby \cup {None} :
              /\ RoomEnterError(s, create, r) = "NONE"
              /\ UNCHANGED <<poolVars, lobbyVars, connVars>>
              /\ \E u \in Users, l \in Lobbies, no \in RoomNos :
                   /\ u = sessionDic[s] /\ l = lobbyOf[u]
                   /\ no = IF create THEN UnusedRoomNo(l) ELSE r
                   /\ IF create
                      THEN /\ Len(createdRooms) < MaxRoomCreations
                           /\ CreateRoomFor(<<l, no>>, u)
                      ELSE RoomEnterUser(<<l, no>>, u)
                   /\ UserEnterRoom(u, l, no)
         \/ /\ RoomLeaveError(s) = "NONE"
            /\ UNCHANGED <<poolVars, lobbyVars, connVars>>
            /\ \E u \in Users, l \in Lobbies, r \in RoomNos :
                 /\ IsAt(s, u, l, r)
                 /\ RoomLeaveUser(<<l, r>>, u) /\ UserEnterLobby(u, l)
         \/ /\ MasterGameError(s) = "NONE"
            /\ StartGame(RoomOf(sessionDic[s]))
            /\ sent' = <<NotifyUser("ROOM_MASTER_GAME_STATE_RES",
                                   RoomListeners(RoomOf(sessionDic[s]), sessionDic[s]), NoID),
                        Reply(s, "ROOM_MASTER_GAME_STATE_RES", "NONE")>>
         \/ GameStartError(s) = "NONE" /\ StartGame(RoomOf(sessionDic[s]))
<1>1. \A pkt, err : Refuse(s, pkt, err) => UNCHANGED logicVars
  BY DEF Refuse
<1>2. CASE \E id \in UserIDs : Login(s, id)
  BY <1>1, <1>2 DEF Login, Request
<1>3. CASE \E l \in 0..MaxLobbyCount : LobbyEnter(s, l)
  BY <1>1, <1>3 DEF LobbyEnter
<1>4. CASE LobbyLeave(s)
  BY <1>1, <1>4 DEF LobbyLeave
<1>5. CASE RoomEnter(s, TRUE, None) \/ \E r \in 0..MaxRoomCountByLobby : RoomEnter(s, FALSE, r)
  BY <1>1, <1>5 DEF RoomEnter
<1>6. CASE RoomLeave(s)
  BY <1>1, <1>6 DEF RoomLeave
<1>7. CASE RoomMasterGameStart(s) \/ RoomGameStart(s)
  BY <1>1, <1>7 DEF RoomMasterGameStart, RoomGameStart, RoomOf
<1>8. CASE \/ \E id \in UserIDs : LOBBYWisperChat(s, id)
           \/ LobbyList(s) \/ LOBBYChat(s) \/ RoomChat(s)
           \/ \E start \in StartIndexes :
                LobbyRoomList(s, start) \/ LobbyUserList(s, start) \/ RoomUserList(s, start)
  BY <1>1, <1>8
  DEF LOBBYWisperChat, LobbyList, LOBBYChat, RoomChat, LobbyRoomList, LobbyUserList,
      RoomUserList
<1> QED BY <1>2, <1>3, <1>4, <1>5, <1>6, <1>7, <1>8 DEF Request

(* Every request keeps ServerInv. *)
LEMMA RequestKeepsInv ==
  ASSUME ServerInv, NEW s \in Sessions, Request(s)
  PROVE  ServerInv'
  BY RequestCases, ReadingKeepsInv, AddUserKeepsInv, LobbyEnterKeepsInv,
     LobbyLeaveKeepsInv, RoomEnterKeepsInv, RoomLeaveKeepsInv, StartGameKeepsInv

(* ServerInv holds when the server has started. *)
LEMMA InitEstablishesInv == Init => ServerInv
<1> SUFFICES ASSUME Init PROVE ServerInv
  OBVIOUS
<1>1. /\ freeUsers  = [i \in 1..MaxClientCount |-> i - 1]
      /\ sessionDic = [s \in Sessions |-> None]
      /\ domain     = [u \in Users |-> "NONE"]
      /\ sessionOf  = [u \in Users |-> None]
      /\ idOf       = [u \in Users |-> NoID]
      /\ lobbyOf    = [u \in Users |-> None]
      /\ roomOf     = [u \in Users |-> None]
      /\ slots      = [l \in Lobbies |-> [i \in Slots |-> None]]
      /\ lobbyUsers = [l \in Lobbies |-> {}]
      /\ used       = [rm \in Rooms |-> FALSE]
      /\ members    = [rm \in Rooms |-> <<>>]
      /\ game \in [Rooms -> FreshGameStates]
      /\ createdRooms = <<>>
      /\ connected = [s \in Sessions |-> FALSE]
      /\ loginOK   = [s \in Sessions |-> FALSE]
  BY DEF Init, UserInit, LobbyInit, RoomInit
<1>2. MaxClientCount \in Nat /\ Users = 0..(MaxClientCount - 1)
  BY ConfigAssumption DEF Users
<1>3. /\ freeUsers \in Seq(Users)
      /\ DOMAIN freeUsers = 1..MaxClientCount
      /\ \A i \in 1..MaxClientCount : freeUsers[i] = i - 1
  BY <1>1, <1>2
<1>4. StateTypeOK
  <2>1. UserTypeOK
    BY <1>1, <1>3 DEF UserTypeOK, Domains
  <2>2. LobbyTypeOK /\ ConnTypeOK
    BY <1>1 DEF LobbyTypeOK, ConnTypeOK
  <2>3. RoomTypeOK
    BY <1>1, GameAssumption DEF RoomTypeOK
  <2> QED BY <2>1, <2>2, <2>3 DEF StateTypeOK
<1>5. UserPoolConsistent
  <2>1. \A i, j \in DOMAIN freeUsers : freeUsers[i] = freeUsers[j] => i = j
    BY <1>2, <1>3
  <2>2. ASSUME NEW u \in Users PROVE \E i \in DOMAIN freeUsers : freeUsers[i] = u
    <3>1. u + 1 \in DOMAIN freeUsers /\ freeUsers[u + 1] = u
      BY <1>2, <1>3
    <3> QED BY <3>1
  <2>3. \A u \in Users : domain[u] = "NONE"
    BY <1>1
  <2> QED BY <2>1, <2>2, <2>3 DEF UserPoolConsistent
<1>6. SessionsOwnUsers /\ LobbyMembership
  BY <1>1 DEF SessionsOwnUsers, LobbyMembership
<1> QED BY <1>4, <1>5, <1>6 DEF ServerInv

(* ServerInv holds in every state the server reaches. *)
THEOREM ServerInvariant == Spec => []ServerInv
<1>1. Init => ServerInv
  BY InitEstablishesInv
<1>2. ServerInv /\ [Next]_vars => ServerInv'
  <2> SUFFICES ASSUME ServerInv, [Next]_vars PROVE ServerInv'
    OBVIOUS
  <2>1. ASSUME NEW s \in Sessions, NtfSysConnctSession(s) PROVE ServerInv'
    BY <2>1, ConnectKeepsInv
  <2>2. ASSUME NEW s \in Sessions, NtfSysCloseSession(s) PROVE ServerInv'
    BY <2>2, CloseKeepsInv
  <2>3. ASSUME NEW s \in Sessions, Request(s) PROVE ServerInv'
    BY <2>3, RequestKeepsInv
  <2>4. CASE UNCHANGED vars
    BY <2>4, ReadingKeepsInv
    DEF vars, logicVars, userVars, lobbyVars, roomVars, connVars
  <2> QED BY <2>1, <2>2, <2>3, <2>4 DEF Next
<1> QED BY <1>1, <1>2, PTL DEF Spec

(* The pool never hands out an object in use nor loses count of a Cleared one: *)
(* UserPoolConsistent, for every number of clients.                            *)
THEOREM PoolIsConsistent == Spec => []UserPoolConsistent
<1>1. ServerInv => UserPoolConsistent
  BY DEF ServerInv
<1> QED BY <1>1, ServerInvariant, PTL

(* A session's entry always leads to an object of its own with a name that no  *)
(* other session's object has: SessionsOwnUsers.                               *)
THEOREM SessionsAreOwners == Spec => []SessionsOwnUsers
<1>1. ServerInv => SessionsOwnUsers
  BY DEF ServerInv
<1> QED BY <1>1, ServerInvariant, PTL

(* The lobby dictionaries agree with the user objects, and every user in them  *)
(* is reached from a live session: LobbyMembership.                            *)
THEOREM LobbiesAgree == Spec => []LobbyMembership
<1>1. ServerInv => LobbyMembership
  BY DEF ServerInv
<1> QED BY <1>1, ServerInvariant, PTL
=============================================================================
