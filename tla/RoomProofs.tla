------------------------------ MODULE RoomProofs -----------------------------
(***************************************************************************)
(* The rooms agree with the user objects, RoomManager's list reaches every *)
(* room in use, no call of Lobby::RemoveUser leaves its vector, a game only *)
(* starts between two live members, and what is sent are messages: for      *)
(* every configuration.                                                     *)
(***************************************************************************)
EXTENDS ChatProofs

(* The list of created rooms is long enough for every room in use, and not  *)
(* so long that its size does not fit a short.                              *)
CreatedReach ==
  /\ Len(createdRooms) <= MaxRoomCreations
  /\ \A rm \in Rooms : used[rm] => rm[2] < Len(createdRooms)

(* Inductive together with ServerInv. *)
RoomInv == RoomMembership /\ CreatedReach /\ RemoveUserStaysInside

(* A list with a new last member. *)
LEMMA AppendMember ==
  ASSUME NEW q \in Seq(Users), NEW u \in Users,
         \A i \in DOMAIN q : q[i] # u,
         \A i, j \in DOMAIN q : q[i] = q[j] => i = j
  PROVE  /\ Append(q, u) # <<>> /\ Len(Append(q, u)) = Len(q) + 1
         /\ \A v \in Users : (\E i \in DOMAIN Append(q, u) : Append(q, u)[i] = v)
                               <=> (v = u \/ \E i \in DOMAIN q : q[i] = v)
         /\ \A i, j \in DOMAIN Append(q, u) : Append(q, u)[i] = Append(q, u)[j] => i = j
<1> DEFINE a == Append(q, u)
<1>1. /\ Len(a) = Len(q) + 1 /\ DOMAIN a = 1..(Len(q) + 1) /\ DOMAIN q = 1..Len(q)
      /\ Len(q) \in Nat
      /\ a[Len(q) + 1] = u
      /\ \A i \in 1..Len(q) : a[i] = q[i]
  OBVIOUS
<1> HIDE DEF a
<1>2. a # <<>>
  BY <1>1
<1>3. ASSUME NEW v \in Users
      PROVE  (\E i \in DOMAIN a : a[i] = v) <=> (v = u \/ \E i \in DOMAIN q : q[i] = v)
  <2>1. Len(q) + 1 \in DOMAIN a
    BY <1>1
  <2>2. \A i \in DOMAIN q : i \in DOMAIN a /\ a[i] = q[i]
    BY <1>1
  <2>3. \A i \in DOMAIN a : i = Len(q) + 1 \/ i \in DOMAIN q
    BY <1>1
  <2> QED BY <2>1, <2>2, <2>3, <1>1
<1>4. \A i, j \in DOMAIN a : a[i] = a[j] => i = j
  BY <1>1
<1> QED BY <1>1, <1>2, <1>3, <1>4 DEF a

(* A list without duplicates, with one of its members gone. *)
LEMMA RemoveMember ==
  ASSUME RoomTypeOK, NEW rm \in Rooms, NEW u \in Users, IsMember(rm, u),
         \A i, j \in DOMAIN members[rm] : members[rm][i] = members[rm][j] => i = j
  PROVE  LET q == members[rm]
             p == RemainingMembers(rm, u)
         IN  /\ p \in Seq(Users) /\ Len(p) = Len(q) - 1
             /\ \A v \in Users : (\E i \in DOMAIN p : p[i] = v)
                                   <=> (v # u /\ \E i \in DOMAIN q : q[i] = v)
             /\ \A i, j \in DOMAIN p : p[i] = p[j] => i = j
<1> DEFINE q == members[rm]
           p == RemainingMembers(rm, u)
<1>1. q \in Seq(Users)
  BY DEF RoomTypeOK
<1>2. p \in Seq(Users) /\ Len(p) = Len(q) - 1
  BY RemainingMembersProperties
<1>3. PICK k \in 1..Len(q) :
        /\ q[k] = u
        /\ \A i \in 1..(Len(q) - 1) : p[i] = IF i < k THEN q[i] ELSE q[i + 1]
  BY RemainingMembersProperties
<1>4. \A i, j \in DOMAIN q : q[i] = q[j] => i = j
  OBVIOUS
<1> HIDE DEF p, q
<1>5. DOMAIN q = 1..Len(q) /\ Len(q) \in Nat /\ DOMAIN p = 1..(Len(q) - 1)
  BY <1>1, <1>2
<1>6. ASSUME NEW v \in Users
      PROVE  (\E i \in DOMAIN p : p[i] = v) <=> (v # u /\ \E i \in DOMAIN q : q[i] = v)
  <2>1. ASSUME NEW i \in DOMAIN p, p[i] = v
        PROVE  v # u /\ \E j \in DOMAIN q : q[j] = v
    <3>1. CASE i < k
      BY <3>1, <2>1, <1>3, <1>4, <1>5
    <3>2. CASE ~(i < k)
      <4>1. i + 1 \in DOMAIN q /\ q[i + 1] = v /\ i + 1 # k
        BY <3>2, <2>1, <1>3, <1>5
      <4> QED BY <4>1, <1>3, <1>4, <1>5
    <3> QED BY <3>1, <3>2
  <2>2. ASSUME NEW j \in DOMAIN q, q[j] = v, v # u
        PROVE  \E i \in DOMAIN p : p[i] = v
    <3>1. CASE j < k
      <4>1. j \in DOMAIN p /\ p[j] = v
        BY <3>1, <2>2, <1>3, <1>5
      <4> QED BY <4>1
    <3>2. CASE ~(j < k)
      <4>1. j # k
        BY <2>2, <1>3
      <4>2. j - 1 \in DOMAIN p /\ p[j - 1] = v
        BY <3>2, <4>1, <2>2, <1>3, <1>5
      <4> QED BY <4>2
    <3> QED BY <3>1, <3>2
  <2> QED BY <2>1, <2>2
<1>7. ASSUME NEW i \in DOMAIN p, NEW j \in DOMAIN p, p[i] = p[j]
      PROVE  i = j
  <2> DEFINE up(x) == IF x < k THEN x ELSE x + 1
  <2>1. /\ up(i) \in DOMAIN q /\ p[i] = q[up(i)]
        /\ up(j) \in DOMAIN q /\ p[j] = q[up(j)]
    BY <1>3, <1>5
  <2>2. up(i) = up(j)
    <3> HIDE DEF up
    <3> QED BY <2>1, <1>4, <1>7
  <2> QED BY <2>2, <1>5
<1> QED BY <1>2, <1>6, <1>7 DEF p, q

(* A user who is in no room before or after leaves the rooms as they are. *)
LEMMA OutsideRooms ==
  ASSUME RoomMembership, StateTypeOK, NEW u \in Users, domain[u] # "ROOM", domain'[u] # "ROOM",
         \A v \in Users : v # u => /\ domain'[v] = domain[v]
                                   /\ lobbyOf'[v] = lobbyOf[v] /\ roomOf'[v] = roomOf[v],
         UNCHANGED <<used, members>>
  PROVE  RoomMembership'
<1>1. ASSUME NEW rm \in Rooms, NEW v \in Users
      PROVE  IsMember(rm, v)' <=> (domain'[v] = "ROOM" /\ <<lobbyOf'[v], roomOf'[v]>> = rm)
  <2>1. IsMember(rm, v)' <=> IsMember(rm, v)
    BY DEF IsMember
  <2> QED BY <2>1 DEF RoomMembership
<1>2. \A v \in Users : domain'[v] = "ROOM" => roomOf'[v] \in RoomNos
  BY DEF RoomMembership
<1> QED BY <1>1, <1>2 DEF RoomMembership

(* Room::EnterUser with User::EnterRoom, into a room with a free seat. *)
LEMMA JoinRoom ==
  ASSUME RoomMembership, StateTypeOK, NEW u \in Users, NEW l \in Lobbies, NEW no \in RoomNos,
         domain[u] # "ROOM", Len(members[<<l, no>>]) < MaxRoomUserCount,
         UserEnterRoom(u, l, no),
         members' = [members EXCEPT ![<<l, no>>] = Append(@, u)],
         used' = [used EXCEPT ![<<l, no>>] = TRUE]
  PROVE  RoomMembership'
<1> DEFINE rm == <<l, no>>
           q == members[rm]
<1>1. rm \in Rooms /\ rm[1] = l /\ rm[2] = no
  BY DEF Rooms
<1>2. q \in Seq(Users) /\ members \in [Rooms -> Seq(Users)] /\ used \in [Rooms -> BOOLEAN]
  BY <1>1 DEF StateTypeOK, RoomTypeOK
<1>3. \A x \in Rooms : ~IsMember(x, u)
  BY DEF RoomMembership
<1>4. /\ domain' = [domain EXCEPT ![u] = "ROOM"]
      /\ lobbyOf' = [lobbyOf EXCEPT ![u] = l]
      /\ roomOf' = [roomOf EXCEPT ![u] = no]
      /\ domain \in [Users -> Domains] /\ lobbyOf \in [Users -> Lobbies \cup {None}]
      /\ roomOf \in [Users -> RoomNos \cup {None}]
  BY DEF UserEnterRoom, StateTypeOK, UserTypeOK
<1>5. members' = [members EXCEPT ![rm] = Append(q, u)] /\ used' = [used EXCEPT ![rm] = TRUE]
  OBVIOUS
<1>6. /\ \A i \in DOMAIN q : q[i] # u
      /\ \A i, j \in DOMAIN q : q[i] = q[j] => i = j
  BY <1>1, <1>3 DEF RoomMembership, IsMember
<1>7. Len(q) < MaxRoomUserCount
  OBVIOUS
<1> HIDE DEF rm, q
<1>8. /\ Append(q, u) # <<>> /\ Len(Append(q, u)) = Len(q) + 1
      /\ \A v \in Users : (\E i \in DOMAIN Append(q, u) : Append(q, u)[i] = v)
                            <=> (v = u \/ \E i \in DOMAIN q : q[i] = v)
      /\ \A i, j \in DOMAIN Append(q, u) : Append(q, u)[i] = Append(q, u)[j] => i = j
  BY <1>2, <1>6, AppendMember
<1> DEFINE a == Append(q, u)
<1> HIDE DEF a
<1>9. members'[rm] = a /\ \A x \in Rooms : x # rm => members'[x] = members[x]
  BY <1>1, <1>2, <1>5 DEF a
<1>10. used'[rm] /\ \A x \in Rooms : x # rm => used'[x] = used[x]
  BY <1>1, <1>2, <1>5
<1>11. ASSUME NEW x \in Rooms, NEW v \in Users
       PROVE  IsMember(x, v)' <=> (domain'[v] = "ROOM" /\ <<lobbyOf'[v], roomOf'[v]>> = x)
  <2>1. CASE v = u
    <3>1. <<lobbyOf'[v], roomOf'[v]>> = rm /\ domain'[v] = "ROOM"
      BY <2>1, <1>4 DEF rm
    <3>2. CASE x = rm
      BY <3>1, <3>2, <2>1, <1>8, <1>9 DEF IsMember, a
    <3>3. CASE x # rm
      BY <3>1, <3>3, <2>1, <1>3, <1>9 DEF IsMember
    <3> QED BY <3>2, <3>3
  <2>2. CASE v # u
    <3>1. domain'[v] = domain[v] /\ lobbyOf'[v] = lobbyOf[v] /\ roomOf'[v] = roomOf[v]
      BY <2>2, <1>4
    <3>2. CASE x # rm
      <4>1. IsMember(x, v)' <=> IsMember(x, v)
        BY <3>2, <1>9 DEF IsMember
      <4> QED BY <3>1, <4>1 DEF RoomMembership
    <3>3. CASE x = rm
      <4>1. IsMember(x, v)' <=> \E i \in DOMAIN a : a[i] = v
        BY <3>3, <1>9 DEF IsMember
      <4>2. IsMember(x, v) <=> \E i \in DOMAIN q : q[i] = v
        BY <3>3 DEF IsMember, q
      <4>3. IsMember(x, v)' <=> IsMember(x, v)
        BY <4>1, <4>2, <2>2, <1>8 DEF a
      <4> QED BY <3>1, <4>3 DEF RoomMembership
    <3> QED BY <3>2, <3>3
  <2> QED BY <2>1, <2>2
<1>12. \A v \in Users : domain'[v] = "ROOM" => roomOf'[v] \in RoomNos
  BY <1>4 DEF RoomMembership
<1>13. ASSUME NEW x \in Rooms
       PROVE  \A i, j \in DOMAIN members'[x] : members'[x][i] = members'[x][j] => i = j
  <2>1. \A i, j \in DOMAIN a : a[i] = a[j] => i = j
    BY <1>8 DEF a
  <2>2. \A i, j \in DOMAIN members[x] : members[x][i] = members[x][j] => i = j
    BY DEF RoomMembership
  <2> QED BY <2>1, <2>2, <1>9
<1>14. ASSUME NEW x \in Rooms PROVE used'[x] <=> members'[x] # <<>>
  <2>1. CASE x = rm
    <3>1. used'[x] /\ members'[x] # <<>>
      BY <2>1, <1>8, <1>9, <1>10 DEF a
    <3> QED BY <3>1
  <2>2. CASE x # rm
    <3>1. (used'[x] <=> used[x]) /\ members'[x] = members[x]
      BY <2>2, <1>9, <1>10
    <3> QED BY <3>1 DEF RoomMembership
  <2> QED BY <2>1, <2>2
<1>15. \A x \in Rooms : Len(members'[x]) <= MaxRoomUserCount
  <2>1. Len(q) \in Nat /\ MaxRoomUserCount \in Nat
    BY <1>2, ConfigAssumption
  <2> QED BY <2>1, <1>7, <1>8, <1>9 DEF RoomMembership, a
<1> QED BY <1>11, <1>12, <1>13, <1>15, <1>14 DEF RoomMembership

(* Room::LeaveUser, for the room the user is in; the last one Clears it. *)
LEMMA QuitRoom ==
  ASSUME RoomMembership, StateTypeOK, NEW u \in Users, NEW rm \in Rooms,
         domain[u] = "ROOM", rm = <<lobbyOf[u], roomOf[u]>>, domain'[u] # "ROOM",
         \A v \in Users : v # u => /\ domain'[v] = domain[v]
                                   /\ lobbyOf'[v] = lobbyOf[v] /\ roomOf'[v] = roomOf[v],
         RoomLeaveUser(rm, u)
  PROVE  RoomMembership'
<1> DEFINE q == members[rm]
           p == RemainingMembers(rm, u)
<1>1. RoomTypeOK /\ IsMember(rm, u)
  BY DEF StateTypeOK, RoomMembership
<1>2. \A i, j \in DOMAIN q : q[i] = q[j] => i = j
  BY DEF RoomMembership
<1>3. /\ p \in Seq(Users) /\ Len(p) = Len(q) - 1
      /\ \A v \in Users : (\E i \in DOMAIN p : p[i] = v)
                            <=> (v # u /\ \E i \in DOMAIN q : q[i] = v)
      /\ \A i, j \in DOMAIN p : p[i] = p[j] => i = j
  BY <1>1, <1>2, RemoveMember
<1>4. /\ members' = [members EXCEPT ![rm] = p]
      /\ used' = [used EXCEPT ![rm] = p # <<>>]
  <2>1. used[rm]
    BY <1>1 DEF RoomMembership, IsMember
  <2> QED BY <1>1, <2>1, RoomLeaveUserEffect
<1>5. q \in Seq(Users)
  BY <1>1 DEF RoomTypeOK
<1> HIDE DEF p
<1>6. members'[rm] = p /\ \A x \in Rooms : x # rm => members'[x] = members[x]
  BY <1>1, <1>4 DEF RoomTypeOK
<1>7. (used'[rm] <=> p # <<>>) /\ \A x \in Rooms : x # rm => used'[x] = used[x]
  BY <1>1, <1>4 DEF RoomTypeOK
<1>8. ASSUME NEW x \in Rooms, NEW v \in Users
      PROVE  IsMember(x, v)' <=> (domain'[v] = "ROOM" /\ <<lobbyOf'[v], roomOf'[v]>> = x)
  <2>1. CASE x = rm
    <3>1. IsMember(x, v)' <=> \E i \in DOMAIN p : p[i] = v
      BY <2>1, <1>6 DEF IsMember
    <3>2. IsMember(x, v) <=> \E i \in DOMAIN q : q[i] = v
      BY <2>1 DEF IsMember
    <3>3. IsMember(x, v)' <=> (v # u /\ IsMember(x, v))
      BY <3>1, <3>2, <1>3
    <3>4. v # u => domain'[v] = domain[v] /\ lobbyOf'[v] = lobbyOf[v] /\ roomOf'[v] = roomOf[v]
      OBVIOUS
    <3>5. IsMember(x, v) <=> (domain[v] = "ROOM" /\ <<lobbyOf[v], roomOf[v]>> = x)
      BY DEF RoomMembership
    <3> QED BY <3>3, <3>4, <3>5
  <2>2. CASE x # rm
    <3>1. IsMember(x, v)' <=> IsMember(x, v)
      BY <2>2, <1>6 DEF IsMember
    <3>2. v = u => ~IsMember(x, v)
      BY <2>2 DEF RoomMembership
    <3> QED BY <3>1, <3>2 DEF RoomMembership
  <2> QED BY <2>1, <2>2
<1>9. \A v \in Users : domain'[v] = "ROOM" => roomOf'[v] \in RoomNos
  BY DEF RoomMembership
<1>10. ASSUME NEW x \in Rooms
       PROVE  /\ \A i, j \in DOMAIN members'[x] : members'[x][i] = members'[x][j] => i = j
              /\ used'[x] <=> members'[x] # <<>>
              /\ Len(members'[x]) <= MaxRoomUserCount
  <2>1. CASE x # rm
    BY <2>1, <1>6, <1>7 DEF RoomMembership
  <2>2. CASE x = rm
    <3>1. Len(q) \in Nat /\ MaxRoomUserCount \in Nat /\ Len(q) <= MaxRoomUserCount
      BY <1>5, ConfigAssumption DEF RoomMembership
    <3> QED BY <2>2, <3>1, <1>3, <1>6, <1>7
  <2> QED BY <2>1, <2>2
<1> QED BY <1>8, <1>9, <1>10 DEF RoomMembership

(* RoomManager's list only grows, and a creation takes the first room free. *)
LEMMA CreationIsCovered ==
  ASSUME StateTypeOK, CreatedReach, NEW l \in Lobbies, NEW no \in RoomNos,
         no = UnusedRoomNo(l), NEW u, CreateRoomFor(<<l, no>>, u),
         Len(createdRooms) < MaxRoomCreations
  PROVE  CreatedReach' /\ ~used[<<l, no>>]
<1> DEFINE unused == {r \in RoomNos : ~used[<<l, r>>]}
<1>1. RoomNos \subseteq Nat
  BY DEF RoomNos
<1>2. no = Min(unused) /\ unused # {}
  BY NoneIsNoIndex DEF UnusedRoomNo
<1>3. no \in unused /\ \A r \in unused : no <= r
  BY <1>1, <1>2, MinOfNaturals
<1>4. \A r \in RoomNos : r < no => used[<<l, r>>]
  BY <1>1, <1>3
<1>5. createdRooms \in Seq(Rooms) /\ used \in [Rooms -> BOOLEAN]
  BY DEF StateTypeOK, RoomTypeOK
<1>6. /\ Len(createdRooms') = Len(createdRooms) + 1 /\ Len(createdRooms) \in Nat
      /\ used' = [used EXCEPT ![<<l, no>>] = TRUE]
  BY <1>5 DEF CreateRoomFor, RegisterRoom
<1>7. no < Len(createdRooms) + 1
  <2>1. CASE no = 0
    BY <2>1, <1>6
  <2>2. CASE no # 0
    <3>1. no - 1 \in RoomNos /\ no - 1 < no
      BY <2>2, ConfigAssumption DEF RoomNos
    <3>2. used[<<l, no - 1>>] /\ <<l, no - 1>> \in Rooms
      BY <3>1, <1>4 DEF Rooms
    <3>3. no - 1 < Len(createdRooms)
      BY <3>2 DEF CreatedReach
    <3> QED BY <3>1, <3>3, <1>1, <1>6
  <2> QED BY <2>1, <2>2
<1>8. ASSUME NEW x \in Rooms, used'[x] PROVE x[2] < Len(createdRooms')
  <2>1. CASE x = <<l, no>>
    BY <2>1, <1>6, <1>7
  <2>2. CASE x # <<l, no>>
    <3>1. used[x] /\ x[2] \in Nat
      BY <2>2, <1>5, <1>6, <1>8, <1>1 DEF Rooms
    <3> QED BY <3>1, <1>6 DEF CreatedReach
  <2> QED BY <2>1, <2>2
<1>9. Len(createdRooms') <= MaxRoomCreations
  BY <1>6, RequestAssumption
<1> QED BY <1>3, <1>8, <1>9 DEF CreatedReach

(* Lobby::RemoveUser frees no seat, so a lobby index that is kept or unset *)
(* keeps its seat.                                                         *)
LEMMA SeatsKept ==
  ASSUME RemoveUserStaysInside, slots' = slots,
         \A v \in Users : lobbyOf'[v] \in {None, lobbyOf[v]}
  PROVE  RemoveUserStaysInside'
  BY DEF RemoveUserStaysInside, RemoveUserOverruns

(* Login. *)
LEMMA AddUserKeepsRooms ==
  ASSUME ServerInv, RoomInv, NEW s \in Sessions, NEW id \in UserIDs,
         AddUserError(id) = "NONE", AddUser(s, id),
         UNCHANGED <<lobbyVars, roomVars, connected>>
  PROVE  RoomInv'
<1> DEFINE u == Head(freeUsers)
<1>1. u \in Users /\ domain[u] = "NONE"
  BY HeadIsFree, NameIsFree DEF ServerInv, StateTypeOK, UserTypeOK
<1>2. /\ domain' = [domain EXCEPT ![u] = "LOGIN"]
      /\ UNCHANGED <<lobbyOf, roomOf, slots, used, members, createdRooms>>
  BY DEF AddUser, AllocUserObjPoolIndex, SetUser, lobbyVars, roomVars
<1>3. domain \in [Users -> Domains] /\ lobbyOf \in [Users -> Lobbies \cup {None}] /\ StateTypeOK
  BY DEF ServerInv, StateTypeOK, UserTypeOK
<1> HIDE DEF u
<1>4. /\ domain'[u] # "ROOM" /\ domain[u] # "ROOM"
      /\ \A v \in Users : v # u => domain'[v] = domain[v]
  BY <1>1, <1>2, <1>3
<1>5. RoomMembership'
  BY <1>1, <1>2, <1>3, <1>4, OutsideRooms DEF RoomInv
<1>6. CreatedReach' /\ RemoveUserStaysInside'
  BY <1>2, <1>3, SeatsKept DEF RoomInv, CreatedReach
<1> QED BY <1>5, <1>6 DEF RoomInv

(* A closing session's user is in the room its indices point to, or in     *)
(* none: the stale indices that NtfSysCloseSession follows do no harm here.*)
LEMMA CloseUserKeepsRooms ==
  ASSUME ServerInv, RoomInv, NEW s \in Sessions, GetUserError(s) = "NONE",
         NEW u \in Users, NEW l \in Lobbies \cup {None}, NEW r \in RoomNos \cup {None},
         IsAt(s, u, l, r), CloseUser(s, u, l, r)
  PROVE  RoomInv'
<1> DEFINE rm == <<l, r>>
<1>1. l = lobbyOf[u] /\ r = roomOf[u] /\ StateTypeOK
  BY DEF IsAt, ServerInv
<1>2. /\ domain' = [domain EXCEPT ![u] = "NONE"]
      /\ lobbyOf' = [lobbyOf EXCEPT ![u] = None]
      /\ roomOf' = [roomOf EXCEPT ![u] = None]
      /\ slots' = slots
  BY DEF CloseUser, RemoveUser, ReleaseUserObjPoolIndex, ClearUser, LeaveUser,
      RemoveUserFromSlot, lobbyVars
<1>3. /\ domain'[u] = "NONE" /\ lobbyOf'[u] = None
      /\ \A v \in Users : v # u => /\ domain'[v] = domain[v]
                                   /\ lobbyOf'[v] = lobbyOf[v] /\ roomOf'[v] = roomOf[v]
  BY <1>1, <1>2 DEF StateTypeOK, UserTypeOK
<1>4. RemoveUserStaysInside'
  BY <1>2, <1>3, SeatsKept DEF RoomInv
<1>5. CASE domain[u] = "ROOM"
  <2>1. rm \in Rooms /\ l \in Lobbies /\ r \in RoomNos /\ rm = <<lobbyOf[u], roomOf[u]>>
    BY <1>1, <1>5 DEF ServerInv, LobbyMembership, RoomInv, RoomMembership, Rooms
  <2>2. IsMember(rm, u)
    BY <1>5, <2>1 DEF RoomInv, RoomMembership
  <2>3. used[rm]
    BY <2>1, <2>2 DEF RoomInv, RoomMembership, IsMember
  <2>4. RoomLeaveUserError(rm, u) = "NONE"
    BY <2>2, <2>3 DEF RoomLeaveUserError
  <2>5. RoomLeaveUser(rm, u)
    BY <2>1, <2>4 DEF CloseUser
  <2>6. RoomMembership'
    <3> HIDE DEF rm
    <3> QED BY <1>1, <1>3, <1>5, <2>1, <2>5, QuitRoom DEF RoomInv
  <2>7. CreatedReach'
    BY <1>1, <2>1, <2>3, <2>5, RoomLeaveUserEffect
    DEF RoomInv, CreatedReach, StateTypeOK, RoomTypeOK
  <2> QED BY <1>4, <2>6, <2>7 DEF RoomInv
<1>6. CASE domain[u] # "ROOM"
  <2>1. UNCHANGED <<used, members, createdRooms>>
    <3>1. CASE l \in Lobbies /\ r \in RoomNos
      <4>1. rm \in Rooms
        BY <3>1 DEF Rooms
      <4>2. ~IsMember(rm, u)
        BY <1>6, <4>1 DEF RoomInv, RoomMembership
      <4>3. RoomLeaveUserError(rm, u) # "NONE"
        BY <4>2 DEF RoomLeaveUserError
      <4> QED BY <4>3 DEF CloseUser, roomVars
    <3>2. CASE ~(l \in Lobbies /\ r \in RoomNos)
      BY <3>2 DEF CloseUser, roomVars
    <3> QED BY <3>1, <3>2
  <2>2. RoomMembership'
    BY <1>1, <1>3, <1>6, <2>1, OutsideRooms DEF RoomInv
  <2>3. CreatedReach'
    BY <2>1 DEF RoomInv, CreatedReach
  <2> QED BY <1>4, <2>2, <2>3 DEF RoomInv
<1> QED BY <1>5, <1>6

(* LobbyEnter: the first seat that is free is filled, no other changes. *)
LEMMA LobbyEnterKeepsRooms ==
  ASSUME ServerInv, RoomInv, NEW s \in Sessions, NEW l, LobbyEnterError(s, l) = "NONE",
         UNCHANGED <<poolVars, roomVars, connVars>>,
         NEW u \in Users, u = sessionDic[s], EnterUser(l, u)
  PROVE  RoomInv'
<1>1. /\ domain[u] = "LOGIN" /\ l \in Lobbies /\ FreeSlots(l) # {} /\ StateTypeOK
  BY DEF LobbyEnterError, DomainError, IsCurDomainIn, EnterUserError, HasUser, ServerInv
<1>2. /\ slots' = [slots EXCEPT ![l] = [@ EXCEPT ![Min(FreeSlots(l))] = u]]
      /\ domain' = [domain EXCEPT ![u] = "LOBBY"]
      /\ lobbyOf' = [lobbyOf EXCEPT ![u] = l]
      /\ UNCHANGED <<roomOf, used, members, createdRooms>>
  BY DEF EnterUser, AddUserToSlot, UserEnterLobby, roomVars
<1>3. /\ domain'[u] = "LOBBY" /\ lobbyOf'[u] = l
      /\ \A v \in Users : v # u => domain'[v] = domain[v] /\ lobbyOf'[v] = lobbyOf[v]
  BY <1>1, <1>2 DEF StateTypeOK, UserTypeOK
<1>4. RoomMembership'
  BY <1>1, <1>2, <1>3, OutsideRooms DEF RoomInv
<1>5. CreatedReach'
  BY <1>2 DEF RoomInv, CreatedReach
<1>6. RemoveUserStaysInside'
  <2> DEFINE k == Min(FreeSlots(l))
  <2>1. FreeSlots(l) \in SUBSET Nat /\ FreeSlots(l) \subseteq Slots
    BY DEF FreeSlots, Slots
  <2>2. k \in FreeSlots(l)
    BY <2>1, <1>1, MinOfNaturals
  <2>3. k \in Slots /\ slots[l][k] = None
    BY <2>2 DEF FreeSlots
  <2> HIDE DEF k
  <2> DEFINE row == [slots[l] EXCEPT ![k] = u]
  <2>4. slots' = [slots EXCEPT ![l] = row]
    BY <1>2 DEF k
  <2>5. /\ row[k] = u
        /\ \A i \in Slots : slots[l][i] # None => row[i] = slots[l][i]
    BY <1>1, <2>3 DEF StateTypeOK, LobbyTypeOK
  <2> HIDE DEF row
  <2>6. slots'[l] = row /\ \A m \in Lobbies : m # l => slots'[m] = slots[m]
    BY <1>1, <2>4 DEF StateTypeOK, LobbyTypeOK
  <2>7. ASSUME NEW v \in Users, lobbyOf'[v] # None
        PROVE  \E i \in Slots : slots'[lobbyOf'[v]][i] = v
    <3>1. CASE v = u
      BY <3>1, <1>3, <2>3, <2>5, <2>6
    <3>2. CASE v # u
      <4>1. lobbyOf'[v] = lobbyOf[v] /\ lobbyOf[v] \in Lobbies /\ lobbyOf[v] # None
        BY <3>2, <2>7, <1>1, <1>3 DEF StateTypeOK, UserTypeOK
      <4>2. PICK i \in Slots : slots[lobbyOf[v]][i] = v
        BY <4>1 DEF RoomInv, RemoveUserStaysInside, RemoveUserOverruns
      <4>3. slots'[lobbyOf[v]][i] = v
        BY <4>1, <4>2, <2>5, <2>6, NoneIsNoIndex
      <4> QED BY <4>1, <4>3
    <3> QED BY <3>1, <3>2
  <2> QED BY <2>7 DEF RemoveUserStaysInside, RemoveUserOverruns
<1> QED BY <1>4, <1>5, <1>6 DEF RoomInv

(* LobbyLeave: the seat and the lobby index both stay behind. *)
LEMMA LobbyLeaveKeepsRooms ==
  ASSUME ServerInv, RoomInv, NEW s \in Sessions, LobbyLeaveError(s) = "NONE",
         UNCHANGED <<poolVars, roomVars, connVars>>,
         NEW u \in Users, NEW l \in Lobbies, u = sessionDic[s], l = lobbyOf[u],
         LeaveUser(l, u), UserLeaveLobby(u)
  PROVE  RoomInv'
<1>1. domain[u] = "LOBBY" /\ StateTypeOK
  BY LobbyErrorNone DEF LobbyLeaveError, ServerInv
<1>2. /\ domain' = [domain EXCEPT ![u] = "LOGIN"]
      /\ UNCHANGED <<slots, lobbyOf, roomOf, used, members, createdRooms>>
  BY DEF LeaveUser, UserLeaveLobby, RemoveUserFromSlot, roomVars
<1>3. /\ domain'[u] = "LOGIN"
      /\ \A v \in Users : v # u => domain'[v] = domain[v]
  BY <1>1, <1>2 DEF StateTypeOK, UserTypeOK
<1>4. RoomMembership'
  BY <1>1, <1>2, <1>3, OutsideRooms DEF RoomInv
<1>5. CreatedReach' /\ RemoveUserStaysInside'
  BY <1>2, SeatsKept DEF RoomInv, CreatedReach
<1> QED BY <1>4, <1>5 DEF RoomInv

(* RoomEnter: a created room was empty, another has a seat left. *)
LEMMA RoomEnterKeepsRooms ==
  ASSUME ServerInv, RoomInv, NEW s \in Sessions, NEW create \in BOOLEAN, NEW r,
         RoomEnterError(s, create, r) = "NONE",
         UNCHANGED <<poolVars, lobbyVars, connVars>>,
         NEW u \in Users, NEW l \in Lobbies, NEW no \in RoomNos,
         u = sessionDic[s], l = lobbyOf[u],
         no = IF create THEN UnusedRoomNo(l) ELSE r,
         IF create
         THEN Len(createdRooms) < MaxRoomCreations /\ CreateRoomFor(<<l, no>>, u)
         ELSE RoomEnterUser(<<l, no>>, u),
         UserEnterRoom(u, l, no)
  PROVE  RoomInv'
<1> DEFINE rm == <<l, no>>
<1>1. domain[u] = "LOBBY" /\ StateTypeOK
  BY LobbyErrorNone DEF RoomEnterError, ServerInv
<1>2. rm \in Rooms /\ MaxRoomUserCount \in Nat \ {0} /\ members[rm] \in Seq(Users)
  BY <1>1, ConfigAssumption DEF Rooms, StateTypeOK, RoomTypeOK
<1>3. RemoveUserStaysInside'
  <2>1. slots' = slots /\ \A v \in Users : lobbyOf'[v] = lobbyOf[v]
    BY <1>1 DEF lobbyVars, UserEnterRoom, StateTypeOK, UserTypeOK
  <2> QED BY <2>1, SeatsKept DEF RoomInv
<1>4. CASE create
  <2>1. /\ CreateRoomFor(rm, u) /\ no = UnusedRoomNo(l)
        /\ Len(createdRooms) < MaxRoomCreations
    BY <1>4
  <2>2. CreatedReach' /\ ~used[rm]
    BY <1>1, <2>1, CreationIsCovered DEF RoomInv
  <2>3. Len(members[rm]) < MaxRoomUserCount
    BY <1>2, <2>2 DEF RoomInv, RoomMembership
  <2>4. /\ members' = [members EXCEPT ![rm] = Append(@, u)]
        /\ used' = [used EXCEPT ![rm] = TRUE]
    BY <2>1 DEF CreateRoomFor, RegisterRoom
  <2>5. RoomMembership'
    BY <1>1, <2>3, <2>4, JoinRoom DEF RoomInv
  <2> QED BY <1>3, <2>2, <2>5 DEF RoomInv
<1>5. CASE ~create
  <2>1. RoomEnterUser(rm, u) /\ no = r
    BY <1>5
  <2>2. RoomEnterUserError(rm) = "NONE"
    BY <1>5, <2>1 DEF RoomEnterError
  <2>3. used[rm] /\ Len(members[rm]) # MaxRoomUserCount
    BY <2>2 DEF RoomEnterUserError
  <2>4. Len(members[rm]) < MaxRoomUserCount
    BY <1>2, <2>3 DEF RoomInv, RoomMembership
  <2>5. /\ members' = [members EXCEPT ![rm] = Append(@, u)]
        /\ used' = used /\ createdRooms' = createdRooms
    BY <2>1 DEF RoomEnterUser
  <2>6. used' = [used EXCEPT ![rm] = TRUE]
    BY <1>1, <1>2, <2>3, <2>5 DEF StateTypeOK, RoomTypeOK
  <2>7. RoomMembership'
    BY <1>1, <2>4, <2>5, <2>6, JoinRoom DEF RoomInv
  <2>8. CreatedReach'
    BY <2>5 DEF RoomInv, CreatedReach
  <2> QED BY <1>3, <2>7, <2>8 DEF RoomInv
<1> QED BY <1>4, <1>5

(* RoomLeave. *)
LEMMA RoomLeaveKeepsRooms ==
  ASSUME ServerInv, RoomInv, NEW s \in Sessions, RoomLeaveError(s) = "NONE",
         UNCHANGED <<poolVars, lobbyVars, connVars>>,
         NEW u \in Users, NEW l \in Lobbies, NEW r \in RoomNos, IsAt(s, u, l, r),
         RoomLeaveUser(<<l, r>>, u), UserEnterLobby(u, l)
  PROVE  RoomInv'
<1> DEFINE rm == <<l, r>>
<1>1. /\ domain[u] = "ROOM" /\ l = lobbyOf[u] /\ r = roomOf[u] /\ rm \in Rooms
      /\ RoomLeaveUserError(rm, u) = "NONE" /\ StateTypeOK
  BY RoomLeaveErrorNone DEF ServerInv
<1>2. /\ domain' = [domain EXCEPT ![u] = "LOBBY"]
      /\ lobbyOf' = [lobbyOf EXCEPT ![u] = l] /\ roomOf' = roomOf /\ slots' = slots
  BY DEF UserEnterLobby, lobbyVars
<1>3. /\ domain'[u] = "LOBBY"
      /\ \A v \in Users : lobbyOf'[v] = lobbyOf[v]
      /\ \A v \in Users : v # u => domain'[v] = domain[v]
  BY <1>1, <1>2 DEF StateTypeOK, UserTypeOK
<1>4. RoomMembership'
  BY <1>1, <1>2, <1>3, QuitRoom DEF RoomInv
<1>5. used[rm]
  BY <1>1 DEF RoomLeaveUserError
<1>6. CreatedReach'
  BY <1>1, <1>5, RoomLeaveUserEffect DEF RoomInv, CreatedReach, StateTypeOK, RoomTypeOK
<1>7. RemoveUserStaysInside'
  BY <1>2, <1>3, SeatsKept DEF RoomInv
<1> QED BY <1>4, <1>6, <1>7 DEF RoomInv

(* A step that touches none of these variables. *)
LEMMA UntouchedKeepsRooms ==
  ASSUME RoomInv, UNCHANGED <<domain, lobbyOf, roomOf, slots, used, members, createdRooms>>
  PROVE  RoomInv'
  BY DEF RoomInv, RoomMembership, CreatedReach, RemoveUserStaysInside,
         RemoveUserOverruns, IsMember

(* Every request keeps RoomInv. *)
LEMMA RequestKeepsRooms ==
  ASSUME ServerInv, RoomInv, NEW s \in Sessions, Request(s)
  PROVE  RoomInv'
<1>1. UNCHANGED logicVars => RoomInv'
  BY UntouchedKeepsRooms DEF logicVars, userVars, lobbyVars, roomVars
<1>2. ASSUME NEW rm, StartGame(rm) PROVE RoomInv'
  BY <1>2, UntouchedKeepsRooms DEF StartGame, userVars, lobbyVars
<1> QED
  BY <1>1, <1>2, RequestCases, AddUserKeepsRooms, LobbyEnterKeepsRooms,
     LobbyLeaveKeepsRooms, RoomEnterKeepsRooms, RoomLeaveKeepsRooms

(* RoomInv holds when the server has started. *)
LEMMA InitEstablishesRooms == Init => RoomInv
<1> SUFFICES ASSUME Init PROVE RoomInv
  OBVIOUS
<1>1. /\ domain  = [u \in Users |-> "NONE"]
      /\ lobbyOf = [u \in Users |-> None]
      /\ used    = [rm \in Rooms |-> FALSE]
      /\ members = [rm \in Rooms |-> <<>>]
      /\ MaxRoomUserCount \in Nat
  BY ConfigAssumption DEF Init, UserInit, RoomInit
<1>2. RoomMembership
  BY <1>1 DEF RoomMembership, IsMember
<1>3. CreatedReach
  BY <1>1, RequestAssumption DEF Init, RoomInit, CreatedReach
<1>4. RemoveUserStaysInside
  BY <1>1 DEF RemoveUserStaysInside
<1> QED BY <1>2, <1>3, <1>4 DEF RoomInv

(* RoomInv holds in every state the server reaches. *)
THEOREM RoomInvariant == Spec => []RoomInv
<1>1. Init => RoomInv
  BY InitEstablishesRooms
<1>2. ServerInv /\ RoomInv /\ [Next]_vars => RoomInv'
  <2> SUFFICES ASSUME ServerInv, RoomInv, [Next]_vars PROVE RoomInv'
    OBVIOUS
  <2>1. ASSUME NEW s \in Sessions, NtfSysConnctSession(s) PROVE RoomInv'
    BY <2>1, UntouchedKeepsRooms
    DEF NtfSysConnctSession, userVars, lobbyVars, roomVars
  <2>2. ASSUME NEW s \in Sessions, NtfSysCloseSession(s) PROVE RoomInv'
    BY <2>2, CloseUserKeepsRooms, UntouchedKeepsRooms
    DEF NtfSysCloseSession, userVars, lobbyVars, roomVars
  <2>3. ASSUME NEW s \in Sessions, Request(s) PROVE RoomInv'
    BY <2>3, RequestKeepsRooms
  <2>4. CASE UNCHANGED vars
    BY <2>4, UntouchedKeepsRooms DEF vars
  <2> QED BY <2>1, <2>2, <2>3, <2>4 DEF Next
<1> QED BY <1>1, <1>2, ServerInvariant, PTL DEF Spec

(* Who is in a room is the same in the room and in the user objects; a room is *)
(* in use exactly while somebody is in it, and never overfull: RoomMembership. *)
THEOREM RoomsAgree == Spec => []RoomMembership
<1>1. RoomInv => RoomMembership
  BY DEF RoomInv
<1> QED BY <1>1, RoomInvariant, PTL

(* The cast keeps a count that fits ... *)
LEMMA ShortKeepsCount ==
  ASSUME NEW n \in Nat, n <= 32767
  PROVE  AsShort(n) = n
<1>1. n % 65536 = n
  BY SMT
<1> QED BY <1>1 DEF AsShort

(* ... and turns the next one negative. *)
LEMMA ShortTurnsNegative ==
  ASSUME NEW n \in Nat, n = 32768
  PROVE  AsShort(n) \in Int /\ AsShort(n) < 0
<1>1. n % 65536 = n
  BY SMT
<1> QED BY <1>1 DEF AsShort

(* RoomUserList never needs the null check it does not have, for as long as *)
(* no more rooms are created than a short counts: RoomManagerCovers.        *)
THEOREM CreatedRoomsCover == Spec => []RoomManagerCovers
<1>1. ServerInv /\ RoomInv => RoomManagerCovers
  <2> SUFFICES ASSUME ServerInv, RoomInv, NEW rm \in Rooms, used[rm]
               PROVE  RoomManagerFinds(rm[2])
    BY DEF RoomManagerCovers
  <2> DEFINE n == Len(createdRooms)
  <2>1. createdRooms \in Seq(Rooms)
    BY DEF ServerInv, StateTypeOK, RoomTypeOK
  <2>2. n \in Nat
    BY <2>1
  <2>3. n <= MaxRoomCreations /\ rm[2] < n
    BY DEF RoomInv, CreatedReach
  <2>4. rm[2] \in Nat
    BY DEF Rooms, RoomNos
  <2> HIDE DEF n
  <2>5. MaxRoomCreations \in Nat /\ MaxRoomCreations <= 32767
    BY RequestAssumption
  <2>6. AsShort(n) = n
    BY <2>2, <2>3, <2>5, ShortKeepsCount
  <2>7. rm[2] >= 0 /\ rm[2] < AsShort(n)
    BY <2>3, <2>4, <2>6
  <2> QED BY <2>7 DEF RoomManagerFinds, n
<1> QED BY <1>1, ServerInvariant, RoomInvariant, PTL

(* The bound of RequestAssumption is sharp: with a list of one room more,   *)
(* RoomManagerFinds, GetRoom's check, lets no room number pass.             *)
LEMMA ListTooLongIsBlind ==
  ASSUME NEW no \in RoomNos, NEW n \in Nat, n = 32768
  PROVE  ~(no < AsShort(n))
<1>1. AsShort(n) \in Int /\ AsShort(n) < 0
  BY ShortTurnsNegative
<1>2. no \in Nat
  BY ConfigAssumption DEF RoomNos
<1> QED BY <1>1, <1>2

(* Lobby::RemoveUser never writes through end(): RemoveUserStaysInside. *)
THEOREM SeatsAreFound == Spec => []RemoveUserStaysInside
<1>1. RoomInv => RemoveUserStaysInside
  BY DEF RoomInv
<1> QED BY <1>1, RoomInvariant, PTL

(* A step that keeps the seats, and adds nobody to a lobby. *)
LEMMA SeatsStayUsed ==
  ASSUME NEW l \in Lobbies, FreeSlots(l) = {},
         slots' = slots, lobbyUsers'[l] \subseteq lobbyUsers[l]
  PROVE  FreeSlots(l)' = {} /\ lobbyUsers'[l] \subseteq lobbyUsers[l]
  BY DEF FreeSlots

(* A lobby whose seats have all been used stays shut: UsedUpLobbiesStayShut. *)
(* LobbyEnter is refused there, and no other step touches a seat or adds to  *)
(* the lobby's users.                                                        *)
THEOREM UsedUpLobbiesAreShut == Spec => UsedUpLobbiesStayShut
<1> DEFINE Shut(l) == FreeSlots(l)' = {} /\ lobbyUsers'[l] \subseteq lobbyUsers[l]
<1>1. ServerInv /\ [Next]_vars => [\A l \in Lobbies : FreeSlots(l) = {} => Shut(l)]_vars
  <2> SUFFICES ASSUME ServerInv, Next, NEW l \in Lobbies, FreeSlots(l) = {}
               PROVE  Shut(l)
    OBVIOUS
  <2>1. StateTypeOK
    BY DEF ServerInv
  <2>2. ASSUME UNCHANGED lobbyVars PROVE Shut(l)
    BY <2>2, SeatsStayUsed DEF lobbyVars
  <2>3. ASSUME NEW k, NEW u, LeaveUser(k, u) PROVE Shut(l)
    <3>1. slots' = slots /\ lobbyUsers' = [lobbyUsers EXCEPT ![k] = @ \ {u}]
      BY <2>3 DEF LeaveUser, RemoveUserFromSlot
    <3>2. lobbyUsers'[l] \subseteq lobbyUsers[l]
      BY <2>1, <3>1 DEF StateTypeOK, LobbyTypeOK
    <3> QED BY <3>1, <3>2, SeatsStayUsed
  <2>4. ASSUME NEW s \in Sessions, NtfSysConnctSession(s) PROVE Shut(l)
    BY <2>2, <2>4 DEF NtfSysConnctSession
  <2>5. ASSUME NEW s \in Sessions, NtfSysCloseSession(s) PROVE Shut(l)
    BY <2>2, <2>3, <2>5 DEF NtfSysCloseSession, CloseUser
  <2>6. ASSUME NEW s \in Sessions, NEW k, LobbyEnterError(s, k) = "NONE",
               NEW u, u = sessionDic[s], EnterUser(k, u)
        PROVE  Shut(l)
    <3>1. FreeSlots(k) # {} /\ k # l
      BY <2>6 DEF LobbyEnterError, EnterUserError
    <3>2. /\ slots' = [slots EXCEPT ![k] = [@ EXCEPT ![Min(FreeSlots(k))] = u]]
          /\ lobbyUsers' = [lobbyUsers EXCEPT ![k] = @ \cup {u}]
      BY <2>6 DEF EnterUser, AddUserToSlot
    <3>3. slots'[l] = slots[l] /\ lobbyUsers'[l] = lobbyUsers[l]
      BY <2>1, <3>1, <3>2 DEF StateTypeOK, LobbyTypeOK
    <3> QED BY <3>3 DEF FreeSlots
  <2>7. ASSUME NEW s \in Sessions, Request(s) PROVE Shut(l)
    <3>1. UNCHANGED logicVars => Shut(l)
      BY <2>2 DEF logicVars
    <3>2. ASSUME NEW rm, StartGame(rm) PROVE Shut(l)
      BY <2>2, <3>2 DEF StartGame
    <3> HIDE DEF Shut
    <3> QED BY <2>2, <2>3, <2>6, <2>7, <3>1, <3>2, RequestCases
  <2> QED BY <2>4, <2>5, <2>7 DEF Next
<1> QED BY <1>1, ServerInvariant, PTL DEF Spec, UsedUpLobbiesStayShut

-----------------------------------------------------------------------------
(* Games *)

(* Nothing but RoomMasterGameStart and RoomGameStart changes a game. *)
LEMMA GameChanges ==
  ASSUME Next, game' # game
  PROVE  \E s \in Sessions :
           \/ /\ MasterGameError(s) = "NONE"
              /\ StartGame(RoomOf(sessionDic[s]))
              /\ sent' = <<NotifyUser("ROOM_MASTER_GAME_STATE_RES",
                             RoomListeners(RoomOf(sessionDic[s]), sessionDic[s]), NoID),
                           Reply(s, "ROOM_MASTER_GAME_STATE_RES", "NONE")>>
           \/ GameStartError(s) = "NONE" /\ StartGame(RoomOf(sessionDic[s]))
<1>1. ASSUME NEW s \in Sessions, NtfSysConnctSession(s) PROVE FALSE
  BY <1>1 DEF NtfSysConnctSession, roomVars
<1>2. ASSUME NEW s \in Sessions, NtfSysCloseSession(s) PROVE FALSE
  BY <1>2 DEF NtfSysCloseSession, CloseUser, RoomLeaveUser, roomVars
<1>3. PICK s \in Sessions : Request(s)
  BY <1>1, <1>2 DEF Next
<1> QED
  BY <1>3, RequestCases
  DEF logicVars, roomVars, CreateRoomFor, RegisterRoom, RoomEnterUser, RoomLeaveUser

(* GameError lets only the first of exactly two members through. *)
LEMMA GameErrorNone ==
  ASSUME ServerInv, RoomInv, NEW s \in Sessions, GameError(s) = "NONE"
  PROVE  LET rm == RoomOf(sessionDic[s])
         IN  /\ rm \in Rooms
             /\ sessionDic[s] \in Users /\ sessionOf[sessionDic[s]] = s
             /\ \E v \in Users :
                  /\ members[rm] = <<sessionDic[s], v>>
                  /\ sessionDic[sessionOf[v]] = v
                  /\ sessionOf[v] \in RoomListeners(rm, sessionDic[s])
<1> DEFINE u == sessionDic[s]
           rm == <<lobbyOf[u], roomOf[u]>>
<1>1. /\ RoomError(s, "ROOM_CHAT_INVALID_DOMAIN", "ROOM_CHAT_INVALID_LOBBY_INDEX") = "NONE"
      /\ IsMaster(rm, u) /\ Len(members[rm]) = 2
  BY DEF GameError
<1>2. /\ LobbyError(s, "ROOM", "ROOM_CHAT_INVALID_DOMAIN",
                    "ROOM_CHAT_INVALID_LOBBY_INDEX") = "NONE"
      /\ roomOf[u] \in RoomNos
  BY <1>1 DEF RoomError
<1>3. /\ u \in Users /\ sessionOf[u] = s /\ domain[u] = "ROOM" /\ lobbyOf[u] \in Lobbies
  BY <1>2, LobbyErrorNone
<1>4. rm \in Rooms
  BY <1>2, <1>3 DEF Rooms
<1> DEFINE q == members[rm]
<1>5. q \in Seq(Users)
  BY <1>4 DEF ServerInv, StateTypeOK, RoomTypeOK
<1>6. q[1] = u /\ q[2] \in Users /\ q = <<u, q[2]>>
  BY <1>1, <1>5 DEF IsMaster
<1>7. q[2] # u /\ IsMember(rm, q[2])
  <2>1. 1 \in DOMAIN q /\ 2 \in DOMAIN q
    BY <1>1, <1>5
  <2> QED BY <2>1, <1>4, <1>6 DEF RoomInv, RoomMembership, IsMember
<1>8. domain[q[2]] = "ROOM"
  BY <1>4, <1>6, <1>7 DEF RoomInv, RoomMembership
<1>9. sessionDic[sessionOf[q[2]]] = q[2]
  BY <1>6, <1>8 DEF ServerInv, LobbyMembership
<1>10. sessionOf[q[2]] \in RoomListeners(rm, u)
  <2>1. 2 \in DOMAIN members[rm]
    BY <1>1, <1>5
  <2> QED BY <2>1, <1>7 DEF RoomListeners
<1> QED BY <1>3, <1>4, <1>6, <1>9, <1>10 DEF RoomOf

(* Every change of a game is the master's of two live members, both of whom   *)
(* hear of it: GameStartIsShared.                                              *)
THEOREM GameStartsAreShared == Spec => GameStartIsShared
<1> DEFINE Shared ==
      \A rm \in Rooms : game'[rm] # game[rm] =>
        \E u, v \in Users :
          /\ members[rm] = <<u, v>>
          /\ sessionDic[sessionOf[v]] = v
          /\ Reply(sessionOf[u], "ROOM_MASTER_GAME_STATE_RES", "NONE") \in SentNow
          /\ Told("ROOM_MASTER_GAME_STATE_RES", NoID, {sessionOf[v]})
<1>1. ServerInv /\ RoomInv /\ [Next]_vars => [Shared]_vars
  <2> SUFFICES ASSUME ServerInv, RoomInv, Next, NEW rm \in Rooms, game'[rm] # game[rm]
               PROVE  \E u, v \in Users :
                        /\ members[rm] = <<u, v>>
                        /\ sessionDic[sessionOf[v]] = v
                        /\ Reply(sessionOf[u], "ROOM_MASTER_GAME_STATE_RES", "NONE") \in SentNow
                        /\ Told("ROOM_MASTER_GAME_STATE_RES", NoID, {sessionOf[v]})
    OBVIOUS
  <2>1. game \in [Rooms -> GameStates]
    BY DEF ServerInv, StateTypeOK, RoomTypeOK
  <2>2. PICK s \in Sessions :
          \/ /\ MasterGameError(s) = "NONE"
             /\ StartGame(RoomOf(sessionDic[s]))
             /\ sent' = <<NotifyUser("ROOM_MASTER_GAME_STATE_RES",
                            RoomListeners(RoomOf(sessionDic[s]), sessionDic[s]), NoID),
                          Reply(s, "ROOM_MASTER_GAME_STATE_RES", "NONE")>>
          \/ GameStartError(s) = "NONE" /\ StartGame(RoomOf(sessionDic[s]))
    BY GameChanges
  <2>3. rm = RoomOf(sessionDic[s]) /\ game'[rm] = "STARTING"
    BY <2>1, <2>2 DEF StartGame
  <2>4. GameStartError(s) # "NONE"
    BY <2>3 DEF GameStartError, NowState, RoomOf
  <2> DEFINE u == sessionDic[s]
             note == NotifyUser("ROOM_MASTER_GAME_STATE_RES", RoomListeners(rm, u), NoID)
             answer == Reply(s, "ROOM_MASTER_GAME_STATE_RES", "NONE")
  <2>5. MasterGameError(s) = "NONE" /\ sent' = <<note, answer>>
    BY <2>2, <2>3, <2>4
  <2>6. GameError(s) = "NONE"
    BY <2>5 DEF MasterGameError
  <2>7. u \in Users /\ sessionOf[u] = s
    BY <2>6, GameErrorNone
  <2>8. PICK v \in Users : /\ members[rm] = <<u, v>>
                           /\ sessionDic[sessionOf[v]] = v
                           /\ sessionOf[v] \in RoomListeners(rm, u)
    BY <2>3, <2>6, GameErrorNone
  <2>9. /\ note.pkt = "ROOM_MASTER_GAME_STATE_RES" /\ note.who = NoID
        /\ note.to = RoomListeners(rm, u)
    BY DEF NotifyUser, Send
  <2> HIDE DEF note, answer
  <2>10. note \in SentNow /\ answer \in SentNow
    BY <2>5 DEF SentNow
  <2>11. Told("ROOM_MASTER_GAME_STATE_RES", NoID, {sessionOf[v]})
    BY <2>8, <2>9, <2>10 DEF Told
  <2> QED BY <2>7, <2>8, <2>10, <2>11 DEF answer
<1> QED BY <1>1, ServerInvariant, RoomInvariant, PTL DEF Spec, GameStartIsShared

-----------------------------------------------------------------------------
(* What the handlers hand to SendData are messages *)

(* Every check of a request answers with an ErrorCode. *)
LEMMA ErrorsAreCodes ==
  ASSUME NEW s \in Sessions
  PROVE  /\ "NONE" \in ErrorCodes
         /\ \A id : AddUserError(id) \in ErrorCodes /\ WisperError(s, id) \in ErrorCodes
         /\ \A d : \A e \in ErrorCodes : DomainError(s, d, e) \in ErrorCodes
         /\ \A d : \A e1, e2 \in ErrorCodes : LobbyError(s, d, e1, e2) \in ErrorCodes
         /\ \A e1, e2 \in ErrorCodes : RoomError(s, e1, e2) \in ErrorCodes
         /\ \A l : LobbyEnterError(s, l) \in ErrorCodes
         /\ LobbyLeaveError(s) \in ErrorCodes
         /\ \A create, r : RoomEnterError(s, create, r) \in ErrorCodes
         /\ RoomLeaveError(s) \in ErrorCodes
         /\ \A rm, start : RoomSendUserListError(rm, start) \in ErrorCodes
         /\ MasterGameError(s) \in ErrorCodes /\ GameStartError(s) \in ErrorCodes
<1>c. {"NONE", "LOBBY_ENTER_INVALID_DOMAIN", "LOBBY_ENTER_INVALID_LOBBY_INDEX",
       "LOBBY_LEAVE_INVALID_DOMAIN", "LOBBY_LEAVE_INVALID_LOBBY_INDEX",
       "LOBBY_WHISPER_CHAT_INVALID_SEND_USER", "LOBBY_WHISPER_USER_DIFFERENT_DOMAIN",
       "LOBBY_CHAT_INVALID_DOMAIN", "LOBBY_CHAT_INVALID_LOBBY_INDEX",
       "ROOM_ENTER_INVALID_DOMAIN", "ROOM_ENTER_INVALID_LOBBY_INDEX",
       "ROOM_ENTER_INVALID_ROOM_INDEX", "ROOM_ENTER_EMPTY_ROOM",
       "ROOM_LEAVE_INVALID_DOMAIN", "ROOM_CHAT_INVALID_DOMAIN",
       "ROOM_CHAT_INVALID_LOBBY_INDEX", "ROOM_GAME_USER_INVALID_MASTER",
       "ROOM_GAME_USER_COUNT", "ROOM_GAME_STATE"} \subseteq ErrorCodes
  BY DEF ErrorCodes
<1>1. /\ GetUserError(s) \in ErrorCodes
      /\ \A id : AddUserError(id) \in ErrorCodes
      /\ \A l, u : EnterUserError(l, u) \in ErrorCodes /\ LeaveUserError(l, u) \in ErrorCodes
      /\ \A rm : RoomEnterUserError(rm) \in ErrorCodes
      /\ \A rm, u : RoomLeaveUserError(rm, u) \in ErrorCodes
      /\ \A rm, start : RoomSendUserListError(rm, start) \in ErrorCodes
  BY DEF ErrorCodes, GetUserError, AddUserError, EnterUserError, LeaveUserError,
         RoomEnterUserError, RoomLeaveUserError, RoomSendUserListError
<1>2. \A d : \A e \in ErrorCodes : DomainError(s, d, e) \in ErrorCodes
  BY <1>c, <1>1 DEF DomainError
<1>3. \A d : \A e1, e2 \in ErrorCodes : LobbyError(s, d, e1, e2) \in ErrorCodes
  BY <1>c, <1>2 DEF LobbyError
<1>4. \A e1, e2 \in ErrorCodes : RoomError(s, e1, e2) \in ErrorCodes
  BY <1>c, <1>3 DEF RoomError
<1>5. \A l : LobbyEnterError(s, l) \in ErrorCodes
  BY <1>c, <1>1, <1>2 DEF LobbyEnterError
<1>6. LobbyLeaveError(s) \in ErrorCodes
  BY <1>c, <1>1, <1>3 DEF LobbyLeaveError
<1>7. \A id : WisperError(s, id) \in ErrorCodes
  BY <1>c, <1>1, <1>3 DEF WisperError
<1>8. \A create, r : RoomEnterError(s, create, r) \in ErrorCodes
  BY <1>c, <1>1, <1>3 DEF RoomEnterError
<1>9. RoomLeaveError(s) \in ErrorCodes
  BY <1>c, <1>1, <1>4 DEF RoomLeaveError
<1>10. GameError(s) \in ErrorCodes
  BY <1>c, <1>4 DEF GameError
<1>11. MasterGameError(s) \in ErrorCodes /\ GameStartError(s) \in ErrorCodes
  BY <1>c, <1>10 DEF MasterGameError, GameStartError
<1> QED BY <1>c, <1>1, <1>2, <1>3, <1>4, <1>5, <1>6, <1>7, <1>8, <1>9, <1>11

(* A refusal is one message. *)
LEMMA RefusalTyped ==
  ASSUME NEW s \in Sessions, NEW pkt \in PacketIDs, NEW err \in ErrorCodes, Refuse(s, pkt, err)
  PROVE  sent' \in Seq(Message)
<1>1. Reply(s, pkt, err) \in Message /\ sent' = <<Reply(s, pkt, err)>>
  BY ReplyIsMessage DEF Refuse
<1> QED BY <1>1, MessagesInARow

(* A broadcast in a room goes to the sessions its members name. *)
LEMMA RoomListenersAreSessions ==
  ASSUME StateTypeOK, NEW rm \in Rooms, NEW pass
  PROVE  RoomListeners(rm, pass) \in SUBSET (Sessions \cup {None})
<1>1. members[rm] \in Seq(Users) /\ sessionOf \in [Users -> Sessions \cup {None}]
  BY DEF StateTypeOK, RoomTypeOK, UserTypeOK
<1>2. \A i \in DOMAIN members[rm] : members[rm][i] \in Users
  BY <1>1
<1> QED BY <1>1, <1>2 DEF RoomListeners

(* The same after a step, and what the lobby of the room is told. *)
LEMMA AudiencesAfterwards ==
  ASSUME StateTypeOK', NEW rm \in Rooms, NEW l \in Lobbies, NEW pass
  PROVE  /\ RoomListeners(rm, pass)' \in SUBSET (Sessions \cup {None})
         /\ RoomLeaveListeners(rm)' \in SUBSET (Sessions \cup {None})
         /\ LobbyListeners(l, pass)' \in SUBSET (Sessions \cup {None})
         /\ RoomInfo(rm)' \in Int \X Int
<1>1. /\ members'[rm] \in Seq(Users)
      /\ sessionOf' \in [Users -> Sessions \cup {None}]
      /\ lobbyUsers'[l] \in SUBSET Users
  BY DEF StateTypeOK, RoomTypeOK, UserTypeOK, LobbyTypeOK
<1>2. \A i \in DOMAIN members'[rm] : members'[rm][i] \in Users
  BY <1>1
<1>3. \A p : RoomListeners(rm, p)' \in SUBSET (Sessions \cup {None})
  BY <1>1, <1>2 DEF RoomListeners
<1>4. RoomLeaveListeners(rm)' \in SUBSET (Sessions \cup {None})
  BY <1>1, <1>2 DEF RoomLeaveListeners, RoomListeners
<1>5. LobbyListeners(l, pass)' \in SUBSET (Sessions \cup {None})
  BY <1>1 DEF LobbyListeners
<1>6. RoomInfo(rm)' \in Int \X Int
  <2>1. rm[2] \in Int /\ Len(members'[rm]) \in Int
    BY <1>1, ConfigAssumption DEF Rooms, RoomNos
  <2> QED BY <2>1 DEF RoomInfo
<1> QED BY <1>3, <1>4, <1>5, <1>6

(* What a lobby is told of a room is a message. *)
LEMMA RoomChangedIsMessage ==
  ASSUME NEW to \in SUBSET (Sessions \cup {None}), NEW info \in Int \X Int
  PROVE  RoomChanged(to, info) \in Message
<1>1. /\ "ROOM_CHANGED_INFO_NTF" \in PacketIDs /\ "NONE" \in ErrorCodes
      /\ {} \in SUBSET (Int \X (Int \cup UserIDs \cup {NoID}))
  BY DEF PacketIDs, ErrorCodes
<1> QED BY <1>1 DEF RoomChanged, Send, Message

(* Four messages in a row. *)
LEMMA FourInARow ==
  ASSUME NEW a \in Message, NEW b \in Message, NEW c \in Message, NEW d \in Message
  PROVE  <<a, b, c, d>> \in Seq(Message)
<1> DEFINE M == Message
<1> HIDE DEF M
<1>1. a \in M /\ b \in M /\ c \in M /\ d \in M
  BY DEF M
<1>2. <<a, b, c, d>> \in Seq(M)
  BY <1>1
<1> QED BY <1>2 DEF M

(* One page of the rooms of a lobby. *)
LEMMA RoomListIsMessage ==
  ASSUME StateTypeOK, NEW s \in Sessions, NEW l \in Lobbies, NEW start
  PROVE  SendRoomList(s, l, start) \in Seq(Message)
<1> DEFINE page == PageOf({r \in RoomNos : r >= start /\ used[<<l, r>>]}, RoomPageSize)
           list == {<<r, Len(members[<<l, r>>])>> : r \in page}
           end  == IsLastPage(page, RoomPageSize, MaxRoomCountByLobby - 1)
<1>1. \A r \in page : r \in RoomNos
  BY DEF PageOf
<1>2. \A r \in page : r \in Int /\ <<l, r>> \in Rooms
  BY <1>1, ConfigAssumption DEF RoomNos, Rooms
<1>3. end \in BOOLEAN
  BY DEF IsLastPage
<1> HIDE DEF page, end
<1>4. \A r \in page : Len(members[<<l, r>>]) \in Int
  BY <1>2 DEF StateTypeOK, RoomTypeOK
<1>5. list \in SUBSET (Int \X (Int \cup UserIDs \cup {NoID}))
  <2>1. ASSUME NEW r \in page
        PROVE  <<r, Len(members[<<l, r>>])>> \in Int \X (Int \cup UserIDs \cup {NoID})
    <3> DEFINE n == Len(members[<<l, r>>])
    <3>1. r \in Int /\ n \in Int
      BY <1>2, <1>4
    <3> HIDE DEF n
    <3>2. <<r, n>> \in Int \X (Int \cup UserIDs \cup {NoID})
      BY <3>1
    <3> QED BY <3>2 DEF n
  <2> QED BY <2>1, Zenon
<1> HIDE DEF list
<1>6. ReplyList(s, "LOBBY_ENTER_ROOM_LIST_RES", list, end) \in Message
  BY <1>3, <1>5, ListIsMessage DEF PacketIDs
<1>7. /\ <<ReplyList(s, "LOBBY_ENTER_ROOM_LIST_RES", list, end)>> \in Seq(Message)
      /\ <<>> \in Seq(Message)
  BY <1>6, MessagesInARow
<1> QED BY <1>7 DEF SendRoomList, page, list, end

(* One page of the members of a room: its start is a member's number. *)
LEMMA MemberListIsMessage ==
  ASSUME StateTypeOK, NEW s \in Sessions, NEW rm \in Rooms, NEW start \in Int,
         RoomSendUserListError(rm, start) = "NONE"
  PROVE  RoomSendUserList(s, rm, start) \in Message
<1> DEFINE last == Len(members[rm]) - 1
           page == PageOf(start..last, UserPageSize)
           list == {<<i, idOf[members[rm][i + 1]]>> : i \in page}
           end  == IsLastPage(page, UserPageSize, last)
<1>1. members[rm] \in Seq(Users) /\ idOf \in [Users -> UserIDs \cup {NoID}]
  BY DEF StateTypeOK, RoomTypeOK, UserTypeOK
<1>2. ~(start < 0)
  BY DEF RoomSendUserListError
<1>3. \A i \in page : i \in start..last
  BY DEF PageOf
<1>4. end \in BOOLEAN
  BY DEF IsLastPage
<1> HIDE DEF page, end
<1>5. \A i \in page : i \in Int /\ i + 1 \in 1..Len(members[rm])
  BY <1>1, <1>2, <1>3
<1>6. \A i \in page : members[rm][i + 1] \in Users
  BY <1>1, <1>5
<1>7. list \in SUBSET (Int \X (Int \cup UserIDs \cup {NoID}))
  BY <1>1, <1>5, <1>6
<1> HIDE DEF list
<1>8. ReplyList(s, "ROOM_ENTER_USER_LIST_RES", list, end) \in Message
  BY <1>4, <1>7, ListIsMessage DEF PacketIDs
<1> QED BY <1>8 DEF RoomSendUserList, page, list, end

(* The room RoomUserList follows is one that was created. *)
LEMMA FollowedRoomExists ==
  ASSUME ServerInv, RoomInv, NEW u \in Users, domain[u] = "ROOM"
  PROVE  createdRooms[roomOf[u] + 1] \in Rooms
<1> DEFINE rm == <<lobbyOf[u], roomOf[u]>>
<1>1. lobbyOf[u] \in Lobbies /\ roomOf[u] \in RoomNos
  BY DEF ServerInv, LobbyMembership, RoomInv, RoomMembership
<1>2. rm \in Rooms /\ IsMember(rm, u)
  BY <1>1 DEF Rooms, RoomInv, RoomMembership
<1>3. used[rm]
  BY <1>2 DEF RoomInv, RoomMembership, IsMember
<1>4. roomOf[u] < Len(createdRooms) /\ createdRooms \in Seq(Rooms)
  BY <1>2, <1>3 DEF RoomInv, CreatedReach, ServerInv, StateTypeOK, RoomTypeOK
<1>5. roomOf[u] + 1 \in 1..Len(createdRooms)
  BY <1>1, <1>4, ConfigAssumption DEF RoomNos
<1> QED BY <1>4, <1>5

(* What a handler that only reads and sends hands to SendData. *)
LEMMA ReadingTyped ==
  ASSUME ServerInv, RoomInv, NEW s \in Sessions,
         \/ LobbyList(s) \/ LOBBYChat(s) \/ RoomChat(s)
         \/ \E start \in StartIndexes :
              LobbyRoomList(s, start) \/ LobbyUserList(s, start) \/ RoomUserList(s, start)
         \/ \E id \in UserIDs : LOBBYWisperChat(s, id)
  PROVE  sent' \in Seq(Message)
<1> DEFINE u == sessionDic[s]
<1>t. StateTypeOK /\ PeopleTyped
  BY DEF ServerInv, StateTypeOK, UserTypeOK, LobbyTypeOK, PeopleTyped
<1>c. /\ {"NONE", "LOBBY_LIST_INVALID_DOMAIN", "LOBBY_ROOM_LIST_INVALID_DOMAIN",
          "LOBBY_ROOM_LIST_INVALID_LOBBY_INDEX", "LOBBY_CHAT_INVALID_DOMAIN",
          "LOBBY_CHAT_INVALID_LOBBY_INDEX", "LOBBY_USER_LIST_INVALID_DOMAIN",
          "LOBBY_USER_LIST_INVALID_LOBBY_INDEX", "ROOM_CHAT_INVALID_DOMAIN",
          "ROOM_CHAT_INVALID_LOBBY_INDEX"} \subseteq ErrorCodes
      /\ {"LOBBY_LIST_RES", "LOBBY_ENTER_ROOM_LIST_RES", "LOBBY_CHAT_RES",
          "LOBBY_ENTER_USER_LIST_RES", "LOBBY_WHISPER_CHAT_RES", "ROOM_CHAT_RES",
          "ROOM_CHAT_NTF", "ROOM_ENTER_USER_LIST_RES"} \subseteq PacketIDs
  BY DEF ErrorCodes, PacketIDs
<1>a. \A pkt \in PacketIDs : Reply(s, pkt, "NONE") \in Message
  BY <1>c, ReplyIsMessage
<1>1. ASSUME LobbyList(s) PROVE sent' \in Seq(Message)
  <2>1. CASE Refuse(s, "LOBBY_LIST_RES", DomainError(s, "LOGIN", "LOBBY_LIST_INVALID_DOMAIN"))
    BY <1>c, <2>1, ErrorsAreCodes, RefusalTyped
  <2>2. CASE sent' = <<LobbyListInfo(s)>>
    BY <1>t, <2>2, LobbyListsAreMessages, MessagesInARow
  <2> QED BY <1>1, <2>1, <2>2 DEF LobbyList
<1>2. ASSUME LOBBYChat(s) PROVE sent' \in Seq(Message)
  <2> DEFINE err == LobbyError(s, "LOBBY", "LOBBY_CHAT_INVALID_DOMAIN",
                               "LOBBY_CHAT_INVALID_LOBBY_INDEX")
             note == NotifyChat(lobbyOf[u], sessionOf[u], idOf[u])
  <2>1. CASE Refuse(s, "LOBBY_CHAT_RES", err)
    BY <1>c, <2>1, ErrorsAreCodes, RefusalTyped
  <2>2. CASE err = "NONE" /\ sent' = <<note, Reply(s, "LOBBY_CHAT_RES", "NONE")>>
    <3>1. u \in Users /\ lobbyOf[u] \in Lobbies
      BY <2>2, LobbyErrorNone
    <3>2. note \in Message /\ Reply(s, "LOBBY_CHAT_RES", "NONE") \in Message
      BY <1>t, <1>c, <1>a, <3>1, ChatIsMessage
    <3> QED BY <2>2, <3>2, MessagesInARow
  <2> QED BY <1>2, <2>1, <2>2 DEF LOBBYChat
<1>3. ASSUME RoomChat(s) PROVE sent' \in Seq(Message)
  <2> DEFINE err == RoomError(s, "ROOM_CHAT_INVALID_DOMAIN", "ROOM_CHAT_INVALID_LOBBY_INDEX")
             rm == <<lobbyOf[u], roomOf[u]>>
             note == RoomNotifyChat(rm, sessionOf[u], idOf[u])
  <2>1. CASE Refuse(s, "ROOM_CHAT_RES", err)
    BY <1>c, <2>1, ErrorsAreCodes, RefusalTyped
  <2>2. CASE err = "NONE" /\ sent' = <<note, Reply(s, "ROOM_CHAT_RES", "NONE")>>
    <3>1. /\ LobbyError(s, "ROOM", "ROOM_CHAT_INVALID_DOMAIN",
                        "ROOM_CHAT_INVALID_LOBBY_INDEX") = "NONE"
          /\ roomOf[u] \in RoomNos
      BY <2>2 DEF RoomError
    <3>2. u \in Users /\ rm \in Rooms
      BY <3>1, LobbyErrorNone DEF Rooms
    <3>3. /\ RoomListeners(rm, sessionOf[u]) \in SUBSET (Sessions \cup {None})
          /\ idOf[u] \in UserIDs \cup {NoID}
      BY <1>t, <3>2, RoomListenersAreSessions DEF PeopleTyped
    <3>4. note \in Message /\ Reply(s, "ROOM_CHAT_RES", "NONE") \in Message
      BY <1>c, <1>a, <3>3, NewsIsMessage DEF RoomNotifyChat
    <3> QED BY <2>2, <3>4, MessagesInARow
  <2> QED BY <1>3, <2>1, <2>2 DEF RoomChat
<1>4. ASSUME NEW start \in StartIndexes, LobbyRoomList(s, start) PROVE sent' \in Seq(Message)
  <2> DEFINE err == LobbyError(s, "LOBBY", "LOBBY_ROOM_LIST_INVALID_DOMAIN",
                               "LOBBY_ROOM_LIST_INVALID_LOBBY_INDEX")
  <2>1. CASE Refuse(s, "LOBBY_ENTER_ROOM_LIST_RES", err)
    BY <1>c, <2>1, ErrorsAreCodes, RefusalTyped
  <2>2. CASE err = "NONE" /\ sent' = SendRoomList(s, lobbyOf[u], start)
    BY <1>t, <2>2, LobbyErrorNone, RoomListIsMessage
  <2> QED BY <1>4, <2>1, <2>2 DEF LobbyRoomList
<1>5. ASSUME NEW start \in StartIndexes, LobbyUserList(s, start) PROVE sent' \in Seq(Message)
  <2> DEFINE err == LobbyError(s, "LOBBY", "LOBBY_USER_LIST_INVALID_DOMAIN",
                               "LOBBY_USER_LIST_INVALID_LOBBY_INDEX")
  <2>1. CASE Refuse(s, "LOBBY_ENTER_USER_LIST_RES", err)
    BY <1>c, <2>1, ErrorsAreCodes, RefusalTyped
  <2>2. CASE err = "NONE" /\ sent' = SendUserList(s, lobbyOf[u], start)
    BY <1>t, <2>2, LobbyErrorNone, LobbyListsAreMessages
  <2> QED BY <1>5, <2>1, <2>2 DEF LobbyUserList
<1>6. ASSUME NEW start \in StartIndexes, RoomUserList(s, start) PROVE sent' \in Seq(Message)
  <2> DEFINE err == DomainError(s, "ROOM", "LOBBY_USER_LIST_INVALID_DOMAIN")
             rm == createdRooms[roomOf[u] + 1]
  <2>1. CASE Refuse(s, "ROOM_ENTER_USER_LIST_RES", err)
    BY <1>c, <2>1, ErrorsAreCodes, RefusalTyped
  <2>2. CASE Refuse(s, "ROOM_ENTER_USER_LIST_RES", RoomSendUserListError(rm, start))
    BY <1>c, <2>2, ErrorsAreCodes, RefusalTyped
  <2>3. CASE err = "NONE" /\ RoomSendUserListError(rm, start) = "NONE"
             /\ sent' = <<RoomSendUserList(s, rm, start)>>
    <3>1. GetUserError(s) = "NONE" /\ domain[u] = "ROOM"
      BY <2>3 DEF DomainError, IsCurDomainIn
    <3>2. rm \in Rooms /\ start \in Int
      BY <3>1, OwnerOfSession, FollowedRoomExists, RequestAssumption
    <3> HIDE DEF rm
    <3>3. RoomSendUserList(s, rm, start) \in Message
      BY <1>t, <2>3, <3>2, MemberListIsMessage
    <3> QED BY <2>3, <3>3, MessagesInARow
  <2> QED BY <1>6, <2>1, <2>2, <2>3 DEF RoomUserList
<1>7. ASSUME NEW id \in UserIDs, LOBBYWisperChat(s, id) PROVE sent' \in Seq(Message)
  <2> DEFINE to == FindUserByID(id)
             note == NotifyWisperChat(to, idOf[u])
  <2>1. CASE Refuse(s, "LOBBY_WHISPER_CHAT_RES", WisperError(s, id))
    BY <1>c, <2>1, ErrorsAreCodes, RefusalTyped
  <2>2. CASE /\ WisperError(s, id) = "NONE"
             /\ sent' = <<note, Reply(s, "LOBBY_WHISPER_CHAT_RES", "NONE")>>
    <3>1. to # None /\ LobbyError(s, "LOBBY", "LOBBY_CHAT_INVALID_DOMAIN",
                                  "LOBBY_CHAT_INVALID_LOBBY_INDEX") = "NONE"
      BY <2>2 DEF WisperError
    <3>2. u \in Users /\ lobbyOf[u] \in Lobbies /\ to \in Users
      BY <3>1, LobbyErrorNone, FoundIsUser
    <3>3. note \in Message /\ Reply(s, "LOBBY_WHISPER_CHAT_RES", "NONE") \in Message
      BY <1>t, <1>c, <1>a, <3>2, ChatIsMessage
    <3> QED BY <2>2, <3>3, MessagesInARow
  <2> QED BY <1>7, <2>1, <2>2 DEF LOBBYWisperChat
<1> QED BY <1>1, <1>2, <1>3, <1>4, <1>5, <1>6, <1>7

(* What NtfSysCloseSession tells the room and the lobby the client was in. *)
LEMMA CloseTyped ==
  ASSUME ServerInv, ServerInv', NEW s \in Sessions, NEW u \in Users,
         NEW l \in Lobbies \cup {None}, NEW r \in RoomNos \cup {None}, CloseUser(s, u, l, r)
  PROVE  sent' \in Seq(Message)
<1> DEFINE rm == <<l, r>>
<1>t. StateTypeOK /\ StateTypeOK' /\ PeopleTyped /\ PeopleTyped'
  BY DEF ServerInv, StateTypeOK, UserTypeOK, LobbyTypeOK, PeopleTyped
<1>c. {"ROOM_LEAVE_USER_NTF", "LOBBY_LEAVE_USER_NTF"} \subseteq PacketIDs
  BY DEF PacketIDs
<1>i. idOf[u] \in UserIDs \cup {NoID}
  BY <1>t DEF PeopleTyped
<1>1. CASE l \in Lobbies /\ r \in RoomNos
  <2> DEFINE left == NotifyUser("ROOM_LEAVE_USER_NTF", RoomLeaveListeners(rm)', idOf[u])
             changed == RoomChanged(LobbyListeners(l, None), RoomInfo(rm)')
  <2>1. sent' = <<left, changed>>
    BY <1>1 DEF CloseUser
  <2>2. rm \in Rooms
    BY <1>1 DEF Rooms
  <2>3. /\ RoomLeaveListeners(rm)' \in SUBSET (Sessions \cup {None})
        /\ RoomInfo(rm)' \in Int \X Int
        /\ LobbyListeners(l, None) \in SUBSET (Sessions \cup {None})
    BY <1>1, <1>t, <2>2, AudiencesAfterwards, ListenersAreSessions
  <2>4. left \in Message /\ changed \in Message
    BY <1>c, <1>i, <2>3, NewsIsMessage, RoomChangedIsMessage
  <2> QED BY <2>1, <2>4, MessagesInARow
<1>2. CASE l \in Lobbies /\ r \notin RoomNos
  <2> DEFINE left == NotifyUser("LOBBY_LEAVE_USER_NTF", LobbyListeners(l, u)', idOf[u])
  <2>1. sent' = <<left>>
    BY <1>2 DEF CloseUser
  <2>2. LobbyListeners(l, u)' \in SUBSET (Sessions \cup {None})
    BY <1>2, <1>t DEF PeopleTyped, LobbyListeners
  <2>3. left \in Message
    BY <1>c, <1>i, <2>2, NewsIsMessage
  <2> QED BY <2>1, <2>3, MessagesInARow
<1>3. CASE l \notin Lobbies
  BY <1>3 DEF CloseUser
<1> QED BY <1>1, <1>2, <1>3

(* What RoomEnter tells the lobby, the room and the client. *)
LEMMA RoomEnterTyped ==
  ASSUME ServerInv, ServerInv', NEW s \in Sessions, NEW create, NEW r,
         RoomEnter(s, create, r)
  PROVE  sent' \in Seq(Message)
<1>t. PeopleTyped /\ PeopleTyped' /\ StateTypeOK'
  BY DEF ServerInv, StateTypeOK, UserTypeOK, LobbyTypeOK, PeopleTyped
<1>c. {"ROOM_ENTER_RES", "ROOM_ENTER_USER_NTF"} \subseteq PacketIDs
  BY DEF PacketIDs
<1>1. CASE Refuse(s, "ROOM_ENTER_RES", RoomEnterError(s, create, r))
  BY <1>c, <1>1, ErrorsAreCodes, RefusalTyped
<1>2. ASSUME NEW u \in Users, NEW l \in Lobbies, NEW no \in RoomNos,
             sent' = <<NotifyLobbyLeaveUserInfo(l, u)',
                       RoomChanged(LobbyListeners(l, None)', RoomInfo(<<l, no>>)'),
                       NotifyUser("ROOM_ENTER_USER_NTF", RoomListeners(<<l, no>>, u)', idOf[u]),
                       Reply(s, "ROOM_ENTER_RES", "NONE")>>
      PROVE  sent' \in Seq(Message)
  <2>1. <<l, no>> \in Rooms /\ idOf[u] \in UserIDs \cup {NoID}
    BY <1>t DEF Rooms, PeopleTyped
  <2>2. /\ RoomListeners(<<l, no>>, u)' \in SUBSET (Sessions \cup {None})
        /\ LobbyListeners(l, None)' \in SUBSET (Sessions \cup {None})
        /\ RoomInfo(<<l, no>>)' \in Int \X Int
    BY <1>t, <2>1, AudiencesAfterwards
  <2>3. /\ NotifyLobbyLeaveUserInfo(l, u)' \in Message
        /\ RoomChanged(LobbyListeners(l, None)', RoomInfo(<<l, no>>)') \in Message
    BY <1>t, <2>2, LobbyNewsIsMessage, RoomChangedIsMessage
  <2>4. /\ NotifyUser("ROOM_ENTER_USER_NTF", RoomListeners(<<l, no>>, u)', idOf[u]) \in Message
        /\ Reply(s, "ROOM_ENTER_RES", "NONE") \in Message
    BY <1>c, <2>1, <2>2, NewsIsMessage, ReplyIsMessage, ErrorsAreCodes
  <2> QED BY <1>2, <2>3, <2>4, FourInARow
<1> QED BY <1>1, <1>2 DEF RoomEnter

(* What RoomLeave tells the room, the lobby and the client. *)
LEMMA RoomLeaveTyped ==
  ASSUME ServerInv, ServerInv', NEW s \in Sessions, RoomLeave(s)
  PROVE  sent' \in Seq(Message)
<1>t. PeopleTyped /\ PeopleTyped' /\ StateTypeOK'
  BY DEF ServerInv, StateTypeOK, UserTypeOK, LobbyTypeOK, PeopleTyped
<1>c. {"ROOM_LEAVE_RES", "ROOM_LEAVE_USER_NTF"} \subseteq PacketIDs
  BY DEF PacketIDs
<1>1. CASE Refuse(s, "ROOM_LEAVE_RES", RoomLeaveError(s))
  BY <1>c, <1>1, ErrorsAreCodes, RefusalTyped
<1>2. ASSUME NEW u \in Users, NEW l \in Lobbies, NEW r \in RoomNos,
             sent' = <<NotifyUser("ROOM_LEAVE_USER_NTF", RoomLeaveListeners(<<l, r>>)', idOf[u]),
                       NotifyLobbyEnterUserInfo(l, u)',
                       RoomChanged(LobbyListeners(l, None)', RoomInfo(<<l, r>>)'),
                       Reply(s, "ROOM_LEAVE_RES", "NONE")>>
      PROVE  sent' \in Seq(Message)
  <2>1. <<l, r>> \in Rooms /\ idOf[u] \in UserIDs \cup {NoID}
    BY <1>t DEF Rooms, PeopleTyped
  <2>2. /\ RoomLeaveListeners(<<l, r>>)' \in SUBSET (Sessions \cup {None})
        /\ LobbyListeners(l, None)' \in SUBSET (Sessions \cup {None})
        /\ RoomInfo(<<l, r>>)' \in Int \X Int
    BY <1>t, <2>1, AudiencesAfterwards
  <2>3. /\ NotifyLobbyEnterUserInfo(l, u)' \in Message
        /\ RoomChanged(LobbyListeners(l, None)', RoomInfo(<<l, r>>)') \in Message
    BY <1>t, <2>2, LobbyNewsIsMessage, RoomChangedIsMessage
  <2>4. /\ NotifyUser("ROOM_LEAVE_USER_NTF", RoomLeaveListeners(<<l, r>>)', idOf[u]) \in Message
        /\ Reply(s, "ROOM_LEAVE_RES", "NONE") \in Message
    BY <1>c, <2>1, <2>2, NewsIsMessage, ReplyIsMessage, ErrorsAreCodes
  <2> QED BY <1>2, <2>3, <2>4, FourInARow
<1> QED BY <1>1, <1>2 DEF RoomLeave

(* What the two game handlers tell the members. *)
LEMMA GameTyped ==
  ASSUME ServerInv, RoomInv, NEW s \in Sessions, RoomMasterGameStart(s) \/ RoomGameStart(s)
  PROVE  sent' \in Seq(Message)
<1> DEFINE u == sessionDic[s]
           rm == <<lobbyOf[u], roomOf[u]>>
<1>c. {"ROOM_MASTER_GAME_STATE_RES", "ROOM_GAME_STATE_RES"} \subseteq PacketIDs
  BY DEF PacketIDs
<1>a. \A pkt \in PacketIDs : Reply(s, pkt, "NONE") \in Message
  BY ReplyIsMessage, ErrorsAreCodes
<1>1. CASE \/ Refuse(s, "ROOM_MASTER_GAME_STATE_RES", MasterGameError(s))
           \/ Refuse(s, "ROOM_GAME_STATE_RES", GameStartError(s))
  BY <1>c, <1>1, ErrorsAreCodes, RefusalTyped
<1>2. CASE /\ MasterGameError(s) = "NONE"
           /\ sent' = <<NotifyUser("ROOM_MASTER_GAME_STATE_RES", RoomListeners(rm, u), NoID),
                        Reply(s, "ROOM_MASTER_GAME_STATE_RES", "NONE")>>
  <2>1. GameError(s) = "NONE" /\ StateTypeOK
    BY <1>2 DEF MasterGameError, ServerInv
  <2>2. rm \in Rooms
    BY <2>1, GameErrorNone DEF RoomOf
  <2>3. RoomListeners(rm, u) \in SUBSET (Sessions \cup {None})
    BY <2>1, <2>2, RoomListenersAreSessions
  <2>4. /\ NotifyUser("ROOM_MASTER_GAME_STATE_RES", RoomListeners(rm, u), NoID) \in Message
        /\ Reply(s, "ROOM_MASTER_GAME_STATE_RES", "NONE") \in Message
    BY <1>c, <1>a, <2>3, NewsIsMessage
  <2> QED BY <1>2, <2>4, MessagesInARow
<1>3. CASE sent' = <<Reply(s, "ROOM_GAME_STATE_RES", "NONE")>>
  BY <1>c, <1>a, <1>3, MessagesInARow
<1> QED BY <1>1, <1>2, <1>3 DEF RoomMasterGameStart, RoomGameStart

(* What any handler hands to SendData. *)
LEMMA StepTyped ==
  ASSUME ServerInv, ServerInv', RoomInv, Next
  PROVE  sent' \in Seq(Message)
<1>c. {"LOGIN_IN_RES", "LOBBY_ENTER_RES", "LOBBY_LEAVE_RES"} \subseteq PacketIDs
  BY DEF PacketIDs
<1>t. PeopleTyped'
  BY DEF ServerInv, StateTypeOK, UserTypeOK, LobbyTypeOK, PeopleTyped
<1>1. ASSUME NEW s \in Sessions, NEW id \in UserIDs, Login(s, id) PROVE sent' \in Seq(Message)
  <2>1. CASE Refuse(s, "LOGIN_IN_RES", AddUserError(id))
    BY <1>c, <2>1, ErrorsAreCodes, RefusalTyped
  <2>2. CASE sent' = <<Reply(s, "LOGIN_IN_RES", "NONE")>>
    BY <1>c, <2>2, ErrorsAreCodes, ReplyIsMessage, MessagesInARow
  <2> QED BY <1>1, <2>1, <2>2 DEF Login
<1>2. ASSUME NEW s \in Sessions, NEW l, LobbyEnter(s, l) PROVE sent' \in Seq(Message)
  <2>1. CASE Refuse(s, "LOBBY_ENTER_RES", LobbyEnterError(s, l))
    BY <1>c, <2>1, ErrorsAreCodes, RefusalTyped
  <2>2. ASSUME NEW u \in Users, LobbyEnterError(s, l) = "NONE",
               sent' = <<NotifyLobbyEnterUserInfo(l, u)', Reply(s, "LOBBY_ENTER_RES", "NONE")>>
        PROVE  sent' \in Seq(Message)
    <3>1. l \in Lobbies
      BY <2>2 DEF LobbyEnterError
    <3>2. /\ NotifyLobbyEnterUserInfo(l, u)' \in Message
          /\ Reply(s, "LOBBY_ENTER_RES", "NONE") \in Message
      BY <1>c, <1>t, <3>1, LobbyNewsIsMessage, ErrorsAreCodes, ReplyIsMessage
    <3> QED BY <2>2, <3>2, MessagesInARow
  <2> QED BY <1>2, <2>1, <2>2 DEF LobbyEnter
<1>3. ASSUME NEW s \in Sessions, LobbyLeave(s) PROVE sent' \in Seq(Message)
  <2>1. CASE Refuse(s, "LOBBY_LEAVE_RES", LobbyLeaveError(s))
    BY <1>c, <2>1, ErrorsAreCodes, RefusalTyped
  <2>2. ASSUME NEW u \in Users, NEW l \in Lobbies,
               sent' = <<NotifyLobbyLeaveUserInfo(l, u)', Reply(s, "LOBBY_LEAVE_RES", "NONE")>>
        PROVE  sent' \in Seq(Message)
    <3>1. /\ NotifyLobbyLeaveUserInfo(l, u)' \in Message
          /\ Reply(s, "LOBBY_LEAVE_RES", "NONE") \in Message
      BY <1>c, <1>t, LobbyNewsIsMessage, ErrorsAreCodes, ReplyIsMessage
    <3> QED BY <2>2, <3>1, MessagesInARow
  <2> QED BY <1>3, <2>1, <2>2 DEF LobbyLeave
<1>4. ASSUME NEW s \in Sessions, NtfSysConnctSession(s) PROVE sent' \in Seq(Message)
  BY <1>4 DEF NtfSysConnctSession
<1>5. ASSUME NEW s \in Sessions, NtfSysCloseSession(s) PROVE sent' \in Seq(Message)
  <2>1. CASE sent' = <<>>
    BY <2>1
  <2>2. CASE \E u \in Users, l \in Lobbies \cup {None}, r \in RoomNos \cup {None} :
               CloseUser(s, u, l, r)
    BY <2>2, CloseTyped
  <2> QED BY <1>5, <2>1, <2>2 DEF NtfSysCloseSession
<1>6. ASSUME NEW s \in Sessions, Request(s) PROVE sent' \in Seq(Message)
  <2>1. CASE \/ LobbyList(s) \/ LOBBYChat(s) \/ RoomChat(s)
             \/ \E start \in StartIndexes :
                  LobbyRoomList(s, start) \/ LobbyUserList(s, start) \/ RoomUserList(s, start)
             \/ \E id \in UserIDs : LOBBYWisperChat(s, id)
    BY <2>1, ReadingTyped
  <2>2. CASE RoomEnter(s, TRUE, None) \/ \E r \in 0..MaxRoomCountByLobby : RoomEnter(s, FALSE, r)
    BY <2>2, RoomEnterTyped
  <2>3. CASE RoomLeave(s)
    BY <2>3, RoomLeaveTyped
  <2>4. CASE RoomMasterGameStart(s) \/ RoomGameStart(s)
    BY <2>4, GameTyped
  <2>5. CASE \/ \E id \in UserIDs : Login(s, id)
             \/ \E l \in 0..MaxLobbyCount : LobbyEnter(s, l)
             \/ LobbyLeave(s)
    BY <1>1, <1>2, <1>3, <2>5
  <2> QED BY <1>6, <2>1, <2>2, <2>3, <2>4, <2>5 DEF Request
<1> QED BY <1>4, <1>5, <1>6 DEF Next

SentTyped == sent \in Seq(Message)

(* The server's variables stay in their types, and what its handlers send   *)
(* are messages, each with a known packet id and ErrorCode: TypeOK.         *)
THEOREM ChatTypesCorrect == Spec => []TypeOK
<1>1. Init => SentTyped
  BY DEF Init, SentTyped
<1>2. ServerInv /\ ServerInv' /\ RoomInv /\ SentTyped /\ [Next]_vars => SentTyped'
  BY StepTyped DEF vars, SentTyped
<1>3. ServerInv /\ SentTyped => TypeOK
  BY DEF ServerInv, StateTypeOK, TypeOK, SentTyped
<1> QED BY <1>1, <1>2, <1>3, ServerInvariant, RoomInvariant, PTL DEF Spec
=============================================================================
