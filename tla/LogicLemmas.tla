---------------------------- MODULE LogicLemmas -----------------------------
(***************************************************************************)
(* Facts the proofs of both servers rest on: least elements, Append and    *)
(* RemoveAt; the index ranges and the pool of user objects; and that what  *)
(* UserManager and Lobby hand to SendData are messages, whoever is where.  *)
(***************************************************************************)
EXTENDS Lobby, SequenceTheorems, FiniteSetTheorems, WellFoundedInduction, TLAPS

(* A nonempty set of naturals has a least element, which Min returns. *)
LEMMA MinOfNaturals ==
  ASSUME NEW S \in SUBSET Nat, S # {}
  PROVE  Min(S) \in S /\ \A y \in S : Min(S) <= y
<1> DEFINE Less == {ss \in Nat \X Nat : ss[1] < ss[2]}
<1>1. IsWellFoundedOn(Less, Nat)
  BY NatLessThanWellFounded DEF OpToRel
<1>2. PICK x \in S : \A y \in S : <<y, x>> \notin Less
  <2> HIDE DEF Less
  <2> QED BY <1>1, WFMin
<1>3. ASSUME NEW y \in S PROVE x <= y
  <2>1. <<y, x>> \notin Less
    BY <1>2
  <2>2. x \in Nat /\ y \in Nat
    OBVIOUS
  <2>3. ~(y < x)
    BY <2>1, <2>2
  <2> QED BY <2>2, <2>3
<1> QED
  BY <1>2, <1>3 DEF Min

(* RemoveAt(q, k) is q without its k-th element. *)
LEMMA RemoveAtProperties ==
  ASSUME NEW S, NEW q \in Seq(S), NEW k \in 1..Len(q)
  PROVE  /\ RemoveAt(q, k) \in Seq(S)
         /\ Len(RemoveAt(q, k)) = Len(q) - 1
         /\ \A i \in 1..(Len(q) - 1) : RemoveAt(q, k)[i] = IF i < k THEN q[i] ELSE q[i + 1]
<1> DEFINE a == SubSeq(q, 1, k - 1)
           b == SubSeq(q, k + 1, Len(q))
<1>1. /\ a \in Seq(S) /\ Len(a) = k - 1
      /\ \A i \in 1..(k - 1) : a[i] = q[i]
  <2>1. \A i \in 1..(k - 1) : q[i] \in S
    OBVIOUS
  <2> QED BY <2>1, SubSeqProperties, 1 \in Int, k - 1 \in Int
<1>2. /\ b \in Seq(S) /\ Len(b) = Len(q) - k
      /\ \A i \in 1..(Len(q) - k) : b[i] = q[k + i]
  <2>1. \A i \in (k + 1)..Len(q) : q[i] \in S
    OBVIOUS
  <2>2. k + 1 \in Int /\ Len(q) \in Int
    OBVIOUS
  <2> HIDE DEF b
  <2>3. /\ SubSeq(q, k + 1, Len(q)) \in Seq(S)
        /\ Len(SubSeq(q, k + 1, Len(q))) = IF k + 1 <= Len(q) THEN Len(q) - (k + 1) + 1 ELSE 0
        /\ \A i \in 1 .. Len(q) - (k + 1) + 1 : SubSeq(q, k + 1, Len(q))[i] = q[(k + 1) + i - 1]
    BY <2>1, <2>2, SubSeqProperties
  <2> QED BY <2>3 DEF b
<1>3. RemoveAt(q, k) = a \o b
  BY DEF RemoveAt
<1> HIDE DEF a, b
<1>4. /\ a \o b \in Seq(S)
      /\ Len(a \o b) = Len(a) + Len(b)
      /\ \A i \in 1..(Len(a) + Len(b)) :
           (a \o b)[i] = IF i <= Len(a) THEN a[i] ELSE b[i - Len(a)]
  BY <1>1, <1>2, ConcatProperties
<1> QED
  BY <1>1, <1>2, <1>3, <1>4

(* A sequence, element by element. *)
Image(f, q) == [i \in DOMAIN q |-> f[q[i]]]

(* The image of a sequence with one more at the end. *)
LEMMA ImageOfAppend ==
  ASSUME NEW S, NEW q \in Seq(S), NEW x \in S, NEW f
  PROVE  Image(f, Append(q, x)) = Append(Image(f, q), f[x])
<1> DEFINE g == [i \in DOMAIN q |-> f[q[i]]]
           T == {f[y] : y \in S}
<1>1. DOMAIN q = 1..Len(q) /\ Len(q) \in Nat /\ \A i \in DOMAIN q : q[i] \in S
  OBVIOUS
<1>2. g \in Seq(T) /\ Len(g) = Len(q)
  <2>1. g \in [1..Len(q) -> T]
    BY <1>1
  <2> HIDE DEF g, T
  <2> QED BY <2>1, <1>1
<1>3. f[x] \in T
  OBVIOUS
<1> HIDE DEF T
<1>4. \A i \in 1..Len(q) : g[i] = f[q[i]]
  BY <1>1
<1> HIDE DEF g
<1>5. /\ DOMAIN Append(q, x) = 1..(Len(q) + 1)
      /\ \A i \in 1..(Len(q) + 1) : Append(q, x)[i] = IF i <= Len(q) THEN q[i] ELSE x
  BY <1>1
<1>6. Append(g, f[x]) = [i \in 1..(Len(q) + 1) |-> IF i <= Len(q) THEN g[i] ELSE f[x]]
  BY <1>1, <1>2, <1>3
<1>7. \A i \in 1..(Len(q) + 1) :
        f[Append(q, x)[i]] = IF i <= Len(q) THEN g[i] ELSE f[x]
  BY <1>1, <1>4, <1>5
<1> QED BY <1>5, <1>6, <1>7 DEF g, Image

(* The image of a sequence without its k-th element. *)
LEMMA ImageOfRemoveAt ==
  ASSUME NEW S, NEW q \in Seq(S), NEW k \in 1..Len(q), NEW f
  PROVE  Image(f, RemoveAt(q, k)) = RemoveAt(Image(f, q), k)
<1> DEFINE g == [i \in DOMAIN q |-> f[q[i]]]
           T == {f[y] : y \in S}
           r == RemoveAt(q, k)
           h == RemoveAt(g, k)
<1>1. DOMAIN q = 1..Len(q) /\ Len(q) \in Nat /\ \A i \in DOMAIN q : q[i] \in S
  OBVIOUS
<1>2. g \in Seq(T) /\ Len(g) = Len(q)
  <2>1. g \in [1..Len(q) -> T]
    BY <1>1
  <2> HIDE DEF g, T
  <2> QED BY <2>1, <1>1
<1>3. \A i \in 1..Len(q) : g[i] = f[q[i]]
  BY <1>1
<1> HIDE DEF g, T
<1>4. /\ r \in Seq(S) /\ Len(r) = Len(q) - 1
      /\ \A i \in 1..(Len(q) - 1) : r[i] = IF i < k THEN q[i] ELSE q[i + 1]
  BY RemoveAtProperties
<1>5. /\ h \in Seq(T) /\ Len(h) = Len(q) - 1
      /\ \A i \in 1..(Len(q) - 1) : h[i] = IF i < k THEN g[i] ELSE g[i + 1]
  BY <1>2, RemoveAtProperties
<1> HIDE DEF r, h
<1>6. DOMAIN r = 1..(Len(q) - 1)
  BY <1>1, <1>4
<1>7. h = [i \in 1..(Len(q) - 1) |-> h[i]]
  BY <1>5
<1>8. \A i \in 1..(Len(q) - 1) : f[r[i]] = h[i]
  BY <1>1, <1>3, <1>4, <1>5
<1>9. [i \in DOMAIN r |-> f[r[i]]] = h
  BY <1>6, <1>7, <1>8
<1> QED BY <1>9 DEF g, h, r, Image

-----------------------------------------------------------------------------
(* None is outside every index range, and NoID is no login name. *)
LEMMA NoneIsNoIndex ==
  /\ None \notin Users /\ None \notin Sessions /\ None \notin Lobbies /\ None \notin RoomNos
  /\ NoID \notin UserIDs
  BY ConfigAssumption DEF None, Users, Sessions, Lobbies, RoomNos

(* There are MaxClientCount user objects. *)
LEMMA UsersAreFinite ==
  /\ IsFiniteSet(Users) /\ Cardinality(Users) = MaxClientCount
  /\ \A S \in SUBSET Users : IsFiniteSet(S) /\ Cardinality(S) \in Nat
<1>1. 0 \in Int /\ MaxClientCount - 1 \in Int /\ MaxClientCount - 1 >= 0
  BY ConfigAssumption
<1>2. IsFiniteSet(Users) /\ Cardinality(Users) = MaxClientCount
  <2>1. /\ IsFiniteSet(0..(MaxClientCount - 1))
        /\ Cardinality(0..(MaxClientCount - 1)) = (MaxClientCount - 1) - 0 + 1
    BY <1>1, FS_Interval
  <2> QED BY <1>1, <2>1, ConfigAssumption DEF Users
<1>3. ASSUME NEW S \in SUBSET Users PROVE IsFiniteSet(S) /\ Cardinality(S) \in Nat
  BY <1>2, FS_Subset, FS_CardinalityType
<1> QED BY <1>2, <1>3

(* What the operators below need to know of the user objects and the lobbies. *)
PeopleTyped ==
  /\ sessionDic \in [Sessions -> Users \cup {None}]
  /\ sessionOf  \in [Users -> Sessions \cup {None}]
  /\ idOf       \in [Users -> UserIDs \cup {NoID}]
  /\ slots      \in [Lobbies -> [Slots -> Users \cup {None}]]
  /\ lobbyUsers \in [Lobbies -> SUBSET Users]

(* FindUserByID finds a user object some session owns, or none. *)
LEMMA FoundIsUser ==
  ASSUME NEW id
  PROVE  \/ /\ FindUserByID(id) = None
            /\ \A u \in Users : idOf[u] = id => \A s \in Sessions : sessionDic[s] # u
         \/ /\ FindUserByID(id) \in Users /\ idOf[FindUserByID(id)] = id
            /\ \E s \in Sessions : sessionDic[s] = FindUserByID(id)
<1> DEFINE found == {u \in Users : idOf[u] = id /\ \E s \in Sessions : sessionDic[s] = u}
<1>1. CASE found = {}
  BY <1>1 DEF FindUserByID
<1>2. CASE found # {}
  <2>1. FindUserByID(id) = CHOOSE u \in found : TRUE
    BY <1>2 DEF FindUserByID
  <2>2. FindUserByID(id) \in found
    BY <1>2, <2>1
  <2> QED BY <2>2
<1> QED BY <1>1, <1>2

(* A login that is accepted leaves nobody with the name. *)
LEMMA NameIsFree ==
  ASSUME sessionDic \in [Sessions -> Users \cup {None}],
         NEW id \in UserIDs, AddUserError(id) = "NONE"
  PROVE  /\ freeUsers # <<>>
         /\ \A s \in Sessions : sessionDic[s] # None => idOf[sessionDic[s]] # id
<1>1. freeUsers # <<>> /\ FindUserByID(id) = None
  BY DEF AddUserError
<1>2. \A u \in Users : idOf[u] = id => \A s \in Sessions : sessionDic[s] # u
  BY <1>1, FoundIsUser, NoneIsNoIndex
<1> QED BY <1>1, <1>2

-----------------------------------------------------------------------------
(* A reply, a piece of news and a list are messages. *)
LEMMA ReplyIsMessage ==
  ASSUME NEW s \in Sessions, NEW pkt \in PacketIDs, NEW err \in ErrorCodes
  PROVE  Reply(s, pkt, err) \in Message
<1>1. {s} \in SUBSET (Sessions \cup {None}) /\ NoRoomInfo \in Int \X Int
  BY DEF NoRoomInfo, None
<1> HIDE DEF NoRoomInfo
<1>2. {} \in SUBSET (Int \X (Int \cup UserIDs \cup {NoID}))
  OBVIOUS
<1> QED BY <1>1, <1>2 DEF Reply, Send, Message

(* News of a user, or of nobody, to some sessions is a message. *)
LEMMA NewsIsMessage ==
  ASSUME NEW pkt \in PacketIDs, NEW to \in SUBSET (Sessions \cup {None}),
         NEW id \in UserIDs \cup {NoID}
  PROVE  NotifyUser(pkt, to, id) \in Message
<1>1. NoRoomInfo \in Int \X Int /\ "NONE" \in ErrorCodes
  BY DEF NoRoomInfo, None, ErrorCodes
<1> HIDE DEF NoRoomInfo
<1>2. {} \in SUBSET (Int \X (Int \cup UserIDs \cup {NoID}))
  OBVIOUS
<1> QED BY <1>1, <1>2 DEF NotifyUser, Send, Message

(* One page of a list is a message. *)
LEMMA ListIsMessage ==
  ASSUME NEW s \in Sessions, NEW pkt \in PacketIDs,
         NEW list \in SUBSET (Int \X (Int \cup UserIDs \cup {NoID})), NEW end \in BOOLEAN
  PROVE  ReplyList(s, pkt, list, end) \in Message
<1>1. /\ {s} \in SUBSET (Sessions \cup {None}) /\ NoRoomInfo \in Int \X Int
      /\ "NONE" \in ErrorCodes
  BY DEF NoRoomInfo, None, ErrorCodes
<1> HIDE DEF NoRoomInfo
<1> QED BY <1>1 DEF ReplyList, Message

(* Up to two messages in a row. *)
LEMMA MessagesInARow ==
  ASSUME NEW a \in Message, NEW b \in Message
  PROVE  <<>> \in Seq(Message) /\ <<a>> \in Seq(Message) /\ <<a, b>> \in Seq(Message)
<1> DEFINE M == Message
<1> HIDE DEF M
<1>1. a \in M /\ b \in M
  BY DEF M
<1>2. <<>> \in Seq(M) /\ <<a>> \in Seq(M) /\ <<a, b>> \in Seq(M)
  BY <1>1
<1> QED BY <1>2 DEF M

(* A lobby's broadcasts go to the sessions its users name. *)
LEMMA ListenersAreSessions ==
  ASSUME PeopleTyped, NEW l \in Lobbies, NEW x
  PROVE  LobbyListeners(l, x) \in SUBSET (Sessions \cup {None})
  BY DEF PeopleTyped, LobbyListeners

(* The same after a step, and what a lobby tells of a user who moves. *)
LEMMA LobbyNewsIsMessage ==
  ASSUME PeopleTyped', NEW l \in Lobbies, NEW u \in Users
  PROVE  /\ NotifyLobbyEnterUserInfo(l, u)' \in Message
         /\ NotifyLobbyLeaveUserInfo(l, u)' \in Message
<1> DEFINE to == {sessionOf'[v] : v \in {w \in lobbyUsers'[l] : w # u /\ domain'[w] = "LOBBY"}}
<1>1. to \in SUBSET (Sessions \cup {None}) /\ idOf'[u] \in UserIDs \cup {NoID}
  BY DEF PeopleTyped
<1>2. /\ NotifyLobbyEnterUserInfo(l, u)' = NotifyUser("LOBBY_ENTER_USER_NTF", to, idOf'[u])
      /\ NotifyLobbyLeaveUserInfo(l, u)' = NotifyUser("LOBBY_LEAVE_USER_NTF", to, idOf'[u])
  BY DEF NotifyLobbyEnterUserInfo, NotifyLobbyLeaveUserInfo, LobbyListeners, IsCurDomainIn,
         NotifyUser, Send
<1> HIDE DEF to
<1>3. /\ NotifyUser("LOBBY_ENTER_USER_NTF", to, idOf'[u]) \in Message
      /\ NotifyUser("LOBBY_LEAVE_USER_NTF", to, idOf'[u]) \in Message
  BY <1>1, NewsIsMessage DEF PacketIDs
<1> QED BY <1>2, <1>3

(* Chats and whispers: the receiver of a whisper is a user index, which is  *)
(* a session index too, though seldom that user's.                          *)
LEMMA ChatIsMessage ==
  ASSUME PeopleTyped, NEW u \in Users, NEW l \in Lobbies, NEW x, NEW to \in Users
  PROVE  /\ NotifyChat(l, x, idOf[u]) \in Message
         /\ NotifyWisperChat(to, idOf[u]) \in Message
<1>1. LobbyListeners(l, x) \in SUBSET (Sessions \cup {None})
  BY ListenersAreSessions
<1>2. idOf[u] \in UserIDs \cup {NoID}
  BY DEF PeopleTyped
<1>3. {to} \in SUBSET (Sessions \cup {None})
  BY ConfigAssumption DEF Users, Sessions
<1>4. /\ NotifyUser("LOBBY_CHAT_NTF", LobbyListeners(l, x), idOf[u]) \in Message
      /\ NotifyUser("LOBBY_WHISPER_CHAT_NTF", {to}, idOf[u]) \in Message
  BY <1>1, <1>2, <1>3, NewsIsMessage DEF PacketIDs
<1> QED BY <1>4 DEF NotifyChat, NotifyWisperChat, SendToUser

(* The list of the lobbies, and one page of the users of one of them. *)
LEMMA LobbyListsAreMessages ==
  ASSUME PeopleTyped, NEW s \in Sessions
  PROVE  /\ LobbyListInfo(s) \in Message
         /\ \A l \in Lobbies : \A start : SendUserList(s, l, start) \in Seq(Message)
<1>1. LobbyListInfo(s) \in Message
  <2> DEFINE list == {<<l, GetUserCount(l)>> : l \in Lobbies}
  <2>1. \A l \in Lobbies : l \in Int /\ GetUserCount(l) \in Int
    BY UsersAreFinite, ConfigAssumption DEF PeopleTyped, GetUserCount, Lobbies
  <2>2. list \in SUBSET (Int \X (Int \cup UserIDs \cup {NoID}))
    BY <2>1
  <2> HIDE DEF list
  <2>3. ReplyList(s, "LOBBY_LIST_RES", list, TRUE) \in Message
    BY <2>2, ListIsMessage DEF PacketIDs
  <2> QED BY <2>3 DEF LobbyListInfo, list
<1>2. ASSUME NEW l \in Lobbies, NEW start PROVE SendUserList(s, l, start) \in Seq(Message)
  <2> DEFINE page == PageOf(ShownSlots(l, start), UserPageSize)
             list == {<<i, idOf[slots[l][i]]>> : i \in page}
             end  == IsLastPage(page, UserPageSize, MaxLobbyUserCount - 1)
  <2>1. \A i \in page : i \in Slots /\ slots[l][i] # None
    BY DEF PageOf, ShownSlots
  <2>2. \A i \in page : i \in Int /\ idOf[slots[l][i]] \in UserIDs \cup {NoID}
    BY <2>1, ConfigAssumption DEF PeopleTyped, Slots
  <2>3. end \in BOOLEAN
    BY DEF IsLastPage
  <2> HIDE DEF page, end
  <2>4. list \in SUBSET (Int \X (Int \cup UserIDs \cup {NoID}))
    BY <2>2
  <2> HIDE DEF list
  <2>5. ReplyList(s, "LOBBY_ENTER_USER_LIST_RES", list, end) \in Message
    BY <2>3, <2>4, ListIsMessage DEF PacketIDs
  <2>6. <<ReplyList(s, "LOBBY_ENTER_USER_LIST_RES", list, end)>> \in Seq(Message)
          /\ <<>> \in Seq(Message)
    BY <2>5, MessagesInARow
  <2> QED BY <2>6 DEF SendUserList, page, list, end
<1> QED BY <1>1, <1>2
=============================================================================
