--------------------------- MODULE FinalProperties --------------------------
(***************************************************************************)
(* What is left of the server's promises in Final: the people who are      *)
(* there are where they think they are, and those who lost the connection  *)
(* in a lobby stay in it for good.                                         *)
(***************************************************************************)
EXTENDS FinalServer

(* Types of the variables of FinalServer; no user ever has a room. *)
TypeOK ==
  /\ freeUsers  \in Seq(Users)
  /\ sessionDic \in [Sessions -> Users \cup {None}]
  /\ domain     \in [Users -> Domains \ {"ROOM"}]
  /\ sessionOf  \in [Users -> Sessions \cup {None}]
  /\ idOf       \in [Users -> UserIDs \cup {NoID}]
  /\ lobbyOf    \in [Users -> Lobbies \cup {None}]
  /\ roomOf     = [u \in Users |-> None]
  /\ slots      \in [Lobbies -> [Slots -> Users \cup {None}]]
  /\ lobbyUsers \in [Lobbies -> SUBSET Users]
  /\ connected  \in [Sessions -> BOOLEAN]
  /\ loginOK    \in [Sessions -> BOOLEAN]
  /\ sent       \in Seq(Message)

(* The user is in lobby l by its own account. *)
IsIn(u, l) == domain[u] = "LOBBY" /\ lobbyOf[u] = l

(* A user who believes to be in a lobby is in that lobby's dictionary, so   *)
(* the broadcasts of the lobby reach it and LobbyLeave does not refuse it:  *)
(* the places that disconnected users keep never cost a user its own.       *)
PresentAreListed ==
  \A u \in Users : domain[u] = "LOBBY" =>
    lobbyOf[u] \in Lobbies /\ u \in lobbyUsers[lobbyOf[u]]

(* Every entry of a lobby's dictionary, also one that a disconnected user   *)
(* left behind, has a seat, so Lobby::RemoveUser finds one and does not     *)
(* write through end().                                                     *)
ListedHaveSeats ==
  \A l \in Lobbies : \A u \in lobbyUsers[l] : ~RemoveUserOverruns(l, u)

(* The entry of a user who is no longer in the lobby stays for ever: no     *)
(* handler takes it out, and the next owner of the user object cannot take  *)
(* it over, as EnterUser refuses that owner (LOBBY_ENTER_USER_DUPLICATION). *)
(* Each such entry is a place of the lobby nobody can use again.            *)
GhostsAreForEver ==
  [][\A l \in Lobbies : \A u \in lobbyUsers[l] :
       ~IsIn(u, l) => u \in lobbyUsers'[l] /\ ~IsIn(u, l)']_vars

SentNow == {sent'[i] : i \in DOMAIN sent'}

Told(pkt, who, to) ==
  \A s \in to : \E m \in SentNow : m.pkt = pkt /\ m.who = who /\ s \in m.to

PeopleOf(l)    == {u \in Users : IsIn(u, l)}
SessionsOf(us) == {sessionOf[u] : u \in us}

(* Who enters a lobby, and who leaves it by LobbyLeave, is announced to all *)
(* others who are in it, whatever the disconnected users left behind.       *)
LobbyMovesAnnounced ==
  [][\A l \in Lobbies :
       /\ \A u \in PeopleOf(l)' \ PeopleOf(l) :
            Told("LOBBY_ENTER_USER_NTF", idOf[u], SessionsOf(PeopleOf(l)))
       /\ \A u \in PeopleOf(l) \ PeopleOf(l)' : domain'[u] # "NONE" =>
            Told("LOBBY_LEAVE_USER_NTF", idOf[u], SessionsOf(PeopleOf(l) \ {u}))]_vars

-----------------------------------------------------------------------------
(* What Presence knows of a session, read off the object its entry leads to. *)

LoggedInAs(s) == IF sessionDic[s] = None THEN NoID ELSE idOf[sessionDic[s]]

InLobby(s) ==
  IF sessionDic[s] = None \/ domain[sessionDic[s]] # "LOBBY" THEN -1
  ELSE lobbyOf[sessionDic[s]]

OnlineNow   == {s \in Sessions : connected[s]}
NameTable   == [s \in Sessions |-> LoggedInAs(s)]
LobbyTable  == [s \in Sessions |-> InLobby(s)]
RosterTable == [rm \in {} |-> <<>>]   \* there are no rooms

People == INSTANCE Presence WITH
  Names <- UserIDs, NoName <- NoID, RoomNos <- {},
  ServerSeats <- MaxClientCount, LobbySeats <- MaxLobbyUserCount, RoomSeats <- 0,
  online <- OnlineNow, name <- NameTable, lobby <- LobbyTable, roster <- RosterTable

(* Final still implements Presence, without rooms: a name belongs to one   *)
(* session, a session is in one lobby, and no lobby is overfull.           *)
ImplementsPresence == People!PSpec
=============================================================================
