------------------------------- MODULE Presence -----------------------------
(***************************************************************************)
(* What the chat server promises about people, without its pools, seats,   *)
(* indices and packets: a connected session may log in under a name nobody *)
(* else uses, be in at most one place, and take a seat in a lobby or a     *)
(* room only while there is one; a room lists its members in the order     *)
(* they came, and the member at the head is the master until that member   *)
(* leaves.                                                                 *)
(***************************************************************************)
EXTENDS Integers, FiniteSets, SequencesExt

CONSTANTS Sessions, Names, NoName, Lobbies, RoomNos,
          ServerSeats, LobbySeats, RoomSeats

VARIABLES
  online,   \* the sessions that are connected
  name,     \* the name each session is logged in under, or NoName
  lobby,    \* the lobby each session is in, or -1
  roster    \* the sessions in each room, in order of arrival

pvars == <<online, name, lobby, roster>>

AllRooms == Lobbies \X RoomNos

InRoster(s, rm)  == \E i \in DOMAIN roster[rm] : roster[rm][i] = s
InSomeRoom(s)    == \E rm \in AllRooms : InRoster(s, rm)
Without(seq, s)  == RemoveAt(seq, Min({i \in DOMAIN seq : seq[i] = s}))

PInit ==
  /\ online = {}
  /\ name   = [s \in Sessions |-> NoName]
  /\ lobby  = [s \in Sessions |-> -1]
  /\ roster = [rm \in AllRooms |-> <<>>]

Connect(s) ==
  /\ s \notin online
  /\ online' = online \cup {s}
  /\ UNCHANGED <<name, lobby, roster>>

(* A disconnection takes the session out of everything at once. *)
Disconnect(s) ==
  /\ s \in online
  /\ online' = online \ {s}
  /\ name'   = [name EXCEPT ![s] = NoName]
  /\ lobby'  = [lobby EXCEPT ![s] = -1]
  /\ roster' = [rm \in AllRooms |->
                  IF InRoster(s, rm) THEN Without(roster[rm], s) ELSE roster[rm]]

LogIn(s, n) ==
  /\ s \in online
  /\ name[s] = NoName
  /\ \A t \in Sessions : name[t] # n
  /\ Cardinality({t \in Sessions : name[t] # NoName}) < ServerSeats
  /\ name' = [name EXCEPT ![s] = n]
  /\ UNCHANGED <<online, lobby, roster>>

EnterLobby(s, l) ==
  /\ name[s] # NoName
  /\ lobby[s] = -1
  /\ Cardinality({t \in Sessions : lobby[t] = l}) < LobbySeats
  /\ lobby' = [lobby EXCEPT ![s] = l]
  /\ UNCHANGED <<online, name, roster>>

LeaveLobby(s) ==
  /\ lobby[s] # -1
  /\ ~InSomeRoom(s)
  /\ lobby' = [lobby EXCEPT ![s] = -1]
  /\ UNCHANGED <<online, name, roster>>

EnterRoom(s, rm) ==
  /\ lobby[s] = rm[1]
  /\ ~InSomeRoom(s)
  /\ Len(roster[rm]) < RoomSeats
  /\ roster' = [roster EXCEPT ![rm] = Append(@, s)]
  /\ UNCHANGED <<online, name, lobby>>

LeaveRoom(s, rm) ==
  /\ InRoster(s, rm)
  /\ roster' = [roster EXCEPT ![rm] = Without(@, s)]
  /\ UNCHANGED <<online, name, lobby>>

PNext ==
  \E s \in Sessions :
    \/ Connect(s) \/ Disconnect(s) \/ LeaveLobby(s)
    \/ \E n \in Names : LogIn(s, n)
    \/ \E l \in Lobbies : EnterLobby(s, l)
    \/ \E rm \in AllRooms : EnterRoom(s, rm) \/ LeaveRoom(s, rm)

PSpec == PInit /\ [][PNext]_pvars
=============================================================================
