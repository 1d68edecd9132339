# A TLA+ model of the chat server

The repository holds a chat server with lobbies and rooms, written in C++ for Windows
(`src/ChatServer`), the packets it shares with its clients (`src/Common`), a second copy of
the server that is being moved to an IOCP network (`src/Final`), and a loose copy of the
network class (`src/TcpNetwork.cpp`). This directory models both servers in TLA+, checks
the models with TLC, and proves their invariants, their action properties and that both
implement one abstract specification with TLAPS.

## The system

`ConsoleHost/main.cpp` starts one thread that does all the work and waits for a key, then
calls `Stop` and joins. The thread, `Main::Run`, alternates `TcpNetwork::Run` (one `select`
round: accept, receive, frame, send), the handling of every queued packet by
`PacketProcess::Process`, and `PacketProcess::StateCheck`.

| Component | State | Operations | What makes it correct |
|---|---|---|---|
| `UserManager`, `User` | pool of user objects, free list, dictionary session -> object; per object: domain (NONE, LOGIN, LOBBY, ROOM), session, ID, lobby and room index | AddUser, RemoveUser, GetUser, FindUser; EnterLobby, LeaveLobby, EnterRoom | an object has one owner at a time; names are unique; a released object is clean |
| `LobbyManager`, `Lobby` | per lobby: a vector of seats and a dictionary of users | EnterUser, LeaveUser, SendUserList, SendRoomList, SendToAllUser and the notices | both copies and the user objects agree; no dangling pointers; notices reach exactly those in the lobby |
| `Room`, `RoomManager`, `CGame` | per room: used, members in order of entry, game state; the list of created rooms | CreateRoom, EnterUser, LeaveUser, SendUserList, IsMaster, GetRoom, SetState | used exactly while somebody is in it, never overfull; members and user objects agree |
| `PacketProcess` | none of its own | the 16 handlers | checks before changes; every change announced to the right sessions |
| `ConnectedUserManager` | per session: connect time, logged in; how far the check has come | SetConnectSession, SetLogin, SetDisConnectSession, LoginCheck | a session that does not log in is closed, one that does is not |
| `TcpNetwork` | session pool, sockets watched, packet queue, receive and send buffers | accept, receive, frame, queue, SendData, flush, close | packets of a session in order between connect and close; packets cut where the client cut them; nothing sent to the wrong client |
| `Main` | configuration, `m_IsRun` | Init, Run, Stop | queued packets handled before the buffers they point into change; ends when stopped |
| `Final` | the same classes, rooms commented out | the same handlers but for rooms | as above |

Components call each other directly; the packet queue is the only asynchronous link, from
`TcpNetwork` to `PacketProcess`, and `m_IsRun` the only state two threads share. A handler
is therefore atomic for other handlers, and what is hard is not preemption but *sequences*:
state kept in several copies (user object, seat, lobby dictionary, room list, list of
created rooms), indices that outlive what they point to, slots, objects and rooms that are
reused, the order of change and announcement within a handler, disconnection in every
state, counters at their limits, and the order in which closing, queueing and sending meet
within a round. `PROJECT.json` lists each such hazard at its line.

## Modules

```
The logic of src/ChatServer
ServerConfig    limits, index ranges, packets, error codes, the paging loop
  UserManager     the pool and the user objects
    Lobby           LobbyManager and Lobby
      Room            Room, RoomManager, CGame
        PacketProcess   the handlers: Init, Next, Spec
          ChatProperties  what must hold; the mapping to Presence
            MCChat          constants for TLC
            ChatProofs      the inductive invariant, lobbies
              RoomProofs      rooms, seats, game starts, the messages sent
                PeopleProofs    the announcements, the refinement of Presence
LogicLemmas     what both servers' proofs need of sequences, sets, names and messages
Presence        abstract: who is online, named, in which lobby, in which room

The network and the main loop
TcpNetwork      session pool, select, accept, receive, queue, send buffers, close
  ServerLoop      Main::Run, Stop, and the logic as far as the network sees it
    ServerLoopProperties, ServerLoopProofs
LoginCheck, LoginCheckProofs      ConnectedUserManager with its clock
RecvFraming, RecvFramingProofs    the receive buffer, byte by byte
  RootFraming     the same in the earlier copy, src/TcpNetwork.cpp

src/Final
FinalServer     the handlers Final registers, on the modules UserManager and Lobby
  FinalProperties, FinalProofs
```

Each variable is a field of the code, named in the comment at its declaration. Operators
and actions have the names of the functions they model. A mutated form of a definition, the
slip a property must catch, stands before it and says in its comment what it slips on.

**The logic.** Each handler of `PacketProcess` is one action, run to completion. Its early
returns are an operator `...Error` that yields the `ErrorCode` of the first check that
fails, in the code's order, or `"NONE"`; a handler either `Refuse`s with that code, or makes
its changes. `sent` is what the last handler passed to `SendData`, in order: a packet name,
the set of receiving sessions, and what the body says. `Request` is the dispatch table;
`NtfSysConnctSession` and `NtfSysCloseSession` are the network's two notifications. Some of
the code's behaviour that a reader may not expect is in the model because it is in the code:

* `Lobby::RemoveUser` never frees a seat (`Lobby.cpp:118` tests the wrong way round), so
  `RemoveUserFromSlot` leaves the seats alone;
* `unordered_map::insert` keeps an existing entry, so a second login of a session leaves
  the first object in the dictionary (`AddUser`);
* the room index of a user object outlives the room, and the lobby index the lobby
  (`UserEnterLobby`, `UserLeaveLobby`), and `CloseUser` acts on them as they are;
* whispers use a user index, and chats compare a session index, where the other is meant;
* `CGame::m_state` is never initialised: its first value is any of `FreshGameStates`;
* `RoomManager::GetRoom` compares with its list's size cast to `short` (`AsShort`).

Left out because no handler's behaviour depends on it: the two ID dictionaries
(`m_UserIDDic`), which are written and never read; `m_IsConfirm`, which is true exactly
when the domain is not NONE; titles, passwords, texts, byte layouts and logging.

**The network.** `phase` says where the thread is in `Main::Run` and `TcpNetwork::Run`, and
`cursor` which slot a loop over the sessions has come to, so that a client may connect,
send, close or reset between any two steps of a round, and Stop may come. A connection is
known by the number of its `connect`, which is its socket as well. Requests arrive whole
(`RecvFraming` has the bytes); what is sent is counted in halves of packets, so that a
`send` may take a part of one. In the model as in the code:

* a failed `accept` is not noticed (`TcpNetwork.cpp:265` compares an unsigned value with
  0): `INVALID_SOCKET` takes a slot (`AcceptFails`) and every later `select` fails
  (`SelectFails`);
* a close releases the slot at once, its notification waits in the queue, and the slot may
  be given to another client before the logic hears of either;
* `SendData` asks neither whether the session is connected nor tells anybody that a packet
  did not fit, and neither `Clear` nor a new connection empties what was written after the
  close.

Of the logic, `ServerLoop` keeps what `ConnectedUserManager` knows of each session, and of
what the handlers send, how much and in which order. `Login` has one answer. `RoomEnter` and
`RoomLeave` send the most of all requests, a notice to each of three groups and then the
answer; `LobbyOrRoomRequest` sends three notices, each to *any* set of sessions, and the
answer or none. Any set, because who shares a lobby or a room is left open here, because a
chat returns to its sender, and because `Lobby::NotifyWisperChat` writes to the session that
has the number of a user *index*: one that may be not logged in, closed, or never used. A
close makes at most two notices, to any sessions but its own (that is `NewsStaysInPlace`).
So one handler may put several packets in one buffer, and some in that of a free slot.

**The login check.** Time is counted in seconds waited, up to the limit, and in whether
60 ms have passed since the last check. The index the loop leaves behind is incremented once
more before the next slice, so one session behind each slice is never looked at
(`PassedOver`): sessions 100, 201, 302, ... of the code. A close and its handling are one
step, which `ServerLoop` justifies: the queue is emptied between two checks.

**Framing.** A byte is its position in what the client has sent, and a packet is its first
byte and its body size. Only the client's packets, `recv`'s cut and the loop of
`RecvBufferProcess` move; `FramedInOrder` compares what is queued with what was sent.
`memcpy` onto an overlapping region copies here as `memmove` does, which is what the
compiler's library does. `recv` may be handed more bytes than the buffer has room for
(`RecvOverruns`): the model then stops in the phase "overrun", because what the program does
next is undefined. No assumption keeps it from there: nothing in the code relates the
configured size of the buffer (a `short`) to the sizes clients declare (also a `short`).
`RootFraming` is the receive path of the copy at the root on the same variables: it moves the
left-overs at the end of a round, and compares a body's size with what is there the other way
round, so that packets are queued early, or never, and headers are read and forgotten. It
names a `MAX_PACKET_SIZE` that nothing defines, read here as `MAX_PACKET_BODY_SIZE`.

**Final.** Its `UserManager`, `User`, `Lobby`, `ConnectedUserManager` and `TcpNetwork` are
those of `src/ChatServer`, byte for byte or with the parts about rooms commented out, so
`FinalServer` is built on the same modules `UserManager` and `Lobby`. What differs is in its
handlers: `NtfSysCloseSession` no longer takes the user out of the lobby, `LobbyRoomList`
answers nothing when it accepts, and the handlers of rooms are not registered. Of the files
that both servers share byte for byte, `map` names one copy for each definition:
`RecvFraming` and `LoginCheck` are mapped to `Final`'s, `TcpNetwork` and `ServerLoop` to
`src/ChatServer`'s.

Neither server compiles as it stands. In `src/ChatServer`, `RoomUserList` is defined twice
(`PacketProcessRoom.cpp:239` and `:300`), `pUser->GetIndex` lacks its parentheses at three
places, the construction of `RoomManager` is commented out (`Main.cpp:55-57`), and
`Main.cpp:34` creates a `CIocpServer`, which exists only under `Final`. In `Final`, that
class has no `Init`, `Run` or `SendData`. The model takes the first `RoomUserList`, reads
`GetIndex` as `GetIndex()`, takes a `RoomManager` as `PacketProcess::Init` receives it, and
the network to be `TcpNetwork`, which both project files build and `Final`'s checked-in
program is linked with.

## Properties and runs

| Run | Instance | Shows |
|---|---|---|
| `chat_rooms` | 3 sessions, 2 user objects, 1 lobby of 3 seats, 2 rooms of 2, 2 creations | all properties of `ChatProperties` |
| `chat_lobbies` | 2 sessions, 2 lobbies of 2 seats, 1 room for one user each, 1 creation, start indices -1..2 | membership, seats, notices and refinement when users move between lobbies, a room is full and seats run out |
| `server_loop` | 2 slots, 3 connections, 2 requests, send buffers of 4 half packets | the properties of `ServerLoopProperties` but `RepliesReachTheirSession`, safety and liveness |
| `login_check` | 4 sessions, slices of 2, limit of 2 s | the login check, safety and liveness |
| `recv_framing` | 4 packets, headers of 2, bodies of 0..4 where 2 is the limit, a buffer of 8 | framing, safety and liveness |
| `final_logic` | 3 sessions, 2 user objects, 2 lobbies of 2 seats | the logic of `Final` |
| `stale_reply` | 1 slot, 2 connections, 2 requests | a reply to a closed session reaches the slot's next client |
| `root_framing` | 2 packets, bodies of 0..3, a buffer of 12 | the root's copy queues a packet that has not arrived |
| `lobby_close`, `whisper`, `room_user_list`, `login_names` | 2 users, 1 or 2 lobbies | four disagreements of the logic with its comments |

The last three rows end in violations; `findings` in `PROJECT.json` quotes the comment each
contradicts, and lists further bugs that the models contain and the proofs speak of. The
largest run is `server_loop`, with 1.1 million distinct states.

In the logic (`chat_rooms`, `chat_lobbies`):

* `UserPoolConsistent`, `SessionsOwnUsers`: the free list, the objects and the session
  dictionary agree, whatever sequence of logins (repeated ones too) and disconnections;
* `LobbyMembership`, `RoomMembership`: all copies of who is where agree; a room is used
  exactly while it has members, and never overfull;
* `RemoveUserStaysInside`: the write through `end()` in `Lobby::RemoveUser` is never
  reached. It holds only *because* seats are never freed: clearing the seat that is found,
  as the code means to, makes the property fail (it is this property's mutant);
* `RoomManagerCovers`: the missing null check in `RoomUserList` is never needed;
* `RoomChangesAnnounced`, `LobbyMovesAnnounced`: everybody hears of what concerns them;
* `NewsStaysInPlace`: and nobody else does. That a user came is told only to live sessions in
  the lobby or room that user is in after the step; that it left, only where it was before.
  Of a user who disconnects, where it was is what the indices in its object say, and they
  may have outlived its stay: `NtfSysCloseSession` (`PacketProcess.cpp:92-103`) tells the
  members of a room that a user leaves who left it long before. The property is stated so
  that this one case is visible in it (`WasInRoom`, `WasInLobby`);
* `UsedUpLobbiesStayShut`: the other side of the seats that are never freed. Once each has
  been used, a lobby lets nobody in for good, however few users it has;
* `GameStartIsShared`: a game starts only between two live members, and both know;
* `ImplementsPresence`: the server refines `Presence`.

In the main loop (`server_loop`):

* `SessionPoolConsistent`: free list, slots, watched sockets and the count of connections
  agree after any number of reuses and failed accepts;
* `QueueInProtocol`: the logic is given each connection's connect, requests and close in
  that order, and never mixed with those of the slot's next client;
* `LogicTracksNetwork`: with the queue handled, the logic knows exactly who is connected;
* `RequestsHandledInTime`: no request is left when its session's buffer is used again, nor
  when the login check looks at it, so a login that has arrived is never overtaken;
* `WholePackets`: with partial sends, several packets in one handler and packets dropped for
  lack of room, a client is still sent whole ones;
* `GoneClientsAreForgotten`: a client that goes away is noticed and its slot released,
  unless a failed accept has made the server deaf, or it is stopped;
* `StopEndsTheThread`: after Stop the thread ends, whatever is queued and still being sent.

`LateSessionsAreClosed` and `ClosesOnlyLateSessions` are the two sides of the login check.
`FramedInOrder`, `LeftOversAreNext` and `EveryPacketIsQueued` say that framing is right as long
as the buffer is not overrun, and `OverrunNeedsLargeBody` when it may be: only while a body
is awaited that, with a header and the two bodies of room `recv` is given, does not fit. That
a session is closed for a body above the limit, and for nothing else, is `ClosedForItsSize`,
a theorem. With headers of 4 bytes and bodies of 1024, a buffer of 8192 is safe from clients
that declare bodies of up to 6141 bytes, and one of 3075 from those that keep to the limit;
the unit tests configure 128. The limit itself is looked at too late to help, and no size
that a `short` configures is safe from every client. The run reaches the overrun.

In `Final`: `PresentAreListed` and `ListedHaveSeats` say what the missing leave in
`NtfSysCloseSession` does not break, `GhostsAreForEver` what it does: the entry of a user
who disconnects stays in the lobby for good, and the object's next owner does not get it.
`LobbyMovesAnnounced` and `ImplementsPresence` hold there too.

### Bounds

*Logic.* Two users suffice for every property that relates a mover to a witness; the third
session of `chat_rooms` lets one session log in twice while others compete for the pool,
and be refused when it is empty. A lobby with one seat more than users lets a user enter
again after leaving, which is where seats are used up; in `chat_lobbies` the seats run out.
Rooms of two, two to a lobby, allow games and separate a room's number from its place in
the list of created rooms; in `chat_lobbies` a room takes one user, so that a full room is
asked for a place. `MaxRoomCreations` bounds only creations, because that list grows for
ever; two allow a room to be left, cleared and created again. Lobby and room numbers are
asked for one beyond the valid ones. Page sizes of 1 make every list take several pages.
Names are symmetric (`IDSymmetry`): no code compares them but for equality. The `VIEW`
leaves `sent` out of the identity of a state: no action reads it, the only invariant that
mentions it is its type in `TypeOK`, and the action properties read it primed, on every
transition TLC generates. Deadlock is checked: a server can always be connected to or left.

*Main loop.* Two slots and three connections (`MaxConnections`) let a slot be taken again
while its former client's packets are queued and while another session is served, and let a
connection find the pool empty. Two requests (`MaxRequests`) are two of one session or one
of each. A buffer of four halves holds two whole packets, or after a partial send one and
a half with room for no more; a handler that sends four drops some. In `stale_reply`, one slot
has to be taken again. Deadlock is checked; a thread that has ended stutters
(`Terminated`).

*Login check.* Four sessions in slices of two are a full slice, the session passed over and
a slice cut short, which is every case of the loop. *Framing.* Bodies of 0, 1, 2 and a
forbidden 3 or 4 bytes behind headers of 2, cut anywhere, in a buffer of 8: a body of 4 is the
smallest that can overrun it, so `OverrunNeedsLargeBody` is checked at its boundary.
*Final.* As for the logic; a third session lets an object get a new owner while the
pool is contended.

### What clients do

Clients send only the ids of requests, 21 and above, as `PacketID.h:5` asks; not 0, at which
the loop of `Main::Run` stops early, nor 2 and 3, the notifications' own, nor ids outside
the table. Declared body sizes are 0 or more. That requests of a session are handled between
its connect and its close notification, which `PacketProcess` relies on, is not assumed:
`QueueInProtocol` shows it.

### Fairness

* `ServerLoop`: weak fairness of `Server`, the thread that `main` starts. Each of its steps
  ends: sockets are never made non-blocking, but `recv` and `send` are called only where
  `select` has reported them ready, and `select` has a timeout. Nothing is asked of the
  clients, nor of the one who may press a key.
* `LoginCheck`: weak fairness of the clock and of the check, which `Main::Run` calls in every
  round.
* `RecvFraming`: weak fairness of `Server`, as the thread comes back to each connected
  session.

The logic and `Final` have no liveness of their own: a handler always ends.

## Proofs

For every value of the constants that satisfies the modules' named assumptions:

* `ChatProofs`, `ServerInvariant`: `Spec => []ServerInv`, where `ServerInv` is the types of
  all variables but `sent`, `UserPoolConsistent`, `SessionsOwnUsers` and `LobbyMembership`.
  The four are inductive only together: that a released object leaves every dictionary needs
  the session to own it, that the object at the head of the free list is in no lobby needs
  the pool to be consistent, and that a stale lobby index does no harm on closing needs
  `LobbyMembership`. One lemma per handler that changes state, one for those that only
  read, and `RequestCases` to split a request into them. `PoolIsConsistent`,
  `SessionsAreOwners` and `LobbiesAgree` are its parts.
* `RoomProofs`, `RoomInvariant`: `Spec => []RoomInv`, with `RoomMembership`, `CreatedReach`
  and `RemoveUserStaysInside`, inductive relative to `ServerInv`. `CreatedReach` is the
  strengthening `RoomManagerCovers` needs: rooms are created lowest number first, so the
  list is longer than every number in use, and shorter than 32768. `SeatsKept` carries
  `RemoveUserStaysInside`: seats are only ever filled. `RoomsAgree`, `CreatedRoomsCover` and
  `SeatsAreFound` are its parts; `UsedUpLobbiesAreShut` follows from the types alone; `ListTooLongIsBlind` shows that the bound of 32767
  creations is sharp: with one more, `GetRoom` finds no room. `GameStartsAreShared` is the
  action property `GameStartIsShared`, from both invariants. `ChatTypesCorrect` adds what
  `TypeOK` says of `sent`, one lemma per kind of handler: every list, chat, notice and error
  reply is a message. It needs the invariants where a handler follows an index: that
  `RoomUserList` finds a room, and that the members it lists are users.
* `PeopleProofs`: the action properties about what clients are told, and the refinement. Both
  rest on one abstraction: every step of the server is one of nine *moves* (`Rests`,
  `Connects`, `Vanishes`, `LogsIn`, `EntersLobby`, `LeavesLobby`, `EntersRoom`,
  `LeavesRoom`, `Closes`; the first for all that only read), each a statement of what the
  step does to users, lobbies and rooms and of what it sends. `StepMoves` proves it of the
  handlers from `ServerInv` and `RoomInv`; nothing after it looks at a handler again.
  * `ServerImplementsPresence`: one lemma per move shows it to be that action of `Presence`,
    or a stutter, under the refinement mapping. The mapping reads everything through the
    session's entry, so the object that a second login of a session takes from the pool, and
    nobody reaches, is invisible; that it stays so is `SessionsOwnUsers`. That a lobby of
    `Presence` has a seat free when the server lets a user in is a counting argument
    (`LobbyHasASeat`, `ServerHasASeat`): entries of the dictionary and sessions correspond
    one to one.
  * `LobbyMovesAreAnnounced`, `RoomChangesAreAnnounced`: who appears or disappears is exactly
    the user of the move (`OnlyTheMoverAppears`, `NewMember`, `GoneMember`), and the listeners
    of the broadcast, computed after the change, are all the others.
  * `NewsDoesStayInPlace`: each notice of a move is about the mover, in the place the move
    names (`MoveInPlace`, from `LobbyNewsInPlace` and `RoomNewsInPlace`); the listeners lead
    back to their users, and the mover is not among them, because two sessions never share a
    name.
* `ServerLoopProofs`, `LoopInvariant`: `Spec => []LoopInv`, with `LoopInv` = `DataInv`
  (types, `SessionPoolConsistent`, that no socket is newer than the last one accepted, and
  the queue) and `ThreadInv` (what the thread has established on its way to each phase).
  The queue's part is `QueueInProtocol` with `QueueEndsAtSlots`: what the queued packets
  lead to is what the slots hold. That is the strengthening which makes it inductive: a
  packet put at the end fits because the slot is where the queue ends (`QueueAppend`), and
  the one taken from the front moves its effect to the logic (`QueueTail`). From it:
  `SessionPoolAlwaysConsistent`, `QueueAlwaysInProtocol`, `LogicAlwaysTracksNetwork`,
  `RequestsAlwaysHandledInTime`.
* `ServerLoopProofs`, `BufferInvariant`: with `LoopInv`, `BufferInv` is inductive. Its core
  is `Whole(sendBuf[s], MidAt(s))`: a send buffer goes on with the half its client waits for,
  halves alternate, and it ends with the second half of a packet. `SendData` to any sessions
  keeps that (`SendDataKeeps`), so any number of notices does. A send of any length
  leaves a buffer that is whole for where the client then is, a packet that does not fit
  leaves it as it was, and a slot that is given away with bytes in its buffer starts with a
  whole packet: the former client's, but not a part of it, which `MidPacketsConnected` is
  needed for. From it: `PacketsStayWhole` and `LoopTypesCorrect`.
* `LoginCheckProofs`: `LoginTypesCorrect`, so that the check never reads beyond the list, and
  `ClosesOnlyLate`, for every size of the pool and slice; its strengthening is that
  every check begins at a multiple of the slice plus one, right after a session
  that is passed over.
* `RecvFramingProofs`: `FramingTypesCorrect`, for any sizes of buffer and packets.
  `FramingInvariant` adds the contents: `StreamInOrder` (packets follow one another, so a
  position is the start of at most one) and `RoundInPlace` (within a round, the cells hold
  the last bytes received and the loop is at a packet's first byte), inductive together with
  `LeftOversAreNext`, `FramedInOrder` and `ClosedForItsSize`, which are then
  `LeftOversAlwaysNext`, `PacketsFramedInOrder` and `AlwaysClosedForItsSize`. With it goes
  `LessThanAwaited`: between two rounds less is left over than the packet the loop waits for,
  which needs the header the loop stopped at to be that packet's; from it follows
  `OverrunAlwaysNeedsLargeBody`. `RoundInPlace`
  and `LeftOversAreNext` hand over to each other: `RecvSocket`'s copy to the front turns the
  one into the other, and `LoopEnds` turns it back.
* `FinalProofs`, `FinalInvariant`: `Spec => []FinalInv`, with the types, `FreeAreCleared`,
  `SessionsOwn`, `PresentAreListed` and `ListedHaveSeats`. Every step is one of seven moves,
  one lemma for each. `PresentAlwaysListed` and `ListedAlwaysHaveSeats` are parts of it;
  `GhostsStay` holds because users are only ever taken out of a lobby by `LobbyLeave`, whose
  error checks exclude the ghosts. `FinalIsPresence` is the refinement: `Presence` has a seat
  free whenever the server lets a user in, since the ghosts only make the server's lobbies
  fuller. `FinalLobbyMovesAreAnnounced` and `FinalTypesCorrect` as for `src/ChatServer`.

Every inductive invariant was first checked with TLC as an invariant of the run of its
specification.

`WidthAssumption` is used in no proof; it says for which configurations the model speaks
for the code, whose indices are `short` and whose lobby list has 20 entries.

Only model-checked: the liveness properties (`GoneClientsAreForgotten`, `StopEndsTheThread`,
`LateSessionsAreClosed`, `EveryPacketIsQueued`), which rest on fairness, and with it
`ENABLED`, out of the prover's reach; and the six runs that end in violations. Every other
property of the runs, invariant or action property, and both refinements are theorems.

## Not modelled

* `CIocpServer` in `Final`: nothing in it accepts a connection or yields a packet
  (`GetPacketInfo` returns an empty one), `InitServer`, which would start its threads, is
  never called, and they would wait on a handle that is not initialised. There is no
  behaviour to state properties of.
* Opening the listening socket, reading the ini file and `Release`: before the first and
  after the last round. The configured limits are constants. A failed start is left out:
  `Main::Init` then formats a `short` with `%s` (`Main.cpp:39`), which is undefined.
* Console and log output: no state depends on it. The unit tests and their mock network.
* The copy of the network class at the root, which no build file names, but for its receive
  path (`RootFraming`). The rest is as in `TcpNetwork`, without the connect notification, and
  with a round that either accepts or serves the clients.
* Whether a notification arrives: `SendData` drops it when the buffer is full, and no caller
  looks at the result (`TcpNetwork.cpp:172`). The models take the drop as it is, and no
  comment says what should become of it.
* A client that pages through the lists, and sends that block: see the notes of their
  hazards.

## What could come next

Liveness by hand from the invariants, with `ENABLED` worked out for `Server` in each phase; a
specification of the network alone, as promises to the logic, which `ServerLoop` refines.
