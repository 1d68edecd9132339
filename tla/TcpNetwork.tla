----------------------------- MODULE TcpNetwork -----------------------------
(***************************************************************************)
(* TcpNetwork: the pool of session slots, the sockets select watches, the  *)
(* packet queue and the send buffers; one Run is select, at most one       *)
(* accept, and for each slot in turn receive, frame and flush.             *)
(*                                                                         *)
(* Clients and their kernel are around it: a connection is known by the    *)
(* number of its connect call, which also stands for its socket.  Bytes    *)
(* are abstracted to whole requests on the way in (RecvFraming models the  *)
(* bytes) and to half packets on the way out.  Seq, IP and the sizes of    *)
(* socket buffers have no effect on anything else and are left out.        *)
(***************************************************************************)
EXTENDS Integers, FiniteSets, Sequences

CONSTANTS
  SessionCount,   \* slots: MaxClientCount + ExtraClientCount
  MaxSendBuffer,  \* half packets that fit in MaxClientSendBufferSize
  MaxConnections, \* bound on the connections explored
  MaxRequests     \* bound on the requests explored

(* An fd_set holds FD_SETSIZE = 1024 sockets, the server's own included. *)
ASSUME NetworkAssumption ==
  /\ SessionCount \in 1..1023
  /\ MaxSendBuffer \in Nat
  /\ MaxConnections \in Nat
  /\ MaxRequests \in Nat

VARIABLES
  called,     \* clients: how many have called connect
  requests,   \* how many requests they have sent
  inbox,      \* requests of each connection the server has not received
  gone,       \* connections their clients have closed or reset
  midPacket,  \* clients that have received one half of a packet
  accepted,   \* how many connections the server has accepted
  sock,       \* ClientSession::SocketFD
  freeSessions,   \* m_ClientSessionPoolIndex
  connectedCount, \* m_ConnectedSessionCount
  readfds,        \* m_Readfds, the server's own socket left out
  packetQueue,    \* m_PacketQueue
  sendBuf,        \* pSendBuffer, as far as SendSize
  phase,          \* where the thread is in Main::Run and TcpNetwork::Run
  cursor,         \* the slot a loop over the sessions has come to
  readSet,        \* read_set and write_set as select returned them
  writeSet,
  received        \* requests received and not yet framed

clientVars == <<called, requests, inbox, gone>>
slotVars   == <<sock, freeSessions, connectedCount, readfds>>
dataVars   == <<clientVars, midPacket, accepted, slotVars, packetQueue, sendBuf>>
loopVars   == <<phase, cursor, readSet, writeSet, received>>
netVars    == <<called, requests, inbox, gone, midPacket, accepted,
                sock, freeSessions, connectedCount, readfds, packetQueue,
                sendBuf, phase, cursor, readSet, writeSet, received>>

Sessions    == 0..(SessionCount - 1)
Connections == 1..MaxConnections

NoSocket  == 0    \* SocketFD of a free slot
BadSocket == -1   \* INVALID_SOCKET, cast to int
Sockets   == {BadSocket, NoSocket} \cup Connections

Phases == {"select", "accept", "receive", "frame", "write", "drain", "check"}

Packets == [id : {"NTF_SYS_CONNECT_SESSION", "REQ", "NTF_SYS_CLOSE_SESSION"},
            session : Sessions, conn : Sockets]

Packet(id, s) == [id |-> id, session |-> s, conn |-> sock[s]]

(* The two halves of a packet for the client at connection c. *)
Halves(c) == << [to |-> c, half |-> 1], [to |-> c, half |-> 2] >>

IsConnected(s) == sock[s] > NoSocket

NetInitOneSlotMore ==   \* "<=" in the loop of CreateSessionPool
  /\ called = 0
  /\ requests = 0
  /\ inbox = [c \in Connections |-> 0]
  /\ gone = [c \in Connections |-> FALSE]
  /\ midPacket = [c \in Connections |-> FALSE]
  /\ accepted = 0
  /\ sock = [s \in Sessions |-> NoSocket]
  /\ freeSessions = [i \in 1..(SessionCount + 1) |-> i - 1]
  /\ connectedCount = 0
  /\ readfds = {}
  /\ packetQueue = <<>>
  /\ sendBuf = [s \in Sessions |-> <<>>]
  /\ phase = "select"
  /\ cursor = 0
  /\ readSet = {}
  /\ writeSet = {}
  /\ received = 0

NetInit ==
  /\ called = 0
  /\ requests = 0
  /\ inbox = [c \in Connections |-> 0]
  /\ gone = [c \in Connections |-> FALSE]
  /\ midPacket = [c \in Connections |-> FALSE]
  /\ accepted = 0
  /\ sock = [s \in Sessions |-> NoSocket]
  /\ freeSessions = [i \in 1..SessionCount |-> i - 1]
  /\ connectedCount = 0
  /\ readfds = {}
  /\ packetQueue = <<>>
  /\ sendBuf = [s \in Sessions |-> <<>>]
  /\ phase = "select"
  /\ cursor = 0
  /\ readSet = {}
  /\ writeSet = {}
  /\ received = 0

-----------------------------------------------------------------------------
(* The clients.  What a client does after the server closed its socket has *)
(* no effect and is left out.                                              *)

Active(c) == c <= called /\ ~gone[c] /\ (c <= accepted => c \in readfds)

ClientConnects ==
  /\ called < MaxConnections
  /\ called' = called + 1
  /\ UNCHANGED <<requests, inbox, gone, midPacket, accepted, slotVars, packetQueue,
                 sendBuf, loopVars>>

ClientSends(c) ==
  /\ Active(c)
  /\ requests < MaxRequests
  /\ requests' = requests + 1
  /\ inbox' = [inbox EXCEPT ![c] = @ + 1]
  /\ UNCHANGED <<called, gone, midPacket, accepted, slotVars, packetQueue,
                 sendBuf, loopVars>>

ClientCloses(c) ==
  /\ Active(c)
  /\ gone' = [gone EXCEPT ![c] = TRUE]
  /\ UNCHANGED <<called, requests, inbox, midPacket, accepted, slotVars, packetQueue,
                 sendBuf, loopVars>>

(* closesocket: whatever was still under way is lost. *)
ConnectionEnds(c) ==
  /\ gone' = [gone EXCEPT ![c] = TRUE]
  /\ inbox' = [inbox EXCEPT ![c] = 0]
  /\ midPacket' = [midPacket EXCEPT ![c] = FALSE]

-----------------------------------------------------------------------------
(* Select and accept *)

(* select waits for a socket that can be read or written, or 1 ms.  Only   *)
(* the sockets with something to send matter to write_set: FlushSendBuff   *)
(* does nothing for the others.                                            *)
SelectReturns ==
  /\ phase = "select"
  /\ BadSocket \notin readfds
  /\ readSet' = {c \in readfds : inbox[c] > 0 \/ gone[c]}
  /\ \E writable \in SUBSET {sock[s] : s \in {t \in Sessions : IsConnected(t) /\ sendBuf[t] # <<>>}} :
       writeSet' = writable
  /\ phase' = IF called > accepted THEN "accept"
              ELSE IF readSet' = {} /\ writeSet' = {} THEN "drain"
              ELSE "receive"
  /\ UNCHANGED <<dataVars, cursor, received>>

AllocClientSessionIndex == freeSessions' = Tail(freeSessions)

(* A set with INVALID_SOCKET in it: SOCKET_ERROR, in every round. *)
SelectFails ==
  /\ phase = "select"
  /\ BadSocket \in readfds
  /\ phase' = "drain"
  /\ UNCHANGED <<dataVars, cursor, readSet, writeSet, received>>

(* ConnectedSession: the buffers keep what was left in them. *)
ConnectedSession(s, fd) ==
  /\ sock' = [sock EXCEPT ![s] = fd]
  /\ connectedCount' = connectedCount + 1
  /\ packetQueue' = Append(packetQueue, [id |-> "NTF_SYS_CONNECT_SESSION", session |-> s, conn |-> fd])

(* The rest of NewSession, once accept has returned fd.  A SOCKET is        *)
(* unsigned, so the check that it is negative never holds: INVALID_SOCKET   *)
(* takes a slot like any other.                                             *)
NewSession(fd) ==
  /\ phase = "accept"
  /\ accepted' = accepted + 1
  /\ phase' = "receive"
  /\ IF freeSessions = <<>>
     THEN /\ ConnectionEnds(accepted + 1)   \* closesocket: the pool is empty
          /\ UNCHANGED <<slotVars, packetQueue>>
     ELSE /\ AllocClientSessionIndex
          /\ readfds' = readfds \cup {fd}
          /\ ConnectedSession(Head(freeSessions), fd)
          /\ UNCHANGED <<inbox, gone, midPacket>>
  /\ UNCHANGED <<called, requests, sendBuf, cursor, readSet, writeSet, received>>

Accept == NewSession(accepted + 1)

(* accept fails when the client is gone before it is called. *)
AcceptFails == phase = "accept" /\ gone[accepted + 1] /\ NewSession(BadSocket)

-----------------------------------------------------------------------------
(* Closing a session *)

ClearSession(s) ==   \* ClientSession::Clear
  /\ sock' = [sock EXCEPT ![s] = NoSocket]
  /\ sendBuf' = [sendBuf EXCEPT ![s] = <<>>]

ReleaseSessionIndex(s) ==
  /\ freeSessions' = Append(freeSessions, s)
  /\ ClearSession(s)

CloseSessionQuietly(s) ==   \* a close that is not notified
  /\ ConnectionEnds(sock[s])
  /\ readfds' = readfds \ {sock[s]}
  /\ connectedCount' = connectedCount - 1
  /\ ReleaseSessionIndex(s)
  /\ UNCHANGED packetQueue

CloseSessionKeepsFd(s) ==   \* a forgotten FD_CLR
  /\ ConnectionEnds(sock[s])
  /\ connectedCount' = connectedCount - 1
  /\ ReleaseSessionIndex(s)
  /\ packetQueue' = Append(packetQueue, Packet("NTF_SYS_CLOSE_SESSION", s))
  /\ UNCHANGED readfds

(* closesocket and FD_CLR, Clear the slot, count, release, notify. *)
CloseSession(s) ==
  /\ ConnectionEnds(sock[s])
  /\ readfds' = readfds \ {sock[s]}
  /\ connectedCount' = connectedCount - 1
  /\ ReleaseSessionIndex(s)
  /\ packetQueue' = Append(packetQueue, Packet("NTF_SYS_CLOSE_SESSION", s))

-----------------------------------------------------------------------------
(* RunCheckSelectClients: the slot the loop has come to is "cursor". *)

NextClient ==
  IF cursor + 1 = SessionCount
  THEN cursor' = 0 /\ phase' = "drain" /\ readSet' = {} /\ writeSet' = {}
  ELSE cursor' = cursor + 1 /\ phase' = "receive" /\ UNCHANGED <<readSet, writeSet>>

SkipClient ==
  /\ phase = "receive"
  /\ ~IsConnected(cursor)
  /\ NextClient
  /\ UNCHANGED <<dataVars, received>>

NothingToReceive ==
  /\ phase = "receive"
  /\ IsConnected(cursor) /\ sock[cursor] \notin readSet
  /\ phase' = "write"
  /\ UNCHANGED <<dataVars, cursor, readSet, writeSet, received>>

(* recv returns what has arrived, as much as fits. *)
RecvSocket ==
  /\ phase = "receive"
  /\ IsConnected(cursor) /\ sock[cursor] \in readSet
  /\ \E n \in 1..inbox[sock[cursor]] :
       /\ inbox' = [inbox EXCEPT ![sock[cursor]] = @ - n]
       /\ received' = n
  /\ phase' = "frame"
  /\ UNCHANGED <<called, requests, gone, midPacket, accepted, slotVars, packetQueue, sendBuf,
                 cursor, readSet, writeSet>>

RemoteCloseIgnored ==   \* recv's 0 taken for "nothing yet"
  /\ phase = "receive"
  /\ IsConnected(cursor) /\ sock[cursor] \in readSet
  /\ gone[sock[cursor]]
  /\ phase' = "write"
  /\ UNCHANGED <<dataVars, cursor, readSet, writeSet, received>>

(* The client has closed (recv returns 0 after the data) or reset (-1). *)
RecvSocketFails ==
  /\ phase = "receive"
  /\ IsConnected(cursor) /\ sock[cursor] \in readSet
  /\ gone[sock[cursor]]
  /\ CloseSession(cursor)
  /\ NextClient
  /\ UNCHANGED <<called, requests, accepted, received>>

(* One round of the loop of RecvBufferProcess, and its two ends. *)
AddPacketQueue ==
  /\ phase = "frame"
  /\ received > 0
  /\ received' = received - 1
  /\ packetQueue' = Append(packetQueue, Packet("REQ", cursor))
  /\ UNCHANGED <<clientVars, midPacket, accepted, slotVars, sendBuf,
                 phase, cursor, readSet, writeSet>>

RecvBufferProcessFails ==   \* RECV_CLIENT_MAX_PACKET
  /\ phase = "frame"
  /\ received > 0
  /\ received' = 0
  /\ CloseSession(cursor)
  /\ NextClient
  /\ UNCHANGED <<called, requests, accepted>>

RecvBufferProcessEnds ==
  /\ phase = "frame"
  /\ received = 0
  /\ phase' = "write"
  /\ UNCHANGED <<dataVars, cursor, readSet, writeSet, received>>

NothingToSend ==
  /\ phase = "write"
  /\ sock[cursor] \notin writeSet
  /\ NextClient
  /\ UNCHANGED <<dataVars, received>>

FlushSendBuffNoMove(n) ==   \* SendSize is reduced, but memmove is forgotten
  /\ sendBuf' = [sendBuf EXCEPT ![cursor] = SubSeq(@, 1, Len(@) - n)]
  /\ midPacket' = [midPacket EXCEPT ![sock[cursor]] = (sendBuf[cursor][n].half = 1)]

(* send takes the first n halves; the rest moves to the front. *)
FlushSendBuff(n) ==
  /\ sendBuf' = [sendBuf EXCEPT ![cursor] = SubSeq(@, n + 1, Len(@))]
  /\ midPacket' = [midPacket EXCEPT ![sock[cursor]] = (sendBuf[cursor][n].half = 1)]

RunProcessWrite ==
  /\ phase = "write"
  /\ sock[cursor] \in writeSet
  /\ \E n \in 1..Len(sendBuf[cursor]) : FlushSendBuff(n)
  /\ NextClient
  /\ UNCHANGED <<clientVars, accepted, slotVars, packetQueue, received>>

SendSocketFails ==
  /\ phase = "write"
  /\ sock[cursor] \in writeSet
  /\ gone[sock[cursor]]
  /\ CloseSession(cursor)
  /\ NextClient
  /\ UNCHANGED <<called, requests, accepted, received>>

NetworkRun ==
  \/ SelectReturns \/ SelectFails \/ Accept \/ AcceptFails
  \/ SkipClient \/ NothingToReceive \/ RecvSocket \/ RecvSocketFails
  \/ AddPacketQueue \/ RecvBufferProcessFails \/ RecvBufferProcessEnds
  \/ NothingToSend \/ RunProcessWrite \/ SendSocketFails

-----------------------------------------------------------------------------
(* What the logic calls *)

(* The send buffers after SendData to each session of recipients: a packet  *)
(* that does not fit is dropped, and whether the session is connected is    *)
(* not asked.  client is the connection the caller takes to be at each      *)
(* session.                                                                 *)
SendData(bufs, recipients, client) ==
  [s \in Sessions |->
     IF s \in recipients /\ Len(bufs[s]) + 2 <= MaxSendBuffer
     THEN bufs[s] \o Halves(client[s])
     ELSE bufs[s]]

(* ForcingClose: nothing, unless the session is connected. *)
ForcingClose(s) ==
  IF IsConnected(s)
  THEN CloseSession(s) /\ UNCHANGED <<called, requests>>
  ELSE UNCHANGED <<clientVars, midPacket, slotVars, packetQueue, sendBuf>>
=============================================================================
