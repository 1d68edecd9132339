------------------------ MODULE ServerLoopProperties ------------------------
(* What must hold of the main loop and the network under it. *)
EXTENDS ServerLoop

(* The type of every variable of TcpNetwork and ServerLoop. *)
TypeOK ==
  /\ called \in 0..MaxConnections
  /\ requests \in 0..MaxRequests
  /\ inbox \in [Connections -> 0..MaxRequests]
  /\ gone \in [Connections -> BOOLEAN]
  /\ midPacket \in [Connections -> BOOLEAN]
  /\ accepted \in 0..called
  /\ sock \in [Sessions -> Sockets]
  /\ freeSessions \in Seq(Sessions)
  /\ connectedCount \in Int
  /\ readfds \in SUBSET Sockets
  /\ packetQueue \in Seq(Packets)
  /\ sendBuf \in [Sessions -> Seq([to : Sockets, half : {1, 2}])]
  /\ phase \in Phases
  /\ cursor \in Sessions
  /\ readSet \in SUBSET Sockets
  /\ writeSet \in SUBSET Sockets
  /\ received \in Nat
  /\ party \in [Sessions -> Sockets]
  /\ loginOK \in [Sessions -> BOOLEAN]
  /\ running \in BOOLEAN

-----------------------------------------------------------------------------
(* The slots *)

(* m_ClientSessionPoolIndex holds every free slot, once, and no other.  The *)
(* sockets of the other slots differ, are the ones select watches, and are  *)
(* as many as m_ConnectedSessionCount.                                      *)
SessionPoolConsistent ==
  /\ \A i, j \in DOMAIN freeSessions : i # j => freeSessions[i] # freeSessions[j]
  /\ \A s \in Sessions : sock[s] = NoSocket <=> \E i \in DOMAIN freeSessions : freeSessions[i] = s
  /\ \A s, t \in Sessions : s # t /\ IsConnected(s) => sock[s] # sock[t]
  /\ readfds = {sock[s] : s \in Sessions} \ {NoSocket}
  /\ connectedCount = SessionCount - Len(freeSessions)

-----------------------------------------------------------------------------
(* The packet queue *)

(* The last notification of session s among the first i queued packets, or  *)
(* before them all the last one the logic has handled, is that of connection *)
(* c, or is a close if c is NoSocket.                                       *)
Follows(s, i, c) ==
  \E j \in 0..i :
    /\ \A k \in (j + 1)..i : packetQueue[k].session = s => packetQueue[k].id = "REQ"
    /\ IF j = 0 THEN party[s] = c
       ELSE /\ packetQueue[j].session = s
            /\ \/ packetQueue[j].id = "NTF_SYS_CONNECT_SESSION" /\ packetQueue[j].conn = c
               \/ packetQueue[j].id = "NTF_SYS_CLOSE_SESSION" /\ c = NoSocket

(* Requests and the close of a connection are queued behind its connect,    *)
(* with no other connection of that slot in between, however soon the slot  *)
(* is taken again: what the guards of PacketProcess take for granted.       *)
QueueInProtocol ==
  \A i \in DOMAIN packetQueue :
    LET p == packetQueue[i] IN
      /\ p.conn # NoSocket
      /\ Follows(p.session, i - 1,
                 IF p.id = "NTF_SYS_CONNECT_SESSION" THEN NoSocket ELSE p.conn)

(* Once every packet is handled, the logic takes exactly the connected       *)
(* sessions to be connected, each to the connection it is connected to.      *)
LogicTracksNetwork == packetQueue = <<>> => party = sock

(* A queued request points into its session's receive buffer, and the login *)
(* check must not overtake a login: no request is left when the next round  *)
(* or the check begins, nor when its own session's turn to receive comes.   *)
RequestsHandledInTime ==
  \A i \in DOMAIN packetQueue :
    packetQueue[i].id = "REQ" =>
      /\ phase \notin {"select", "accept", "check"}
      /\ phase = "receive" => packetQueue[i].session < cursor

-----------------------------------------------------------------------------
(* The send buffers *)

(* However much of its buffer each send takes, a client receives whole      *)
(* packets: the buffer continues where its client is, and ends a packet.    *)
WholePackets ==
  \A s \in Sessions :
    LET half(i) == IF (i % 2 = 1) = (IsConnected(s) /\ midPacket[sock[s]]) THEN 2 ELSE 1 IN
      /\ \A i \in DOMAIN sendBuf[s] : sendBuf[s][i].half = half(i)
      /\ half(Len(sendBuf[s]) + 1) = 1
      /\ Len(sendBuf[s]) <= MaxSendBuffer

(* Violated: what waits in a client's buffer is for that client.  A handler  *)
(* that runs after its session was closed fills the buffer of a free slot,   *)
(* which the next client of the slot is then sent.                           *)
RepliesReachTheirSession ==
  \A s \in Sessions : IsConnected(s) =>
    \A i \in DOMAIN sendBuf[s] : sendBuf[s][i].to = sock[s]

-----------------------------------------------------------------------------
(* Liveness *)

(* A failed accept has put INVALID_SOCKET among the sockets select watches. *)
Deaf == BadSocket \in readfds

(* A client that goes away is noticed, its slot released, and the logic told, *)
(* in every phase and with any number of packets under way, unless select     *)
(* has stopped working or the thread ends.                                    *)
GoneClientsAreForgotten ==
  \A c \in Connections :
    gone[c] /\ (\E s \in Sessions : party[s] = c) ~>
      (\A s \in Sessions : party[s] # c) \/ Deaf \/ Terminated

(* Stop lets the logic's thread end, so that the console's join returns:    *)
(* every round comes to its end, the loop over the queue with it, whatever   *)
(* the clients go on sending.                                                *)
StopEndsTheThread == ~running ~> Terminated
=============================================================================
