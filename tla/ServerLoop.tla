----------------------------- MODULE ServerLoop -----------------------------
(***************************************************************************)
(* Main::Run: the network's Run, then every queued packet through          *)
(* PacketProcess::Process, then StateCheck, round after round until Stop.  *)
(* Of the logic this module keeps what ConnectedUserManager knows of a     *)
(* session and how often a handler sends; PacketProcess models the rest.   *)
(***************************************************************************)
EXTENDS TcpNetwork

VARIABLES
  party,    \* the connection whose connect notification the logic has handled
            \* at each session; m_ConnectedTime is set iff there is one
  loginOK,  \* m_IsLoginSuccess
  running   \* m_IsRun

loopLogicVars == <<party, loginOK>>
serverVars == <<netVars, party, loginOK, running>>

Init ==
  /\ NetInit
  /\ party = [s \in Sessions |-> NoSocket]
  /\ loginOK = [s \in Sessions |-> FALSE]
  /\ running = TRUE

-----------------------------------------------------------------------------
(* GetPacketInfo, and the handler of the packet.  Clients send the ids of   *)
(* the dispatch table, so the loop stops at the empty queue's id 0 only.    *)

(* The buffers after SendData to each of recipients, as the logic knows them. *)
Sends(bufs, recipients) == SendData(bufs, recipients, party)

NtfSysConnctSession(s, c) ==
  /\ party' = [party EXCEPT ![s] = c]
  /\ UNCHANGED <<loginOK, sendBuf>>

NtfSysCloseSessionKeepsTime(s) ==   \* ConnectedUser::Clear forgets m_ConnectedTime
  /\ loginOK' = [loginOK EXCEPT ![s] = FALSE]
  /\ \E first \in SUBSET (Sessions \ {s}), second \in SUBSET (Sessions \ {s}) :
       sendBuf' = Sends(Sends(sendBuf, first), second)
  /\ UNCHANGED party

(* A user who was in a room is announced to the room and to the lobby, but  *)
(* not to itself (NewsStaysInPlace).                                        *)
NtfSysCloseSession(s) ==
  /\ party' = [party EXCEPT ![s] = NoSocket]
  /\ loginOK' = [loginOK EXCEPT ![s] = FALSE]
  /\ \E first \in SUBSET (Sessions \ {s}), second \in SUBSET (Sessions \ {s}) :
       sendBuf' = Sends(Sends(sendBuf, first), second)

(* Login has one answer, whether it succeeds or not. *)
Login(s) ==
  /\ \E ok \in BOOLEAN : loginOK' = [loginOK EXCEPT ![s] = @ \/ ok]
  /\ sendBuf' = Sends(sendBuf, {s})
  /\ UNCHANGED party

(* Of the other requests those that enter or leave a room send the most:    *)
(* three notices and the answer.  Who shares a lobby or a room is left      *)
(* open: a notice may go to any sessions, the caller's own as in a chat, or *)
(* one with no client, as the whisper to a user index with no session of    *)
(* that number.  A list that starts beyond its end is not answered.         *)
LobbyOrRoomRequest(s) ==
  /\ \E first, second, third \in SUBSET Sessions, answered \in SUBSET {s} :
       sendBuf' = Sends(Sends(Sends(Sends(sendBuf, first), second), third), answered)
  /\ UNCHANGED loopLogicVars

Request(s) == Login(s) \/ LobbyOrRoomRequest(s)

Process(p) ==
  \/ p.id = "NTF_SYS_CONNECT_SESSION" /\ NtfSysConnctSession(p.session, p.conn)
  \/ p.id = "NTF_SYS_CLOSE_SESSION" /\ NtfSysCloseSession(p.session)
  \/ p.id = "REQ" /\ Request(p.session)

HandlePacketOncePerRound ==   \* an "if" for the inner "while" of Main::Run
  /\ phase = "drain"
  /\ packetQueue # <<>>
  /\ Process(Head(packetQueue))
  /\ packetQueue' = Tail(packetQueue)
  /\ phase' = "check"
  /\ UNCHANGED <<clientVars, midPacket, accepted, slotVars,
                 cursor, readSet, writeSet, received>>

HandlePacketKeepsHead ==   \* GetPacketInfo without the pop_front
  /\ phase = "drain"
  /\ packetQueue # <<>>
  /\ Process(Head(packetQueue))
  /\ UNCHANGED <<clientVars, midPacket, accepted, slotVars, loopVars, packetQueue>>

HandlePacket ==
  /\ phase = "drain"
  /\ packetQueue # <<>>
  /\ Process(Head(packetQueue))
  /\ packetQueue' = Tail(packetQueue)
  /\ UNCHANGED <<clientVars, midPacket, accepted, slotVars, loopVars>>

QueueIsEmpty ==
  /\ phase = "drain"
  /\ packetQueue = <<>>
  /\ phase' = "check"
  /\ UNCHANGED <<dataVars, cursor, readSet, writeSet, received, loopLogicVars>>

-----------------------------------------------------------------------------
(* StateCheck: LoginCheck looks at some sessions, in order of their index,  *)
(* and closes those that have waited too long (the module LoginCheck says   *)
(* which and when).                                                         *)

CheckNext ==
  /\ IF cursor + 1 = SessionCount
     THEN cursor' = 0 /\ phase' = "select"
     ELSE cursor' = cursor + 1 /\ phase' = phase
  /\ UNCHANGED <<accepted, readSet, writeSet, received, loopLogicVars>>

CheckPasses ==
  /\ phase = "check"
  /\ CheckNext
  /\ UNCHANGED <<clientVars, midPacket, slotVars, packetQueue, sendBuf>>

LoginWaitOver ==
  /\ phase = "check"
  /\ party[cursor] # NoSocket
  /\ ~loginOK[cursor]
  /\ ForcingClose(cursor)
  /\ CheckNext

-----------------------------------------------------------------------------
(* The logic's thread.  m_IsRun is looked at between two rounds only.       *)
Server ==
  /\ phase = "select" => running
  /\ \/ NetworkRun /\ UNCHANGED loopLogicVars
     \/ HandlePacket \/ QueueIsEmpty
     \/ CheckPasses \/ LoginWaitOver
  /\ UNCHANGED running

(* The console's thread, when a key is pressed; it then waits for the other. *)
Stop ==
  /\ running
  /\ running' = FALSE
  /\ UNCHANGED <<netVars, loopLogicVars>>

Terminated == ~running /\ phase = "select"

Clients ==
  /\ \/ ClientConnects
     \/ \E c \in Connections : ClientSends(c) \/ ClientCloses(c)
  /\ UNCHANGED <<loopLogicVars, running>>

Next ==
  \/ Server \/ Stop \/ Clients
  \/ Terminated /\ UNCHANGED serverVars

Spec == Init /\ [][Next]_serverVars

(* The logic's thread goes on; nothing is asked of the clients, nor of the  *)
(* one who may press a key.                                                 *)
FairSpec == Spec /\ WF_serverVars(Server)
=============================================================================
