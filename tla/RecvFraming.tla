----------------------------- MODULE RecvFraming ----------------------------
(***************************************************************************)
(* How TcpNetwork cuts the bytes of one connection into packets: RecvSocket *)
(* puts what arrives behind the bytes left over, RecvBufferProcess queues   *)
(* every packet that is complete.  TcpNetwork takes this for granted: there *)
(* whole requests arrive.                                                   *)
(*                                                                         *)
(* A byte is known by its position in what the client has sent, from 1 on; *)
(* the header of a packet is HeaderSize bytes and says the size of its body. *)
(* Bodies of negative size are left out (the code reads such a header as    *)
(* that of an empty body and steps back).                                   *)
(*                                                                         *)
(* recv is given room for two bodies wherever it starts to write, and the    *)
(* size of a body is looked at only once the whole packet is there: bytes   *)
(* may be written beyond the buffer.  What the program does then is         *)
(* undefined, and the model stops there.                                    *)
(***************************************************************************)
EXTENDS Integers, Sequences

CONSTANTS
  HeaderSize,   \* PACKET_HEADER_SIZE
  MaxBodySize,  \* MAX_PACKET_BODY_SIZE
  MaxDeclared,  \* the largest body size a client declares
  BufferSize,   \* MaxClientRecvBufferSize
  MaxPackets    \* bound on the packets explored

(* Any sizes: nothing in the code relates the size of the buffer, which is   *)
(* configured, to that of the packets.                                      *)
ASSUME FramingAssumption ==
  /\ HeaderSize \in Nat \ {0}
  /\ MaxBodySize \in Nat \ {0}
  /\ MaxDeclared \in Nat
  /\ MaxPackets \in Nat
  /\ BufferSize \in Nat

VARIABLES
  packets,     \* client: the packets it has sent, their first bytes and body sizes
  sent,        \* client: bytes sent
  taken,       \* bytes received
  recvBuffer,  \* pRecvBuffer: a position in the stream in each cell, 0 at first
  remaining,   \* RemainingDataSize
  prevReadPos, \* PrevReadPosInRecvBuffer
  readPos,     \* RecvBufferProcess: readPos
  handled,     \* packets queued in earlier rounds, and handled since
  queue,       \* packets queued in this round
  phase        \* "receive", "frame", "closed", or "overrun": undefined from here on

vars == <<packets, sent, taken, recvBuffer, remaining, prevReadPos, readPos, handled, queue, phase>>

Cells == 0..(BufferSize - 1)

(* Where the k-th packet starts in the stream, or will start. *)
Start(k) == IF k \in DOMAIN packets THEN packets[k].start ELSE sent + 1

Init ==
  /\ packets = <<>>
  /\ sent = 0
  /\ taken = 0
  /\ recvBuffer = [c \in Cells |-> 0]
  /\ remaining = 0
  /\ prevReadPos = 0
  /\ readPos = 0
  /\ handled = 0
  /\ queue = <<>>
  /\ phase = "receive"

ClientSends(size) ==
  /\ Len(packets) < MaxPackets
  /\ packets' = Append(packets, [start |-> sent + 1, size |-> size])
  /\ sent' = sent + HeaderSize + size
  /\ UNCHANGED <<taken, recvBuffer, remaining, prevReadPos, readPos, handled, queue, phase>>

-----------------------------------------------------------------------------
(* RecvSocket *)

RecvLimitWholeBuffer == BufferSize   \* the size of the buffer, whatever is in it

RecvLimit == MaxBodySize * 2

LeftOversStay(c) == recvBuffer[c]   \* a forgotten memcpy

(* The bytes left over, moved to the front. *)
LeftOvers(c) == recvBuffer[prevReadPos + c]

(* What was queued before is handled by now (ServerLoop, RequestsHandledInTime): *)
(* its place in the buffer may be used again.                                *)
RecvSocket(n) ==
  /\ phase = "receive"
  /\ n <= sent - taken /\ n <= RecvLimit
  /\ remaining + n <= BufferSize
  /\ recvBuffer' = [c \in Cells |->
       IF c < remaining THEN LeftOvers(c)
       ELSE IF c < remaining + n THEN taken + 1 + c - remaining
       ELSE recvBuffer[c]]
  /\ taken' = taken + n
  /\ remaining' = remaining + n
  /\ readPos' = 0
  /\ handled' = handled + Len(queue)
  /\ queue' = <<>>
  /\ phase' = "frame"
  /\ UNCHANGED <<packets, sent, prevReadPos>>

(* The bytes received go beyond the end of pRecvBuffer. *)
RecvOverruns(n) ==
  /\ phase = "receive"
  /\ n <= sent - taken /\ n <= RecvLimit
  /\ remaining + n > BufferSize
  /\ phase' = "overrun"
  /\ UNCHANGED <<packets, sent, taken, recvBuffer, remaining, prevReadPos, readPos, handled, queue>>

-----------------------------------------------------------------------------
(* RecvBufferProcess: dataSize is RemainingDataSize, readPos the loop's *)

(* BodySize of the header at cell c; bytes that are no header mean nothing. *)
BodySize(c) ==
  IF \E k \in DOMAIN packets : Start(k) = recvBuffer[c]
  THEN packets[CHOOSE k \in DOMAIN packets : Start(k) = recvBuffer[c]].size
  ELSE 0

HasHeader == remaining - readPos >= HeaderSize

IncompleteReversed(size) ==   \* the root's TcpNetwork.cpp:421
  size > 0 /\ size < remaining - (readPos + HeaderSize)

Incomplete(size) == size > 0 /\ size > remaining - (readPos + HeaderSize)

TooLarge(size) == size > MaxBodySize

AddPacketQueue(size) ==
  /\ queue' = Append(queue, [at |-> readPos + HeaderSize, size |-> size])
  /\ readPos' = readPos + HeaderSize + size

NextPacket ==
  /\ phase = "frame"
  /\ HasHeader
  /\ ~Incomplete(BodySize(readPos))
  /\ ~TooLarge(BodySize(readPos))
  /\ AddPacketQueue(BodySize(readPos))
  /\ UNCHANGED <<packets, sent, taken, recvBuffer, remaining, prevReadPos, handled, phase>>

(* The loop ends where a packet is not complete, header or body. *)
LoopEnds ==
  /\ phase = "frame"
  /\ HasHeader => Incomplete(BodySize(readPos))
  /\ remaining' = remaining - readPos
  /\ prevReadPos' = readPos
  /\ phase' = "receive"
  /\ UNCHANGED <<packets, sent, taken, recvBuffer, readPos, handled, queue>>

(* RECV_CLIENT_MAX_PACKET: the session is closed. *)
PacketTooLarge ==
  /\ phase = "frame"
  /\ HasHeader
  /\ ~Incomplete(BodySize(readPos))
  /\ TooLarge(BodySize(readPos))
  /\ phase' = "closed"
  /\ UNCHANGED <<packets, sent, taken, recvBuffer, remaining, prevReadPos, readPos, handled, queue>>

-----------------------------------------------------------------------------
Receive == \E n \in 1..RecvLimit : RecvSocket(n) \/ RecvOverruns(n)

Server == Receive \/ NextPacket \/ LoopEnds \/ PacketTooLarge

Next == Server \/ \E size \in 0..MaxDeclared : ClientSends(size)

Spec == Init /\ [][Next]_vars

(* The thread comes back to the session as long as it is connected. *)
FairSpec == Spec /\ WF_vars(Server)

-----------------------------------------------------------------------------
(* Properties *)

(* The type of every variable. *)
TypeOK ==
  /\ packets \in Seq([start : Nat, size : 0..MaxDeclared])
  /\ sent \in Nat
  /\ taken \in Nat
  /\ recvBuffer \in [Cells -> Nat]
  /\ remaining \in 0..BufferSize
  /\ prevReadPos \in 0..BufferSize
  /\ readPos \in 0..BufferSize
  /\ handled \in Nat
  /\ queue \in Seq([at : Nat, size : 0..MaxDeclared])
  /\ phase \in {"receive", "frame", "closed", "overrun"}

(* However the bytes arrive, the packets queued are the ones sent, in order, *)
(* and each points at its own body, up to the time it is handled.            *)
FramedInOrder ==
  \A i \in DOMAIN queue :
    LET k == handled + i IN
      /\ k \in DOMAIN packets
      /\ queue[i].size = packets[k].size
      /\ \A b \in 0..(packets[k].size - 1) :
           recvBuffer[queue[i].at + b] = Start(k) + HeaderSize + b

(* Between two rounds the bytes left over are those the client sent behind   *)
(* the last packet queued, none missing and none twice.                     *)
LeftOversAreNext ==
  phase = "receive" =>
    /\ taken - remaining + 1 = Start(handled + Len(queue) + 1)
    /\ \A c \in 0..(remaining - 1) : recvBuffer[prevReadPos + c] = taken - remaining + 1 + c

(* The body size of the packet the loop waits for, if the client sent one. *)
Awaited ==
  LET k == handled + Len(queue) + 1 IN IF k \in DOMAIN packets THEN packets[k].size ELSE 0

(* What RecvSocket leaves to chance, and no more: the buffer is overrun only *)
(* while a packet is awaited that together with two bodies of the permitted  *)
(* size (RecvSocket's recv) does not fit.                                    *)
OverrunNeedsLargeBody ==
  phase = "overrun" => HeaderSize + Awaited - 1 + 2 * MaxBodySize > BufferSize

(* A session is closed for a packet that is too large and no other, and such *)
(* a packet is never queued.                                                *)
ClosedForItsSize ==
  /\ phase = "closed" => packets[handled + Len(queue) + 1].size > MaxBodySize
  /\ \A i \in DOMAIN queue : queue[i].size <= MaxBodySize

(* Every packet is queued in the end, or the session closed, or the buffer   *)
(* overrun.                                                                 *)
EveryPacketIsQueued ==
  \A k \in 1..MaxPackets :
    k = Len(packets) ~> handled + Len(queue) >= k \/ phase \in {"closed", "overrun"}
=============================================================================
