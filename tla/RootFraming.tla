----------------------------- MODULE RootFraming ----------------------------
(***************************************************************************)
(* The framing of the earlier TcpNetwork that lies at the root of the      *)
(* repository (src/TcpNetwork.cpp), on the variables of RecvFraming.  It    *)
(* moves the bytes left over at the end of a round, not at the start of the *)
(* next, so prevReadPos has no counterpart and stays 0; and it compares the *)
(* size of a body with what is there the other way round.                  *)
(***************************************************************************)
EXTENDS RecvFraming

(* Where recv writes: remaining may be negative, for readPos may run beyond  *)
(* the bytes that are there.                                                *)
RecvPos == IF remaining > 0 THEN remaining ELSE 0

RootRecvSocket(n) ==
  /\ phase = "receive"
  /\ n <= sent - taken
  /\ RecvPos + n <= BufferSize
  /\ recvBuffer' = [c \in Cells |->
       IF c \in RecvPos..(RecvPos + n - 1) THEN taken + 1 + c - RecvPos ELSE recvBuffer[c]]
  /\ taken' = taken + n
  /\ remaining' = remaining + n
  /\ readPos' = 0
  /\ handled' = handled + Len(queue)
  /\ queue' = <<>>
  /\ phase' = "frame"
  /\ UNCHANGED <<packets, sent, prevReadPos>>

(* The bytes received go beyond the end of pRecvBuffer, as in RecvOverruns. *)
RootRecvOverruns(n) ==
  /\ phase = "receive"
  /\ n <= sent - taken
  /\ RecvPos + n > BufferSize
  /\ phase' = "overrun"
  /\ UNCHANGED <<packets, sent, taken, recvBuffer, remaining, prevReadPos, readPos, handled, queue>>

-----------------------------------------------------------------------------
(* RecvBufferProcess *)

(* The sizes the header at cell c may declare: bytes that are no header may  *)
(* be any number.                                                           *)
HeaderSays(c) ==
  IF \E k \in DOMAIN packets : Start(k) = recvBuffer[c] THEN {BodySize(c)} ELSE 0..MaxDeclared

(* The comparison: more is there than the body. *)
MoreThanBody(size) == size > 0 /\ size < remaining - (readPos + HeaderSize)

RootNextPacket(size) ==
  /\ phase = "frame" /\ HasHeader /\ size \in HeaderSays(readPos)
  /\ ~MoreThanBody(size) /\ ~TooLarge(size)
  /\ AddPacketQueue(size)
  /\ UNCHANGED <<packets, sent, taken, recvBuffer, remaining, prevReadPos, handled, phase>>

(* The loop leaves off at cell "end", and the rest moves to the front. *)
LeaveOver(end) ==
  /\ remaining' = remaining - end
  /\ recvBuffer' = [c \in Cells |->
       IF c < remaining - end THEN recvBuffer[end + c] ELSE recvBuffer[c]]
  /\ phase' = "receive"
  /\ UNCHANGED <<packets, sent, taken, prevReadPos, readPos, handled, queue>>

RootLoopEnds == phase = "frame" /\ ~HasHeader /\ LeaveOver(readPos)

(* A body with something behind it: the loop stops, its header read. *)
RootLoopBreaks(size) ==
  /\ phase = "frame" /\ HasHeader /\ size \in HeaderSays(readPos)
  /\ MoreThanBody(size)
  /\ LeaveOver(readPos + HeaderSize)

RootPacketTooLarge(size) ==
  /\ phase = "frame" /\ HasHeader /\ size \in HeaderSays(readPos)
  /\ ~MoreThanBody(size) /\ TooLarge(size)
  /\ phase' = "closed"
  /\ UNCHANGED <<packets, sent, taken, recvBuffer, remaining, prevReadPos, readPos, handled, queue>>

-----------------------------------------------------------------------------
RootServer ==
  \/ \E n \in 1..RecvLimit : RootRecvSocket(n) \/ RootRecvOverruns(n)
  \/ RootLoopEnds
  \/ \E size \in 0..MaxDeclared :
       RootNextPacket(size) \/ RootLoopBreaks(size) \/ RootPacketTooLarge(size)

RootNext == RootServer \/ \E size \in 0..MaxDeclared : ClientSends(size)

RootSpec == Init /\ [][RootNext]_vars
=============================================================================
