-------------------------- MODULE RecvFramingProofs -------------------------
(***************************************************************************)
(* However the bytes arrive, the packets queued are the ones sent, in      *)
(* order and whole, and recv writes beyond the receive buffer only while a *)
(* packet is awaited that is too large for it: for any stream of packets   *)
(* and any sizes.                                                          *)
(***************************************************************************)
EXTENDS RecvFraming, SequenceTheorems, TLAPS

(* What a round leaves is in the buffer; a round reads what it has. *)
RoomLeft ==
  /\ phase = "receive" => prevReadPos + remaining <= BufferSize
  /\ phase = "frame" => readPos <= remaining

FramingInv == TypeOK /\ RoomLeft

(* What a header says is a size a client declares, or 0. *)
LEMMA BodySizeBounds ==
  ASSUME TypeOK, NEW c
  PROVE  BodySize(c) \in 0..MaxDeclared
<1>1. CASE \E k \in DOMAIN packets : Start(k) = recvBuffer[c]
  <2>1. PICK k \in DOMAIN packets : BodySize(c) = packets[k].size
    BY <1>1 DEF BodySize
  <2> DEFINE S == [start : Nat, size : 0..MaxDeclared]
  <2>2. packets \in Seq(S) /\ k \in DOMAIN packets
    BY DEF TypeOK
  <2> HIDE DEF S
  <2>3. packets[k] \in S
    BY <2>2
  <2> QED BY <2>1, <2>3 DEF S
<1>2. CASE ~ \E k \in DOMAIN packets : Start(k) = recvBuffer[c]
  BY <1>2, FramingAssumption DEF BodySize
<1> QED BY <1>1, <1>2

(* At first the buffer is empty. *)
LEMMA InitFramingInv == Init => FramingInv
<1> SUFFICES ASSUME Init PROVE FramingInv
  OBVIOUS
<1>1. TypeOK
  BY FramingAssumption DEF Init, TypeOK, Cells
<1>2. RoomLeft
  BY FramingAssumption DEF Init, RoomLeft
<1> QED BY <1>1, <1>2 DEF FramingInv

(* recv adds bytes that fit behind those left over. *)
LEMMA RecvSocketKeeps ==
  ASSUME FramingInv, NEW n \in 1..RecvLimit, RecvSocket(n)
  PROVE  FramingInv'
<1> USE FramingAssumption
<1>1. TypeOK /\ RoomLeft
  BY DEF FramingInv
<1>2. /\ phase = "receive" /\ phase' = "frame" /\ n \in Nat /\ remaining + n <= BufferSize
      /\ taken' = taken + n /\ remaining' = remaining + n /\ readPos' = 0
      /\ handled' = handled + Len(queue) /\ queue' = <<>>
      /\ UNCHANGED <<packets, sent, prevReadPos>>
  BY DEF RecvSocket, RecvLimit
<1>3. /\ remaining \in Nat /\ prevReadPos \in Nat /\ taken \in Nat
      /\ prevReadPos + remaining <= BufferSize
  BY <1>1, <1>2 DEF TypeOK, RoomLeft
<1>4. remaining' \in 0..BufferSize
  BY <1>2, <1>3
<1>5. recvBuffer' \in [Cells -> Nat]
  <2> DEFINE cell(c) == IF c < remaining THEN LeftOvers(c)
                        ELSE IF c < remaining + n THEN taken + 1 + c - remaining
                        ELSE recvBuffer[c]
  <2>1. recvBuffer' = [c \in Cells |-> cell(c)]
    BY DEF RecvSocket
  <2>2. ASSUME NEW c \in Cells PROVE cell(c) \in Nat
    <3>1. c \in Nat /\ recvBuffer[c] \in Nat
      BY <1>1 DEF TypeOK, Cells
    <3>2. CASE c < remaining
      <4>1. prevReadPos + c \in Cells
        BY <1>3, <3>1, <3>2 DEF Cells
      <4>2. LeftOvers(c) \in Nat
        BY <1>1, <4>1 DEF LeftOvers, TypeOK
      <4> QED BY <3>2, <4>2
    <3>3. CASE ~(c < remaining) /\ c < remaining + n
      <4>1. taken + 1 + c - remaining \in Nat
        BY <1>3, <3>1, <3>3
      <4> QED BY <3>3, <4>1
    <3>4. CASE ~(c < remaining) /\ ~(c < remaining + n)
      BY <3>1, <3>4
    <3> QED BY <3>2, <3>3, <3>4
  <2> HIDE DEF cell
  <2> QED BY <2>1, <2>2
<1>6. TypeOK'
  BY <1>1, <1>2, <1>3, <1>4, <1>5 DEF TypeOK
<1>7. RoomLeft'
  BY <1>2, <1>3 DEF RoomLeft
<1> QED BY <1>6, <1>7 DEF FramingInv

(* A packet is queued only if it is there as a whole. *)
LEMMA NextPacketKeeps ==
  ASSUME FramingInv, NextPacket
  PROVE  FramingInv'
<1> USE FramingAssumption
<1>1. TypeOK /\ RoomLeft
  BY DEF FramingInv
<1>2. PICK size \in 0..MaxDeclared : size = BodySize(readPos)
  BY <1>1, BodySizeBounds
<1>3. /\ phase = "frame" /\ remaining - readPos >= HeaderSize
      /\ ~(size > 0 /\ size > remaining - (readPos + HeaderSize))
      /\ queue' = Append(queue, [at |-> readPos + HeaderSize, size |-> size])
      /\ readPos' = readPos + HeaderSize + size
      /\ UNCHANGED <<packets, sent, taken, recvBuffer, remaining, prevReadPos, handled, phase>>
  BY <1>2 DEF NextPacket, HasHeader, Incomplete, AddPacketQueue
<1>4. readPos \in Nat /\ remaining \in 0..BufferSize
  BY <1>1 DEF TypeOK
<1>5. readPos' \in 0..BufferSize /\ readPos' <= remaining
  BY <1>2, <1>3, <1>4
<1>6. queue' \in Seq([at : Nat, size : 0..MaxDeclared])
  <2>1. [at |-> readPos + HeaderSize, size |-> size] \in [at : Nat, size : 0..MaxDeclared]
    BY <1>2, <1>4
  <2> QED BY <1>1, <1>3, <2>1 DEF TypeOK
<1>7. TypeOK'
  BY <1>1, <1>3, <1>5, <1>6 DEF TypeOK
<1>8. RoomLeft'
  BY <1>3, <1>5 DEF RoomLeft
<1> QED BY <1>7, <1>8 DEF FramingInv

(* What is left over lies behind what was read. *)
LEMMA LoopEndsKeeps ==
  ASSUME FramingInv, LoopEnds
  PROVE  FramingInv'
<1> USE FramingAssumption
<1>1. TypeOK /\ RoomLeft
  BY DEF FramingInv
<1>2. /\ phase = "frame" /\ phase' = "receive"
      /\ remaining' = remaining - readPos /\ prevReadPos' = readPos
      /\ UNCHANGED <<packets, sent, taken, recvBuffer, readPos, handled, queue>>
  BY DEF LoopEnds
<1>3. readPos \in 0..BufferSize /\ remaining \in 0..BufferSize /\ readPos <= remaining
  BY <1>1, <1>2 DEF TypeOK, RoomLeft
<1>4. remaining' \in 0..BufferSize /\ prevReadPos' \in 0..BufferSize
  BY <1>2, <1>3
<1>5. TypeOK'
  BY <1>1, <1>2, <1>4 DEF TypeOK
<1>6. RoomLeft'
  BY <1>2, <1>3 DEF RoomLeft
<1> QED BY <1>5, <1>6 DEF FramingInv

(* Every step of the server and the client keeps FramingInv. *)
LEMMA StepFramingInv ==
  ASSUME FramingInv, [Next]_vars
  PROVE  FramingInv'
<1>1. CASE Receive
  <2>1. CASE \E n \in 1..RecvLimit : RecvSocket(n)
    BY <2>1, RecvSocketKeeps
  <2>2. CASE \E n \in 1..RecvLimit : RecvOverruns(n)
    BY <2>2 DEF RecvOverruns, FramingInv, TypeOK, RoomLeft
  <2> QED BY <1>1, <2>1, <2>2 DEF Receive
<1>2. CASE NextPacket
  BY <1>2, NextPacketKeeps
<1>3. CASE LoopEnds
  BY <1>3, LoopEndsKeeps
<1>4. CASE PacketTooLarge
  BY <1>4 DEF PacketTooLarge, FramingInv, TypeOK, RoomLeft
<1>5. ASSUME NEW size \in 0..MaxDeclared, ClientSends(size) PROVE FramingInv'
  <2>1. packets' \in Seq([start : Nat, size : 0..MaxDeclared]) /\ sent' \in Nat
    BY <1>5, FramingAssumption DEF ClientSends, FramingInv, TypeOK
  <2> QED BY <1>5, <2>1 DEF ClientSends, FramingInv, TypeOK, RoomLeft
<1>6. CASE UNCHANGED vars
  BY <1>6 DEF vars, FramingInv, TypeOK, RoomLeft
<1> QED
  BY <1>1, <1>2, <1>3, <1>4, <1>5, <1>6 DEF Next, Server

(* The buffer's cells and positions stay what they are declared to be. *)
THEOREM FramingTypesCorrect == Spec => []TypeOK
<1>1. FramingInv => TypeOK
  BY DEF FramingInv
<1> QED BY <1>1, InitFramingInv, StepFramingInv, PTL DEF Spec

-----------------------------------------------------------------------------
(* The stream *)

(* The packet the loop is at, or waits for. *)
Current == handled + Len(queue) + 1

(* Packets follow one another in the stream, the first at its first byte, and *)
(* nothing is received that was not sent; a session is closed for a packet    *)
(* that was sent.                                                             *)
StreamInOrder ==
  /\ Start(1) = 1
  /\ \A k \in DOMAIN packets : Start(k + 1) = Start(k) + HeaderSize + packets[k].size
  /\ \A j, k \in 1..(Len(packets) + 1) : j < k => Start(j) < Start(k)
  /\ taken <= sent
  /\ Current <= Len(packets) + 1
  /\ phase = "closed" => Current \in DOMAIN packets

(* In a round, the buffer holds the last bytes received, and the loop is at   *)
(* the first byte of a packet.                                                *)
RoundInPlace ==
  phase = "frame" =>
    /\ taken - remaining + 1 + readPos = Start(Current)
    /\ \A c \in 0..(remaining - 1) : recvBuffer[c] = taken - remaining + 1 + c

(* What a round leaves over is less than the packet it waits for. *)
LessThanAwaited == phase = "receive" => remaining <= HeaderSize + Awaited - 1

(* LeftOversAreNext carries a round over to the next one, LessThanAwaited    *)
(* says how much that is.                                                    *)
StreamInv ==
  /\ FramingInv /\ StreamInOrder /\ RoundInPlace /\ LeftOversAreNext
  /\ FramedInOrder /\ ClosedForItsSize
  /\ LessThanAwaited /\ OverrunNeedsLargeBody

(* Numbers and positions of a state in which StreamInv holds. *)
LEMMA StreamTypes ==
  ASSUME StreamInv
  PROVE  /\ taken \in Nat /\ sent \in Nat /\ handled \in Nat /\ readPos \in Nat /\ prevReadPos \in Nat
         /\ remaining \in Nat /\ remaining <= BufferSize /\ taken <= sent
         /\ Len(packets) \in Nat /\ DOMAIN packets = 1..Len(packets)
         /\ Len(queue) \in Nat /\ DOMAIN queue = 1..Len(queue)
         /\ Current \in 1..(Len(packets) + 1)
         /\ \A k \in DOMAIN packets : packets[k].size \in 0..MaxDeclared
         /\ \A k \in 1..(Len(packets) + 1) : Start(k) \in Nat
         /\ Awaited \in Nat
<1> USE FramingAssumption
<1>1. /\ taken \in Nat /\ sent \in Nat /\ handled \in Nat /\ readPos \in Nat /\ prevReadPos \in Nat
      /\ remaining \in Nat /\ remaining <= BufferSize /\ taken <= sent
      /\ Len(packets) \in Nat /\ DOMAIN packets = 1..Len(packets)
      /\ Len(queue) \in Nat /\ DOMAIN queue = 1..Len(queue)
  BY DEF StreamInv, FramingInv, TypeOK, StreamInOrder
<1>2. Current \in 1..(Len(packets) + 1)
  BY <1>1 DEF Current, StreamInv, StreamInOrder
<1>3. \A k \in DOMAIN packets : packets[k].size \in 0..MaxDeclared /\ packets[k].start \in Nat
  <2> DEFINE S == [start : Nat, size : 0..MaxDeclared]
  <2>1. packets \in Seq(S)
    BY DEF StreamInv, FramingInv, TypeOK
  <2> HIDE DEF S
  <2>2. \A k \in DOMAIN packets : packets[k] \in S
    BY <2>1
  <2> QED BY <2>2 DEF S
<1>4. \A k \in 1..(Len(packets) + 1) : Start(k) \in Nat
  BY <1>1, <1>3 DEF Start
<1>5. Awaited \in Nat
  BY <1>3 DEF Awaited
<1> QED BY <1>1, <1>2, <1>3, <1>4, <1>5

(* The header the loop reads is that of the packet it is at. *)
LEMMA HeaderIsCurrent ==
  ASSUME StreamInv, phase = "frame", HasHeader
  PROVE  /\ Current \in DOMAIN packets
         /\ BodySize(readPos) = packets[Current].size
         /\ packets[Current].size \in 0..MaxDeclared
<1> USE FramingAssumption
<1>1. /\ TypeOK /\ readPos \in Nat /\ remaining \in 0..BufferSize /\ remaining - readPos >= HeaderSize
      /\ taken \in Nat /\ sent \in Nat /\ handled \in Nat /\ Len(queue) \in Nat /\ taken <= sent
  BY DEF StreamInv, FramingInv, TypeOK, HasHeader, StreamInOrder
<1>2. DOMAIN packets = 1..Len(packets) /\ Len(packets) \in Nat
  BY <1>1 DEF TypeOK
<1>3. Current \in Nat /\ Current >= 1 /\ Current <= Len(packets) + 1
  BY <1>1, <1>2 DEF Current, StreamInv, StreamInOrder
<1>4. Start(Current) = taken - remaining + 1 + readPos /\ recvBuffer[readPos] = Start(Current)
  BY <1>1 DEF StreamInv, RoundInPlace
<1>5. Current \in DOMAIN packets
  <2>1. Start(Current) < sent + 1
    BY <1>1, <1>4
  <2> QED BY <1>1, <1>2, <1>3, <2>1 DEF Start
<1>6. \A k \in DOMAIN packets : Start(k) = recvBuffer[readPos] => k = Current
  <2> SUFFICES ASSUME NEW k \in DOMAIN packets, Start(k) = Start(Current), k # Current
               PROVE  FALSE
    BY <1>4
  <2>1. k \in 1..(Len(packets) + 1) /\ Current \in 1..(Len(packets) + 1) /\ (k < Current \/ Current < k)
    BY <1>2, <1>3
  <2>2. Start(k) < Start(Current) \/ Start(Current) < Start(k)
    BY <2>1 DEF StreamInv, StreamInOrder
  <2>3. Start(Current) \in Int
    BY <1>1, <1>4
  <2> QED BY <2>2, <2>3
<1>7. BodySize(readPos) = packets[Current].size
  BY <1>4, <1>5, <1>6 DEF BodySize
<1> QED BY <1>1, <1>5, <1>7, BodySizeBounds

(* At first nothing is sent. *)
LEMMA InitStreamInv == Init => StreamInv
<1> SUFFICES ASSUME Init PROVE StreamInv
  OBVIOUS
<1> USE FramingAssumption
<1>1. /\ packets = <<>> /\ sent = 0 /\ taken = 0 /\ remaining = 0 /\ handled = 0 /\ queue = <<>>
      /\ phase = "receive"
  BY DEF Init
<1>2. Len(packets) = 0 /\ DOMAIN packets = {} /\ Len(queue) = 0 /\ DOMAIN queue = {}
  BY <1>1
<1>3. \A k : Start(k) = 1
  BY <1>1, <1>2 DEF Start
<1>4. StreamInOrder
  BY <1>1, <1>2, <1>3 DEF StreamInOrder, Current
<1>5. RoundInPlace /\ LeftOversAreNext /\ FramedInOrder /\ ClosedForItsSize
  BY <1>1, <1>2, <1>3 DEF RoundInPlace, LeftOversAreNext, FramedInOrder, ClosedForItsSize
<1>6. LessThanAwaited /\ OverrunNeedsLargeBody
  BY <1>1, <1>2 DEF LessThanAwaited, OverrunNeedsLargeBody, Awaited
<1> QED BY <1>4, <1>5, <1>6, InitFramingInv DEF StreamInv

(* recv puts the bytes behind those that LeftOversAreNext speaks of. *)
LEMMA RecvSocketInStream ==
  ASSUME StreamInv, NEW n \in 1..RecvLimit, RecvSocket(n)
  PROVE  StreamInv'
<1> USE FramingAssumption
<1>1. FramingInv'
  BY RecvSocketKeeps DEF StreamInv
<1>2. /\ phase = "receive" /\ phase' = "frame" /\ n \in Nat /\ n <= sent - taken
      /\ taken' = taken + n /\ remaining' = remaining + n /\ readPos' = 0
      /\ handled' = handled + Len(queue) /\ queue' = <<>>
      /\ packets' = packets /\ sent' = sent
  BY DEF RecvSocket, RecvLimit
<1>3. /\ taken \in Nat /\ sent \in Nat /\ handled \in Nat /\ prevReadPos \in Nat
      /\ remaining \in Nat /\ Len(queue) \in Nat /\ Current \in Nat /\ Len(packets) \in Nat
  BY StreamTypes
<1>4. \A k : Start(k)' = Start(k)
  BY <1>2 DEF Start
<1>5. Current' = Current
  BY <1>2, <1>3 DEF Current
<1>6. StreamInOrder'
  BY <1>2, <1>3, <1>4, <1>5 DEF StreamInv, StreamInOrder
<1>7. /\ taken - remaining + 1 = Start(Current)
      /\ \A c \in 0..(remaining - 1) : recvBuffer[prevReadPos + c] = taken - remaining + 1 + c
  BY <1>2 DEF StreamInv, LeftOversAreNext, Current
<1>8. remaining' <= BufferSize
  BY <1>1 DEF FramingInv, TypeOK
<1>9. ASSUME NEW c \in 0..(remaining' - 1)
      PROVE  recvBuffer'[c] = taken' - remaining' + 1 + c
  <2>1. c \in Cells /\ c \in Nat
    BY <1>2, <1>3, <1>8, <1>9 DEF Cells
  <2>2. recvBuffer'[c] = IF c < remaining THEN LeftOvers(c)
                         ELSE IF c < remaining + n THEN taken + 1 + c - remaining
                         ELSE recvBuffer[c]
    BY <2>1 DEF RecvSocket
  <2>3. CASE c < remaining
    <3>1. recvBuffer'[c] = recvBuffer[prevReadPos + c]
      BY <2>2, <2>3 DEF LeftOvers
    <3>2. c \in 0..(remaining - 1)
      BY <1>3, <2>1, <2>3
    <3>3. recvBuffer'[c] = taken - remaining + 1 + c
      BY <1>7, <3>1, <3>2
    <3> QED BY <1>2, <1>3, <2>1, <3>3
  <2>4. CASE ~(c < remaining)
    <3>1. c < remaining + n
      BY <1>2, <1>3, <1>9
    <3> QED BY <1>2, <1>3, <2>1, <2>2, <2>4, <3>1
  <2> QED BY <2>3, <2>4
<1>10. (taken - remaining + 1 + readPos)' = Start(Current)'
  <2>1. Start(Current)' = Start(Current)
    BY <1>4, <1>5
  <2> QED BY <1>2, <1>3, <1>7, <2>1
<1>11. RoundInPlace'
  BY <1>9, <1>10 DEF RoundInPlace
<1>12. LeftOversAreNext' /\ FramedInOrder' /\ ClosedForItsSize' /\ LessThanAwaited' /\ OverrunNeedsLargeBody'
  BY <1>2 DEF LeftOversAreNext, FramedInOrder, ClosedForItsSize, LessThanAwaited, OverrunNeedsLargeBody
<1> QED BY <1>1, <1>6, <1>11, <1>12 DEF StreamInv

(* What overruns the buffer is less than the packet awaited and what recv is *)
(* asked for.                                                                *)
LEMMA RecvOverrunsInStream ==
  ASSUME StreamInv, NEW n \in 1..RecvLimit, RecvOverruns(n)
  PROVE  StreamInv'
<1> USE FramingAssumption
<1>1. /\ phase = "receive" /\ phase' = "overrun" /\ remaining + n > BufferSize
      /\ UNCHANGED <<packets, sent, taken, recvBuffer, remaining, prevReadPos, readPos, handled, queue>>
  BY DEF RecvOverruns
<1>2. \A k : Start(k)' = Start(k)
  BY <1>1 DEF Start
<1>3. Current' = Current /\ Awaited' = Awaited
  BY <1>1 DEF Current, Awaited
<1>4. FramingInv'
  BY <1>1 DEF StreamInv, FramingInv, TypeOK, RoomLeft
<1>5. StreamInOrder' /\ RoundInPlace' /\ LeftOversAreNext' /\ LessThanAwaited'
  BY <1>1, <1>2, <1>3 DEF StreamInv, StreamInOrder, RoundInPlace, LeftOversAreNext, LessThanAwaited
<1>6. FramedInOrder' /\ ClosedForItsSize'
  BY <1>1, <1>2 DEF StreamInv, FramedInOrder, ClosedForItsSize
<1>7. OverrunNeedsLargeBody'
  <2>1. remaining \in Nat /\ Awaited \in Nat /\ remaining <= HeaderSize + Awaited - 1
    BY <1>1, StreamTypes DEF StreamInv, LessThanAwaited
  <2>2. PICK m \in Nat : m = 2 * MaxBodySize /\ n <= m
    BY DEF RecvLimit
  <2>3. HeaderSize + Awaited - 1 + m > BufferSize
    BY <1>1, <2>1, <2>2
  <2> QED BY <1>1, <1>3, <2>2, <2>3 DEF OverrunNeedsLargeBody
<1> QED BY <1>4, <1>5, <1>6, <1>7 DEF StreamInv

(* The packet queued is the current one, and it lies in the buffer as a whole. *)
LEMMA NextPacketInStream ==
  ASSUME StreamInv, NextPacket
  PROVE  StreamInv'
<1> USE FramingAssumption
<1>1. FramingInv'
  BY NextPacketKeeps DEF StreamInv
<1>2. phase = "frame" /\ HasHeader
  BY DEF NextPacket
<1>3. PICK size \in 0..MaxDeclared :
        /\ Current \in DOMAIN packets /\ size = packets[Current].size /\ size = BodySize(readPos)
  BY <1>2, HeaderIsCurrent
<1>4. /\ size <= MaxBodySize /\ ~(size > 0 /\ size > remaining - (readPos + HeaderSize))
      /\ queue' = Append(queue, [at |-> readPos + HeaderSize, size |-> size])
      /\ readPos' = readPos + HeaderSize + size
      /\ packets' = packets /\ sent' = sent /\ taken' = taken /\ recvBuffer' = recvBuffer
      /\ remaining' = remaining /\ handled' = handled /\ phase' = phase
  BY <1>3 DEF NextPacket, Incomplete, TooLarge, AddPacketQueue
<1>5. /\ taken \in Nat /\ sent \in Nat /\ handled \in Nat /\ readPos \in Nat
      /\ remaining \in Nat /\ Len(queue) \in Nat /\ DOMAIN queue = 1..Len(queue)
      /\ Len(packets) \in Nat /\ DOMAIN packets = 1..Len(packets) /\ Start(Current) \in Nat
  BY StreamTypes
<1>6. \A k : Start(k)' = Start(k)
  BY <1>4 DEF Start
<1>7. /\ Len(queue') = Len(queue) + 1 /\ DOMAIN queue' = 1..(Len(queue) + 1)
      /\ \A i \in 1..Len(queue) : queue'[i] = queue[i]
      /\ queue'[Len(queue) + 1] = [at |-> readPos + HeaderSize, size |-> size]
  <2>1. queue \in Seq([at : Nat, size : 0..MaxDeclared])
    BY DEF StreamInv, FramingInv, TypeOK
  <2>2. [at |-> readPos + HeaderSize, size |-> size] \in [at : Nat, size : 0..MaxDeclared]
    BY <1>3, <1>5
  <2> QED BY <1>4, <2>1, <2>2
<1>8. Current' = Current + 1 /\ Current = handled + (Len(queue) + 1)
  BY <1>4, <1>5, <1>7 DEF Current
<1>9. StreamInOrder'
  <2>1. Current' <= Len(packets) + 1
    BY <1>3, <1>5, <1>8
  <2> QED BY <1>2, <1>4, <1>6, <2>1 DEF StreamInv, StreamInOrder
<1>10. /\ taken - remaining + 1 + readPos = Start(Current)
       /\ \A c \in 0..(remaining - 1) : recvBuffer[c] = taken - remaining + 1 + c
       /\ Start(Current + 1) = Start(Current) + HeaderSize + size
  BY <1>2, <1>3 DEF StreamInv, RoundInPlace, StreamInOrder
<1>11. RoundInPlace'
  <2>1. Start(Current)' = Start(Current + 1)
    BY <1>6, <1>8
  <2>2. (taken - remaining + 1 + readPos)' = Start(Current)'
    BY <1>3, <1>4, <1>5, <1>10, <2>1
  <2> QED BY <1>4, <1>10, <2>2 DEF RoundInPlace
<1>12. FramedInOrder'
  <2> SUFFICES ASSUME NEW i \in 1..(Len(queue) + 1)
               PROVE  /\ handled + i \in DOMAIN packets
                      /\ queue'[i].size = packets[handled + i].size
                      /\ \A b \in 0..(packets[handled + i].size - 1) :
                           recvBuffer[queue'[i].at + b] = Start(handled + i) + HeaderSize + b
    BY <1>4, <1>6, <1>7 DEF FramedInOrder
  <2>1. CASE i \in 1..Len(queue)
    BY <1>5, <1>7, <2>1 DEF StreamInv, FramedInOrder
  <2>2. CASE i = Len(queue) + 1
    <3>1. handled + i = Current /\ queue'[i].size = size /\ queue'[i].at = readPos + HeaderSize
      BY <1>7, <1>8, <2>2
    <3>2. ASSUME NEW b \in 0..(size - 1)
          PROVE  recvBuffer[readPos + HeaderSize + b] = Start(Current) + HeaderSize + b
      <4>1. readPos + HeaderSize + b \in 0..(remaining - 1)
        BY <1>3, <1>4, <1>5
      <4>2. recvBuffer[readPos + HeaderSize + b] = taken - remaining + 1 + (readPos + HeaderSize + b)
        BY <1>10, <4>1
      <4> QED BY <1>5, <1>10, <4>2
    <3> QED BY <1>3, <3>1, <3>2
  <2> QED BY <1>5, <2>1, <2>2
<1>13. ClosedForItsSize'
  BY <1>2, <1>4, <1>5, <1>7 DEF StreamInv, ClosedForItsSize
<1>14. LeftOversAreNext' /\ LessThanAwaited' /\ OverrunNeedsLargeBody'
  BY <1>2, <1>4 DEF LeftOversAreNext, LessThanAwaited, OverrunNeedsLargeBody
<1> QED BY <1>1, <1>9, <1>11, <1>12, <1>13, <1>14 DEF StreamInv

(* What the loop leaves over begins with the packet it stopped at. *)
LEMMA LoopEndsInStream ==
  ASSUME StreamInv, LoopEnds
  PROVE  StreamInv'
<1> USE FramingAssumption
<1>1. FramingInv'
  BY LoopEndsKeeps DEF StreamInv
<1>2. /\ phase = "frame" /\ phase' = "receive"
      /\ remaining' = remaining - readPos /\ prevReadPos' = readPos
      /\ packets' = packets /\ sent' = sent /\ taken' = taken /\ recvBuffer' = recvBuffer
      /\ handled' = handled /\ queue' = queue
  BY DEF LoopEnds
<1>3. /\ taken \in Nat /\ readPos \in Nat /\ remaining \in Nat
  BY StreamTypes
<1>4. readPos <= remaining
  BY <1>2 DEF StreamInv, FramingInv, RoomLeft
<1>5. \A k : Start(k)' = Start(k)
  BY <1>2 DEF Start
<1>6. Current' = Current
  BY <1>2 DEF Current
<1>7. StreamInOrder'
  BY <1>2, <1>5, <1>6 DEF StreamInv, StreamInOrder
<1>8. FramedInOrder'
  BY <1>2, <1>5 DEF StreamInv, FramedInOrder
<1>9. ClosedForItsSize' /\ RoundInPlace'
  BY <1>2 DEF StreamInv, ClosedForItsSize, RoundInPlace
<1>10. /\ taken - remaining + 1 + readPos = Start(Current)
       /\ \A c \in 0..(remaining - 1) : recvBuffer[c] = taken - remaining + 1 + c
  BY <1>2 DEF StreamInv, RoundInPlace
<1>11. LeftOversAreNext'
  <2>1. taken - remaining' + 1 = Start(handled + Len(queue) + 1)
    BY <1>2, <1>3, <1>10 DEF Current
  <2>2. ASSUME NEW c \in 0..(remaining' - 1)
        PROVE  recvBuffer[readPos + c] = taken - remaining' + 1 + c
    <3>1. readPos + c \in 0..(remaining - 1)
      BY <1>2, <1>3, <1>4
    <3>2. recvBuffer[readPos + c] = taken - remaining + 1 + (readPos + c)
      BY <1>10, <3>1
    <3> QED BY <1>2, <1>3, <3>2
  <2> QED BY <1>2, <1>5, <2>1, <2>2 DEF LeftOversAreNext
<1>12. LessThanAwaited'
  <2>1. Awaited' = Awaited /\ Awaited \in Nat
    BY <1>2, StreamTypes DEF Awaited
  <2>2. remaining - readPos <= HeaderSize + Awaited - 1
    <3>1. CASE HasHeader
      <4>1. Awaited = BodySize(readPos)
        BY <1>2, <3>1, HeaderIsCurrent DEF Awaited, Current
      <4>2. Awaited > remaining - (readPos + HeaderSize)
        BY <3>1, <4>1 DEF LoopEnds, Incomplete
      <4> QED BY <1>3, <2>1, <4>2
    <3>2. CASE ~HasHeader
      BY <1>3, <2>1, <3>2 DEF HasHeader
    <3> QED BY <3>1, <3>2
  <2> QED BY <1>2, <2>1, <2>2 DEF LessThanAwaited
<1>13. OverrunNeedsLargeBody'
  BY <1>2 DEF OverrunNeedsLargeBody
<1> QED BY <1>1, <1>7, <1>8, <1>9, <1>11, <1>12, <1>13 DEF StreamInv

(* The packet a session is closed for is the current one. *)
LEMMA PacketTooLargeInStream ==
  ASSUME StreamInv, PacketTooLarge
  PROVE  StreamInv'
<1>1. /\ phase = "frame" /\ HasHeader /\ TooLarge(BodySize(readPos)) /\ phase' = "closed"
      /\ UNCHANGED <<packets, sent, taken, recvBuffer, remaining, prevReadPos, readPos, handled, queue>>
  BY DEF PacketTooLarge
<1>2. Current \in DOMAIN packets /\ packets[Current].size > MaxBodySize
  BY <1>1, HeaderIsCurrent DEF TooLarge
<1>3. FramingInv'
  BY <1>1 DEF StreamInv, FramingInv, TypeOK, RoomLeft
<1>4. \A k : Start(k)' = Start(k)
  BY <1>1 DEF Start
<1>5. Current' = Current
  BY <1>1 DEF Current
<1>6. StreamInOrder'
  BY <1>1, <1>2, <1>4, <1>5 DEF StreamInv, StreamInOrder
<1>7. FramedInOrder'
  BY <1>1, <1>4 DEF StreamInv, FramedInOrder
<1>8. ClosedForItsSize'
  BY <1>1, <1>2 DEF StreamInv, ClosedForItsSize, Current
<1>9. RoundInPlace' /\ LeftOversAreNext' /\ LessThanAwaited' /\ OverrunNeedsLargeBody'
  BY <1>1 DEF RoundInPlace, LeftOversAreNext, LessThanAwaited, OverrunNeedsLargeBody
<1> QED BY <1>3, <1>6, <1>7, <1>8, <1>9 DEF StreamInv

(* A new packet lies behind all that was sent. *)
LEMMA ClientSendsInStream ==
  ASSUME StreamInv, NEW size \in 0..MaxDeclared, ClientSends(size)
  PROVE  StreamInv'
<1> USE FramingAssumption
<1>1. /\ packets' = Append(packets, [start |-> sent + 1, size |-> size])
      /\ sent' = sent + HeaderSize + size
      /\ UNCHANGED <<taken, recvBuffer, remaining, prevReadPos, readPos, handled, queue, phase>>
  BY DEF ClientSends
<1>2. /\ taken \in Nat /\ sent \in Nat /\ taken <= sent
      /\ Len(packets) \in Nat /\ DOMAIN packets = 1..Len(packets)
      /\ handled \in Nat /\ Len(queue) \in Nat
      /\ Current \in 1..(Len(packets) + 1)
      /\ \A k \in 1..(Len(packets) + 1) : Start(k) \in Nat
  BY StreamTypes
<1> DEFINE n == Len(packets)
<1>3. /\ DOMAIN packets' = 1..(n + 1) /\ Len(packets') = n + 1
      /\ \A k \in 1..n : packets'[k] = packets[k]
      /\ packets'[n + 1] = [start |-> sent + 1, size |-> size]
  <2>1. packets \in Seq([start : Nat, size : 0..MaxDeclared])
    BY DEF StreamInv, FramingInv, TypeOK
  <2>2. [start |-> sent + 1, size |-> size] \in [start : Nat, size : 0..MaxDeclared]
    BY <1>2
  <2> QED BY <1>1, <2>1, <2>2
<1>4. FramingInv'
  <2>1. packets' \in Seq([start : Nat, size : 0..MaxDeclared]) /\ sent' \in Nat
    BY <1>1, <1>2 DEF StreamInv, FramingInv, TypeOK
  <2> QED BY <1>1, <2>1 DEF StreamInv, FramingInv, TypeOK, RoomLeft
<1>5. /\ Start(n + 1) = sent + 1
      /\ \A k \in 1..(n + 1) : Start(k)' = Start(k)
      /\ \A k : k = n + 2 => Start(k)' = sent + HeaderSize + size + 1
  <2>1. Start(n + 1) = sent + 1 /\ \A k \in 1..n : Start(k) = packets[k].start
    BY <1>2 DEF Start
  <2>2. ASSUME NEW k \in 1..(n + 1) PROVE Start(k)' = packets'[k].start
    BY <1>3 DEF Start
  <2>3. ASSUME NEW k, k = n + 2 PROVE Start(k)' = sent' + 1
    BY <1>2, <1>3, <2>3 DEF Start
  <2>4. ASSUME NEW k \in 1..(n + 1) PROVE packets'[k].start = Start(k)
    <3>1. CASE k \in 1..n
      BY <1>3, <2>1, <3>1
    <3>2. CASE k = n + 1
      BY <1>3, <2>1, <3>2
    <3> QED BY <1>2, <3>1, <3>2
  <2> QED BY <1>1, <1>2, <2>1, <2>2, <2>3, <2>4
<1>6. /\ Start(1) = 1
      /\ \A k \in 1..n : Start(k + 1) = Start(k) + HeaderSize + packets[k].size
      /\ \A j, k \in 1..(n + 1) : j < k => Start(j) < Start(k)
      /\ Current <= n + 1
      /\ phase = "closed" => Current \in 1..n
  BY <1>2 DEF StreamInv, StreamInOrder
<1>7. Current' = Current
  BY <1>1 DEF Current
<1> HIDE DEF n
<1>8. n \in Nat
  BY <1>2 DEF n
<1>9. StreamInOrder'
  <2>1. Start(1)' = 1
    BY <1>5, <1>6, <1>8
  <2>2. ASSUME NEW k \in 1..(n + 1), NEW j, j = k + 1
        PROVE  Start(j)' = Start(k)' + HeaderSize + packets'[k].size
    <3>1. CASE k \in 1..n
      <4>1. j \in 1..(n + 1)
        BY <1>8, <2>2, <3>1
      <4>2. Start(j)' = Start(k + 1) /\ Start(k)' = Start(k) /\ packets'[k] = packets[k]
        BY <1>3, <1>5, <2>2, <3>1, <4>1
      <4> QED BY <1>6, <3>1, <4>2
    <3>2. CASE k = n + 1
      <4>1. j = n + 2
        BY <1>8, <2>2, <3>2
      <4>2. Start(j)' = sent + HeaderSize + size + 1 /\ Start(k)' = sent + 1 /\ packets'[k].size = size
        BY <1>3, <1>5, <3>2, <4>1
      <4> QED BY <1>2, <4>2
    <3> QED BY <1>8, <3>1, <3>2
  <2>3. ASSUME NEW j \in 1..(n + 2), NEW k \in 1..(n + 2), j < k
        PROVE  Start(j)' < Start(k)'
    <3>1. j \in 1..(n + 1) /\ Start(j)' = Start(j)
      BY <1>5, <1>8, <2>3
    <3>2. CASE k \in 1..(n + 1)
      BY <1>5, <1>6, <2>3, <3>1, <3>2
    <3>3. CASE k = n + 2
      <4>1. Start(j) <= sent + 1
        <5>1. j = n + 1 \/ Start(j) < Start(n + 1)
          BY <1>6, <1>8, <3>1
        <5>2. Start(j) \in Nat
          BY <1>2, <3>1 DEF n
        <5> QED BY <1>2, <1>5, <5>1, <5>2
      <4>2. Start(j) \in Nat
        BY <1>2, <3>1 DEF n
      <4> QED BY <1>2, <1>5, <3>1, <3>3, <4>1, <4>2
    <3> QED BY <1>8, <3>2, <3>3
  <2>4. taken' <= sent' /\ Current' <= n + 2 /\ (phase' = "closed" => Current' \in 1..(n + 1))
    <3>1. taken' <= sent'
      BY <1>1, <1>2
    <3>2. Current' <= n + 2
      BY <1>2, <1>7 DEF n
    <3>3. phase' = "closed" => Current' \in 1..(n + 1)
      BY <1>1, <1>2, <1>6, <1>7 DEF n
    <3> QED BY <3>1, <3>2, <3>3
  <2>5. \A k \in DOMAIN packets' : Start(k + 1)' = Start(k)' + HeaderSize + packets'[k].size
    BY <1>3, <2>2
  <2>6. \A j, k \in 1..(Len(packets') + 1) : j < k => Start(j)' < Start(k)'
    BY <1>3, <1>8, <2>3
  <2> QED BY <1>3, <1>8, <2>1, <2>4, <2>5, <2>6 DEF StreamInOrder
<1>10. Start(Current)' = Start(Current)
  BY <1>2, <1>5, <1>7 DEF n
<1>11. RoundInPlace'
  BY <1>1, <1>10 DEF StreamInv, RoundInPlace
<1>12. LeftOversAreNext'
  BY <1>1, <1>10 DEF StreamInv, LeftOversAreNext, Current
<1>13. FramedInOrder'
  <2> SUFFICES ASSUME NEW i \in DOMAIN queue, NEW k, k = handled + i
               PROVE  /\ k \in DOMAIN packets'
                      /\ queue[i].size = packets'[k].size
                      /\ \A b \in 0..(packets'[k].size - 1) :
                           recvBuffer[queue[i].at + b] = Start(k)' + HeaderSize + b
    BY <1>1 DEF FramedInOrder
  <2>1. /\ k \in 1..n
        /\ queue[i].size = packets[k].size
        /\ \A b \in 0..(packets[k].size - 1) : recvBuffer[queue[i].at + b] = Start(k) + HeaderSize + b
    BY <1>2 DEF StreamInv, FramedInOrder, n
  <2>2. k \in 1..(n + 1) /\ packets'[k] = packets[k] /\ Start(k)' = Start(k)
    BY <1>3, <1>5, <1>8, <2>1
  <2> QED BY <1>3, <2>1, <2>2
<1>14. ClosedForItsSize'
  <2>1. phase = "closed" => packets'[Current] = packets[Current]
    BY <1>3, <1>6
  <2> QED BY <1>1, <2>1 DEF StreamInv, ClosedForItsSize, Current
<1>15. PICK a \in Nat, b \in Nat : a = Awaited /\ b = Awaited' /\ a <= b
  <2>1. CASE Current \in 1..n
    <3>1. Awaited' = Awaited
      BY <1>1, <1>2, <1>3, <1>8, <2>1 DEF Awaited, Current, n
    <3> QED BY <3>1, StreamTypes
  <2>2. CASE Current = n + 1
    <3>1. Awaited = 0
      BY <1>2, <1>8, <2>2 DEF Awaited, Current, n
    <3>2. Awaited' = size
      BY <1>1, <1>3, <1>8, <2>2 DEF Awaited, Current
    <3> QED BY <3>1, <3>2
  <2> QED BY <1>2, <1>8, <2>1, <2>2 DEF n
<1>16. a <= b
  BY <1>15
<1>17. LessThanAwaited'
  <2>1. remaining \in Nat /\ (phase = "receive" => remaining <= HeaderSize + a - 1)
    BY <1>15, StreamTypes DEF StreamInv, LessThanAwaited
  <2>2. phase = "receive" => remaining <= HeaderSize + b - 1
    BY <1>16, <2>1
  <2> QED BY <1>1, <1>15, <2>2 DEF LessThanAwaited
<1>18. OverrunNeedsLargeBody'
  <2>1. PICK m \in Nat : m = 2 * MaxBodySize
    OBVIOUS
  <2>2. phase = "overrun" => HeaderSize + a - 1 + m > BufferSize
    BY <1>15, <2>1 DEF StreamInv, OverrunNeedsLargeBody
  <2>3. phase = "overrun" => HeaderSize + b - 1 + m > BufferSize
    BY <1>16, <2>2
  <2> QED BY <1>1, <1>15, <2>1, <2>3 DEF OverrunNeedsLargeBody
<1> QED BY <1>4, <1>9, <1>11, <1>12, <1>13, <1>14, <1>17, <1>18 DEF StreamInv

(* Every step of the server and the client keeps StreamInv. *)
LEMMA StepStreamInv ==
  ASSUME StreamInv, [Next]_vars
  PROVE  StreamInv'
<1>1. CASE Receive
  BY <1>1, RecvSocketInStream, RecvOverrunsInStream DEF Receive
<1>2. CASE NextPacket
  BY <1>2, NextPacketInStream
<1>3. CASE LoopEnds
  BY <1>3, LoopEndsInStream
<1>4. CASE PacketTooLarge
  BY <1>4, PacketTooLargeInStream
<1>5. CASE \E size \in 0..MaxDeclared : ClientSends(size)
  BY <1>5, ClientSendsInStream
<1>6. CASE UNCHANGED vars
  <2>1. \A k : Start(k)' = Start(k)
    BY <1>6 DEF vars, Start
  <2> QED
    BY <1>6, <2>1 DEF vars, StreamInv, FramingInv, TypeOK, RoomLeft, StreamInOrder, RoundInPlace,
                      LeftOversAreNext, FramedInOrder, ClosedForItsSize, Current,
                      LessThanAwaited, OverrunNeedsLargeBody, Awaited
<1> QED
  BY <1>1, <1>2, <1>3, <1>4, <1>5, <1>6 DEF Next, Server

(* RecvSocket and RecvBufferProcess keep the buffer in step with the stream  *)
(* the client sends: StreamInv is inductive.                                 *)
THEOREM FramingInvariant == Spec => []StreamInv
BY InitStreamInv, StepStreamInv, PTL DEF Spec

(* RecvSocket writes beyond the buffer only while a packet is awaited that is *)
(* too large for it: for every size of the buffer.                           *)
THEOREM OverrunAlwaysNeedsLargeBody == Spec => []OverrunNeedsLargeBody
<1>1. StreamInv => OverrunNeedsLargeBody
  BY DEF StreamInv
<1> QED BY <1>1, FramingInvariant, PTL

(* However TCP cuts and joins the bytes, RecvBufferProcess queues the packets *)
(* the client sent, in order, each pointing at its own whole body.           *)
THEOREM PacketsFramedInOrder == Spec => []FramedInOrder
<1>1. StreamInv => FramedInOrder
  BY DEF StreamInv
<1> QED BY <1>1, FramingInvariant, PTL

(* The bytes RecvSocket moves to the front are the ones not yet queued, none *)
(* lost and none twice.                                                      *)
THEOREM LeftOversAlwaysNext == Spec => []LeftOversAreNext
<1>1. StreamInv => LeftOversAreNext
  BY DEF StreamInv
<1> QED BY <1>1, FramingInvariant, PTL

(* RecvBufferProcess ends a session for a packet that is too large, and for  *)
(* nothing else.                                                             *)
THEOREM AlwaysClosedForItsSize == Spec => []ClosedForItsSize
<1>1. StreamInv => ClosedForItsSize
  BY DEF StreamInv
<1> QED BY <1>1, FramingInvariant, PTL
=============================================================================
