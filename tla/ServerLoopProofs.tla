-------------------------- MODULE ServerLoopProofs --------------------------
(***************************************************************************)
(* The slots, the packet queue and what the logic knows of the sessions     *)
(* agree in every state of the main loop, for any number of slots, clients  *)
(* and requests: LoopInv is inductive.  So is BufferInv on top of it, which *)
(* follows every byte of the send buffers: clients receive whole packets.   *)
(***************************************************************************)
EXTENDS ServerLoopProperties, SequenceTheorems, TLAPS

DataTypes ==
  /\ called \in 0..MaxConnections
  /\ inbox \in [Connections -> Nat]
  /\ gone \in [Connections -> BOOLEAN]
  /\ accepted \in 0..called
  /\ sock \in [Sessions -> Sockets]
  /\ freeSessions \in Seq(Sessions)
  /\ connectedCount \in Int
  /\ readfds \in SUBSET Sockets
  /\ packetQueue \in Seq(Packets)
  /\ party \in [Sessions -> Sockets]
  /\ loginOK \in [Sessions -> BOOLEAN]

ThreadTypes ==
  /\ phase \in Phases
  /\ cursor \in Sessions
  /\ readSet \in SUBSET Sockets
  /\ writeSet \in SUBSET Sockets
  /\ received \in Nat

(* The strengthening of SessionPoolConsistent: connections are accepted in  *)
(* order, so the next one is in no slot yet.                                *)
SocketsAccepted == \A s \in Sessions : sock[s] <= accepted

(* What the thread has established on its way to a phase. *)
PhaseFacts ==
  /\ phase = "accept" => called > accepted /\ BadSocket \notin readfds
  /\ phase \in {"frame", "write"} => IsConnected(cursor)

(* What the queued packets lead to is what the network has. *)
QueueEndsAtSlots == \A s \in Sessions : Follows(s, Len(packetQueue), sock[s])

(* RequestsHandledInTime, with what is true before the slot's turn is over. *)
RequestsBelow(m) ==
  \A i \in DOMAIN packetQueue : packetQueue[i].id = "REQ" => packetQueue[i].session < m

RequestsBehindCursor ==
  /\ phase \in {"select", "accept", "check"} => RequestsBelow(0)
  /\ phase = "receive" => RequestsBelow(cursor)
  /\ phase \in {"frame", "write"} => RequestsBelow(cursor + 1)

QueueInv == QueueInProtocol /\ QueueEndsAtSlots

DataInv == DataTypes /\ SessionPoolConsistent /\ SocketsAccepted /\ QueueInv

ThreadInv == ThreadTypes /\ PhaseFacts /\ RequestsBehindCursor

LoopInv == DataInv /\ ThreadInv

-----------------------------------------------------------------------------
(* The packet queue *)

(* Connections are positive; the two other socket values are not. *)
LEMMA SocketValues ==
  /\ Connections \subseteq Nat \ {0}
  /\ Sockets \subseteq Int
  /\ NoSocket \in Sockets /\ BadSocket \in Sockets /\ BadSocket # NoSocket
  /\ Sessions \subseteq Nat
  BY NetworkAssumption DEF Connections, Sockets, NoSocket, BadSocket, Sessions

(* The j of Follows. *)
LastMark(s, i, c, j) ==
  /\ \A k \in (j + 1)..i : packetQueue[k].session = s => packetQueue[k].id = "REQ"
  /\ IF j = 0 THEN party[s] = c
     ELSE /\ packetQueue[j].session = s
          /\ \/ packetQueue[j].id = "NTF_SYS_CONNECT_SESSION" /\ packetQueue[j].conn = c
             \/ packetQueue[j].id = "NTF_SYS_CLOSE_SESSION" /\ c = NoSocket

(* Follows, by the position of the packet that decides. *)
LEMMA FollowsMark ==
  ASSUME NEW s, NEW i, NEW c
  PROVE  Follows(s, i, c) <=> \E j \in 0..i : LastMark(s, i, c, j)
  BY DEF Follows, LastMark

(* A packet put at the end changes nothing of what the packets before it    *)
(* lead to; a request leads to what they lead to.                           *)
LEMMA FollowsAppend ==
  ASSUME packetQueue \in Seq(Packets), NEW p \in Packets,
         packetQueue' = Append(packetQueue, p), party' = party,
         NEW n, n = Len(packetQueue)
  PROVE  /\ \A s, c : \A i \in 0..n : Follows(s, i, c) => Follows(s, i, c)'
         /\ \A s, c : (p.session = s => p.id = "REQ") /\ Follows(s, n, c) => Follows(s, n + 1, c)'
         /\ p.id = "NTF_SYS_CONNECT_SESSION" => Follows(p.session, n + 1, p.conn)'
         /\ p.id = "NTF_SYS_CLOSE_SESSION" => Follows(p.session, n + 1, NoSocket)'
<1>1. /\ n \in Nat /\ Len(packetQueue') = n + 1
      /\ \A k \in 1..n : packetQueue'[k] = packetQueue[k]
      /\ packetQueue'[n + 1] = p
  OBVIOUS
<1>2. ASSUME NEW s, NEW c, NEW i \in 0..n, Follows(s, i, c) PROVE Follows(s, i, c)'
  <2>1. PICK j \in 0..i : LastMark(s, i, c, j)
    BY <1>2, FollowsMark
  <2>2. LastMark(s, i, c, j)'
    <3>1. \A k \in (j + 1)..i : packetQueue'[k] = packetQueue[k]
      BY <1>1, <2>1
    <3>2. j # 0 => packetQueue'[j] = packetQueue[j]
      BY <1>1, <2>1
    <3> QED BY <2>1, <3>1, <3>2 DEF LastMark
  <2> QED BY <2>2 DEF Follows, LastMark
<1>3. ASSUME NEW s, NEW c, p.session = s => p.id = "REQ", Follows(s, n, c)
      PROVE  Follows(s, n + 1, c)'
  <2>1. PICK j \in 0..n : LastMark(s, n, c, j)
    BY <1>3, FollowsMark
  <2>2. LastMark(s, n + 1, c, j)'
    <3>1. \A k \in (j + 1)..(n + 1) :
             \/ k = n + 1
             \/ k \in (j + 1)..n /\ packetQueue'[k] = packetQueue[k]
      BY <1>1, <2>1
    <3>2. j # 0 => packetQueue'[j] = packetQueue[j]
      BY <1>1, <2>1
    <3> QED BY <1>1, <1>3, <2>1, <3>1, <3>2 DEF LastMark
  <2>3. j \in 0..(n + 1)
    BY <1>1, <2>1
  <2> QED BY <2>2, <2>3 DEF Follows, LastMark
<1>4. n + 1 \in 0..(n + 1) /\ n + 1 # 0 /\ \A k \in (n + 1 + 1)..(n + 1) : FALSE
  BY <1>1
<1>5. ASSUME p.id = "NTF_SYS_CONNECT_SESSION" PROVE Follows(p.session, n + 1, p.conn)'
  <2>1. LastMark(p.session, n + 1, p.conn, n + 1)'
    BY <1>1, <1>4, <1>5 DEF LastMark
  <2> QED BY <1>4, <2>1 DEF Follows, LastMark
<1>6. ASSUME p.id = "NTF_SYS_CLOSE_SESSION" PROVE Follows(p.session, n + 1, NoSocket)'
  <2>1. LastMark(p.session, n + 1, NoSocket, n + 1)'
    BY <1>1, <1>4, <1>6 DEF LastMark
  <2> QED BY <1>4, <2>1 DEF Follows, LastMark
<1> QED
  BY <1>2, <1>3, <1>5, <1>6

(* Where the queue must be when packet q is put at its end. *)
Before(q) == IF q.id = "NTF_SYS_CONNECT_SESSION" THEN NoSocket ELSE q.conn

(* Queueing a packet that is in protocol order where the queue ends. *)
LEMMA QueueAppend ==
  ASSUME packetQueue \in Seq(Packets), QueueInv, NEW p \in Packets,
         packetQueue' = Append(packetQueue, p), party' = party,
         p.conn # NoSocket,
         sock[p.session] = Before(p),
         sock \in [Sessions -> Sockets],
         sock' = [sock EXCEPT ![p.session] = IF p.id = "NTF_SYS_CLOSE_SESSION" THEN NoSocket ELSE p.conn]
  PROVE  QueueInv'
<1>1. PICK n \in Nat : n = Len(packetQueue)
  OBVIOUS
<1>2. /\ Len(packetQueue') = n + 1
      /\ \A k \in 1..n : packetQueue'[k] = packetQueue[k]
      /\ packetQueue'[n + 1] = p
      /\ DOMAIN packetQueue = 1..n /\ DOMAIN packetQueue' = 1..(n + 1)
  BY <1>1
<1>3. p.session \in Sessions /\ p.id \in {"NTF_SYS_CONNECT_SESSION", "REQ", "NTF_SYS_CLOSE_SESSION"}
  BY DEF Packets
<1>4. /\ \A s, c : \A i \in 0..n : Follows(s, i, c) => Follows(s, i, c)'
      /\ \A s, c : (p.session = s => p.id = "REQ") /\ Follows(s, n, c) => Follows(s, n + 1, c)'
      /\ p.id = "NTF_SYS_CONNECT_SESSION" => Follows(p.session, n + 1, p.conn)'
      /\ p.id = "NTF_SYS_CLOSE_SESSION" => Follows(p.session, n + 1, NoSocket)'
  BY <1>1, FollowsAppend
<1>5. \A s \in Sessions : Follows(s, n, sock[s])
  BY <1>1 DEF QueueInv, QueueEndsAtSlots
<1>6. ASSUME NEW i \in 1..(n + 1), NEW q, q = packetQueue'[i]
      PROVE  q.conn # NoSocket /\ Follows(q.session, i - 1, Before(q))'
  <2>1. CASE i \in 1..n
    <3>1. q.conn # NoSocket /\ Follows(q.session, i - 1, Before(q))
      BY <1>2, <1>6, <2>1 DEF QueueInv, QueueInProtocol, Before
    <3>2. i - 1 \in 0..n
      BY <2>1
    <3> QED BY <1>4, <3>1, <3>2
  <2>2. CASE i = n + 1
    <3>1. Follows(p.session, n, Before(p))
      BY <1>3, <1>5
    <3>2. n \in 0..n /\ i - 1 = n /\ q = p
      BY <1>2, <1>6, <2>2
    <3> QED BY <1>4, <3>1, <3>2
  <2> QED BY <2>1, <2>2
<1>7. QueueInProtocol'
  BY <1>2, <1>6 DEF QueueInProtocol, Before
<1>8. ASSUME NEW s \in Sessions, NEW c, c = sock'[s] PROVE Follows(s, n + 1, c)'
  <2>1. CASE p.session # s \/ p.id = "REQ"
    <3>1. c = sock[s]
      BY <1>3, <1>8, <2>1 DEF Before
    <3> QED BY <1>4, <1>5, <2>1, <3>1
  <2>2. CASE s = p.session /\ p.id = "NTF_SYS_CONNECT_SESSION"
    BY <1>4, <1>8, <2>2
  <2>3. CASE s = p.session /\ p.id = "NTF_SYS_CLOSE_SESSION"
    BY <1>4, <1>8, <2>3
  <2> QED BY <1>3, <2>1, <2>2, <2>3
<1>9. QueueEndsAtSlots'
  BY <1>2, <1>8 DEF QueueEndsAtSlots
<1> QED BY <1>7, <1>9 DEF QueueInv

(* What Process does to what the logic knows, by the kind of packet. *)
PartyAfter(h) ==
  CASE h.id = "NTF_SYS_CONNECT_SESSION" -> [party EXCEPT ![h.session] = h.conn]
    [] h.id = "NTF_SYS_CLOSE_SESSION"   -> [party EXCEPT ![h.session] = NoSocket]
    [] OTHER -> party

(* Handling the first packet moves what it says from the queue to the logic. *)
LEMMA QueueTail ==
  ASSUME packetQueue \in Seq(Packets), packetQueue # <<>>, QueueInv,
         party \in [Sessions -> Sockets],
         packetQueue' = Tail(packetQueue), party' = PartyAfter(Head(packetQueue)),
         sock' = sock
  PROVE  QueueInv'
<1>1. PICK n \in Nat : n = Len(packetQueue) /\ n > 0
  OBVIOUS
<1>2. PICK h \in Packets : h = Head(packetQueue) /\ h = packetQueue[1]
  OBVIOUS
<1>3. /\ Len(packetQueue') = n - 1
      /\ \A k \in 1..(n - 1) : packetQueue'[k] = packetQueue[k + 1]
      /\ DOMAIN packetQueue = 1..n /\ DOMAIN packetQueue' = 1..(n - 1)
  BY <1>1, HeadTailProperties
<1>4. h.session \in Sessions /\ h.id \in {"NTF_SYS_CONNECT_SESSION", "REQ", "NTF_SYS_CLOSE_SESSION"}
  BY DEF Packets
<1>5. ASSUME NEW s \in Sessions, NEW c, NEW i \in 1..n, Follows(s, i, c)
      PROVE  Follows(s, i - 1, c)'
  <2>1. PICK j \in 0..i : LastMark(s, i, c, j)
    BY <1>5, FollowsMark
  <2>2. ASSUME NEW k \in 1..(i - 1), k >= j
        PROVE  packetQueue'[k].session = s => packetQueue'[k].id = "REQ"
    <3>1. k + 1 \in (j + 1)..i /\ k \in 1..(n - 1)
      BY <2>2
    <3> QED BY <1>3, <2>1, <3>1 DEF LastMark
  <2>3. CASE j > 1
    <3>0. j - 1 \in 1..(n - 1) /\ packetQueue'[j - 1] = packetQueue[j]
      BY <1>3, <2>3
    <3>1. LastMark(s, i - 1, c, j - 1)'
      <4>1. \A k \in (j - 1 + 1)..(i - 1) : k \in 1..(i - 1) /\ k >= j
        BY <2>3
      <4>2. j - 1 # 0 /\ j # 0
        BY <2>3
      <4> QED BY <2>1, <2>2, <3>0, <4>1, <4>2 DEF LastMark
    <3>2. j - 1 \in 0..(i - 1)
      BY <2>3
    <3> QED BY <3>1, <3>2 DEF Follows, LastMark
  <2>4. CASE j = 1
    <3>1. party'[s] = c
      BY <1>2, <1>4, <2>1, <2>4 DEF LastMark, PartyAfter
    <3>2. LastMark(s, i - 1, c, 0)'
      <4>1. \A k \in (0 + 1)..(i - 1) : k \in 1..(i - 1) /\ k >= j
        BY <2>4
      <4> QED BY <2>2, <3>1, <4>1 DEF LastMark
    <3>3. 0 \in 0..(i - 1)
      OBVIOUS
    <3> QED BY <3>2, <3>3 DEF Follows, LastMark
  <2>5. CASE j = 0
    <3>1. h.session = s => h.id = "REQ"
      BY <1>2, <2>1, <2>5 DEF LastMark
    <3>2. party'[s] = c
      BY <1>2, <1>4, <2>1, <2>5, <3>1 DEF LastMark, PartyAfter
    <3>3. LastMark(s, i - 1, c, 0)'
      <4>1. \A k \in (0 + 1)..(i - 1) : k \in 1..(i - 1) /\ k >= j
        BY <2>5
      <4> QED BY <2>2, <3>2, <4>1 DEF LastMark
    <3>4. 0 \in 0..(i - 1)
      OBVIOUS
    <3> QED BY <3>3, <3>4 DEF Follows, LastMark
  <2> QED BY <2>3, <2>4, <2>5
<1>6. ASSUME NEW i \in 1..(n - 1), NEW q, q = packetQueue'[i]
      PROVE  q.conn # NoSocket /\ Follows(q.session, i - 1, Before(q))'
  <2>0. i + 1 \in 1..n /\ q = packetQueue[i + 1]
    BY <1>3, <1>6
  <2>1. q.session \in Sessions
    <3>1. q \in Packets
      BY <1>1, <2>0
    <3> QED BY <3>1 DEF Packets
  <2>2. q.conn # NoSocket /\ Follows(q.session, i, Before(q))
    BY <1>3, <2>0 DEF QueueInv, QueueInProtocol, Before
  <2> QED BY <1>1, <1>5, <2>0, <2>1, <2>2
<1>7. QueueInProtocol'
  BY <1>3, <1>6 DEF QueueInProtocol, Before
<1>8. ASSUME NEW s \in Sessions, NEW c, c = sock[s] PROVE Follows(s, n - 1, c)'
  BY <1>1, <1>5, <1>8 DEF QueueInv, QueueEndsAtSlots
<1>9. QueueEndsAtSlots'
  BY <1>3, <1>8 DEF QueueEndsAtSlots
<1> QED BY <1>7, <1>9 DEF QueueInv

(* Nothing that QueueInv speaks of changes. *)
LEMMA QueueStays ==
  ASSUME QueueInv, UNCHANGED <<packetQueue, party, sock>>
  PROVE  QueueInv'
  BY DEF QueueInv, QueueInProtocol, QueueEndsAtSlots, Follows

-----------------------------------------------------------------------------
(* The slots *)

(* The slot at the front of the free list is given to a new socket. *)
LEMMA SlotTaken ==
  ASSUME DataTypes, SessionPoolConsistent, freeSessions # <<>>,
         NEW fd \in Sockets, fd # NoSocket, fd \notin readfds,
         sock' = [sock EXCEPT ![Head(freeSessions)] = fd],
         freeSessions' = Tail(freeSessions),
         readfds' = readfds \cup {fd},
         connectedCount' = connectedCount + 1
  PROVE  /\ Head(freeSessions) \in Sessions /\ sock[Head(freeSessions)] = NoSocket
         /\ freeSessions' \in Seq(Sessions) /\ sock' \in [Sessions -> Sockets]
         /\ SessionPoolConsistent'
<1>1. PICK h \in Sessions : h = Head(freeSessions) /\ h = freeSessions[1] /\ 1 \in DOMAIN freeSessions
  BY DEF DataTypes
<1>2. PICK n \in Nat : n = Len(freeSessions) /\ n > 0
  BY DEF DataTypes
<1>3. /\ freeSessions' \in Seq(Sessions) /\ Len(freeSessions') = n - 1
      /\ \A k \in 1..(n - 1) : freeSessions'[k] = freeSessions[k + 1]
      /\ DOMAIN freeSessions = 1..n /\ DOMAIN freeSessions' = 1..(n - 1)
  BY <1>2, HeadTailProperties DEF DataTypes
<1>4. sock[h] = NoSocket
  BY <1>1 DEF SessionPoolConsistent
<1>5. /\ sock' \in [Sessions -> Sockets]
      /\ sock'[h] = fd
      /\ \A s \in Sessions \ {h} : sock'[s] = sock[s]
  BY <1>1 DEF DataTypes
<1>6. \A s \in Sessions : sock[s] # fd
  BY DEF SessionPoolConsistent
<1>7. \A i, j \in DOMAIN freeSessions' : i # j => freeSessions'[i] # freeSessions'[j]
  <2> SUFFICES ASSUME NEW i \in 1..(n - 1), NEW j \in 1..(n - 1), i # j
               PROVE  freeSessions'[i] # freeSessions'[j]
    BY <1>3
  <2>1. i + 1 \in 1..n /\ j + 1 \in 1..n /\ i + 1 # j + 1
    OBVIOUS
  <2> QED BY <1>3, <2>1 DEF SessionPoolConsistent
<1>8. \A s \in Sessions : sock'[s] = NoSocket <=> \E i \in DOMAIN freeSessions' : freeSessions'[i] = s
  <2>1. \A i \in 1..(n - 1) : freeSessions'[i] # h
    <3> SUFFICES ASSUME NEW i \in 1..(n - 1) PROVE freeSessions'[i] # h
      OBVIOUS
    <3>1. i + 1 \in 1..n /\ i + 1 # 1 /\ 1 \in 1..n
      BY <1>2
    <3> QED BY <1>1, <1>3, <3>1 DEF SessionPoolConsistent
  <2>2. ASSUME NEW s \in Sessions, s # h
        PROVE  (\E i \in 1..n : freeSessions[i] = s) <=> (\E i \in 1..(n - 1) : freeSessions'[i] = s)
    <3>1. ASSUME NEW i \in 1..n, freeSessions[i] = s
          PROVE  \E k \in 1..(n - 1) : freeSessions'[k] = s
      <4>1. i # 1
        BY <1>1, <2>2, <3>1
      <4>2. i - 1 \in 1..(n - 1) /\ (i - 1) + 1 = i
        BY <4>1
      <4> QED BY <1>3, <3>1, <4>2
    <3>2. ASSUME NEW i \in 1..(n - 1), freeSessions'[i] = s
          PROVE  \E k \in 1..n : freeSessions[k] = s
      <4>1. i + 1 \in 1..n
        OBVIOUS
      <4> QED BY <1>3, <3>2, <4>1
    <3> QED BY <3>1, <3>2
  <2>3. ASSUME NEW s \in Sessions, s # h
        PROVE  sock'[s] = NoSocket <=> \E i \in DOMAIN freeSessions' : freeSessions'[i] = s
    BY <1>3, <1>5, <2>2, <2>3 DEF SessionPoolConsistent
  <2> QED BY <1>3, <1>5, <2>1, <2>3
<1>9. \A s, t \in Sessions : s # t /\ IsConnected(s)' => sock'[s] # sock'[t]
  BY <1>5, <1>6 DEF SessionPoolConsistent, IsConnected
<1>10. readfds' = {sock'[s] : s \in Sessions} \ {NoSocket}
  <2>1. readfds = {sock[s] : s \in Sessions} \ {NoSocket}
    BY DEF SessionPoolConsistent
  <2>2. ASSUME NEW x \in readfds' PROVE x \in {sock'[s] : s \in Sessions} \ {NoSocket}
    BY <1>1, <1>4, <1>5, <2>1, <2>2
  <2>3. ASSUME NEW s \in Sessions, sock'[s] # NoSocket PROVE sock'[s] \in readfds'
    BY <1>5, <2>1, <2>3
  <2> QED BY <2>2, <2>3
<1>11. connectedCount' = SessionCount - Len(freeSessions')
  <2>1. connectedCount = SessionCount - n
    BY <1>2 DEF SessionPoolConsistent
  <2> QED BY <1>2, <1>3, <2>1, NetworkAssumption
<1> QED
  BY <1>1, <1>3, <1>4, <1>5, <1>7, <1>8, <1>9, <1>10, <1>11 DEF SessionPoolConsistent

(* A connected slot goes to the back of the free list. *)
LEMMA SlotReleased ==
  ASSUME DataTypes, SessionPoolConsistent, NEW s \in Sessions, IsConnected(s),
         sock' = [sock EXCEPT ![s] = NoSocket],
         freeSessions' = Append(freeSessions, s),
         readfds' = readfds \ {sock[s]},
         connectedCount' = connectedCount - 1
  PROVE  /\ freeSessions' \in Seq(Sessions) /\ sock' \in [Sessions -> Sockets]
         /\ SessionPoolConsistent'
<1>1. PICK n \in Nat : n = Len(freeSessions)
  BY DEF DataTypes
<1>2. /\ freeSessions' \in Seq(Sessions) /\ Len(freeSessions') = n + 1
      /\ \A k \in 1..n : freeSessions'[k] = freeSessions[k]
      /\ freeSessions'[n + 1] = s
      /\ DOMAIN freeSessions = 1..n /\ DOMAIN freeSessions' = 1..(n + 1)
  BY <1>1 DEF DataTypes
<1>3. sock[s] # NoSocket
  BY SocketValues DEF IsConnected, DataTypes
<1>4. /\ sock' \in [Sessions -> Sockets]
      /\ sock'[s] = NoSocket
      /\ \A t \in Sessions \ {s} : sock'[t] = sock[t]
  BY SocketValues DEF DataTypes
<1>5. \A i \in 1..n : freeSessions[i] # s
  BY <1>2, <1>3 DEF SessionPoolConsistent
<1>6. \A i, j \in DOMAIN freeSessions' : i # j => freeSessions'[i] # freeSessions'[j]
  BY <1>2, <1>5 DEF SessionPoolConsistent
<1>7. \A t \in Sessions : sock'[t] = NoSocket <=> \E i \in DOMAIN freeSessions' : freeSessions'[i] = t
  <2>1. n + 1 \in DOMAIN freeSessions' /\ 1..(n + 1) = 1..n \cup {n + 1}
    BY <1>2
  <2>2. ASSUME NEW t \in Sessions, t # s
        PROVE  sock'[t] = NoSocket <=> \E i \in DOMAIN freeSessions' : freeSessions'[i] = t
    BY <1>2, <1>4, <2>1, <2>2 DEF SessionPoolConsistent
  <2> QED BY <1>2, <1>4, <2>1, <2>2
<1>8. \A t, u \in Sessions : t # u /\ IsConnected(t)' => sock'[t] # sock'[u]
  <2>1. \A t \in Sessions : IsConnected(t)' => t # s /\ sock'[t] # NoSocket
    BY <1>4, SocketValues DEF IsConnected
  <2> QED BY <1>4, <2>1 DEF SessionPoolConsistent, IsConnected
<1>9. readfds' = {sock'[t] : t \in Sessions} \ {NoSocket}
  <2>1. readfds = {sock[t] : t \in Sessions} \ {NoSocket}
    BY DEF SessionPoolConsistent
  <2>2. \A t \in Sessions \ {s} : sock[t] # sock[s]
    BY DEF SessionPoolConsistent
  <2>3. ASSUME NEW x \in readfds' PROVE x \in {sock'[t] : t \in Sessions} \ {NoSocket}
    BY <1>4, <2>1, <2>3
  <2>4. ASSUME NEW t \in Sessions, sock'[t] # NoSocket PROVE sock'[t] \in readfds'
    BY <1>4, <2>1, <2>2, <2>4
  <2> QED BY <2>3, <2>4
<1>10. connectedCount' = SessionCount - Len(freeSessions')
  <2>1. connectedCount = SessionCount - n
    BY <1>1 DEF SessionPoolConsistent
  <2> QED BY <1>2, <2>1, NetworkAssumption
<1> QED
  BY <1>2, <1>4, <1>6, <1>7, <1>8, <1>9, <1>10 DEF SessionPoolConsistent

-----------------------------------------------------------------------------
(* What an action does to the shared data, and to the thread's place *)

(* Clients act, or the thread looks at its data without changing it. *)
LEMMA DataStays ==
  ASSUME DataInv, UNCHANGED <<accepted, slotVars, packetQueue, party>>,
         called' \in 0..MaxConnections, called <= called',
         inbox' \in [Connections -> Nat],
         gone' \in [Connections -> BOOLEAN],
         loginOK' \in [Sessions -> BOOLEAN]
  PROVE  DataInv'
<1>1. DataTypes'
  BY NetworkAssumption DEF DataInv, DataTypes, slotVars
<1>2. SessionPoolConsistent' /\ SocketsAccepted'
  BY DEF DataInv, slotVars, SessionPoolConsistent, SocketsAccepted, IsConnected
<1>3. QueueInv'
  BY QueueStays DEF DataInv, slotVars
<1> QED BY <1>1, <1>2, <1>3 DEF DataInv

(* CloseSession of a connected session. *)
LEMMA SessionClosed ==
  ASSUME DataInv, NEW s \in Sessions, IsConnected(s), CloseSession(s),
         UNCHANGED <<called, accepted, party, loginOK>>
  PROVE  /\ DataInv'
         /\ \A m : RequestsBelow(m) => RequestsBelow(m)'
<1>1. PICK p \in Packets : p = Packet("NTF_SYS_CLOSE_SESSION", s)
  BY DEF Packet, Packets, DataInv, DataTypes
<1>2. p.id = "NTF_SYS_CLOSE_SESSION" /\ p.session = s /\ p.conn = sock[s]
  BY <1>1 DEF Packet
<1>3. sock[s] \in Connections /\ sock[s] # NoSocket
  BY SocketValues DEF IsConnected, DataInv, DataTypes, Sockets, BadSocket, NoSocket
<1>4. packetQueue' = Append(packetQueue, p) /\ packetQueue \in Seq(Packets)
  BY <1>1 DEF CloseSession, ReleaseSessionIndex, ClearSession, DataInv, DataTypes
<1>5. /\ freeSessions' \in Seq(Sessions) /\ sock' \in [Sessions -> Sockets]
      /\ SessionPoolConsistent'
  BY SlotReleased DEF CloseSession, ReleaseSessionIndex, ClearSession, DataInv
<1>6. DataTypes'
  <2>1. packetQueue' \in Seq(Packets)
    BY <1>4
  <2>2. inbox' \in [Connections -> Nat] /\ gone' \in [Connections -> BOOLEAN]
    BY DEF CloseSession, ReleaseSessionIndex, ClearSession, ConnectionEnds,
        DataInv, DataTypes
  <2>3. readfds' \in SUBSET Sockets /\ connectedCount' \in Int
    BY DEF CloseSession, ReleaseSessionIndex, ClearSession, DataInv, DataTypes
  <2> QED BY <1>5, <2>1, <2>2, <2>3 DEF DataInv, DataTypes
<1>7. SocketsAccepted'
  BY <1>3, SocketValues DEF CloseSession, ReleaseSessionIndex, ClearSession,
      DataInv, DataTypes, SocketsAccepted, NoSocket
<1>8. QueueInv'
  <2>1. sock[p.session] = Before(p) /\ p.conn # NoSocket
    BY <1>2, <1>3 DEF Before
  <2>2. sock' = [sock EXCEPT ![p.session] = IF p.id = "NTF_SYS_CLOSE_SESSION" THEN NoSocket ELSE p.conn]
    BY <1>2 DEF CloseSession, ReleaseSessionIndex, ClearSession
  <2> QED BY <1>4, <2>1, <2>2, QueueAppend DEF DataInv, DataTypes
<1>9. \A m : RequestsBelow(m) => RequestsBelow(m)'
  <2>1. PICK n \in Nat : n = Len(packetQueue) /\ DOMAIN packetQueue = 1..n
    BY <1>4
  <2>2. DOMAIN packetQueue' = 1..(n + 1) /\ packetQueue'[n + 1] = p
        /\ \A k \in 1..n : packetQueue'[k] = packetQueue[k]
    BY <1>4, <2>1
  <2>3. \A i \in 1..(n + 1) : i \in 1..n \/ i = n + 1
    OBVIOUS
  <2> QED BY <1>2, <2>1, <2>2, <2>3 DEF RequestsBelow
<1> QED BY <1>5, <1>6, <1>7, <1>8, <1>9 DEF DataInv

(* The loop over the sessions goes on behind every queued request. *)
LEMMA LoopGoesOn ==
  ASSUME ThreadTypes, NextClient, received' \in Nat,
         NEW m, m = cursor + 1, RequestsBelow(m)'
  PROVE  ThreadInv'
<1>1. cursor \in 0..(SessionCount - 1)
  BY DEF ThreadTypes, Sessions
<1>2. CASE cursor + 1 = SessionCount
  <2>1. cursor' = 0 /\ phase' = "drain" /\ readSet' = {} /\ writeSet' = {}
    BY <1>2 DEF NextClient
  <2> QED BY <2>1, NetworkAssumption
          DEF ThreadInv, ThreadTypes, PhaseFacts, RequestsBehindCursor, Phases, Sessions
<1>3. CASE cursor + 1 # SessionCount
  <2>1. cursor' = m /\ phase' = "receive" /\ UNCHANGED <<readSet, writeSet>>
    BY <1>3 DEF NextClient
  <2>2. m \in Sessions
    BY <1>1, <1>3, NetworkAssumption DEF Sessions
  <2>3. RequestsBelow(cursor)'
    BY <2>1 DEF RequestsBelow
  <2> QED BY <2>1, <2>2, <2>3 DEF ThreadInv, ThreadTypes, PhaseFacts, RequestsBehindCursor, Phases
<1> QED BY <1>2, <1>3

(* Where RequestsBehindCursor leaves the queued requests at a slot's turn. *)
LEMMA TurnOver ==
  ASSUME ThreadInv, phase \in {"receive", "frame", "write"}, NEW m, m = cursor + 1,
         packetQueue \in Seq(Packets)
  PROVE  RequestsBelow(m)
<1>1. cursor \in Int
  BY NetworkAssumption DEF ThreadInv, ThreadTypes, Sessions
<1>2. CASE phase = "receive"
  <2>1. RequestsBelow(cursor)
    BY <1>2 DEF ThreadInv, RequestsBehindCursor
  <2>2. \A i \in DOMAIN packetQueue : packetQueue[i].session \in Int
    <3>1. \A p \in Packets : p.session \in Int
      BY NetworkAssumption DEF Packets, Sessions
    <3> QED BY <3>1
  <2> QED BY <1>1, <2>1, <2>2 DEF RequestsBelow
<1>3. CASE phase \in {"frame", "write"}
  BY <1>3 DEF ThreadInv, RequestsBehindCursor
<1> QED BY <1>2, <1>3

-----------------------------------------------------------------------------
(* LoopInv is inductive *)

(* NetInit: every slot is free and nothing is queued. *)
LEMMA InitLoopInv == Init => LoopInv
<1> SUFFICES ASSUME Init PROVE LoopInv
  OBVIOUS
<1> USE DEF Init, NetInit
<1>1. SessionCount \in Nat \ {0} /\ 0 \in Sessions
  BY NetworkAssumption DEF Sessions
<1>2. /\ freeSessions \in Seq(Sessions) /\ Len(freeSessions) = SessionCount
      /\ DOMAIN freeSessions = 1..SessionCount
      /\ \A i \in 1..SessionCount : freeSessions[i] = i - 1
  BY <1>1 DEF Sessions
<1>3. DataTypes
  BY <1>2, SocketValues, NetworkAssumption DEF DataTypes, Connections
<1>4. SessionPoolConsistent
  <2>1. \A s \in Sessions : s + 1 \in 1..SessionCount /\ freeSessions[s + 1] = s
    BY <1>1, <1>2 DEF Sessions
  <2>2. \A s \in Sessions : \E i \in DOMAIN freeSessions : freeSessions[i] = s
    BY <1>2, <2>1
  <2> QED BY <1>1, <1>2, <2>2 DEF SessionPoolConsistent, IsConnected, NoSocket
<1>5. SocketsAccepted
  BY DEF SocketsAccepted, NoSocket
<1>6. QueueInv
  <2>1. packetQueue = <<>> /\ Len(packetQueue) = 0 /\ DOMAIN packetQueue = {}
    OBVIOUS
  <2>2. \A s \in Sessions : LastMark(s, 0, sock[s], 0)
    BY DEF LastMark
  <2>3. 0 \in 0..0
    OBVIOUS
  <2>4. QueueEndsAtSlots
    BY <2>1, <2>2, <2>3, FollowsMark DEF QueueEndsAtSlots
  <2> QED BY <2>1, <2>4 DEF QueueInv, QueueInProtocol
<1>7. ThreadInv
  BY <1>1 DEF ThreadInv, ThreadTypes, PhaseFacts, RequestsBehindCursor, RequestsBelow, Phases
<1> QED BY <1>3, <1>4, <1>5, <1>6, <1>7 DEF LoopInv, DataInv

(* A new session takes a slot, unless the pool is empty. *)
LEMMA NewSessionKeeps ==
  ASSUME LoopInv, phase = "accept", NEW fd \in Sockets, fd # NoSocket, fd \notin readfds,
         fd <= accepted + 1, NewSession(fd), UNCHANGED loopLogicVars
  PROVE  LoopInv'
<1>1. /\ called \in Nat /\ accepted \in Nat /\ accepted + 1 <= called /\ called <= MaxConnections
      /\ accepted + 1 \in Connections
      /\ accepted' = accepted + 1 /\ called' = called
  BY NetworkAssumption
  DEF LoopInv, DataInv, DataTypes, ThreadInv, PhaseFacts, Connections, NewSession,
      AllocClientSessionIndex
<1>2. UNCHANGED <<party, loginOK>>
  BY DEF loopLogicVars
<1>3. inbox' \in [Connections -> Nat] /\ gone' \in [Connections -> BOOLEAN]
  <2>1. inbox \in [Connections -> Nat] /\ gone \in [Connections -> BOOLEAN]
    BY DEF LoopInv, DataInv, DataTypes
  <2>2. \/ inbox' = inbox /\ gone' = gone
        \/ /\ inbox' = [inbox EXCEPT ![accepted + 1] = 0]
           /\ gone' = [gone EXCEPT ![accepted + 1] = TRUE]
    BY DEF NewSession, AllocClientSessionIndex, ConnectionEnds
  <2>3. CASE inbox' = inbox /\ gone' = gone
    BY <2>1, <2>3
  <2>4. CASE inbox' = [inbox EXCEPT ![accepted + 1] = 0] /\ gone' = [gone EXCEPT ![accepted + 1] = TRUE]
    BY <2>1, <2>4
  <2> QED BY <2>2, <2>3, <2>4
<1>4. RequestsBelow(0)
  BY DEF LoopInv, ThreadInv, RequestsBehindCursor
<1>5. SocketsAccepted => \A s \in Sessions : sock[s] <= accepted + 1
  <2>1. \A s \in Sessions : sock[s] \in Int
    BY SocketValues DEF LoopInv, DataInv, DataTypes
  <2> QED BY <1>1, <2>1 DEF SocketsAccepted
<1>6. DataInv' /\ RequestsBelow(0)'
  <2>1. CASE freeSessions = <<>>
    <3>1. UNCHANGED <<sock, freeSessions, connectedCount, readfds, packetQueue>>
      BY <2>1 DEF NewSession, AllocClientSessionIndex, slotVars
    <3>2. DataTypes'
      BY <1>1, <1>2, <1>3, <3>1 DEF LoopInv, DataInv, DataTypes
    <3>3. SessionPoolConsistent'
      BY <3>1 DEF LoopInv, DataInv, SessionPoolConsistent, IsConnected
    <3>4. SocketsAccepted'
      BY <1>1, <1>5, <3>1 DEF LoopInv, DataInv, SocketsAccepted
    <3>5. QueueInv'
      BY <1>2, <3>1, QueueStays DEF LoopInv, DataInv
    <3>6. RequestsBelow(0)'
      BY <1>4, <3>1 DEF RequestsBelow
    <3> QED BY <3>2, <3>3, <3>4, <3>5, <3>6 DEF DataInv
  <2>2. CASE freeSessions # <<>>
    <3> DEFINE h == Head(freeSessions)
    <3>1. /\ sock' = [sock EXCEPT ![h] = fd]
          /\ freeSessions' = Tail(freeSessions)
          /\ readfds' = readfds \cup {fd}
          /\ connectedCount' = connectedCount + 1
      BY <2>2 DEF NewSession, AllocClientSessionIndex, ConnectedSession
    <3>2. /\ h \in Sessions /\ sock[h] = NoSocket
          /\ freeSessions' \in Seq(Sessions) /\ sock' \in [Sessions -> Sockets]
          /\ SessionPoolConsistent'
      BY <2>2, <3>1, SlotTaken DEF LoopInv, DataInv
    <3>3. PICK p \in Packets : /\ p.id = "NTF_SYS_CONNECT_SESSION" /\ p.session = h /\ p.conn = fd
                               /\ packetQueue' = Append(packetQueue, p)
      <4>1. packetQueue' = Append(packetQueue, [id |-> "NTF_SYS_CONNECT_SESSION", session |-> h, conn |-> fd])
        BY <2>2 DEF NewSession, AllocClientSessionIndex, ConnectedSession
      <4> QED BY <3>2, <4>1 DEF Packets
    <3> HIDE DEF h
    <3>4. packetQueue \in Seq(Packets) /\ packetQueue' \in Seq(Packets)
      BY <3>3 DEF LoopInv, DataInv, DataTypes
    <3>5. DataTypes'
      BY <1>1, <1>2, <1>3, <3>1, <3>2, <3>4 DEF LoopInv, DataInv, DataTypes
    <3>6. SocketsAccepted'
      BY <1>1, <1>5, <3>1, <3>2 DEF LoopInv, DataInv, DataTypes, SocketsAccepted
    <3>7. QueueInv'
      <4>1. sock[p.session] = Before(p)
        BY <3>2, <3>3 DEF Before
      <4>2. sock' = [sock EXCEPT ![p.session] = IF p.id = "NTF_SYS_CLOSE_SESSION" THEN NoSocket ELSE p.conn]
        BY <3>1, <3>3
      <4> QED BY <1>2, <3>3, <3>4, <4>1, <4>2, QueueAppend DEF LoopInv, DataInv, DataTypes
    <3>8. RequestsBelow(0)'
      <4>1. PICK n \in Nat : n = Len(packetQueue) /\ DOMAIN packetQueue = 1..n
        BY <3>4
      <4>2. DOMAIN packetQueue' = 1..(n + 1) /\ packetQueue'[n + 1] = p
            /\ \A k \in 1..n : packetQueue'[k] = packetQueue[k]
        BY <3>3, <3>4, <4>1
      <4>3. \A i \in 1..(n + 1) : i \in 1..n \/ i = n + 1
        OBVIOUS
      <4> QED BY <1>4, <3>3, <4>1, <4>2, <4>3 DEF RequestsBelow
    <3> QED BY <3>2, <3>5, <3>6, <3>7, <3>8 DEF DataInv
  <2> QED BY <2>1, <2>2
<1>7. ThreadInv'
  <2>1. phase' = "receive" /\ UNCHANGED <<cursor, readSet, writeSet, received>>
    BY DEF NewSession, AllocClientSessionIndex
  <2>2. RequestsBelow(cursor)'
    <3>1. cursor \in Nat /\ packetQueue' \in Seq(Packets)
      BY <1>6, NetworkAssumption DEF LoopInv, ThreadInv, ThreadTypes, Sessions, DataInv, DataTypes
    <3>2. \A q \in Packets : q.session \in Int
      BY NetworkAssumption DEF Packets, Sessions
    <3>3. \A i \in DOMAIN packetQueue' : packetQueue'[i].session \in Int
      BY <3>1, <3>2
    <3> QED BY <1>6, <2>1, <3>1, <3>3 DEF RequestsBelow
  <2> QED BY <2>1, <2>2 DEF LoopInv, ThreadInv, ThreadTypes, PhaseFacts, RequestsBehindCursor, Phases
<1> QED BY <1>6, <1>7 DEF LoopInv

(* The whole of TcpNetwork::Run keeps LoopInv. *)
LEMMA NetworkRunKeeps ==
  ASSUME LoopInv, NetworkRun, UNCHANGED loopLogicVars
  PROVE  LoopInv'
<1>1. DataInv /\ ThreadInv
  BY DEF LoopInv
<1>2. UNCHANGED <<party, loginOK>>
  BY DEF loopLogicVars
<1>3. cursor \in Sessions /\ packetQueue \in Seq(Packets)
  BY <1>1 DEF DataInv, DataTypes, ThreadInv, ThreadTypes
<1>4. ASSUME UNCHANGED dataVars PROVE DataInv'
  BY <1>1, <1>2, <1>4, DataStays DEF dataVars, clientVars, DataInv, DataTypes
<1>5. ASSUME UNCHANGED dataVars PROVE \A m : RequestsBelow(m) => RequestsBelow(m)'
  BY <1>5 DEF dataVars, RequestsBelow
<1>6. PICK m : m = cursor + 1
  OBVIOUS
<1>7. phase \in {"receive", "frame", "write"} => RequestsBelow(m)
  BY <1>1, <1>3, <1>6, TurnOver
<1>8. ASSUME IsConnected(cursor), CloseSession(cursor), NextClient, received' \in Nat,
             UNCHANGED <<called, requests, accepted>>, phase \in {"receive", "frame", "write"}
      PROVE  LoopInv'
  <2>1. DataInv' /\ RequestsBelow(m)'
    BY <1>1, <1>2, <1>3, <1>7, <1>8, SessionClosed
  <2> QED BY <1>1, <1>6, <1>8, <2>1, LoopGoesOn DEF ThreadInv, LoopInv
<1>a. CASE SelectReturns
  <2>1. UNCHANGED dataVars /\ UNCHANGED <<cursor, received>> /\ phase = "select"
    BY <1>a DEF SelectReturns
  <2>2. readSet' \in SUBSET Sockets /\ writeSet' \in SUBSET Sockets
    BY <1>1, <1>a DEF SelectReturns, DataInv, DataTypes
  <2>3. RequestsBelow(0)
    BY <1>1, <2>1 DEF ThreadInv, RequestsBehindCursor
  <2>4. RequestsBelow(0)' /\ RequestsBelow(cursor)'
    <3>1. cursor \in Nat
      BY <1>3, NetworkAssumption DEF Sessions
    <3>2. \A q \in Packets : q.session \in Int
      BY NetworkAssumption DEF Packets, Sessions
    <3>3. \A i \in DOMAIN packetQueue : packetQueue[i].session \in Int
      BY <1>3, <3>2
    <3> QED BY <2>1, <2>3, <3>1, <3>3 DEF RequestsBelow, dataVars
  <2>5. phase' \in {"accept", "drain", "receive"} /\ (phase' = "accept" => called > accepted)
        /\ BadSocket \notin readfds
    BY <1>a DEF SelectReturns
  <2>6. ThreadInv'
    <3>1. UNCHANGED <<called, accepted, readfds>>
      BY <2>1 DEF dataVars, slotVars, clientVars
    <3> QED BY <1>1, <2>1, <2>2, <2>4, <2>5, <3>1
            DEF ThreadInv, ThreadTypes, PhaseFacts, RequestsBehindCursor, Phases
  <2> QED BY <1>4, <2>1, <2>6 DEF LoopInv
<1>b. CASE SelectFails
  <2>1. UNCHANGED dataVars /\ phase' = "drain" /\ UNCHANGED <<cursor, readSet, writeSet, received>>
    BY <1>b DEF SelectFails
  <2>2. ThreadInv'
    BY <1>1, <2>1 DEF ThreadInv, ThreadTypes, PhaseFacts, RequestsBehindCursor, Phases
  <2> QED BY <1>4, <2>1, <2>2 DEF LoopInv
<1>c. CASE Accept
  <2>1. phase = "accept" /\ NewSession(accepted + 1)
    BY <1>c DEF Accept, NewSession, AllocClientSessionIndex
  <2>2. /\ accepted \in Nat /\ accepted + 1 \in Connections
        /\ accepted + 1 \in Sockets /\ accepted + 1 # NoSocket
    BY <1>1, <2>1, NetworkAssumption
    DEF DataInv, DataTypes, ThreadInv, PhaseFacts, Connections, Sockets, NoSocket
  <2>3. accepted + 1 \notin readfds
    <3>1. \A s \in Sessions : sock[s] <= accepted /\ sock[s] \in Int
      BY <1>1, SocketValues DEF DataInv, DataTypes, SocketsAccepted
    <3>2. readfds = {sock[s] : s \in Sessions} \ {NoSocket}
      BY <1>1 DEF DataInv, SessionPoolConsistent
    <3> QED BY <2>2, <3>1, <3>2
  <2> QED BY <2>1, <2>2, <2>3, NewSessionKeeps
<1>d. CASE AcceptFails
  <2>1. phase = "accept" /\ NewSession(BadSocket) /\ BadSocket \notin readfds
    BY <1>1, <1>d DEF AcceptFails, ThreadInv, PhaseFacts
  <2>2. BadSocket \in Sockets /\ BadSocket # NoSocket /\ BadSocket <= accepted + 1
    BY <1>1, NetworkAssumption DEF DataInv, DataTypes, Sockets, BadSocket, NoSocket
  <2> QED BY <2>1, <2>2, NewSessionKeeps
<1>e. CASE SkipClient
  <2>1. UNCHANGED dataVars /\ NextClient /\ received' = received /\ phase = "receive"
    BY <1>e DEF SkipClient
  <2>2. RequestsBelow(m)'
    BY <1>5, <1>7, <2>1
  <2>3. ThreadInv'
    BY <1>1, <1>6, <2>1, <2>2, LoopGoesOn DEF ThreadInv, ThreadTypes
  <2> QED BY <1>4, <2>1, <2>3 DEF LoopInv
<1>f. CASE NothingToReceive
  <2>1. /\ UNCHANGED dataVars /\ phase = "receive" /\ phase' = "write" /\ IsConnected(cursor)
        /\ UNCHANGED <<cursor, readSet, writeSet, received>>
    BY <1>f DEF NothingToReceive
  <2>2. RequestsBelow(cursor + 1)' /\ IsConnected(cursor)'
    BY <1>5, <1>6, <1>7, <2>1 DEF dataVars, slotVars, IsConnected
  <2>3. ThreadInv'
    BY <1>1, <2>1, <2>2 DEF ThreadInv, ThreadTypes, PhaseFacts, RequestsBehindCursor, Phases
  <2> QED BY <1>4, <2>1, <2>3 DEF LoopInv
<1>g. CASE RecvSocket
  <2>1. /\ UNCHANGED <<called, gone, accepted, sock, freeSessions, connectedCount, readfds, packetQueue>>
        /\ phase = "receive" /\ phase' = "frame" /\ IsConnected(cursor)
        /\ UNCHANGED <<cursor, readSet, writeSet>>
    BY <1>g DEF RecvSocket, slotVars
  <2>2. inbox' \in [Connections -> Nat] /\ received' \in Nat
    <3>1. sock[cursor] \in Connections
      BY <1>1, <1>3, <2>1 DEF IsConnected, DataInv, DataTypes, Sockets, BadSocket, NoSocket
    <3>2. PICK n \in 1..inbox[sock[cursor]] :
            inbox' = [inbox EXCEPT ![sock[cursor]] = @ - n] /\ received' = n
      BY <1>g DEF RecvSocket
    <3>3. inbox[sock[cursor]] \in Nat /\ inbox[sock[cursor]] - n \in Nat /\ n \in Nat
      BY <1>1, <3>1, <3>2 DEF DataInv, DataTypes
    <3> QED BY <1>1, <3>2, <3>3 DEF DataInv, DataTypes
  <2>3. DataInv'
    BY <1>1, <1>2, <2>1, <2>2, DataStays DEF DataInv, DataTypes, slotVars
  <2>4. RequestsBelow(cursor + 1)' /\ IsConnected(cursor)'
    BY <1>6, <1>7, <2>1 DEF IsConnected, RequestsBelow
  <2>5. ThreadInv'
    BY <1>1, <2>1, <2>2, <2>4 DEF ThreadInv, ThreadTypes, PhaseFacts, RequestsBehindCursor, Phases
  <2> QED BY <2>3, <2>5 DEF LoopInv
<1>h. CASE RecvSocketFails
  <2>1. /\ IsConnected(cursor) /\ CloseSession(cursor) /\ NextClient /\ phase = "receive"
        /\ UNCHANGED <<called, requests, accepted, received>>
    BY <1>h DEF RecvSocketFails
  <2> QED BY <1>1, <1>8, <2>1 DEF ThreadInv, ThreadTypes
<1>i. CASE AddPacketQueue
  <2>1. /\ UNCHANGED <<called, inbox, gone, accepted, sock, freeSessions, connectedCount, readfds>>
        /\ phase = "frame" /\ received > 0 /\ received' = received - 1
        /\ packetQueue' = Append(packetQueue, Packet("REQ", cursor))
        /\ UNCHANGED <<phase, cursor, readSet, writeSet>>
    BY <1>i DEF AddPacketQueue, slotVars, clientVars
  <2>2. IsConnected(cursor) /\ sock[cursor] # NoSocket
    BY <1>1, <1>3, <2>1, SocketValues DEF ThreadInv, PhaseFacts, IsConnected, DataInv, DataTypes
  <2>3. PICK p \in Packets : p = Packet("REQ", cursor) /\ p.id = "REQ" /\ p.session = cursor
                             /\ p.conn = sock[cursor]
    <3>1. sock[cursor] \in Sockets
      BY <1>1, <1>3 DEF DataInv, DataTypes
    <3>2. Packet("REQ", cursor) = [id |-> "REQ", session |-> cursor, conn |-> sock[cursor]]
      BY DEF Packet
    <3>3. [id |-> "REQ", session |-> cursor, conn |-> sock[cursor]] \in Packets
      BY <1>3, <3>1 DEF Packets
    <3> QED BY <3>2, <3>3
  <2>4. packetQueue' = Append(packetQueue, p) /\ packetQueue' \in Seq(Packets)
    BY <1>3, <2>1, <2>3
  <2>5. QueueInv'
    <3>1. sock[p.session] = Before(p) /\ p.conn # NoSocket
      BY <2>2, <2>3 DEF Before
    <3>2. sock' = [sock EXCEPT ![p.session] = IF p.id = "NTF_SYS_CLOSE_SESSION" THEN NoSocket ELSE p.conn]
      BY <1>1, <2>1, <2>3 DEF DataInv, DataTypes
    <3> QED BY <1>1, <1>2, <1>3, <2>4, <3>1, <3>2, QueueAppend DEF DataInv, DataTypes
  <2>6. DataInv'
    BY <1>1, <1>2, <2>1, <2>4, <2>5
    DEF DataInv, DataTypes, SessionPoolConsistent, SocketsAccepted, IsConnected
  <2>7. RequestsBelow(cursor + 1)'
    <3>1. PICK n \in Nat : n = Len(packetQueue) /\ DOMAIN packetQueue = 1..n
      BY <1>3
    <3>2. DOMAIN packetQueue' = 1..(n + 1) /\ packetQueue'[n + 1] = p
          /\ \A k \in 1..n : packetQueue'[k] = packetQueue[k]
      BY <1>3, <2>4, <3>1
    <3>3. \A i \in 1..(n + 1) : i \in 1..n \/ i = n + 1
      OBVIOUS
    <3>4. cursor < cursor + 1 /\ RequestsBelow(cursor + 1)
      BY <1>3, <1>6, <1>7, <2>1, NetworkAssumption DEF Sessions
    <3> QED BY <2>1, <2>3, <3>1, <3>2, <3>3, <3>4 DEF RequestsBelow
  <2>8. ThreadInv'
    BY <1>1, <2>1, <2>2, <2>7
    DEF ThreadInv, ThreadTypes, PhaseFacts, RequestsBehindCursor, Phases, IsConnected
  <2> QED BY <2>6, <2>8 DEF LoopInv
<1>j. CASE RecvBufferProcessFails
  BY <1>1, <1>8, <1>j DEF RecvBufferProcessFails, ThreadInv, PhaseFacts
<1>k. CASE RecvBufferProcessEnds
  <2>1. /\ UNCHANGED dataVars /\ phase = "frame" /\ phase' = "write" /\ IsConnected(cursor)
        /\ UNCHANGED <<cursor, readSet, writeSet, received>>
    BY <1>1, <1>k DEF RecvBufferProcessEnds, ThreadInv, PhaseFacts
  <2>2. RequestsBelow(cursor + 1)' /\ IsConnected(cursor)'
    BY <1>5, <1>6, <1>7, <2>1 DEF dataVars, slotVars, IsConnected
  <2>3. ThreadInv'
    BY <1>1, <2>1, <2>2 DEF ThreadInv, ThreadTypes, PhaseFacts, RequestsBehindCursor, Phases
  <2> QED BY <1>4, <2>1, <2>3 DEF LoopInv
<1>l. CASE NothingToSend
  <2>1. UNCHANGED dataVars /\ NextClient /\ received' = received /\ phase = "write"
    BY <1>l DEF NothingToSend
  <2>2. RequestsBelow(m)'
    BY <1>5, <1>7, <2>1
  <2>3. ThreadInv'
    BY <1>1, <1>6, <2>1, <2>2, LoopGoesOn DEF ThreadInv, ThreadTypes
  <2> QED BY <1>4, <2>1, <2>3 DEF LoopInv
<1>m. CASE RunProcessWrite
  <2>1. /\ UNCHANGED <<called, inbox, gone, accepted, slotVars, packetQueue>>
        /\ NextClient /\ received' = received /\ phase = "write"
    BY <1>m DEF RunProcessWrite, clientVars
  <2>2. DataInv'
    BY <1>1, <1>2, <2>1, DataStays DEF DataInv, DataTypes
  <2>3. RequestsBelow(m)'
    BY <1>7, <2>1 DEF RequestsBelow
  <2>4. ThreadInv'
    BY <1>1, <1>6, <2>1, <2>3, LoopGoesOn DEF ThreadInv, ThreadTypes
  <2> QED BY <2>2, <2>4 DEF LoopInv
<1>n. CASE SendSocketFails
  BY <1>1, <1>8, <1>n DEF SendSocketFails, ThreadInv, ThreadTypes, PhaseFacts
<1> QED
  BY <1>a, <1>b, <1>c, <1>d, <1>e, <1>f, <1>g, <1>h, <1>i, <1>j, <1>k, <1>l, <1>m, <1>n DEF NetworkRun

(* Handling a queued packet moves its effect from the queue to the logic. *)
LEMMA HandlePacketKeeps ==
  ASSUME LoopInv, HandlePacket
  PROVE  LoopInv'
<1>1. /\ phase = "drain" /\ UNCHANGED <<phase, cursor, readSet, writeSet, received>>
      /\ UNCHANGED <<called, inbox, gone, accepted, sock, freeSessions, connectedCount, readfds>>
      /\ packetQueue # <<>> /\ packetQueue' = Tail(packetQueue)
  BY DEF HandlePacket, clientVars, slotVars, loopVars
<1>2. packetQueue \in Seq(Packets) /\ packetQueue' \in Seq(Packets)
  BY <1>1 DEF LoopInv, DataInv, DataTypes
<1>3. PICK h \in Packets : h = Head(packetQueue) /\ Process(h)
  BY <1>1, <1>2 DEF HandlePacket
<1>4. h.session \in Sessions /\ h.conn \in Sockets
  BY DEF Packets
<1>5. party \in [Sessions -> Sockets] /\ loginOK \in [Sessions -> BOOLEAN]
  BY DEF LoopInv, DataInv, DataTypes
<1>6. /\ party' = PartyAfter(h) /\ party' \in [Sessions -> Sockets]
      /\ loginOK' \in [Sessions -> BOOLEAN]
  <2>1. CASE h.id = "NTF_SYS_CONNECT_SESSION" /\ NtfSysConnctSession(h.session, h.conn)
    BY <1>4, <1>5, <2>1 DEF NtfSysConnctSession, PartyAfter
  <2>2. CASE h.id = "NTF_SYS_CLOSE_SESSION" /\ NtfSysCloseSession(h.session)
    BY <1>4, <1>5, <2>2, SocketValues DEF NtfSysCloseSession, PartyAfter
  <2>3. CASE h.id = "REQ" /\ Request(h.session)
    <3>1. party' = party
      BY <2>3 DEF Request, Login, LobbyOrRoomRequest, loopLogicVars
    <3>2. \/ loginOK' = loginOK
          \/ \E ok \in BOOLEAN : loginOK' = [loginOK EXCEPT ![h.session] = loginOK[h.session] \/ ok]
      BY <2>3 DEF Request, Login, LobbyOrRoomRequest, loopLogicVars
    <3>3. loginOK' \in [Sessions -> BOOLEAN]
      BY <1>4, <1>5, <3>2
    <3> QED BY <1>5, <2>3, <3>1, <3>3 DEF PartyAfter
  <2> QED BY <1>3, <2>1, <2>2, <2>3 DEF Process
<1>7. QueueInv'
  BY <1>1, <1>2, <1>3, <1>5, <1>6, QueueTail DEF LoopInv, DataInv
<1>8. DataInv'
  BY <1>1, <1>2, <1>6, <1>7
  DEF LoopInv, DataInv, DataTypes, SessionPoolConsistent, SocketsAccepted, IsConnected
<1>9. ThreadInv'
  BY <1>1 DEF LoopInv, ThreadInv, ThreadTypes, PhaseFacts, RequestsBehindCursor
<1> QED BY <1>8, <1>9 DEF LoopInv

(* The check goes on to the next session, or the round is over. *)
LEMMA CheckGoesOn ==
  ASSUME ThreadInv, phase = "check", CheckNext, RequestsBelow(0)'
  PROVE  ThreadInv'
<1>1. cursor \in 0..(SessionCount - 1) /\ UNCHANGED <<readSet, writeSet, received>>
  BY DEF ThreadInv, ThreadTypes, Sessions, CheckNext
<1>2. phase' \in {"check", "select"} /\ cursor' \in Sessions
  BY <1>1, NetworkAssumption DEF CheckNext, Sessions
<1> QED
  BY <1>1, <1>2 DEF ThreadInv, ThreadTypes, PhaseFacts, RequestsBehindCursor, Phases

(* Every step of the server and of its clients keeps LoopInv. *)
LEMMA StepKeepsLoopInv ==
  ASSUME LoopInv, [Next]_serverVars
  PROVE  LoopInv'
<1>1. DataInv /\ ThreadInv
  BY DEF LoopInv
<1>a. CASE NetworkRun /\ UNCHANGED loopLogicVars
  BY <1>a, NetworkRunKeeps
<1>b. CASE HandlePacket
  BY <1>b, HandlePacketKeeps
<1>c. CASE QueueIsEmpty
  <2>1. /\ UNCHANGED <<dataVars, loopLogicVars>> /\ phase' = "check" /\ packetQueue = <<>>
        /\ UNCHANGED <<cursor, readSet, writeSet, received>>
    BY <1>c DEF QueueIsEmpty
  <2>2. DataInv'
    BY <1>1, <2>1, DataStays DEF dataVars, loopLogicVars, clientVars, DataInv, DataTypes
  <2>3. RequestsBelow(0)'
    BY <2>1 DEF RequestsBelow, dataVars
  <2>4. ThreadInv'
    BY <1>1, <2>1, <2>3 DEF ThreadInv, ThreadTypes, PhaseFacts, RequestsBehindCursor, Phases
  <2> QED BY <2>2, <2>4 DEF LoopInv
<1>d. CASE CheckPasses \/ LoginWaitOver
  <2>1. /\ phase = "check" /\ CheckNext /\ cursor \in Sessions
        /\ UNCHANGED <<accepted, party, loginOK>>
    BY <1>1, <1>d DEF CheckPasses, LoginWaitOver, CheckNext, loopLogicVars, ThreadInv, ThreadTypes
  <2>2. RequestsBelow(0)
    BY <1>1, <2>1 DEF ThreadInv, RequestsBehindCursor
  <2>3. CASE UNCHANGED <<clientVars, slotVars, packetQueue>>
    <3>1. DataInv'
      BY <1>1, <2>1, <2>3, DataStays DEF clientVars, DataInv, DataTypes
    <3>2. RequestsBelow(0)'
      BY <2>2, <2>3 DEF RequestsBelow
    <3> QED BY <1>1, <2>1, <3>1, <3>2, CheckGoesOn DEF LoopInv
  <2>4. CASE IsConnected(cursor) /\ CloseSession(cursor) /\ UNCHANGED <<called, requests>>
    <3>1. DataInv' /\ RequestsBelow(0)'
      BY <1>1, <2>1, <2>2, <2>4, SessionClosed
    <3> QED BY <1>1, <2>1, <3>1, CheckGoesOn DEF LoopInv
  <2> QED BY <1>d, <2>3, <2>4 DEF CheckPasses, LoginWaitOver, ForcingClose
<1>g. CASE Stop
  <2>1. /\ UNCHANGED <<called, inbox, gone, accepted, slotVars, packetQueue, party, loginOK>>
        /\ UNCHANGED <<phase, cursor, readSet, writeSet, received, readfds, sock>>
    BY <1>g DEF Stop, netVars, slotVars, loopLogicVars
  <2>2. DataInv'
    BY <1>1, <2>1, DataStays DEF DataInv, DataTypes
  <2>3. ThreadInv'
    BY <1>1, <2>1
    DEF ThreadInv, ThreadTypes, PhaseFacts, RequestsBehindCursor, RequestsBelow, IsConnected
  <2> QED BY <2>2, <2>3 DEF LoopInv
<1>e. CASE Clients
  <2>1. /\ UNCHANGED <<accepted, slotVars, packetQueue, party, loginOK>>
        /\ UNCHANGED <<phase, cursor, readSet, writeSet, received>>
    BY <1>e DEF Clients, ClientConnects, ClientSends, ClientCloses, loopLogicVars, loopVars
  <2>2. /\ called' \in 0..MaxConnections /\ called <= called'
        /\ inbox' \in [Connections -> Nat] /\ gone' \in [Connections -> BOOLEAN]
    <3>1. /\ called \in 0..MaxConnections /\ inbox \in [Connections -> Nat]
          /\ gone \in [Connections -> BOOLEAN]
      BY <1>1 DEF DataInv, DataTypes
    <3>2. CASE ClientConnects
      BY <3>1, <3>2, NetworkAssumption DEF ClientConnects
    <3>3. ASSUME NEW c \in Connections, ClientSends(c)
          PROVE  UNCHANGED <<called, gone>> /\ inbox' \in [Connections -> Nat]
      BY <3>1, <3>3 DEF ClientSends
    <3>4. ASSUME NEW c \in Connections, ClientCloses(c)
          PROVE  UNCHANGED <<called, inbox>> /\ gone' \in [Connections -> BOOLEAN]
      BY <3>1, <3>4 DEF ClientCloses
    <3> QED BY <1>e, <3>1, <3>2, <3>3, <3>4 DEF Clients
  <2>3. DataInv'
    BY <1>1, <2>1, <2>2, DataStays DEF DataInv, DataTypes
  <2>4. UNCHANGED <<readfds, sock>> /\ UNCHANGED packetQueue
    BY <2>1 DEF slotVars
  <2>5. ThreadInv'
    BY <1>1, <2>1, <2>2, <2>4
    DEF ThreadInv, ThreadTypes, PhaseFacts, RequestsBehindCursor, RequestsBelow, IsConnected,
        DataInv, DataTypes
  <2> QED BY <2>3, <2>5 DEF LoopInv
<1>f. CASE UNCHANGED serverVars
  <2>1. /\ UNCHANGED <<called, inbox, gone, accepted, slotVars, packetQueue, party, loginOK>>
        /\ UNCHANGED <<phase, cursor, readSet, writeSet, received, readfds, sock>>
    BY <1>f DEF serverVars, netVars, slotVars
  <2>2. DataInv'
    BY <1>1, <2>1, DataStays DEF DataInv, DataTypes
  <2>3. ThreadInv'
    BY <1>1, <2>1
    DEF ThreadInv, ThreadTypes, PhaseFacts, RequestsBehindCursor, RequestsBelow, IsConnected
  <2> QED BY <2>2, <2>3 DEF LoopInv
<1> QED
  BY <1>a, <1>b, <1>c, <1>d, <1>e, <1>f, <1>g DEF Next, Server

(* LoopInv holds in every reachable state: slots, queue and logic agree. *)
THEOREM LoopInvariant == Spec => []LoopInv
  BY InitLoopInv, StepKeepsLoopInv, PTL DEF Spec

(* The free list and the slots of CreateSessionPool, AllocClientSessionIndex  *)
(* and CloseSession agree, and select watches the sockets of the slots.       *)
THEOREM SessionPoolAlwaysConsistent == Spec => []SessionPoolConsistent
<1>1. LoopInv => SessionPoolConsistent
  BY DEF LoopInv, DataInv
<1> QED BY <1>1, LoopInvariant, PTL

(* Packets are queued in the order of their connections, per slot. *)
THEOREM QueueAlwaysInProtocol == Spec => []QueueInProtocol
<1>1. LoopInv => QueueInProtocol
  BY DEF LoopInv, DataInv, QueueInv
<1> QED BY <1>1, LoopInvariant, PTL

(* With the queue handled, the logic knows of the connected sessions. *)
THEOREM LogicAlwaysTracksNetwork == Spec => []LogicTracksNetwork
<1>1. LoopInv => LogicTracksNetwork
  <2> SUFFICES ASSUME LoopInv, packetQueue = <<>> PROVE party = sock
    BY DEF LogicTracksNetwork
  <2>1. party \in [Sessions -> Sockets] /\ sock \in [Sessions -> Sockets]
    BY DEF LoopInv, DataInv, DataTypes
  <2>2. ASSUME NEW s \in Sessions PROVE party[s] = sock[s]
    <3>1. Follows(s, 0, sock[s])
      BY DEF LoopInv, DataInv, QueueInv, QueueEndsAtSlots
    <3>2. PICK j \in 0..0 : LastMark(s, 0, sock[s], j)
      BY <3>1, FollowsMark
    <3>3. j = 0
      BY <3>2
    <3> QED BY <3>2, <3>3 DEF LastMark
  <2> QED BY <2>1, <2>2
<1> QED BY <1>1, LoopInvariant, PTL

(* No request waits when its session receives again, or is checked. *)
THEOREM RequestsAlwaysHandledInTime == Spec => []RequestsHandledInTime
<1>1. LoopInv => RequestsHandledInTime
  <2> SUFFICES ASSUME LoopInv, NEW i \in DOMAIN packetQueue, packetQueue[i].id = "REQ"
               PROVE  /\ phase \notin {"select", "accept", "check"}
                      /\ phase = "receive" => packetQueue[i].session < cursor
    BY DEF RequestsHandledInTime
  <2>1. packetQueue[i].session \in Sessions
    <3>1. packetQueue[i] \in Packets
      BY DEF LoopInv, DataInv, DataTypes
    <3> QED BY <3>1 DEF Packets
  <2>2. packetQueue[i].session \in Int /\ ~(packetQueue[i].session < 0)
    BY <2>1, NetworkAssumption DEF Sessions
  <2> QED BY <2>2 DEF LoopInv, ThreadInv, RequestsBehindCursor, RequestsBelow
<1> QED BY <1>1, LoopInvariant, PTL

-----------------------------------------------------------------------------
(* The send buffers *)

HalfPackets == [to : Sockets, half : {1, 2}]

(* The i-th half in the buffer of a client that is in the middle of a packet, *)
(* or is not.                                                                 *)
HalfAt(mid, i) == IF (i % 2 = 1) = mid THEN 2 ELSE 1

(* A send buffer that goes on where its client is, and ends a packet. *)
Whole(q, mid) ==
  /\ \A i \in 1..Len(q) : q[i].half = HalfAt(mid, i)
  /\ HalfAt(mid, Len(q) + 1) = 1
  /\ Len(q) <= MaxSendBuffer

(* The client at session s has received one half of a packet. *)
MidAt(s) == IsConnected(s) /\ midPacket[sock[s]]

(* Only a client that has a session is in the middle of a packet: the next to *)
(* be accepted begins with a new one.                                         *)
MidPacketsConnected ==
  \A c \in Connections : midPacket[c] => \E s \in Sessions : sock[s] = c

InputTypes ==
  /\ requests \in 0..MaxRequests
  /\ inbox \in [Connections -> Nat]
  /\ \A c \in Connections : inbox[c] <= requests
  /\ running \in BOOLEAN

OutputInv ==
  /\ midPacket \in [Connections -> BOOLEAN]
  /\ sendBuf \in [Sessions -> Seq(HalfPackets)]
  /\ MidPacketsConnected
  /\ \A s \in Sessions : Whole(sendBuf[s], MidAt(s))

BufferInv == InputTypes /\ OutputInv

(* Halves alternate, and go on alternating from any of them. *)
LEMMA HalvesAlternate ==
  ASSUME NEW mid \in BOOLEAN, NEW n \in Nat
  PROVE  /\ HalfAt(mid, n) \in {1, 2}
         /\ HalfAt(mid, n) = 1 <=> HalfAt(mid, n + 1) = 2
         /\ HalfAt(FALSE, 1) = 1
         /\ \A i \in Nat : HalfAt(HalfAt(mid, n) = 1, i) = HalfAt(mid, n + i)
<1>1. /\ n % 2 \in {0, 1} /\ (n + 1) % 2 = 1 - (n % 2)
      /\ \A i \in Nat : i % 2 \in {0, 1} /\ (n + i) % 2 = IF n % 2 = i % 2 THEN 0 ELSE 1
  <2>1. n % 2 \in {0, 1} /\ (n + 1) % 2 = 1 - (n % 2)
    OBVIOUS
  <2>2. ASSUME NEW i \in Nat
        PROVE  i % 2 \in {0, 1} /\ (n + i) % 2 = IF n % 2 = i % 2 THEN 0 ELSE 1
    OBVIOUS
  <2> QED BY <2>1, <2>2
<1>2. CASE mid = TRUE
  <2>1. HalfAt(mid, n) = IF n % 2 = 1 THEN 2 ELSE 1
    BY <1>2 DEF HalfAt
  <2>2. \A i \in Nat : HalfAt(mid, n + i) = IF (n + i) % 2 = 1 THEN 2 ELSE 1
    BY <1>2 DEF HalfAt
  <2>3. CASE n % 2 = 1
    <3>1. \A i \in Nat : HalfAt(HalfAt(mid, n) = 1, i) = IF i % 2 = 1 THEN 1 ELSE 2
      BY <2>1, <2>3 DEF HalfAt
    <3> QED BY <1>1, <2>1, <2>2, <2>3, <3>1 DEF HalfAt
  <2>4. CASE n % 2 = 0
    <3>1. \A i \in Nat : HalfAt(HalfAt(mid, n) = 1, i) = IF i % 2 = 1 THEN 2 ELSE 1
      BY <2>1, <2>4 DEF HalfAt
    <3> QED BY <1>1, <2>1, <2>2, <2>4, <3>1 DEF HalfAt
  <2> QED BY <1>1, <2>3, <2>4
<1>3. CASE mid = FALSE
  <2>1. HalfAt(mid, n) = IF n % 2 = 1 THEN 1 ELSE 2
    BY <1>3 DEF HalfAt
  <2>2. \A i \in Nat : HalfAt(mid, n + i) = IF (n + i) % 2 = 1 THEN 1 ELSE 2
    BY <1>3 DEF HalfAt
  <2>3. CASE n % 2 = 1
    <3>1. \A i \in Nat : HalfAt(HalfAt(mid, n) = 1, i) = IF i % 2 = 1 THEN 2 ELSE 1
      BY <2>1, <2>3 DEF HalfAt
    <3> QED BY <1>1, <2>1, <2>2, <2>3, <3>1 DEF HalfAt
  <2>4. CASE n % 2 = 0
    <3>1. \A i \in Nat : HalfAt(HalfAt(mid, n) = 1, i) = IF i % 2 = 1 THEN 1 ELSE 2
      BY <2>1, <2>4 DEF HalfAt
    <3> QED BY <1>1, <2>1, <2>2, <2>4, <3>1 DEF HalfAt
  <2> QED BY <1>1, <2>3, <2>4
<1> QED BY <1>2, <1>3

(* A packet that fits leaves a whole buffer whole. *)
LEMMA WholeAndPacket ==
  ASSUME NEW mid \in BOOLEAN, NEW q \in Seq(HalfPackets), Whole(q, mid),
         NEW c \in Sockets, Len(q) + 2 <= MaxSendBuffer
  PROVE  q \o Halves(c) \in Seq(HalfPackets) /\ Whole(q \o Halves(c), mid)
<1> DEFINE h == Halves(c)
           r == q \o h
<1>1. /\ h \in Seq(HalfPackets) /\ Len(h) = 2 /\ h[1].half = 1 /\ h[2].half = 2
  BY DEF Halves, HalfPackets
<1> HIDE DEF h
<1>2. /\ r \in Seq(HalfPackets) /\ Len(r) = Len(q) + 2
      /\ \A i \in 1..(Len(q) + 2) : r[i] = IF i <= Len(q) THEN q[i] ELSE h[i - Len(q)]
  <2>1. /\ q \o h \in Seq(HalfPackets)
        /\ Len(q \o h) = Len(q) + Len(h)
        /\ \A i \in 1..(Len(q) + Len(h)) : (q \o h)[i] = IF i <= Len(q) THEN q[i] ELSE h[i - Len(q)]
    BY <1>1, ConcatProperties
  <2> QED BY <1>1, <2>1
<1> HIDE DEF r
<1>3. PICK n \in Nat : n = Len(q)
  OBVIOUS
<1>4. HalfAt(mid, n + 1) = 1 /\ HalfAt(mid, n + 2) = 2 /\ HalfAt(mid, n + 3) = 1
  <2>1. \A m \in Nat : /\ HalfAt(mid, m) \in {1, 2}
                       /\ HalfAt(mid, m) = 1 <=> HalfAt(mid, m + 1) = 2
    BY HalvesAlternate
  <2>2. HalfAt(mid, n + 1) = 1
    BY <1>3 DEF Whole
  <2>3. \A m \in Nat : m = n + 1 => m + 1 = n + 2
    OBVIOUS
  <2>4. \A m \in Nat : m = n + 2 => m + 1 = n + 3
    OBVIOUS
  <2>5. n + 1 \in Nat /\ n + 2 \in Nat /\ n + 3 \in Nat
    OBVIOUS
  <2>6. HalfAt(mid, n + 2) = 2
    BY <2>1, <2>2, <2>3, <2>5
  <2> QED BY <2>1, <2>2, <2>4, <2>5, <2>6
<1>5. ASSUME NEW i \in 1..(n + 2) PROVE r[i].half = HalfAt(mid, i)
  <2>1. CASE i \in 1..n
    BY <1>2, <1>3, <2>1 DEF Whole
  <2>2. CASE i = n + 1
    <3>1. i - n = 1 /\ ~(i <= n)
      BY <2>2
    <3> QED BY <1>1, <1>2, <1>3, <1>4, <2>2, <3>1
  <2>3. CASE i = n + 2
    <3>1. i - n = 2 /\ ~(i <= n)
      BY <2>3
    <3> QED BY <1>1, <1>2, <1>3, <1>4, <2>3, <3>1
  <2> QED BY <2>1, <2>2, <2>3
<1>6. Whole(r, mid)
  <2>1. Len(r) = n + 2 /\ n + 2 + 1 = n + 3
    BY <1>2, <1>3
  <2> QED BY <1>3, <1>4, <1>5, <2>1 DEF Whole
<1> QED BY <1>2, <1>6 DEF h, r

(* What send leaves of a whole buffer goes on where the client is then. *)
LEMMA WholeAndSent ==
  ASSUME NEW mid \in BOOLEAN, NEW q \in Seq(HalfPackets), Whole(q, mid), NEW n \in 1..Len(q)
  PROVE  /\ SubSeq(q, n + 1, Len(q)) \in Seq(HalfPackets)
         /\ Whole(SubSeq(q, n + 1, Len(q)), q[n].half = 1)
<1> DEFINE r == SubSeq(q, n + 1, Len(q))
           was == HalfAt(mid, n) = 1
<1>1. PICK l \in Nat : l = Len(q) /\ n <= l /\ n \in Nat
  OBVIOUS
<1>2. /\ r \in Seq(HalfPackets) /\ Len(r) = l - n
      /\ \A i \in 1..(l - n) : r[i] = q[n + i]
  <2>1. \A i \in (n + 1)..Len(q) : q[i] \in HalfPackets
    OBVIOUS
  <2>2. n + 1 \in Int /\ Len(q) \in Int
    OBVIOUS
  <2> HIDE DEF r
  <2>3. /\ SubSeq(q, n + 1, Len(q)) \in Seq(HalfPackets)
        /\ Len(SubSeq(q, n + 1, Len(q))) = IF n + 1 <= Len(q) THEN Len(q) - (n + 1) + 1 ELSE 0
        /\ \A i \in 1 .. Len(q) - (n + 1) + 1 : SubSeq(q, n + 1, Len(q))[i] = q[(n + 1) + i - 1]
    BY <2>1, <2>2, SubSeqProperties
  <2> QED BY <1>1, <2>3 DEF r
<1> HIDE DEF r
<1>3. (q[n].half = 1) = was
  BY DEF Whole
<1> HIDE DEF was
<1>4. \A i \in Nat : HalfAt(was, i) = HalfAt(mid, n + i)
  BY <1>1, HalvesAlternate DEF was
<1>5. ASSUME NEW i \in 1..(l - n) PROVE r[i].half = HalfAt(was, i)
  <2>1. n + i \in 1..l /\ i \in Nat
    BY <1>1
  <2> QED BY <1>1, <1>2, <1>4, <2>1 DEF Whole
<1>6. HalfAt(was, l - n + 1) = 1
  <2>1. l - n + 1 \in Nat /\ n + (l - n + 1) = l + 1
    BY <1>1
  <2>2. HalfAt(mid, l + 1) = 1
    BY <1>1 DEF Whole
  <2> QED BY <1>4, <2>1, <2>2
<1>7. l - n <= MaxSendBuffer
  BY <1>1, NetworkAssumption DEF Whole
<1>8. Whole(r, was)
  BY <1>1, <1>2, <1>5, <1>6, <1>7 DEF Whole
<1> QED BY <1>2, <1>3, <1>8 DEF r

(* An empty buffer is whole for a client that is not in the middle. *)
LEMMA WholeAndEmpty == Whole(<<>>, FALSE)
<1>1. Len(<<>>) = 0
  OBVIOUS
<1> QED BY <1>1, NetworkAssumption, HalvesAlternate DEF Whole, HalfAt

(* Nothing that OutputInv speaks of changes. *)
LEMMA OutputStays ==
  ASSUME OutputInv, UNCHANGED <<midPacket, sendBuf, sock>>
  PROVE  OutputInv'
<1>1. \A s : MidAt(s)' = MidAt(s)
  BY DEF MidAt, IsConnected
<1> QED BY <1>1 DEF OutputInv, MidPacketsConnected

(* All buffers hold whole packets for their clients. *)
BuffersWhole(bufs) ==
  /\ bufs \in [Sessions -> Seq(HalfPackets)]
  /\ \A s \in Sessions : Whole(bufs[s], MidAt(s))

(* SendData puts whole packets into the buffers they fit in. *)
LEMMA SendDataKeeps ==
  ASSUME NEW bufs, BuffersWhole(bufs),
         NEW recipients, NEW client \in [Sessions -> Sockets]
  PROVE  BuffersWhole(SendData(bufs, recipients, client))
<1> DEFINE after == SendData(bufs, recipients, client)
<1>1. ASSUME NEW s \in Sessions
      PROVE  after[s] \in Seq(HalfPackets) /\ Whole(after[s], MidAt(s))
  <2>1. PICK q \in Seq(HalfPackets) : q = bufs[s]
    BY DEF BuffersWhole
  <2>2. PICK mid \in BOOLEAN : mid = MidAt(s)
    BY DEF MidAt, IsConnected
  <2>3. Whole(q, mid)
    BY <2>1, <2>2 DEF BuffersWhole
  <2>4. \/ after[s] = q
        \/ after[s] = q \o Halves(client[s]) /\ Len(q) + 2 <= MaxSendBuffer
    BY <2>1 DEF SendData
  <2> HIDE DEF after
  <2>5. CASE after[s] = q
    BY <2>1, <2>2, <2>3, <2>5
  <2>6. CASE after[s] = q \o Halves(client[s]) /\ Len(q) + 2 <= MaxSendBuffer
    <3>1. client[s] \in Sockets
      OBVIOUS
    <3>2. q \o Halves(client[s]) \in Seq(HalfPackets) /\ Whole(q \o Halves(client[s]), mid)
      BY <2>3, <2>6, <3>1, WholeAndPacket
    <3> QED BY <2>2, <2>6, <3>2
  <2> QED BY <2>4, <2>5, <2>6
<1>2. after = [s \in Sessions |-> after[s]]
  BY DEF SendData
<1> HIDE DEF after
<1>3. after \in [Sessions -> Seq(HalfPackets)]
  BY <1>1, <1>2
<1>4. BuffersWhole(after)
  BY <1>1, <1>3 DEF BuffersWhole
<1> QED BY <1>4 DEF after

(* What the logic sends keeps the rest of OutputInv. *)
LEMMA BuffersStayWhole ==
  ASSUME OutputInv, UNCHANGED <<midPacket, sock>>, BuffersWhole(sendBuf')
  PROVE  OutputInv'
<1>1. \A s : MidAt(s)' = MidAt(s)
  BY DEF MidAt, IsConnected
<1> QED BY <1>1 DEF OutputInv, MidPacketsConnected, BuffersWhole

(* CloseSession empties the buffer, and its client is gone. *)
LEMMA CloseSessionKeeps ==
  ASSUME LoopInv, OutputInv, NEW s \in Sessions, IsConnected(s), CloseSession(s)
  PROVE  OutputInv'
<1>1. /\ midPacket' = [midPacket EXCEPT ![sock[s]] = FALSE]
      /\ sock' = [sock EXCEPT ![s] = NoSocket]
      /\ sendBuf' = [sendBuf EXCEPT ![s] = <<>>]
  BY DEF CloseSession, ConnectionEnds, ReleaseSessionIndex, ClearSession
<1>2. /\ sock \in [Sessions -> Sockets]
      /\ \A t \in Sessions : t # s /\ IsConnected(t) => sock[t] # sock[s]
  BY DEF LoopInv, DataInv, DataTypes, SessionPoolConsistent
<1>3. /\ midPacket \in [Connections -> BOOLEAN]
      /\ sendBuf \in [Sessions -> Seq(HalfPackets)]
      /\ MidPacketsConnected
  BY DEF OutputInv
<1>4. ASSUME NEW t \in Sessions \ {s} PROVE MidAt(t)' = MidAt(t) /\ sendBuf'[t] = sendBuf[t]
  <2>1. sock'[t] = sock[t] /\ sendBuf'[t] = sendBuf[t]
    BY <1>1, <1>2, <1>3
  <2>2. CASE IsConnected(t)
    <3>1. sock[t] \in Connections
      BY <1>2, <2>2 DEF IsConnected, Sockets, BadSocket, NoSocket
    <3>2. midPacket'[sock[t]] = midPacket[sock[t]]
      BY <1>1, <1>2, <1>3, <2>2, <3>1
    <3> QED BY <2>1, <3>2 DEF MidAt, IsConnected
  <2>3. CASE ~IsConnected(t)
    BY <2>1, <2>3 DEF MidAt, IsConnected
  <2> QED BY <2>2, <2>3
<1>5. MidAt(s)' = FALSE /\ sendBuf'[s] = <<>>
  BY <1>1, <1>2, <1>3, SocketValues DEF MidAt, IsConnected, NoSocket
<1>6. \A t \in Sessions : Whole(sendBuf'[t], MidAt(t)')
  <2>1. Whole(sendBuf'[s], MidAt(s)')
    BY <1>5, WholeAndEmpty
  <2>2. \A t \in Sessions \ {s} : Whole(sendBuf'[t], MidAt(t)')
    BY <1>4 DEF OutputInv
  <2> QED BY <2>1, <2>2
<1>7. midPacket' \in [Connections -> BOOLEAN] /\ sendBuf' \in [Sessions -> Seq(HalfPackets)]
  <2>1. midPacket' \in [Connections -> BOOLEAN]
    BY <1>1, <1>3
  <2>2. <<>> \in Seq(HalfPackets)
    BY EmptySeq
  <2>3. \A t \in Sessions : sendBuf'[t] \in Seq(HalfPackets)
    BY <1>3, <1>4, <1>5, <2>2
  <2>4. sendBuf' = [t \in Sessions |-> sendBuf'[t]]
    BY <1>1, <1>3
  <2> QED BY <2>1, <2>3, <2>4
<1>8. MidPacketsConnected'
  <2> SUFFICES ASSUME NEW c \in Connections, midPacket'[c]
               PROVE  \E t \in Sessions : sock'[t] = c
    BY DEF MidPacketsConnected
  <2>1. c # sock[s] /\ midPacket[c]
    BY <1>1, <1>3
  <2>2. PICK t \in Sessions : sock[t] = c
    BY <1>3, <2>1 DEF MidPacketsConnected
  <2> QED BY <1>1, <1>2, <2>1, <2>2
<1> QED BY <1>6, <1>7, <1>8 DEF OutputInv

(* The next client to be accepted has received nothing; a slot whose buffer   *)
(* was filled while it was free gives it whole packets nonetheless.           *)
LEMMA NewSessionKeepsBuffers ==
  ASSUME LoopInv, OutputInv, phase = "accept", NewSession(accepted + 1) \/ NewSession(BadSocket)
  PROVE  OutputInv'
<1>1. PICK fd : NewSession(fd) /\ fd \in {accepted + 1, BadSocket}
  OBVIOUS
<1>2. /\ sock \in [Sessions -> Sockets] /\ freeSessions \in Seq(Sessions)
      /\ SessionPoolConsistent /\ SocketsAccepted
      /\ accepted \in Nat /\ accepted + 1 \in Connections
  BY NetworkAssumption
  DEF LoopInv, DataInv, DataTypes, ThreadInv, PhaseFacts, Connections
<1>3. /\ midPacket \in [Connections -> BOOLEAN]
      /\ sendBuf \in [Sessions -> Seq(HalfPackets)]
      /\ MidPacketsConnected
  BY DEF OutputInv
<1>4. sendBuf' = sendBuf
  BY <1>1 DEF NewSession
<1>5. midPacket[accepted + 1] = FALSE
  <2> SUFFICES ASSUME midPacket[accepted + 1] PROVE FALSE
    BY <1>2, <1>3
  <2>1. PICK s \in Sessions : sock[s] = accepted + 1
    BY <1>2, <1>3 DEF MidPacketsConnected
  <2>2. sock[s] <= accepted
    BY <1>2 DEF SocketsAccepted
  <2> QED BY <1>2, <2>1, <2>2
<1>6. CASE freeSessions = <<>>
  <2>1. sock' = sock /\ midPacket' = [midPacket EXCEPT ![accepted + 1] = FALSE]
    BY <1>1, <1>6 DEF NewSession, ConnectionEnds, slotVars
  <2>2. midPacket' = midPacket
    BY <1>2, <1>3, <1>5, <2>1
  <2> QED BY <1>4, <2>1, <2>2, OutputStays
<1>7. CASE freeSessions # <<>>
  <2>1. PICK h \in Sessions : h = Head(freeSessions) /\ h = freeSessions[1] /\ 1 \in DOMAIN freeSessions
    BY <1>2, <1>7
  <2>2. sock' = [sock EXCEPT ![h] = fd] /\ midPacket' = midPacket
    BY <1>1, <1>7, <2>1 DEF NewSession, ConnectedSession
  <2>3. sock[h] = NoSocket
    BY <1>2, <2>1 DEF SessionPoolConsistent
  <2>4. MidAt(h) = FALSE
    BY <2>3, SocketValues DEF MidAt, IsConnected, NoSocket
  <2>5. MidAt(h)' = FALSE
    <3>1. sock'[h] = fd
      BY <1>2, <2>2
    <3>2. CASE fd = accepted + 1
      BY <1>5, <2>2, <3>1, <3>2 DEF MidAt
    <3>3. CASE fd = BadSocket
      BY <3>1, <3>3 DEF MidAt, IsConnected, BadSocket, NoSocket
    <3> QED BY <1>1, <3>2, <3>3
  <2>6. ASSUME NEW t \in Sessions PROVE MidAt(t)' = MidAt(t)
    <3>1. CASE t = h
      BY <2>4, <2>5, <3>1
    <3>2. CASE t # h
      BY <1>2, <2>2, <3>2 DEF MidAt, IsConnected
    <3> QED BY <3>1, <3>2
  <2>7. MidPacketsConnected'
    <3> SUFFICES ASSUME NEW c \in Connections, midPacket[c]
                 PROVE  \E t \in Sessions : sock'[t] = c
      BY <2>2 DEF MidPacketsConnected
    <3>1. PICK t \in Sessions : sock[t] = c
      BY <1>3 DEF MidPacketsConnected
    <3>2. t # h
      BY <2>3, <3>1, SocketValues DEF NoSocket
    <3> QED BY <1>2, <2>2, <3>1, <3>2
  <2> QED BY <1>4, <2>2, <2>6, <2>7 DEF OutputInv
<1> QED BY <1>6, <1>7

(* send takes a part of the buffer; the client is where the rest begins. *)
LEMMA FlushSendBuffKeeps ==
  ASSUME LoopInv, OutputInv, phase = "write", UNCHANGED sock, NEW s \in Sessions, s = cursor,
         NEW n \in 1..Len(sendBuf[cursor]), FlushSendBuff(n)
  PROVE  OutputInv'
<1>1. /\ sendBuf' = [sendBuf EXCEPT ![s] = SubSeq(@, n + 1, Len(@))]
      /\ midPacket' = [midPacket EXCEPT ![sock[s]] = (sendBuf[s][n].half = 1)]
  BY DEF FlushSendBuff
<1>2. /\ sock \in [Sessions -> Sockets] /\ s \in Sessions /\ IsConnected(s)
      /\ \A t \in Sessions : t # s /\ IsConnected(t) => sock[t] # sock[s]
  BY DEF LoopInv, DataInv, DataTypes, SessionPoolConsistent, ThreadInv, ThreadTypes, PhaseFacts
<1>3. /\ midPacket \in [Connections -> BOOLEAN]
      /\ sendBuf \in [Sessions -> Seq(HalfPackets)]
      /\ MidPacketsConnected
  BY DEF OutputInv
<1>4. sock[s] \in Connections
  BY <1>2 DEF IsConnected, Sockets, BadSocket, NoSocket
<1>5. ASSUME NEW t \in Sessions \ {s} PROVE MidAt(t)' = MidAt(t) /\ sendBuf'[t] = sendBuf[t]
  <2>1. sock'[t] = sock[t] /\ sendBuf'[t] = sendBuf[t]
    BY <1>1, <1>2, <1>3
  <2>2. CASE IsConnected(t)
    <3>1. sock[t] \in Connections
      BY <1>2, <2>2 DEF IsConnected, Sockets, BadSocket, NoSocket
    <3>2. midPacket'[sock[t]] = midPacket[sock[t]]
      BY <1>1, <1>2, <1>3, <2>2, <3>1
    <3> QED BY <2>1, <3>2 DEF MidAt, IsConnected
  <2>3. CASE ~IsConnected(t)
    BY <2>1, <2>3 DEF MidAt, IsConnected
  <2> QED BY <2>2, <2>3
<1>6. PICK q \in Seq(HalfPackets) : q = sendBuf[s]
  BY <1>2, <1>3
<1>7. PICK mid \in BOOLEAN : mid = MidAt(s)
  BY <1>2, <1>3, <1>4 DEF MidAt, IsConnected
<1>8. Whole(q, mid)
  BY <1>2, <1>6, <1>7 DEF OutputInv
<1>9. SubSeq(q, n + 1, Len(q)) \in Seq(HalfPackets) /\ Whole(SubSeq(q, n + 1, Len(q)), q[n].half = 1)
  BY <1>6, <1>8, WholeAndSent
<1>10. sendBuf'[s] = SubSeq(q, n + 1, Len(q)) /\ MidAt(s)' = (q[n].half = 1)
  <2>1. sendBuf'[s] = SubSeq(q, n + 1, Len(q))
    BY <1>1, <1>2, <1>3, <1>6
  <2>2. midPacket'[sock[s]] = (q[n].half = 1)
    BY <1>1, <1>3, <1>4, <1>6
  <2>3. MidAt(s)' = (q[n].half = 1)
    BY <1>2, <2>2 DEF MidAt, IsConnected
  <2> QED BY <2>1, <2>3
<1>11. \A t \in Sessions : Whole(sendBuf'[t], MidAt(t)')
  <2>1. Whole(sendBuf'[s], MidAt(s)')
    BY <1>9, <1>10
  <2>2. \A t \in Sessions \ {s} : Whole(sendBuf'[t], MidAt(t)')
    BY <1>5 DEF OutputInv
  <2> QED BY <2>1, <2>2
<1>12. midPacket' \in [Connections -> BOOLEAN] /\ sendBuf' \in [Sessions -> Seq(HalfPackets)]
  BY <1>1, <1>3, <1>6, <1>9
<1>13. MidPacketsConnected'
  <2> SUFFICES ASSUME NEW c \in Connections, midPacket'[c]
               PROVE  \E t \in Sessions : sock[t] = c
    BY DEF MidPacketsConnected
  <2>1. CASE c = sock[s]
    BY <2>1
  <2>2. CASE c # sock[s]
    BY <1>1, <1>3, <2>2 DEF MidPacketsConnected
  <2> QED BY <2>1, <2>2
<1> QED BY <1>11, <1>12, <1>13 DEF OutputInv

(* What Init, the network and the logic do to the requests that are under way. *)
LEMMA InputKeeps ==
  ASSUME LoopInv, InputTypes, [Next]_serverVars
  PROVE  InputTypes'
<1>1. /\ requests \in 0..MaxRequests /\ inbox \in [Connections -> Nat] /\ running \in BOOLEAN
      /\ \A c \in Connections : inbox[c] <= requests
  BY DEF InputTypes
<1>2. ASSUME NEW c \in Connections, NEW i \in Nat, i <= inbox[c],
             inbox' = [inbox EXCEPT ![c] = i], UNCHANGED <<requests, running>>
      PROVE  InputTypes'
  <2>1. inbox' \in [Connections -> Nat] /\ \A d \in Connections : inbox'[d] = IF d = c THEN i ELSE inbox[d]
    BY <1>1, <1>2
  <2>2. \A d \in Connections : inbox'[d] <= requests
    BY <1>1, <1>2, <2>1
  <2> QED BY <1>1, <1>2, <2>1, <2>2 DEF InputTypes
<1>3. ASSUME UNCHANGED <<requests, running, inbox>> PROVE InputTypes'
  BY <1>3 DEF InputTypes
<1>4. ASSUME NEW s \in Sessions, IsConnected(s), CloseSession(s), UNCHANGED <<requests, running>>
      PROVE  InputTypes'
  <2>1. sock[s] \in Connections /\ inbox' = [inbox EXCEPT ![sock[s]] = 0]
    <3>1. sock[s] \in Sockets
      BY DEF LoopInv, DataInv, DataTypes
    <3>2. sock[s] \in Connections
      BY <1>4, <3>1 DEF IsConnected, Sockets, BadSocket, NoSocket
    <3> QED BY <1>4, <3>2 DEF CloseSession, ConnectionEnds
  <2>2. 0 <= inbox[sock[s]]
    BY <1>1, <2>1
  <2> QED BY <1>2, <1>4, <2>1, <2>2
<1>5. /\ cursor \in Sessions /\ sock \in [Sessions -> Sockets]
      /\ phase \in {"frame", "write"} => IsConnected(cursor)
      /\ phase = "accept" => accepted + 1 \in Connections
  BY NetworkAssumption
  DEF LoopInv, DataInv, DataTypes, ThreadInv, ThreadTypes, PhaseFacts, Connections
<1>6. ASSUME NetworkRun, UNCHANGED running PROVE InputTypes'
  <2>1. CASE SelectReturns \/ SelectFails \/ SkipClient \/ NothingToReceive \/ RecvBufferProcessEnds \/ NothingToSend
    BY <1>3, <1>6, <2>1
    DEF SelectReturns, SelectFails, SkipClient, NothingToReceive, RecvBufferProcessEnds, NothingToSend,
        dataVars, clientVars
  <2>2. CASE AddPacketQueue \/ RunProcessWrite
    BY <1>3, <1>6, <2>2 DEF AddPacketQueue, RunProcessWrite, clientVars
  <2>3. ASSUME NEW fd, NewSession(fd) PROVE InputTypes'
    <3>1. requests' = requests /\ phase = "accept"
      BY <2>3 DEF NewSession
    <3>2. inbox' = inbox \/ inbox' = [inbox EXCEPT ![accepted + 1] = 0]
      BY <2>3 DEF NewSession, ConnectionEnds
    <3>3. 0 <= inbox[accepted + 1]
      BY <1>1, <1>5, <3>1
    <3> QED BY <1>2, <1>3, <1>5, <1>6, <3>1, <3>2, <3>3
  <2>4. CASE RecvSocket
    <3>1. IsConnected(cursor) /\ UNCHANGED requests
      BY <2>4 DEF RecvSocket
    <3>2. PICK c \in Connections : c = sock[cursor]
      BY <1>5, <3>1 DEF IsConnected, Sockets, BadSocket, NoSocket
    <3>3. PICK n \in 1..inbox[c] : inbox' = [inbox EXCEPT ![c] = inbox[c] - n]
      BY <2>4, <3>2 DEF RecvSocket
    <3>4. inbox[c] - n \in Nat /\ inbox[c] - n <= inbox[c]
      BY <1>1, <3>2, <3>3
    <3> QED BY <1>2, <1>6, <3>1, <3>3, <3>4
  <2>5. CASE RecvSocketFails \/ RecvBufferProcessFails \/ SendSocketFails
    BY <1>4, <1>5, <1>6, <2>5 DEF RecvSocketFails, RecvBufferProcessFails, SendSocketFails
  <2> QED BY <1>6, <2>1, <2>2, <2>3, <2>4, <2>5 DEF NetworkRun, Accept, AcceptFails
<1>7. CASE Server
  <2>1. CASE NetworkRun
    BY <1>6, <1>7, <2>1 DEF Server
  <2>2. CASE HandlePacket \/ QueueIsEmpty \/ CheckPasses
    BY <1>3, <1>7, <2>2 DEF HandlePacket, QueueIsEmpty, CheckPasses, Server, dataVars, clientVars
  <2>3. CASE LoginWaitOver
    <3>1. ForcingClose(cursor) /\ UNCHANGED running
      BY <1>7, <2>3 DEF LoginWaitOver, Server
    <3>2. CASE IsConnected(cursor)
      BY <1>4, <1>5, <3>1, <3>2 DEF ForcingClose
    <3>3. CASE ~IsConnected(cursor)
      BY <1>3, <3>1, <3>3 DEF ForcingClose, clientVars
    <3> QED BY <3>2, <3>3
  <2> QED BY <1>7, <2>1, <2>2, <2>3 DEF Server
<1>8. CASE Stop
  BY <1>1, <1>8 DEF Stop, netVars, InputTypes
<1>9. CASE Clients
  <2>1. CASE ClientConnects \/ \E c \in Connections : ClientCloses(c)
    BY <1>3, <1>9, <2>1 DEF Clients, ClientConnects, ClientCloses
  <2>2. ASSUME NEW c \in Connections, ClientSends(c) PROVE InputTypes'
    <3>1. requests < MaxRequests /\ requests' = requests + 1 /\ inbox' = [inbox EXCEPT ![c] = inbox[c] + 1]
      BY <2>2 DEF ClientSends
    <3>2. /\ inbox' \in [Connections -> Nat]
          /\ \A d \in Connections : inbox'[d] = IF d = c THEN inbox[c] + 1 ELSE inbox[d]
      BY <1>1, <3>1
    <3>3. requests' \in 0..MaxRequests /\ \A d \in Connections : inbox'[d] <= requests'
      BY <1>1, <3>1, <3>2, NetworkAssumption
    <3> QED BY <1>1, <1>9, <3>2, <3>3 DEF InputTypes, Clients
  <2> QED BY <1>9, <2>1, <2>2 DEF Clients
<1>10. CASE UNCHANGED serverVars
  BY <1>3, <1>10 DEF serverVars, netVars
<1> QED BY <1>7, <1>8, <1>9, <1>10 DEF Next

(* Every step keeps the buffers whole. *)
LEMMA OutputKeeps ==
  ASSUME LoopInv, OutputInv, [Next]_serverVars
  PROVE  OutputInv'
<1>1. cursor \in Sessions /\ (phase \in {"frame", "write"} => IsConnected(cursor))
  BY DEF LoopInv, ThreadInv, ThreadTypes, PhaseFacts
<1>2. party \in [Sessions -> Sockets] /\ packetQueue \in Seq(Packets)
  BY DEF LoopInv, DataInv, DataTypes
<1>3. ASSUME IsConnected(cursor), CloseSession(cursor) PROVE OutputInv'
  BY <1>1, <1>3, CloseSessionKeeps
<1>4. CASE SelectReturns \/ SelectFails \/ SkipClient \/ NothingToReceive \/ RecvBufferProcessEnds
           \/ NothingToSend \/ QueueIsEmpty
  BY <1>4, OutputStays
  DEF SelectReturns, SelectFails, SkipClient, NothingToReceive, RecvBufferProcessEnds, NothingToSend,
      QueueIsEmpty, dataVars, slotVars
<1>5. CASE RecvSocket \/ AddPacketQueue \/ CheckPasses \/ Stop \/ Clients \/ UNCHANGED serverVars
  BY <1>5, OutputStays
  DEF RecvSocket, AddPacketQueue, CheckPasses, Stop, Clients, ClientConnects, ClientSends, ClientCloses,
      serverVars, netVars, slotVars
<1>6. CASE Accept \/ AcceptFails
  <2>1. phase = "accept" /\ (NewSession(accepted + 1) \/ NewSession(BadSocket))
    BY <1>6 DEF Accept, AcceptFails, NewSession
  <2> QED BY <2>1, NewSessionKeepsBuffers
<1>7. CASE RecvSocketFails \/ RecvBufferProcessFails \/ SendSocketFails
  BY <1>1, <1>3, <1>7 DEF RecvSocketFails, RecvBufferProcessFails, SendSocketFails
<1>8. CASE RunProcessWrite
  <2>1. PICK s \in Sessions : s = cursor
    BY <1>1
  <2>2. /\ phase = "write" /\ UNCHANGED sock
        /\ \E n \in 1..Len(sendBuf[cursor]) : FlushSendBuff(n)
    BY <1>8 DEF RunProcessWrite, slotVars
  <2> QED BY <2>1, <2>2, FlushSendBuffKeeps
<1>9. CASE LoginWaitOver
  <2>1. CASE IsConnected(cursor)
    BY <1>3, <1>9, <2>1 DEF LoginWaitOver, ForcingClose
  <2>2. CASE ~IsConnected(cursor)
    BY <1>9, <2>2, OutputStays DEF LoginWaitOver, ForcingClose, slotVars
  <2> QED BY <2>1, <2>2
<1>10. CASE HandlePacket
  <2>1. UNCHANGED <<midPacket, sock>>
    BY <1>10 DEF HandlePacket, slotVars
  <2>2. BuffersWhole(sendBuf)
    BY DEF OutputInv, BuffersWhole
  <2>3. \A bufs, recipients : BuffersWhole(bufs) => BuffersWhole(Sends(bufs, recipients))
    BY <1>2, SendDataKeeps DEF Sends
  <2>4. PICK p : Process(p)
    BY <1>10 DEF HandlePacket
  <2>5. CASE NtfSysConnctSession(p.session, p.conn)
    BY <2>1, <2>5, OutputStays DEF NtfSysConnctSession
  <2>6. CASE NtfSysCloseSession(p.session)
    <3>1. PICK first, second : sendBuf' = Sends(Sends(sendBuf, first), second)
      BY <2>6 DEF NtfSysCloseSession
    <3>2. BuffersWhole(sendBuf')
      BY <2>2, <2>3, <3>1
    <3> QED BY <2>1, <3>2, BuffersStayWhole
  <2>7. CASE Login(p.session)
    <3>1. sendBuf' = Sends(sendBuf, {p.session})
      BY <2>7 DEF Login
    <3>2. BuffersWhole(sendBuf')
      BY <2>2, <2>3, <3>1
    <3> QED BY <2>1, <3>2, BuffersStayWhole
  <2>8. CASE LobbyOrRoomRequest(p.session)
    <3>1. PICK first, second, third, answered :
            sendBuf' = Sends(Sends(Sends(Sends(sendBuf, first), second), third), answered)
      BY <2>8 DEF LobbyOrRoomRequest
    <3>2. BuffersWhole(Sends(Sends(Sends(sendBuf, first), second), third))
      BY <2>2, <2>3
    <3>3. BuffersWhole(sendBuf')
      BY <2>3, <3>1, <3>2
    <3> QED BY <2>1, <3>3, BuffersStayWhole
  <2> QED BY <2>4, <2>5, <2>6, <2>7, <2>8 DEF Process, Request
<1> QED
  BY <1>4, <1>5, <1>6, <1>7, <1>8, <1>9, <1>10 DEF Next, Server, NetworkRun

(* At first no client is connected and no buffer filled. *)
LEMMA InitBufferInv == Init => BufferInv
<1> SUFFICES ASSUME Init PROVE BufferInv
  OBVIOUS
<1>1. InputTypes
  BY NetworkAssumption DEF Init, NetInit, InputTypes
<1>2. /\ midPacket = [c \in Connections |-> FALSE]
      /\ sendBuf = [s \in Sessions |-> <<>>]
      /\ sock = [s \in Sessions |-> NoSocket]
  BY DEF Init, NetInit
<1>3. \A s \in Sessions : sendBuf[s] = <<>> /\ MidAt(s) = FALSE
  BY <1>2, SocketValues DEF MidAt, IsConnected, NoSocket
<1>4. \A s \in Sessions : Whole(sendBuf[s], MidAt(s))
  BY <1>3, WholeAndEmpty
<1>5. midPacket \in [Connections -> BOOLEAN] /\ sendBuf \in [Sessions -> Seq(HalfPackets)]
  BY <1>2
<1>6. MidPacketsConnected
  BY <1>2 DEF MidPacketsConnected
<1> QED BY <1>1, <1>4, <1>5, <1>6 DEF BufferInv, OutputInv

(* The inductive invariant of the buffers, on top of LoopInv. *)
THEOREM BufferInvariant == Spec => [](LoopInv /\ BufferInv)
<1>1. LoopInv /\ BufferInv /\ [Next]_serverVars => (LoopInv /\ BufferInv)'
  BY StepKeepsLoopInv, InputKeeps, OutputKeeps DEF BufferInv
<1> QED BY <1>1, InitLoopInv, InitBufferInv, PTL DEF Spec

(* The types of the network's and the main loop's variables. *)
THEOREM LoopTypesCorrect == Spec => []TypeOK
<1>1. LoopInv /\ BufferInv => TypeOK
  <2> SUFFICES ASSUME LoopInv, BufferInv PROVE TypeOK
    OBVIOUS
  <2>1. inbox \in [Connections -> 0..MaxRequests]
    <3>1. inbox \in [Connections -> Nat] /\ \A c \in Connections : inbox[c] \in 0..MaxRequests
      BY NetworkAssumption DEF BufferInv, InputTypes
    <3> QED BY <3>1
  <2> QED
    BY <2>1 DEF TypeOK, LoopInv, DataInv, DataTypes, ThreadInv, ThreadTypes, BufferInv, InputTypes,
                OutputInv, HalfPackets
<1> QED BY <1>1, BufferInvariant, PTL

(* Whatever part of a buffer each send of FlushSendBuff takes, and whatever   *)
(* SendData drops or a closed session leaves, clients receive whole packets.  *)
THEOREM PacketsStayWhole == Spec => []WholePackets
<1>1. LoopInv /\ BufferInv => WholePackets
  <2> SUFFICES ASSUME LoopInv, BufferInv PROVE WholePackets
    OBVIOUS
  <2>1. ASSUME NEW s \in Sessions
        PROVE  /\ DOMAIN sendBuf[s] = 1..Len(sendBuf[s])
               /\ \A i \in 1..Len(sendBuf[s]) : sendBuf[s][i].half = HalfAt(MidAt(s), i)
               /\ HalfAt(MidAt(s), Len(sendBuf[s]) + 1) = 1
               /\ Len(sendBuf[s]) <= MaxSendBuffer
    BY DEF BufferInv, OutputInv, Whole
  <2> QED BY <2>1 DEF WholePackets, HalfAt, MidAt
<1> QED BY <1>1, BufferInvariant, PTL
=============================================================================
