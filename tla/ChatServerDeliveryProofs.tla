----------------------- MODULE ChatServerDeliveryProofs -----------------------
(***************************************************************************)
(* Proofs about what the clients of the command server and its threads can *)
(* rely on, for any number of connections, SOCKET values and slots.        *)
(***************************************************************************)
EXTENDS ChatServerDelivery, ChatServerProofs, FiniteSetTheorems

\* The connection main works on has one socket, incoming, open or closed under
\* main, and it is the one in the slot main holds.
IncomingIsNewcomers ==
  /\ Placing => \A h \in Handles : peer[h] = newcomer => h = incoming
  /\ Placing => peer[incoming] \in {newcomer, NoClient}
  /\ \A i \in Slots : MainHolds(i) => client[i] = incoming

\* A connection that has not been accepted has no socket.
NoneBefore ==
  \A c \in Clients : conn[c] = "off" \/ c \in backlog => \A h \in Handles : peer[h] # c

\* The open socket of a thread's connection is in the slot of that thread, and
\* none is open once the thread has closed it twice.
Homed ==
  \A c \in Clients, h \in Handles :
    peer[h] = c /\ pc[c] # "none" => pc[c] \in SessionPC \ {"free"} /\ client[slot[c]] = h

SocketInv == IncomingIsNewcomers /\ NoneBefore /\ Homed

-------------------------------------------------------------------------------
(* What a step of a thread leaves alone. *)

LEMMA ThreadFrame ==
  ASSUME OwnerInv, NEW c \in Clients, ThreadStep(c)
  PROVE  /\ UNCHANGED <<slot, mainVars, conn, backlog, sent>>
         /\ ~terminated
         /\ \A d \in Clients \ {c} : pc'[d] = pc[d]
         /\ \A d \in Clients : pc'[d] = "none" <=> pc[d] = "none"
BY DEF ThreadStep, BroadcastJoin, BroadcastChat, BroadcastLeft, BroadcastStep, JoinEnd,
       LeftEnd, BroadcastEnd, CallRecv, RecvData, RecvEnd, WriteCommand, ChatEnd,
       CloseSocket, CloseSocketAgain, FreeSlot, Detach, GoTo,
       OwnerInv, TypeInv, TypeOK, ThreadTypeOK, netVars, inboxVars, mainVars

\* closesocket() takes a connection away from one SOCKET value.
LEMMA CloseEffect ==
  ASSUME peer \in [Handles -> Clients \cup {NoClient}], NEW s, Close(s)
  PROVE  \A h \in Handles : peer'[h] = IF h = s THEN NoClient ELSE peer[h]
BY DEF Close

\* The types the proofs below look at.
LEMMA SharedTypes ==
  ASSUME OwnerInv
  PROVE  /\ peer \in [Handles -> Clients \cup {NoClient}]
         /\ client \in [Slots -> Handles \cup {INVALID_SOCKET}]
         /\ my_thread \in [Slots -> Clients \cup {NoClient}]
         /\ pc \in [Clients -> ThreadPC] /\ slot \in [Clients -> Slots]
         /\ conn \in [Clients -> {"off", "open", "closed"}]
         /\ NoClient \notin Clients /\ INVALID_SOCKET \notin Handles
         /\ (Placing \/ mpc = "assign" => newcomer \in Clients /\ incoming \in Handles)
         /\ (mpc \in {"sendid", "welcome", "spawn", "assign"} => temp_id \in Slots)
BY ConstantsAssumption
DEF OwnerInv, TypeInv, TypeOK, SharedTypeOK, ThreadTypeOK, NetworkTypeOK, Engaged, Placing

-------------------------------------------------------------------------------
(* Whose socket is open, and in which slot. *)

LEMMA ClientSocket ==
  ASSUME OwnerInv, SocketInv, NEW c \in Clients, ClientStep(c)
  PROVE  SocketInv'
<1>1. /\ UNCHANGED <<peer, client, slot, pc, mpc, newcomer, incoming, temp_id>>
      /\ \A d \in Clients : conn'[d] = "off" \/ d \in backlog' => conn[d] = "off" \/ d \in backlog
  BY SharedTypes DEF ClientStep, Connect, ClientSend, Transmit, Drain, ClientClose,
     netVars, inboxVars, mainVars, threadVars
<1> QED
  BY <1>1 DEF SocketInv, IncomingIsNewcomers, NoneBefore, Homed, Placing, MainHolds

LEMMA AcceptSocket ==
  ASSUME OwnerInv, SocketInv, NEW c \in Clients, NEW h \in Handles, Accept(c, h)
  PROVE  SocketInv'
<1>1. /\ UNCHANGED <<conn, client, slot, pc>>
      /\ c \in backlog /\ peer[h] = NoClient /\ pc[c] = "none"
      /\ backlog' = backlog \ {c} /\ mpc' = "scan" /\ newcomer' = c /\ incoming' = h /\ temp_id' = -1
      /\ peer'[h] = c /\ \A g \in Handles \ {h} : peer'[g] = peer[g]
  BY SharedTypes DEF Accept, TakeConnection, FreeHandles, threadVars, OwnerInv, OneThread
<1>2. conn[c] # "off" /\ \A g \in Handles : peer[g] # c
  BY <1>1 DEF OwnerInv, OneThread, SocketInv, NoneBefore
<1>3. IncomingIsNewcomers'
  <2>1. \A i \in Slots : ~MainHolds(i)'
    BY <1>1, ConstantsAssumption DEF MainHolds, Slots
  <2> QED BY <1>1, <1>2, <2>1 DEF IncomingIsNewcomers
<1>4. NoneBefore'
  BY <1>1, <1>2 DEF SocketInv, NoneBefore
<1>5. Homed'
  BY <1>1 DEF SocketInv, Homed
<1> QED BY <1>3, <1>4, <1>5 DEF SocketInv

LEMMA MainSocket ==
  ASSUME OwnerInv, SocketInv, MainStep
  PROVE  SocketInv'
<1>1. UNCHANGED <<peer, conn, backlog>>
  BY DEF MainStep, Scan, ScanEnd, SendId, SendWelcome, Spawn, Assign, SendFull, inboxVars, netVars
<1>2. NoneBefore'
  BY <1>1 DEF SocketInv, NoneBefore
<1>3. CASE Scan
  <2>1. /\ scan \in Slots
        /\ UNCHANGED <<pc, slot, mpc, newcomer, incoming>> /\ mpc = "scan" /\ incoming \in Handles
    BY <1>3, SlotRange
    DEF Scan, threadVars, OwnerInv, TypeInv, TypeOK, MainTypeOK, Engaged
  <2>2. CASE client[scan] = INVALID_SOCKET /\ temp_id = -1
    <3>1. /\ temp_id' = scan /\ client'[scan] = incoming
          /\ \A i \in Slots \ {scan} : client'[i] = client[i]
      BY <1>3, <2>1, <2>2, SharedTypes DEF Scan
    <3>2. IncomingIsNewcomers'
      BY <1>1, <2>1, <3>1 DEF SocketInv, IncomingIsNewcomers, Placing, MainHolds
    <3>3. \A c \in Clients : InSession(c) => slot[c] \in Slots \ {scan}
      BY <2>2, SharedTypes DEF OwnerInv, OneOwner
    <3>4. Homed'
      BY <1>1, <2>1, <3>1, <3>3 DEF SocketInv, Homed, InSession
    <3> QED BY <1>2, <3>2, <3>4 DEF SocketInv
  <2>3. CASE ~(client[scan] = INVALID_SOCKET /\ temp_id = -1)
    <3>1. UNCHANGED <<client, temp_id>>
      BY <1>3, <2>3 DEF Scan
    <3> QED
      BY <1>1, <1>2, <2>1, <3>1
      DEF SocketInv, IncomingIsNewcomers, Homed, Placing, MainHolds
  <2> QED BY <2>2, <2>3
<1>4. CASE ScanEnd \/ SendId \/ SendWelcome
  <2>1. UNCHANGED <<client, slot, pc, temp_id, newcomer, incoming>>
    BY <1>4 DEF ScanEnd, SendId, SendWelcome, threadVars
  <2>2. (Placing' => Placing) /\ \A i \in Slots : MainHolds(i)' => MainHolds(i)
    BY <1>4, <2>1 DEF ScanEnd, SendId, SendWelcome, Placing, MainHolds
  <2> QED
    BY <1>1, <1>2, <2>1, <2>2 DEF SocketInv, IncomingIsNewcomers, Homed
<1>5. CASE Spawn
  <2>1. /\ UNCHANGED client /\ mpc' = "assign" /\ mpc = "spawn"
        /\ newcomer \in Clients /\ temp_id \in Slots
        /\ pc'[newcomer] = "join" /\ slot'[newcomer] = temp_id
        /\ \A d \in Clients \ {newcomer} : pc'[d] = pc[d] /\ slot'[d] = slot[d]
    BY <1>5, SharedTypes DEF Spawn, Placing
  <2>2. IncomingIsNewcomers'
    BY <2>1 DEF IncomingIsNewcomers, Placing, MainHolds
  <2>3. client[temp_id] = incoming /\ \A h \in Handles : peer[h] = newcomer => h = incoming
    BY <2>1 DEF SocketInv, IncomingIsNewcomers, Placing, MainHolds
  <2>4. Homed'
    <3> SUFFICES ASSUME NEW d \in Clients, NEW h \in Handles, peer[h] = d, pc'[d] # "none"
                 PROVE  pc'[d] \in SessionPC \ {"free"} /\ client[slot'[d]] = h
      BY <1>1, <2>1 DEF Homed
    <3>1. CASE d = newcomer
      BY <2>1, <2>3, <3>1 DEF SessionPC
    <3>2. CASE d # newcomer
      BY <2>1, <3>2 DEF SocketInv, Homed
    <3> QED BY <3>1, <3>2
  <2> QED BY <1>2, <2>2, <2>4 DEF SocketInv
<1>6. CASE Assign \/ SendFull
  <2>1. UNCHANGED <<client, slot, pc>>
    BY <1>6 DEF Assign, SendFull, threadVars
  <2>2. ~Placing' /\ \A i \in Slots : ~MainHolds(i)'
    BY <1>6 DEF Assign, SendFull, NextRound, Placing, MainHolds, mainVars
  <2> QED
    BY <1>1, <1>2, <2>1, <2>2 DEF SocketInv, IncomingIsNewcomers, Homed
<1> QED BY <1>3, <1>4, <1>5, <1>6 DEF MainStep

LEMMA ThreadSocket ==
  ASSUME OwnerInv, SocketInv, NEW c \in Clients, ThreadStep(c)
  PROVE  SocketInv'
<1>1. /\ UNCHANGED <<slot, mpc, newcomer, incoming, temp_id, conn, backlog>>
      /\ \A d \in Clients \ {c} : pc'[d] = pc[d]
      /\ pc'[c] # "none" /\ pc[c] # "none"
  <2>1. pc[c] # "none"
    BY DEF ThreadStep, BroadcastJoin, BroadcastChat, BroadcastLeft, BroadcastStep, JoinEnd,
       LeftEnd, BroadcastEnd, CallRecv, RecvData, RecvEnd, WriteCommand, ChatEnd,
       CloseSocket, CloseSocketAgain, FreeSlot, Detach, GoTo
  <2> QED BY <2>1, ThreadFrame DEF mainVars
<1>2. \A h \in Handles : peer'[h] \in {peer[h], NoClient}
  BY SharedTypes, CloseEffect
  DEF ThreadStep, BroadcastJoin, BroadcastChat, BroadcastLeft, BroadcastStep, JoinEnd,
      LeftEnd, BroadcastEnd, CallRecv, RecvData, RecvEnd, WriteCommand, ChatEnd,
      CloseSocket, CloseSocketAgain, FreeSlot, Detach, inboxVars
<1>3. NoneBefore'
  BY <1>1, <1>2, SharedTypes DEF SocketInv, NoneBefore
<1>4. CASE FreeSlot(c)
  <2>1. /\ pc[c] = "free" /\ UNCHANGED peer /\ InSession(c)
        /\ \A i \in Slots \ {slot[c]} : client'[i] = client[i]
    BY <1>4, SharedTypes DEF FreeSlot, GoTo, inboxVars, InSession, SessionPC
  <2>2. /\ ~MainHolds(slot[c])
        /\ \A d \in Clients \ {c} : InSession(d) => slot[d] \in Slots \ {slot[c]}
    BY <2>1, SharedTypes DEF OwnerInv, OneOwner
  <2>3. \A h \in Handles : peer[h] # c
    BY <2>1 DEF SocketInv, Homed
  <2>4. Homed'
    BY <1>1, <2>1, <2>2, <2>3 DEF SocketInv, Homed, InSession
  <2>5. IncomingIsNewcomers'
    BY <1>1, <2>1, <2>2 DEF SocketInv, IncomingIsNewcomers, Placing, MainHolds
  <2> QED BY <1>3, <2>4, <2>5 DEF SocketInv
<1>5. CASE ~FreeSlot(c)
  <2>1. UNCHANGED client
    BY <1>5
    DEF ThreadStep, BroadcastJoin, BroadcastChat, BroadcastLeft, BroadcastStep, JoinEnd,
        LeftEnd, BroadcastEnd, CallRecv, RecvData, RecvEnd, WriteCommand, ChatEnd,
        CloseSocket, CloseSocketAgain, Detach
  <2>2. IncomingIsNewcomers'
    BY <1>1, <1>2, <2>1, SharedTypes DEF SocketInv, IncomingIsNewcomers, Placing, MainHolds
  <2>3. ASSUME NEW h \in Handles, peer'[h] = c
        PROVE  pc'[c] \in SessionPC \ {"free"} /\ client[slot[c]] = h
    <3>1. pc[c] \in SessionPC \ {"free"} /\ client[slot[c]] = h
      BY <1>1, <1>2, <2>3, SharedTypes DEF SocketInv, Homed
    <3>2. CASE CloseSocketAgain(c)
      BY <2>3, <3>1, <3>2, CloseEffect, SharedTypes DEF CloseSocketAgain
    <3>3. CASE ~CloseSocketAgain(c)
      <4>1. pc'[c] \in SessionPC \ {"free"}
        BY <1>5, <3>1, <3>3, SharedTypes
        DEF ThreadStep, BroadcastJoin, BroadcastChat, BroadcastLeft, BroadcastStep, JoinEnd,
            LeftEnd, BroadcastEnd, CallRecv, RecvData, RecvEnd, WriteCommand, ChatEnd,
            CloseSocket, Detach, GoTo, SessionPC
      <4> QED BY <3>1, <4>1
    <3> QED BY <3>2, <3>3
  <2>4. Homed'
    <3> SUFFICES ASSUME NEW d \in Clients, NEW h \in Handles, peer'[h] = d, pc'[d] # "none"
                 PROVE  pc'[d] \in SessionPC \ {"free"} /\ client[slot[d]] = h
      BY <1>1, <2>1 DEF Homed
    <3>1. CASE d = c
      BY <2>3, <3>1
    <3>2. CASE d # c
      BY <1>1, <1>2, <3>2, SharedTypes DEF SocketInv, Homed
    <3> QED BY <3>1, <3>2
  <2> QED BY <1>3, <2>2, <2>4 DEF SocketInv
<1> QED BY <1>4, <1>5

LEMMA SocketStarts == Init => SocketInv
BY ConstantsAssumption
DEF Init, SocketInv, IncomingIsNewcomers, NoneBefore, Homed, Placing, MainHolds

LEMMA SocketStep == OwnerInv /\ SocketInv /\ [Next]_vars => SocketInv'
<1> SUFFICES ASSUME OwnerInv, SocketInv, [Next]_vars PROVE SocketInv'
  OBVIOUS
<1>1. CASE \E c \in Clients : ClientStep(c)
  BY <1>1, ClientSocket
<1>2. CASE AcceptStep
  BY <1>2, AcceptSocket DEF AcceptStep
<1>3. CASE MainStep
  BY <1>3, MainSocket
<1>4. CASE \E c \in Clients : ThreadStep(c)
  BY <1>4, ThreadSocket
<1>5. CASE OpenPort \/ SetUpPort \/ UNCHANGED vars
  <2>1. UNCHANGED <<conn, backlog, peer, client, mpc, newcomer, incoming, temp_id, pc, slot>>
    BY <1>5 DEF OpenPort, SetUpPort, vars, netVars, inboxVars, mainVars, threadVars
  <2> QED
    BY <2>1 DEF SocketInv, IncomingIsNewcomers, NoneBefore, Homed, Placing, MainHolds
<1> QED
  BY <1>1, <1>2, <1>3, <1>4, <1>5 DEF Next

LEMMA SocketInvariant == Spec => [](OwnerInv /\ SocketInv)
BY SocketStarts, SocketStep, OwnerInvariant, PTL DEF Spec

\* GreetingIsMine holds in every state, however SOCKET values are reused and
\* closed twice: main greets its newcomer or nobody (main.cpp:307-311).
THEOREM GreetsItsNewcomer == Spec => []GreetingIsMine
<1>1. OwnerInv /\ SocketInv => GreetingIsMine
  BY SharedTypes
  DEF SocketInv, IncomingIsNewcomers, GreetingIsMine, Placing, MainHolds, PeerOf
<1> QED
  BY <1>1, SocketInvariant, PTL

\* SocketsAccounted holds in every state: no thread ends its session and leaves
\* its socket open, for any number of connections and SOCKET values.
THEOREM OnlyRefusalsLeak == Spec => []SocketsAccounted
<1>1. OwnerInv /\ SocketInv => SocketsAccounted
  <2> SUFFICES ASSUME OwnerInv, SocketInv, NEW h \in Handles,
                      peer[h] \in Clients, pc[peer[h]] # "none"
               PROVE  \E i \in Slots : client[i] = h
    BY DEF SocketsAccounted
  <2> QED
    BY SharedTypes DEF SocketInv, Homed
<1> QED
  BY <1>1, SocketInvariant, PTL

-------------------------------------------------------------------------------
(* Which sockets the two calls of closesocket() can close. *)

\* Who main works for: nobody in accept(), nobody with a slot when it refuses,
\* and a thread that has started, with its slot, until it has its object.
HandOver ==
  /\ mpc = "accept" => newcomer = NoClient
  /\ mpc = "full" => temp_id = -1
  /\ mpc = "assign" => pc[newcomer] # "none" /\ slot[newcomer] = temp_id

\* A thread whose connection has a socket waits in recv() for that connection,
\* and is about to close it only when its client has gone.
OwnRecv ==
  \A c \in Clients :
    ServerOpen(c) =>
      /\ pc[c] = "recv" => src[c] = c
      /\ pc[c] \in {"close", "reclose"} => conn[c] = "closed"

LeaveInv == HandOver /\ OwnRecv

LEMMA OtherLeave ==
  ASSUME OwnerInv, LeaveInv,
         (\E c \in Clients : ClientStep(c)) \/ OpenPort \/ SetUpPort \/ UNCHANGED vars
  PROVE  LeaveInv'
<1>1. /\ UNCHANGED <<peer, pc, src, slot, mpc, newcomer, temp_id>>
      /\ \A d \in Clients : conn[d] = "closed" => conn'[d] = "closed"
  BY SharedTypes DEF ClientStep, Connect, ClientSend, Transmit, Drain, ClientClose,
     OpenPort, SetUpPort, vars, netVars, inboxVars, mainVars, threadVars
<1> QED
  BY <1>1 DEF LeaveInv, HandOver, OwnRecv, ServerOpen

LEMMA MainLeave ==
  ASSUME OwnerInv, LeaveInv, MainStep \/ AcceptStep
  PROVE  LeaveInv'
<1>1. UNCHANGED <<src, conn>>
  BY DEF MainStep, Scan, ScanEnd, SendId, SendWelcome, Spawn, Assign, SendFull,
         AcceptStep, Accept, TakeConnection, netVars, threadVars
<1>2. CASE Spawn
  <2>1. /\ newcomer \in Clients /\ mpc' = "assign" /\ UNCHANGED <<peer, newcomer, temp_id>>
        /\ pc' = [pc EXCEPT ![newcomer] = "join"]
        /\ slot' = [slot EXCEPT ![newcomer] = temp_id]
    BY <1>2, SharedTypes DEF Spawn, Placing
  <2> QED
    BY <1>1, <2>1, SharedTypes DEF LeaveInv, HandOver, OwnRecv, ServerOpen
<1>3. CASE ~Spawn
  <2>1. UNCHANGED <<pc, slot>>
    BY <1>3 DEF MainStep, Scan, ScanEnd, SendId, SendWelcome, Assign, SendFull,
                AcceptStep, Accept, TakeConnection, threadVars
  <2>2. HandOver'
    BY <1>3, <2>1
    DEF MainStep, Scan, ScanEnd, SendId, SendWelcome, Assign, SendFull, NextRound,
        AcceptStep, Accept, TakeConnection, mainVars, LeaveInv, HandOver
  <2>3. CASE AcceptStep
    <3>1. PICK c \in Clients, h \in Handles : Accept(c, h)
      BY <2>3 DEF AcceptStep
    <3>2. pc[c] = "none" /\ \A d \in Clients \ {c} : ServerOpen(d)' => ServerOpen(d)
      BY <3>1, SharedTypes DEF Accept, TakeConnection, ServerOpen, OwnerInv, OneThread
    <3> QED
      BY <1>1, <2>1, <2>2, <3>2 DEF LeaveInv, OwnRecv
  <2>4. CASE MainStep
    <3>1. UNCHANGED peer
      BY <2>4 DEF MainStep, Scan, ScanEnd, SendId, SendWelcome, Spawn, Assign, SendFull
    <3> QED
      BY <1>1, <2>1, <2>2, <3>1 DEF LeaveInv, OwnRecv, ServerOpen
  <2> QED BY <2>3, <2>4
<1> QED BY <1>2, <1>3

LEMMA ThreadLeave ==
  ASSUME OwnerInv, SocketInv, LeaveInv, NEW c \in Clients, ThreadStep(c)
  PROVE  LeaveInv'
<1>1. /\ UNCHANGED <<slot, mpc, newcomer, temp_id, conn>>
      /\ \A d \in Clients \ {c} : pc'[d] = pc[d]
      /\ \A d \in Clients : pc'[d] = "none" <=> pc[d] = "none"
  BY ThreadFrame DEF mainVars
<1>2. \A h \in Handles : peer'[h] \in {peer[h], NoClient}
  BY SharedTypes, CloseEffect
  DEF ThreadStep, BroadcastJoin, BroadcastChat, BroadcastLeft, BroadcastStep, JoinEnd,
      LeftEnd, BroadcastEnd, CallRecv, RecvData, RecvEnd, WriteCommand, ChatEnd,
      CloseSocket, CloseSocketAgain, FreeSlot, Detach
<1>3. \A d \in Clients : ServerOpen(d)' => ServerOpen(d)
  BY <1>2, SharedTypes DEF ServerOpen
<1>4. HandOver'
  BY <1>1, SharedTypes DEF LeaveInv, HandOver
<1>5. \A d \in Clients \ {c} : src'[d] = src[d]
  BY DEF ThreadStep, BroadcastJoin, BroadcastChat, BroadcastLeft, BroadcastStep, JoinEnd,
      LeftEnd, BroadcastEnd, CallRecv, RecvData, RecvEnd, WriteCommand, ChatEnd,
      CloseSocket, CloseSocketAgain, FreeSlot, Detach,
      OwnerInv, TypeInv, TypeOK, ThreadTypeOK
<1>6. ASSUME ServerOpen(c)', pc'[c] = "recv" PROVE src'[c] = c
  <2>1. CallRecv(c)
    BY <1>6, SharedTypes
    DEF ThreadStep, BroadcastJoin, BroadcastChat, BroadcastLeft, BroadcastStep, JoinEnd,
        LeftEnd, BroadcastEnd, RecvData, RecvEnd, WriteCommand, ChatEnd, GoTo,
        CloseSocket, CloseSocketAgain, FreeSlot, Detach
  <2>2. pc[c] = "call" /\ src'[c] = PeerOf(client[slot[c]])
    BY <2>1 DEF CallRecv, GoTo, OwnerInv, TypeInv, TypeOK, ThreadTypeOK
  <2>3. PICK h \in Handles : peer[h] = c
    BY <1>3, <1>6 DEF ServerOpen
  <2> QED
    BY <2>2, <2>3 DEF SocketInv, Homed, PeerOf
<1>7. ASSUME ServerOpen(c)', pc'[c] \in {"close", "reclose"} PROVE conn[c] = "closed"
  <2>1. CASE pc[c] \in {"close", "reclose"}
    BY <1>3, <1>7, <2>1 DEF LeaveInv, OwnRecv
  <2>2. CASE pc[c] \notin {"close", "reclose"}
    <3>1. RecvEnd(c)
      BY <1>7, <2>2, SharedTypes
      DEF ThreadStep, BroadcastJoin, BroadcastChat, BroadcastLeft, BroadcastStep, JoinEnd,
          LeftEnd, BroadcastEnd, CallRecv, RecvData, WriteCommand, ChatEnd, GoTo,
          CloseSocket, CloseSocketAgain, FreeSlot, Detach
    <3> QED
      BY <1>3, <1>7, <3>1 DEF RecvEnd, GoTo, LeaveInv, OwnRecv
  <2> QED BY <2>1, <2>2
<1> QED
  BY <1>1, <1>3, <1>4, <1>5, <1>6, <1>7 DEF LeaveInv, OwnRecv

LEMMA LeaveStarts == Init => LeaveInv
BY DEF Init, LeaveInv, HandOver, OwnRecv, ServerOpen

LEMMA LeaveStep == OwnerInv /\ SocketInv /\ LeaveInv /\ [Next]_vars => LeaveInv'
<1> SUFFICES ASSUME OwnerInv, SocketInv, LeaveInv, [Next]_vars PROVE LeaveInv'
  OBVIOUS
<1>1. CASE \E c \in Clients : ThreadStep(c)
  BY <1>1, ThreadLeave
<1>2. CASE MainStep \/ AcceptStep
  BY <1>2, MainLeave
<1>3. CASE (\E c \in Clients : ClientStep(c)) \/ OpenPort \/ SetUpPort \/ UNCHANGED vars
  BY <1>3, OtherLeave
<1> QED
  BY <1>1, <1>2, <1>3 DEF Next

LEMMA LeaveInvariant == Spec => [](OwnerInv /\ SocketInv /\ LeaveInv)
BY LeaveStarts, LeaveStep, SocketInvariant, PTL DEF Spec

\* A step that takes a connection from its socket is one of the two calls of
\* closesocket(), on the value of the thread's own slot.
LEMMA ClosingStep ==
  ASSUME OwnerInv, Next, NEW h \in Handles, peer'[h] # peer[h], peer'[h] = NoClient
  PROVE  \E c \in Clients : ClosesOwnValue(c, h) /\ pc'[c] # pc[c]
<1>1. PICK c \in Clients : CloseSocket(c) \/ CloseSocketAgain(c)
  <2>1. CASE \E c \in Clients : ClientStep(c)
    BY <2>1 DEF ClientStep, Connect, ClientSend, Transmit, Drain, ClientClose
  <2>2. CASE AcceptStep
    BY <2>2, SharedTypes DEF AcceptStep, Accept, TakeConnection
  <2>3. CASE MainStep
    BY <2>3
    DEF MainStep, Scan, ScanEnd, SendId, SendWelcome, Spawn, Assign, SendFull
  <2>4. CASE \E c \in Clients : ThreadStep(c)
    BY <2>4
    DEF ThreadStep, BroadcastJoin, BroadcastChat, BroadcastLeft, BroadcastStep, JoinEnd,
        LeftEnd, BroadcastEnd, CallRecv, RecvData, RecvEnd, WriteCommand, ChatEnd,
        FreeSlot, Detach
  <2>5. CASE OpenPort \/ SetUpPort
    BY <2>5 DEF OpenPort, SetUpPort
  <2> QED BY <2>1, <2>2, <2>3, <2>4, <2>5 DEF Next
<1>2. pc[c] \in {"close", "reclose"} /\ pc'[c] # pc[c] /\ Close(client[slot[c]])
  BY <1>1, SharedTypes DEF CloseSocket, CloseSocketAgain, GoTo
<1>3. h = client[slot[c]]
  BY <1>2, SharedTypes, CloseEffect
<1> QED BY <1>2, <1>3 DEF ClosesOwnValue

\* Whom a thread hits that closes the value of its slot while the client behind
\* that value is still there.
LEMMA ClosingTarget ==
  ASSUME OwnerInv, SocketInv, LeaveInv, NEW c \in Clients, NEW h \in Handles,
         ClosesOwnValue(c, h), peer[h] \in Clients, conn[peer[h]] = "open"
  PROVE  /\ peer[h] # c /\ ~ServerOpen(c)
         /\ InSession(peer[h]) => slot[peer[h]] # slot[c]
         /\ newcomer = peer[h] => temp_id # slot[c]
<1>1. InSession(c) /\ pc[c] \in {"close", "reclose"} /\ client[slot[c]] = h
  BY DEF ClosesOwnValue, InSession, SessionPC
<1>2. peer[h] # c
  BY <1>1 DEF LeaveInv, OwnRecv, ServerOpen
<1>3. ~ServerOpen(c)
  BY <1>1, <1>2 DEF ServerOpen, SocketInv, Homed
<1>4. InSession(peer[h]) => slot[peer[h]] # slot[c]
  BY <1>1, <1>2 DEF OwnerInv, OneOwner
<1>5. ASSUME newcomer = peer[h] PROVE temp_id # slot[c]
  <2>1. slot[c] \in Slots /\ slot[c] # -1
    BY SharedTypes, ConstantsAssumption DEF Slots
  <2>2. mpc # "accept"
    BY <1>5, SharedTypes DEF LeaveInv, HandOver
  <2>3. CASE mpc = "full"
    BY <2>1, <2>3 DEF LeaveInv, HandOver
  <2>4. CASE mpc = "assign"
    <3>1. InSession(peer[h])
      BY <1>5, <2>4 DEF LeaveInv, HandOver, SocketInv, Homed, InSession
    <3> QED BY <1>4, <1>5, <2>4, <3>1 DEF LeaveInv, HandOver
  <2>5. CASE mpc \in {"scan", "sendid", "welcome", "spawn"}
    BY <1>1, <2>1, <2>5 DEF OwnerInv, OneOwner, MainHolds
  <2> QED
    BY <2>2, <2>3, <2>4, <2>5 DEF OwnerInv, TypeInv, TypeOK, MainTypeOK, MainPC
<1> QED BY <1>2, <1>3, <1>4, <1>5

\* ClosesOnlyEnded holds of every step, whatever SOCKET values accept() gives
\* out again and however often they are closed (main.cpp:197,198): a thread
\* closes its own connection only after the client has gone, and another
\* client's only if its own socket is lost and the value that its slot still
\* holds has been given to a connection that stands elsewhere.
THEOREM ClosesNoLiveConnection == Spec => ClosesOnlyEnded
<1> DEFINE Step ==
      \A h \in Handles :
        peer[h] \in Clients /\ peer'[h] = NoClient /\ conn[peer[h]] = "open" =>
          \E c \in Clients :
            /\ ClosesOwnValue(c, h) /\ pc'[c] # pc[c]
            /\ peer[h] # c /\ ~ServerOpen(c)
            /\ InSession(peer[h]) => slot[peer[h]] # slot[c]
            /\ newcomer = peer[h] => temp_id # slot[c]
<1>1. OwnerInv /\ SocketInv /\ LeaveInv /\ [Next]_vars => [Step]_vars
  <2> SUFFICES ASSUME OwnerInv, SocketInv, LeaveInv, Next, NEW h \in Handles,
                      peer[h] \in Clients, peer'[h] = NoClient, conn[peer[h]] = "open"
               PROVE  \E c \in Clients :
                        /\ ClosesOwnValue(c, h) /\ pc'[c] # pc[c]
                        /\ peer[h] # c /\ ~ServerOpen(c)
                        /\ InSession(peer[h]) => slot[peer[h]] # slot[c]
                        /\ newcomer = peer[h] => temp_id # slot[c]
    OBVIOUS
  <2>1. peer'[h] # peer[h]
    BY SharedTypes
  <2>2. PICK c \in Clients : ClosesOwnValue(c, h) /\ pc'[c] # pc[c]
    BY <2>1, ClosingStep
  <2> QED
    BY <2>2, ClosingTarget
<1> QED
  BY <1>1, LeaveInvariant, PTL DEF Spec, ClosesOnlyEnded

-------------------------------------------------------------------------------
(* One std::thread object per running thread. *)

\* The threads that run with the object of slot i.
RunningAt(i) == {c \in Clients : slot[c] = i /\ pc[c] \notin {"none", "done"}}

Objects(i) == Count(my_thread[i] # NoClient) + Count(mpc = "assign" /\ temp_id = i)

\* ThreadObjects made inductive.
ObjectInv ==
  ~terminated =>
    \A i \in Slots : IsFiniteSet(RunningAt(i)) /\ Cardinality(RunningAt(i)) = Objects(i)

LEMMA CountType == \A P \in BOOLEAN : Count(P) \in {0, 1}
BY DEF Count

\* A step that starts and ends no thread, and moves no object, keeps the count.
LEMMA ObjectsKept ==
  ASSUME ObjectInv, NEW i \in Slots, ~terminated,
         RunningAt(i)' = RunningAt(i), Objects(i)' = Objects(i)
  PROVE  IsFiniteSet(RunningAt(i)') /\ Cardinality(RunningAt(i)') = Objects(i)'
BY DEF ObjectInv

LEMMA SpawnObjects ==
  ASSUME OwnerInv, ObjectInv, Spawn PROVE ObjectInv'
<1>1. /\ newcomer \in Clients /\ temp_id \in Slots /\ pc[newcomer] = "none" /\ ~terminated
      /\ mpc = "spawn" /\ mpc' = "assign" /\ UNCHANGED <<my_thread, temp_id>>
      /\ pc'[newcomer] = "join" /\ slot'[newcomer] = temp_id
      /\ \A d \in Clients \ {newcomer} : pc'[d] = pc[d] /\ slot'[d] = slot[d]
  BY SharedTypes DEF Spawn, Placing, OwnerInv, OneThread
<1> SUFFICES ASSUME NEW i \in Slots
             PROVE  IsFiniteSet(RunningAt(i)') /\ Cardinality(RunningAt(i)') = Objects(i)'
  BY DEF ObjectInv
<1>2. CASE i = temp_id
  <2>1. RunningAt(i)' = RunningAt(i) \cup {newcomer} /\ newcomer \notin RunningAt(i)
    BY <1>1, <1>2 DEF RunningAt
  <2>2. IsFiniteSet(RunningAt(i)) /\ Cardinality(RunningAt(i)) = Objects(i)
    BY <1>1 DEF ObjectInv
  <2>3. /\ IsFiniteSet(RunningAt(i)')
        /\ Cardinality(RunningAt(i)') = Cardinality(RunningAt(i)) + 1
    BY <2>1, <2>2, FS_AddElement
  <2>4. Objects(i)' = Objects(i) + 1
    BY <1>1, <1>2 DEF Objects, Count
  <2> QED BY <2>2, <2>3, <2>4
<1>3. CASE i # temp_id
  <2>1. RunningAt(i)' = RunningAt(i)
    BY <1>1, <1>3 DEF RunningAt
  <2>2. Objects(i)' = Objects(i)
    BY <1>1, <1>3 DEF Objects
  <2> QED BY <1>1, <2>1, <2>2, ObjectsKept
<1> QED BY <1>2, <1>3

LEMMA AssignObjects ==
  ASSUME OwnerInv, ObjectInv, Assign PROVE ObjectInv'
<1>1. /\ ~terminated /\ mpc = "assign" /\ temp_id \in Slots /\ newcomer \in Clients
      /\ UNCHANGED <<pc, slot>>
  BY SharedTypes DEF Assign, threadVars
<1>2. CASE my_thread[temp_id] # NoClient
  BY <1>2 DEF Assign, ObjectInv
<1>3. CASE my_thread[temp_id] = NoClient
  <2>1. /\ mpc' = "accept" /\ temp_id' = temp_id /\ my_thread'[temp_id] = newcomer
        /\ \A i \in Slots \ {temp_id} : my_thread'[i] = my_thread[i]
    BY <1>1, <1>3, SharedTypes DEF Assign, NextRound
  <2> SUFFICES ASSUME NEW i \in Slots
               PROVE  IsFiniteSet(RunningAt(i)') /\ Cardinality(RunningAt(i)') = Objects(i)'
    BY DEF ObjectInv
  <2>2. RunningAt(i)' = RunningAt(i)
    BY <1>1 DEF RunningAt
  <2>3. Objects(i)' = Objects(i)
    BY <1>1, <1>3, <2>1, SharedTypes DEF Objects, Count
  <2> QED BY <1>1, <2>2, <2>3, ObjectsKept
<1> QED BY <1>2, <1>3

LEMMA DetachObjects ==
  ASSUME OwnerInv, ObjectInv, NEW c \in Clients, Detach(c) PROVE ObjectInv'
<1>1. /\ ~terminated /\ UNCHANGED <<slot, mpc, temp_id>> /\ slot[c] \in Slots
      /\ pc[c] = "detach" /\ pc'[c] = "done" /\ \A d \in Clients \ {c} : pc'[d] = pc[d]
  BY SharedTypes DEF Detach, GoTo, mainVars
<1>2. CASE my_thread[slot[c]] = NoClient
  BY <1>2 DEF Detach, ObjectInv
<1>3. CASE my_thread[slot[c]] # NoClient
  <2>1. /\ my_thread'[slot[c]] = NoClient
        /\ \A i \in Slots \ {slot[c]} : my_thread'[i] = my_thread[i]
    BY <1>1, <1>3, SharedTypes DEF Detach
  <2> SUFFICES ASSUME NEW i \in Slots
               PROVE  IsFiniteSet(RunningAt(i)') /\ Cardinality(RunningAt(i)') = Objects(i)'
    BY DEF ObjectInv
  <2>2. CASE i = slot[c]
    <3>1. RunningAt(i)' = RunningAt(i) \ {c} /\ c \in RunningAt(i)
      BY <1>1, <2>2 DEF RunningAt
    <3>2. IsFiniteSet(RunningAt(i)) /\ Cardinality(RunningAt(i)) = Objects(i)
      BY <1>1 DEF ObjectInv
    <3>3. /\ IsFiniteSet(RunningAt(i)')
          /\ Cardinality(RunningAt(i)') = Cardinality(RunningAt(i)) - 1
      BY <3>1, <3>2, FS_RemoveElement
    <3>4. Objects(i)' = Objects(i) - 1
      BY <1>1, <1>3, <2>1, <2>2 DEF Objects, Count
    <3> QED BY <3>2, <3>3, <3>4
  <2>3. CASE i # slot[c]
    <3>1. RunningAt(i)' = RunningAt(i)
      BY <1>1, <2>3 DEF RunningAt
    <3>2. Objects(i)' = Objects(i)
      BY <1>1, <2>1, <2>3 DEF Objects
    <3> QED BY <1>1, <3>1, <3>2, ObjectsKept
  <2> QED BY <2>2, <2>3
<1> QED BY <1>2, <1>3

\* All other steps leave the threads that run, and the objects, as they are.
LEMMA OtherObjects ==
  ASSUME OwnerInv, ObjectInv, [Next]_vars,
         ~Spawn, ~Assign, \A c \in Clients : ~Detach(c)
  PROVE  ObjectInv'
<1>1. terminated' = terminated /\ my_thread' = my_thread /\ slot' = slot
  BY DEF Next, ClientStep, Connect, ClientSend, Transmit, Drain, ClientClose, AcceptStep, Accept,
     TakeConnection, MainStep, Scan, ScanEnd, SendId, SendWelcome, SendFull,
     ThreadStep, BroadcastJoin, BroadcastChat, BroadcastLeft, BroadcastStep, JoinEnd,
     LeftEnd, BroadcastEnd, CallRecv, RecvData, RecvEnd, WriteCommand, ChatEnd,
     CloseSocket, CloseSocketAgain, FreeSlot, OpenPort, SetUpPort, vars, threadVars
<1>2. /\ \/ mpc # "assign" /\ mpc' # "assign"
         \/ mpc' = mpc /\ temp_id' = temp_id
      /\ \A c \in Clients : pc'[c] \in {"none", "done"} <=> pc[c] \in {"none", "done"}
  <2>1. CASE \E c \in Clients : ClientStep(c)
    BY <2>1 DEF ClientStep, Connect, ClientSend, Transmit, Drain, ClientClose, mainVars, threadVars
  <2>2. CASE AcceptStep
    <3>1. UNCHANGED pc /\ mpc = "accept" /\ mpc' = "scan"
      BY <2>2 DEF AcceptStep, Accept, TakeConnection, threadVars
    <3> QED BY <3>1
  <2>3. CASE MainStep
    <3>1. UNCHANGED pc /\ mpc # "assign" /\ mpc' # "assign"
      BY <2>3
      DEF MainStep, Scan, ScanEnd, SendId, SendWelcome, SendFull, NextRound, threadVars
    <3> QED BY <3>1
  <2>4. ASSUME NEW c \in Clients, ThreadStep(c)
        PROVE  /\ mpc' = mpc /\ temp_id' = temp_id
               /\ \A d \in Clients : pc'[d] \in {"none", "done"} <=> pc[d] \in {"none", "done"}
    <3>1. /\ mpc' = mpc /\ temp_id' = temp_id
          /\ \A d \in Clients \ {c} : pc'[d] = pc[d]
      BY <2>4, ThreadFrame DEF mainVars
    <3>2. pc[c] \notin {"none", "done"} /\ pc'[c] \notin {"none", "done"}
      BY <2>4, SharedTypes
      DEF ThreadStep, BroadcastJoin, BroadcastChat, BroadcastLeft, BroadcastStep, JoinEnd,
          LeftEnd, BroadcastEnd, CallRecv, RecvData, RecvEnd, WriteCommand, ChatEnd, GoTo,
          CloseSocket, CloseSocketAgain, FreeSlot
    <3> QED BY <3>1, <3>2
  <2>5. CASE OpenPort \/ SetUpPort \/ UNCHANGED vars
    BY <2>5 DEF OpenPort, SetUpPort, vars, mainVars, threadVars
  <2> QED
    BY <2>1, <2>2, <2>3, <2>4, <2>5 DEF Next
<1> SUFFICES ASSUME NEW i \in Slots, ~terminated
             PROVE  IsFiniteSet(RunningAt(i)') /\ Cardinality(RunningAt(i)') = Objects(i)'
  BY <1>1 DEF ObjectInv
<1>4. RunningAt(i)' = RunningAt(i)
  BY <1>1, <1>2 DEF RunningAt
<1>5. Objects(i)' = Objects(i)
  BY <1>1, <1>2 DEF Objects, Count
<1> QED BY <1>4, <1>5, ObjectsKept

\* ThreadObjects holds in every state, for every number of clients and slots:
\* until std::terminate, detach() and the move assignment keep one object per
\* running thread, although they run unsynchronised (main.cpp:212,314).
THEOREM OneObjectPerThread == Spec => []ThreadObjects
<1>1. Init => ObjectInv
  <2> SUFFICES ASSUME Init, NEW i \in Slots
               PROVE  IsFiniteSet(RunningAt(i)) /\ Cardinality(RunningAt(i)) = Objects(i)
    BY DEF ObjectInv
  <2>1. RunningAt(i) = {} /\ Objects(i) = 0
    BY DEF Init, RunningAt, Objects, Count
  <2> QED BY <2>1, FS_EmptySet
<1>2. OwnerInv /\ ObjectInv /\ [Next]_vars => ObjectInv'
  BY SpawnObjects, AssignObjects, DetachObjects, OtherObjects
<1>3. ObjectInv => ThreadObjects
  BY DEF ObjectInv, ThreadObjects, RunningAt, Objects
<1> QED
  BY <1>1, <1>2, <1>3, OwnerInvariant, PTL DEF Spec

-------------------------------------------------------------------------------
(* When accept() gives out no value that a slot still holds, that is, none *)
(* between lines 197 and 199 of main.cpp.                                  *)

\* No two slots hold the same value, and none the value of main's newcomer but
\* the slot that main took for it.
Distinct ==
  /\ \A i, j \in Slots : client[i] # INVALID_SOCKET /\ client[i] = client[j] => i = j
  /\ Placing => \A i \in Slots : client[i] = incoming => MainHolds(i)

\* A thread receives from its own connection and leaves its loop only at the
\* end of that connection.
OwnStream ==
  /\ \A c \in Clients : InSession(c) => PeerOf(client[slot[c]]) \in {c, NoClient}
  /\ \A c \in Clients : pc[c] = "recv" =>
       \/ src[c] = c
       \/ src[c] = NoClient /\ \A h \in Handles : peer[h] # c
  /\ \A c \in Clients : pc[c] \in {"close", "reclose"} =>
       conn[c] = "closed" \/ \A h \in Handles : peer[h] # c

\* NoSelfEcho, message by message.
NoOwnNews ==
  \A c \in Clients : \A k \in 1 .. Len(inbox[c]) :
    inbox[c][k].kind \in {"join", "chat", "left"} => inbox[c][k].from # c

OnceInv == Distinct /\ OwnStream /\ NoOwnNews

OnceContext == OwnerInv /\ SocketInv /\ OnceInv

\* A message that is not its receiver's own keeps NoOwnNews.
LEMMA SendNews ==
  ASSUME inbox \in [Clients -> Seq(Messages)], NoOwnNews,
         NEW h, NEW kind \in {"id", "welcome", "full", "join", "chat", "left"},
         NEW c \in Clients, Send(h, Msg(kind, c)),
         kind \in {"join", "chat", "left"} => PeerOf(h) # c
  PROVE  NoOwnNews'
<1> DEFINE m == Msg(kind, c)
<1>1. m \in Messages /\ m.kind = kind /\ m.from = c
  BY MsgType DEF Msg
<1> HIDE DEF m
<1> SUFFICES ASSUME NEW d \in Clients, NEW k \in 1 .. Len(inbox'[d]),
                    inbox'[d][k].kind \in {"join", "chat", "left"}
             PROVE  inbox'[d][k].from # d
  BY DEF NoOwnNews
<1>2. CASE inbox'[d] = inbox[d]
  BY <1>2 DEF NoOwnNews
<1>3. CASE inbox'[d] # inbox[d]
  <2>1. PeerOf(h) = d /\ inbox'[d] = Append(inbox[d], m)
    BY <1>3 DEF Send, Deliver, inboxVars, m
  <2>2. inbox[d] \in Seq(Messages)
    OBVIOUS
  <2>3. CASE k = Len(inbox[d]) + 1
    <3>1. inbox'[d][k] = m
      BY <1>1, <2>1, <2>2, <2>3
    <3> QED BY <1>1, <2>1, <3>1
  <2>4. CASE k # Len(inbox[d]) + 1
    <3>1. k \in 1 .. Len(inbox[d]) /\ inbox'[d][k] = inbox[d][k]
      BY <1>1, <2>1, <2>2, <2>4
    <3> QED BY <3>1 DEF NoOwnNews
  <2> QED BY <2>3, <2>4
<1> QED BY <1>2, <1>3

LEMMA ClientOnce ==
  ASSUME OnceContext, NEW c \in Clients, ClientStep(c)
  PROVE  OnceInv'
<1>1. /\ UNCHANGED <<inbox, peer, client, slot, pc, src, mpc, newcomer, incoming, temp_id>>
      /\ \A d \in Clients : conn[d] = "closed" => conn'[d] = "closed"
  BY SharedTypes DEF OnceContext, ClientStep, Connect, ClientSend, Transmit, Drain, ClientClose,
     netVars, inboxVars, mainVars, threadVars
<1>2. Distinct'
  BY <1>1 DEF OnceContext, OnceInv, Distinct, Placing, MainHolds
<1>3. OwnStream'
  BY <1>1 DEF OnceContext, OnceInv, OwnStream, InSession, PeerOf
<1>4. NoOwnNews'
  BY <1>1 DEF OnceContext, OnceInv, NoOwnNews
<1> QED BY <1>2, <1>3, <1>4 DEF OnceInv

LEMMA AcceptOnce ==
  ASSUME ~ReuseWhileHeld, OnceContext, NEW c \in Clients, NEW h \in Handles, Accept(c, h)
  PROVE  OnceInv'
<1>1. /\ UNCHANGED <<inbox, conn, client, slot, pc, src>>
      /\ c \in backlog /\ peer[h] = NoClient /\ (\A i \in Slots : client[i] # h) /\ pc[c] = "none"
      /\ mpc' = "scan" /\ newcomer' = c /\ incoming' = h /\ temp_id' = -1
      /\ peer'[h] = c /\ \A g \in Handles \ {h} : peer'[g] = peer[g]
  BY SharedTypes
  DEF Accept, TakeConnection, FreeHandles, inboxVars, threadVars, OnceContext, OwnerInv, OneThread
<1>2. h # INVALID_SOCKET /\ \A i \in Slots : client[i] # h
  BY <1>1, SharedTypes DEF OnceContext, OnceInv, Distinct
<1>3. Distinct'
  BY <1>1, <1>2 DEF OnceContext, OnceInv, Distinct
<1>4. \A d \in Clients : InSession(d)' => PeerOf(client[slot[d]])' \in {d, NoClient}
  BY <1>1, <1>2, SharedTypes DEF OnceContext, OnceInv, OwnStream, InSession, PeerOf
<1>5. OwnStream'
  BY <1>1, <1>4 DEF OnceContext, OnceInv, OwnStream
<1>6. NoOwnNews'
  BY <1>1 DEF OnceContext, OnceInv, NoOwnNews
<1> QED BY <1>3, <1>5, <1>6 DEF OnceInv

LEMMA MainOnce ==
  ASSUME OnceContext, MainStep
  PROVE  OnceInv'
<1>1. UNCHANGED <<peer, conn, src>>
  BY DEF MainStep, Scan, ScanEnd, SendId, SendWelcome, Spawn, Assign, SendFull,
         inboxVars, netVars, threadVars
<1>2. inbox \in [Clients -> Seq(Messages)] /\ NoOwnNews
  BY DEF OnceContext, OnceInv, OwnerInv, TypeInv, TypeOK, NetworkTypeOK
<1>3. NoOwnNews'
  <2>1. CASE SendId \/ SendWelcome \/ SendFull
    <3>1. newcomer \in Clients
      BY <2>1, SharedTypes DEF SendId, SendWelcome, SendFull, Placing, OnceContext
    <3> QED
      BY <1>2, <2>1, <3>1, SendNews DEF SendId, SendWelcome, SendFull
  <2>2. CASE ~(SendId \/ SendWelcome \/ SendFull)
    <3>1. UNCHANGED inbox
      BY <2>2 DEF MainStep, Scan, ScanEnd, Spawn, Assign, inboxVars
    <3> QED BY <1>2, <3>1 DEF NoOwnNews
  <2> QED BY <2>1, <2>2
<1>4. CASE Scan
  <2>1. /\ scan \in Slots
        /\ UNCHANGED <<pc, slot, mpc, newcomer, incoming>> /\ mpc = "scan" /\ incoming \in Handles
    BY <1>4, SlotRange
    DEF Scan, threadVars, OnceContext, OwnerInv, TypeInv, TypeOK, MainTypeOK, Engaged
  <2>2. CASE client[scan] = INVALID_SOCKET /\ temp_id = -1
    <3>1. /\ temp_id' = scan /\ client'[scan] = incoming
          /\ \A i \in Slots \ {scan} : client'[i] = client[i]
      BY <1>4, <2>1, <2>2, SharedTypes DEF Scan, OnceContext
    <3>2. \A i \in Slots : ~MainHolds(i) /\ (MainHolds(i)' <=> i = scan)
      BY <2>1, <2>2, <3>1, ConstantsAssumption DEF MainHolds, Slots
    <3>3. \A i \in Slots : client[i] # incoming
      BY <2>1, <3>2 DEF OnceContext, OnceInv, Distinct, Placing
    <3>4. Distinct'
      BY <1>1, <2>1, <3>1, <3>2, <3>3, SharedTypes
      DEF OnceContext, OnceInv, Distinct, Placing
    <3>5. \A c \in Clients : InSession(c) => slot[c] \in Slots \ {scan}
      BY <2>2, SharedTypes DEF OnceContext, OwnerInv, OneOwner
    <3>6. OwnStream'
      BY <1>1, <2>1, <3>1, <3>5 DEF OnceContext, OnceInv, OwnStream, InSession, PeerOf
    <3> QED BY <1>3, <3>4, <3>6 DEF OnceInv
  <2>3. CASE ~(client[scan] = INVALID_SOCKET /\ temp_id = -1)
    <3>1. UNCHANGED <<client, temp_id>>
      BY <1>4, <2>3 DEF Scan
    <3>2. Distinct' /\ OwnStream'
      BY <1>1, <2>1, <3>1
      DEF OnceContext, OnceInv, Distinct, OwnStream, Placing, MainHolds, InSession, PeerOf
    <3> QED BY <1>3, <3>2 DEF OnceInv
  <2> QED BY <2>2, <2>3
<1>5. CASE ScanEnd \/ SendId \/ SendWelcome
  <2>1. /\ UNCHANGED <<client, slot, pc, temp_id, newcomer, incoming>>
        /\ temp_id \in Slots \cup {-1}
    BY <1>5 DEF ScanEnd, SendId, SendWelcome, threadVars,
                OnceContext, OwnerInv, TypeInv, TypeOK, MainTypeOK
  <2>2. (Placing' => Placing) /\ \A i \in Slots : MainHolds(i) => MainHolds(i)'
    BY <1>5, <2>1, ConstantsAssumption
    DEF ScanEnd, SendId, SendWelcome, Placing, MainHolds, Slots
  <2>3. Distinct'
    BY <1>1, <2>1, <2>2 DEF OnceContext, OnceInv, Distinct
  <2>4. OwnStream'
    BY <1>1, <2>1 DEF OnceContext, OnceInv, OwnStream, InSession, PeerOf
  <2> QED BY <1>3, <2>3, <2>4 DEF OnceInv
<1>6. CASE Spawn
  <2>1. /\ UNCHANGED client /\ mpc' = "assign" /\ mpc = "spawn"
        /\ newcomer \in Clients /\ temp_id \in Slots
        /\ pc'[newcomer] = "join" /\ slot'[newcomer] = temp_id
        /\ \A d \in Clients \ {newcomer} : pc'[d] = pc[d] /\ slot'[d] = slot[d]
    BY <1>6, SharedTypes DEF Spawn, Placing, OnceContext
  <2>2. PeerOf(client[temp_id]) \in {newcomer, NoClient}
    BY <2>1, SharedTypes
    DEF OnceContext, SocketInv, IncomingIsNewcomers, Placing, MainHolds, PeerOf
  <2>3. Distinct'
    BY <1>1, <2>1 DEF OnceContext, OnceInv, Distinct, Placing
  <2>4. OwnStream'
    <3>1. ASSUME NEW d \in Clients, InSession(d)'
          PROVE  PeerOf(client[slot[d]])' \in {d, NoClient}
      <4>1. CASE d = newcomer
        BY <1>1, <2>1, <2>2, <4>1 DEF PeerOf
      <4>2. CASE d # newcomer
        BY <1>1, <2>1, <3>1, <4>2 DEF OnceContext, OnceInv, OwnStream, InSession, PeerOf
      <4> QED BY <4>1, <4>2
    <3>2. \A d \in Clients : pc'[d] \in {"recv", "close", "reclose"} => pc[d] = pc'[d]
      BY <2>1
    <3> QED BY <1>1, <3>1, <3>2 DEF OnceContext, OnceInv, OwnStream
  <2> QED BY <1>3, <2>3, <2>4 DEF OnceInv
<1>7. CASE Assign \/ SendFull
  <2>1. UNCHANGED <<client, slot, pc>>
    BY <1>7 DEF Assign, SendFull, threadVars
  <2>2. ~Placing'
    BY <1>7 DEF Assign, SendFull, NextRound, Placing, mainVars
  <2>3. Distinct' /\ OwnStream'
    BY <1>1, <2>1, <2>2 DEF OnceContext, OnceInv, Distinct, OwnStream, InSession, PeerOf
  <2> QED BY <1>3, <2>3 DEF OnceInv
<1> QED BY <1>4, <1>5, <1>6, <1>7 DEF MainStep

\* A broadcast loop does not meet its own client: its socket is in its own slot
\* only, which the loop leaves out, and closed when it is not left out.
LEMMA BroadcastNews ==
  ASSUME OnceContext, NEW c \in Clients, NEW pos, NEW kind \in {"join", "chat", "left"},
         NEW everyone, BroadcastStep(c, pos, kind, everyone),
         pos # "none", everyone => pos = "left"
  PROVE  NoOwnNews'
<1>1. inbox \in [Clients -> Seq(Messages)] /\ NoOwnNews
  BY DEF OnceContext, OnceInv, OwnerInv, TypeInv, TypeOK, NetworkTypeOK
<1>2. idx[c] \in Slots /\ slot[c] \in Slots /\ pc[c] = pos
  BY SlotRange DEF BroadcastStep, OnceContext, OwnerInv, TypeInv, TypeOK, ThreadTypeOK
<1>3. CASE client[idx[c]] # INVALID_SOCKET /\ (everyone \/ slot[c] # idx[c])
  <2>1. ASSUME PeerOf(client[idx[c]]) = c PROVE FALSE
    <3>1. client[idx[c]] \in Handles /\ peer[client[idx[c]]] = c
      BY <2>1, SharedTypes DEF PeerOf, OnceContext
    <3>2. pos \in SessionPC /\ client[slot[c]] = client[idx[c]]
      BY <1>2, <3>1 DEF OnceContext, SocketInv, Homed
    <3>3. slot[c] = idx[c]
      BY <1>2, <1>3, <3>2 DEF OnceContext, OnceInv, Distinct
    <3> QED BY <1>3, <3>2, <3>3 DEF SessionPC
  <2>2. Send(client[idx[c]], Msg(kind, c))
    BY <1>3 DEF BroadcastStep
  <2> QED BY <1>1, <2>1, <2>2, SendNews
<1>4. CASE ~(client[idx[c]] # INVALID_SOCKET /\ (everyone \/ slot[c] # idx[c]))
  BY <1>1, <1>4 DEF BroadcastStep, NoOwnNews, inboxVars
<1> QED BY <1>3, <1>4

LEMMA ThreadNews ==
  ASSUME OnceContext, NEW c \in Clients, ThreadStep(c)
  PROVE  NoOwnNews'
<1>1. CASE BroadcastJoin(c) \/ BroadcastChat(c) \/ BroadcastLeft(c)
  BY <1>1, BroadcastNews DEF BroadcastJoin, BroadcastChat, BroadcastLeft
<1>2. CASE ~(BroadcastJoin(c) \/ BroadcastChat(c) \/ BroadcastLeft(c))
  <2>1. UNCHANGED inbox
    BY <1>2
    DEF ThreadStep, JoinEnd, LeftEnd, BroadcastEnd, CallRecv, RecvData, RecvEnd, WriteCommand,
        ChatEnd, CloseSocket, CloseSocketAgain, FreeSlot, Detach, inboxVars
  <2> QED BY <2>1 DEF OnceContext, OnceInv, NoOwnNews
<1> QED BY <1>1, <1>2

\* The socket of a thread's own slot is the thread's connection.
LEMMA OwnPeer ==
  ASSUME OnceContext, NEW c \in Clients, InSession(c)
  PROVE  /\ PeerOf(client[slot[c]]) \in {c, NoClient}
         /\ PeerOf(client[slot[c]]) = NoClient => \A h \in Handles : peer[h] # c
<1>1. PeerOf(client[slot[c]]) \in {c, NoClient}
  BY DEF OnceContext, OnceInv, OwnStream
<1>2. ASSUME NEW h \in Handles, peer[h] = c PROVE PeerOf(client[slot[c]]) = c
  BY <1>2 DEF OnceContext, SocketInv, Homed, PeerOf, InSession, SessionPC
<1> QED BY <1>1, <1>2, SharedTypes DEF OnceContext

LEMMA ThreadOnce ==
  ASSUME OnceContext, NEW c \in Clients, ThreadStep(c)
  PROVE  OnceInv'
<1>1. /\ UNCHANGED <<slot, mpc, newcomer, incoming, temp_id, conn>>
      /\ \A d \in Clients \ {c} : pc'[d] = pc[d]
      /\ pc[c] \in ThreadPC /\ pc'[c] \in ThreadPC
  BY ThreadFrame, ThreadType, SharedTypes
  DEF OnceContext, mainVars, OwnerInv, TypeInv, TypeOK, ThreadTypeOK
<1>2. \A h \in Handles : peer'[h] \in {peer[h], NoClient}
  BY SharedTypes, CloseEffect
  DEF ThreadStep, BroadcastJoin, BroadcastChat, BroadcastLeft, BroadcastStep, JoinEnd,
      LeftEnd, BroadcastEnd, CallRecv, RecvData, RecvEnd, WriteCommand, ChatEnd,
      CloseSocket, CloseSocketAgain, FreeSlot, Detach, inboxVars, OnceContext
<1>3. \A i \in Slots :
        \/ client'[i] = client[i]
        \/ client'[i] = INVALID_SOCKET /\ i = slot[c] /\ ~InSession(c)'
  <2>1. CASE FreeSlot(c)
    BY <2>1, SharedTypes DEF FreeSlot, GoTo, InSession, SessionPC, OnceContext
  <2>2. CASE ~FreeSlot(c)
    BY <2>2
    DEF ThreadStep, BroadcastJoin, BroadcastChat, BroadcastLeft, BroadcastStep, JoinEnd,
        LeftEnd, BroadcastEnd, CallRecv, RecvData, RecvEnd, WriteCommand, ChatEnd,
        CloseSocket, CloseSocketAgain, Detach
  <2> QED BY <2>1, <2>2
<1>4. InSession(c)' => InSession(c)
  BY <1>1, SharedTypes
  DEF ThreadStep, BroadcastJoin, BroadcastChat, BroadcastLeft, BroadcastStep, JoinEnd,
      LeftEnd, BroadcastEnd, CallRecv, RecvData, RecvEnd, WriteCommand, ChatEnd, GoTo,
      CloseSocket, CloseSocketAgain, FreeSlot, Detach, InSession, SessionPC, OnceContext
<1>5. Distinct'
  BY <1>1, <1>3, SharedTypes DEF OnceContext, OnceInv, Distinct, Placing, MainHolds
<1>6. ASSUME NEW d \in Clients, InSession(d)'
      PROVE  PeerOf(client[slot[d]])' \in {d, NoClient}
  <2>1. InSession(d)
    BY <1>1, <1>4, <1>6 DEF InSession
  <2>2. client'[slot[d]] = client[slot[d]]
    <3>1. slot[d] \in Slots
      BY SharedTypes DEF OnceContext
    <3>2. CASE d = c
      BY <1>3, <1>6, <3>1, <3>2
    <3>3. CASE d # c
      <4>1. InSession(c) => slot[d] # slot[c]
        BY <2>1, <3>3 DEF OnceContext, OwnerInv, OneOwner
      <4>2. CASE InSession(c)
        BY <1>3, <3>1, <4>1, <4>2
      <4>3. CASE ~InSession(c)
        BY <1>1, <4>3, SharedTypes
        DEF ThreadStep, BroadcastJoin, BroadcastChat, BroadcastLeft, BroadcastStep, JoinEnd,
            LeftEnd, BroadcastEnd, CallRecv, RecvData, RecvEnd, WriteCommand, ChatEnd, GoTo,
            CloseSocket, CloseSocketAgain, FreeSlot, Detach, InSession, SessionPC
      <4> QED BY <4>2, <4>3
    <3> QED BY <3>2, <3>3
  <2>3. PeerOf(client[slot[d]]) \in {d, NoClient}
    BY <2>1, OwnPeer
  <2> QED BY <1>1, <1>2, <2>2, <2>3 DEF PeerOf
<1>7. ASSUME NEW d \in Clients, pc'[d] = "recv"
      PROVE  \/ src'[d] = d
             \/ src'[d] = NoClient /\ \A h \in Handles : peer'[h] # d
  <2>1. CASE d = c
    <3>1. CallRecv(c)
      BY <1>7, <2>1, SharedTypes
      DEF ThreadStep, BroadcastJoin, BroadcastChat, BroadcastLeft, BroadcastStep, JoinEnd,
          LeftEnd, BroadcastEnd, RecvData, RecvEnd, WriteCommand, ChatEnd, GoTo,
          CloseSocket, CloseSocketAgain, FreeSlot, Detach, OnceContext
    <3>2. InSession(c) /\ UNCHANGED peer /\ src'[c] = PeerOf(client[slot[c]])
      BY <3>1 DEF CallRecv, GoTo, InSession, SessionPC, inboxVars,
                  OnceContext, OwnerInv, TypeInv, TypeOK, ThreadTypeOK
    <3> QED BY <2>1, <3>2, OwnPeer
  <2>2. CASE d # c
    <3>1. src'[d] = src[d] /\ pc[d] = "recv"
      BY <1>1, <1>7, <2>2
      DEF ThreadStep, BroadcastJoin, BroadcastChat, BroadcastLeft, BroadcastStep, JoinEnd,
          LeftEnd, BroadcastEnd, CallRecv, RecvData, RecvEnd, WriteCommand, ChatEnd,
          CloseSocket, CloseSocketAgain, FreeSlot, Detach,
          OnceContext, OwnerInv, TypeInv, TypeOK, ThreadTypeOK
    <3> QED
      BY <1>2, <3>1, SharedTypes DEF OnceContext, OnceInv, OwnStream
  <2> QED BY <2>1, <2>2
<1>8. ASSUME NEW d \in Clients, pc'[d] \in {"close", "reclose"}
      PROVE  conn'[d] = "closed" \/ \A h \in Handles : peer'[h] # d
  <2>1. CASE pc[d] \in {"close", "reclose"}
    BY <1>1, <1>2, <2>1, SharedTypes DEF OnceContext, OnceInv, OwnStream
  <2>2. CASE pc[d] \notin {"close", "reclose"}
    <3>1. d = c /\ RecvEnd(c)
      BY <1>1, <1>8, <2>2, SharedTypes
      DEF ThreadStep, BroadcastJoin, BroadcastChat, BroadcastLeft, BroadcastStep, JoinEnd,
          LeftEnd, BroadcastEnd, CallRecv, RecvData, WriteCommand, ChatEnd, GoTo,
          CloseSocket, CloseSocketAgain, FreeSlot, Detach, OnceContext
    <3>2. /\ pc[c] = "recv"
          /\ src[c] \in Clients => ~ServerOpen(src[c]) \/ conn[src[c]] = "closed"
      BY <3>1 DEF RecvEnd, GoTo
    <3>3. conn[c] = "closed" \/ \A h \in Handles : peer[h] # c
      BY <3>2 DEF OnceContext, OnceInv, OwnStream, ServerOpen
    <3> QED BY <1>1, <1>2, <3>1, <3>3, SharedTypes DEF OnceContext
  <2> QED BY <2>1, <2>2
<1>9. OwnStream'
  BY <1>1, <1>6, <1>7, <1>8 DEF OwnStream
<1> QED BY <1>5, <1>9, ThreadNews DEF OnceInv

LEMMA OnceStarts == Init => OnceContext
BY OwnerStarts, SocketStarts, ConstantsAssumption
DEF Init, OnceContext, OnceInv, Distinct, OwnStream, NoOwnNews, Placing, MainHolds,
    InSession, SessionPC

LEMMA OnceStep == ~ReuseWhileHeld /\ OnceContext /\ [Next]_vars => OnceContext'
<1> SUFFICES ASSUME ~ReuseWhileHeld, OnceContext, [Next]_vars PROVE OnceInv'
  BY OwnerStep, SocketStep DEF OnceContext
<1>1. CASE \E c \in Clients : ClientStep(c)
  BY <1>1, ClientOnce
<1>2. CASE AcceptStep
  BY <1>2, AcceptOnce DEF AcceptStep
<1>3. CASE MainStep
  BY <1>3, MainOnce
<1>4. CASE \E c \in Clients : ThreadStep(c)
  BY <1>4, ThreadOnce
<1>5. CASE OpenPort \/ SetUpPort \/ UNCHANGED vars
  <2>1. UNCHANGED <<inbox, conn, backlog, peer, client, mainVars, threadVars>>
    BY <1>5 DEF OpenPort, SetUpPort, vars, netVars, inboxVars
  <2>2. Distinct' /\ NoOwnNews'
    BY <2>1
    DEF OnceContext, OnceInv, Distinct, NoOwnNews, Placing, MainHolds, mainVars
  <2>3. OwnStream'
    BY <2>1 DEF OnceContext, OnceInv, OwnStream, InSession, PeerOf, threadVars
  <2> QED BY <2>2, <2>3 DEF OnceInv
<1> QED
  BY <1>1, <1>2, <1>3, <1>4, <1>5 DEF Next

LEMMA OnceInvariant ==
  ASSUME ~ReuseWhileHeld PROVE Spec => []OnceContext
BY OnceStarts, OnceStep, PTL DEF Spec

\* NoSelfEcho holds in every state if accept() gives out no value that a slot
\* still holds, for every number of clients and slots: the test for the thread's own index
\* (main.cpp:104,187) is enough although slots change owners under the loop.
THEOREM NoClientHearsItself ==
  ASSUME ~ReuseWhileHeld PROVE Spec => []NoSelfEcho
<1>1. OnceContext => NoSelfEcho
  <2> SUFFICES ASSUME OnceContext, NEW c \in Clients, NEW m \in MessagesOf(c),
                      m.kind \in {"join", "chat", "left"}
               PROVE  m.from # c
    BY DEF NoSelfEcho
  <2>1. inbox[c] \in Seq(Messages)
    BY DEF OnceContext, OwnerInv, TypeInv, TypeOK, NetworkTypeOK
  <2>2. PICK k \in 1 .. Len(inbox[c]) : m = inbox[c][k]
    BY <2>1 DEF MessagesOf, ToSet
  <2> QED
    BY <2>2 DEF OnceContext, OnceInv, NoOwnNews
<1> QED
  BY <1>1, OnceInvariant, PTL
===============================================================================
