--------------------------- MODULE ChatServerProofs ---------------------------
(***************************************************************************)
(* Proofs about ChatServer, for any number of connections, SOCKET values   *)
(* and slots, whatever SOCKET values accept() gives out again.             *)
(***************************************************************************)
EXTENDS ChatServer, TLAPS

\* What main knows between an accept and the next one.
Engaged ==
  /\ mpc # "accept" => newcomer \in Clients /\ incoming \in Handles
  /\ mpc \in {"sendid", "welcome", "spawn", "assign"} => temp_id \in Slots

\* A thread about to write to the port holds one command.
HoldsCommand ==
  \A c \in Clients : pc[c] = "uart" => said[c] \in Commands

\* TypeOK made inductive.
TypeInv == TypeOK /\ Engaged /\ HoldsCommand

\* main is working on a newcomer it has not started a thread for.
Placing == mpc \in {"scan", "sendid", "welcome", "spawn", "full"}

\* A connection gets one thread in its life: it is in the backlog once, then
\* main's newcomer once.
OneThread ==
  /\ \A c \in Clients : conn[c] = "off" => c \notin backlog
  /\ \A c \in Clients : conn[c] = "off" \/ c \in backlog => pc[c] = "none"
  /\ Placing => newcomer \notin backlog /\ conn[newcomer] # "off" /\ pc[newcomer] = "none"

\* OneOwner made inductive.
OwnerInv == TypeInv /\ OneThread /\ OneOwner

-------------------------------------------------------------------------------
(* Type correctness. *)

\* What send() does to the inboxes keeps their type.
LEMMA SendType ==
  ASSUME inbox \in [Clients -> Seq(Messages)], full \subseteq SlowClients,
         NEW h, NEW m \in Messages, Send(h, m)
  PROVE  inbox' \in [Clients -> Seq(Messages)] /\ full' \subseteq SlowClients
<1>1. CASE UNCHANGED inboxVars
  BY <1>1 DEF inboxVars
<1>2. CASE PeerOf(h) \in Clients /\ Deliver(PeerOf(h), m)
  <2>1. full' \subseteq SlowClients
    BY <1>2 DEF Deliver
  <2>2. inbox' \in [Clients -> Seq(Messages)]
    BY <1>2 DEF Deliver
  <2> QED
    BY <2>1, <2>2
<1> QED
  BY <1>1, <1>2 DEF Send

\* A message built by the server is one.
LEMMA MsgType ==
  ASSUME NEW kind \in {"id", "welcome", "full", "join", "chat", "left"},
         NEW c \in Clients
  PROVE  Msg(kind, c) \in Messages
BY DEF Msg, Messages

\* A slot index of the table, and the bounds of the loops over it.
LEMMA SlotRange ==
  /\ 0 \in Slots /\ 0 \in 0 .. MaxClients
  /\ \A i \in 0 .. MaxClients : i < MaxClients => i \in Slots /\ i + 1 \in 0 .. MaxClients
BY ConstantsAssumption DEF Slots

\* The clients' steps touch the network only.
LEMMA ClientType ==
  ASSUME TypeInv, NEW c \in Clients, ClientStep(c)
  PROVE  TypeInv'
<1> USE DEF TypeInv, TypeOK, NetworkTypeOK, netVars, inboxVars, uartVars, mainVars, threadVars
<1>1. NetworkTypeOK'
  <2>1. CASE Connect(c)
    BY <2>1 DEF Connect
  <2>2. ASSUME NEW t \in Texts, Transmit(c, t)
        PROVE  NetworkTypeOK'
    <3>1. t \in Seq(Pieces)
      BY ConstantsAssumption
    <3>2. sent[c] \o t \in Seq(Pieces) /\ outbox[c] \o t \in Seq(Pieces)
      BY <3>1
    <3>3. /\ sent' = [sent EXCEPT ![c] = sent[c] \o t]
          /\ outbox' = [outbox EXCEPT ![c] = outbox[c] \o t]
          /\ UNCHANGED <<conn, backlog, inbox, full>>
      BY <2>2 DEF Transmit
    <3> QED
      BY <3>2, <3>3
  <2>3. CASE ClientClose(c)
    <3>1. [outbox EXCEPT ![c] = <<>>] \in [Clients -> Seq(Pieces)]
      OBVIOUS
    <3>2. outbox' \in [Clients -> Seq(Pieces)]
      BY <2>3, <3>1 DEF ClientClose
    <3>3. conn' \in [Clients -> {"off", "open", "closed"}]
      BY <2>3 DEF ClientClose
    <3> QED
      BY <2>3, <3>2, <3>3 DEF ClientClose
  <2>4. CASE Drain(c)
    BY <2>4 DEF Drain
  <2> QED
    BY <2>1, <2>2, <2>3, <2>4 DEF ClientStep, ClientSend
<1>2. UNCHANGED <<peer, client, my_thread, uartVars, terminated, mainVars, threadVars>>
  BY DEF ClientStep, Connect, ClientSend, Transmit, Drain, ClientClose
<1> QED
  BY <1>1, <1>2 DEF SharedTypeOK, MainTypeOK, ThreadTypeOK, Engaged, HoldsCommand

\* accept() gives main a connection and an open socket.
LEMMA AcceptType ==
  ASSUME TypeInv, NEW c \in Clients, NEW h \in Handles, Accept(c, h)
  PROVE  TypeInv'
<1> USE DEF TypeInv, TypeOK, netVars, inboxVars, uartVars, mainVars, threadVars,
            Accept, TakeConnection
<1>1. NetworkTypeOK'
  BY DEF NetworkTypeOK
<1>2. SharedTypeOK'
  <2>1. peer' \in [Handles -> Clients \cup {NoClient}]
    BY DEF SharedTypeOK
  <2> QED
    BY <2>1 DEF SharedTypeOK
<1>3. MainTypeOK' /\ Engaged'
  BY SlotRange DEF MainTypeOK, MainPC, Engaged
<1>4. ThreadTypeOK' /\ HoldsCommand'
  BY DEF ThreadTypeOK, HoldsCommand
<1> QED
  BY <1>1, <1>2, <1>3, <1>4

\* main's other steps find the connection and the slot they need.
LEMMA MainType ==
  ASSUME TypeInv, MainStep
  PROVE  TypeInv'
<1> USE DEF TypeInv, TypeOK, netVars, inboxVars, uartVars, mainVars, threadVars
<1>1. ASSUME NEW h, NEW kind \in {"id", "welcome", "full"},
             newcomer \in Clients, Send(h, Msg(kind, newcomer)), UNCHANGED netVars
      PROVE  NetworkTypeOK'
  BY <1>1, SendType, MsgType DEF NetworkTypeOK
<1>2. CASE Scan
  <2>1. scan \in Slots /\ scan' \in 0 .. MaxClients
    BY <1>2, SlotRange DEF Scan, MainTypeOK
  <2>2. SharedTypeOK'
    <3>1. client' \in [Slots -> Handles \cup {INVALID_SOCKET}]
      BY <1>2, <2>1 DEF Scan, SharedTypeOK, MainTypeOK
    <3> QED
      BY <1>2, <3>1 DEF Scan, SharedTypeOK
  <2>3. MainTypeOK' /\ Engaged'
    BY <1>2, <2>1 DEF Scan, MainTypeOK, Engaged
  <2> QED
    BY <1>2, <2>2, <2>3 DEF Scan, NetworkTypeOK, ThreadTypeOK, HoldsCommand
<1>3. CASE ScanEnd
  <2>1. MainTypeOK' /\ Engaged'
    BY <1>3 DEF ScanEnd, MainTypeOK, MainPC, Engaged
  <2> QED
    BY <1>3, <2>1 DEF ScanEnd, NetworkTypeOK, SharedTypeOK, ThreadTypeOK, HoldsCommand
<1>4. CASE SendId
  <2>1. NetworkTypeOK'
    BY <1>1, <1>4 DEF SendId, Engaged
  <2>2. MainTypeOK' /\ Engaged'
    BY <1>4 DEF SendId, MainTypeOK, MainPC, Engaged
  <2> QED
    BY <1>4, <2>1, <2>2 DEF SendId, SharedTypeOK, ThreadTypeOK, HoldsCommand
<1>5. CASE SendWelcome
  <2>1. NetworkTypeOK'
    BY <1>1, <1>5 DEF SendWelcome, Engaged
  <2>2. MainTypeOK' /\ Engaged'
    BY <1>5 DEF SendWelcome, MainTypeOK, MainPC, Engaged
  <2> QED
    BY <1>5, <2>1, <2>2 DEF SendWelcome, SharedTypeOK, ThreadTypeOK, HoldsCommand
<1>6. CASE Spawn
  <2>1. newcomer \in Clients /\ temp_id \in Slots
    BY <1>6 DEF Spawn, Engaged
  <2>2. ThreadTypeOK'
    BY <1>6, <2>1, SlotRange DEF Spawn, ThreadTypeOK, ThreadPC, SessionPC
  <2>3. MainTypeOK' /\ Engaged'
    BY <1>6 DEF Spawn, MainTypeOK, MainPC, Engaged
  <2>4. HoldsCommand'
    BY <1>6 DEF Spawn, HoldsCommand, ThreadTypeOK
  <2> QED
    BY <1>6, <2>2, <2>3, <2>4 DEF Spawn, NetworkTypeOK, SharedTypeOK
<1>7. CASE Assign
  <2>1. newcomer \in Clients /\ temp_id \in Slots
    BY <1>7 DEF Assign, Engaged
  <2>2. SharedTypeOK'
    BY <1>7, <2>1 DEF Assign, SharedTypeOK
  <2>3. MainTypeOK' /\ Engaged'
    BY <1>7, SlotRange DEF Assign, NextRound, MainTypeOK, MainPC, Engaged
  <2> QED
    BY <1>7, <2>2, <2>3 DEF Assign, NetworkTypeOK, ThreadTypeOK, HoldsCommand
<1>8. CASE SendFull
  <2>1. NetworkTypeOK'
    BY <1>1, <1>8 DEF SendFull, Engaged
  <2>2. MainTypeOK' /\ Engaged'
    BY <1>8, SlotRange DEF SendFull, NextRound, MainTypeOK, MainPC, Engaged
  <2> QED
    BY <1>8, <2>1, <2>2 DEF SendFull, SharedTypeOK, ThreadTypeOK, HoldsCommand
<1> QED
  BY <1>2, <1>3, <1>4, <1>5, <1>6, <1>7, <1>8 DEF MainStep

\* A thread's position moves between positions of process_client.
LEMMA GoToType ==
  ASSUME pc \in [Clients -> ThreadPC], NEW c \in Clients,
         NEW from, NEW to \in ThreadPC, GoTo(c, from, to)
  PROVE  /\ pc' \in [Clients -> ThreadPC]
         /\ pc'[c] = to
         /\ \A d \in Clients \ {c} : pc'[d] = pc[d]
BY DEF GoTo

\* A step of a thread's loop that leaves said alone, and does not go on to
\* write a command, keeps HoldsCommand.
LEMMA NoNewCommand ==
  ASSUME TypeInv, NEW c \in Clients, NEW from, NEW to \in ThreadPC \ {"uart"},
         GoTo(c, from, to), \A d \in Clients \ {c} : said'[d] = said[d]
  PROVE  HoldsCommand'
<1>1. pc \in [Clients -> ThreadPC]
  BY DEF TypeInv, TypeOK, ThreadTypeOK
<1>2. pc'[c] # "uart" /\ \A d \in Clients \ {c} : pc'[d] = pc[d]
  BY <1>1, GoToType
<1> QED
  BY <1>2 DEF HoldsCommand, TypeInv

\* The rounds of the three broadcast loops.
LEMMA BroadcastType ==
  ASSUME TypeInv, NEW c \in Clients, NEW pos,
         NEW kind \in {"join", "chat", "left"}, NEW everyone,
         BroadcastStep(c, pos, kind, everyone)
  PROVE  TypeInv'
<1> USE DEF TypeInv, TypeOK, netVars, inboxVars, uartVars, mainVars, BroadcastStep
<1>1. NetworkTypeOK'
  BY MsgType, SendType DEF NetworkTypeOK
<1>2. ThreadTypeOK'
  <2>1. idx' \in [Clients -> 0 .. MaxClients]
    BY SlotRange DEF ThreadTypeOK
  <2> QED
    BY <2>1 DEF ThreadTypeOK
<1> QED
  BY <1>1, <1>2 DEF SharedTypeOK, MainTypeOK, Engaged, HoldsCommand

\* The ends of the first and the last broadcast loop.
LEMMA BroadcastEndType ==
  ASSUME TypeInv, NEW c \in Clients, NEW from, NEW to \in ThreadPC \ {"uart"},
         BroadcastEnd(c, from, to)
  PROVE  TypeInv'
<1> USE DEF TypeInv, TypeOK, netVars, inboxVars, uartVars, mainVars, BroadcastEnd
<1>1. ThreadTypeOK'
  BY GoToType, SlotRange DEF ThreadTypeOK
<1>2. HoldsCommand'
  BY NoNewCommand
<1> QED
  BY <1>1, <1>2 DEF NetworkTypeOK, SharedTypeOK, MainTypeOK, Engaged

\* A thread that has received a buffer goes to write it only if it is one
\* command.
LEMMA RecvDataType ==
  ASSUME TypeInv, NEW c \in Clients, NEW k \in 1 .. MaxSent, RecvData(c, k)
  PROVE  TypeInv'
<1> USE DEF TypeInv, TypeOK, inboxVars, uartVars, mainVars, RecvData
<1> DEFINE buffer == SubSeq(outbox[src[c]], 1, k)
           rest == SubSeq(outbox[src[c]], k + 1, Len(outbox[src[c]]))
           to == IF buffer \in Commands THEN "uart" ELSE "chat"
<1>1. /\ k \in Nat /\ 1 <= k
      /\ outbox[src[c]] \in Seq(Pieces) /\ k <= Len(outbox[src[c]])
  BY DEF NetworkTypeOK
<1>2. buffer \in Seq(Pieces) /\ Len(buffer) = k /\ rest \in Seq(Pieces)
  BY <1>1
<1>3. said' = [said EXCEPT ![c] = buffer] /\ GoTo(c, "recv", to) /\ to \in ThreadPC
  BY DEF ThreadPC, SessionPC
<1>4. ThreadTypeOK'
  BY <1>2, <1>3, GoToType DEF ThreadTypeOK
<1>5. NetworkTypeOK'
  <2>1. outbox' \in [Clients -> Seq(Pieces)]
    BY <1>2 DEF NetworkTypeOK
  <2> QED
    BY <2>1 DEF NetworkTypeOK
<1>6. HoldsCommand'
  <2> SUFFICES ASSUME NEW d \in Clients, pc'[d] = "uart"
               PROVE  said'[d] \in Commands
    BY DEF HoldsCommand
  <2>1. CASE d = c
    <3>1. said'[c] = buffer /\ pc'[c] = to
      BY <1>3, GoToType DEF ThreadTypeOK
    <3>2. buffer \in Commands
      BY <2>1, <3>1
    <3> QED
      BY <2>1, <3>1, <3>2
  <2>2. CASE d # c
    BY <1>3, <2>2, GoToType DEF ThreadTypeOK, HoldsCommand
  <2> QED
    BY <2>1, <2>2
<1> QED
  BY <1>4, <1>5, <1>6 DEF SharedTypeOK, MainTypeOK, Engaged

\* The steps of a process_client thread.
LEMMA ThreadType ==
  ASSUME TypeInv, NEW c \in Clients, ThreadStep(c)
  PROVE  TypeInv'
<1> USE DEF TypeInv, TypeOK, netVars, inboxVars, uartVars, mainVars
<1>1. {"call", "recv", "chat", "close", "reclose", "free", "left", "detach", "done"}
        \subseteq ThreadPC \ {"uart"}
  BY DEF ThreadPC, SessionPC
<1>2. CASE BroadcastJoin(c) \/ BroadcastChat(c) \/ BroadcastLeft(c)
  BY <1>2, BroadcastType DEF BroadcastJoin, BroadcastChat, BroadcastLeft
<1>3. CASE JoinEnd(c) \/ LeftEnd(c)
  BY <1>1, <1>3, BroadcastEndType DEF JoinEnd, LeftEnd
<1>4. CASE CallRecv(c)
  <2>1. PeerOf(client[slot[c]]) \in Clients \cup {NoClient}
    BY DEF PeerOf, SharedTypeOK
  <2>2. ThreadTypeOK' /\ HoldsCommand'
    BY <1>1, <1>4, <2>1, GoToType, NoNewCommand DEF CallRecv, ThreadTypeOK
  <2> QED
    BY <1>4, <2>2 DEF CallRecv, NetworkTypeOK, SharedTypeOK, MainTypeOK, Engaged
<1>5. CASE \E k \in 1 .. MaxSent : RecvData(c, k)
  BY <1>5, RecvDataType
<1>6. CASE RecvEnd(c)
  <2>1. ThreadTypeOK' /\ HoldsCommand'
    BY <1>1, <1>6, GoToType, NoNewCommand DEF RecvEnd, ThreadTypeOK
  <2> QED
    BY <1>6, <2>1 DEF RecvEnd, NetworkTypeOK, SharedTypeOK, MainTypeOK, Engaged
<1>7. CASE WriteCommand(c)
  <2> DEFINE Entries == [from : Clients, text : Commands, whole : BOOLEAN]
  <2>1. \A w \in BOOLEAN : [from |-> c, text |-> said[c], whole |-> w] \in Entries
    BY <1>7 DEF WriteCommand, GoTo, HoldsCommand
  <2>2. wire' \in Seq(Entries)
    <3>1. wire \in Seq(Entries)
      BY DEF SharedTypeOK
    <3>2. CASE UNCHANGED wire
      BY <3>1, <3>2
    <3>3. ASSUME NEW w \in BOOLEAN,
                 wire' = Append(wire, [from |-> c, text |-> said[c], whole |-> w])
          PROVE  wire' \in Seq(Entries)
      BY <2>1, <3>1, <3>3
    <3> QED
      BY <1>7, <3>2, <3>3 DEF WriteCommand
  <2>3. ThreadTypeOK' /\ HoldsCommand'
    BY <1>1, <1>7, GoToType, NoNewCommand DEF WriteCommand, ThreadTypeOK
  <2> QED
    BY <1>7, <2>2, <2>3 DEF WriteCommand, NetworkTypeOK, SharedTypeOK, MainTypeOK, Engaged
<1>8. CASE ChatEnd(c)
  <2>1. ThreadTypeOK'
    BY <1>1, <1>8, GoToType, SlotRange DEF ChatEnd, ThreadTypeOK
  <2>2. HoldsCommand'
    BY <1>1, <1>8, NoNewCommand DEF ChatEnd, ThreadTypeOK
  <2> QED
    BY <1>8, <2>1, <2>2 DEF ChatEnd, NetworkTypeOK, SharedTypeOK, MainTypeOK, Engaged
<1>9. CASE CloseSocket(c) \/ CloseSocketAgain(c)
  <2>1. peer' \in [Handles -> Clients \cup {NoClient}]
    BY <1>9 DEF CloseSocket, CloseSocketAgain, Close, SharedTypeOK
  <2>2. ThreadTypeOK' /\ HoldsCommand'
    BY <1>1, <1>9, GoToType, NoNewCommand DEF CloseSocket, CloseSocketAgain, ThreadTypeOK
  <2> QED
    BY <1>9, <2>1, <2>2
    DEF CloseSocket, CloseSocketAgain, NetworkTypeOK, SharedTypeOK, MainTypeOK, Engaged
<1>10. CASE FreeSlot(c)
  <2>1. client' \in [Slots -> Handles \cup {INVALID_SOCKET}]
    BY <1>10 DEF FreeSlot, SharedTypeOK
  <2>2. ThreadTypeOK' /\ HoldsCommand'
    BY <1>1, <1>10, GoToType, NoNewCommand DEF FreeSlot, ThreadTypeOK
  <2> QED
    BY <1>10, <2>1, <2>2 DEF FreeSlot, NetworkTypeOK, SharedTypeOK, MainTypeOK, Engaged
<1>11. CASE Detach(c)
  <2>1. SharedTypeOK'
    BY <1>11 DEF Detach, SharedTypeOK
  <2>2. ThreadTypeOK' /\ HoldsCommand'
    BY <1>1, <1>11, GoToType, NoNewCommand DEF Detach, ThreadTypeOK
  <2> QED
    BY <1>11, <2>1, <2>2 DEF Detach, NetworkTypeOK, MainTypeOK, Engaged
<1> QED
  BY <1>2, <1>3, <1>4, <1>5, <1>6, <1>7, <1>8, <1>9, <1>10, <1>11 DEF ThreadStep

\* At the start nobody holds anything.
LEMMA TypeStarts == Init => TypeInv
<1> SUFFICES ASSUME Init PROVE TypeInv
  OBVIOUS
<1>1. NetworkTypeOK
  BY DEF Init, NetworkTypeOK
<1>2. SharedTypeOK
  <2>1. wire \in Seq([from : Clients, text : Commands, whole : BOOLEAN])
    BY DEF Init
  <2>2. hCom \in Ports
    BY ConstantsAssumption DEF Init, Ports
  <2> QED
    BY <2>1, <2>2 DEF Init, SharedTypeOK
<1>3. MainTypeOK /\ Engaged
  BY SlotRange DEF Init, MainTypeOK, MainPC, Engaged
<1>4. ThreadTypeOK /\ HoldsCommand
  BY SlotRange DEF Init, ThreadTypeOK, ThreadPC, HoldsCommand
<1> QED
  BY <1>1, <1>2, <1>3, <1>4 DEF TypeInv, TypeOK

\* Every step keeps what main and the threads know of their own positions.
LEMMA TypeStep == TypeInv /\ [Next]_vars => TypeInv'
<1> SUFFICES ASSUME TypeInv, [Next]_vars PROVE TypeInv'
  OBVIOUS
<1>1. CASE \E c \in Clients : ClientStep(c)
  BY <1>1, ClientType
<1>2. CASE AcceptStep
  BY <1>2, AcceptType DEF AcceptStep
<1>3. CASE MainStep
  BY <1>3, MainType
<1>4. CASE \E c \in Clients : ThreadStep(c)
  BY <1>4, ThreadType
<1>5. CASE OpenPort \/ SetUpPort
  BY <1>5 DEF OpenPort, SetUpPort, TypeInv, TypeOK, NetworkTypeOK, SharedTypeOK, Ports,
              MainTypeOK, ThreadTypeOK, Engaged, HoldsCommand,
              netVars, inboxVars, mainVars, threadVars
<1>6. CASE UNCHANGED vars
  BY <1>6 DEF vars, TypeInv, TypeOK, NetworkTypeOK, SharedTypeOK, MainTypeOK, ThreadTypeOK,
              Engaged, HoldsCommand, netVars, inboxVars, uartVars, mainVars, threadVars
<1> QED
  BY <1>1, <1>2, <1>3, <1>4, <1>5, <1>6 DEF Next

LEMMA TypeInvariant == Spec => []TypeInv
BY TypeStarts, TypeStep, PTL DEF Spec

\* TypeOK holds in every state, for every number of clients, slots and
\* SOCKET values: no index of process_client or main leaves client[], only
\* commands are written to the port, and a slot holds what accept() returned.
THEOREM TypeCorrect == Spec => []TypeOK
<1>1. TypeInv => TypeOK
  BY DEF TypeInv
<1> QED
  BY <1>1, TypeInvariant, PTL

-------------------------------------------------------------------------------
(* Who owns a slot. *)

\* A step that moves neither slots nor ownership keeps OneOwner.
LEMMA OwnersKept ==
  ASSUME OneOwner, UNCHANGED <<client, slot>>,
         \A c \in Clients : InSession(c)' <=> InSession(c),
         \A i \in Slots : MainHolds(i)' <=> MainHolds(i)
  PROVE  OneOwner'
BY DEF OneOwner

\* The clients' steps start no thread and take no slot.
LEMMA ClientOwner ==
  ASSUME OwnerInv, NEW c \in Clients, ClientStep(c)
  PROVE  OneThread' /\ OneOwner'
<1> USE DEF netVars, inboxVars, uartVars, mainVars, threadVars
<1>1. UNCHANGED <<client, slot, pc, mpc, newcomer, temp_id>>
  BY DEF ClientStep, Connect, ClientSend, Transmit, Drain, ClientClose
<1>2. OneOwner'
  BY <1>1, OwnersKept DEF OwnerInv, InSession, MainHolds
<1>3. conn \in [Clients -> {"off", "open", "closed"}] /\ (Placing => newcomer \in Clients)
  BY DEF OwnerInv, TypeInv, TypeOK, NetworkTypeOK, Engaged, Placing
<1>4. CASE Connect(c)
  <2>1. conn[c] = "off" /\ conn' = [conn EXCEPT ![c] = "open"] /\ backlog' = backlog \cup {c}
    BY <1>4 DEF Connect
  <2> QED
    BY <1>1, <1>2, <1>3, <2>1 DEF OneThread, Placing, OwnerInv
<1>5. CASE (\E t \in Texts : ClientSend(c, t)) \/ Drain(c)
  <2>1. UNCHANGED <<conn, backlog>>
    BY <1>5 DEF ClientSend, Transmit, Drain
  <2> QED
    BY <1>1, <1>2, <2>1 DEF OneThread, Placing, OwnerInv
<1>6. CASE ClientClose(c)
  <2>1. UNCHANGED backlog /\ conn[c] = "open" /\ conn' = [conn EXCEPT ![c] = "closed"]
    BY <1>6 DEF ClientClose
  <2> QED
    BY <1>1, <1>2, <1>3, <2>1 DEF OneThread, Placing, OwnerInv
<1> QED
  BY <1>4, <1>5, <1>6 DEF ClientStep

\* accept() takes a connection out of the backlog; main has no slot for it yet.
LEMMA AcceptOwner ==
  ASSUME OwnerInv, NEW c \in Clients, NEW h \in Handles, Accept(c, h)
  PROVE  OneThread' /\ OneOwner'
<1> USE DEF netVars, inboxVars, uartVars, mainVars, threadVars, Accept, TakeConnection
<1>1. OneOwner'
  <2>1. \A i \in Slots : ~MainHolds(i) /\ ~MainHolds(i)'
    BY ConstantsAssumption DEF MainHolds, Slots
  <2>2. \A d \in Clients : InSession(d)' <=> InSession(d)
    BY DEF InSession
  <2> QED
    BY <2>1, <2>2, OwnersKept DEF OwnerInv
<1>2. OneThread'
  BY DEF OwnerInv, OneThread, Placing
<1> QED
  BY <1>1, <1>2

\* main takes a free slot for the newcomer and hands it to one new thread.
LEMMA MainOwner ==
  ASSUME OwnerInv, MainStep
  PROVE  OneThread' /\ OneOwner'
<1> USE DEF netVars, inboxVars, uartVars, mainVars, threadVars
<1>1. CASE Scan
  <2>1. scan \in Slots /\ incoming # INVALID_SOCKET
    BY <1>1, SlotRange, ConstantsAssumption
    DEF Scan, OwnerInv, TypeInv, TypeOK, MainTypeOK, Engaged
  <2>2. UNCHANGED <<pc, slot, mpc>> /\ \A c \in Clients : InSession(c)' <=> InSession(c)
    BY <1>1 DEF Scan, InSession
  <2>3. CASE client[scan] = INVALID_SOCKET /\ temp_id = -1
    <3>1. /\ client' = [client EXCEPT ![scan] = incoming]
          /\ client'[scan] = incoming
          /\ \A i \in Slots \ {scan} : client'[i] = client[i]
      BY <1>1, <2>1, <2>3 DEF Scan, OwnerInv, TypeInv, TypeOK, SharedTypeOK
    <3>2. \A i \in Slots : ~MainHolds(i)
      BY <2>3, ConstantsAssumption DEF MainHolds, Slots
    <3>3. \A i \in Slots : MainHolds(i)' <=> i = scan
      BY <1>1, <2>3 DEF Scan, MainHolds
    <3>4. \A c \in Clients : InSession(c) => slot[c] # scan /\ slot[c] \in Slots
      BY <2>3 DEF OwnerInv, OneOwner, TypeInv, TypeOK, ThreadTypeOK
    <3> QED
      <4>1. OneThread'
        BY <1>1 DEF Scan, OwnerInv, OneThread, Placing
      <4>2. \A c \in Clients : InSession(c)' => client'[slot'[c]] # INVALID_SOCKET
        BY <2>2, <3>1, <3>4 DEF OwnerInv, OneOwner
      <4>3. \A c, d \in Clients :
              InSession(c)' /\ InSession(d)' /\ slot'[c] = slot'[d] => c = d
        BY <2>2 DEF OwnerInv, OneOwner
      <4>4. \A i \in Slots : MainHolds(i)' =>
              client'[i] # INVALID_SOCKET /\ \A c \in Clients : InSession(c)' => slot'[c] # i
        BY <2>1, <2>2, <3>1, <3>3, <3>4
      <4>5. \A i \in Slots : client'[i] # INVALID_SOCKET =>
              MainHolds(i)' \/ \E c \in Clients : InSession(c)' /\ slot'[c] = i
        BY <2>2, <3>1, <3>2, <3>3 DEF OwnerInv, OneOwner
      <4> QED
        BY <4>1, <4>2, <4>3, <4>4, <4>5 DEF OneOwner
  <2>4. CASE ~(client[scan] = INVALID_SOCKET /\ temp_id = -1)
    <3>1. UNCHANGED <<client, temp_id>>
      BY <1>1, <2>4 DEF Scan
    <3>2. \A i \in Slots : MainHolds(i)' <=> MainHolds(i)
      BY <2>2, <3>1 DEF MainHolds
    <3>3. OneThread'
      BY <1>1 DEF Scan, OwnerInv, OneThread, Placing
    <3> QED
      BY <2>2, <3>1, <3>2, <3>3, OwnersKept DEF OwnerInv
  <2> QED
    BY <2>3, <2>4
<1>2. CASE ScanEnd \/ SendId \/ SendWelcome
  <2>1. UNCHANGED <<client, slot, pc, temp_id, newcomer, conn, backlog>>
    BY <1>2 DEF ScanEnd, SendId, SendWelcome
  <2>2. \A i \in Slots : MainHolds(i)' <=> MainHolds(i)
    BY <1>2, ConstantsAssumption DEF ScanEnd, SendId, SendWelcome, MainHolds, Slots
  <2>3. OneThread'
    BY <1>2, <2>1 DEF ScanEnd, SendId, SendWelcome, OwnerInv, OneThread, Placing
  <2> QED
    BY <2>1, <2>2, <2>3, OwnersKept DEF OwnerInv, InSession
<1>3. CASE Spawn
  <2>1. newcomer \in Clients /\ temp_id \in Slots /\ ~InSession(newcomer)
    BY <1>3 DEF Spawn, OwnerInv, TypeInv, Engaged, OneThread, Placing, InSession, SessionPC
  <2>2. /\ newcomer' = newcomer /\ slot'[newcomer] = temp_id /\ pc'[newcomer] = "join"
        /\ \A c \in Clients \ {newcomer} : slot'[c] = slot[c] /\ pc'[c] = pc[c]
    BY <1>3, <2>1 DEF Spawn, OwnerInv, TypeInv, TypeOK, ThreadTypeOK
  <2>3. /\ InSession(newcomer)'
        /\ \A c \in Clients \ {newcomer} : InSession(c)' <=> InSession(c)
    <3>1. \A c \in Clients \ {newcomer} : InSession(c)' <=> InSession(c)
      BY <2>2 DEF InSession
    <3>2. InSession(newcomer)'
      BY <2>2 DEF InSession, SessionPC
    <3> QED
      BY <3>1, <3>2
  <2>4. \A i \in Slots : ~MainHolds(i)' /\ (MainHolds(i) <=> i = temp_id)
    BY <1>3 DEF Spawn, MainHolds
  <2>5. OneOwner'
    <3>1. UNCHANGED client
      BY <1>3 DEF Spawn
    <3>2. client[temp_id] # INVALID_SOCKET
          /\ \A c \in Clients : InSession(c) => slot[c] # temp_id
      BY <2>1, <2>4 DEF OwnerInv, OneOwner
    <3>3. \A c \in Clients : InSession(c)' => client'[slot'[c]] # INVALID_SOCKET
      BY <2>2, <2>3, <3>1, <3>2 DEF OwnerInv, OneOwner
    <3>4. \A c, d \in Clients :
            InSession(c)' /\ InSession(d)' /\ slot'[c] = slot'[d] => c = d
      BY <2>2, <2>3, <3>2 DEF OwnerInv, OneOwner
    <3>5. \A i \in Slots : client'[i] # INVALID_SOCKET =>
            \E c \in Clients : InSession(c)' /\ slot'[c] = i
      <4> SUFFICES ASSUME NEW i \in Slots, client[i] # INVALID_SOCKET
                   PROVE  \E c \in Clients : InSession(c)' /\ slot'[c] = i
        BY <3>1
      <4>1. CASE i = temp_id
        BY <2>1, <2>2, <2>3, <4>1
      <4>2. CASE i # temp_id
        <5>1. PICK c \in Clients : InSession(c) /\ slot[c] = i
          BY <2>4, <4>2 DEF OwnerInv, OneOwner
        <5> QED
          BY <2>1, <2>2, <2>3, <5>1
      <4> QED
        BY <4>1, <4>2
    <3> QED
      BY <2>4, <3>3, <3>4, <3>5 DEF OneOwner
  <2>6. OneThread'
    BY <1>3, <2>1, <2>2 DEF Spawn, OwnerInv, OneThread, Placing
  <2> QED
    BY <2>5, <2>6
<1>4. CASE Assign \/ SendFull
  <2>1. UNCHANGED <<client, slot, pc, conn, backlog>>
    BY <1>4 DEF Assign, SendFull
  <2>2. \A i \in Slots : ~MainHolds(i) /\ ~MainHolds(i)'
    BY <1>4 DEF Assign, SendFull, NextRound, MainHolds
  <2>3. OneThread'
    BY <1>4, <2>1 DEF Assign, SendFull, NextRound, OwnerInv, OneThread, Placing
  <2> QED
    BY <2>1, <2>2, <2>3, OwnersKept DEF OwnerInv, InSession
<1> QED
  BY <1>1, <1>2, <1>3, <1>4 DEF MainStep

\* A thread frees the one slot it owns, once; its other steps keep it.
LEMMA ThreadOwner ==
  ASSUME OwnerInv, NEW c \in Clients, ThreadStep(c)
  PROVE  OneThread' /\ OneOwner'
<1> USE DEF netVars, inboxVars, uartVars, mainVars
<1>1. /\ UNCHANGED <<slot, mpc, temp_id, newcomer, conn, backlog>>
      /\ pc[c] # "none"
      /\ \A d \in Clients \ {c} : pc'[d] = pc[d]
  BY DEF ThreadStep, BroadcastJoin, BroadcastChat, BroadcastLeft, BroadcastStep, JoinEnd,
         LeftEnd, BroadcastEnd, CallRecv, RecvData, RecvEnd, WriteCommand, ChatEnd,
         CloseSocket, CloseSocketAgain, FreeSlot, Detach, GoTo,
         OwnerInv, TypeInv, TypeOK, ThreadTypeOK
<1>2. \A i \in Slots : MainHolds(i)' <=> MainHolds(i)
  BY <1>1 DEF MainHolds
<1>3. OneThread'
  BY <1>1 DEF OwnerInv, OneThread, Placing, TypeInv, Engaged
<1>4. CASE FreeSlot(c)
  <2>1. /\ InSession(c) /\ ~InSession(c)'
        /\ \A d \in Clients \ {c} : InSession(d)' <=> InSession(d)
    BY <1>1, <1>4
    DEF FreeSlot, GoTo, InSession, SessionPC, OwnerInv, TypeInv, TypeOK, ThreadTypeOK
  <2>2. /\ slot[c] \in Slots /\ client'[slot[c]] = INVALID_SOCKET
        /\ \A i \in Slots \ {slot[c]} : client'[i] = client[i]
    BY <1>4 DEF FreeSlot, OwnerInv, TypeInv, TypeOK, SharedTypeOK, ThreadTypeOK
  <2>3. /\ ~MainHolds(slot[c])
        /\ \A d \in Clients \ {c} : InSession(d) => slot[d] # slot[c] /\ slot[d] \in Slots
    BY <2>1, <2>2 DEF OwnerInv, OneOwner, TypeInv, TypeOK, ThreadTypeOK
  <2>4. \A d \in Clients : InSession(d)' => client'[slot'[d]] # INVALID_SOCKET
    BY <1>1, <2>1, <2>2, <2>3 DEF OwnerInv, OneOwner
  <2>5. \A d, e \in Clients :
          InSession(d)' /\ InSession(e)' /\ slot'[d] = slot'[e] => d = e
    BY <1>1, <2>1 DEF OwnerInv, OneOwner
  <2>6. \A i \in Slots : MainHolds(i)' =>
          client'[i] # INVALID_SOCKET /\ \A d \in Clients : InSession(d)' => slot'[d] # i
    BY <1>1, <1>2, <2>1, <2>2, <2>3 DEF OwnerInv, OneOwner
  <2>7. \A i \in Slots : client'[i] # INVALID_SOCKET =>
          MainHolds(i)' \/ \E d \in Clients : InSession(d)' /\ slot'[d] = i
    BY <1>1, <1>2, <2>1, <2>2 DEF OwnerInv, OneOwner
  <2> QED
    BY <1>3, <2>4, <2>5, <2>6, <2>7 DEF OneOwner
<1>5. CASE ~FreeSlot(c)
  <2>1. UNCHANGED client /\ (InSession(c)' <=> InSession(c))
    BY <1>5
    DEF ThreadStep, BroadcastJoin, BroadcastChat, BroadcastLeft, BroadcastStep, JoinEnd,
        LeftEnd, BroadcastEnd, CallRecv, RecvData, RecvEnd, WriteCommand, ChatEnd,
        CloseSocket, CloseSocketAgain, Detach, GoTo, InSession, SessionPC,
        OwnerInv, TypeInv, TypeOK, ThreadTypeOK
  <2>2. \A d \in Clients : InSession(d)' <=> InSession(d)
    BY <1>1, <2>1 DEF InSession
  <2> QED
    BY <1>1, <1>2, <1>3, <2>1, <2>2, OwnersKept DEF OwnerInv
<1> QED
  BY <1>4, <1>5

\* No thread and no owner at the start.
LEMMA OwnerStarts == Init => OwnerInv
BY TypeStarts
DEF Init, OwnerInv, OneThread, Placing, OneOwner, InSession, SessionPC, MainHolds

\* Every step keeps what is known of connections, threads and slots together.
LEMMA OwnerStep == OwnerInv /\ [Next]_vars => OwnerInv'
<1> SUFFICES ASSUME OwnerInv, [Next]_vars PROVE OneThread' /\ OneOwner'
  BY TypeStep DEF OwnerInv
<1>1. CASE \E c \in Clients : ClientStep(c)
  BY <1>1, ClientOwner
<1>2. CASE AcceptStep
  BY <1>2, AcceptOwner DEF AcceptStep
<1>3. CASE MainStep
  BY <1>3, MainOwner
<1>4. CASE \E c \in Clients : ThreadStep(c)
  BY <1>4, ThreadOwner
<1>5. CASE OpenPort \/ SetUpPort \/ UNCHANGED vars
  <2>1. UNCHANGED <<conn, backlog, client, mainVars, threadVars>>
    BY <1>5 DEF OpenPort, SetUpPort, vars, netVars
  <2> QED
    BY <2>1, OwnersKept
    DEF OwnerInv, OneThread, Placing, InSession, MainHolds, mainVars, threadVars
<1> QED
  BY <1>1, <1>2, <1>3, <1>4, <1>5 DEF Next

LEMMA OwnerInvariant == Spec => []OwnerInv
BY OwnerStarts, OwnerStep, PTL DEF Spec

\* OneOwner holds in every state, for every number of clients and slots:
\* although main takes slots and threads free them without a lock, a taken
\* slot has one owner and no thread works on a slot given to another.
THEOREM SlotOwnership == Spec => []OneOwner
<1>1. OwnerInv => OneOwner
  BY DEF OwnerInv
<1> QED
  BY <1>1, OwnerInvariant, PTL
===============================================================================
