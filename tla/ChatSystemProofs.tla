--------------------------- MODULE ChatSystemProofs ---------------------------
(***************************************************************************)
(* Proofs about the command server together with its client programs, for  *)
(* any number of clients and slots and however recv() cuts and joins what  *)
(* comes: the programs keep to what ChatServer assumes of clients, so that *)
(* every theorem about Spec holds of the composition, and the two sides    *)
(* agree on who is served and who is refused.  Nothing is assumed of the   *)
(* SOCKET values that accept() gives out, but in the last theorem.         *)
(***************************************************************************)
EXTENDS ChatSystem, ChatServerMessageProofs

-------------------------------------------------------------------------------
(* What the server says to whom. *)

\* "Server is full" is said to nobody who has a thread or may still get one.
FullMeansUnserved ==
  \A c \in Clients : \A k \in DOMAIN inbox[c] :
    inbox[c][k].kind = "full" =>
      pc[c] = "none" /\ conn[c] # "off" /\ c \notin backlog /\ newcomer # c

\* Whoever has been accepted and got no thread has been told so.
RefusedTold ==
  \A c \in Clients :
    conn[c] = "open" /\ ServerOpen(c) /\ pc[c] = "none" /\ newcomer # c =>
      \E k \in DOMAIN inbox[c] : inbox[c][k] = Msg("full", c)

ToldInv == FullMeansUnserved /\ RefusedTold

\* What is known of the server in every state, with or without reuse.
ServerInv == OwnerInv /\ SocketInv /\ LeaveInv /\ ToldInv

\* What send() does to the inboxes.
LEMMA SendGrows ==
  ASSUME inbox \in [Clients -> Seq(Messages)], NEW h, NEW m \in Messages, Send(h, m),
         NEW d \in Clients
  PROVE  inbox'[d] = inbox[d] \/ (PeerOf(h) = d /\ inbox'[d] = Append(inbox[d], m))
BY DEF Send, Deliver, inboxVars

\* An inbox grows at its end, and gets a refusal from SendFull only.
LEMMA InboxGrows ==
  ASSUME OwnerInv, [Next]_vars, NEW d \in Clients
  PROVE  \/ inbox'[d] = inbox[d]
         \/ \E m \in Messages :
              inbox'[d] = Append(inbox[d], m) /\ (m.kind = "full" => SendFull)
<1>1. inbox \in [Clients -> Seq(Messages)]
  BY DEF OwnerInv, TypeInv, TypeOK, NetworkTypeOK
<1>2. ASSUME NEW h, NEW kind \in {"id", "welcome", "full", "join", "chat", "left"},
             NEW c \in Clients, Send(h, Msg(kind, c)), kind = "full" => SendFull
      PROVE  \/ inbox'[d] = inbox[d]
             \/ \E m \in Messages :
                  inbox'[d] = Append(inbox[d], m) /\ (m.kind = "full" => SendFull)
  <2>1. Msg(kind, c) \in Messages /\ Msg(kind, c).kind = kind
    BY MsgType DEF Msg
  <2> QED BY <1>1, <1>2, <2>1, SendGrows
<1>3. CASE SendId \/ SendWelcome \/ SendFull
  <2>1. newcomer \in Clients
    BY <1>3, SharedTypes DEF SendId, SendWelcome, SendFull, Placing
  <2>2. CASE SendId
    BY <1>2, <2>1, <2>2 DEF SendId
  <2>3. CASE SendWelcome
    BY <1>2, <2>1, <2>3 DEF SendWelcome
  <2>4. CASE SendFull
    <3>1. Send(incoming, Msg("full", newcomer))
      BY <2>4 DEF SendFull
    <3> QED BY <1>2, <2>1, <2>4, <3>1
  <2> QED BY <1>3, <2>2, <2>3, <2>4
<1>4. CASE \E c \in Clients : ThreadStep(c)
  <2>1. CASE inbox'[d] = inbox[d]
    BY <2>1
  <2>2. CASE inbox'[d] # inbox[d]
    <3>1. PICK c \in Clients, pos \in {"join", "chat", "left"}, kind \in {"join", "chat", "left"},
               everyone \in BOOLEAN : BroadcastStep(c, pos, kind, everyone)
      BY <1>4, <2>2
      DEF ThreadStep, BroadcastJoin, BroadcastChat, BroadcastLeft, JoinEnd,
          LeftEnd, BroadcastEnd, CallRecv, RecvData, RecvEnd, WriteCommand, ChatEnd,
          CloseSocket, CloseSocketAgain, FreeSlot, Detach, inboxVars
    <3>2. Send(client[idx[c]], Msg(kind, c))
      BY <2>2, <3>1 DEF BroadcastStep, inboxVars
    <3> QED BY <1>2, <3>2
  <2> QED BY <2>1, <2>2
<1>5. CASE \/ \E c \in Clients : ClientStep(c)
           \/ AcceptStep \/ Scan \/ ScanEnd \/ Spawn \/ Assign
           \/ OpenPort \/ SetUpPort \/ UNCHANGED vars
  BY <1>5
  DEF ClientStep, Connect, ClientSend, Transmit, Drain, ClientClose, AcceptStep, Accept,
      TakeConnection, Scan, ScanEnd, Spawn, Assign, OpenPort, SetUpPort, vars, inboxVars
<1> QED BY <1>3, <1>4, <1>5 DEF Next, MainStep

\* So nothing that has been received is lost or changed.
LEMMA InboxKeeps ==
  ASSUME OwnerInv, [Next]_vars, NEW d \in Clients
  PROVE  /\ Len(inbox[d]) \in Nat /\ Len(inbox'[d]) \in Nat /\ Len(inbox'[d]) >= Len(inbox[d])
         /\ DOMAIN inbox[d] = 1 .. Len(inbox[d]) /\ DOMAIN inbox'[d] = 1 .. Len(inbox'[d])
         /\ \A k \in DOMAIN inbox[d] : k \in DOMAIN inbox'[d] /\ inbox'[d][k] = inbox[d][k]
         /\ \A k \in DOMAIN inbox'[d] :
              inbox'[d][k].kind = "full" => k \in DOMAIN inbox[d] \/ SendFull
<1>1. inbox[d] \in Seq(Messages)
  BY DEF OwnerInv, TypeInv, TypeOK, NetworkTypeOK
<1>2. Len(inbox[d]) \in Nat /\ DOMAIN inbox[d] = 1 .. Len(inbox[d])
  BY <1>1, LenProperties
<1>3. CASE inbox'[d] = inbox[d]
  BY <1>2, <1>3
<1>4. ASSUME NEW m \in Messages, inbox'[d] = Append(inbox[d], m), m.kind = "full" => SendFull
      PROVE  /\ Len(inbox'[d]) = Len(inbox[d]) + 1 /\ DOMAIN inbox'[d] = 1 .. Len(inbox[d]) + 1
             /\ \A k \in 1 .. Len(inbox[d]) : inbox'[d][k] = inbox[d][k]
             /\ inbox'[d][Len(inbox[d]) + 1] = m
  <2> DEFINE s == inbox[d]
  <2>1. s \in Seq(Messages)
    BY <1>1
  <2>2. /\ Append(s, m) \in Seq(Messages) /\ Len(Append(s, m)) = Len(s) + 1
        /\ \A k \in 1 .. Len(s) : Append(s, m)[k] = s[k]
        /\ Append(s, m)[Len(s) + 1] = m
    BY <2>1, AppendProperties
  <2>3. DOMAIN Append(s, m) = 1 .. Len(s) + 1
    BY <2>2, LenProperties
  <2> QED BY <1>4, <2>2, <2>3
<1>5. CASE \E m \in Messages : inbox'[d] = Append(inbox[d], m) /\ (m.kind = "full" => SendFull)
  <2>1. PICK m \in Messages : inbox'[d] = Append(inbox[d], m) /\ (m.kind = "full" => SendFull)
    BY <1>5
  <2>2. /\ Len(inbox'[d]) = Len(inbox[d]) + 1 /\ DOMAIN inbox'[d] = 1 .. Len(inbox[d]) + 1
        /\ \A k \in 1 .. Len(inbox[d]) : inbox'[d][k] = inbox[d][k]
        /\ inbox'[d][Len(inbox[d]) + 1] = m
    BY <1>4, <2>1
  <2>3. \A k \in 1 .. Len(inbox[d]) + 1 : k \in 1 .. Len(inbox[d]) \/ k = Len(inbox[d]) + 1
    BY <1>2
  <2> QED BY <1>2, <2>1, <2>2, <2>3
<1> QED BY <1>3, <1>5, InboxGrows

\* A connection that has been accepted and got no thread never gets one.
LEMMA NeverServed ==
  ASSUME OwnerInv, [Next]_vars, NEW c \in Clients,
         pc[c] = "none", conn[c] # "off", c \notin backlog, newcomer # c
  PROVE  pc'[c] = "none" /\ conn'[c] # "off" /\ c \notin backlog' /\ newcomer' # c
<1> USE SharedTypes
<1>1. CASE \E d \in Clients : ClientStep(d)
  BY <1>1 DEF ClientStep, Connect, ClientSend, Transmit, Drain, ClientClose,
              netVars, mainVars, threadVars
<1>2. CASE AcceptStep
  BY <1>2 DEF AcceptStep, Accept, TakeConnection, threadVars
<1>3. CASE MainStep
  <2>1. UNCHANGED <<conn, backlog>> /\ newcomer' \in {newcomer, NoClient}
    BY <1>3 DEF MainStep, Scan, ScanEnd, SendId, SendWelcome, Spawn, Assign, SendFull,
                NextRound, netVars, mainVars
  <2>2. pc'[c] = pc[c]
    BY <1>3 DEF MainStep, Scan, ScanEnd, SendId, SendWelcome, Spawn, Assign, SendFull,
                threadVars
  <2> QED BY <2>1, <2>2
<1>4. CASE \E d \in Clients : ThreadStep(d)
  BY <1>4, ThreadFrame DEF mainVars
<1>5. CASE OpenPort \/ SetUpPort \/ UNCHANGED vars
  BY <1>5 DEF OpenPort, SetUpPort, vars, netVars, mainVars, threadVars
<1> QED BY <1>1, <1>2, <1>3, <1>4, <1>5 DEF Next

LEMMA FullStep ==
  ASSUME OwnerInv, SocketInv, FullMeansUnserved, [Next]_vars
  PROVE  FullMeansUnserved'
<1> SUFFICES ASSUME NEW c \in Clients, NEW k \in DOMAIN inbox'[c], inbox'[c][k].kind = "full"
             PROVE  pc'[c] = "none" /\ conn'[c] # "off" /\ c \notin backlog' /\ newcomer' # c
  BY DEF FullMeansUnserved
<1>1. CASE k \in DOMAIN inbox[c]
  BY <1>1, InboxKeeps, NeverServed DEF FullMeansUnserved
<1>2. CASE k \notin DOMAIN inbox[c]
  <2>1. SendFull /\ inbox'[c] # inbox[c]
    BY <1>2, InboxKeeps
  <2>2. /\ Placing /\ Send(incoming, Msg("full", newcomer)) /\ newcomer' = NoClient
        /\ UNCHANGED <<pc, conn, backlog>>
    BY <2>1 DEF SendFull, NextRound, Placing, netVars, threadVars
  <2>3. PeerOf(incoming) = c
    <3>1. Msg("full", newcomer) \in Messages /\ inbox \in [Clients -> Seq(Messages)]
      BY <2>2, MsgType, SharedTypes DEF OwnerInv, TypeInv, TypeOK, NetworkTypeOK
    <3> QED BY <2>1, <2>2, <3>1, SendGrows
  <2>4. c = newcomer
    BY <2>2, <2>3, SharedTypes DEF PeerOf, SocketInv, IncomingIsNewcomers
  <2> QED BY <2>2, <2>4, SharedTypes DEF OwnerInv, OneThread
<1> QED BY <1>1, <1>2

\* Only accept() opens a socket.
LEMMA OpenBefore ==
  ASSUME OwnerInv, [Next]_vars, NEW c \in Clients, ServerOpen(c)'
  PROVE  ServerOpen(c) \/ (c \in backlog /\ newcomer' = c)
<1> USE SharedTypes
<1>1. CASE AcceptStep
  BY <1>1 DEF AcceptStep, Accept, TakeConnection, ServerOpen
<1>2. CASE \E d \in Clients : ThreadStep(d)
  <2>1. \A h \in Handles : peer'[h] \in {peer[h], NoClient}
    BY <1>2, CloseEffect
    DEF ThreadStep, BroadcastJoin, BroadcastChat, BroadcastLeft, BroadcastStep, JoinEnd,
        LeftEnd, BroadcastEnd, CallRecv, RecvData, RecvEnd, WriteCommand, ChatEnd,
        CloseSocket, CloseSocketAgain, FreeSlot, Detach
  <2> QED BY <2>1 DEF ServerOpen
<1>3. CASE MainStep \/ (\E d \in Clients : ClientStep(d)) \/ OpenPort \/ SetUpPort \/ UNCHANGED vars
  <2>1. UNCHANGED peer
    BY <1>3 DEF ClientStep, Connect, ClientSend, Transmit, Drain, ClientClose, MainStep, Scan,
                ScanEnd, SendId, SendWelcome, Spawn, Assign, SendFull, OpenPort, SetUpPort, vars
  <2> QED BY <2>1 DEF ServerOpen
<1> QED BY <1>1, <1>2, <1>3 DEF Next

LEMMA ToldStep ==
  ASSUME OwnerInv, SocketInv, LeaveInv, RefusedTold, [Next]_vars
  PROVE  RefusedTold'
<1> SUFFICES ASSUME NEW c \in Clients,
                    conn'[c] = "open", ServerOpen(c)', pc'[c] = "none", newcomer' # c
             PROVE  \E k \in DOMAIN inbox'[c] : inbox'[c][k] = Msg("full", c)
  BY DEF RefusedTold, Msg
<1>1. ServerOpen(c)
  BY OpenBefore
<1>2. conn[c] = "open"
  <2>1. CASE \E d \in Clients : ClientStep(d)
    <3>1. conn[c] # "off"
      BY <1>1 DEF SocketInv, NoneBefore, ServerOpen
    <3> QED BY <2>1, <3>1, SharedTypes
        DEF ClientStep, Connect, ClientSend, Transmit, Drain, ClientClose, netVars
  <2>2. CASE \E d \in Clients : ThreadStep(d)
    BY <2>2, ThreadFrame
  <2>3. CASE AcceptStep \/ MainStep \/ OpenPort \/ SetUpPort \/ UNCHANGED vars
    BY <2>3 DEF AcceptStep, Accept, TakeConnection, MainStep, Scan, ScanEnd, SendId,
                SendWelcome, Spawn, Assign, SendFull, OpenPort, SetUpPort, vars, netVars
  <2> QED BY <2>1, <2>2, <2>3 DEF Next
<1>3. pc[c] = "none"
  <2>1. CASE \E d \in Clients : ThreadStep(d)
    BY <2>1, ThreadFrame
  <2>2. CASE Spawn
    BY <2>2, SharedTypes DEF Spawn, Placing
  <2>3. CASE ~Spawn /\ ~\E d \in Clients : ThreadStep(d)
    BY <2>3 DEF Next, ClientStep, Connect, ClientSend, Transmit, Drain, ClientClose,
       AcceptStep, Accept, TakeConnection, MainStep, Scan, ScanEnd, SendId, SendWelcome,
       Assign, SendFull, OpenPort, SetUpPort, vars, threadVars
  <2> QED BY <2>1, <2>2, <2>3
<1>4. CASE newcomer # c
  <2>1. PICK k \in DOMAIN inbox[c] : inbox[c][k] = Msg("full", c)
    BY <1>1, <1>2, <1>3, <1>4 DEF RefusedTold
  <2> QED BY <2>1, InboxKeeps
<1>5. CASE newcomer = c
  <2>1. SendFull
    <3>1. CASE Assign
      <4>1. newcomer' = newcomer \/ pc[newcomer] # "none"
        BY <3>1 DEF Assign, mainVars, LeaveInv, HandOver
      <4> QED BY <1>3, <1>5, <4>1
    <3>2. CASE AcceptStep
      BY <1>5, <3>2, ConstantsAssumption
      DEF AcceptStep, Accept, TakeConnection, LeaveInv, HandOver
    <3>3. CASE \E d \in Clients : ThreadStep(d)
      BY <1>5, <3>3, ThreadFrame DEF mainVars
    <3>4. CASE ~Assign /\ ~AcceptStep /\ ~SendFull /\ ~\E d \in Clients : ThreadStep(d)
      BY <1>5, <3>4 DEF Next, ClientStep, Connect, ClientSend, Transmit, Drain, ClientClose,
         MainStep, Scan, ScanEnd, SendId, SendWelcome, Spawn, OpenPort, SetUpPort, vars, mainVars
    <3> QED BY <3>1, <3>2, <3>3, <3>4
  <2>2. Placing /\ Send(incoming, Msg("full", c))
    BY <1>5, <2>1 DEF SendFull, Placing
  <2>3. PICK h \in Handles : peer[h] = c
    BY <1>1 DEF ServerOpen
  <2>4. PeerOf(incoming) = c
    BY <1>5, <2>2, <2>3 DEF SocketInv, IncomingIsNewcomers, PeerOf
  <2>5. inbox'[c] = Append(inbox[c], Msg("full", c))
    BY <1>2, <2>2, <2>4 DEF Send, Deliver, Msg, OwnerInv, TypeInv, TypeOK, NetworkTypeOK
  <2> DEFINE s == inbox[c]
             m == Msg("full", c)
  <2>6. s \in Seq(Messages) /\ m \in Messages
    BY MsgType DEF OwnerInv, TypeInv, TypeOK, NetworkTypeOK
  <2>7. Len(s) + 1 \in DOMAIN Append(s, m) /\ Append(s, m)[Len(s) + 1] = m
    <3> HIDE DEF s, m
    <3>1. Append(s, m) \in Seq(Messages) /\ Len(Append(s, m)) = Len(s) + 1
          /\ Append(s, m)[Len(s) + 1] = m
      BY <2>6, AppendProperties
    <3>2. DOMAIN Append(s, m) = 1 .. Len(s) + 1 /\ Len(s) \in Nat
      BY <2>6, <3>1, LenProperties
    <3> QED BY <3>1, <3>2
  <2> QED BY <2>5, <2>7
<1> QED BY <1>4, <1>5

LEMMA ServerStarts == Init => ServerInv
<1> SUFFICES ASSUME Init PROVE ToldInv
  BY OwnerStarts, SocketStarts, LeaveStarts DEF ServerInv
<1>1. DOMAIN <<>> = {}
  OBVIOUS
<1> QED BY <1>1, ConstantsAssumption
    DEF Init, ToldInv, FullMeansUnserved, RefusedTold, ServerOpen

LEMMA ServerStepKeeps == ServerInv /\ [Next]_vars => ServerInv'
BY OwnerStep, SocketStep, LeaveStep, FullStep, ToldStep DEF ServerInv, ToldInv

-------------------------------------------------------------------------------
(* The client programs. *)

\* A client that has come to its second recv(), or to its prompt, has been sent
\* a message, unless the server has gone.
Greeting ==
  \A c \in Clients :
    cpc[c] \in {"getwelcome", "prompt"} /\ conn[c] = "open" /\ ~ServerGone(c) =>
      inbox[c] # <<>>

\* "Server is full" was the first message of a client that says so.
RefusalHeard ==
  \A c \in Clients : refused[c] => 1 \in DOMAIN inbox[c] /\ inbox[c][1].kind = "full"

ProgramInv == ClientTypeOK /\ got \in [Clients -> Nat] /\ Greeting /\ RefusalHeard

SystemInv == ServerInv /\ ProgramInv

\* A server that has gone does not come back to a connection.
LEMMA GoneStays ==
  ASSUME OwnerInv, [Next]_vars, serverUp' => serverUp, NEW c \in Clients,
         ServerGone(c), conn[c] = "open", conn'[c] = "open"
  PROVE  ServerGone(c)'
<1>1. terminated => terminated'
  BY DEF Next, ClientStep, Connect, ClientSend, Transmit, Drain, ClientClose, AcceptStep, Accept,
         TakeConnection, MainStep, Scan, ScanEnd, SendId, SendWelcome, Spawn, Assign, SendFull,
         ThreadStep, BroadcastJoin, BroadcastChat, BroadcastLeft, BroadcastStep, JoinEnd,
         LeftEnd, BroadcastEnd, CallRecv, RecvData, RecvEnd, WriteCommand, ChatEnd, GoTo,
         CloseSocket, CloseSocketAgain, FreeSlot, Detach, OpenPort, SetUpPort, vars
<1>2. c \notin backlog => c \notin backlog'
  <2>1. CASE \E d \in Clients : ClientStep(d)
    BY <2>1 DEF ClientStep, Connect, ClientSend, Transmit, Drain, ClientClose, netVars
  <2>2. CASE \E d \in Clients : ThreadStep(d)
    BY <2>2, ThreadFrame
  <2>3. CASE AcceptStep \/ MainStep \/ OpenPort \/ SetUpPort \/ UNCHANGED vars
    BY <2>3 DEF AcceptStep, Accept, TakeConnection, MainStep, Scan, ScanEnd, SendId,
                SendWelcome, Spawn, Assign, SendFull, OpenPort, SetUpPort, vars, netVars
  <2> QED BY <2>1, <2>2, <2>3 DEF Next
<1>3. ServerOpen(c)' => ServerOpen(c) \/ c \in backlog
  BY OpenBefore
<1> QED BY <1>1, <1>2, <1>3 DEF ServerGone

\* What a client types, the sketch of ChatServer allows.
LEMMA TypesWhenGreeted ==
  ASSUME SystemInv, NEW c \in Clients, NEW t \in Texts, TypeLine(c, t)
  PROVE  ClientSend(c, t)
BY DEF TypeLine, Transmit, ClientSend, SystemInv, ProgramInv, Greeting

\* A step of the composition is a step of ChatServer or leaves it alone.
LEMMA SystemStepIsStep == SystemInv /\ [SystemNext]_systemVars => [Next]_vars
<1> SUFFICES ASSUME SystemInv, [SystemNext]_systemVars PROVE [Next]_vars
  OBVIOUS
<1>1. CASE ServerStep
  BY <1>1 DEF ServerStep, Next
<1>2. CASE StopServer \/ UNCHANGED systemVars
  BY <1>2 DEF StopServer, systemVars
<1>3. CASE \E c \in Clients : ProgramStep(c)
  BY <1>3 DEF ProgramStep, RecvId, RecvWelcome, Receive, MakeRoom, RecvIdFails,
              RecvWelcomeFails, ReceiveFails, Exit, ClientStep, Next
<1>4. CASE \E c \in Clients : UserStep(c)
  BY <1>4, TypesWhenGreeted DEF UserStep, Start, Exit, Kill, ClientStep, Next
<1> QED BY <1>1, <1>2, <1>3, <1>4 DEF SystemNext

\* What the server's steps leave alone.
LEMMA ServerFrame ==
  ASSUME OwnerInv, ServerStep
  PROVE  UNCHANGED <<clientVars, conn>>
<1>1. CASE \E c \in Clients : ThreadStep(c)
  BY <1>1, ThreadFrame DEF ServerStep
<1>2. CASE AcceptStep \/ MainStep \/ OpenPort \/ SetUpPort
  BY <1>2 DEF ServerStep, AcceptStep, Accept, TakeConnection, MainStep, Scan, ScanEnd,
              SendId, SendWelcome, Spawn, Assign, SendFull, OpenPort, SetUpPort, netVars
<1> QED BY <1>1, <1>2 DEF ServerStep

\* A step that receives nothing, and takes nobody to a later call of recv()
\* while the server is there.
LEMMA ProgramKept ==
  ASSUME SystemInv, [Next]_vars, serverUp' \in BOOLEAN, serverUp' => serverUp,
         cpc' \in [Clients -> ClientPC],
         receiver' \in [Clients -> {"none", "recv", "failed"}],
         UNCHANGED <<refused, got, cut>>,
         \A c \in Clients : conn'[c] = "open" /\ cpc'[c] \in {"getwelcome", "prompt"} =>
           conn[c] = "open" /\ (cpc[c] \in {"getwelcome", "prompt"} \/ ServerGone(c))
  PROVE  ProgramInv'
<1> USE DEF SystemInv, ServerInv, ProgramInv
<1>1. ClientTypeOK'
  <2> SUFFICES ASSUME NEW c \in Clients
               PROVE  got[c] \in 0 .. Len(inbox'[c]) /\ (cut[c] => got[c] < Len(inbox'[c]))
    BY DEF ClientTypeOK
  <2>1. got[c] \in 0 .. Len(inbox[c]) /\ (cut[c] => got[c] < Len(inbox[c]))
    BY DEF ClientTypeOK
  <2>2. /\ Len(inbox[c]) \in Nat /\ Len(inbox'[c]) \in Nat
        /\ Len(inbox'[c]) >= Len(inbox[c])
    BY InboxKeeps
  <2> QED BY <2>1, <2>2
<1>2. Greeting'
  <2> SUFFICES ASSUME NEW c \in Clients, cpc'[c] \in {"getwelcome", "prompt"},
                      conn'[c] = "open", ~ServerGone(c)'
               PROVE  inbox'[c] # <<>>
    BY DEF Greeting
  <2>1. conn[c] = "open" /\ ~ServerGone(c)
    BY GoneStays
  <2>2. inbox[c] # <<>>
    BY <2>1 DEF Greeting
  <2>3. inbox[c] \in Seq(Messages)
    BY DEF OwnerInv, TypeInv, TypeOK, NetworkTypeOK
  <2>4. 1 \in DOMAIN inbox[c]
    BY <2>2, <2>3, EmptySeq, LenProperties
  <2>5. 1 \in DOMAIN inbox'[c]
    BY <2>4, InboxKeeps
  <2> QED BY <2>5
<1>3. RefusalHeard'
  BY InboxKeeps DEF RefusalHeard
<1> QED BY <1>1, <1>2, <1>3

\* A recv() that keeps or sets refused[c] as RecvId does.
LEMMA ProgramReads ==
  ASSUME SystemInv, UNCHANGED <<vars, serverUp>>, NEW c \in Clients,
         NEW k \in 0 .. Len(inbox[c]), NEW partial \in BOOLEAN, Read(c, k, partial),
         cpc' \in [Clients -> ClientPC],
         receiver' \in [Clients -> {"none", "recv", "failed"}],
         refused' \in [Clients -> BOOLEAN],
         \A d \in Clients \ {c} : cpc'[d] = cpc[d] /\ refused'[d] = refused[d],
         refused'[c] => refused[c] \/ inbox[c][1].kind = "full"
  PROVE  ProgramInv'
<1> USE DEF SystemInv, ServerInv, ProgramInv
<1>1. \A d \in Clients :
        /\ Len(inbox[d]) \in Nat /\ DOMAIN inbox[d] = 1 .. Len(inbox[d])
        /\ got[d] \in 0 .. Len(inbox[d])
  BY InboxKeeps DEF ClientTypeOK
<1>2. /\ k \in Nat /\ Len(inbox[c]) >= 1 /\ 1 \in DOMAIN inbox[c]
      /\ partial => k < Len(inbox[c])
  BY <1>1 DEF Read, Arrived
<1>3. /\ got' = [got EXCEPT ![c] = k] /\ cut' = [cut EXCEPT ![c] = partial]
      /\ UNCHANGED <<inbox, serverUp, conn>>
  BY DEF Read, vars, netVars, inboxVars
<1>4. ClientTypeOK' /\ got' \in [Clients -> Nat]
  BY <1>1, <1>2, <1>3 DEF ClientTypeOK
<1>5. Greeting'
  <2>1. \A d \in Clients : ServerGone(d)' <=> ServerGone(d)
    BY DEF ServerGone, ServerOpen, vars, netVars
  <2>2. inbox[c] # <<>>
    BY <1>2
  <2> QED BY <1>3, <2>1, <2>2 DEF Greeting
<1>6. RefusalHeard'
  BY <1>2, <1>3 DEF RefusalHeard
<1> QED BY <1>4, <1>5, <1>6

LEMMA ProgramStepKeeps ==
  ASSUME SystemInv, NEW c \in Clients, ProgramStep(c) PROVE ProgramInv'
<1>1. /\ cpc \in [Clients -> ClientPC] /\ refused \in [Clients -> BOOLEAN]
      /\ receiver \in [Clients -> {"none", "recv", "failed"}] /\ serverUp \in BOOLEAN
      /\ conn \in [Clients -> {"off", "open", "closed"}]
  BY SharedTypes DEF SystemInv, ServerInv, ProgramInv, ClientTypeOK
<1>2. ASSUME NEW k \in 0 .. Len(inbox[c]), NEW partial \in BOOLEAN,
             RecvId(c, k, partial) \/ RecvWelcome(c, k, partial) \/ Receive(c, k, partial)
      PROVE  ProgramInv'
  <2>1. /\ UNCHANGED <<vars, serverUp>> /\ Read(c, k, partial)
        /\ cpc' \in [Clients -> ClientPC]
        /\ receiver' \in [Clients -> {"none", "recv", "failed"}]
        /\ refused' \in [Clients -> BOOLEAN]
        /\ \A d \in Clients \ {c} : cpc'[d] = cpc[d] /\ refused'[d] = refused[d]
        /\ refused'[c] => refused[c] \/ inbox[c][1].kind = "full"
    BY <1>1, <1>2 DEF RecvId, RecvWelcome, Receive, Greeted, At, ClientPC
  <2> QED BY <2>1, ProgramReads
<1>3. [Next]_vars
  <2>1. [SystemNext]_systemVars
    BY DEF SystemNext
  <2> QED BY <2>1, SystemStepIsStep
<1>4. ASSUME RecvIdFails(c) \/ RecvWelcomeFails(c) \/ ReceiveFails(c) PROVE ProgramInv'
  <2>1. /\ UNCHANGED <<vars, serverUp, refused, got, cut>> /\ ServerGone(c)
        /\ cpc' \in [Clients -> ClientPC] /\ \A d \in Clients \ {c} : cpc'[d] = cpc[d]
        /\ receiver' \in [Clients -> {"none", "recv", "failed"}]
    BY <1>1, <1>4
    DEF RecvIdFails, RecvWelcomeFails, ReceiveFails, Greeted, At, ClientPC, readVars
  <2>2. UNCHANGED conn
    BY <2>1 DEF vars, netVars
  <2> QED BY <1>1, <1>3, <2>1, <2>2, ProgramKept
<1>5. ASSUME Exit(c) \/ MakeRoom(c) PROVE ProgramInv'
  <2>1. /\ UNCHANGED <<serverUp, receiver, refused, got, cut>>
        /\ cpc' \in [Clients -> ClientPC]
        /\ \A d \in Clients : cpc'[d] = "gone" \/ (cpc'[d] = cpc[d] /\ conn'[d] = conn[d])
    BY <1>1, <1>5 DEF Exit, At, ClientClose, MakeRoom, Drain, ClientPC, readVars, netVars,
                      clientVars, programVars
  <2> QED BY <1>1, <1>3, <2>1, ProgramKept
<1> QED BY <1>2, <1>4, <1>5 DEF ProgramStep

LEMMA UserStepKeeps ==
  ASSUME SystemInv, NEW c \in Clients, UserStep(c) PROVE ProgramInv'
<1>1. /\ cpc \in [Clients -> ClientPC] /\ receiver \in [Clients -> {"none", "recv", "failed"}]
      /\ serverUp \in BOOLEAN /\ conn \in [Clients -> {"off", "open", "closed"}]
  BY SharedTypes DEF SystemInv, ServerInv, ProgramInv, ClientTypeOK
<1>2. [Next]_vars
  <2>1. [SystemNext]_systemVars
    BY DEF SystemNext
  <2> QED BY <2>1, SystemStepIsStep
<1>3. /\ UNCHANGED <<serverUp, receiver, refused, got, cut>>
      /\ cpc' \in [Clients -> ClientPC]
      /\ \A d \in Clients :
           cpc'[d] \in {"gone", "getid"} \/ (cpc'[d] = cpc[d] /\ conn'[d] = conn[d])
  <2>1. CASE Start(c)
    BY <1>1, <2>1 DEF Start, At, Connect, ClientPC, readVars
  <2>2. CASE \E t \in Texts : TypeLine(c, t)
    BY <1>1, <2>2 DEF TypeLine, Transmit, clientVars, programVars, readVars
  <2>3. CASE Exit(c) \/ Kill(c)
    BY <1>1, <2>3 DEF Exit, Kill, At, ClientClose, ClientPC, readVars
  <2> QED BY <2>1, <2>2, <2>3 DEF UserStep
<1> QED BY <1>1, <1>2, <1>3, ProgramKept

LEMMA SystemStarts == SystemInit => SystemInv
<1> SUFFICES ASSUME SystemInit PROVE SystemInv
  OBVIOUS
<1>1. ServerInv
  BY ServerStarts DEF SystemInit
<1>2. \A c \in Clients : Len(inbox[c]) = 0
  BY DEF SystemInit, Init
<1>3. ProgramInv
  BY <1>2 DEF SystemInit, ProgramInv, ClientTypeOK, ClientPC, Greeting, RefusalHeard
<1> QED BY <1>1, <1>3 DEF SystemInv

\* Every step of the composition keeps the invariant.
LEMMA SystemStep == SystemInv /\ [SystemNext]_systemVars => SystemInv'
<1> SUFFICES ASSUME SystemInv, [SystemNext]_systemVars PROVE SystemInv'
  OBVIOUS
<1>1. [Next]_vars
  BY SystemStepIsStep
<1>2. ServerInv'
  BY <1>1, ServerStepKeeps DEF SystemInv
<1>3. ProgramInv'
  <2>1. /\ cpc \in [Clients -> ClientPC] /\ serverUp \in BOOLEAN
        /\ receiver \in [Clients -> {"none", "recv", "failed"}]
    BY DEF SystemInv, ProgramInv, ClientTypeOK
  <2>2. CASE ServerStep \/ StopServer \/ UNCHANGED systemVars
    <3>1. ServerStep => UNCHANGED <<clientVars, conn>>
      BY ServerFrame DEF SystemInv, ServerInv
    <3>2. StopServer => UNCHANGED <<programVars, conn>> /\ serverUp' = FALSE
      BY DEF StopServer, vars, netVars
    <3>3. UNCHANGED systemVars => UNCHANGED <<clientVars, conn>>
      BY DEF systemVars, vars, netVars
    <3>4. UNCHANGED programVars /\ UNCHANGED conn /\ (serverUp' = serverUp \/ serverUp' = FALSE)
      BY <2>2, <3>1, <3>2, <3>3 DEF clientVars
    <3>5. serverUp' \in BOOLEAN /\ (serverUp' => serverUp)
      <4>1. CASE serverUp' = serverUp
        BY <2>1, <4>1, Zenon
      <4>2. CASE serverUp' = FALSE
        BY <4>2, Zenon
      <4> QED BY <3>4, <4>1, <4>2, Zenon
    <3>6. UNCHANGED <<cpc, receiver, refused, got, cut>>
      BY <3>4 DEF programVars, readVars
    <3> QED BY <1>1, <2>1, <3>4, <3>5, <3>6, ProgramKept
  <2> QED BY <2>2, ProgramStepKeeps, UserStepKeeps DEF SystemNext
<1> QED BY <1>2, <1>3 DEF SystemInv

LEMMA SystemInvariant == SystemSpec => []SystemInv
BY SystemStarts, SystemStep, PTL DEF SystemSpec

-------------------------------------------------------------------------------
(* The theorems. *)

\* The client program keeps to what ChatServer assumes of clients, so that the
\* theorems about Spec hold of the composition: nothing is typed after the two
\* recv() of main.cpp:125 and 130 before the server has said anything, even if
\* they receive other clients' broadcasts, or one message in two parts.
THEOREM ProgramsKeepToTheSketch == SystemSpec => ClientsAsAssumed
<1>1. SystemInit => Init
  BY DEF SystemInit
<1> QED BY <1>1, SystemInvariant, SystemStepIsStep, PTL DEF SystemSpec, ClientsAsAssumed, Spec

\* A client program (main.cpp:125, 130 and 38) never receives more than the
\* server has sent it, wherever recv() cuts the messages.
THEOREM ProgramTypeCorrect == SystemSpec => []ClientTypeOK
<1>1. SystemInv => ClientTypeOK
  BY DEF SystemInv, ProgramInv
<1> QED BY <1>1, SystemInvariant, PTL

\* Whoever is at the prompt on a connection that is open at both ends is in
\* session or about to be, or has been sent "Server is full" and did not
\* recognise it at main.cpp:134, whatever the two recv() of lines 125 and 130
\* returned and whatever SOCKET values are given out again.
THEOREM PromptIsServed == SystemSpec => []ServedAgreed
<1>1. SystemInv => ServedAgreed
  <2> SUFFICES ASSUME SystemInv, NEW c \in Clients,
                      conn[c] = "open", ServerOpen(c), ~InSession(c), newcomer # c
               PROVE  \E k \in DOMAIN inbox[c] : inbox[c][k] = Msg("full", c)
    BY DEF ServedAgreed
  <2>1. pc[c] = "none"
    BY DEF SystemInv, ServerInv, SocketInv, Homed, ServerOpen, InSession
  <2> QED BY <2>1 DEF SystemInv, ServerInv, ToldInv, RefusedTold
<1> QED BY <1>1, SystemInvariant, PTL

\* Whoever takes itself for refused (main.cpp:134) has no thread, and a slot
\* that holds its SOCKET value is another thread's: "Server is full" is sent to
\* nobody who has a slot, whatever SOCKET values are given out again.
THEOREM RefusedIsUnserved == SystemSpec => []RefusalAgreed
<1>1. SystemInv => RefusalAgreed
  <2> SUFFICES ASSUME SystemInv, NEW c \in Clients, refused[c]
               PROVE  /\ pc[c] = "none"
                      /\ \A i \in Slots : PeerOf(client[i]) = c =>
                           \E d \in Clients : InSession(d) /\ slot[d] = i
    BY DEF RefusalAgreed
  <2> USE DEF SystemInv, ServerInv
  <2>1. pc[c] = "none" /\ newcomer # c
    BY DEF ProgramInv, RefusalHeard, ToldInv, FullMeansUnserved
  <2>2. ASSUME NEW i \in Slots, PeerOf(client[i]) = c
        PROVE  \E d \in Clients : InSession(d) /\ slot[d] = i
    <3>1. client[i] \in Handles /\ peer[client[i]] = c
      BY <2>2, SharedTypes DEF PeerOf
    <3>2. ~MainHolds(i)
      BY <2>1, <3>1, SharedTypes DEF MainHolds, Placing, SocketInv, IncomingIsNewcomers
    <3> QED BY <3>1, <3>2, SharedTypes DEF OwnerInv, OneOwner
  <2> QED BY <2>1, <2>2
<1> QED BY <1>1, SystemInvariant, PTL

\* What is proved of the server and any clients (ChatServerMessageProofs) holds
\* of it with the client program, if accept() gives out no value that a slot
\* still holds: the commands typed at main.cpp:155 are written in their order
\* and none twice, each piece of news is heard once, and nobody is said to have
\* left who has not.
THEOREM DeliveryToPrograms ==
  ASSUME ~ReuseWhileHeld
  PROVE  SystemSpec => ImplementsCommandQueues /\ [](WireOrder /\ NewsOnce /\ LeftIsTrue)
<1>1. SystemSpec => Spec
  BY ProgramsKeepToTheSketch DEF ClientsAsAssumed
<1> QED BY <1>1, ServerIsQueues, WireKeepsOrder, NewsHeardOnce, LeftOnlyWhenGone, PTL
===============================================================================
