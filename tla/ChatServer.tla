------------------------------ MODULE ChatServer ------------------------------
(***************************************************************************)
(* The command server tcp_srv_cpp/main.cpp: a main thread that accepts TCP *)
(* connections into a table of MAX_CLIENTS slots, one process_client       *)
(* thread per accepted connection that broadcasts what its client says and *)
(* forwards commands to the serial port, and a process_uart thread that    *)
(* opens that port.  The threads share client[], my_thread[] and hCom      *)
(* without any lock.                                                       *)
(*                                                                         *)
(* One step of the model is one access to that shared state, or one        *)
(* Winsock call.  A slot's socket field is read and the call that uses it  *)
(* is made in one step.  A thread is named by the connection it was        *)
(* started for.  The fields id and port of a slot, num_clients and the     *)
(* host name are written by the code and steer nothing, so they are left   *)
(* out: new_client.id is the index of the thread's slot.                   *)
(***************************************************************************)
EXTENDS Integers, Sequences, FiniteSets

CONSTANTS
  Clients,         \* the TCP connections that clients may open
  Handles,         \* the SOCKET values Winsock can give to the server
  MaxClients,      \* MAX_CLIENTS, the number of slots
  SlowClients,     \* the connections whose client may stop reading for a while
  Pieces,          \* the stretches of characters that streams consist of
  Texts,           \* what a client can type, as sequences of pieces
  Commands,        \* the buffers process_client recognises, e.g. --lidarstart
  ReuseWhileHeld,  \* whether accept() may return a closed SOCKET value that a
                   \* slot still holds, between lines 197 and 199
  StartPorts,      \* what process_uart may have done when main starts accepting
  MaxSent,         \* bound: the pieces all clients send together
  MaxLogged,       \* bound: the messages recorded of each inbox
  INVALID_SOCKET,
  NoClient

ASSUME ConstantsAssumption ==
  /\ MaxClients \in Nat \ {0}
  /\ SlowClients \subseteq Clients
  /\ Texts \subseteq Seq(Pieces) \ {<<>>}
  /\ Commands \subseteq Seq(Pieces) \ {<<>>}
  /\ ReuseWhileHeld \in BOOLEAN
  /\ StartPorts \subseteq {"null", "opened", "ready", "raw", "invalid"}
  /\ MaxSent \in Nat
  /\ MaxLogged \in Nat
  /\ INVALID_SOCKET \notin Handles
  /\ NoClient \notin Clients

VARIABLES
  \* The network, seen from the clients.
  conn,       \* conn[c]: the client's end of connection c
  backlog,    \* connections waiting to be accepted
  sent,       \* sent[c]: the stream of everything sent on c
  outbox,     \* outbox[c]: the end of it that the server has not received
  inbox,      \* inbox[c]: the first MaxLogged messages sent to the client, and
              \* the refusal
  full,       \* the connections whose buffers towards the client are full
  \* Winsock.
  peer,       \* peer[h]: the connection that the open socket h denotes
  \* The server's shared state.
  client,     \* client[i]: the field client[i].socket
  my_thread,  \* my_thread[i]: the thread that object i can join, or NoClient
  hCom,       \* the serial port handle and its configuration
  wire,       \* commands written to the serial port
  terminated, \* std::terminate has been called
  \* Locals of main.
  mpc, incoming, newcomer, scan, temp_id,
  \* Locals of the process_client threads.
  pc, slot, idx, src, said

netVars    == <<conn, backlog, sent, outbox>>
inboxVars  == <<inbox, full>>
uartVars   == <<hCom, wire>>
mainVars   == <<mpc, incoming, newcomer, scan, temp_id>>
threadVars == <<pc, slot, idx, src, said>>
vars == <<netVars, inboxVars, peer, client, my_thread, uartVars, terminated,
          mainVars, threadVars>>

Slots == 0 .. MaxClients - 1

MainPC == {"accept", "scan", "sendid", "welcome", "spawn", "assign", "full"}

\* The positions inside process_client up to the store that frees the slot.
SessionPC == {"join", "call", "recv", "uart", "chat", "close", "reclose", "free"}

ThreadPC == SessionPC \cup {"none", "left", "detach", "done"}

Messages == [kind : {"id", "welcome", "full", "join", "chat", "left"},
             from : Clients]

\* The states of hCom: zero-initialised, opened by CreateFile, set up by
\* SetCommState, open but not set up, INVALID_HANDLE_VALUE.
Ports == {"null", "opened", "ready", "raw", "invalid"}

NetworkTypeOK ==
  /\ conn \in [Clients -> {"off", "open", "closed"}]
  /\ backlog \subseteq Clients
  /\ sent \in [Clients -> Seq(Pieces)]
  /\ outbox \in [Clients -> Seq(Pieces)]
  /\ inbox \in [Clients -> Seq(Messages)]
  /\ full \subseteq SlowClients

SharedTypeOK ==
  /\ peer \in [Handles -> Clients \cup {NoClient}]
  /\ client \in [Slots -> Handles \cup {INVALID_SOCKET}]
  /\ my_thread \in [Slots -> Clients \cup {NoClient}]
  /\ hCom \in Ports
  /\ wire \in Seq([from : Clients, text : Commands, whole : BOOLEAN])
  /\ terminated \in BOOLEAN

MainTypeOK ==
  /\ mpc \in MainPC
  /\ incoming \in Handles \cup {INVALID_SOCKET}
  /\ newcomer \in Clients \cup {NoClient}
  /\ scan \in 0 .. MaxClients
  /\ temp_id \in Slots \cup {-1}

ThreadTypeOK ==
  /\ pc \in [Clients -> ThreadPC]
  /\ slot \in [Clients -> Slots]
  /\ idx \in [Clients -> 0 .. MaxClients]
  /\ src \in [Clients -> Clients \cup {NoClient}]
  /\ said \in [Clients -> Seq(Pieces)]

\* Every variable keeps to its set: a slot holds a SOCKET value or
\* INVALID_SOCKET, and no loop over client[] leaves the table.
TypeOK == NetworkTypeOK /\ SharedTypeOK /\ MainTypeOK /\ ThreadTypeOK

\* The state when main reaches its accept loop: sockets set up, client[]
\* filled with {-1, -1, INVALID_SOCKET}, process_uart just started.
Init ==
  /\ conn = [c \in Clients |-> "off"]
  /\ backlog = {}
  /\ sent = [c \in Clients |-> <<>>]
  /\ outbox = [c \in Clients |-> <<>>]
  /\ inbox = [c \in Clients |-> <<>>]
  /\ full = {}
  /\ peer = [h \in Handles |-> NoClient]
  /\ client = [i \in Slots |-> INVALID_SOCKET]
  /\ my_thread = [i \in Slots |-> NoClient]
  /\ hCom \in StartPorts
  /\ wire = <<>>
  /\ terminated = FALSE
  /\ mpc = "accept"
  /\ incoming = INVALID_SOCKET
  /\ newcomer = NoClient
  /\ scan = 0
  /\ temp_id = -1
  /\ pc = [c \in Clients |-> "none"]
  /\ slot = [c \in Clients |-> 0]
  /\ idx = [c \in Clients |-> 0]
  /\ src = [c \in Clients |-> NoClient]
  /\ said = [c \in Clients |-> <<>>]

-------------------------------------------------------------------------------
(* Winsock. *)

\* The connection a socket value denotes now.
PeerOf(h) == IF h \in Handles THEN peer[h] ELSE NoClient

\* The server's end of connection c has not been closed.
ServerOpen(c) == \E h \in Handles : peer[h] = c

\* Socket values accept() may return.
FreeHandles == {h \in Handles :
                  /\ peer[h] = NoClient
                  /\ ReuseWhileHeld \/ \A i \in Slots : client[i] # h}

\* The client of c has room for a message, which may be the last that fits.  It
\* is recorded, up to the bound, and the refusal in any case.
Deliver(c, m) ==
  /\ c \notin full
  /\ full' \in {full, full \cup ({c} \cap SlowClients)}
  /\ inbox' = IF Len(inbox[c]) < MaxLogged \/ m.kind = "full"
              THEN [inbox EXCEPT ![c] = Append(@, m)]
              ELSE inbox

\* send(h, m): while both ends are open it blocks until the client has room;
\* otherwise it returns SOCKET_ERROR, which no caller looks at.
Send(h, m) ==
  IF PeerOf(h) \in Clients /\ conn[PeerOf(h)] = "open"
  THEN Deliver(PeerOf(h), m)
  ELSE UNCHANGED inboxVars

\* closesocket(h): a value that is not an open socket is an ignored error.
Close(h) ==
  IF h \in Handles
  THEN peer' = [peer EXCEPT ![h] = NoClient]
  ELSE UNCHANGED peer

Msg(kind, c) == [kind |-> kind, from |-> c]

-------------------------------------------------------------------------------
(* The clients: any number of connections, texts typed once the server has *)
(* said something, and an end at any time (--exit, a closed window, a      *)
(* broken link).                                                           *)

Connect(c) ==
  /\ ~terminated
  /\ conn[c] = "off"
  /\ conn' = [conn EXCEPT ![c] = "open"]
  /\ backlog' = backlog \cup {c}
  /\ UNCHANGED <<sent, outbox, inboxVars, peer, client, my_thread, uartVars,
                 terminated, mainVars, threadVars>>

\* The pieces sent so far, each by its place in its client's stream.
SentPieces == UNION {{c} \X DOMAIN sent[c] : c \in Clients}

\* The effect of a client's send().
Transmit(c, t) ==
  /\ conn[c] = "open"
  /\ Cardinality(SentPieces) + Len(t) <= MaxSent
  /\ sent' = [sent EXCEPT ![c] = @ \o t]
  /\ outbox' = [outbox EXCEPT ![c] = @ \o t]
  /\ UNCHANGED <<conn, backlog, inboxVars, peer, client, my_thread, uartVars,
                 terminated, mainVars, threadVars>>

\* One message is enough for a client to go on: the first two recv() calls
\* may each return a part of it.
ClientSend(c, t) == inbox[c] # <<>> /\ Transmit(c, t)

\* The client reads what fills its connection.
Drain(c) ==
  /\ c \in full
  /\ full' = full \ {c}
  /\ UNCHANGED <<netVars, inbox, peer, client, my_thread, uartVars,
                 terminated, mainVars, threadVars>>

\* A graceful end leaves what was sent to be received; a reset discards it.
\* Either ends the send() calls that wait for this client.
ClientClose(c) ==
  /\ conn[c] = "open"
  /\ conn' = [conn EXCEPT ![c] = "closed"]
  /\ outbox' \in {outbox, [outbox EXCEPT ![c] = <<>>]}
  /\ full' = full \ {c}
  /\ UNCHANGED <<backlog, sent, inbox, peer, client, my_thread, uartVars,
                 terminated, mainVars, threadVars>>

-------------------------------------------------------------------------------
(* main: the accept loop. *)

\* What accept() and the lines up to the loop do, but for temp_id and scan.
TakeConnection(c, h) ==
  /\ ~terminated /\ mpc = "accept"
  /\ c \in backlog
  /\ h \in FreeHandles
  /\ backlog' = backlog \ {c}
  /\ peer' = [peer EXCEPT ![h] = c]
  /\ incoming' = h
  /\ newcomer' = c
  /\ mpc' = "scan"
  /\ UNCHANGED <<conn, sent, outbox, inboxVars, client, my_thread, uartVars,
                 terminated, threadVars>>

\* Mutant: the loop over client[] starts at 1.
AcceptSkipsSlotZero(c, h) ==
  TakeConnection(c, h) /\ temp_id' = -1 /\ scan' = 1

\* Mutant: "temp_id = -1" is missing.
AcceptKeepsTempId(c, h) ==
  TakeConnection(c, h) /\ UNCHANGED temp_id /\ scan' = 0

\* A failed accept() changes nothing: the code goes round the loop.
Accept(c, h) ==
  TakeConnection(c, h) /\ temp_id' = -1 /\ scan' = 0

\* Mutant: "&& temp_id == -1" dropped.
ScanTakesAll ==
  /\ ~terminated /\ mpc = "scan"
  /\ scan < MaxClients
  /\ IF client[scan] = INVALID_SOCKET
     THEN /\ client' = [client EXCEPT ![scan] = incoming]
          /\ temp_id' = scan
     ELSE UNCHANGED <<client, temp_id>>
  /\ scan' = scan + 1
  /\ UNCHANGED <<netVars, inboxVars, peer, my_thread, uartVars, terminated,
                 mpc, incoming, newcomer, threadVars>>

\* One round of the loop over client[]: the first free slot is taken, the
\* loop still runs to its end.
Scan ==
  /\ ~terminated /\ mpc = "scan"
  /\ scan < MaxClients
  /\ IF client[scan] = INVALID_SOCKET /\ temp_id = -1
     THEN /\ client' = [client EXCEPT ![scan] = incoming]
          /\ temp_id' = scan
     ELSE UNCHANGED <<client, temp_id>>
  /\ scan' = scan + 1
  /\ UNCHANGED <<netVars, inboxVars, peer, my_thread, uartVars, terminated,
                 mpc, incoming, newcomer, threadVars>>

\* Mutant: slot 0 is taken for "no slot".
ScanEndNoZero ==
  /\ ~terminated /\ mpc = "scan"
  /\ scan = MaxClients
  /\ mpc' = IF temp_id > 0 THEN "sendid" ELSE "full"
  /\ UNCHANGED <<netVars, inboxVars, peer, client, my_thread, uartVars,
                 terminated, incoming, newcomer, scan, temp_id, threadVars>>

ScanEnd ==
  /\ ~terminated /\ mpc = "scan"
  /\ scan = MaxClients
  /\ mpc' = IF temp_id # -1 THEN "sendid" ELSE "full"
  /\ UNCHANGED <<netVars, inboxVars, peer, client, my_thread, uartVars,
                 terminated, incoming, newcomer, scan, temp_id, threadVars>>

SendId ==
  /\ ~terminated /\ mpc = "sendid"
  /\ Send(client[temp_id], Msg("id", newcomer))
  /\ mpc' = "welcome"
  /\ UNCHANGED <<netVars, peer, client, my_thread, uartVars, terminated,
                 incoming, newcomer, scan, temp_id, threadVars>>

SendWelcome ==
  /\ ~terminated /\ mpc = "welcome"
  /\ Send(client[temp_id], Msg("welcome", newcomer))
  /\ mpc' = "spawn"
  /\ UNCHANGED <<netVars, peer, client, my_thread, uartVars, terminated,
                 incoming, newcomer, scan, temp_id, threadVars>>

\* The temporary std::thread starts running before it is moved.
Spawn ==
  /\ ~terminated /\ mpc = "spawn"
  /\ pc' = [pc EXCEPT ![newcomer] = "join"]
  /\ slot' = [slot EXCEPT ![newcomer] = temp_id]
  /\ idx' = [idx EXCEPT ![newcomer] = 0]
  /\ mpc' = "assign"
  /\ UNCHANGED <<netVars, inboxVars, peer, client, my_thread, uartVars,
                 terminated, incoming, newcomer, scan, temp_id, src, said>>

\* Back to the accept loop; temp_id keeps its value until the next accept.
NextRound ==
  /\ mpc' = "accept"
  /\ incoming' = INVALID_SOCKET
  /\ newcomer' = NoClient
  /\ scan' = 0
  /\ UNCHANGED temp_id

\* Mutant: my_thread[temp_id] is overwritten, as a plain handle would be.
AssignOverwrites ==
  /\ ~terminated /\ mpc = "assign"
  /\ my_thread' = [my_thread EXCEPT ![temp_id] = newcomer]
  /\ NextRound
  /\ UNCHANGED <<netVars, inboxVars, peer, client, uartVars, terminated, threadVars>>

\* Mutant: main joins the thread instead of leaving it to detach itself.
AssignJoins ==
  /\ ~terminated /\ mpc = "assign"
  /\ pc[newcomer] = "detach"
  /\ pc' = [pc EXCEPT ![newcomer] = "done"]
  /\ NextRound
  /\ UNCHANGED <<netVars, inboxVars, peer, client, my_thread, uartVars,
                 terminated, slot, idx, src, said>>

\* std::thread's move assignment calls std::terminate when the target is
\* still joinable.
Assign ==
  /\ ~terminated /\ mpc = "assign"
  /\ IF my_thread[temp_id] # NoClient
     THEN terminated' = TRUE /\ UNCHANGED <<my_thread, mainVars>>
     ELSE /\ my_thread' = [my_thread EXCEPT ![temp_id] = newcomer]
          /\ NextRound
          /\ UNCHANGED terminated
  /\ UNCHANGED <<netVars, inboxVars, peer, client, uartVars, threadVars>>

\* The refused connection's socket is neither closed nor kept anywhere.
SendFull ==
  /\ ~terminated /\ mpc = "full"
  /\ Send(incoming, Msg("full", newcomer))
  /\ NextRound
  /\ UNCHANGED <<netVars, peer, client, my_thread, uartVars, terminated,
                 threadVars>>

-------------------------------------------------------------------------------
(* process_client: the thread of connection c, working on slot[c]. *)

GoTo(c, from, to) ==
  /\ ~terminated
  /\ pc[c] = from
  /\ pc' = [pc EXCEPT ![c] = to]

\* One round of a broadcast loop at position pos: to every taken slot, or to
\* every taken slot but the thread's own.
BroadcastStep(c, pos, kind, everyone) ==
  /\ ~terminated
  /\ pc[c] = pos
  /\ idx[c] < MaxClients
  /\ IF client[idx[c]] # INVALID_SOCKET /\ (everyone \/ slot[c] # idx[c])
     THEN Send(client[idx[c]], Msg(kind, c))
     ELSE UNCHANGED inboxVars
  /\ idx' = [idx EXCEPT ![c] = @ + 1]
  /\ UNCHANGED <<netVars, peer, client, my_thread, uartVars, terminated,
                 mainVars, pc, slot, src, said>>

BroadcastEnd(c, from, to) ==
  /\ GoTo(c, from, to)
  /\ idx[c] = MaxClients
  /\ idx' = [idx EXCEPT ![c] = 0]
  /\ UNCHANGED <<netVars, inboxVars, peer, client, my_thread, uartVars,
                 terminated, mainVars, slot, src, said>>

BroadcastJoin(c) == BroadcastStep(c, "join", "join", FALSE)

JoinEnd(c) == BroadcastEnd(c, "join", "call")

\* recv() is called on the socket the slot holds now.
CallRecv(c) ==
  /\ GoTo(c, "call", "recv")
  /\ src' = [src EXCEPT ![c] = PeerOf(client[slot[c]])]
  /\ UNCHANGED <<netVars, inboxVars, peer, client, my_thread, uartVars,
                 terminated, mainVars, slot, idx, said>>

\* Mutant: the last piece of the buffer stays queued.
RecvDataAgain(c, k) ==
  /\ src[c] \in Clients /\ ServerOpen(src[c])
  /\ k \in 1 .. Len(outbox[src[c]])
  /\ LET buffer == SubSeq(outbox[src[c]], 1, k)
     IN  /\ said' = [said EXCEPT ![c] = buffer]
         /\ GoTo(c, "recv", IF buffer \in Commands THEN "uart" ELSE "chat")
  /\ outbox' = [outbox EXCEPT ![src[c]] = SubSeq(@, k, Len(@))]
  /\ src' = [src EXCEPT ![c] = NoClient]
  /\ UNCHANGED <<conn, backlog, sent, inboxVars, peer, client, my_thread,
                 uartVars, terminated, mainVars, slot, idx>>

\* Mutant: a command is known by the start of the buffer.
RecvDataByPrefix(c, k) ==
  /\ src[c] \in Clients /\ ServerOpen(src[c])
  /\ k \in 1 .. Len(outbox[src[c]])
  /\ LET buffer == SubSeq(outbox[src[c]], 1, k)
     IN  /\ said' = [said EXCEPT ![c] = buffer]
         /\ GoTo(c, "recv",
                 IF \E n \in 1 .. k : SubSeq(buffer, 1, n) \in Commands
                 THEN "uart" ELSE "chat")
  /\ outbox' = [outbox EXCEPT ![src[c]] = SubSeq(@, k + 1, Len(@))]
  /\ src' = [src EXCEPT ![c] = NoClient]
  /\ UNCHANGED <<conn, backlog, sent, inboxVars, peer, client, my_thread,
                 uartVars, terminated, mainVars, slot, idx>>

\* recv() returns any stretch of the stream that starts with its oldest
\* piece: TCP keeps no boundaries, so a text may be cut, and texts or their
\* parts may be joined.  A buffer that equals a command is taken for one,
\* whichever texts it comes from.
RecvData(c, k) ==
  /\ src[c] \in Clients /\ ServerOpen(src[c])
  /\ k \in 1 .. Len(outbox[src[c]])
  /\ LET buffer == SubSeq(outbox[src[c]], 1, k)
     IN  /\ said' = [said EXCEPT ![c] = buffer]
         /\ GoTo(c, "recv", IF buffer \in Commands THEN "uart" ELSE "chat")
  /\ outbox' = [outbox EXCEPT ![src[c]] = SubSeq(@, k + 1, Len(@))]
  /\ src' = [src EXCEPT ![c] = NoClient]
  /\ UNCHANGED <<conn, backlog, sent, inboxVars, peer, client, my_thread,
                 uartVars, terminated, mainVars, slot, idx>>

\* Mutant: only an error ends the session, not the 0 of a graceful end.
RecvErrorOnly(c) ==
  /\ GoTo(c, "recv", "close")
  /\ src[c] \in Clients => ~ServerOpen(src[c])
  /\ src' = [src EXCEPT ![c] = NoClient]
  /\ UNCHANGED <<netVars, inboxVars, peer, client, my_thread, uartVars,
                 terminated, mainVars, slot, idx, said>>

\* Mutant: the session ends without closing its socket.
RecvEndKeepsSocket(c) ==
  /\ GoTo(c, "recv", "free")
  /\ src[c] \in Clients =>
       \/ ~ServerOpen(src[c])
       \/ conn[src[c]] = "closed" /\ outbox[src[c]] = <<>>
  /\ src' = [src EXCEPT ![c] = NoClient]
  /\ UNCHANGED <<netVars, inboxVars, peer, client, my_thread, uartVars,
                 terminated, mainVars, slot, idx, said>>

\* recv() returns 0 after the client's end, SOCKET_ERROR on a closed socket.
RecvEnd(c) ==
  /\ GoTo(c, "recv", "close")
  /\ src[c] \in Clients =>
       \/ ~ServerOpen(src[c])
       \/ conn[src[c]] = "closed" /\ outbox[src[c]] = <<>>
  /\ src' = [src EXCEPT ![c] = NoClient]
  /\ UNCHANGED <<netVars, inboxVars, peer, client, my_thread, uartVars,
                 terminated, mainVars, slot, idx, said>>

\* Mutant: what WriteFile() did not write is written again.
WriteCommandRetries(c) ==
  /\ \/ GoTo(c, "uart", "chat") /\ UNCHANGED wire
     \/ /\ hCom \in {"opened", "ready", "raw"}
        /\ Len(wire) < MaxSent
        /\ \E w \in BOOLEAN :
             /\ GoTo(c, "uart", IF w THEN "chat" ELSE "uart")
             /\ wire' = Append(wire, [from |-> c, text |-> said[c], whole |-> w])
  /\ UNCHANGED <<netVars, inboxVars, peer, client, my_thread, hCom,
                 terminated, mainVars, slot, idx, src, said>>

\* WriteFile() on an open port writes the command whole, or only its start
\* when the timeout of lines 42-43 passes, or nothing; on a handle that is
\* not open it fails.  Nobody looks at the number of bytes written.
WriteCommand(c) ==
  /\ GoTo(c, "uart", "chat")
  /\ \/ UNCHANGED wire
     \/ /\ hCom \in {"opened", "ready", "raw"}
        /\ \E w \in BOOLEAN :
             wire' = Append(wire, [from |-> c, text |-> said[c], whole |-> w])
  /\ UNCHANGED <<netVars, inboxVars, peer, client, my_thread, hCom,
                 terminated, mainVars, slot, idx, src, said>>

\* Mutant: "if (new_client.id != i)" dropped.
BroadcastChatToAll(c) == BroadcastStep(c, "chat", "chat", TRUE)

BroadcastChat(c) == BroadcastStep(c, "chat", "chat", FALSE)

\* Mutant: the "break" of the other branch taken after every message.
ChatEndsSession(c) ==
  /\ GoTo(c, "chat", "close")
  /\ idx[c] = MaxClients
  /\ idx' = [idx EXCEPT ![c] = 0]
  /\ said' = [said EXCEPT ![c] = <<>>]
  /\ UNCHANGED <<netVars, inboxVars, peer, client, my_thread, uartVars,
                 terminated, mainVars, slot, src>>

\* Mutant: the thread returns after its first message, its slot taken.
ChatEndReturns(c) ==
  /\ GoTo(c, "chat", "detach")
  /\ idx[c] = MaxClients
  /\ idx' = [idx EXCEPT ![c] = 0]
  /\ said' = [said EXCEPT ![c] = <<>>]
  /\ UNCHANGED <<netVars, inboxVars, peer, client, my_thread, uartVars,
                 terminated, mainVars, slot, src>>

ChatEnd(c) ==
  /\ GoTo(c, "chat", "call")
  /\ idx[c] = MaxClients
  /\ idx' = [idx EXCEPT ![c] = 0]
  /\ said' = [said EXCEPT ![c] = <<>>]
  /\ UNCHANGED <<netVars, inboxVars, peer, client, my_thread, uartVars,
                 terminated, mainVars, slot, src>>

\* Mutant: the slot is marked free before its socket is closed again.
CloseSocketFreesFirst(c) ==
  /\ GoTo(c, "close", "reclose")
  /\ Close(client[slot[c]])
  /\ client' = [client EXCEPT ![slot[c]] = INVALID_SOCKET]
  /\ UNCHANGED <<netVars, inboxVars, my_thread, uartVars,
                 terminated, mainVars, slot, idx, src, said>>

\* The same field is closed twice, through two names of one slot.
CloseSocket(c) ==
  /\ GoTo(c, "close", "reclose")
  /\ Close(client[slot[c]])
  /\ UNCHANGED <<netVars, inboxVars, client, my_thread, uartVars,
                 terminated, mainVars, slot, idx, src, said>>

CloseSocketAgain(c) ==
  /\ GoTo(c, "reclose", "free")
  /\ Close(client[slot[c]])
  /\ UNCHANGED <<netVars, inboxVars, client, my_thread, uartVars,
                 terminated, mainVars, slot, idx, src, said>>

\* Mutant: the slot is cleared with 0 instead of INVALID_SOCKET.
FreeSlotWithZero(c) ==
  /\ GoTo(c, "free", "left")
  /\ client' = [client EXCEPT ![slot[c]] = 0]
  /\ UNCHANGED <<netVars, inboxVars, peer, my_thread, uartVars, terminated,
                 mainVars, slot, idx, src, said>>

FreeSlot(c) ==
  /\ GoTo(c, "free", "left")
  /\ client' = [client EXCEPT ![slot[c]] = INVALID_SOCKET]
  /\ UNCHANGED <<netVars, inboxVars, peer, my_thread, uartVars, terminated,
                 mainVars, slot, idx, src, said>>

BroadcastLeft(c) == BroadcastStep(c, "left", "left", TRUE)

LeftEnd(c) == BroadcastEnd(c, "left", "detach")

\* detach() of an object that holds no thread throws std::system_error out
\* of the thread function, which calls std::terminate.
Detach(c) ==
  /\ GoTo(c, "detach", "done")
  /\ IF my_thread[slot[c]] = NoClient
     THEN terminated' = TRUE /\ UNCHANGED my_thread
     ELSE /\ my_thread' = [my_thread EXCEPT ![slot[c]] = NoClient]
          /\ UNCHANGED terminated
  /\ UNCHANGED <<netVars, inboxVars, peer, client, uartVars, mainVars,
                 slot, idx, src, said>>

-------------------------------------------------------------------------------
(* process_uart: opens and configures COM10, once, beside everything else. *)

OpenPort ==
  /\ ~terminated /\ hCom = "null"
  /\ hCom' \in {"opened", "invalid"}
  /\ UNCHANGED <<netVars, inboxVars, peer, client, my_thread, wire,
                 terminated, mainVars, threadVars>>

\* GetCommState or SetCommState may fail: the handle stays open.
SetUpPort ==
  /\ ~terminated /\ hCom = "opened"
  /\ hCom' \in {"ready", "raw"}
  /\ UNCHANGED <<netVars, inboxVars, peer, client, my_thread, wire,
                 terminated, mainVars, threadVars>>

-------------------------------------------------------------------------------

MainStep == Scan \/ ScanEnd \/ SendId \/ SendWelcome \/ Spawn \/ Assign \/ SendFull

ThreadStep(c) ==
  \/ BroadcastJoin(c) \/ JoinEnd(c)
  \/ CallRecv(c) \/ (\E k \in 1 .. MaxSent : RecvData(c, k)) \/ RecvEnd(c)
  \/ WriteCommand(c)
  \/ BroadcastChat(c) \/ ChatEnd(c)
  \/ CloseSocket(c) \/ CloseSocketAgain(c) \/ FreeSlot(c)
  \/ BroadcastLeft(c) \/ LeftEnd(c) \/ Detach(c)

AcceptStep == \E c \in Clients, h \in Handles : Accept(c, h)

ClientStep(c) ==
  Connect(c) \/ (\E t \in Texts : ClientSend(c, t)) \/ Drain(c) \/ ClientClose(c)

Next ==
  \/ \E c \in Clients : ClientStep(c)
  \/ AcceptStep
  \/ MainStep
  \/ \E c \in Clients : ThreadStep(c)
  \/ OpenPort \/ SetUpPort

Spec == Init /\ [][Next]_vars

\* The scheduler runs every thread of the server that is not blocked in
\* send(); the clients owe nothing, not even that they go on reading.
Fairness ==
  /\ WF_vars(AcceptStep) /\ WF_vars(MainStep)
  /\ \A c \in Clients : WF_vars(ThreadStep(c))
  /\ WF_vars(OpenPort) /\ WF_vars(SetUpPort)

FairSpec == Spec /\ Fairness

-------------------------------------------------------------------------------
(* Who owns a slot. *)

InSession(c) == pc[c] \in SessionPC

\* main has taken slot i for its newcomer and not yet started the thread.
MainHolds(i) == mpc \in {"scan", "sendid", "welcome", "spawn"} /\ temp_id = i

\* A taken slot has exactly one owner, the thread in its session or main on
\* behalf of the newcomer, and a free slot has none: although main takes
\* slots and threads free them without a lock, no thread ever works on a
\* slot that was given to another connection (the reference new_client in
\* process_client stays its own) and no taken slot is forgotten.
OneOwner ==
  /\ \A c \in Clients : InSession(c) => client[slot[c]] # INVALID_SOCKET
  /\ \A c, d \in Clients :
       InSession(c) /\ InSession(d) /\ slot[c] = slot[d] => c = d
  /\ \A i \in Slots :
       MainHolds(i) =>
         /\ client[i] # INVALID_SOCKET
         /\ \A c \in Clients : InSession(c) => slot[c] # i
  /\ \A i \in Slots :
       client[i] # INVALID_SOCKET =>
         MainHolds(i) \/ \E c \in Clients : InSession(c) /\ slot[c] = i

===============================================================================
