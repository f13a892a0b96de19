------------------------------ MODULE EchoServer ------------------------------
(***************************************************************************)
(* The echo server of Winsock_Server: main accepts connections and starts  *)
(* one echo_handler thread for each, with the SOCKET by value; the thread  *)
(* sends back what it receives until the text --exit, the end of the       *)
(* stream or an error.                                                     *)
(*                                                                         *)
(* A text on the wire has two parts, <<m, 1>> and <<m, 2>>: recv() may cut *)
(* it between them, and only the second has the terminating NUL.           *)
(***************************************************************************)
EXTENDS Sequences, Integers

CONSTANTS
  Clients,       \* the processes that connect, once each
  Handles,       \* the SOCKET values that accept() may return
  Texts,         \* the lines that are sent
  EXIT,          \* the text "--exit"
  NoClient, INVALID_SOCKET

ASSUME EchoAssumption ==
  /\ EXIT \in Texts
  /\ NoClient \notin Clients
  /\ INVALID_SOCKET \notin Handles

VARIABLES
  started,       \* WSAStartup() has not been undone by WSACleanup()
  listening,     \* server_socket is open
  mpc,           \* main's position in the endless loop
  client_socket, \* main's local, from accept() to CreateThread()
  incoming,      \* the connection that client_socket stands for
  pc,            \* pc[c]: position of the echo_handler thread started for c
  sock,          \* sock[c]: its SOCKET value
  buf,           \* buf[c]: the byte_rec bytes in its receive_buffer
  peer,          \* Winsock: the connection an open SOCKET value denotes
  srv,           \* srv[c]: the server's end of connection c
  conn,          \* conn[c]: the client's end of it
  inq,           \* inq[c]: on its way to the server
  outbox         \* outbox[c]: on its way to the client

mainVars == <<mpc, client_socket, incoming>>
threadVars == <<pc, sock, buf>>
netVars == <<started, listening, peer, srv>>
wireVars == <<conn, inq, outbox>>
vars == <<mainVars, threadVars, netVars, wireVars>>

Parts == Texts \X (1 .. 2)
OnWire(m) == <<<<m, 1>>, <<m, 2>>>>

TypeOK ==
  /\ started \in BOOLEAN /\ listening \in BOOLEAN
  /\ mpc \in {"accept", "create", "cleanup"}
  /\ client_socket \in Handles \cup {INVALID_SOCKET}
  /\ incoming \in Clients \cup {NoClient}
  /\ pc \in [Clients -> {"none", "recv", "send", "close", "shutdown", "done"}]
  /\ sock \in [Clients -> Handles \cup {INVALID_SOCKET}]
  /\ buf \in [Clients -> Seq(Parts)]
  /\ \A c \in Clients : pc[c] = "send" => buf[c] # <<>>
  /\ peer \in [Handles -> Clients \cup {NoClient}]
  /\ srv \in [Clients -> {"none", "pending", "open", "shut", "closed"}]
  /\ conn \in [Clients -> {"none", "open", "closed", "reset"}]
  /\ inq \in [Clients -> Seq(Parts)]
  /\ outbox \in [Clients -> Seq(Parts)]

Init ==
  /\ started = TRUE /\ listening = TRUE
  /\ mpc = "accept" /\ client_socket = INVALID_SOCKET /\ incoming = NoClient
  /\ pc = [c \in Clients |-> "none"]
  /\ sock = [c \in Clients |-> INVALID_SOCKET]
  /\ buf = [c \in Clients |-> <<>>]
  /\ peer = [h \in Handles |-> NoClient]
  /\ srv = [c \in Clients |-> "none"]
  /\ conn = [c \in Clients |-> "none"]
  /\ inq = [c \in Clients |-> <<>>]
  /\ outbox = [c \in Clients |-> <<>>]

FreeHandles == {h \in Handles : peer[h] = NoClient}

GoTo(c, from, to) ==
  /\ pc[c] = from
  /\ pc' = [pc EXCEPT ![c] = to]

-------------------------------------------------------------------------------
(* main *)

\* Winsock's queue of pending connections is a set here: every client connects
\* once, so none is overtaken for ever.
Accept(c) ==
  /\ mpc = "accept" /\ listening /\ srv[c] = "pending"
  /\ \E h \in FreeHandles :
       /\ client_socket' = h
       /\ peer' = [peer EXCEPT ![h] = c]
  /\ incoming' = c
  /\ srv' = [srv EXCEPT ![c] = "open"]
  /\ mpc' = "create"
  /\ UNCHANGED <<started, listening, threadVars, wireVars>>

\* accept() fails when the pending client has reset its connection, and when
\* there is no SOCKET value left; closesocket(server).
AcceptFails(c) ==
  /\ mpc = "accept" /\ listening /\ srv[c] = "pending"
  /\ conn[c] = "reset" \/ FreeHandles = {}
  /\ listening' = FALSE
  /\ srv' = [d \in Clients |-> IF srv[d] = "pending" THEN "closed" ELSE srv[d]]
  /\ mpc' = "cleanup"
  /\ UNCHANGED <<client_socket, incoming, started, peer, threadVars, wireVars>>

\* The one WSACleanup() that matches WSAStartup() closes every socket of the
\* process. Later rounds of the loop fail in accept() and change nothing.
Cleanup ==
  /\ mpc = "cleanup"
  /\ started' = FALSE
  /\ peer' = [h \in Handles |-> NoClient]
  /\ srv' = [d \in Clients |-> IF srv[d] \in {"open", "shut"} THEN "closed" ELSE srv[d]]
  /\ mpc' = "accept"
  /\ UNCHANGED <<listening, client_socket, incoming, threadVars, wireVars>>

\* CreateThread() with client_socket by value.
Create ==
  /\ mpc = "create"
  /\ pc' = [pc EXCEPT ![incoming] = "recv"]
  /\ sock' = [sock EXCEPT ![incoming] = client_socket]
  /\ mpc' = "accept"
  /\ client_socket' = INVALID_SOCKET
  /\ incoming' = NoClient
  /\ UNCHANGED <<buf, netVars, wireVars>>

\* CreateThread() fails, which main does not look at: the socket stays open and
\* nobody has its value.
CreateFails ==
  /\ mpc = "create"
  /\ mpc' = "accept"
  /\ client_socket' = INVALID_SOCKET
  /\ incoming' = NoClient
  /\ UNCHANGED <<threadVars, netVars, wireVars>>

-------------------------------------------------------------------------------
(* echo_handler and echo *)

\* The connection that thread c's SOCKET value denotes is d.
Uses(c, d) == started /\ d \in Clients /\ peer[sock[c]] = d

\* strcmp(receive_buffer, "--exit") == 0: decided by what was received if that
\* has a NUL, else also by what was in the buffer before.
ComparesToExit(data) ==
  IF \E i \in 1 .. Len(data) : data[i][2] = 2
  THEN {data[1] = <<EXIT, 1>>}
  ELSE BOOLEAN

RecvData(c, d, k) ==
  /\ pc[c] = "recv"
  /\ Uses(c, d) /\ conn[d] # "reset"
  /\ k \in 1 .. Len(inq[d])
  /\ buf' = [buf EXCEPT ![c] = SubSeq(inq[d], 1, k)]
  /\ inq' = [inq EXCEPT ![d] = SubSeq(@, k + 1, Len(@))]
  /\ \E exits \in ComparesToExit(buf'[c]) :
       pc' = [pc EXCEPT ![c] = IF exits THEN "shutdown" ELSE "send"]
  /\ UNCHANGED <<sock, mainVars, netVars, conn, outbox>>

\* Mutant: byte_rec >= 0 counts as data.
RecvEndSends(c, d) ==
  /\ GoTo(c, "recv", "send")
  /\ Uses(c, d) /\ conn[d] = "closed" /\ inq[d] = <<>>
  /\ UNCHANGED <<sock, buf, mainVars, netVars, wireVars>>

\* byte_rec == 0.
RecvEnd(c, d) ==
  /\ GoTo(c, "recv", "shutdown")
  /\ Uses(c, d) /\ conn[d] = "closed" /\ inq[d] = <<>>
  /\ UNCHANGED <<sock, buf, mainVars, netVars, wireVars>>

\* "Force close!": the connection was reset, or Winsock is down.
RecvFails(c) ==
  /\ GoTo(c, "recv", "close")
  /\ ~started \/ \E d \in Clients : Uses(c, d) /\ conn[d] = "reset"
  /\ UNCHANGED <<sock, buf, mainVars, netVars, wireVars>>

\* Mutant: the terminating NUL is not sent back.
SendShort(c, d) ==
  /\ GoTo(c, "send", "recv")
  /\ Uses(c, d) /\ srv[d] = "open" /\ conn[d] # "reset"
  /\ outbox' = [outbox EXCEPT ![d] = IF conn[d] = "open"
                                    THEN @ \o SubSeq(buf[c], 1, Len(buf[c]) - 1)
                                    ELSE @]
  /\ buf' = [buf EXCEPT ![c] = <<>>]
  /\ UNCHANGED <<sock, mainVars, netVars, conn, inq>>

Send(c, d) ==
  /\ GoTo(c, "send", "recv")
  /\ Uses(c, d) /\ srv[d] = "open" /\ conn[d] # "reset"
  /\ outbox' = [outbox EXCEPT ![d] = IF conn[d] = "open" THEN @ \o buf[c] ELSE @]
  /\ buf' = [buf EXCEPT ![c] = <<>>]
  /\ UNCHANGED <<sock, mainVars, netVars, conn, inq>>

\* SOCKET_ERROR, also after some other thread has shut this connection down.
SendFails(c) ==
  /\ GoTo(c, "send", "close")
  /\ \/ ~started
     \/ \E d \in Clients : Uses(c, d) /\ (srv[d] # "open" \/ conn[d] = "reset")
  /\ UNCHANGED <<sock, buf, mainVars, netVars, wireVars>>

\* closesocket(client).
Close(c) ==
  /\ GoTo(c, "close", "shutdown")
  /\ \/ /\ ~started
        /\ UNCHANGED <<peer, srv>>
     \/ \E d \in Clients :
          /\ Uses(c, d)
          /\ peer' = [peer EXCEPT ![sock[c]] = NoClient]
          /\ srv' = [srv EXCEPT ![d] = "closed"]
  /\ UNCHANGED <<sock, buf, started, listening, mainVars, wireVars>>

\* The thread's stack goes with it.
Returns(c) ==
  /\ GoTo(c, "shutdown", "done")
  /\ sock' = [sock EXCEPT ![c] = INVALID_SOCKET]
  /\ buf' = [buf EXCEPT ![c] = <<>>]

\* Mutant: the handler returns without shutting down.
ShutdownForgotten(c) ==
  /\ Returns(c)
  /\ UNCHANGED <<mainVars, netVars, wireVars>>

\* Mutant: the handler closes the socket, which echo() may have closed.
ShutdownCloses(c) ==
  /\ Returns(c)
  /\ peer' = [peer EXCEPT ![sock[c]] = NoClient]
  /\ srv' = [d \in Clients |-> IF Uses(c, d) THEN "closed" ELSE srv[d]]
  /\ UNCHANGED <<started, listening, mainVars, wireVars>>

\* shutdown(sock, SD_SEND), after echo() has closed sock in two of its returns:
\* the value may then denote another connection, or none. It is never closed
\* here.
Shutdown(c) ==
  /\ Returns(c)
  /\ srv' = [d \in Clients |-> IF Uses(c, d) /\ srv[d] = "open" THEN "shut" ELSE srv[d]]
  /\ UNCHANGED <<started, listening, peer, mainVars, wireVars>>

-------------------------------------------------------------------------------

MainStep ==
  \/ \E c \in Clients : Accept(c) \/ AcceptFails(c)
  \/ Cleanup \/ Create \/ CreateFails

ThreadStep(c) ==
  \/ \E d \in Clients :
       \/ \E k \in 1 .. Len(inq[d]) : RecvData(c, d, k)
       \/ RecvEnd(c, d) \/ Send(c, d)
  \/ RecvFails(c) \/ SendFails(c) \/ Close(c) \/ Shutdown(c)

ServerNext == MainStep \/ \E c \in Clients : ThreadStep(c)

\* Windows runs every thread, and no call waits for a lock.
ServerFairness == WF_vars(MainStep) /\ \A c \in Clients : WF_vars(ThreadStep(c))

\* Accepted, and neither main nor any thread has the socket.
Unattended(c) == srv[c] = "open" /\ pc[c] = "none" /\ incoming # c

-------------------------------------------------------------------------------

\* A thread that has not closed its socket still holds the one that main
\* accepted for it: closesocket() and shutdown() by threads that are ending do
\* not take it away (connection.c:92,115,122; main.c:40).
SocketIsMine ==
  started => \A c \in Clients : pc[c] \in {"recv", "send", "close"} => peer[sock[c]] = c
===============================================================================
