------------------------------- MODULE EchoOnce -------------------------------
(***************************************************************************)
(* echo_server_tcp: a program of one thread that accepts one connection,   *)
(* stops listening, sends back what it receives until the stream ends or   *)
(* fails, and exits.  Only WSAStartup, socket and recv have their results  *)
(* looked at.  Every reply has one byte more than was received: the byte   *)
(* that follows in buf, or, after a full recv(), whatever lies behind buf. *)
(*                                                                         *)
(* The clients are any TCP programs: the one in client_tcp connects to     *)
(* another port.                                                           *)
(***************************************************************************)
EXTENDS Sequences, Integers

CONSTANTS
  Clients,       \* programs that connect, once each
  NoClient,      \* INVALID_SOCKET
  BufLen,        \* sizeof(buf), 4096 in the code
  Window,        \* what fits into a connection before send() blocks
  MaxBytes       \* bound: bytes that a client sends

ASSUME OnceAssumption ==
  /\ NoClient \notin Clients
  /\ BufLen \in Nat \ {0}
  /\ Window \in Nat /\ Window > BufLen
  /\ MaxBytes \in Nat

VARIABLES
  pc,
  listening,      \* the state of the listening socket
  client_socket,  \* the connection it denotes
  buf, bytes_received,
  srv,            \* srv[c]: the server's end of connection c
  conn,           \* conn[c]: the client's end of it
  sent,           \* sent[c]: how many bytes the client has sent
  inq,            \* inq[c]: those on their way to the server
  echoed,         \* echoed[c]: the bytes sent back to it
  read            \* read[c]: how many of these it has read

serverVars == <<pc, listening, client_socket, buf, bytes_received>>
netVars == <<srv, conn, inq, echoed>>
clientVars == <<sent, read>>
vars == <<serverVars, netVars, clientVars>>

\* The k-th byte of a client is the number k: its bytes are told apart.  0 is
\* the byte that memset() writes, Beyond what lies behind buf.
Beyond == MaxBytes + 1
Bytes == 0 .. Beyond

ZeroBuf == [i \in 1 .. BufLen |-> 0]

\* recv() writes nothing behind buf, because it is given the size of buf (line
\* 70), and what is sent back and not read fits into the connection. send() does
\* read behind buf after a full recv() (line 81): see Reply.
TypeOK ==
  /\ pc \in {"bind", "listen", "accept", "stop", "memset", "recv", "send",
             "close", "cleanup", "ended"}
  /\ listening \in {"unbound", "bound", "listening", "closed"}
  /\ client_socket \in Clients \cup {NoClient}
  /\ buf \in [1 .. BufLen -> Bytes]
  /\ bytes_received \in 0 .. BufLen
  /\ pc = "send" => bytes_received > 0 /\ client_socket \in Clients
  /\ srv \in [Clients -> {"none", "pending", "open", "closed"}]
  /\ conn \in [Clients -> {"none", "open", "half", "closed", "reset"}]
  /\ sent \in [Clients -> 0 .. MaxBytes]
  /\ inq \in [Clients -> Seq(Bytes)]
  /\ echoed \in [Clients -> Seq(Bytes)]
  /\ read \in [Clients -> Nat]
  /\ \A c \in Clients : read[c] <= Len(echoed[c]) /\ Len(echoed[c]) - read[c] <= Window

\* After WSAStartup() and socket() have succeeded; buf is uninitialized, and
\* always written before it is read.
Init ==
  /\ pc = "bind"
  /\ listening = "unbound"
  /\ client_socket = NoClient
  /\ buf = ZeroBuf
  /\ bytes_received = 0
  /\ srv = [c \in Clients |-> "none"]
  /\ conn = [c \in Clients |-> "none"]
  /\ sent = [c \in Clients |-> 0]
  /\ inq = [c \in Clients |-> <<>>]
  /\ echoed = [c \in Clients |-> <<>>]
  /\ read = [c \in Clients |-> 0]

-------------------------------------------------------------------------------
(* The server. *)

GoTo(from, to) == pc = from /\ pc' = to

\* bind() fails when the port is taken; nobody looks.
Bind ==
  /\ GoTo("bind", "listen")
  /\ listening' \in {"bound", "unbound"}
  /\ UNCHANGED <<client_socket, buf, bytes_received, netVars, clientVars>>

\* listen() fails on a socket that is not bound; nobody looks.
Listen ==
  /\ GoTo("listen", "accept")
  /\ listening' = IF listening = "bound" THEN "listening" ELSE listening
  /\ UNCHANGED <<client_socket, buf, bytes_received, netVars, clientVars>>

Accept(c) ==
  /\ GoTo("accept", "stop")
  /\ listening = "listening" /\ srv[c] = "pending"
  /\ client_socket' = c
  /\ srv' = [srv EXCEPT ![c] = "open"]
  /\ UNCHANGED <<listening, buf, bytes_received, conn, inq, echoed, clientVars>>

\* accept() fails on a socket that does not listen, and when the client that
\* was pending has reset its connection; the program goes on all the same.
AcceptFails ==
  /\ GoTo("accept", "stop")
  /\ \/ listening # "listening" /\ UNCHANGED srv
     \/ \E c \in Clients :
          /\ srv[c] = "pending" /\ conn[c] = "reset"
          /\ srv' = [srv EXCEPT ![c] = "closed"]
  /\ UNCHANGED <<listening, client_socket, buf, bytes_received, conn, inq, echoed, clientVars>>

\* Mutant: the listening socket stays open.
StopForgotten ==
  /\ GoTo("stop", "memset")
  /\ UNCHANGED <<listening, client_socket, buf, bytes_received, netVars, clientVars>>

\* closesocket(listening): the connections nobody has accepted are reset.
StopListening ==
  /\ GoTo("stop", "memset")
  /\ listening' = "closed"
  /\ srv' = [c \in Clients |-> IF srv[c] = "pending" THEN "closed" ELSE srv[c]]
  /\ conn' = [c \in Clients |-> IF srv[c] = "pending" THEN "reset" ELSE conn[c]]
  /\ UNCHANGED <<client_socket, buf, bytes_received, inq, echoed, clientVars>>

\* Mutant: the buffer keeps what was received before.
MemsetForgotten ==
  /\ GoTo("memset", "recv")
  /\ UNCHANGED <<listening, client_socket, buf, bytes_received, netVars, clientVars>>

\* memset(buf, 0, 4096)
Memset ==
  /\ GoTo("memset", "recv")
  /\ buf' = ZeroBuf
  /\ UNCHANGED <<listening, client_socket, bytes_received, netVars, clientVars>>

\* Mutant: recv() is given more than the size of buf.
RecvDataPastBuf(c, k) ==
  /\ GoTo("recv", "send")
  /\ client_socket = c /\ conn[c] # "reset"
  /\ k \in 1 .. Len(inq[c])
  /\ buf' = [i \in 1 .. BufLen |-> IF i <= k THEN inq[c][i] ELSE buf[i]]
  /\ bytes_received' = k
  /\ inq' = [inq EXCEPT ![c] = SubSeq(@, k + 1, Len(@))]
  /\ UNCHANGED <<listening, client_socket, srv, conn, echoed, clientVars>>

RecvData(c, k) ==
  /\ GoTo("recv", "send")
  /\ client_socket = c /\ conn[c] # "reset"
  /\ k \in 1 .. Len(inq[c]) /\ k <= BufLen
  /\ buf' = [i \in 1 .. BufLen |-> IF i <= k THEN inq[c][i] ELSE buf[i]]
  /\ bytes_received' = k
  /\ inq' = [inq EXCEPT ![c] = SubSeq(@, k + 1, Len(@))]
  /\ UNCHANGED <<listening, client_socket, srv, conn, echoed, clientVars>>

\* Mutant: the end of the stream is taken for a message of no bytes.
RecvEndGoesOn(c) ==
  /\ GoTo("recv", "memset")
  /\ client_socket = c /\ conn[c] \in {"half", "closed"} /\ inq[c] = <<>>
  /\ bytes_received' = 0
  /\ UNCHANGED <<listening, client_socket, buf, netVars, clientVars>>

\* bytes_received == 0
RecvEnd(c) ==
  /\ GoTo("recv", "close")
  /\ client_socket = c /\ conn[c] \in {"half", "closed"} /\ inq[c] = <<>>
  /\ bytes_received' = 0
  /\ UNCHANGED <<listening, client_socket, buf, netVars, clientVars>>

\* SOCKET_ERROR; bytes_received, -1 then, is not used any more.
RecvFails ==
  /\ GoTo("recv", "close")
  /\ client_socket = NoClient \/ \E c \in Clients : client_socket = c /\ conn[c] = "reset"
  /\ UNCHANGED <<listening, client_socket, buf, bytes_received, netVars, clientVars>>

\* The bytes_received + 1 bytes from buf on.
Reply ==
  LET data == [i \in 1 .. bytes_received |-> buf[i]]
  IN  IF bytes_received < BufLen
      THEN {Append(data, buf[bytes_received + 1])}
      ELSE {Append(data, b) : b \in {0, Beyond}}

\* Bytes for a client that has gone are lost, those for one that does not read
\* wait for room, and nobody looks whether send() has failed.
Sends(c) ==
  /\ pc = "send" /\ client_socket = c
  /\ \/ /\ conn[c] \in {"open", "half"}
        /\ Len(echoed[c]) - read[c] + bytes_received + 1 <= Window
        /\ \E r \in Reply : echoed' = [echoed EXCEPT ![c] = @ \o r]
     \/ conn[c] \in {"closed", "reset"} /\ UNCHANGED echoed
  /\ UNCHANGED <<listening, client_socket, buf, bytes_received, srv, conn, inq, clientVars>>

\* Mutant: the loop ends after the first reply.
SendOnce(c) == Sends(c) /\ pc' = "close"

Send(c) == Sends(c) /\ pc' = "memset"

\* closesocket(client_socket): the client reads what was sent and then the end.
Close ==
  /\ GoTo("close", "cleanup")
  /\ srv' = [c \in Clients |-> IF c = client_socket THEN "closed" ELSE srv[c]]
  /\ UNCHANGED <<listening, client_socket, buf, bytes_received, conn, inq, echoed, clientVars>>

\* WSACleanup() and the end of main.
Cleanup ==
  /\ GoTo("cleanup", "ended")
  /\ UNCHANGED <<listening, client_socket, buf, bytes_received, netVars, clientVars>>

ServerStep ==
  \/ Bind \/ Listen \/ AcceptFails \/ StopListening \/ Memset \/ RecvFails \/ Close \/ Cleanup
  \/ \E c \in Clients :
       Accept(c) \/ RecvEnd(c) \/ Send(c) \/ \E k \in 1 .. Len(inq[c]) : RecvData(c, k)

-------------------------------------------------------------------------------
(* The clients. *)

Connect(c) ==
  /\ conn[c] = "none" /\ listening = "listening"
  /\ conn' = [conn EXCEPT ![c] = "open"]
  /\ srv' = [srv EXCEPT ![c] = "pending"]
  /\ UNCHANGED <<serverVars, inq, echoed, clientVars>>

Say(c) ==
  /\ conn[c] = "open" /\ srv[c] \in {"pending", "open"} /\ sent[c] < MaxBytes
  /\ sent' = [sent EXCEPT ![c] = @ + 1]
  /\ inq' = [inq EXCEPT ![c] = Append(@, sent'[c])]
  /\ UNCHANGED <<serverVars, srv, conn, echoed, read>>

Read(c) ==
  /\ conn[c] \in {"open", "half"} /\ read[c] < Len(echoed[c])
  /\ read' = [read EXCEPT ![c] = @ + 1]
  /\ UNCHANGED <<serverVars, netVars, sent>>

\* A client ends its sending and reads on, is gone, or resets its connection.
Leave(c) ==
  /\ \/ conn[c] = "open" /\ conn' = [conn EXCEPT ![c] = "half"]
     \/ conn[c] \in {"open", "half"} /\ conn' = [conn EXCEPT ![c] = "closed"]
     \/ /\ conn[c] \in {"open", "half", "closed"} /\ srv[c] # "closed"
        /\ conn' = [conn EXCEPT ![c] = "reset"]
  /\ UNCHANGED <<serverVars, srv, inq, echoed, clientVars>>

Next == ServerStep \/ \E c \in Clients : Connect(c) \/ Say(c) \/ Read(c) \/ Leave(c)

\* The one thread runs on; a client that has ended its sending reads what comes
\* back, all others may stop anywhere.
Fairness ==
  /\ WF_vars(ServerStep)
  /\ \A c \in Clients : WF_vars(conn[c] = "half" /\ Read(c))

Spec == Init /\ [][Next]_vars /\ Fairness

-------------------------------------------------------------------------------

\* What of a client's bytes the server has received and not sent back.
Held == IF pc = "send" THEN [i \in 1 .. bytes_received |-> buf[i]] ELSE <<>>

Served(c) == client_socket = c /\ srv[c] = "open" /\ conn[c] \in {"open", "half"}

\* The extra bytes are never bytes of the client: apart from them what comes
\* back, what the server holds and what is on its way make up what was sent,
\* each byte once and in order, however recv() cuts the stream (main.c:68-81).
EchoInOrder ==
  \A c \in Clients : Served(c) =>
    LET back == echoed[c]
        own  == {i \in 1 .. Len(back) : back[i] \in 1 .. MaxBytes}
        rest == Held \o inq[c]
    IN  /\ \A i, j \in own : i < j => back[i] < back[j]
        /\ {back[i] : i \in own} = 1 .. sent[c] - Len(rest)
        /\ rest = [k \in 1 .. Len(rest) |-> sent[c] - Len(rest) + k]

\* A client that ends its sending and reads on gets every byte back before the
\* server hangs up, also those the server had not received then
\* (main.c:67-82).
AllEchoed ==
  \A c \in Clients :
    client_socket = c /\ conn[c] = "half" ~>
      \/ conn[c] \in {"closed", "reset"}
      \/ 1 .. sent[c] \subseteq {echoed[c][i] : i \in 1 .. read[c]}

\* The program does not outlive its one client, gone or reset, nor a failed
\* accept(), although it looks at no result but recv()'s (main.c:49,71-79).
ServerEnds ==
  /\ \A c \in Clients : client_socket = c /\ conn[c] \in {"closed", "reset"} ~> pc = "ended"
  /\ pc = "stop" /\ client_socket = NoClient ~> pc = "ended"

\* Nobody waits behind the one client for a session that never comes: once
\* somebody has been accepted, the pending connections are reset although the
\* session may last for ever (main.c:63).
OthersTurnedAway ==
  \A c \in Clients : pc # "accept" /\ srv[c] = "pending" ~> srv[c] = "closed"
===============================================================================
