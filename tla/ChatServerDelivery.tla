-------------------------- MODULE ChatServerDelivery --------------------------
(***************************************************************************)
(* What the clients of the command server and the device on its serial     *)
(* port observe: properties of the messages in inbox[c] and of the         *)
(* commands on wire, and the progress of the server's threads.             *)
(***************************************************************************)
EXTENDS ChatServer, FiniteSets, SequencesExt

Count(P) == IF P THEN 1 ELSE 0

\* "//Create a thread process for that client": the server gets a thread for
\* every client it accepts and goes on; nothing ends it by std::terminate.
ServerSurvives == ~terminated

\* Until std::terminate, every running process_client thread has exactly one
\* std::thread object, in my_thread or in main's hand: what detach() and the
\* move assignment, which run unsynchronised, must keep in balance.
ThreadObjects ==
  ~terminated =>
    \A i \in Slots :
      Cardinality({c \in Clients : slot[c] = i /\ pc[c] \notin {"none", "done"}})
      = Count(my_thread[i] # NoClient) + Count(mpc = "assign" /\ temp_id = i)

MessagesOf(c) == ToSet(inbox[c])

\* Where in its inbox connection c has messages of one kind from thread d.
News(c, kind, d) == {k \in DOMAIN inbox[c] : inbox[c][k] = Msg(kind, d)}

\* The socket that main reads again from the shared slot for the id and for
\* the welcome is the newcomer's or has been closed, never another client's,
\* even though SOCKET values are reused and closed twice.
GreetingIsMine ==
  mpc \in {"sendid", "welcome"} => PeerOf(client[temp_id]) \in {newcomer, NoClient}

\* Only refusals leak: an open socket is main's newcomer's, or held by a slot
\* whose thread will close it, or was refused and never given to a thread.  No
\* session ends with its socket open, although a slot may hold a value that
\* was closed under it and given out again.
SocketsAccounted ==
  \A h \in Handles :
    peer[h] \in Clients \ {newcomer} =>
      pc[peer[h]] = "none" \/ \E i \in Slots : client[i] = h

\* "//Broadcast that message to the other clients": no client receives its
\* own chat text, nor the news of its own joining or leaving.
NoSelfEcho ==
  \A c \in Clients : \A m \in MessagesOf(c) :
    m.kind \in {"join", "chat", "left"} => m.from # c

\* A client hears at most once that another has joined or left, and however
\* recv() cuts and joins the texts, nothing of them comes twice: there are at
\* most as many chat messages as pieces sent.  The loops over the table never
\* meet a connection under two slots.
NewsOnce ==
  \A c, d \in Clients :
    /\ Cardinality(News(c, "join", d)) <= 1
    /\ Cardinality(News(c, "left", d)) <= 1
    /\ Cardinality(News(c, "chat", d)) <= Len(sent[d])

\* "Client #i Disconnected" is broadcast only about a client that has gone.
LeftIsTrue ==
  \A c, d \in Clients : Msg("left", d) \in MessagesOf(c) => conn[d] = "closed"

\* Thread c is about to close a value that its own slot holds.
ClosesOwnValue(c, h) == pc[c] \in {"close", "reclose"} /\ client[slot[c]] = h

\* closesocket() ends a connection whose client is still there in one case
\* only, although every departing thread calls it twice: a thread has lost
\* its own socket, and the value that its slot still holds has been given to
\* a connection that stands elsewhere.  No thread closes the connection that
\* stands in its slot before that client has gone, and none closes a value
\* in a slot that main has given on.
ClosesOnlyEnded ==
  [][\A h \in Handles :
       peer[h] \in Clients /\ peer'[h] = NoClient /\ conn[peer[h]] = "open" =>
         \E c \in Clients :
           /\ ClosesOwnValue(c, h) /\ pc'[c] # pc[c]
           /\ peer[h] # c /\ ~ServerOpen(c)
           /\ InSession(peer[h]) => slot[peer[h]] # slot[c]
           /\ newcomer = peer[h] => temp_id # slot[c]]_vars

\* What a command on the serial line was read from: the place in its sender's
\* stream where it starts is f[i], and where it ends EndOf(f, i).
EndOf(f, i) == f[i] + Len(wire[i].text)

\* f gives for every command on the serial line a stretch of what its sender
\* has sent, and for the sender's next command a stretch behind it.
IsOrigin(f) ==
  /\ \A i \in DOMAIN wire :
       /\ EndOf(f, i) <= Len(sent[wire[i].from])
       /\ wire[i].text = SubSeq(sent[wire[i].from], f[i] + 1, EndOf(f, i))
  /\ \A i, j \in DOMAIN wire :
       i < j /\ wire[i].from = wire[j].from => EndOf(f, i) <= f[j]

\* However recv() cuts and joins the texts of a client and whatever threads do
\* in between, its commands on the serial line are stretches of its stream
\* that do not overlap, in the order of the stream: nothing a client sent is
\* written twice or before something it sent earlier.
WireOrder ==
  \E f \in [DOMAIN wire -> UNION {0 .. Len(sent[c]) : c \in Clients}] : IsOrigin(f)

\* The streams of the clients that are neither written nor passed over: what
\* the server has not received, and before it the command a thread holds.
Unwritten == [c \in Clients |-> IF pc[c] = "uart" THEN said[c] \o outbox[c] ELSE outbox[c]]

Device == INSTANCE CommandQueues WITH
  Senders <- Clients, Words <- Texts, Orders <- Commands,
  queue <- Unwritten,
  gone <- {c \in Clients : conn[c] = "closed"},
  line <- wire

\* The threads and the port together implement CommandQueues: however recv()
\* cuts the streams and threads take turns, one step writes one command, from
\* the oldest that one client has left, and takes it off that client's stream.
ImplementsCommandQueues == Device!QueueSpec

HasCommand(buffer) ==
  \E i, j \in DOMAIN buffer : SubSeq(buffer, i, j) \in Commands

\* "Remote control computers -> server -> devices": with the port set up, a
\* thread that has received a command goes on to write it to the port.
CommandsForwarded ==
  [][\A c \in Clients :
       hCom = "ready" /\ pc[c] = "recv" /\ HasCommand(said'[c]) => pc'[c] = "uart"]_vars

\* What the server's progress hangs on: no client leaves its connection full
\* for ever.  A send() to one that does would block its thread for ever.
ClientsRead == \A d \in Clients : []<>(d \notin full)

\* If clients go on reading, a thread's session ends after its client has
\* gone, so the slot is free for someone else; std::terminate ends all.
LeaverFreesSlot ==
  ClientsRead =>
    \A c \in Clients :
      (InSession(c) /\ conn[c] = "closed") ~> (~InSession(c) \/ terminated)

\* If clients go on reading, every connection is accepted, and its client is
\* told an id and started, or refused: main always comes back to accept().
Served ==
  ClientsRead =>
    \A c \in Clients :
      (c \in backlog) ~> (terminated \/ (mpc = "accept" /\ c \notin backlog))

\* If clients go on reading, everything a client in session sends is received.
TextsReceived ==
  ClientsRead =>
    \A c \in Clients :
      (InSession(c) /\ outbox[c] # <<>>) ~> (outbox[c] = <<>> \/ terminated)
===============================================================================
