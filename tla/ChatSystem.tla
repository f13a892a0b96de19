------------------------------ MODULE ChatSystem ------------------------------
(***************************************************************************)
(* The command server together with its client program,                    *)
(* tcp_clt_srv/main.cpp: main takes the id and the welcome with one recv() *)
(* each, then starts a receiver thread and sends the lines that are typed. *)
(* What one recv() returns is any stretch of what the server has sent,     *)
(* because TCP keeps no boundaries: several messages, or a part of one.    *)
(*                                                                         *)
(* ChatServer contains a sketch of the clients; the composition shows that *)
(* this program keeps to the sketch.                                       *)
(***************************************************************************)
EXTENDS ChatServer

VARIABLES
  serverUp, \* the server's process has not been ended from outside
  cpc,      \* cpc[c]: the position of the client's main
  receiver, \* receiver[c]: its receiver thread, process_client
  refused,  \* refused[c]: message = "Server is full"
  got,      \* got[c]: how many messages of inbox[c] it has received whole
  cut       \* cut[c]: a part of the next message has been received

readVars == <<got, cut>>
programVars == <<cpc, receiver, refused, readVars>>
clientVars == <<serverUp, programVars>>

ClientPC == {"off", "getid", "getwelcome", "prompt", "refused", "gone"}

ClientTypeOK ==
  /\ serverUp \in BOOLEAN
  /\ cpc \in [Clients -> ClientPC]
  /\ receiver \in [Clients -> {"none", "recv", "failed"}]
  /\ refused \in [Clients -> BOOLEAN]
  /\ cut \in [Clients -> BOOLEAN]
  /\ \A c \in Clients :
       /\ got[c] \in 0 .. Len(inbox[c])
       /\ cut[c] => got[c] < Len(inbox[c])

SystemInit ==
  /\ Init
  /\ serverUp = TRUE
  /\ cpc = [c \in Clients |-> "off"]
  /\ receiver = [c \in Clients |-> "none"]
  /\ refused = [c \in Clients |-> FALSE]
  /\ got = [c \in Clients |-> 0]
  /\ cut = [c \in Clients |-> FALSE]

\* The server's end of c is closed, or the server's process has ended: recv()
\* may then return 0 or fail, and the end may discard what has not been read.
ServerGone(c) ==
  terminated \/ ~serverUp \/ (conn[c] = "open" /\ c \notin backlog /\ ~ServerOpen(c))

\* One recv() may return what has arrived up to the end of message k or, if
\* partial, into the message behind it; an id is one digit and is not cut.
Arrived(c, k, partial) ==
  /\ k \in got[c] .. Len(inbox[c])
  /\ IF partial THEN k < Len(inbox[c]) /\ inbox[c][k + 1].kind # "id"
     ELSE k > got[c]

\* Mutant: a terminating NUL is counted that the server does not send.
ReadWithNul(c, k, partial) ==
  /\ Arrived(c, k, partial)
  /\ got' = [got EXCEPT ![c] = k + 1]
  /\ cut' = [cut EXCEPT ![c] = partial]

Read(c, k, partial) ==
  /\ Arrived(c, k, partial)
  /\ got' = [got EXCEPT ![c] = k]
  /\ cut' = [cut EXCEPT ![c] = partial]

At(c, from, to) ==
  /\ cpc[c] = from
  /\ cpc' = [cpc EXCEPT ![c] = to]

-------------------------------------------------------------------------------

\* Mutant: both greetings are left to the receiver thread.
StartAtPrompt(c) ==
  /\ At(c, "off", "prompt")
  /\ serverUp
  /\ Connect(c)
  /\ receiver' = [receiver EXCEPT ![c] = "recv"]
  /\ UNCHANGED <<serverUp, refused, readVars>>

Start(c) ==
  /\ At(c, "off", "getid")
  /\ serverUp
  /\ Connect(c)
  /\ UNCHANGED <<serverUp, receiver, refused, readVars>>

\* message = received_message: the refusal is recognised only if it is the
\* whole buffer; cut in two by recv() it is not.
RecvId(c, k, partial) ==
  /\ At(c, "getid", "getwelcome")
  /\ Read(c, k, partial)
  /\ refused' = [refused EXCEPT ![c] = k = 1 /\ ~partial /\ inbox[c][1].kind = "full"]
  /\ UNCHANGED <<vars, serverUp, receiver>>

\* Neither recv()'s result is looked at.
RecvIdFails(c) ==
  /\ At(c, "getid", "getwelcome")
  /\ ServerGone(c)
  /\ UNCHANGED <<vars, serverUp, receiver, refused, readVars>>

\* if (message != "Server is full") the receiver thread is started.
Greeted(c) ==
  /\ At(c, "getwelcome", IF refused[c] THEN "refused" ELSE "prompt")
  /\ receiver' = [receiver EXCEPT ![c] = IF refused[c] THEN "none" ELSE "recv"]

RecvWelcome(c, k, partial) ==
  /\ Greeted(c)
  /\ Read(c, k, partial)
  /\ UNCHANGED <<vars, serverUp, refused>>

RecvWelcomeFails(c) ==
  /\ Greeted(c)
  /\ ServerGone(c)
  /\ UNCHANGED <<vars, serverUp, refused, readVars>>

\* process_client: prints what arrives.  After a graceful end of the server
\* recv() returns 0 for ever and the loop spins; only an error ends it.
Receive(c, k, partial) ==
  /\ receiver[c] = "recv" /\ cpc[c] # "gone"
  /\ Read(c, k, partial)
  /\ UNCHANGED <<vars, serverUp, cpc, receiver, refused>>

ReceiveFails(c) ==
  /\ receiver[c] = "recv" /\ cpc[c] # "gone"
  /\ ServerGone(c)
  /\ receiver' = [receiver EXCEPT ![c] = "failed"]
  /\ UNCHANGED <<vars, serverUp, cpc, refused, readVars>>

\* A line is typed that is none of --help, --exit and --clear.  Sent to a
\* server that has gone it is lost, which changes nothing, or fails: Exit.
TypeLine(c, t) ==
  /\ cpc[c] = "prompt"
  /\ ~ServerGone(c)
  /\ Transmit(c, t)
  /\ UNCHANGED clientVars

\* --exit, or a send() that fails; after a refusal straight on: shutdown()
\* and closesocket().
Exit(c) ==
  /\ cpc[c] \in {"prompt", "refused"}
  /\ At(c, cpc[c], "gone")
  /\ ClientClose(c)
  /\ UNCHANGED <<serverUp, receiver, refused, readVars>>

\* What the program reads makes room for blocked send() calls of the server.
MakeRoom(c) ==
  /\ cpc[c] \in {"getid", "getwelcome"} \/ (receiver[c] = "recv" /\ cpc[c] # "gone")
  /\ Drain(c)
  /\ UNCHANGED clientVars

\* The program is killed or the link breaks.
Kill(c) ==
  /\ cpc[c] # "off"
  /\ At(c, cpc[c], "gone")
  /\ ClientClose(c)
  /\ UNCHANGED <<serverUp, receiver, refused, readVars>>

-------------------------------------------------------------------------------

\* What the client program does without its user.
ProgramStep(c) ==
  \/ \E k \in 0 .. Len(inbox[c]), partial \in BOOLEAN :
       RecvId(c, k, partial) \/ RecvWelcome(c, k, partial) \/ Receive(c, k, partial)
  \/ MakeRoom(c)
  \/ RecvIdFails(c) \/ RecvWelcomeFails(c) \/ ReceiveFails(c)
  \/ cpc[c] = "refused" /\ Exit(c)

UserStep(c) ==
  \/ Start(c)
  \/ \E t \in Texts : TypeLine(c, t)
  \/ Exit(c)
  \/ Kill(c)

ServerStep ==
  /\ serverUp
  /\ AcceptStep \/ MainStep \/ (\E c \in Clients : ThreadStep(c)) \/ OpenPort \/ SetUpPort
  /\ UNCHANGED clientVars

\* The server's window is closed or its machine goes down.
StopServer ==
  /\ serverUp /\ ~terminated
  /\ serverUp' = FALSE
  /\ UNCHANGED <<vars, programVars>>

SystemNext ==
  \/ ServerStep
  \/ StopServer
  \/ \E c \in Clients : ProgramStep(c) \/ UserStep(c)

systemVars == <<vars, clientVars>>

SystemSpec == SystemInit /\ [][SystemNext]_systemVars

\* Both programs' threads are scheduled; users and the network owe nothing.
FairSystemSpec ==
  /\ SystemSpec
  /\ WF_systemVars(AcceptStep /\ serverUp /\ UNCHANGED clientVars)
  /\ WF_systemVars(MainStep /\ serverUp /\ UNCHANGED clientVars)
  /\ \A c \in Clients : WF_systemVars(ThreadStep(c) /\ serverUp /\ UNCHANGED clientVars)
  /\ \A c \in Clients : WF_systemVars(ProgramStep(c))

-------------------------------------------------------------------------------

\* The client program keeps to what ChatServer assumes of clients: nobody
\* sends a text before the server has said anything.
ClientsAsAssumed == Spec

\* Whoever is at its prompt on a connection that is open at both ends has a
\* thread in session, or main is still busy with it, or has been sent a refusal
\* that it did not recognise, because recv() cut it in two or a broadcast came
\* before it: else nobody types to a server that does not listen, although a
\* client may take other clients' broadcasts, or the parts of one, for its two
\* greetings.
ServedAgreed ==
  \A c \in Clients :
    /\ cpc[c] = "prompt"
    /\ conn[c] = "open" /\ ServerOpen(c) /\ ~terminated /\ serverUp
    => \/ InSession(c)
       \/ newcomer = c
       \/ \E k \in DOMAIN inbox[c] : inbox[c][k] = Msg("full", c)

\* A client that takes itself for refused has no thread and no slot: a slot
\* that holds its SOCKET value holds it for somebody else, whose socket has
\* been closed and whose value was given out again.
RefusalAgreed ==
  \A c \in Clients : refused[c] =>
    /\ pc[c] = "none"
    /\ \A i \in Slots :
         PeerOf(client[i]) = c => \E d \in Clients : InSession(d) /\ slot[d] = i

\* "Shutting down socket...": a client that has been told "Server is full"
\* prints it and goes on to close its socket.
RefusedClientStops ==
  \A c \in Clients : refused[c] ~> cpc[c] = "gone"
===============================================================================
