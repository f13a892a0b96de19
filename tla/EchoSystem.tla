------------------------------ MODULE EchoSystem ------------------------------
(***************************************************************************)
(* The echo server with its client program client_tcp: the user types a    *)
(* line, the program sends it with its NUL, waits in one recv() for the    *)
(* answer and prints it. --username and --help only print and are left     *)
(* out.                                                                    *)
(***************************************************************************)
EXTENDS EchoServer

CONSTANTS
  ClientExits,   \* texts that leave "--exit" in user_input: any case, and any
                 \* further words, which strtok() has cut off
  MaxSaid        \* bound: texts that are sent in all

ASSUME ClientAssumption ==
  /\ ClientExits \subseteq Texts
  /\ EXIT \in ClientExits
  /\ MaxSaid \in Nat

VARIABLES
  cpc,           \* cpc[c]: position of the client's loop
  unanswered,    \* unanswered[c]: what it has sent and not received back
  said           \* how many texts have been sent in all

programVars == <<cpc, unanswered, said>>
systemVars == <<vars, programVars>>

SystemTypeOK ==
  /\ TypeOK
  /\ cpc \in [Clients -> {"off", "type", "wait", "gone"}]
  /\ unanswered \in [Clients -> Seq(Parts)]
  /\ \A c \in Clients : cpc[c] = "wait" => unanswered[c] # <<>>
  /\ said \in 0 .. MaxSaid

SystemInit ==
  /\ Init
  /\ cpc = [c \in Clients |-> "off"]
  /\ unanswered = [c \in Clients |-> <<>>]
  /\ said = 0

At(c, from, to) ==
  /\ cpc[c] = from
  /\ cpc' = [cpc EXCEPT ![c] = to]

\* The process ends, on the way out of main or not, and its connection is
\* closed, or reset if something was not read.
EndOfProcess(c) ==
  /\ cpc' = [cpc EXCEPT ![c] = "gone"]
  /\ \E how \in {"closed", "reset"} : conn' = [conn EXCEPT ![c] = how]
  /\ outbox' = [outbox EXCEPT ![c] = <<>>]
  /\ unanswered' = [unanswered EXCEPT ![c] = <<>>]

\* The end of the loop's body when the line was m, and the first k bytes on
\* their way to the client have been received.
NextLine(c, m, k) ==
  IF m \in ClientExits
  THEN EndOfProcess(c)
  ELSE /\ cpc' = [cpc EXCEPT ![c] = "type"]
       /\ outbox' = [outbox EXCEPT ![c] = SubSeq(@, k + 1, Len(@))]
       /\ unanswered' = [unanswered EXCEPT ![c] = SubSeq(@, k + 1, Len(@))]
       /\ UNCHANGED conn

Connect(c) ==
  /\ listening
  /\ At(c, "off", "type")
  /\ conn' = [conn EXCEPT ![c] = "open"]
  /\ srv' = [srv EXCEPT ![c] = "pending"]
  /\ UNCHANGED <<mainVars, threadVars, started, listening, peer, inq, outbox,
                 unanswered, said>>

ConnectFails(c) ==
  /\ ~listening
  /\ At(c, "off", "gone")
  /\ UNCHANGED <<vars, unanswered, said>>

\* A text sent to a server's end that is closed is lost.
Say(c, m) ==
  /\ said < MaxSaid
  /\ said' = said + 1
  /\ At(c, "type", "wait")
  /\ unanswered' = [unanswered EXCEPT ![c] = @ \o OnWire(m)]
  /\ inq' = [inq EXCEPT ![c] = IF srv[c] = "closed" THEN @ ELSE @ \o OnWire(m)]
  /\ UNCHANGED <<mainVars, threadVars, netVars, conn, outbox>>

\* SOCKET_ERROR: the line is not answered and not reported.
SayFails(c, m) ==
  /\ said < MaxSaid
  /\ cpc[c] = "type" /\ srv[c] = "closed"
  /\ NextLine(c, m, 0)
  /\ UNCHANGED <<mainVars, threadVars, netVars, inq, said>>

\* The line that the client waits for: the last it has sent.
LastLine(c) == unanswered[c][Len(unanswered[c])][1]

RecvAnswer(c, k) ==
  /\ cpc[c] = "wait"
  /\ NextLine(c, LastLine(c), k)
  /\ UNCHANGED <<mainVars, threadVars, netVars, inq, said>>

\* recv() returns 0 or fails; what was not read may be gone if the server's end
\* was closed.
RecvNothing(c) ==
  /\ cpc[c] = "wait"
  /\ srv[c] = "closed" \/ (srv[c] = "shut" /\ outbox[c] = <<>>)
  /\ NextLine(c, LastLine(c), 0)
  /\ UNCHANGED <<mainVars, threadVars, netVars, inq, said>>

\* An empty line ends the loop without a return value: whichever way main takes
\* then, the process ends. So it does when it is killed.
Quit(c) ==
  /\ cpc[c] \in {"type", "wait"}
  /\ EndOfProcess(c)
  /\ UNCHANGED <<mainVars, threadVars, netVars, inq, said>>

\* The peer's stack answers data for a process that is gone with a reset.
Reset(c) ==
  /\ conn[c] = "closed"
  /\ conn' = [conn EXCEPT ![c] = "reset"]
  /\ UNCHANGED <<mainVars, threadVars, netVars, inq, outbox, programVars>>

-------------------------------------------------------------------------------

\* The client's own steps, once it has sent a line.
Answered(c) == RecvNothing(c) \/ \E k \in 1 .. Len(outbox[c]) : RecvAnswer(c, k)

ClientStep(c) ==
  \/ Connect(c) \/ ConnectFails(c) \/ Answered(c) \/ Quit(c) \/ Reset(c)
  \/ \E m \in Texts : Say(c, m) \/ SayFails(c, m)

ServerStep == ServerNext /\ UNCHANGED programVars

SystemNext == ServerStep \/ \E c \in Clients : ClientStep(c)

SystemSpec == SystemInit /\ [][SystemNext]_systemVars

\* The threads and the program's recv() go on; the user may stop anywhere.
FairSystemSpec ==
  SystemSpec /\ ServerFairness /\ \A c \in Clients : WF_systemVars(Answered(c))

-------------------------------------------------------------------------------

\* While both ends of a connection are open, every byte that the client has
\* sent and not received back is in one place and in order: on its way back, in
\* the thread's buffer, or on its way to the server. Texts that are cut, joined
\* or answered late are neither lost nor repeated nor given to somebody else
\* (connection.c:104-112, socket19.c:93-103).
NothingLost ==
  \A c \in Clients :
    conn[c] = "open" /\ srv[c] \in {"pending", "open"} =>
      outbox[c] \o (buf[c] \o inq[c]) = unanswered[c]

Service == INSTANCE EchoService WITH
  Users <- Clients, Lines <- {OnWire(m) : m \in Texts},
  asked <- unanswered, back <- outbox,
  away <- {c \in Clients : cpc[c] = "gone"}

\* The server and the program implement EchoService: what comes back is always
\* the oldest that is unanswered, also on a connection that has been shut down
\* or closed with bytes on their way, by whichever thread, and a client that
\* has gone gets nothing more (connection.c:78-124, socket19.c:93-103).
ImplementsEchoService == Service!ServiceSpec

\* A client that waits for its answer stops waiting, unless CreateThread() has
\* failed for it: it is answered, or told that there will be none, also after
\* --exit, after somebody else's failed accept and after a shutdown meant for
\* another socket (main.c:38-40, connection.c:78-80, 92; socket19.c:95).
AnswerArrives == \A c \in Clients : cpc[c] = "wait" ~> cpc[c] # "wait" \/ Unattended(c)
===============================================================================
