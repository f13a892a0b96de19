------------------------------ MODULE EchoProofs ------------------------------
(***************************************************************************)
(* For any number of clients, SOCKET values and texts: a session of the    *)
(* echo server keeps its own socket until it closes it, although SOCKET    *)
(* values are reused and ending threads still make calls with theirs, and  *)
(* no byte of an open connection is lost, repeated, reordered or misled;   *)
(* the server and its programs implement EchoService.                      *)
(***************************************************************************)
EXTENDS EchoSystem, SequenceTheorems, TLAPS

HandleTypes ==
  /\ client_socket \in Handles \cup {INVALID_SOCKET}
  /\ incoming \in Clients \cup {NoClient}
  /\ pc \in [Clients -> {"none", "recv", "send", "close", "shutdown", "done"}]
  /\ sock \in [Clients -> Handles \cup {INVALID_SOCKET}]
  /\ peer \in [Handles -> Clients \cup {NoClient}]
  /\ srv \in [Clients -> {"none", "pending", "open", "shut", "closed"}]
  /\ cpc \in [Clients -> {"off", "type", "wait", "gone"}]

\* No thread before the connection was accepted, no connection before
\* connect(): so a thread is started once.
NotYet ==
  \A c \in Clients :
    /\ cpc[c] = "off" => srv[c] = "none"
    /\ srv[c] \in {"none", "pending"} => pc[c] = "none"

\* Between accept() and CreateThread() main holds the socket.
MainHolds ==
  mpc = "create" =>
    /\ incoming \in Clients
    /\ client_socket \in Handles
    /\ pc[incoming] = "none"
    /\ srv[incoming] \notin {"none", "pending"}
    /\ started => peer[client_socket] = incoming

ThreadHolds == \A c \in Clients : pc[c] \in {"recv", "send", "close"} => sock[c] \in Handles

HandleInv == HandleTypes /\ NotYet /\ MainHolds /\ ThreadHolds /\ SocketIsMine

LEMMA HandleStarts == SystemInit => HandleInv
BY DEF SystemInit, Init, HandleInv, HandleTypes, NotYet, MainHolds, ThreadHolds, SocketIsMine

\* A new socket has a value that no session holds, because the sessions'
\* values denote their connections.
LEMMA MainKeeps ==
  ASSUME HandleInv, MainStep, UNCHANGED programVars
  PROVE  HandleInv'
<1> USE DEF HandleInv, HandleTypes, NotYet, MainHolds, ThreadHolds, SocketIsMine,
            programVars, threadVars, wireVars, netVars
<1>1. ASSUME NEW c \in Clients, Accept(c) PROVE HandleInv'
  <2>1. PICK h \in FreeHandles : client_socket' = h /\ peer' = [peer EXCEPT ![h] = c]
    BY <1>1 DEF Accept
  <2>2. h \in Handles /\ peer[h] = NoClient /\ NoClient \notin Clients
    BY <2>1, EchoAssumption DEF FreeHandles
  <2>3. HandleTypes' /\ NotYet' /\ ThreadHolds'
    BY <1>1, <2>1, <2>2 DEF Accept
  <2>4. MainHolds'
    BY <1>1, <2>1, <2>2 DEF Accept
  <2>5. SocketIsMine'
    BY <1>1, <2>1, <2>2 DEF Accept
  <2> QED BY <2>3, <2>4, <2>5
<1>2. ASSUME NEW c \in Clients, AcceptFails(c) PROVE HandleInv'
  BY <1>2 DEF AcceptFails
<1>3. CASE Cleanup
  BY <1>3 DEF Cleanup
<1>4. CASE Create \/ CreateFails
  BY <1>4 DEF Create, CreateFails
<1> QED BY <1>1, <1>2, <1>3, <1>4 DEF MainStep

\* The steps of a thread that touch no socket of Winsock's table.
LEMMA EchoKeeps ==
  ASSUME HandleInv, NEW c \in Clients, UNCHANGED programVars,
         \/ \E d \in Clients :
              \/ \E k \in 1 .. Len(inq[d]) : RecvData(c, d, k)
              \/ RecvEnd(c, d) \/ Send(c, d)
         \/ RecvFails(c) \/ SendFails(c)
  PROVE  HandleInv'
<1>1. /\ \/ pc[c] = "recv" /\ pc' \in {[pc EXCEPT ![c] = p] : p \in {"send", "shutdown", "close"}}
         \/ pc[c] = "send" /\ pc' \in {[pc EXCEPT ![c] = p] : p \in {"recv", "close"}}
      /\ UNCHANGED <<sock, mainVars, netVars>>
  BY DEF RecvData, RecvEnd, Send, RecvFails, SendFails, GoTo, netVars
<1> QED
  BY <1>1 DEF HandleInv, HandleTypes, NotYet, MainHolds, ThreadHolds, SocketIsMine,
     programVars, mainVars, netVars

\* closesocket() closes the thread's own socket, and so nobody else's.
LEMMA CloseKeeps ==
  ASSUME HandleInv, NEW c \in Clients, Close(c), UNCHANGED programVars
  PROVE  HandleInv'
<1> USE DEF HandleInv, HandleTypes, NotYet, MainHolds, ThreadHolds, SocketIsMine,
            programVars, mainVars
<1>1. CASE ~started
  BY <1>1 DEF Close, GoTo, Uses
<1>2. CASE started
  <2>1. pc[c] = "close" /\ sock[c] \in Handles /\ peer[sock[c]] = c
    BY <1>2 DEF Close, GoTo
  <2>2. /\ peer' = [peer EXCEPT ![sock[c]] = NoClient]
        /\ srv' = [srv EXCEPT ![c] = "closed"]
        /\ pc' = [pc EXCEPT ![c] = "shutdown"]
        /\ UNCHANGED <<sock, started, mainVars>>
    BY <1>2, <2>1 DEF Close, GoTo, Uses
  <2>3. HandleTypes' /\ NotYet' /\ ThreadHolds'
    BY <2>1, <2>2
  <2>4. MainHolds'
    BY <2>1, <2>2
  <2>5. SocketIsMine'
    BY <2>1, <2>2
  <2> QED BY <2>3, <2>4, <2>5
<1> QED BY <1>1, <1>2

\* shutdown() may hit another session's connection, but takes no socket away.
LEMMA ShutdownKeeps ==
  ASSUME HandleInv, NEW c \in Clients, Shutdown(c), UNCHANGED programVars
  PROVE  HandleInv'
BY DEF Shutdown, Returns, GoTo, HandleInv, HandleTypes, NotYet, MainHolds, ThreadHolds,
       SocketIsMine, programVars, mainVars

LEMMA ClientKeeps ==
  ASSUME HandleInv, NEW c \in Clients, ClientStep(c)
  PROVE  HandleInv'
<1> USE DEF HandleInv, HandleTypes, NotYet, MainHolds, ThreadHolds, SocketIsMine
<1>1. CASE Connect(c)
  BY <1>1 DEF Connect, At, mainVars, threadVars
<1>2. CASE ~Connect(c)
  <2>1. UNCHANGED <<mainVars, threadVars, netVars>>
    BY <1>2 DEF ClientStep, ConnectFails, Answered, RecvNothing, RecvAnswer, Quit, Reset,
       Say, SayFails, vars
  <2>2. cpc' = cpc \/ \E p \in {"type", "wait", "gone"} : cpc' = [cpc EXCEPT ![c] = p]
    BY <1>2 DEF ClientStep, ConnectFails, Answered, RecvNothing, RecvAnswer, Quit, Reset,
       Say, SayFails, At, NextLine, EndOfProcess, programVars
  <2> QED BY <2>1, <2>2 DEF mainVars, threadVars, netVars
<1> QED BY <1>1, <1>2

LEMMA HandleKeeps ==
  ASSUME HandleInv, [SystemNext]_systemVars PROVE HandleInv'
<1>1. CASE ServerStep
  <2>1. CASE MainStep
    BY <1>1, <2>1, MainKeeps DEF ServerStep
  <2>2. ASSUME NEW c \in Clients, ThreadStep(c) PROVE HandleInv'
    BY <1>1, <2>2, EchoKeeps, CloseKeeps, ShutdownKeeps DEF ServerStep, ThreadStep
  <2> QED BY <1>1, <2>1, <2>2 DEF ServerStep, ServerNext
<1>2. ASSUME NEW c \in Clients, ClientStep(c) PROVE HandleInv'
  BY <1>2, ClientKeeps
<1>3. CASE UNCHANGED systemVars
  BY <1>3 DEF systemVars, vars, mainVars, threadVars, netVars, programVars, HandleInv,
     HandleTypes, NotYet, MainHolds, ThreadHolds, SocketIsMine
<1> QED BY <1>1, <1>2, <1>3 DEF SystemNext

\* In every state, a thread that has not closed its socket still holds the one
\* that main accepted for it (connection.c:92,115,122; main.c:40).
THEOREM SocketOwnership == SystemSpec => []SocketIsMine
<1>1. HandleInv => SocketIsMine
  BY DEF HandleInv
<1> QED BY HandleStarts, HandleKeeps, <1>1, PTL DEF SystemSpec

-------------------------------------------------------------------------------
(* The bytes of a connection.                                              *)

WireTypes ==
  /\ started \in BOOLEAN
  /\ conn \in [Clients -> {"none", "open", "closed", "reset"}]
  /\ buf \in [Clients -> Seq(Parts)]
  /\ inq \in [Clients -> Seq(Parts)]
  /\ outbox \in [Clients -> Seq(Parts)]
  /\ unanswered \in [Clients -> Seq(Parts)]

\* Nothing is there before it was sent.
Quiet ==
  \A c \in Clients :
    /\ cpc[c] = "off" => inq[c] = <<>> /\ outbox[c] = <<>> /\ unanswered[c] = <<>>
    /\ pc[c] \in {"none", "recv"} => buf[c] = <<>>

\* A thread whose connection is still open when it returns has not closed its
\* socket: its buffer is dropped together with its connection.
EndingHolds ==
  \A c \in Clients :
    pc[c] = "shutdown" /\ srv[c] = "open" => sock[c] \in Handles /\ peer[sock[c]] = c

\* Without Winsock there is no connection.
WinsockHolds ==
  /\ listening => started /\ mpc # "cleanup"
  /\ ~started => \A c \in Clients : srv[c] # "open"

WireInv == WireTypes /\ Quiet /\ EndingHolds /\ WinsockHolds /\ NothingLost

\* What recv() takes from a queue and what it leaves.
LEMMA Taken ==
  ASSUME NEW S, NEW s \in Seq(S), NEW k \in 0 .. Len(s)
  PROVE  /\ SubSeq(s, 1, k) \in Seq(S)
         /\ SubSeq(s, k + 1, Len(s)) \in Seq(S)
         /\ SubSeq(s, 1, k) \o SubSeq(s, k + 1, Len(s)) = s
<1>1. Len(s) \in Nat /\ \A i \in 1 .. Len(s) : s[i] \in S
  BY LenProperties
<1>2. SubSeq(s, 1, k) \in Seq(S)
  BY <1>1, SubSeqProperties
<1>3. SubSeq(s, k + 1, Len(s)) \in Seq(S)
  BY <1>1, SubSeqProperties
<1>4. SubSeq(s, 1, k) \o SubSeq(s, k + 1, Len(s)) = SubSeq(s, 1, Len(s))
  <2>1. 1 \in 1 .. Len(s) + 1 /\ k \in 1 - 1 .. Len(s) /\ Len(s) \in k .. Len(s)
    BY <1>1
  <2> QED BY <2>1, ConcatAdjacentSubSeq
<1> QED BY <1>2, <1>3, <1>4, SubSeqFull

\* What follows the first of two joined queues is the second.
LEMMA Behind ==
  ASSUME NEW S, NEW f \in Seq(S), NEW r \in Seq(S)
  PROVE  SubSeq(f \o r, Len(f) + 1, Len(f \o r)) = r
<1> DEFINE u == f \o r
           t == SubSeq(u, Len(f) + 1, Len(u))
<1>1. /\ u \in Seq(S) /\ Len(u) = Len(f) + Len(r)
      /\ \A i \in 1 .. Len(f) + Len(r) : u[i] = IF i <= Len(f) THEN f[i] ELSE r[i - Len(f)]
  BY ConcatProperties
<1>2. Len(f) \in Nat /\ Len(r) \in Nat
  BY LenProperties
<1>3. \A i \in 1 .. Len(u) : u[i] \in S
  BY <1>1, LenProperties
<1> HIDE DEF u
<1>4. /\ t \in Seq(S)
      /\ Len(t) = IF Len(f) + 1 <= Len(u) THEN Len(u) - (Len(f) + 1) + 1 ELSE 0
      /\ \A i \in 1 .. Len(u) - (Len(f) + 1) + 1 : t[i] = u[Len(f) + 1 + i - 1]
  <2>1. \A i \in Len(f) + 1 .. Len(u) : u[i] \in S
    BY <1>1, <1>2, <1>3
  <2>2. Len(f) + 1 \in Int /\ Len(u) \in Int
    BY <1>1, <1>2
  <2> QED BY <2>1, <2>2, SubSeqProperties
<1> HIDE DEF t
<1>5. Len(t) = Len(r)
  BY <1>1, <1>2, <1>4
<1>6. \A i \in 1 .. Len(t) : t[i] = r[i]
  <2> SUFFICES ASSUME NEW i \in 1 .. Len(r) PROVE t[i] = r[i]
    BY <1>5
  <2>1. t[i] = u[Len(f) + i]
    <3>1. i \in 1 .. Len(u) - (Len(f) + 1) + 1 /\ Len(f) + 1 + i - 1 = Len(f) + i
      BY <1>1, <1>2
    <3> QED BY <1>4, <3>1
  <2>2. u[Len(f) + i] = r[i]
    <3>1. Len(f) + i \in 1 .. Len(f) + Len(r) /\ ~(Len(f) + i <= Len(f))
          /\ Len(f) + i - Len(f) = i
      BY <1>2
    <3> QED BY <1>1, <3>1
  <2> QED BY <2>1, <2>2
<1>7. t = r
  BY <1>4, <1>5, <1>6, SeqEqual
<1> QED BY <1>7 DEF t, u

LEMMA Associative ==
  ASSUME NEW S
  PROVE  \A x, y, z \in Seq(S) : (x \o y) \o z = x \o (y \o z)
BY ConcatAssociative

\* Taking from the front of a queue does not touch what is behind it.
LEMMA DropFirst ==
  ASSUME NEW S, NEW s \in Seq(S), NEW t \in Seq(S), NEW k \in 0 .. Len(s)
  PROVE  SubSeq(s \o t, k + 1, Len(s \o t)) = SubSeq(s, k + 1, Len(s)) \o t
<1> DEFINE f == SubSeq(s, 1, k)
           r == SubSeq(s, k + 1, Len(s))
<1>1. f \in Seq(S) /\ r \in Seq(S)
  BY Taken
<1>2. f \o r = s
  BY Taken
<1>3. Len(f) = k
  <2>1. Len(s) \in Nat /\ (\A i \in 1 .. k : s[i] \in S) /\ k \in Nat
    BY LenProperties
  <2>2. Len(f) = IF 1 <= k THEN k - 1 + 1 ELSE 0
    BY <2>1, SubSeqProperties
  <2> QED BY <2>1, <2>2
<1> HIDE DEF f, r
<1>4. r \o t \in Seq(S)
  BY <1>1, ConcatProperties
<1>5. \A x, y, z \in Seq(S) : (x \o y) \o z = x \o (y \o z)
  BY Associative, SMT
<1>6. (f \o r) \o t = f \o (r \o t)
  BY <1>1, <1>5, Zenon
<1>7. SubSeq(f \o (r \o t), Len(f) + 1, Len(f \o (r \o t))) = r \o t
  BY <1>1, <1>4, Behind
<1>8. SubSeq(s \o t, k + 1, Len(s \o t)) = r \o t
  BY <1>2, <1>3, <1>6, <1>7, Zenon
<1> QED BY <1>8 DEF r

\* The client's send() appends to what is on the way, behind all else.
LEMMA AppendLast ==
  \A o, b \in Seq(Parts) : \A q, w \in Seq(Parts) :
    o \o (b \o (q \o w)) = (o \o (b \o q)) \o w
<1>1. \A x, y, z \in Seq(Parts) : (x \o y) \o z = x \o (y \o z)
  BY Associative
<1>2. \A x, y \in Seq(Parts) : x \o y \in Seq(Parts)
  BY ConcatProperties
<1> TAKE o, b \in Seq(Parts)
<1> TAKE q, w \in Seq(Parts)
<1>3. b \o (q \o w) = (b \o q) \o w
  BY <1>1, Zenon
<1>4. b \o q \in Seq(Parts)
  BY <1>2, Zenon
<1>5. (o \o (b \o q)) \o w = o \o ((b \o q) \o w)
  BY <1>1, <1>4, Zenon
<1> QED BY <1>3, <1>5, Zenon

\* The thread's send() empties its buffer behind what is on its way back.
LEMMA EmptyBuffer ==
  ASSUME NEW S
  PROVE  \A o, b, q \in Seq(S) : (o \o b) \o (<<>> \o q) = o \o (b \o q)
<1>1. \A x, y, z \in Seq(S) : (x \o y) \o z = x \o (y \o z)
  BY Associative
<1>2. \A q \in Seq(S) : <<>> \o q = q
  BY ConcatEmptySeq
<1> TAKE o, b, q \in Seq(S)
<1>3. (o \o b) \o q = o \o (b \o q)
  BY <1>1, Zenon
<1> QED BY <1>2, <1>3, Zenon

LEMMA WireStarts == SystemInit => WireInv
<1> SUFFICES ASSUME SystemInit PROVE WireInv
  OBVIOUS
<1>1. <<>> \in Seq(Parts)
  BY EmptySeq
<1>2. WireTypes /\ Quiet /\ EndingHolds /\ WinsockHolds
  BY <1>1 DEF SystemInit, Init, WireTypes, Quiet, EndingHolds, WinsockHolds
<1>3. NothingLost
  BY DEF SystemInit, Init, NothingLost
<1> QED BY <1>2, <1>3 DEF WireInv

\* main moves no bytes; its steps open and close the server's end.
LEMMA MainWire ==
  ASSUME HandleInv, WireInv, MainStep, UNCHANGED programVars
  PROVE  WireInv'
<1>1. UNCHANGED <<buf, wireVars, programVars>>
  BY DEF MainStep, Accept, AcceptFails, Cleanup, Create, CreateFails, threadVars
<1>2. \A c \in Clients : srv'[c] \in {"pending", "open"} => srv[c] \in {"pending", "open"}
  <2>1. ASSUME NEW c \in Clients, Accept(c)
        PROVE  srv[c] = "pending" /\ srv' = [srv EXCEPT ![c] = "open"]
    BY <2>1 DEF Accept
  <2>2. ASSUME NEW c \in Clients, AcceptFails(c)
        PROVE  srv' = [d \in Clients |-> IF srv[d] = "pending" THEN "closed" ELSE srv[d]]
    BY <2>2 DEF AcceptFails
  <2>3. Cleanup => srv' = [d \in Clients |->
                             IF srv[d] \in {"open", "shut"} THEN "closed" ELSE srv[d]]
    BY DEF Cleanup
  <2>4. Create \/ CreateFails => srv' = srv
    BY DEF Create, CreateFails, netVars
  <2> QED BY <2>1, <2>2, <2>3, <2>4 DEF MainStep, HandleInv, HandleTypes
<1>3. NothingLost'
  BY <1>1, <1>2 DEF NothingLost, WireInv, wireVars, programVars
<1>4. WireTypes'
  <2>1. started' \in BOOLEAN
    BY DEF MainStep, Accept, AcceptFails, Cleanup, Create, CreateFails, netVars, WireInv, WireTypes
  <2> QED BY <1>1, <2>1 DEF WireInv, WireTypes, wireVars, programVars
<1>5. Quiet'
  <2>1. \A c \in Clients : pc'[c] \in {"none", "recv"} => pc[c] \in {"none", "recv"}
    <3>1. CASE mpc = "create"
      BY <3>1 DEF MainStep, Accept, AcceptFails, Cleanup, Create, CreateFails, threadVars,
         HandleInv, HandleTypes, MainHolds
    <3>2. CASE mpc # "create"
      BY <3>2 DEF MainStep, Accept, AcceptFails, Cleanup, Create, CreateFails, threadVars
    <3> QED BY <3>1, <3>2
  <2> QED BY <1>1, <2>1 DEF WireInv, Quiet, wireVars, programVars
<1>6. EndingHolds'
  <2> USE DEF HandleInv, HandleTypes, MainHolds, WireInv, EndingHolds
  <2>1. ASSUME NEW c \in Clients, Accept(c) PROVE EndingHolds'
    <3>1. PICK h \in FreeHandles : peer' = [peer EXCEPT ![h] = c]
      BY <2>1 DEF Accept
    <3>2. h \in Handles /\ peer[h] \notin Clients
      BY <3>1, EchoAssumption DEF FreeHandles
    <3>3. /\ srv' = [srv EXCEPT ![c] = "open"] /\ srv[c] = "pending"
          /\ pc' = pc /\ sock' = sock
      BY <2>1 DEF Accept, threadVars
    <3>4. pc[c] = "none"
      BY <3>3 DEF NotYet
    <3> QED BY <3>1, <3>2, <3>3, <3>4
  <2>2. ASSUME NEW c \in Clients, AcceptFails(c) PROVE EndingHolds'
    BY <2>2 DEF AcceptFails, threadVars
  <2>3. CASE Cleanup
    BY <2>3 DEF Cleanup, threadVars
  <2>4. CASE Create
    BY <2>4 DEF Create, netVars
  <2>5. CASE CreateFails
    BY <2>5 DEF CreateFails, threadVars, netVars
  <2> QED BY <2>1, <2>2, <2>3, <2>4, <2>5 DEF MainStep
<1>7. WinsockHolds'
  <2> USE DEF HandleInv, HandleTypes, WireInv, WinsockHolds
  <2>1. ASSUME NEW c \in Clients, Accept(c) PROVE WinsockHolds'
    BY <2>1 DEF Accept
  <2>2. ASSUME NEW c \in Clients, AcceptFails(c) PROVE WinsockHolds'
    BY <2>2 DEF AcceptFails
  <2>3. CASE Cleanup
    BY <2>3 DEF Cleanup
  <2>4. CASE Create \/ CreateFails
    BY <2>4 DEF Create, CreateFails, netVars
  <2> QED BY <2>1, <2>2, <2>3, <2>4 DEF MainStep
<1> QED BY <1>3, <1>4, <1>5, <1>6, <1>7 DEF WireInv

\* A thread in session works on the connection of its own client.
LEMMA OwnConnection ==
  ASSUME HandleInv, NEW c \in Clients, NEW d \in Clients,
         pc[c] \in {"recv", "send", "close"}, Uses(c, d)
  PROVE  d = c /\ sock[c] \in Handles /\ peer[sock[c]] = c /\ started /\ cpc[c] # "off"
<1>1. d = c /\ sock[c] \in Handles /\ peer[sock[c]] = c /\ started
  BY DEF Uses, HandleInv, ThreadHolds, SocketIsMine
<1>2. cpc[c] # "off"
  BY DEF HandleInv, NotYet
<1> QED BY <1>1, <1>2

LEMMA RecvWire ==
  ASSUME HandleInv, WireInv, NEW c \in Clients, NEW d \in Clients,
         NEW k \in 1 .. Len(inq[d]), RecvData(c, d, k), UNCHANGED programVars
  PROVE  WireInv'
<1>1. pc[c] = "recv" /\ Uses(c, d)
  BY DEF RecvData
<1>2. d = c /\ sock[c] \in Handles /\ peer[sock[c]] = c /\ started /\ cpc[c] # "off"
  BY <1>1, OwnConnection
<1>3. /\ buf' = [buf EXCEPT ![c] = SubSeq(inq[c], 1, k)]
      /\ inq' = [inq EXCEPT ![c] = SubSeq(inq[c], k + 1, Len(inq[c]))]
      /\ \E p \in {"shutdown", "send"} : pc' = [pc EXCEPT ![c] = p]
      /\ UNCHANGED <<sock, mainVars, netVars, conn, outbox, programVars>>
  BY <1>2 DEF RecvData
<1>4. inq \in [Clients -> Seq(Parts)] /\ inq[c] \in Seq(Parts)
  BY DEF WireInv, WireTypes
<1>5. k \in 0 .. Len(inq[c])
  BY <1>2
<1>6. SubSeq(inq[c], 1, k) \in Seq(Parts) /\ SubSeq(inq[c], k + 1, Len(inq[c])) \in Seq(Parts)
  BY <1>4, <1>5, Taken
<1>7. SubSeq(inq[c], 1, k) \o SubSeq(inq[c], k + 1, Len(inq[c])) = inq[c]
  BY <1>4, <1>5, Taken
<1>8. WireTypes'
  BY <1>3, <1>6 DEF WireInv, WireTypes, netVars, programVars
<1>9. Quiet'
  BY <1>1, <1>2, <1>3 DEF HandleInv, HandleTypes, WireInv, WireTypes, Quiet, programVars
<1>10. EndingHolds'
  BY <1>2, <1>3 DEF HandleInv, HandleTypes, WireInv, EndingHolds, netVars
<1>11. WinsockHolds'
  BY <1>3 DEF WireInv, WinsockHolds, netVars, mainVars
<1>12. buf'[c] \o inq'[c] = buf[c] \o inq[c]
  <2>1. buf'[c] \o inq'[c] = inq[c]
    BY <1>3, <1>7 DEF WireInv, WireTypes
  <2>2. buf[c] = <<>>
    BY <1>1 DEF WireInv, Quiet
  <2>3. <<>> \o inq[c] = inq[c]
    BY <1>4, ConcatEmptySeq
  <2> QED BY <2>1, <2>2, <2>3, Zenon
<1>13. NothingLost'
  <2> SUFFICES ASSUME NEW e \in Clients, conn[e] = "open", srv[e] \in {"pending", "open"}
               PROVE  outbox[e] \o (buf'[e] \o inq'[e]) = unanswered[e]
    BY <1>3 DEF NothingLost, netVars, programVars
  <2>1. outbox[e] \o (buf[e] \o inq[e]) = unanswered[e]
    BY DEF WireInv, NothingLost
  <2>2. buf'[e] \o inq'[e] = buf[e] \o inq[e]
    <3>1. CASE e = c
      BY <1>12, <3>1
    <3>2. CASE e # c
      BY <1>3, <3>2 DEF WireInv, WireTypes
    <3> QED BY <3>1, <3>2
  <2> QED BY <2>1, <2>2, Zenon
<1> QED BY <1>8, <1>9, <1>10, <1>11, <1>13 DEF WireInv

LEMMA SendWire ==
  ASSUME HandleInv, WireInv, NEW c \in Clients, NEW d \in Clients,
         Send(c, d), UNCHANGED programVars
  PROVE  WireInv'
<1>1. pc[c] = "send" /\ Uses(c, d)
  BY DEF Send, GoTo
<1>2. d = c /\ cpc[c] # "off"
  BY <1>1, OwnConnection
<1>3. /\ buf' = [buf EXCEPT ![c] = <<>>]
      /\ outbox' = [outbox EXCEPT ![c] = IF conn[c] = "open" THEN outbox[c] \o buf[c]
                                         ELSE outbox[c]]
      /\ pc' = [pc EXCEPT ![c] = "recv"]
      /\ UNCHANGED <<sock, mainVars, netVars, conn, inq, programVars>>
  BY <1>2 DEF Send, GoTo
<1>4. buf[c] \in Seq(Parts) /\ outbox[c] \in Seq(Parts) /\ inq[c] \in Seq(Parts)
  BY DEF WireInv, WireTypes
<1>5. outbox[c] \o buf[c] \in Seq(Parts) /\ <<>> \in Seq(Parts)
  BY <1>4, ConcatProperties, EmptySeq
<1>6. WireTypes'
  BY <1>3, <1>4, <1>5 DEF WireInv, WireTypes, netVars, programVars
<1>7. Quiet'
  BY <1>2, <1>3 DEF HandleInv, HandleTypes, WireInv, WireTypes, Quiet, programVars
<1>8. EndingHolds' /\ WinsockHolds'
  BY <1>3 DEF HandleInv, HandleTypes, WireInv, EndingHolds, WinsockHolds, netVars, mainVars
<1>9. NothingLost'
  <2> SUFFICES ASSUME NEW e \in Clients, conn[e] = "open", srv[e] \in {"pending", "open"}
               PROVE  outbox'[e] \o (buf'[e] \o inq[e]) = unanswered[e]
    BY <1>3 DEF NothingLost, netVars, programVars
  <2>1. outbox[e] \o (buf[e] \o inq[e]) = unanswered[e]
    BY DEF WireInv, NothingLost
  <2>2. CASE e = c
    <3>1. outbox'[e] = outbox[c] \o buf[c] /\ buf'[e] = <<>>
      BY <1>3, <2>2 DEF WireInv, WireTypes
    <3>2. \A o, b, q \in Seq(Parts) : (o \o b) \o (<<>> \o q) = o \o (b \o q)
      BY EmptyBuffer
    <3>3. (outbox[c] \o buf[c]) \o (<<>> \o inq[c]) = outbox[c] \o (buf[c] \o inq[c])
      BY <1>4, <3>2, Zenon
    <3> QED BY <2>1, <2>2, <3>1, <3>3, Zenon
  <2>3. CASE e # c
    <3>1. outbox'[e] = outbox[e] /\ buf'[e] = buf[e]
      BY <1>3, <2>3 DEF WireInv, WireTypes
    <3> QED BY <2>1, <3>1, Zenon
  <2> QED BY <2>2, <2>3
<1> QED BY <1>6, <1>7, <1>8, <1>9 DEF WireInv

\* The steps of echo() that move no bytes.
LEMMA LeaveWire ==
  ASSUME HandleInv, WireInv, NEW c \in Clients, UNCHANGED programVars,
         (\E d \in Clients : RecvEnd(c, d)) \/ RecvFails(c) \/ SendFails(c)
  PROVE  WireInv'
<1>1. /\ UNCHANGED <<sock, buf, mainVars, netVars, wireVars, programVars>>
      /\ \E p \in {"close", "shutdown"} : pc' = [pc EXCEPT ![c] = p]
  BY DEF RecvEnd, RecvFails, SendFails, GoTo
<1>2. pc'[c] = "shutdown" => sock[c] \in Handles /\ peer[sock[c]] = c
  <2>1. ASSUME NEW d \in Clients, RecvEnd(c, d) PROVE sock[c] \in Handles /\ peer[sock[c]] = c
    BY <2>1, OwnConnection DEF RecvEnd, GoTo
  <2>2. RecvFails(c) \/ SendFails(c) => pc'[c] = "close"
    BY DEF RecvFails, SendFails, GoTo, HandleInv, HandleTypes
  <2> QED BY <2>1, <2>2
<1>3. WireTypes' /\ WinsockHolds'
  BY <1>1 DEF WireInv, WireTypes, WinsockHolds, mainVars, netVars, wireVars, programVars
<1>4. Quiet'
  BY <1>1 DEF HandleInv, HandleTypes, WireInv, Quiet, wireVars, programVars
<1>5. EndingHolds'
  BY <1>1, <1>2 DEF HandleInv, HandleTypes, WireInv, EndingHolds, netVars
<1>6. NothingLost'
  BY <1>1 DEF WireInv, NothingLost, netVars, wireVars, programVars
<1> QED BY <1>3, <1>4, <1>5, <1>6 DEF WireInv

\* closesocket() ends the thread's own connection.
LEMMA CloseWire ==
  ASSUME HandleInv, WireInv, NEW c \in Clients, Close(c), UNCHANGED programVars
  PROVE  WireInv'
<1>1. /\ UNCHANGED <<sock, buf, started, listening, mainVars, wireVars, programVars>>
      /\ pc[c] = "close" /\ pc' = [pc EXCEPT ![c] = "shutdown"]
  BY DEF Close, GoTo
<1>2. \/ /\ started /\ sock[c] \in Handles /\ peer[sock[c]] = c
         /\ peer' = [peer EXCEPT ![sock[c]] = NoClient]
         /\ srv' = [srv EXCEPT ![c] = "closed"]
      \/ ~started /\ UNCHANGED <<peer, srv>>
  BY <1>1, OwnConnection DEF Close
<1>3. WireTypes' /\ Quiet'
  BY <1>1 DEF HandleInv, HandleTypes, WireInv, WireTypes, Quiet, wireVars, programVars
<1>4. WinsockHolds' /\ NothingLost'
  BY <1>1, <1>2 DEF HandleInv, HandleTypes, WireInv, WinsockHolds, NothingLost, mainVars,
     wireVars, programVars
<1>5. EndingHolds'
  BY <1>1, <1>2 DEF HandleInv, HandleTypes, WireInv, EndingHolds, WinsockHolds
<1> QED BY <1>3, <1>4, <1>5 DEF WireInv

\* A returning thread that has not closed its socket shuts down its own
\* connection, and so drops no byte of an open one.
LEMMA ShutdownWire ==
  ASSUME HandleInv, WireInv, NEW c \in Clients, Shutdown(c), UNCHANGED programVars
  PROVE  WireInv'
<1>1. /\ UNCHANGED <<started, listening, peer, mainVars, wireVars, programVars>>
      /\ pc[c] = "shutdown" /\ pc' = [pc EXCEPT ![c] = "done"]
      /\ sock' = [sock EXCEPT ![c] = INVALID_SOCKET]
      /\ buf' = [buf EXCEPT ![c] = <<>>]
      /\ srv' = [d \in Clients |-> IF Uses(c, d) /\ srv[d] = "open" THEN "shut" ELSE srv[d]]
  BY DEF Shutdown, Returns, GoTo
<1>2. srv'[c] \notin {"pending", "open"}
  <2>1. srv[c] # "pending"
    BY <1>1 DEF HandleInv, NotYet
  <2>2. srv[c] = "open" => Uses(c, c)
    BY <1>1 DEF WireInv, EndingHolds, WinsockHolds, Uses
  <2> QED BY <1>1, <2>1, <2>2
<1>3. <<>> \in Seq(Parts)
  BY EmptySeq
<1>4. WireTypes' /\ Quiet'
  BY <1>1, <1>3 DEF HandleInv, HandleTypes, WireInv, WireTypes, Quiet, wireVars, programVars
<1>5. WinsockHolds' /\ EndingHolds'
  BY <1>1 DEF HandleInv, HandleTypes, WireInv, WinsockHolds, EndingHolds, mainVars
<1>6. NothingLost'
  <2> SUFFICES ASSUME NEW e \in Clients, conn[e] = "open", srv'[e] \in {"pending", "open"}
               PROVE  outbox[e] \o (buf'[e] \o inq[e]) = unanswered[e]
    BY <1>1 DEF NothingLost, wireVars, programVars
  <2>1. e # c
    BY <1>2
  <2>2. buf'[e] = buf[e] /\ srv[e] \in {"pending", "open"}
    BY <1>1, <2>1 DEF WireInv, WireTypes
  <2> QED BY <2>2 DEF WireInv, NothingLost
<1> QED BY <1>4, <1>5, <1>6 DEF WireInv

-------------------------------------------------------------------------------
(* The client's steps.                                                     *)

LEMMA ProcessEndWire ==
  ASSUME HandleInv, WireInv, NEW c \in Clients, EndOfProcess(c),
         UNCHANGED <<mainVars, threadVars, netVars, inq>>
  PROVE  WireInv'
<1>1. /\ cpc' = [cpc EXCEPT ![c] = "gone"]
      /\ \E how \in {"closed", "reset"} : conn' = [conn EXCEPT ![c] = how]
      /\ outbox' = [outbox EXCEPT ![c] = <<>>]
      /\ unanswered' = [unanswered EXCEPT ![c] = <<>>]
      /\ UNCHANGED <<mainVars, threadVars, netVars, inq>>
  BY DEF EndOfProcess
<1>2. <<>> \in Seq(Parts)
  BY EmptySeq
<1>3. WireTypes'
  BY <1>1, <1>2 DEF WireInv, WireTypes, threadVars, netVars
<1>4. Quiet'
  BY <1>1 DEF HandleInv, HandleTypes, WireInv, WireTypes, Quiet, threadVars
<1>5. EndingHolds' /\ WinsockHolds'
  BY <1>1 DEF WireInv, EndingHolds, WinsockHolds, mainVars, threadVars, netVars
<1>6. NothingLost'
  BY <1>1 DEF WireInv, WireTypes, NothingLost, threadVars, netVars
<1> QED BY <1>3, <1>4, <1>5, <1>6 DEF WireInv

\* recv() takes the first bytes of what is on its way back, and these are the
\* first that are unanswered.
LEMMA NextLineWire ==
  ASSUME HandleInv, WireInv, NEW c \in Clients, cpc[c] # "off",
         NEW k \in 0 .. Len(outbox[c]), NEW m, NextLine(c, m, k),
         srv[c] \in {"pending", "open"} => k \in 1 .. Len(outbox[c]),
         UNCHANGED <<mainVars, threadVars, netVars, inq>>
  PROVE  WireInv'
<1>1. CASE m \in ClientExits
  BY <1>1, ProcessEndWire DEF NextLine
<1>2. CASE m \notin ClientExits
  <2>1. /\ cpc' = [cpc EXCEPT ![c] = "type"]
        /\ outbox' = [outbox EXCEPT ![c] = SubSeq(outbox[c], k + 1, Len(outbox[c]))]
        /\ unanswered' = [unanswered EXCEPT ![c] =
                            SubSeq(unanswered[c], k + 1, Len(unanswered[c]))]
        /\ UNCHANGED <<mainVars, threadVars, netVars, inq, conn>>
    BY <1>2 DEF NextLine
  <2>2. /\ outbox[c] \in Seq(Parts) /\ buf[c] \in Seq(Parts) /\ inq[c] \in Seq(Parts)
        /\ unanswered[c] \in Seq(Parts)
    BY DEF WireInv, WireTypes
  <2>3. SubSeq(outbox[c], k + 1, Len(outbox[c])) \in Seq(Parts)
    BY <2>2, Taken
  <2>4. SubSeq(unanswered[c], k + 1, Len(unanswered[c])) \in Seq(Parts)
    <3>1. /\ Len(unanswered[c]) \in Int /\ k + 1 \in Int
          /\ \A i \in k + 1 .. Len(unanswered[c]) : unanswered[c][i] \in Parts
      BY <2>2, LenProperties
    <3> QED BY <3>1, SubSeqProperties
  <2>5. WireTypes'
    BY <2>1, <2>3, <2>4 DEF WireInv, WireTypes, threadVars, netVars
  <2>6. Quiet'
    BY <2>1 DEF HandleInv, HandleTypes, WireInv, WireTypes, Quiet, threadVars
  <2>7. EndingHolds' /\ WinsockHolds'
    BY <2>1 DEF WireInv, EndingHolds, WinsockHolds, mainVars, threadVars, netVars
  <2>8. NothingLost'
    <3> SUFFICES ASSUME NEW e \in Clients, conn[e] = "open", srv[e] \in {"pending", "open"}
                 PROVE  outbox'[e] \o (buf[e] \o inq[e]) = unanswered'[e]
      BY <2>1 DEF NothingLost, threadVars, netVars
    <3>1. outbox[e] \o (buf[e] \o inq[e]) = unanswered[e]
      BY DEF WireInv, NothingLost
    <3>2. CASE e = c
      <4>1. outbox'[e] = SubSeq(outbox[c], k + 1, Len(outbox[c]))
            /\ unanswered'[e] = SubSeq(unanswered[c], k + 1, Len(unanswered[c]))
        BY <2>1, <3>2 DEF WireInv, WireTypes
      <4> DEFINE rest == buf[c] \o inq[c]
      <4>2. rest \in Seq(Parts)
        BY <2>2, ConcatProperties
      <4>3. outbox[c] \o rest = unanswered[c]
        BY <3>1, <3>2
      <4> HIDE DEF rest
      <4>4. SubSeq(outbox[c] \o rest, k + 1, Len(outbox[c] \o rest))
              = SubSeq(outbox[c], k + 1, Len(outbox[c])) \o rest
        BY <2>2, <4>2, DropFirst
      <4>5. outbox'[e] \o rest = unanswered'[e]
        BY <4>1, <4>3, <4>4, Zenon
      <4> QED BY <3>2, <4>5, Zenon DEF rest
    <3>3. CASE e # c
      <4>1. outbox'[e] = outbox[e] /\ unanswered'[e] = unanswered[e]
        BY <2>1, <3>3 DEF WireInv, WireTypes
      <4> QED BY <3>1, <4>1, Zenon
    <3> QED BY <3>2, <3>3
  <2> QED BY <2>5, <2>6, <2>7, <2>8 DEF WireInv
<1> QED BY <1>1, <1>2

LEMMA SayWire ==
  ASSUME HandleInv, WireInv, NEW c \in Clients, NEW m \in Texts, Say(c, m)
  PROVE  WireInv'
<1>1. /\ cpc[c] = "type" /\ cpc' = [cpc EXCEPT ![c] = "wait"]
      /\ unanswered' = [unanswered EXCEPT ![c] = unanswered[c] \o OnWire(m)]
      /\ inq' = [inq EXCEPT ![c] = IF srv[c] = "closed" THEN inq[c] ELSE inq[c] \o OnWire(m)]
      /\ UNCHANGED <<mainVars, threadVars, netVars, conn, outbox>>
  BY DEF Say, At
<1>2. /\ outbox[c] \in Seq(Parts) /\ buf[c] \in Seq(Parts) /\ inq[c] \in Seq(Parts)
      /\ unanswered[c] \in Seq(Parts)
  BY DEF WireInv, WireTypes
<1>3. OnWire(m) \in Seq(Parts)
  BY DEF OnWire, Parts
<1>4. unanswered[c] \o OnWire(m) \in Seq(Parts) /\ inq[c] \o OnWire(m) \in Seq(Parts)
  BY <1>2, <1>3, ConcatProperties
<1>5. WireTypes'
  BY <1>1, <1>2, <1>4 DEF WireInv, WireTypes, threadVars, netVars
<1>6. Quiet'
  BY <1>1 DEF HandleInv, HandleTypes, WireInv, WireTypes, Quiet, threadVars
<1>7. EndingHolds' /\ WinsockHolds'
  BY <1>1 DEF WireInv, EndingHolds, WinsockHolds, mainVars, threadVars, netVars
<1>8. NothingLost'
  <2> SUFFICES ASSUME NEW e \in Clients, conn[e] = "open", srv[e] \in {"pending", "open"}
               PROVE  outbox[e] \o (buf[e] \o inq'[e]) = unanswered'[e]
    BY <1>1 DEF NothingLost, threadVars, netVars
  <2>1. outbox[e] \o (buf[e] \o inq[e]) = unanswered[e]
    BY DEF WireInv, NothingLost
  <2>2. CASE e = c
    <3>1. inq'[e] = inq[c] \o OnWire(m) /\ unanswered'[e] = unanswered[c] \o OnWire(m)
      BY <1>1, <2>2 DEF WireInv, WireTypes
    <3>2. \A q, w \in Seq(Parts) :
            outbox[c] \o (buf[c] \o (q \o w)) = (outbox[c] \o (buf[c] \o q)) \o w
      BY <1>2, AppendLast, Zenon
    <3>3. outbox[c] \o (buf[c] \o (inq[c] \o OnWire(m)))
            = (outbox[c] \o (buf[c] \o inq[c])) \o OnWire(m)
      BY <1>2, <1>3, <3>2, Zenon
    <3> QED BY <2>1, <2>2, <3>1, <3>3, Zenon
  <2>3. CASE e # c
    <3>1. inq'[e] = inq[e] /\ unanswered'[e] = unanswered[e]
      BY <1>1, <2>3 DEF WireInv, WireTypes
    <3> QED BY <2>1, <3>1, Zenon
  <2> QED BY <2>2, <2>3
<1> QED BY <1>5, <1>6, <1>7, <1>8 DEF WireInv

\* Opening and refusing a connection, and the reset of a dead one.
LEMMA ConnectionWire ==
  ASSUME HandleInv, WireInv, NEW c \in Clients, Connect(c) \/ ConnectFails(c) \/ Reset(c)
  PROVE  WireInv'
<1>1. /\ UNCHANGED <<mainVars, threadVars, started, listening, peer, inq, outbox, unanswered>>
      /\ cpc' = cpc \/ \E p \in {"type", "gone"} : cpc' = [cpc EXCEPT ![c] = p]
  BY DEF Connect, ConnectFails, Reset, At, vars, netVars, wireVars, programVars
<1>2. \/ /\ cpc[c] = "off" /\ listening
         /\ srv' = [srv EXCEPT ![c] = "pending"]
         /\ conn' = [conn EXCEPT ![c] = "open"]
      \/ srv' = srv /\ (conn' = conn \/ conn' = [conn EXCEPT ![c] = "reset"])
  BY DEF Connect, ConnectFails, Reset, At, vars, netVars, wireVars
<1>3. WireTypes'
  BY <1>1, <1>2 DEF WireInv, WireTypes, threadVars
<1>4. Quiet'
  BY <1>1 DEF HandleInv, HandleTypes, WireInv, Quiet, threadVars
<1>5. EndingHolds' /\ WinsockHolds'
  BY <1>1, <1>2 DEF HandleInv, HandleTypes, WireInv, EndingHolds, WinsockHolds, mainVars,
     threadVars
<1>6. NothingLost'
  <2> SUFFICES ASSUME NEW e \in Clients, conn'[e] = "open", srv'[e] \in {"pending", "open"}
               PROVE  outbox[e] \o (buf[e] \o inq[e]) = unanswered[e]
    BY <1>1 DEF NothingLost, threadVars
  <2>1. CASE conn[e] = "open" /\ srv[e] \in {"pending", "open"}
    BY <2>1 DEF WireInv, NothingLost
  <2>2. CASE ~(conn[e] = "open" /\ srv[e] \in {"pending", "open"})
    <3>1. e = c /\ cpc[c] = "off"
      BY <1>2, <2>2 DEF HandleInv, HandleTypes, WireInv, WireTypes
    <3>2. inq[e] = <<>> /\ outbox[e] = <<>> /\ unanswered[e] = <<>> /\ buf[e] = <<>>
      BY <3>1 DEF HandleInv, NotYet, WireInv, Quiet
    <3>3. <<>> \o <<>> = <<>>
      BY EmptySeq, ConcatEmptySeq
    <3> QED BY <3>2, <3>3, Zenon
  <2> QED BY <2>1, <2>2
<1> QED BY <1>3, <1>4, <1>5, <1>6 DEF WireInv

LEMMA ClientWire ==
  ASSUME HandleInv, WireInv, NEW c \in Clients, ClientStep(c)
  PROVE  WireInv'
<1>1. 0 \in 0 .. Len(outbox[c])
  <2>1. outbox[c] \in Seq(Parts)
    BY DEF WireInv, WireTypes
  <2>2. Len(outbox[c]) \in Nat
    BY <2>1, LenProperties
  <2> QED BY <2>2
<1>2. CASE RecvNothing(c)
  BY <1>1, <1>2, NextLineWire DEF RecvNothing
<1>3. ASSUME NEW k \in 1 .. Len(outbox[c]), RecvAnswer(c, k) PROVE WireInv'
  <2>1. k \in 0 .. Len(outbox[c])
    OBVIOUS
  <2> QED BY <1>3, <2>1, NextLineWire DEF RecvAnswer
<1>4. CASE Quit(c)
  BY <1>4, ProcessEndWire DEF Quit
<1>5. ASSUME NEW m \in Texts, SayFails(c, m) PROVE WireInv'
  BY <1>1, <1>5, NextLineWire DEF SayFails
<1>6. CASE Connect(c) \/ ConnectFails(c) \/ Reset(c)
  BY <1>6, ConnectionWire
<1> QED BY <1>2, <1>3, <1>4, <1>5, <1>6, SayWire DEF ClientStep, Answered

LEMMA WireKeeps ==
  ASSUME HandleInv, WireInv, [SystemNext]_systemVars PROVE WireInv'
<1>1. CASE ServerStep
  <2>1. CASE MainStep
    BY <1>1, <2>1, MainWire DEF ServerStep
  <2>2. ASSUME NEW c \in Clients, ThreadStep(c) PROVE WireInv'
    BY <1>1, <2>2, RecvWire, SendWire, LeaveWire, CloseWire, ShutdownWire
       DEF ServerStep, ThreadStep
  <2> QED BY <1>1, <2>1, <2>2 DEF ServerStep, ServerNext
<1>2. ASSUME NEW c \in Clients, ClientStep(c) PROVE WireInv'
  BY <1>2, ClientWire
<1>3. CASE UNCHANGED systemVars
  BY <1>3 DEF systemVars, vars, mainVars, threadVars, netVars, wireVars, programVars,
     WireInv, WireTypes, Quiet, EndingHolds, WinsockHolds, NothingLost
<1> QED BY <1>1, <1>2, <1>3 DEF SystemNext

\* In every state, and for every way of cutting and joining the stream, what a
\* client of an open connection has not received back is in one place and in
\* order (connection.c:104-112, socket19.c:93-103).
THEOREM EchoLosesNothing == SystemSpec => []NothingLost
<1>1. WireInv => NothingLost
  BY DEF WireInv
<1> QED BY HandleStarts, HandleKeeps, WireStarts, WireKeeps, <1>1, PTL DEF SystemSpec

-------------------------------------------------------------------------------
(* Types, and what nobody waits or sends without.                          *)

\* What HandleTypes and WireTypes leave of SystemTypeOK.
Positions ==
  /\ mpc \in {"accept", "create", "cleanup"}
  /\ listening \in BOOLEAN
  /\ said \in 0 .. MaxSaid
  /\ \A c \in Clients : pc[c] = "send" => buf[c] # <<>>
  /\ \A c \in Clients : cpc[c] = "wait" => unanswered[c] # <<>>

LEMMA PositionsStart == SystemInit => Positions
BY ClientAssumption DEF SystemInit, Init, Positions

LEMMA MainPositions ==
  ASSUME HandleInv, Positions, MainStep, UNCHANGED programVars
  PROVE  Positions'
<1>1. mpc' \in {"accept", "create", "cleanup"} /\ listening' \in BOOLEAN
  BY DEF Positions, MainStep, Accept, AcceptFails, Cleanup, Create, CreateFails, netVars
<1>2. UNCHANGED <<buf, cpc, unanswered, said>>
  BY DEF MainStep, Accept, AcceptFails, Cleanup, Create, CreateFails, threadVars, programVars
<1>3. \A c \in Clients : pc'[c] = "send" => pc[c] = "send"
  BY DEF MainStep, Accept, AcceptFails, Cleanup, Create, CreateFails, threadVars, HandleInv,
     HandleTypes
<1> QED BY <1>1, <1>2, <1>3 DEF Positions

\* recv() has returned at least one byte before anything is sent back, and
\* nobody else empties the buffer meanwhile.
LEMMA ThreadPositions ==
  ASSUME HandleInv, WireInv, Positions, NEW c \in Clients, ThreadStep(c),
         UNCHANGED programVars
  PROVE  Positions'
<1>1. UNCHANGED <<mpc, listening, cpc, unanswered, said>>
  BY DEF ThreadStep, RecvData, RecvEnd, Send, RecvFails, SendFails, Close, Shutdown,
     mainVars, netVars, programVars
<1>2. \A e \in Clients : pc'[e] = "send" => buf'[e] # <<>>
  <2>1. ASSUME NEW d \in Clients, NEW k \in 1 .. Len(inq[d]), RecvData(c, d, k)
        PROVE  \A e \in Clients : pc'[e] = "send" => buf'[e] # <<>>
    <3>1. inq[d] \in Seq(Parts)
      BY DEF WireInv, WireTypes
    <3>2. Len(inq[d]) \in Nat /\ \A i \in 1 .. Len(inq[d]) : inq[d][i] \in Parts
      BY <3>1, LenProperties
    <3>3. Len(SubSeq(inq[d], 1, k)) = k
      <4>1. \A i \in 1 .. k : inq[d][i] \in Parts
        BY <3>2
      <4>2. Len(SubSeq(inq[d], 1, k)) = IF 1 <= k THEN k - 1 + 1 ELSE 0
        BY <3>2, <4>1, SubSeqProperties
      <4> QED BY <3>2, <4>2
    <3>4. SubSeq(inq[d], 1, k) # <<>>
      BY <3>2, <3>3
    <3>5. /\ buf' = [buf EXCEPT ![c] = SubSeq(inq[d], 1, k)]
          /\ \E p \in {"shutdown", "send"} : pc' = [pc EXCEPT ![c] = p]
      BY <2>1 DEF RecvData
    <3> QED BY <3>4, <3>5 DEF Positions, HandleInv, HandleTypes, WireInv, WireTypes
  <2>2. ASSUME NEW d \in Clients, Send(c, d)
        PROVE  \A e \in Clients : pc'[e] = "send" => buf'[e] # <<>>
    BY <2>2 DEF Send, GoTo, Positions, HandleInv, HandleTypes, WireInv, WireTypes
  <2>3. ASSUME \/ \E d \in Clients : RecvEnd(c, d)
               \/ RecvFails(c) \/ SendFails(c) \/ Close(c)
        PROVE  \A e \in Clients : pc'[e] = "send" => buf'[e] # <<>>
    <3>1. buf' = buf /\ \E p \in {"shutdown", "close"} : pc' = [pc EXCEPT ![c] = p]
      BY <2>3 DEF RecvEnd, RecvFails, SendFails, Close, GoTo
    <3> QED BY <3>1 DEF Positions, HandleInv, HandleTypes
  <2>4. CASE Shutdown(c)
    BY <2>4 DEF Shutdown, Returns, GoTo, Positions, HandleInv, HandleTypes, WireInv,
       WireTypes
  <2> QED BY <2>1, <2>2, <2>3, <2>4 DEF ThreadStep
<1> QED BY <1>1, <1>2 DEF Positions

\* A program that waits has sent a line, both parts of it.
LEMMA ClientPositions ==
  ASSUME HandleInv, WireInv, Positions, NEW c \in Clients, ClientStep(c)
  PROVE  Positions'
<1>1. UNCHANGED <<mpc, listening, pc, buf>>
  BY DEF ClientStep, Connect, ConnectFails, Answered, RecvNothing, RecvAnswer, Quit, Reset,
     Say, SayFails, vars, mainVars, threadVars, netVars
<1>2. ASSUME NEW m \in Texts, Say(c, m)
      PROVE  said' \in 0 .. MaxSaid /\ \A e \in Clients : cpc'[e] = "wait" => unanswered'[e] # <<>>
  <2>1. /\ said < MaxSaid /\ said' = said + 1
        /\ cpc' = [cpc EXCEPT ![c] = "wait"]
        /\ unanswered' = [unanswered EXCEPT ![c] = unanswered[c] \o OnWire(m)]
    BY <1>2 DEF Say, At
  <2>2. unanswered[c] \in Seq(Parts) /\ OnWire(m) \in Seq(Parts)
    BY DEF WireInv, WireTypes, OnWire, Parts
  <2>3. Len(unanswered[c]) \in Nat /\ Len(OnWire(m)) = 2
    BY <2>2, LenProperties DEF OnWire
  <2>4. Len(unanswered[c] \o OnWire(m)) = Len(unanswered[c]) + 2
    <3>1. Len(unanswered[c] \o OnWire(m)) = Len(unanswered[c]) + Len(OnWire(m))
      BY <2>2, ConcatProperties
    <3> QED BY <2>3, <3>1
  <2>5. unanswered[c] \o OnWire(m) # <<>>
    BY <2>3, <2>4
  <2>6. said' \in 0 .. MaxSaid
    BY <2>1, ClientAssumption DEF Positions
  <2> QED BY <2>1, <2>5, <2>6 DEF Positions, HandleInv, HandleTypes, WireInv, WireTypes
<1>3. \/ \E m \in Texts : Say(c, m)
      \/ /\ said' = said
         /\ \/ cpc' = cpc /\ unanswered' = unanswered
            \/ /\ \E p \in {"type", "gone"} : cpc' = [cpc EXCEPT ![c] = p]
               /\ \A e \in Clients \ {c} : unanswered'[e] = unanswered[e]
  <2> USE DEF WireInv, WireTypes
  <2>1. CASE Connect(c) \/ ConnectFails(c) \/ Reset(c)
    BY <2>1 DEF Connect, ConnectFails, Reset, At, programVars
  <2>2. CASE Quit(c)
    BY <2>2 DEF Quit, EndOfProcess, HandleInv, HandleTypes
  <2>3. ASSUME NEW m, NEW k, NextLine(c, m, k), cpc[c] \in {"type", "wait"}, said' = said
        PROVE  /\ said' = said
               /\ \E p \in {"type", "gone"} : cpc' = [cpc EXCEPT ![c] = p]
               /\ \A e \in Clients \ {c} : unanswered'[e] = unanswered[e]
    BY <2>3 DEF NextLine, EndOfProcess
  <2> QED BY <2>1, <2>2, <2>3 DEF ClientStep, Answered, RecvNothing, RecvAnswer, SayFails
<1> QED BY <1>1, <1>2, <1>3 DEF Positions, HandleInv, HandleTypes

LEMMA PositionsKept ==
  ASSUME HandleInv, WireInv, Positions, [SystemNext]_systemVars
  PROVE  Positions'
<1>1. CASE ServerStep
  BY <1>1, MainPositions, ThreadPositions DEF ServerStep, ServerNext
<1>2. ASSUME NEW c \in Clients, ClientStep(c) PROVE Positions'
  BY <1>2, ClientPositions
<1>3. CASE UNCHANGED systemVars
  BY <1>3 DEF systemVars, vars, mainVars, threadVars, netVars, programVars, Positions
<1> QED BY <1>1, <1>2, <1>3 DEF SystemNext

\* In every state the variables have their types, no session sends from an
\* empty buffer (connection.c:104-112), and no program waits for the answer to
\* nothing (socket19.c:93-103).
THEOREM EchoTypesHold == SystemSpec => []SystemTypeOK
<1>1. HandleInv /\ WireInv /\ Positions => SystemTypeOK
  BY DEF HandleInv, HandleTypes, WireInv, WireTypes, Positions, SystemTypeOK, TypeOK
<1> QED
  BY HandleStarts, HandleKeeps, WireStarts, WireKeeps, PositionsStart, PositionsKept, <1>1,
     PTL DEF SystemSpec

-------------------------------------------------------------------------------
(* EchoService, step by step.                                              *)

\* The first of two joined queues is what they begin with.
LEMMA Front ==
  ASSUME NEW S, NEW f \in Seq(S), NEW r \in Seq(S)
  PROVE  SubSeq(f \o r, 1, Len(f)) = f
<1> DEFINE u == f \o r
           t == SubSeq(u, 1, Len(f))
<1>1. /\ u \in Seq(S) /\ Len(u) = Len(f) + Len(r)
      /\ \A i \in 1 .. Len(f) + Len(r) : u[i] = IF i <= Len(f) THEN f[i] ELSE r[i - Len(f)]
  BY ConcatProperties
<1>2. Len(f) \in Nat /\ Len(r) \in Nat
  BY LenProperties
<1> HIDE DEF u
<1>3. \A i \in 1 .. Len(f) : u[i] \in S
  BY <1>1, <1>2, LenProperties
<1>4. /\ t \in Seq(S)
      /\ Len(t) = IF 1 <= Len(f) THEN Len(f) - 1 + 1 ELSE 0
      /\ \A i \in 1 .. Len(f) - 1 + 1 : t[i] = u[1 + i - 1]
  <2>1. 1 \in Int /\ Len(f) \in Int
    BY <1>2
  <2> QED BY <1>3, <2>1, SubSeqProperties
<1> HIDE DEF t
<1>5. Len(t) = Len(f)
  BY <1>2, <1>4
<1>6. \A i \in 1 .. Len(t) : t[i] = f[i]
  BY <1>1, <1>2, <1>4, <1>5
<1>7. t = f
  BY <1>4, <1>5, <1>6, SeqEqual
<1> QED BY <1>7 DEF t, u

\* Who has not come or has gone has no open connection.
Absent == \A c \in Clients : cpc[c] \in {"off", "gone"} => conn[c] # "open"

ServiceInv == HandleInv /\ WireInv /\ Positions /\ Absent

LEMMA AbsentKept ==
  ASSUME HandleInv, WireInv, Absent, [SystemNext]_systemVars PROVE Absent'
<1> USE DEF HandleInv, HandleTypes, WireInv, WireTypes, Absent
<1>1. CASE ServerStep
  <2>1. UNCHANGED <<conn, cpc>>
    BY <1>1 DEF ServerStep, ServerNext, MainStep, Accept, AcceptFails, Cleanup, Create, CreateFails,
       ThreadStep, RecvData, RecvEnd, Send, RecvFails, SendFails, Close, Shutdown,
       wireVars, programVars
  <2> QED BY <2>1
<1>2. ASSUME NEW c \in Clients, ClientStep(c) PROVE Absent'
  <2>1. CASE Connect(c)
    BY <2>1 DEF Connect, At
  <2>2. CASE ConnectFails(c)
    BY <2>2 DEF ConnectFails, At, vars, wireVars
  <2>3. CASE Reset(c)
    BY <2>3 DEF Reset, programVars
  <2>4. CASE EndOfProcess(c)
    BY <2>4 DEF EndOfProcess
  <2>5. CASE UNCHANGED conn /\ cpc[c] \in {"type", "wait"}
             /\ \E p \in {"type", "wait"} : cpc' = [cpc EXCEPT ![c] = p]
    BY <2>5
  <2>6. \/ Connect(c) \/ ConnectFails(c) \/ Reset(c) \/ EndOfProcess(c)
        \/ UNCHANGED conn /\ cpc[c] \in {"type", "wait"}
           /\ \E p \in {"type", "wait"} : cpc' = [cpc EXCEPT ![c] = p]
    BY <1>2 DEF ClientStep, Answered, RecvNothing, RecvAnswer, NextLine, Quit, Say, SayFails, At
  <2> QED BY <2>1, <2>2, <2>3, <2>4, <2>5, <2>6
<1>3. CASE UNCHANGED systemVars
  BY <1>3 DEF systemVars, vars, wireVars, programVars
<1> QED BY <1>1, <1>2, <1>3 DEF SystemNext

LEMMA ServiceInvariant == SystemSpec => []ServiceInv
<1>1. SystemInit => Absent
  BY DEF SystemInit, Init, Absent
<1> QED
  BY HandleStarts, HandleKeeps, WireStarts, WireKeeps, PositionsStart, PositionsKept, <1>1,
     AbsentKept, PTL DEF SystemSpec, ServiceInv

\* send() puts the oldest received bytes behind those on their way back: the
\* next pieces that the service owes.
LEMMA SendReplies ==
  ASSUME ServiceInv, NEW c \in Clients, NEW d \in Clients, Send(c, d), UNCHANGED programVars
  PROVE  [Service!ServiceNext]_(Service!serviceVars)
<1>1. pc[c] = "send" /\ Uses(c, d)
  BY DEF Send, GoTo
<1>2. d = c
  BY <1>1, OwnConnection DEF ServiceInv
<1>3. /\ outbox' = [outbox EXCEPT ![c] = IF conn[c] = "open" THEN outbox[c] \o buf[c]
                                         ELSE outbox[c]]
      /\ srv[c] = "open" /\ UNCHANGED <<cpc, unanswered>>
  BY <1>2 DEF Send, programVars
<1>4. outbox \in [Clients -> Seq(Parts)]
  BY DEF ServiceInv, WireInv, WireTypes
<1>5. CASE conn[c] # "open"
  <2>1. outbox' = outbox
    BY <1>3, <1>4, <1>5
  <2> QED BY <1>3, <2>1 DEF Service!serviceVars
<1>6. CASE conn[c] = "open"
  <2>1. /\ outbox[c] \in Seq(Parts) /\ buf[c] \in Seq(Parts) /\ inq[c] \in Seq(Parts)
        /\ unanswered[c] \in Seq(Parts)
    BY DEF ServiceInv, WireInv, WireTypes
  <2> DEFINE f == outbox[c] \o buf[c]
  <2>2. unanswered[c] = f \o inq[c]
    <3>1. outbox[c] \o (buf[c] \o inq[c]) = unanswered[c]
      BY <1>3, <1>6 DEF ServiceInv, WireInv, NothingLost
    <3>2. \A x, y, z \in Seq(Parts) : (x \o y) \o z = x \o (y \o z)
      BY Associative
    <3>3. (outbox[c] \o buf[c]) \o inq[c] = outbox[c] \o (buf[c] \o inq[c])
      BY <2>1, <3>2, Zenon
    <3> QED BY <3>1, <3>3
  <2>3. f \in Seq(Parts) /\ Len(f) = Len(outbox[c]) + Len(buf[c])
    BY <2>1, ConcatProperties
  <2>4. Len(buf[c]) > 0 /\ Len(buf[c]) \in Nat /\ Len(outbox[c]) \in Nat /\ Len(inq[c]) \in Nat
    <3>1. buf[c] # <<>>
      BY <1>1 DEF ServiceInv, Positions
    <3> QED BY <2>1, <3>1, LenProperties, EmptySeq
  <2> HIDE DEF f
  <2>5. Len(f \o inq[c]) = Len(f) + Len(inq[c])
    BY <2>1, <2>3, ConcatProperties
  <2>6. Len(f) \in Len(outbox[c]) + 1 .. Len(unanswered[c])
    <3>1. Len(unanswered[c]) = Len(f) + Len(inq[c])
      BY <2>2, <2>5
    <3>2. Len(f) = Len(outbox[c]) + Len(buf[c])
      BY <2>3
    <3>3. \A x, y, z \in Nat : y > 0 => x + y \in x + 1 .. (x + y) + z
      OBVIOUS
    <3>4. Len(outbox[c]) + Len(buf[c])
            \in Len(outbox[c]) + 1 .. (Len(outbox[c]) + Len(buf[c])) + Len(inq[c])
      BY <2>4, <3>3, Zenon
    <3> QED BY <3>1, <3>2, <3>4, Zenon
  <2>7. f = SubSeq(unanswered[c], 1, Len(f))
    BY <2>1, <2>2, <2>3, Front
  <2>8. outbox' = [outbox EXCEPT ![c] = SubSeq(unanswered[c], 1, Len(f))]
    BY <1>3, <1>6, <2>7 DEF f
  <2>9. c \notin {e \in Clients : cpc[e] = "gone"}
    BY <1>6 DEF ServiceInv, Absent
  <2>10. Service!Reply(c)
    BY <1>3, <2>6, <2>8, <2>9 DEF Service!Reply
  <2> QED BY <2>10 DEF Service!ServiceNext
<1> QED BY <1>5, <1>6

\* The end of the program forgets both directions.
LEMMA EndGoesAway ==
  ASSUME ServiceInv, NEW c \in Clients, cpc[c] # "gone", EndOfProcess(c)
  PROVE  Service!GoAway(c)
<1>1. {e \in Clients : cpc'[e] = "gone"} = {e \in Clients : cpc[e] = "gone"} \cup {c}
  BY DEF EndOfProcess, ServiceInv, HandleInv, HandleTypes
<1> QED BY <1>1 DEF EndOfProcess, Service!GoAway

\* recv() takes what is on its way, or nothing, and the program goes on or ends.
LEMMA NextLineTakes ==
  ASSUME ServiceInv, NEW c \in Clients, cpc[c] \in {"type", "wait"},
         NEW k \in 0 .. Len(outbox[c]), NEW m, NextLine(c, m, k)
  PROVE  [Service!ServiceNext]_(Service!serviceVars)
<1>1. CASE m \in ClientExits
  BY <1>1, EndGoesAway DEF NextLine, Service!ServiceNext
<1>2. CASE m \notin ClientExits
  <2>1. /\ outbox' = [outbox EXCEPT ![c] = SubSeq(outbox[c], k + 1, Len(outbox[c]))]
        /\ unanswered' = [unanswered EXCEPT ![c] =
                            SubSeq(unanswered[c], k + 1, Len(unanswered[c]))]
        /\ cpc' = [cpc EXCEPT ![c] = "type"]
    BY <1>2 DEF NextLine
  <2>2. {e \in Clients : cpc'[e] = "gone"} = {e \in Clients : cpc[e] = "gone"}
    BY <2>1 DEF ServiceInv, HandleInv, HandleTypes
  <2>3. /\ outbox \in [Clients -> Seq(Parts)] /\ outbox[c] \in Seq(Parts)
        /\ unanswered \in [Clients -> Seq(Parts)] /\ unanswered[c] \in Seq(Parts)
    BY DEF ServiceInv, WireInv, WireTypes
  <2>4. CASE k = 0
    <3>1. SubSeq(outbox[c], 1, Len(outbox[c])) = outbox[c]
          /\ SubSeq(unanswered[c], 1, Len(unanswered[c])) = unanswered[c]
      BY <2>3, SubSeqFull
    <3>2. outbox' = outbox /\ unanswered' = unanswered
      BY <2>1, <2>3, <2>4, <3>1
    <3> QED BY <2>2, <3>2 DEF Service!serviceVars
  <2>5. CASE k # 0
    <3>1. k \in 1 .. Len(outbox[c])
      BY <2>3, <2>5, LenProperties
    <3>2. Service!Take(c)
      BY <2>1, <2>2, <3>1 DEF Service!Take
    <3> QED BY <3>2 DEF Service!ServiceNext
  <2> QED BY <2>4, <2>5
<1> QED BY <1>1, <1>2

LEMMA SayAsks ==
  ASSUME ServiceInv, NEW c \in Clients, NEW m \in Texts, Say(c, m)
  PROVE  [Service!ServiceNext]_(Service!serviceVars)
<1>1. /\ cpc[c] = "type" /\ cpc' = [cpc EXCEPT ![c] = "wait"]
      /\ unanswered' = [unanswered EXCEPT ![c] = unanswered[c] \o OnWire(m)]
      /\ outbox' = outbox
  BY DEF Say, At
<1>2. {e \in Clients : cpc'[e] = "gone"} = {e \in Clients : cpc[e] = "gone"}
  BY <1>1 DEF ServiceInv, HandleInv, HandleTypes
<1>3. Service!Ask(c, OnWire(m))
  BY <1>1, <1>2 DEF Service!Ask
<1>4. OnWire(m) \in {OnWire(t) : t \in Texts}
  OBVIOUS
<1> QED BY <1>3, <1>4 DEF Service!ServiceNext

LEMMA ClientServed ==
  ASSUME ServiceInv, NEW c \in Clients, ClientStep(c)
  PROVE  [Service!ServiceNext]_(Service!serviceVars)
<1>1. 0 \in 0 .. Len(outbox[c])
  <2>1. outbox[c] \in Seq(Parts)
    BY DEF ServiceInv, WireInv, WireTypes
  <2>2. Len(outbox[c]) \in Nat
    BY <2>1, LenProperties
  <2> QED BY <2>2
<1>2. CASE RecvNothing(c)
  BY <1>1, <1>2, NextLineTakes DEF RecvNothing
<1>3. ASSUME NEW k \in 1 .. Len(outbox[c]), RecvAnswer(c, k)
      PROVE  [Service!ServiceNext]_(Service!serviceVars)
  <2>1. k \in 0 .. Len(outbox[c])
    OBVIOUS
  <2> QED BY <1>3, <2>1, NextLineTakes DEF RecvAnswer
<1>4. CASE Quit(c)
  BY <1>4, EndGoesAway DEF Quit, Service!ServiceNext
<1>5. ASSUME NEW m \in Texts, SayFails(c, m)
      PROVE  [Service!ServiceNext]_(Service!serviceVars)
  BY <1>1, <1>5, NextLineTakes DEF SayFails
<1>6. CASE Connect(c) \/ Reset(c)
  <2>1. UNCHANGED <<outbox, unanswered>>
    BY <1>6 DEF Connect, Reset, programVars
  <2>2. {e \in Clients : cpc'[e] = "gone"} = {e \in Clients : cpc[e] = "gone"}
    BY <1>6 DEF Connect, Reset, At, programVars, ServiceInv, HandleInv, HandleTypes
  <2> QED BY <2>1, <2>2 DEF Service!serviceVars
<1>7. CASE ConnectFails(c)
  <2>1. /\ cpc[c] = "off" /\ cpc' = [cpc EXCEPT ![c] = "gone"]
        /\ UNCHANGED <<outbox, unanswered>>
    BY <1>7 DEF ConnectFails, At, vars, wireVars
  <2>2. outbox[c] = <<>> /\ unanswered[c] = <<>>
    BY <2>1 DEF ServiceInv, WireInv, Quiet
  <2>3. /\ outbox' = [outbox EXCEPT ![c] = <<>>]
        /\ unanswered' = [unanswered EXCEPT ![c] = <<>>]
    BY <2>1, <2>2 DEF ServiceInv, WireInv, WireTypes
  <2>4. {e \in Clients : cpc'[e] = "gone"} = {e \in Clients : cpc[e] = "gone"} \cup {c}
    BY <2>1 DEF ServiceInv, HandleInv, HandleTypes
  <2>5. Service!GoAway(c)
    BY <2>1, <2>3, <2>4 DEF Service!GoAway
  <2> QED BY <2>5 DEF Service!ServiceNext
<1> QED BY <1>2, <1>3, <1>4, <1>5, <1>6, <1>7, SayAsks DEF ClientStep, Answered

LEMMA ServiceStep ==
  ASSUME ServiceInv, [SystemNext]_systemVars
  PROVE  [Service!ServiceNext]_(Service!serviceVars)
<1>1. ASSUME NEW c \in Clients, ClientStep(c)
      PROVE  [Service!ServiceNext]_(Service!serviceVars)
  BY <1>1, ClientServed
<1>2. ASSUME ServerStep, NEW c \in Clients, NEW d \in Clients, Send(c, d)
      PROVE  [Service!ServiceNext]_(Service!serviceVars)
  BY <1>2, SendReplies DEF ServerStep
<1>3. CASE ServerStep /\ ~\E c, d \in Clients : Send(c, d)
  <2>1. UNCHANGED <<outbox, programVars>>
    BY <1>3 DEF ServerStep, ServerNext, MainStep, Accept, AcceptFails, Cleanup, Create, CreateFails,
       ThreadStep, RecvData, RecvEnd, RecvFails, SendFails, Close, Shutdown, wireVars
  <2> QED BY <2>1 DEF programVars, Service!serviceVars
<1>4. CASE UNCHANGED systemVars
  BY <1>4 DEF systemVars, vars, wireVars, programVars, Service!serviceVars
<1> QED BY <1>1, <1>2, <1>3, <1>4 DEF SystemNext

\* The echo server, with any number of clients and SOCKET values, implements
\* EchoService: however main, the threads that end and those that go on use and
\* reuse SOCKET values, a client gets back what it has sent, from the oldest
\* on, and nothing else (connection.c:78-124, socket19.c:93-103).
THEOREM EchoServes == SystemSpec => ImplementsEchoService
<1>1. SystemInit => Service!ServiceInit
  BY DEF SystemInit, Init, Service!ServiceInit
<1>2. ServiceInv /\ [SystemNext]_systemVars => [Service!ServiceNext]_(Service!serviceVars)
  BY ServiceStep
<1> QED
  BY ServiceInvariant, <1>1, <1>2, PTL DEF SystemSpec, ImplementsEchoService,
     Service!ServiceSpec
===============================================================================
