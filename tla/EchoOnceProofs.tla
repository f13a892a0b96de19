---------------------------- MODULE EchoOnceProofs ----------------------------
(***************************************************************************)
(* Proofs about EchoOnce, for any number of clients, any size of the       *)
(* buffer and of the connection, and any number of bytes.                  *)
(***************************************************************************)
EXTENDS EchoOnce, TLAPS

\* One connection is accepted at most, it is the one the server holds, and the
\* server knows nothing of a client that has not connected.
OneClient ==
  /\ pc \in {"bind", "listen", "accept"} => client_socket = NoClient
  /\ \A c \in Clients : srv[c] = "open" => client_socket = c
  /\ \A c \in Clients : client_socket = c => srv[c] \in {"open", "closed"}
  /\ \A c \in Clients : conn[c] = "none" => srv[c] = "none"

\* What follows the received bytes in buf is what memset() wrote.
ZeroBehind ==
  /\ pc = "recv" => \A i \in 1 .. BufLen : buf[i] = 0
  /\ pc = "send" => \A i \in 1 .. BufLen : i > bytes_received => buf[i] = 0

\* The server holds bytes of c.
Holding(c) == pc = "send" /\ client_socket = c

\* How many of the bytes of c have not been sent back.
Behind(c) == Len(inq[c]) + IF Holding(c) THEN bytes_received ELSE 0

\* EchoInOrder, byte by byte, for a connection that may not be accepted yet.
QueueInOrder(c) ==
  /\ Behind(c) <= sent[c]
  /\ \A k \in 1 .. Len(inq[c]) : inq[c][k] = sent[c] - Len(inq[c]) + k
  /\ Holding(c) => \A k \in 1 .. bytes_received : buf[k] = sent[c] - Behind(c) + k

\* Where in what came back bytes of the client are.
OwnAt(back) == {i \in 1 .. Len(back) : back[i] \in 1 .. MaxBytes}

\* They are the first n that it sent, in order.
ComesInOrder(back, n) ==
  /\ \A i, j \in OwnAt(back) : i < j => back[i] < back[j]
  /\ {back[i] : i \in OwnAt(back)} = 1 .. n

BackInOrder(c) == ComesInOrder(echoed[c], sent[c] - Behind(c))

Ordered(c) == QueueInOrder(c) /\ BackInOrder(c)

Live(c) == srv[c] \in {"pending", "open"} /\ conn[c] \in {"open", "half"}

InOrder ==
  /\ \A c \in Clients : Live(c) => Ordered(c)
  /\ \A c \in Clients : conn[c] = "none" =>
       sent[c] = 0 /\ inq[c] = <<>> /\ echoed[c] = <<>>

\* EchoInOrder made inductive.
EchoInv == TypeOK /\ OneClient /\ ZeroBehind /\ InOrder

-------------------------------------------------------------------------------
(* Type correctness. *)

\* What one reply consists of.
LEMMA ReplyType ==
  ASSUME TypeOK, pc = "send", NEW r \in Reply
  PROVE  /\ r \in Seq(Bytes) /\ Len(r) = bytes_received + 1
         /\ \A i \in 1 .. bytes_received : r[i] = buf[i]
         /\ r[bytes_received + 1] \in
              (IF bytes_received < BufLen THEN {buf[bytes_received + 1]} ELSE {0, Beyond})
<1> DEFINE data == [i \in 1 .. bytes_received |-> buf[i]]
<1>1. bytes_received \in Nat /\ bytes_received <= BufLen /\ BufLen \in Nat /\ MaxBytes \in Nat
  BY OnceAssumption DEF TypeOK
<1>2. data \in Seq(Bytes) /\ Len(data) = bytes_received
  BY <1>1 DEF TypeOK
<1>3. 0 \in Bytes /\ Beyond \in Bytes
  BY <1>1 DEF Bytes, Beyond
<1>4. PICK b \in Bytes : r = Append(data, b)
                         /\ b \in (IF bytes_received < BufLen THEN {buf[bytes_received + 1]} ELSE {0, Beyond})
  <2>1. CASE bytes_received < BufLen
    <3>1. buf[bytes_received + 1] \in Bytes
      BY <1>1, <2>1 DEF TypeOK
    <3> QED
      BY <2>1, <3>1 DEF Reply
  <2>2. CASE ~(bytes_received < BufLen)
    BY <1>3, <2>2 DEF Reply
  <2> QED
    BY <2>1, <2>2
<1>5. /\ Append(data, b) \in Seq(Bytes) /\ Len(Append(data, b)) = bytes_received + 1
      /\ \A i \in 1 .. bytes_received : Append(data, b)[i] = data[i]
      /\ Append(data, b)[bytes_received + 1] = b
  BY <1>1, <1>2
<1> QED
  BY <1>4, <1>5

\* The steps of the server that do not move bytes.
QuietStep ==
  \/ Bind \/ Listen \/ AcceptFails \/ StopListening \/ Memset \/ RecvFails \/ Close \/ Cleanup
  \/ \E c \in Clients : Accept(c) \/ RecvEnd(c)

LEMMA QuietType ==
  ASSUME TypeOK, QuietStep PROVE TypeOK'
<1> USE OnceAssumption DEF TypeOK, GoTo, netVars, clientVars
<1>1. CASE Bind \/ Listen
  BY <1>1 DEF Bind, Listen
<1>2. CASE AcceptFails
  BY <1>2 DEF AcceptFails
<1>3. CASE StopListening
  BY <1>3 DEF StopListening
<1>4. CASE Memset
  <2>1. ZeroBuf \in [1 .. BufLen -> Bytes]
    BY DEF ZeroBuf, Bytes, Beyond
  <2> QED BY <1>4, <2>1 DEF Memset
<1>5. CASE RecvFails \/ Cleanup
  BY <1>5 DEF RecvFails, Cleanup
<1>6. CASE Close
  BY <1>6 DEF Close
<1>7. CASE \E c \in Clients : Accept(c)
  BY <1>7 DEF Accept
<1>8. CASE \E c \in Clients : RecvEnd(c)
  BY <1>8 DEF RecvEnd
<1> QED BY <1>1, <1>2, <1>3, <1>4, <1>5, <1>6, <1>7, <1>8 DEF QuietStep

\* recv() takes bytes off the queue and fills the buffer with them.
LEMMA RecvType ==
  ASSUME TypeOK, NEW c \in Clients, NEW k \in 1 .. Len(inq[c]), RecvData(c, k) PROVE TypeOK'
<1> USE OnceAssumption DEF GoTo
<1>1. inq[c] \in Seq(Bytes) /\ Len(inq[c]) \in Nat /\ k \in Nat /\ k >= 1 /\ k <= Len(inq[c]) /\ k <= BufLen
  BY DEF TypeOK, RecvData
<1>2. \A i \in 1 .. k : inq[c][i] \in Bytes
  BY <1>1
<1>3. buf' \in [1 .. BufLen -> Bytes]
  BY <1>1, <1>2 DEF TypeOK, RecvData
<1>4. SubSeq(inq[c], k + 1, Len(inq[c])) \in Seq(Bytes)
  BY <1>1
<1>5. inq' \in [Clients -> Seq(Bytes)]
  BY <1>4 DEF TypeOK, RecvData
<1> QED
  BY <1>1, <1>3, <1>5 DEF TypeOK, RecvData, clientVars

\* send() adds a reply to what comes back, when there is room for it.
LEMMA SendType ==
  ASSUME TypeOK, NEW c \in Clients, Send(c) PROVE TypeOK'
<1> USE OnceAssumption
<1>1. CASE UNCHANGED echoed
  BY <1>1 DEF TypeOK, Send, Sends, clientVars
<1>2. CASE /\ Len(echoed[c]) - read[c] + bytes_received + 1 <= Window
           /\ \E r \in Reply : echoed' = [echoed EXCEPT ![c] = @ \o r]
  <2>1. PICK r \in Reply : echoed' = [echoed EXCEPT ![c] = @ \o r]
    BY <1>2
  <2>2. r \in Seq(Bytes) /\ Len(r) = bytes_received + 1
    BY ReplyType DEF Send, Sends
  <2>3. echoed[c] \in Seq(Bytes) /\ bytes_received \in Nat
    BY DEF TypeOK
  <2>4. echoed[c] \o r \in Seq(Bytes) /\ Len(echoed[c] \o r) = Len(echoed[c]) + bytes_received + 1
    BY <2>2, <2>3
  <2>5. echoed' \in [Clients -> Seq(Bytes)]
    BY <2>1, <2>4 DEF TypeOK
  <2>6. \A d \in Clients : read'[d] <= Len(echoed'[d]) /\ Len(echoed'[d]) - read'[d] <= Window
    BY <1>2, <2>1, <2>3, <2>4 DEF TypeOK, Send, Sends, clientVars
  <2> QED
    BY <2>5, <2>6 DEF TypeOK, Send, Sends, clientVars
<1> QED
  BY <1>1, <1>2 DEF Send, Sends

LEMMA ClientType ==
  ASSUME TypeOK, NEW c \in Clients, Connect(c) \/ Say(c) \/ Read(c) \/ Leave(c) PROVE TypeOK'
<1> USE OnceAssumption DEF TypeOK, serverVars, netVars, clientVars
<1>1. CASE Connect(c)
  BY <1>1 DEF Connect
<1>2. CASE Say(c)
  <2>1. sent'[c] = sent[c] + 1 /\ sent[c] + 1 \in Bytes /\ sent[c] + 1 <= MaxBytes
    BY <1>2 DEF Say, Bytes, Beyond
  <2>2. Append(inq[c], sent'[c]) \in Seq(Bytes)
    BY <2>1
  <2>3. inq' \in [Clients -> Seq(Bytes)] /\ sent' \in [Clients -> 0 .. MaxBytes]
    BY <1>2, <2>1, <2>2 DEF Say
  <2> QED BY <1>2, <2>3 DEF Say
<1>3. CASE Read(c)
  BY <1>3 DEF Read
<1>4. CASE Leave(c)
  BY <1>4 DEF Leave
<1> QED BY <1>1, <1>2, <1>3, <1>4

LEMMA StartType == Init => TypeOK
<1>1. ZeroBuf \in [1 .. BufLen -> Bytes]
  BY OnceAssumption DEF ZeroBuf, Bytes, Beyond
<1> QED BY <1>1, OnceAssumption DEF Init, TypeOK

LEMMA StepType == TypeOK /\ [Next]_vars => TypeOK'
<1> SUFFICES ASSUME TypeOK, [Next]_vars PROVE TypeOK'
  OBVIOUS
<1>1. CASE QuietStep
  BY <1>1, QuietType
<1>2. CASE \E c \in Clients, k \in Nat : k \in 1 .. Len(inq[c]) /\ RecvData(c, k)
  BY <1>2, RecvType
<1>3. CASE \E c \in Clients : Send(c)
  BY <1>3, SendType
<1>4. CASE \E c \in Clients : Connect(c) \/ Say(c) \/ Read(c) \/ Leave(c)
  BY <1>4, ClientType
<1>5. CASE UNCHANGED vars
  BY <1>5 DEF vars, serverVars, netVars, clientVars, TypeOK
<1> QED
  BY <1>1, <1>2, <1>3, <1>4, <1>5 DEF Next, ServerStep, QuietStep

\* recv() never fills more than buf holds, something has been received whenever
\* a reply is sent, and what comes back fits into the connection
\* (main.c:69-81).
THEOREM OnceTypeCorrect == Spec => []TypeOK
<1> QED BY StartType, StepType, PTL DEF Spec

-------------------------------------------------------------------------------
(* One client, and a buffer that is clean behind what was received. *)

LEMMA OneClientStep ==
  ASSUME TypeOK, OneClient, [Next]_vars PROVE OneClient'
<1> USE OnceAssumption DEF TypeOK, OneClient, GoTo, netVars, clientVars
<1>1. CASE Bind \/ Listen \/ Memset \/ RecvFails \/ Cleanup
  BY <1>1 DEF Bind, Listen, Memset, RecvFails, Cleanup
<1>2. CASE AcceptFails
  BY <1>2 DEF AcceptFails
<1>3. CASE StopListening
  BY <1>3 DEF StopListening
<1>4. CASE Close
  BY <1>4 DEF Close
<1>5. CASE \E c \in Clients : Accept(c)
  BY <1>5 DEF Accept
<1>6. CASE \E c \in Clients : RecvEnd(c)
  BY <1>6 DEF RecvEnd
<1>7. CASE \E c \in Clients, k \in Nat : RecvData(c, k)
  BY <1>7 DEF RecvData
<1>8. CASE \E c \in Clients : Send(c)
  BY <1>8 DEF Send, Sends
<1>9. CASE \E c \in Clients : Connect(c)
  BY <1>9 DEF Connect, serverVars
<1>10. CASE \E c \in Clients : Say(c) \/ Read(c) \/ Leave(c)
  BY <1>10 DEF Say, Read, Leave, serverVars
<1>11. CASE UNCHANGED vars
  BY <1>11 DEF vars, serverVars
<1> QED
  BY <1>1, <1>2, <1>3, <1>4, <1>5, <1>6, <1>7, <1>8, <1>9, <1>10, <1>11
  DEF Next, ServerStep

LEMMA ZeroBehindStep ==
  ASSUME TypeOK, ZeroBehind, [Next]_vars PROVE ZeroBehind'
<1> USE OnceAssumption DEF ZeroBehind, GoTo, netVars, clientVars
<1>1. CASE Bind \/ Listen \/ AcceptFails \/ StopListening \/ RecvFails \/ Close \/ Cleanup
  BY <1>1 DEF Bind, Listen, AcceptFails, StopListening, RecvFails, Close, Cleanup
<1>2. CASE Memset
  BY <1>2 DEF Memset, ZeroBuf
<1>3. CASE \E c \in Clients : Accept(c) \/ RecvEnd(c) \/ Send(c)
  BY <1>3 DEF Accept, RecvEnd, Send, Sends
<1>4. CASE \E c \in Clients : \E k \in 1 .. Len(inq[c]) : RecvData(c, k)
  BY <1>4 DEF RecvData, TypeOK
<1>5. CASE \/ \E c \in Clients : Connect(c) \/ Say(c) \/ Read(c) \/ Leave(c)
           \/ UNCHANGED vars
  BY <1>5 DEF Connect, Say, Read, Leave, vars, serverVars
<1> QED
  BY <1>1, <1>2, <1>3, <1>4, <1>5 DEF Next, ServerStep

-------------------------------------------------------------------------------
(* The order of the bytes. *)

\* A reply adds the next bytes of the client and one that is not the client's.
LEMMA OrderExtends ==
  ASSUME NEW back \in Seq(Bytes), NEW r \in Seq(Bytes), NEW a \in Nat, NEW n \in Nat,
         ComesInOrder(back, a), a + n <= MaxBytes,
         Len(r) = n + 1, \A k \in 1 .. n : r[k] = a + k, r[n + 1] \notin 1 .. MaxBytes
  PROVE  ComesInOrder(back \o r, a + n)
<1> DEFINE all == back \o r
<1>1. MaxBytes \in Nat /\ Len(back) \in Nat
  BY OnceAssumption
<1>2. /\ Len(all) = Len(back) + n + 1
      /\ \A i \in 1 .. Len(back) : all[i] = back[i]
      /\ \A k \in 1 .. n + 1 : all[Len(back) + k] = r[k]
  BY <1>1
<1> HIDE DEF all
<1>3. ASSUME NEW i \in Int
      PROVE  i \in OwnAt(all) <=> \/ i \in OwnAt(back)
                                  \/ i > Len(back) /\ i <= Len(back) + n
  <2>1. CASE i \in 1 .. Len(back)
    BY <1>1, <1>2, <2>1 DEF OwnAt
  <2>2. CASE i > Len(back) /\ i <= Len(back) + n + 1
    <3>1. i - Len(back) \in 1 .. n + 1 /\ i = Len(back) + (i - Len(back))
      BY <1>1, <2>2
    <3>2. all[i] = r[i - Len(back)]
      BY <1>2, <3>1
    <3>3. CASE i - Len(back) \in 1 .. n
      <4>1. all[i] = a + (i - Len(back))
        BY <3>2, <3>3
      <4> QED BY <1>1, <1>2, <2>2, <3>3, <4>1 DEF OwnAt
    <3>4. CASE i - Len(back) = n + 1
      BY <1>1, <1>2, <2>2, <3>2, <3>4 DEF OwnAt
    <3> QED BY <3>1, <3>3, <3>4
  <2>3. CASE i < 1 \/ i > Len(back) + n + 1
    BY <1>1, <1>2, <2>3 DEF OwnAt
  <2> QED BY <1>1, <2>1, <2>2, <2>3
<1>4. ASSUME NEW i \in Int, i > Len(back), i <= Len(back) + n
      PROVE  all[i] = a + (i - Len(back))
  <2>1. i - Len(back) \in 1 .. n /\ i = Len(back) + (i - Len(back))
    BY <1>1, <1>4
  <2>2. all[i] = r[i - Len(back)]
    BY <1>2, <2>1
  <2> QED BY <2>1, <2>2
<1>5. ASSUME NEW i \in OwnAt(back) PROVE all[i] = back[i] /\ back[i] \in 1 .. a /\ i \in 1 .. Len(back)
  <2>1. i \in 1 .. Len(back)
    BY DEF OwnAt
  <2>2. back[i] \in 1 .. a
    BY DEF ComesInOrder
  <2> QED BY <1>2, <2>1, <2>2
<1>6. ASSUME NEW i \in OwnAt(all), NEW j \in OwnAt(all), i < j PROVE all[i] < all[j]
  <2>1. i \in Int /\ j \in Int
    BY DEF OwnAt
  <2>2. CASE i \in OwnAt(back) /\ j \in OwnAt(back)
    BY <1>5, <1>6, <2>2 DEF ComesInOrder
  <2>3. CASE i \in OwnAt(back) /\ j > Len(back) /\ j <= Len(back) + n
    <3>1. all[i] \in 1 .. a
      BY <1>5, <2>3
    <3>2. all[j] = a + (j - Len(back))
      BY <1>4, <2>1, <2>3
    <3> QED BY <1>1, <2>1, <2>3, <3>1, <3>2
  <2>4. CASE i > Len(back) /\ j > Len(back) /\ i <= Len(back) + n /\ j <= Len(back) + n
    <3>1. all[i] = a + (i - Len(back)) /\ all[j] = a + (j - Len(back))
      BY <1>4, <2>1, <2>4
    <3> QED BY <1>1, <1>6, <2>1, <3>1
  <2>5. CASE i > Len(back) /\ j \in OwnAt(back)
    BY <1>1, <1>5, <1>6, <2>1, <2>5
  <2> QED BY <1>3, <2>1, <2>2, <2>3, <2>4, <2>5
<1>7. ASSUME NEW i \in OwnAt(all) PROVE all[i] \in 1 .. a + n
  <2>1. i \in Int
    BY DEF OwnAt
  <2>2. CASE i \in OwnAt(back)
    BY <1>5, <2>2
  <2>3. CASE i > Len(back) /\ i <= Len(back) + n
    BY <1>1, <1>4, <2>1, <2>3
  <2> QED BY <1>3, <2>1, <2>2, <2>3
<1>8. ASSUME NEW v \in 1 .. a + n PROVE \E i \in OwnAt(all) : all[i] = v
  <2>1. CASE v \in 1 .. a
    <3>1. PICK i \in OwnAt(back) : back[i] = v
      BY <2>1 DEF ComesInOrder
    <3>2. i \in Int
      BY <1>5
    <3> QED BY <1>3, <1>5, <3>1, <3>2
  <2>2. CASE v > a
    <3> DEFINE i == Len(back) + (v - a)
    <3>1. i \in Int /\ i > Len(back) /\ i <= Len(back) + n /\ a + (i - Len(back)) = v
      BY <1>1, <2>2
    <3> HIDE DEF i
    <3> QED BY <1>3, <1>4, <3>1
  <2> QED BY <2>1, <2>2
<1>9. {all[i] : i \in OwnAt(all)} = 1 .. a + n
  BY <1>7, <1>8
<1>10. ComesInOrder(all, a + n)
  BY <1>6, <1>9 DEF ComesInOrder
<1> QED BY <1>10 DEF all

\* A step that moves no byte of c keeps them in order.
LEMMA Framed ==
  ASSUME NEW c \in Clients, Ordered(c),
         sent'[c] = sent[c], inq'[c] = inq[c], echoed'[c] = echoed[c],
         \/ ~Holding(c) /\ ~Holding(c)'
         \/ Holding(c) /\ Holding(c)' /\ buf' = buf /\ bytes_received' = bytes_received
  PROVE  Ordered(c)'
<1>1. Behind(c)' = Behind(c)
  BY DEF Behind
<1>2. BackInOrder(c)'
  BY <1>1 DEF Ordered, BackInOrder, ComesInOrder, OwnAt
<1>3. QueueInOrder(c)'
  BY <1>1 DEF Ordered, QueueInOrder
<1> QED BY <1>2, <1>3 DEF Ordered

\* What InOrder says of one client; the lemmas below take one client at a time.
InOrderOf(c) ==
  /\ Live(c) => Ordered(c)
  /\ conn[c] = "none" => sent[c] = 0 /\ inq[c] = <<>> /\ echoed[c] = <<>>

LEMMA QuietOrder ==
  ASSUME TypeOK, OneClient, InOrder, NEW c \in Clients,
         QuietStep \/ (\E d \in Clients : Read(d) \/ Leave(d)) \/ UNCHANGED vars
  PROVE  InOrderOf(c)'
<1> USE DEF GoTo, netVars, clientVars, serverVars
<1>1. UNCHANGED <<sent, inq, echoed>>
  BY DEF QuietStep, Bind, Listen, AcceptFails, StopListening, Memset, RecvFails, Close, Cleanup,
         Accept, RecvEnd, Read, Leave, vars
<1>2. conn'[c] = "none" => conn[c] = "none"
  BY DEF QuietStep, Bind, Listen, AcceptFails, StopListening, Memset, RecvFails, Close, Cleanup,
         Accept, RecvEnd, Read, Leave, vars, TypeOK
<1>3. Live(c)' => Live(c)
  BY DEF QuietStep, Bind, Listen, AcceptFails, StopListening, Memset, RecvFails, Close, Cleanup,
         Accept, RecvEnd, Read, Leave, vars, TypeOK, Live
<1>4. \/ ~Holding(c) /\ ~Holding(c)'
      \/ Holding(c) /\ Holding(c)' /\ buf' = buf /\ bytes_received' = bytes_received
  BY DEF QuietStep, Bind, Listen, AcceptFails, StopListening, Memset, RecvFails, Close, Cleanup,
         Accept, RecvEnd, Read, Leave, vars, Holding
<1>5. Live(c)' => Ordered(c)'
  BY <1>1, <1>3, <1>4, Framed DEF InOrder
<1> QED BY <1>1, <1>2, <1>5 DEF InOrder, InOrderOf

LEMMA ConnectOrder ==
  ASSUME TypeOK, OneClient, InOrder, NEW c \in Clients, NEW d \in Clients, Connect(d)
  PROVE  InOrderOf(c)'
<1>1. UNCHANGED <<sent, inq, echoed, pc, client_socket, buf, bytes_received>>
  BY DEF Connect, clientVars, serverVars
<1>2. CASE c # d
  <2>1. conn'[c] = conn[c] /\ srv'[c] = srv[c]
    BY <1>2 DEF Connect, TypeOK
  <2>2. Live(c)' => Ordered(c)'
    BY <1>1, <2>1, Framed DEF InOrder, Live, Holding
  <2> QED BY <1>1, <2>1, <2>2 DEF InOrder, InOrderOf
<1>3. CASE c = d
  <2>1. sent'[c] = 0 /\ inq'[c] = <<>> /\ echoed'[c] = <<>> /\ conn'[c] = "open"
    BY <1>1, <1>3 DEF Connect, InOrder, TypeOK
  <2>2. ~Holding(c)'
    BY <1>1, <1>3 DEF Connect, OneClient, Holding
  <2>3. Behind(c)' = 0
    BY <2>1, <2>2 DEF Behind
  <2>4. BackInOrder(c)'
    BY <2>1, <2>3 DEF BackInOrder, ComesInOrder, OwnAt
  <2>5. QueueInOrder(c)'
    BY <2>1, <2>2, <2>3 DEF QueueInOrder
  <2> QED BY <2>1, <2>4, <2>5 DEF InOrderOf, Ordered
<1> QED BY <1>2, <1>3

LEMMA SayOrder ==
  ASSUME TypeOK, InOrder, NEW c \in Clients, NEW d \in Clients, Say(d)
  PROVE  InOrderOf(c)'
<1>1. UNCHANGED <<echoed, pc, client_socket, buf, bytes_received, srv, conn>>
  BY DEF Say, serverVars
<1>2. CASE c # d
  <2>1. sent'[c] = sent[c] /\ inq'[c] = inq[c]
    BY <1>2 DEF Say, TypeOK
  <2>2. Live(c)' => Ordered(c)'
    BY <1>1, <2>1, Framed DEF InOrder, Live, Holding
  <2> QED BY <1>1, <2>1, <2>2 DEF InOrder, InOrderOf
<1>3. CASE c = d
  <2>1. Ordered(c) /\ conn'[c] = "open"
    BY <1>1, <1>3 DEF InOrder, Say, Live
  <2>2. sent'[c] = sent[c] + 1 /\ inq'[c] = Append(inq[c], sent[c] + 1)
    BY <1>3 DEF Say, TypeOK
  <2>3. inq[c] \in Seq(Bytes) /\ sent[c] \in Nat /\ bytes_received \in Nat /\ sent[c] + 1 \in Bytes
    BY <1>3, OnceAssumption DEF TypeOK, Say, Bytes, Beyond
  <2>4. /\ Len(inq'[c]) = Len(inq[c]) + 1 /\ Len(inq[c]) \in Nat
        /\ inq'[c][Len(inq[c]) + 1] = sent[c] + 1
        /\ \A k \in 1 .. Len(inq[c]) : inq'[c][k] = inq[c][k]
    BY <2>2, <2>3
  <2>5. Holding(c)' <=> Holding(c)
    BY <1>1 DEF Holding
  <2>6. Behind(c)' = Behind(c) + 1 /\ Behind(c) \in Nat
    <3>1. CASE Holding(c)
      BY <1>1, <2>3, <2>4, <2>5, <3>1 DEF Behind
    <3>2. CASE ~Holding(c)
      BY <2>3, <2>4, <2>5, <3>2 DEF Behind
    <3> QED BY <3>1, <3>2
  <2>7. sent'[c] - Behind(c)' = sent[c] - Behind(c)
    BY <2>2, <2>3, <2>6
  <2>8. BackInOrder(c)'
    BY <1>1, <2>1, <2>7 DEF Ordered, BackInOrder, ComesInOrder, OwnAt
  <2>9. ASSUME NEW k \in 1 .. Len(inq'[c])
        PROVE  inq'[c][k] = sent'[c] - Len(inq'[c]) + k
    <3>1. \A i \in 1 .. Len(inq[c]) : inq[c][i] = sent[c] - Len(inq[c]) + i
      BY <2>1 DEF Ordered, QueueInOrder
    <3>2. CASE k = Len(inq[c]) + 1
      BY <2>2, <2>3, <2>4, <3>2
    <3>3. CASE k \in 1 .. Len(inq[c])
      <4>1. inq'[c][k] = sent[c] - Len(inq[c]) + k
        BY <2>4, <3>1, <3>3
      <4> QED BY <2>2, <2>3, <2>4, <3>3, <4>1
    <3> QED BY <2>4, <3>2, <3>3
  <2>10. Holding(c)' => \A k \in 1 .. bytes_received' : buf'[k] = sent'[c] - Behind(c)' + k
    BY <1>1, <2>1, <2>5, <2>7 DEF Ordered, QueueInOrder
  <2>11. Behind(c)' <= sent'[c]
    BY <2>1, <2>2, <2>3, <2>6 DEF Ordered, QueueInOrder
  <2>12. QueueInOrder(c)'
    BY <2>9, <2>10, <2>11 DEF QueueInOrder
  <2> QED BY <2>1, <2>8, <2>12 DEF InOrderOf, Ordered
<1> QED BY <1>2, <1>3

\* Received bytes are held in the order in which they were queued.
LEMMA RecvOrder ==
  ASSUME TypeOK, OneClient, InOrder, NEW c \in Clients, NEW d \in Clients,
         NEW k \in 1 .. Len(inq[d]), RecvData(d, k)
  PROVE  InOrderOf(c)'
<1>1. /\ UNCHANGED <<echoed, srv, conn, sent, read, client_socket>>
      /\ pc = "recv" /\ pc' = "send" /\ client_socket = d /\ bytes_received' = k
  BY DEF RecvData, clientVars, GoTo
<1>2. CASE c # d
  <2>1. inq'[c] = inq[c] /\ ~Holding(c) /\ ~Holding(c)'
    BY <1>1, <1>2 DEF RecvData, TypeOK, Holding
  <2>2. Live(c)' => Ordered(c)'
    BY <1>1, <2>1, Framed DEF InOrder, Live
  <2> QED BY <1>1, <2>1, <2>2 DEF InOrder, InOrderOf
<1>3. CASE c = d
  <2>1. /\ inq[c] \in Seq(Bytes) /\ sent[c] \in Nat /\ Len(inq[c]) \in Nat
        /\ k \in Nat /\ k >= 1 /\ k <= Len(inq[c]) /\ k <= BufLen /\ BufLen \in Nat
    BY <1>3, OnceAssumption DEF TypeOK, RecvData
  <2>2. inq'[c] = SubSeq(inq[c], k + 1, Len(inq[c]))
    BY <1>3 DEF RecvData, TypeOK
  <2>3. /\ Len(inq'[c]) = Len(inq[c]) - k
        /\ \A i \in 1 .. Len(inq[c]) - k : inq'[c][i] = inq[c][k + i]
    BY <2>1, <2>2
  <2>4. \A i \in 1 .. k : buf'[i] = inq[c][i]
    BY <1>3, <2>1 DEF RecvData
  <2>5. ~Holding(c) /\ Holding(c)'
    BY <1>1, <1>3 DEF Holding
  <2>6. Behind(c) = Len(inq[c]) /\ Behind(c)' = Len(inq[c])
    BY <1>1, <2>1, <2>3, <2>5 DEF Behind
  <2>7. conn[c] # "none"
    BY <1>1, <1>3 DEF OneClient
  <2>8. ASSUME Live(c)' PROVE Ordered(c)'
    <3>1. Ordered(c)
      BY <1>1, <2>8 DEF InOrder, Live
    <3>2. BackInOrder(c)'
      BY <1>1, <2>6, <3>1 DEF Ordered, BackInOrder, ComesInOrder, OwnAt
    <3>3. \A i \in 1 .. Len(inq[c]) : inq[c][i] = sent[c] - Len(inq[c]) + i
      BY <3>1 DEF Ordered, QueueInOrder
    <3>4. ASSUME NEW i \in 1 .. Len(inq'[c])
          PROVE  inq'[c][i] = sent'[c] - Len(inq'[c]) + i
      <4>1. i \in Nat /\ k + i \in 1 .. Len(inq[c]) /\ i \in 1 .. Len(inq[c]) - k
        BY <2>1, <2>3
      <4>2. inq'[c][i] = sent[c] - Len(inq[c]) + (k + i)
        BY <2>3, <3>3, <4>1
      <4> QED BY <1>1, <2>1, <2>3, <4>1, <4>2
    <3>5. ASSUME NEW i \in 1 .. bytes_received'
          PROVE  buf'[i] = sent'[c] - Behind(c)' + i
      <4>1. i \in 1 .. k /\ i \in 1 .. Len(inq[c])
        BY <1>1, <2>1
      <4> QED BY <1>1, <2>4, <2>6, <3>3, <4>1
    <3>6. Behind(c)' <= sent'[c]
      BY <1>1, <2>6, <3>1 DEF Ordered, QueueInOrder
    <3> QED BY <3>2, <3>4, <3>5, <3>6 DEF Ordered, QueueInOrder
  <2> QED BY <1>1, <2>7, <2>8 DEF InOrderOf
<1> QED BY <1>2, <1>3

\* A reply is what is held, and a byte that is not the client's.
LEMMA SendOrder ==
  ASSUME TypeOK, OneClient, ZeroBehind, InOrder, NEW c \in Clients, NEW d \in Clients, Send(d)
  PROVE  InOrderOf(c)'
<1>1. /\ UNCHANGED <<inq, srv, conn, sent, read, client_socket, buf, bytes_received>>
      /\ pc = "send" /\ pc' = "memset" /\ client_socket = d
  BY DEF Send, Sends, clientVars
<1>2. ~Holding(c)'
  BY <1>1 DEF Holding
<1>3. CASE c # d
  <2>1. echoed'[c] = echoed[c] /\ ~Holding(c)
    BY <1>1, <1>3 DEF Send, Sends, TypeOK, Holding
  <2>2. Live(c)' => Ordered(c)'
    BY <1>1, <1>2, <2>1, Framed DEF InOrder, Live
  <2> QED BY <1>1, <2>1, <2>2 DEF InOrder, InOrderOf
<1>4. CASE c = d
  <2>1. conn[c] # "none"
    BY <1>4 DEF Send, Sends
  <2>2. ASSUME Live(c)' PROVE Ordered(c)'
    <3>1. Ordered(c) /\ Live(c) /\ Holding(c)
      BY <1>1, <1>4, <2>2 DEF InOrder, Live, Holding
    <3>2. PICK r \in Reply : echoed'[c] = echoed[c] \o r
      BY <1>4, <3>1 DEF Send, Sends, Live, TypeOK
    <3>3. /\ r \in Seq(Bytes) /\ Len(r) = bytes_received + 1
          /\ \A i \in 1 .. bytes_received : r[i] = buf[i]
          /\ r[bytes_received + 1] \in
               (IF bytes_received < BufLen THEN {buf[bytes_received + 1]} ELSE {0, Beyond})
      BY <1>1, ReplyType
    <3>4. /\ echoed[c] \in Seq(Bytes) /\ bytes_received \in Nat /\ Len(inq[c]) \in Nat
          /\ sent[c] \in Nat /\ sent[c] <= MaxBytes /\ MaxBytes \in Nat /\ BufLen \in Nat
      BY OnceAssumption DEF TypeOK
    <3>5. Behind(c) = Len(inq[c]) + bytes_received /\ Behind(c)' = Len(inq[c])
      BY <1>1, <1>2, <3>1, <3>4 DEF Behind
    <3>6. Behind(c) <= sent[c]
      BY <3>1 DEF Ordered, QueueInOrder
    <3>7. r[bytes_received + 1] \notin 1 .. MaxBytes
      <4>1. CASE bytes_received < BufLen
        <5>1. bytes_received + 1 \in 1 .. BufLen /\ bytes_received + 1 > bytes_received
          BY <3>4, <4>1
        <5>2. buf[bytes_received + 1] = 0
          BY <1>1, <5>1 DEF ZeroBehind
        <5> QED BY <3>3, <3>4, <4>1, <5>2
      <4>2. CASE ~(bytes_received < BufLen)
        BY <3>3, <3>4, <4>2 DEF Beyond
      <4> QED BY <4>1, <4>2
    <3> DEFINE a == sent[c] - Behind(c)
    <3>8. /\ a \in Nat /\ a + bytes_received <= MaxBytes
          /\ a + bytes_received = sent'[c] - Behind(c)'
      <4>1. sent'[c] = sent[c]
        BY <1>1
      <4>2. Behind(c) \in Nat /\ a = sent[c] - Len(inq[c]) - bytes_received
        BY <3>4, <3>5
      <4>3. a + bytes_received = sent'[c] - Behind(c)'
        BY <3>4, <3>5, <4>1, <4>2
      <4>4. a \in Nat /\ a + bytes_received <= MaxBytes
        BY <3>4, <3>5, <3>6, <4>2
      <4> QED BY <4>3, <4>4
    <3>9. \A i \in 1 .. bytes_received : r[i] = a + i
      BY <3>1, <3>3 DEF Ordered, QueueInOrder
    <3>10. ComesInOrder(echoed[c], a)
      BY <3>1 DEF Ordered, BackInOrder
    <3> HIDE DEF a
    <3>11. ComesInOrder(echoed[c] \o r, a + bytes_received)
      BY <3>3, <3>4, <3>7, <3>8, <3>9, <3>10, OrderExtends
    <3>12. BackInOrder(c)'
      BY <3>2, <3>8, <3>11 DEF BackInOrder, ComesInOrder, OwnAt
    <3>13. QueueInOrder(c)'
      BY <1>1, <1>2, <3>1, <3>4, <3>5, <3>6 DEF Ordered, QueueInOrder
    <3> QED BY <3>12, <3>13 DEF Ordered
  <2> QED BY <1>1, <2>1, <2>2 DEF InOrderOf
<1> QED BY <1>3, <1>4

LEMMA InOrderStep ==
  ASSUME EchoInv, [Next]_vars PROVE InOrder'
<1> SUFFICES ASSUME NEW c \in Clients PROVE InOrderOf(c)'
  BY DEF InOrder, InOrderOf
<1>1. TypeOK /\ OneClient /\ ZeroBehind /\ InOrder
  BY DEF EchoInv
<1>2. CASE QuietStep \/ (\E d \in Clients : Read(d) \/ Leave(d)) \/ UNCHANGED vars
  BY <1>1, <1>2, QuietOrder
<1>3. CASE \E d \in Clients : Connect(d)
  BY <1>1, <1>3, ConnectOrder
<1>4. CASE \E d \in Clients : Say(d)
  BY <1>1, <1>4, SayOrder
<1>5. CASE \E d \in Clients : \E k \in 1 .. Len(inq[d]) : RecvData(d, k)
  BY <1>1, <1>5, RecvOrder
<1>6. CASE \E d \in Clients : Send(d)
  BY <1>1, <1>6, SendOrder
<1> QED BY <1>2, <1>3, <1>4, <1>5, <1>6 DEF Next, ServerStep, QuietStep

LEMMA EchoStarts == Init => EchoInv
<1> SUFFICES ASSUME Init PROVE EchoInv
  OBVIOUS
<1>1. TypeOK
  BY StartType
<1>2. OneClient /\ ZeroBehind /\ InOrder
  BY OnceAssumption DEF Init, OneClient, ZeroBehind, InOrder, Live
<1> QED BY <1>1, <1>2 DEF EchoInv

LEMMA EchoKept == EchoInv /\ [Next]_vars => EchoInv'
BY StepType, OneClientStep, ZeroBehindStep, InOrderStep DEF EchoInv

\* What is held, followed by what is queued, is the end of what was sent.
LEMMA RestInOrder ==
  ASSUME TypeOK, NEW c \in Clients, client_socket = c, QueueInOrder(c)
  PROVE  LET rest == Held \o inq[c]
         IN  /\ Len(rest) = Behind(c)
             /\ rest = [k \in 1 .. Len(rest) |-> sent[c] - Len(rest) + k]
<1> DEFINE rest == Held \o inq[c]
           n == IF Holding(c) THEN bytes_received ELSE 0
<1>1. /\ inq[c] \in Seq(Bytes) /\ Len(inq[c]) \in Nat /\ sent[c] \in Nat
      /\ bytes_received \in Nat /\ bytes_received <= BufLen /\ BufLen \in Nat
  BY OnceAssumption DEF TypeOK
<1>2. /\ Held \in Seq(Bytes) /\ Len(Held) = n /\ n \in Nat
      /\ \A k \in 1 .. n : Held[k] = buf[k]
  <2>1. CASE pc = "send"
    <3>1. \A k \in 1 .. bytes_received : buf[k] \in Bytes
      BY <1>1 DEF TypeOK
    <3>2. Held = [i \in 1 .. bytes_received |-> buf[i]] /\ n = bytes_received
      BY <2>1 DEF Held, Holding
    <3> QED BY <1>1, <3>1, <3>2
  <2>2. CASE pc # "send"
    BY <2>2 DEF Held, Holding
  <2> QED BY <2>1, <2>2
<1>3. Behind(c) = Len(inq[c]) + n
  BY DEF Behind
<1>4. \A k \in 1 .. n : Held[k] = sent[c] - Behind(c) + k
  BY <1>2 DEF QueueInOrder
<1>5. \A k \in 1 .. Len(inq[c]) : inq[c][k] = sent[c] - Len(inq[c]) + k
  BY DEF QueueInOrder
<1> HIDE DEF n
<1>6. /\ rest \in Seq(Bytes) /\ Len(rest) = n + Len(inq[c])
      /\ \A k \in 1 .. n : rest[k] = Held[k]
      /\ \A k \in 1 .. Len(inq[c]) : rest[n + k] = inq[c][k]
  <2>1. Len(rest) = Len(Held) + Len(inq[c]) /\ rest \in Seq(Bytes)
    BY <1>1, <1>2
  <2>2. \A k \in 1 .. Len(Held) : rest[k] = Held[k]
    BY <1>1, <1>2
  <2>3. \A k \in 1 .. Len(inq[c]) : rest[Len(Held) + k] = inq[c][k]
    BY <1>1, <1>2
  <2> QED BY <1>2, <2>1, <2>2, <2>3
<1> HIDE DEF rest
<1>7. ASSUME NEW k \in 1 .. Len(rest) PROVE rest[k] = sent[c] - Len(rest) + k
  <2>1. CASE k \in 1 .. n
    BY <1>1, <1>2, <1>3, <1>4, <1>6, <2>1
  <2>2. CASE k > n
    <3>1. k - n \in 1 .. Len(inq[c]) /\ n + (k - n) = k
      BY <1>1, <1>2, <1>6, <2>2
    <3>2. rest[k] = inq[c][k - n]
      BY <1>6, <3>1
    <3>3. inq[c][k - n] = sent[c] - Len(inq[c]) + (k - n)
      BY <1>5, <3>1
    <3> QED BY <1>1, <1>2, <1>6, <3>2, <3>3
  <2> QED BY <1>1, <1>2, <1>6, <2>1, <2>2
<1>8. rest = [k \in 1 .. Len(rest) |-> sent[c] - Len(rest) + k]
  <2>1. rest = [k \in 1 .. Len(rest) |-> rest[k]]
    BY <1>6
  <2> QED BY <1>7, <2>1
<1>9. Len(rest) = Behind(c)
  BY <1>1, <1>2, <1>3, <1>6
<1> QED BY <1>8, <1>9, Zenon DEF rest

LEMMA EchoInvImplies == EchoInv => EchoInOrder
<1> SUFFICES ASSUME EchoInv, NEW c \in Clients, Served(c)
             PROVE  LET back == echoed[c]
                        own  == {i \in 1 .. Len(back) : back[i] \in 1 .. MaxBytes}
                        rest == Held \o inq[c]
                    IN  /\ \A i, j \in own : i < j => back[i] < back[j]
                        /\ {back[i] : i \in own} = 1 .. sent[c] - Len(rest)
                        /\ rest = [k \in 1 .. Len(rest) |-> sent[c] - Len(rest) + k]
  BY DEF EchoInOrder
<1>1. TypeOK /\ client_socket = c /\ QueueInOrder(c) /\ BackInOrder(c)
  BY DEF EchoInv, InOrder, Ordered, Live, Served
<1> DEFINE rest == Held \o inq[c]
<1>2. Len(rest) = Behind(c) /\ rest = [k \in 1 .. Len(rest) |-> sent[c] - Len(rest) + k]
  BY <1>1, RestInOrder
<1> HIDE DEF rest
<1>3. /\ \A i, j \in OwnAt(echoed[c]) : i < j => echoed[c][i] < echoed[c][j]
      /\ {echoed[c][i] : i \in OwnAt(echoed[c])} = 1 .. sent[c] - Len(rest)
  BY <1>1, <1>2 DEF BackInOrder, ComesInOrder
<1> QED BY <1>2, <1>3 DEF OwnAt, rest

\* However recv() cuts the stream, and although each reply carries a byte that
\* nobody sent, a client whose connection stands gets its own bytes back once
\* each and in order, up to those the server holds or has not received
\* (main.c:68-81).
THEOREM OnceEchoInOrder == Spec => []EchoInOrder
<1> QED BY EchoStarts, EchoKept, EchoInvImplies, PTL DEF Spec
===============================================================================
