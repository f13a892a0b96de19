------------------------ MODULE ChatServerMessageProofs ------------------------
(***************************************************************************)
(* Proofs about the messages that the command server sends to its clients  *)
(* and to the device: who hears what and how often, for any number of      *)
(* clients, slots and messages, when accept() gives out no SOCKET value    *)
(* that a slot still holds.                                                *)
(***************************************************************************)
EXTENDS ChatServerDeliveryProofs, SequenceTheorems

\* The server has no place for c: it has not been accepted, is being looked at,
\* or has been refused.
Unserved(c) == pc[c] = "none" /\ ~(newcomer = c /\ \E i \in Slots : MainHolds(i))

\* The server ends no connection before its client does, refused or not.
StillOpen == \A c \in Clients : conn[c] = "open" /\ c \notin backlog => ServerOpen(c)

\* No broadcast reaches such a connection.
Strangers == \A c \in Clients : Unserved(c) => \A i \in Slots : PeerOf(client[i]) # c

TellInv == StillOpen /\ Strangers

-------------------------------------------------------------------------------
(* Whom the server can speak to. *)

LEMMA InboxType == OnceContext => inbox \in [Clients -> Seq(Messages)]
BY DEF OnceContext, OwnerInv, TypeInv, TypeOK, NetworkTypeOK

\* A connection that is served never becomes unserved.
LEMMA UnservedShrinks ==
  ASSUME OnceContext, [Next]_vars, NEW c \in Clients, Unserved(c)'
  PROVE  Unserved(c)
<1>1. CASE \E d \in Clients : ClientStep(d)
  BY <1>1 DEF ClientStep, Connect, ClientSend, Transmit, Drain, ClientClose, mainVars, threadVars,
              Unserved, MainHolds
<1>2. CASE AcceptStep
  BY <1>2 DEF AcceptStep, Accept, TakeConnection, threadVars, Unserved, MainHolds
<1>3. CASE Scan
  BY <1>3, ConstantsAssumption DEF Scan, threadVars, Unserved, MainHolds, Slots
<1>4. CASE ScanEnd \/ Assign
  <2>1. pc' = pc /\ temp_id' = temp_id
    BY <1>4 DEF ScanEnd, Assign, NextRound, mainVars, threadVars
  <2>2. \A i \in Slots : MainHolds(i) => MainHolds(i)' /\ newcomer' = newcomer
    BY <1>4, <2>1, ConstantsAssumption DEF ScanEnd, Assign, MainHolds, Slots
  <2> QED BY <2>1, <2>2 DEF Unserved
<1>5. CASE SendId \/ SendWelcome
  BY <1>5 DEF SendId, SendWelcome, threadVars, Unserved, MainHolds
<1>6. CASE Spawn
  <2>1. /\ newcomer \in Clients /\ pc'[newcomer] = "join"
        /\ \A d \in Clients \ {newcomer} : pc'[d] = pc[d]
    BY <1>6, SharedTypes DEF Spawn, Placing, OnceContext
  <2> QED BY <2>1 DEF Unserved
<1>7. CASE SendFull
  BY <1>7 DEF SendFull, threadVars, Unserved, MainHolds
<1>8. CASE \E d \in Clients : ThreadStep(d)
  <2>1. /\ \A e \in Clients : pc'[e] = "none" <=> pc[e] = "none"
        /\ UNCHANGED <<mpc, newcomer, temp_id>>
    BY <1>8, ThreadFrame DEF OnceContext, mainVars
  <2> QED BY <2>1 DEF Unserved, MainHolds
<1>9. CASE OpenPort \/ SetUpPort \/ UNCHANGED vars
  BY <1>9 DEF OpenPort, SetUpPort, vars, mainVars, threadVars, Unserved, MainHolds
<1> QED BY <1>1, <1>2, <1>3, <1>4, <1>5, <1>6, <1>7, <1>8, <1>9 DEF Next, MainStep

\* A connection comes to a slot only from having none.
LEMMA SlotPeers ==
  ASSUME ~ReuseWhileHeld, OnceContext, [Next]_vars,
         NEW c \in Clients, NEW j \in Slots, PeerOf(client[j])' = c
  PROVE  PeerOf(client[j]) = c \/ (Unserved(c) /\ ~Unserved(c)')
<1> USE SharedTypes DEF OnceContext
<1>1. client'[j] \in Handles /\ peer'[client'[j]] = c
  BY DEF PeerOf
<1>2. CASE Scan
  <2>1. UNCHANGED peer /\ mpc = "scan" /\ Placing /\ incoming \in Handles
    BY <1>2 DEF Scan, inboxVars, Placing
  <2>2. CASE client'[j] = client[j]
    BY <1>1, <2>1, <2>2 DEF PeerOf
  <2>3. CASE client'[j] # client[j]
    <3>1. client'[j] = incoming /\ temp_id = -1
      BY <1>2, <2>3 DEF Scan
    <3>2. c = newcomer
      BY <1>1, <2>1, <3>1 DEF SocketInv, IncomingIsNewcomers
    <3>3. pc[c] = "none"
      BY <2>1, <3>2 DEF OwnerInv, OneThread
    <3>4. Unserved(c)
      BY <3>1, <3>3, ConstantsAssumption DEF Unserved, MainHolds, Slots
    <3>5. MainHolds(j)' /\ newcomer' = c
      BY <1>2, <2>1, <2>3, <3>1, <3>2 DEF Scan, MainHolds
    <3> QED BY <3>4, <3>5 DEF Unserved
  <2> QED BY <2>2, <2>3
<1>3. CASE AcceptStep
  <2>1. PICK d \in Clients, h \in Handles : Accept(d, h)
    BY <1>3 DEF AcceptStep
  <2>2. /\ UNCHANGED client /\ (\A i \in Slots : client[i] # h)
        /\ \A g \in Handles \ {h} : peer'[g] = peer[g]
    BY <2>1 DEF Accept, TakeConnection, FreeHandles
  <2>3. client[j] # h
    BY <2>2 DEF OnceInv, Distinct
  <2> QED BY <1>1, <2>2, <2>3 DEF PeerOf
<1>4. CASE \E d \in Clients : ThreadStep(d)
  <2>1. PICK d \in Clients : ThreadStep(d)
    BY <1>4
  <2>2. \A h \in Handles : peer'[h] \in {peer[h], NoClient}
    BY <2>1, CloseEffect
    DEF ThreadStep, BroadcastJoin, BroadcastChat, BroadcastLeft, BroadcastStep, JoinEnd,
        LeftEnd, BroadcastEnd, CallRecv, RecvData, RecvEnd, WriteCommand, ChatEnd,
        CloseSocket, CloseSocketAgain, FreeSlot, Detach, inboxVars
  <2>3. client'[j] \in {client[j], INVALID_SOCKET}
    <3>1. CASE FreeSlot(d)
      BY <3>1 DEF FreeSlot
    <3>2. CASE ~FreeSlot(d)
      BY <2>1, <3>2
      DEF ThreadStep, BroadcastJoin, BroadcastChat, BroadcastLeft, BroadcastStep, JoinEnd,
          LeftEnd, BroadcastEnd, CallRecv, RecvData, RecvEnd, WriteCommand, ChatEnd,
          CloseSocket, CloseSocketAgain, Detach
    <3> QED BY <3>1, <3>2
  <2> QED BY <1>1, <2>2, <2>3 DEF PeerOf
<1>5. CASE ~Scan /\ ~AcceptStep /\ ~\E d \in Clients : ThreadStep(d)
  <2>1. UNCHANGED <<client, peer>>
    BY <1>5 DEF Next, ClientStep, Connect, ClientSend, Transmit, Drain, ClientClose, MainStep, ScanEnd,
       SendId, SendWelcome, Spawn, Assign, SendFull, OpenPort, SetUpPort, vars, inboxVars
  <2> QED BY <2>1 DEF PeerOf
<1> QED BY <1>2, <1>3, <1>4, <1>5

LEMMA StrangersStep ==
  ASSUME ~ReuseWhileHeld, OnceContext, Strangers, [Next]_vars
  PROVE  Strangers'
BY UnservedShrinks, SlotPeers DEF Strangers

\* Only a thread that leaves its loop closes the socket of a connection.
LEMMA ClosesEnded ==
  ASSUME OnceContext, Next, NEW h \in Handles, peer[h] \in Clients, peer'[h] = NoClient
  PROVE  conn[peer[h]] = "closed"
<1>1. PICK c \in Clients : ClosesOwnValue(c, h)
  BY ClosingStep, ConstantsAssumption DEF OnceContext
<1>2. InSession(c) /\ PeerOf(client[slot[c]]) = peer[h]
  BY <1>1 DEF ClosesOwnValue, InSession, SessionPC, PeerOf
<1>3. peer[h] = c
  BY <1>2, OwnPeer, ConstantsAssumption
<1> QED
  BY <1>1, <1>3 DEF ClosesOwnValue, OnceContext, OnceInv, OwnStream

\* The socket of a connection stays open until its client is gone.
LEMMA OpenKept ==
  ASSUME OnceContext, StillOpen, [Next]_vars
  PROVE  StillOpen'
<1>1. CASE \E c \in Clients : ClientStep(c)
  <2>1. /\ UNCHANGED peer
        /\ \A d \in Clients : conn'[d] = "open" /\ d \notin backlog' =>
             conn[d] = "open" /\ d \notin backlog
    BY <1>1, SharedTypes
    DEF ClientStep, Connect, ClientSend, Transmit, Drain, ClientClose, netVars, OnceContext
  <2> QED BY <2>1 DEF StillOpen, ServerOpen
<1>2. CASE AcceptStep
  <2>1. PICK c \in Clients, h \in Handles : Accept(c, h)
    BY <1>2 DEF AcceptStep
  <2>2. /\ UNCHANGED conn /\ backlog' = backlog \ {c} /\ peer[h] = NoClient
        /\ peer'[h] = c /\ \A g \in Handles \ {h} : peer'[g] = peer[g]
    BY <2>1, SharedTypes DEF Accept, TakeConnection, FreeHandles, OnceContext
  <2> QED BY <2>2, ConstantsAssumption DEF StillOpen, ServerOpen
<1>3. CASE MainStep \/ OpenPort \/ SetUpPort \/ UNCHANGED vars
  <2>1. UNCHANGED <<peer, conn, backlog>>
    BY <1>3
    DEF MainStep, Scan, ScanEnd, SendId, SendWelcome, Spawn, Assign, SendFull, OpenPort,
        SetUpPort, vars, inboxVars, netVars
  <2> QED BY <2>1 DEF StillOpen, ServerOpen
<1>4. CASE \E c \in Clients : ThreadStep(c)
  <2>1. PICK c \in Clients : ThreadStep(c)
    BY <1>4
  <2>2. UNCHANGED <<conn, backlog>>
    BY <2>1, ThreadFrame DEF OnceContext
  <2>3. \A h \in Handles : peer'[h] \in {peer[h], NoClient}
    BY <2>1, SharedTypes, CloseEffect
    DEF ThreadStep, BroadcastJoin, BroadcastChat, BroadcastLeft, BroadcastStep, JoinEnd,
        LeftEnd, BroadcastEnd, CallRecv, RecvData, RecvEnd, WriteCommand, ChatEnd,
        CloseSocket, CloseSocketAgain, FreeSlot, Detach, inboxVars, OnceContext
  <2> SUFFICES ASSUME NEW d \in Clients, conn[d] = "open", d \notin backlog
               PROVE  \E h \in Handles : peer'[h] = d
    BY <2>2 DEF StillOpen, ServerOpen
  <2>4. PICK h \in Handles : peer[h] = d
    BY DEF StillOpen, ServerOpen
  <2>5. Next
    BY <2>1 DEF Next
  <2>6. peer'[h] # NoClient
    BY <2>4, <2>5, ClosesEnded
  <2> QED BY <2>3, <2>4, <2>6
<1> QED BY <1>1, <1>2, <1>3, <1>4 DEF Next

LEMMA TellStarts == Init => TellInv
BY ConstantsAssumption DEF Init, TellInv, StillOpen, Strangers, PeerOf

LEMMA TellStep == ~ReuseWhileHeld /\ OnceContext /\ TellInv /\ [Next]_vars => TellInv'
BY OpenKept, StrangersStep DEF TellInv

-------------------------------------------------------------------------------
(* How often a client hears of another.                                    *)

\* The broadcast loop of thread d may still come to connection c: c has no slot
\* yet, or has one that the loop has not reached.
Ahead(c, d) == Unserved(c) \/ \E j \in Slots : j >= idx[d] /\ PeerOf(client[j]) = c

\* What thread d will do makes c hear a message of the kind once more.
JoinDue(c, d) == pc[d] = "none" \/ (pc[d] = "join" /\ Ahead(c, d))
LeftDue(c, d) == pc[d] \notin {"left", "detach", "done"} \/ (pc[d] = "left" /\ Ahead(c, d))
ChatDue(c, d) == pc[d] = "uart" \/ (pc[d] = "chat" /\ Ahead(c, d))

\* What c has heard of d and will hear is within the bounds of NewsOnce; what d
\* has sent and the server has not received may become a message each.
NewsInv ==
  \A c, d \in Clients :
    /\ Cardinality(News(c, "join", d)) + Count(JoinDue(c, d)) <= 1
    /\ Cardinality(News(c, "left", d)) + Count(LeftDue(c, d)) <= 1
    /\ Cardinality(News(c, "chat", d)) + Count(ChatDue(c, d)) + Len(outbox[d])
         <= Len(sent[d])

\* A set of positions of a sequence can be counted, and counts one more when a
\* position at the end is added.
LEMMA PositionsCount ==
  ASSUME NEW S, NEW s \in Seq(S), NEW P \in SUBSET DOMAIN s
  PROVE  /\ IsFiniteSet(P) /\ Cardinality(P) \in Nat
         /\ IsFiniteSet(P \cup {Len(s) + 1})
         /\ Cardinality(P \cup {Len(s) + 1}) = Cardinality(P) + 1
<1>1. Len(s) \in Nat /\ DOMAIN s = 1 .. Len(s)
  OBVIOUS
<1>2. IsFiniteSet(1 .. Len(s))
  BY <1>1, FS_Interval
<1>3. IsFiniteSet(P)
  BY <1>1, <1>2, FS_Subset
<1>4. Len(s) + 1 \notin P
  BY <1>1
<1> QED BY <1>3, <1>4, FS_AddElement, FS_CardinalityType

LEMMA NewsCount ==
  ASSUME OnceContext, NEW c \in Clients, NEW d \in Clients, NEW kind
  PROVE  IsFiniteSet(News(c, kind, d)) /\ Cardinality(News(c, kind, d)) \in Nat
<1>1. inbox[c] \in Seq(Messages)
  BY InboxType
<1>2. News(c, kind, d) \in SUBSET DOMAIN inbox[c]
  BY DEF News
<1> QED BY <1>1, <1>2, PositionsCount

LEMMA SentCount ==
  ASSUME OnceContext, NEW d \in Clients
  PROVE  Len(sent[d]) \in Nat /\ Len(outbox[d]) \in Nat
<1>1. sent[d] \in Seq(Pieces) /\ outbox[d] \in Seq(Pieces)
  BY DEF OnceContext, OwnerInv, TypeInv, TypeOK, NetworkTypeOK
<1> QED BY <1>1

\* What send() does to the news of d that c has.
LEMMA SendCounts ==
  ASSUME inbox \in [Clients -> Seq(Messages)], NEW h, NEW m, Send(h, m),
         NEW c \in Clients, NEW d \in Clients, NEW kind
  PROVE  \/ News(c, kind, d)' = News(c, kind, d)
         \/ /\ PeerOf(h) = c /\ m = Msg(kind, d)
            /\ Cardinality(News(c, kind, d)') = Cardinality(News(c, kind, d)) + 1
<1>1. CASE inbox'[c] = inbox[c]
  BY <1>1 DEF News
<1>2. CASE inbox'[c] # inbox[c]
  <2>1. PeerOf(h) = c /\ inbox'[c] = Append(inbox[c], m)
    BY <1>2 DEF Send, Deliver, inboxVars
  <2>2. inbox[c] \in Seq(Messages)
    OBVIOUS
  <2> DEFINE s == inbox[c]
  <2>3. s \in Seq(Messages)
    BY <2>2
  <2>4. /\ Len(s) \in Nat /\ DOMAIN s = 1 .. Len(s)
        /\ DOMAIN Append(s, m) = 1 .. Len(s) + 1
        /\ \A k \in 1 .. Len(s) : Append(s, m)[k] = s[k]
        /\ Append(s, m)[Len(s) + 1] = m
    BY <2>3
  <2>5. News(c, kind, d) = {k \in 1 .. Len(s) : s[k] = Msg(kind, d)}
    BY <2>4 DEF News
  <2>6. News(c, kind, d)' = {k \in 1 .. Len(s) + 1 : Append(s, m)[k] = Msg(kind, d)}
    BY <2>1, <2>4 DEF News, Msg
  <2>7. 1 .. Len(s) + 1 = (1 .. Len(s)) \cup {Len(s) + 1} /\ Len(s) + 1 \notin 1 .. Len(s)
    BY <2>4
  <2>8. CASE m = Msg(kind, d)
    <3>1. News(c, kind, d)' = News(c, kind, d) \cup {Len(s) + 1}
      BY <2>4, <2>5, <2>6, <2>7, <2>8
    <3>2. News(c, kind, d) \in SUBSET DOMAIN s
      BY <2>4, <2>5
    <3> QED BY <2>1, <2>3, <2>8, <3>1, <3>2, PositionsCount
  <2>9. CASE m # Msg(kind, d)
    BY <2>4, <2>5, <2>6, <2>7, <2>9
  <2> QED BY <2>8, <2>9
<1> QED BY <1>1, <1>2

\* So a loop that goes on has no more before it than it had.
LEMMA AheadShrinks ==
  ASSUME ~ReuseWhileHeld, OnceContext, [Next]_vars, NEW c \in Clients, NEW d \in Clients,
         idx'[d] >= idx[d], Ahead(c, d)'
  PROVE  Ahead(c, d)
<1>1. CASE Unserved(c)'
  BY <1>1, UnservedShrinks DEF Ahead
<1>2. ASSUME NEW j \in Slots, j >= idx'[d], PeerOf(client[j])' = c PROVE Ahead(c, d)
  <2>1. idx[d] \in Int /\ idx'[d] \in Int
    <3>1. idx \in [Clients -> 0 .. MaxClients] /\ idx' \in [Clients -> 0 .. MaxClients]
      BY TypeStep DEF OnceContext, OwnerInv, TypeInv, TypeOK, ThreadTypeOK
    <3> QED BY <3>1
  <2>2. j >= idx[d]
    BY <1>2, <2>1 DEF Slots
  <2> QED BY <1>2, <2>2, SlotPeers DEF Ahead
<1> QED BY <1>1, <1>2 DEF Ahead

\* What is due from a thread that stays where it is.
LEMMA DueKept ==
  ASSUME ~ReuseWhileHeld, OnceContext, [Next]_vars, NEW c \in Clients, NEW d \in Clients,
         pc'[d] = pc[d], idx'[d] >= idx[d]
  PROVE  /\ JoinDue(c, d)' => JoinDue(c, d)
         /\ LeftDue(c, d)' => LeftDue(c, d)
         /\ ChatDue(c, d)' => ChatDue(c, d)
BY AheadShrinks DEF JoinDue, LeftDue, ChatDue

\* Two bounds that NewsInv is made of.
LEMMA CountShrinks ==
  ASSUME NEW P, NEW Q, Q => P
  PROVE  Count(P) \in {0, 1} /\ Count(Q) \in {0, 1} /\ Count(Q) <= Count(P)
BY DEF Count

LEMMA LoopRange ==
  ASSUME OnceContext, NEW d \in Clients
  PROVE  idx[d] \in Int /\ idx[d] >= idx[d] /\ (idx[d] < MaxClients => idx[d] \in Slots)
<1>1. idx[d] \in 0 .. MaxClients
  BY DEF OnceContext, OwnerInv, TypeInv, TypeOK, ThreadTypeOK
<1> QED BY <1>1, SlotRange

\* A connection has one open socket once it is served, and one slot.
LEMMA OneSlot ==
  ASSUME OnceContext, NEW c \in Clients, ~Unserved(c), NEW i \in Slots, NEW j \in Slots,
         PeerOf(client[i]) = c, PeerOf(client[j]) = c
  PROVE  i = j
<1> USE SharedTypes DEF OnceContext
<1>1. /\ client[i] \in Handles /\ peer[client[i]] = c
      /\ client[j] \in Handles /\ peer[client[j]] = c
  BY DEF PeerOf
<1>2. client[i] = client[j]
  <2>1. CASE pc[c] # "none"
    BY <1>1, <2>1 DEF SocketInv, Homed
  <2>2. CASE pc[c] = "none"
    <3>1. newcomer = c /\ Placing
      BY <2>2 DEF Unserved, MainHolds, Placing
    <3> QED BY <1>1, <3>1 DEF SocketInv, IncomingIsNewcomers
  <2> QED BY <2>1, <2>2
<1> QED BY <1>1, <1>2 DEF OnceInv, Distinct

\* A round of a broadcast loop: a connection that hears the news had it due, and
\* has it due no longer.
LEMMA BroadcastCounts ==
  ASSUME ~ReuseWhileHeld, OnceContext, Strangers, NewsInv, NEW d \in Clients, ThreadStep(d),
         NEW kind \in {"join", "chat", "left"}, NEW everyone,
         BroadcastStep(d, kind, kind, everyone)
  PROVE  NewsInv'
<1>1. /\ pc' = pc /\ pc[d] = kind /\ UNCHANGED <<sent, outbox, client, peer, mpc, newcomer, temp_id>>
      /\ idx[d] \in Slots
  BY LoopRange DEF BroadcastStep, netVars, inboxVars, mainVars
<1>2. /\ \A e \in Clients : idx'[e] >= idx[e]
      /\ idx'[d] = idx[d] + 1
  <2>1. \A e \in Clients : idx'[e] = IF e = d THEN idx[e] + 1 ELSE idx[e]
    BY DEF BroadcastStep, OnceContext, OwnerInv, TypeInv, TypeOK, ThreadTypeOK
  <2>2. \A e \in Clients : idx[e] \in Int
    BY LoopRange
  <2> QED BY <2>1, <2>2
<1>3. [Next]_vars
  BY DEF Next
<1> SUFFICES ASSUME NEW c \in Clients, NEW e \in Clients
             PROVE  /\ Cardinality(News(c, "join", e)') + Count(JoinDue(c, e)') <= 1
                    /\ Cardinality(News(c, "left", e)') + Count(LeftDue(c, e)') <= 1
                    /\ Cardinality(News(c, "chat", e)') + Count(ChatDue(c, e)') + Len(outbox[e])
                         <= Len(sent[e])
  BY <1>1 DEF NewsInv
<1>4. /\ JoinDue(c, e)' => JoinDue(c, e)
      /\ LeftDue(c, e)' => LeftDue(c, e)
      /\ ChatDue(c, e)' => ChatDue(c, e)
  BY <1>1, <1>2, <1>3, DueKept
<1>5. \A k \in {"join", "left", "chat"} :
        \/ News(c, k, e)' = News(c, k, e)
        \/ /\ PeerOf(client[idx[d]]) = c /\ k = kind /\ e = d
           /\ Cardinality(News(c, k, e)') = Cardinality(News(c, k, e)) + 1
  <2>1. CASE UNCHANGED inbox
    BY <2>1 DEF News
  <2>2. CASE Send(client[idx[d]], Msg(kind, d))
    BY <2>2, InboxType, SendCounts DEF Msg
  <2> QED BY <2>1, <2>2 DEF BroadcastStep, inboxVars
<1>6. \A k \in {"join", "left", "chat"} : Cardinality(News(c, k, e)) \in Nat
  BY NewsCount
<1>7. Len(outbox[e]) \in Nat /\ Len(sent[e]) \in Nat
  BY SentCount
<1>8. CASE PeerOf(client[idx[d]]) = c /\ e = d
  <2>1. Ahead(c, d) /\ ~Unserved(c)
    BY <1>1, <1>8, LoopRange DEF Ahead, Strangers
  <2>2. ~Ahead(c, d)'
    <3>1. ~Unserved(c)'
      BY <1>3, <2>1, UnservedShrinks
    <3>2. ASSUME NEW j \in Slots, j >= idx[d] + 1, PeerOf(client[j]) = c PROVE FALSE
      <4>1. j = idx[d]
        BY <1>1, <1>8, <2>1, <3>2, OneSlot
      <4> QED BY <1>1, <3>2, <4>1 DEF Slots
    <3> QED BY <1>1, <1>2, <3>1, <3>2 DEF Ahead, PeerOf
  <2>3. /\ kind = "join" => JoinDue(c, d) /\ ~JoinDue(c, d)'
        /\ kind = "left" => LeftDue(c, d) /\ ~LeftDue(c, d)'
        /\ kind = "chat" => ChatDue(c, d) /\ ~ChatDue(c, d)'
    BY <1>1, <2>1, <2>2 DEF JoinDue, LeftDue, ChatDue
  <2>4. Cardinality(News(c, "join", e)') + Count(JoinDue(c, e)') <= 1
    <3>1. Cardinality(News(c, "join", e)) + Count(JoinDue(c, e)) <= 1
      BY DEF NewsInv
    <3>2. CASE kind = "join"
      <4>1. Count(JoinDue(c, e)) = 1 /\ Count(JoinDue(c, e)') = 0
        BY <1>8, <2>3, <3>2 DEF Count
      <4> QED BY <1>5, <1>6, <3>1, <4>1
    <3>3. CASE kind # "join"
      <4>1. Cardinality(News(c, "join", e)') = Cardinality(News(c, "join", e))
        BY <1>5, <3>3
      <4> QED BY <1>4, <1>6, <3>1, <4>1, CountShrinks
    <3> QED BY <3>2, <3>3
  <2>5. Cardinality(News(c, "left", e)') + Count(LeftDue(c, e)') <= 1
    <3>1. Cardinality(News(c, "left", e)) + Count(LeftDue(c, e)) <= 1
      BY DEF NewsInv
    <3>2. CASE kind = "left"
      <4>1. Count(LeftDue(c, e)) = 1 /\ Count(LeftDue(c, e)') = 0
        BY <1>8, <2>3, <3>2 DEF Count
      <4> QED BY <1>5, <1>6, <3>1, <4>1
    <3>3. CASE kind # "left"
      <4>1. Cardinality(News(c, "left", e)') = Cardinality(News(c, "left", e))
        BY <1>5, <3>3
      <4> QED BY <1>4, <1>6, <3>1, <4>1, CountShrinks
    <3> QED BY <3>2, <3>3
  <2>6. Cardinality(News(c, "chat", e)') + Count(ChatDue(c, e)') + Len(outbox[e])
          <= Len(sent[e])
    <3>1. Cardinality(News(c, "chat", e)) + Count(ChatDue(c, e)) + Len(outbox[e])
            <= Len(sent[e])
      BY DEF NewsInv
    <3>2. CASE kind = "chat"
      <4>1. Count(ChatDue(c, e)) = 1 /\ Count(ChatDue(c, e)') = 0
        BY <1>8, <2>3, <3>2 DEF Count
      <4> QED BY <1>5, <1>6, <1>7, <3>1, <4>1
    <3>3. CASE kind # "chat"
      <4>1. Cardinality(News(c, "chat", e)') = Cardinality(News(c, "chat", e))
        BY <1>5, <3>3
      <4> QED BY <1>4, <1>6, <1>7, <3>1, <4>1, CountShrinks
    <3> QED BY <3>2, <3>3
  <2> QED BY <2>4, <2>5, <2>6
<1>9. CASE ~(PeerOf(client[idx[d]]) = c /\ e = d)
  <2>1. \A k \in {"join", "left", "chat"} : Cardinality(News(c, k, e)') = Cardinality(News(c, k, e))
    BY <1>5, <1>9
  <2>2. /\ Cardinality(News(c, "join", e)) + Count(JoinDue(c, e)) <= 1
        /\ Cardinality(News(c, "left", e)) + Count(LeftDue(c, e)) <= 1
        /\ Cardinality(News(c, "chat", e)) + Count(ChatDue(c, e)) + Len(outbox[e])
             <= Len(sent[e])
    BY DEF NewsInv
  <2>3. Cardinality(News(c, "join", e)') + Count(JoinDue(c, e)') <= 1
    BY <1>4, <1>6, <2>1, <2>2, CountShrinks
  <2>4. Cardinality(News(c, "left", e)') + Count(LeftDue(c, e)') <= 1
    BY <1>4, <1>6, <2>1, <2>2, CountShrinks
  <2>5. Cardinality(News(c, "chat", e)') + Count(ChatDue(c, e)') + Len(outbox[e])
          <= Len(sent[e])
    BY <1>4, <1>6, <1>7, <2>1, <2>2, CountShrinks
  <2> QED BY <2>3, <2>4, <2>5
<1> QED BY <1>8, <1>9

\* A step that tells nobody of another client, and makes nothing due.
LEMMA NothingHeard ==
  ASSUME OnceContext, NewsInv,
         \A c, d \in Clients : \A kind \in {"join", "left", "chat"} :
           News(c, kind, d)' = News(c, kind, d),
         \A c, d \in Clients :
           (JoinDue(c, d)' => JoinDue(c, d)) /\ (LeftDue(c, d)' => LeftDue(c, d)),
         \A d \in Clients :
           /\ Len(outbox'[d]) \in Nat /\ Len(sent'[d]) \in Nat
           /\ \/ /\ \A c \in Clients : ChatDue(c, d)' => ChatDue(c, d)
                 /\ Len(outbox'[d]) + Len(sent[d]) <= Len(outbox[d]) + Len(sent'[d])
              \/ Len(outbox'[d]) < Len(outbox[d]) /\ sent'[d] = sent[d]
  PROVE  NewsInv'
<1> SUFFICES ASSUME NEW c \in Clients, NEW d \in Clients
             PROVE  /\ Cardinality(News(c, "join", d)') + Count(JoinDue(c, d)') <= 1
                    /\ Cardinality(News(c, "left", d)') + Count(LeftDue(c, d)') <= 1
                    /\ Cardinality(News(c, "chat", d)') + Count(ChatDue(c, d)') + Len(outbox'[d])
                         <= Len(sent'[d])
  BY DEF NewsInv
<1>1. /\ Cardinality(News(c, "join", d)) + Count(JoinDue(c, d)) <= 1
      /\ Cardinality(News(c, "left", d)) + Count(LeftDue(c, d)) <= 1
      /\ Cardinality(News(c, "chat", d)) + Count(ChatDue(c, d)) + Len(outbox[d])
           <= Len(sent[d])
  BY DEF NewsInv
<1>2. \A kind \in {"join", "left", "chat"} :
        /\ News(c, kind, d)' = News(c, kind, d) /\ Cardinality(News(c, kind, d)) \in Nat
  BY NewsCount
<1>3. /\ Len(sent[d]) \in Nat /\ Len(outbox[d]) \in Nat
      /\ Len(sent'[d]) \in Nat /\ Len(outbox'[d]) \in Nat
  BY SentCount
<1>4. Cardinality(News(c, "join", d)') + Count(JoinDue(c, d)') <= 1
  BY <1>1, <1>2, CountShrinks
<1>5. Cardinality(News(c, "left", d)') + Count(LeftDue(c, d)') <= 1
  BY <1>1, <1>2, CountShrinks
<1>6. Cardinality(News(c, "chat", d)') + Count(ChatDue(c, d)') + Len(outbox'[d])
        <= Len(sent'[d])
  <2>1. Count(ChatDue(c, d)) \in {0, 1} /\ Count(ChatDue(c, d)') \in {0, 1}
    BY DEF Count
  <2>2. CASE Len(outbox'[d]) < Len(outbox[d]) /\ sent'[d] = sent[d]
    <3>1. \A m, o, p, s \in Nat, x, y \in {0, 1} : m + x + o <= s /\ p < o => m + y + p <= s
      OBVIOUS
    <3>2. /\ News(c, "chat", d)' = News(c, "chat", d)
          /\ Cardinality(News(c, "chat", d)) \in Nat
      BY <1>2
    <3> QED BY <1>1, <1>3, <2>1, <2>2, <3>1, <3>2
  <2>3. CASE ChatDue(c, d)' => ChatDue(c, d)
    <3>1. Count(ChatDue(c, d)') <= Count(ChatDue(c, d))
      BY <2>3, CountShrinks
    <3>2. CASE Len(outbox'[d]) + Len(sent[d]) <= Len(outbox[d]) + Len(sent'[d])
      <4>1. \A m, x, y, o, p, s, t \in Nat :
              m + x + o <= s /\ y <= x /\ p + s <= o + t => m + y + p <= t
        OBVIOUS
      <4>2. /\ News(c, "chat", d)' = News(c, "chat", d)
            /\ Cardinality(News(c, "chat", d)) \in Nat
            /\ Count(ChatDue(c, d)) \in Nat /\ Count(ChatDue(c, d)') \in Nat
        BY <1>2, <2>1
      <4> QED BY <1>1, <1>3, <3>1, <3>2, <4>1, <4>2
    <3> QED BY <2>2, <2>3, <3>2
  <2> QED BY <2>2, <2>3
<1> QED BY <1>4, <1>5, <1>6

\* A step that takes nothing new from the streams.
LEMMA StreamsKept ==
  ASSUME OnceContext, UNCHANGED <<sent, outbox>>, NEW d \in Clients
  PROVE  /\ Len(outbox'[d]) \in Nat /\ Len(sent'[d]) \in Nat
         /\ Len(outbox'[d]) + Len(sent[d]) <= Len(outbox[d]) + Len(sent'[d])
<1>1. Len(sent[d]) \in Nat /\ Len(outbox[d]) \in Nat
  BY SentCount
<1>2. \A m, n \in Nat : m + n <= m + n
  OBVIOUS
<1> QED BY <1>1, <1>2

\* The clients: a piece that is sent may become a message.
LEMMA ClientCounts ==
  ASSUME ~ReuseWhileHeld, OnceContext, NewsInv, NEW c \in Clients, ClientStep(c)
  PROVE  NewsInv'
<1>1. /\ UNCHANGED <<inbox, threadVars>> /\ [Next]_vars
      /\ \A d \in Clients : pc'[d] = pc[d] /\ idx'[d] >= idx[d]
  BY LoopRange DEF ClientStep, Connect, ClientSend, Transmit, Drain, ClientClose,
     inboxVars, threadVars, Next
<1>2. sent \in [Clients -> Seq(Pieces)] /\ outbox \in [Clients -> Seq(Pieces)]
  BY DEF OnceContext, OwnerInv, TypeInv, TypeOK, NetworkTypeOK
<1>3. ASSUME NEW d \in Clients
      PROVE  /\ Len(outbox'[d]) \in Nat /\ Len(sent'[d]) \in Nat
             /\ Len(outbox'[d]) + Len(sent[d]) <= Len(outbox[d]) + Len(sent'[d])
  <2>1. CASE UNCHANGED <<sent, outbox>>
    BY <2>1, StreamsKept
  <2>2. CASE ClientClose(c)
    <3>1. outbox'[d] \in {outbox[d], <<>>} /\ UNCHANGED sent
      BY <1>2, <2>2 DEF ClientClose
    <3>2. Len(<<>>) = 0 /\ Len(sent[d]) \in Nat /\ Len(outbox[d]) \in Nat
      BY SentCount
    <3> QED BY <3>1, <3>2
  <2>3. ASSUME NEW t \in Texts, Transmit(c, t)
        PROVE  /\ Len(outbox'[d]) \in Nat /\ Len(sent'[d]) \in Nat
               /\ Len(outbox'[d]) + Len(sent[d]) <= Len(outbox[d]) + Len(sent'[d])
    <3>1. CASE d = c
      <4>1. /\ outbox'[d] = outbox[d] \o t /\ sent'[d] = sent[d] \o t
            /\ outbox[d] \in Seq(Pieces) /\ sent[d] \in Seq(Pieces) /\ t \in Seq(Pieces)
        BY <1>2, <2>3, <3>1, ConstantsAssumption DEF Transmit
      <4>2. /\ Len(outbox'[d]) = Len(outbox[d]) + Len(t)
            /\ Len(sent'[d]) = Len(sent[d]) + Len(t)
            /\ Len(t) \in Nat
        BY <4>1, ConcatProperties, LenProperties
      <4>3. /\ Len(sent[d]) \in Nat /\ Len(outbox[d]) \in Nat
            /\ \A m, n, k \in Nat : m + k + n <= m + (n + k) /\ m + k \in Nat
        BY SentCount
      <4> QED BY <4>2, <4>3
    <3>2. CASE d # c
      <4>1. outbox'[d] = outbox[d] /\ sent'[d] = sent[d]
        BY <1>2, <2>3, <3>2 DEF Transmit
      <4>2. Len(sent[d]) \in Nat /\ Len(outbox[d]) \in Nat
        BY SentCount
      <4>3. \A m, n \in Nat : m + n <= m + n
        OBVIOUS
      <4> QED BY <4>1, <4>2, <4>3
    <3> QED BY <3>1, <3>2
  <2> QED
    BY <2>1, <2>2, <2>3 DEF ClientStep, ClientSend, Connect, Drain, netVars
<1>4. \A e, d \in Clients :
        /\ JoinDue(e, d)' => JoinDue(e, d)
        /\ LeftDue(e, d)' => LeftDue(e, d)
        /\ ChatDue(e, d)' => ChatDue(e, d)
  BY <1>1, DueKept
<1>5. \A e, d \in Clients : \A kind \in {"join", "left", "chat"} :
        News(e, kind, d)' = News(e, kind, d)
  BY <1>1 DEF News
<1> QED BY <1>3, <1>4, <1>5, NothingHeard

\* main speaks to its newcomer of itself, and starts the thread that will tell
\* the others.
LEMMA MainCounts ==
  ASSUME ~ReuseWhileHeld, OnceContext, NewsInv, AcceptStep \/ MainStep
  PROVE  NewsInv'
<1>1. UNCHANGED <<sent, outbox>> /\ [Next]_vars
  BY DEF AcceptStep, Accept, TakeConnection, MainStep, Scan, ScanEnd, SendId, SendWelcome,
         Spawn, Assign, SendFull, netVars, Next
<1>2. \A c, d \in Clients : \A kind \in {"join", "left", "chat"} :
        News(c, kind, d)' = News(c, kind, d)
  <2>1. ASSUME NEW h, NEW k \in {"id", "welcome", "full"}, Send(h, Msg(k, newcomer)),
               NEW c \in Clients, NEW d \in Clients, NEW kind \in {"join", "left", "chat"}
        PROVE  News(c, kind, d)' = News(c, kind, d)
    <3>1. Msg(k, newcomer) # Msg(kind, d)
      BY DEF Msg
    <3> QED BY <2>1, <3>1, InboxType, SendCounts
  <2>2. CASE SendId \/ SendWelcome \/ SendFull
    BY <2>1, <2>2 DEF SendId, SendWelcome, SendFull
  <2>3. CASE ~(SendId \/ SendWelcome \/ SendFull)
    <3>1. UNCHANGED inbox
      BY <2>3 DEF AcceptStep, Accept, TakeConnection, MainStep, Scan, ScanEnd, Spawn, Assign,
                  inboxVars
    <3> QED BY <3>1 DEF News
  <2> QED BY <2>2, <2>3
<1>3. \A c, d \in Clients :
        /\ JoinDue(c, d)' => JoinDue(c, d)
        /\ LeftDue(c, d)' => LeftDue(c, d)
        /\ ChatDue(c, d)' => ChatDue(c, d)
  <2> SUFFICES ASSUME NEW c \in Clients, NEW d \in Clients
               PROVE  /\ JoinDue(c, d)' => JoinDue(c, d)
                      /\ LeftDue(c, d)' => LeftDue(c, d)
                      /\ ChatDue(c, d)' => ChatDue(c, d)
    OBVIOUS
  <2>1. CASE pc'[d] = pc[d] /\ idx'[d] = idx[d]
    BY <1>1, <2>1, DueKept, LoopRange
  <2>2. CASE ~(pc'[d] = pc[d] /\ idx'[d] = idx[d])
    <3>1. Spawn
      BY <2>2 DEF AcceptStep, Accept, TakeConnection, MainStep, Scan, ScanEnd, SendId,
         SendWelcome, Assign, SendFull, threadVars
    <3>2. d = newcomer /\ newcomer \in Clients
      BY <2>2, <3>1, SharedTypes
      DEF Spawn, Placing, OnceContext, OwnerInv, TypeInv, TypeOK, ThreadTypeOK
    <3>3. pc[d] = "none" /\ pc'[d] = "join"
      BY <3>1, <3>2, SharedTypes DEF Spawn, Placing, OnceContext, OwnerInv, OneThread
    <3> QED BY <3>3 DEF JoinDue, LeftDue, ChatDue
  <2> QED BY <2>1, <2>2
<1>4. \A d \in Clients :
        /\ Len(outbox'[d]) \in Nat /\ Len(sent'[d]) \in Nat
        /\ Len(outbox'[d]) + Len(sent[d]) <= Len(outbox[d]) + Len(sent'[d])
  BY <1>1, StreamsKept
<1> QED BY <1>2, <1>3, <1>4, NothingHeard

\* What recv() takes from the stream of its client, and what it leaves.
LEMMA RecvRest ==
  ASSUME OnceContext, NEW d \in Clients, NEW k, RecvData(d, k)
  PROVE  /\ k \in 1 .. Len(outbox[d]) /\ pc[d] = "recv" /\ UNCHANGED <<sent, wire, conn>>
         /\ pc'[d] = IF said'[d] \in Commands THEN "uart" ELSE "chat"
         /\ said'[d] = SubSeq(outbox[d], 1, k)
         /\ outbox'[d] = SubSeq(outbox[d], k + 1, Len(outbox[d]))
         /\ Len(outbox'[d]) = Len(outbox[d]) - k
         /\ \A e \in Clients \ {d} :
              pc'[e] = pc[e] /\ said'[e] = said[e] /\ outbox'[e] = outbox[e]
<1>1. /\ src[d] \in Clients /\ pc[d] = "recv"
      /\ k \in 1 .. Len(outbox[src[d]])
  BY DEF RecvData, GoTo
<1>2. src[d] = d
  BY <1>1, SharedTypes DEF OnceContext, OnceInv, OwnStream
<1>3. /\ outbox \in [Clients -> Seq(Pieces)] /\ pc \in [Clients -> ThreadPC]
      /\ said \in [Clients -> Seq(Pieces)] /\ outbox[d] \in Seq(Pieces)
  BY DEF OnceContext, OwnerInv, TypeInv, TypeOK, NetworkTypeOK, ThreadTypeOK
<1>4. Len(outbox[d]) \in Nat /\ k \in 1 .. Len(outbox[d])
  BY <1>1, <1>2, <1>3
<1>5. /\ outbox' = [outbox EXCEPT ![d] = SubSeq(outbox[d], k + 1, Len(outbox[d]))]
      /\ said' = [said EXCEPT ![d] = SubSeq(outbox[d], 1, k)]
      /\ pc' = [pc EXCEPT ![d] = IF SubSeq(outbox[d], 1, k) \in Commands THEN "uart" ELSE "chat"]
      /\ UNCHANGED <<sent, wire, conn>>
  BY <1>2 DEF RecvData, GoTo, uartVars
<1>6. outbox'[d] = SubSeq(outbox[d], k + 1, Len(outbox[d]))
  BY <1>3, <1>5
<1>7. Len(outbox'[d]) = Len(outbox[d]) - k
  BY <1>3, <1>4, <1>6
<1>8. /\ \A e \in Clients \ {d} :
           pc'[e] = pc[e] /\ said'[e] = said[e] /\ outbox'[e] = outbox[e]
      /\ said'[d] = SubSeq(outbox[d], 1, k)
      /\ pc'[d] = IF said'[d] \in Commands THEN "uart" ELSE "chat"
  BY <1>3, <1>5
<1> QED BY <1>1, <1>4, <1>5, <1>6, <1>7, <1>8

\* Between its loops a thread tells nothing; a buffer that it receives is one
\* message, or is dropped.
LEMMA ThreadCounts ==
  ASSUME ~ReuseWhileHeld, OnceContext, NewsInv, NEW d \in Clients, ThreadStep(d),
         ~BroadcastJoin(d), ~BroadcastChat(d), ~BroadcastLeft(d)
  PROVE  NewsInv'
<1>1. UNCHANGED <<inbox, sent>> /\ [Next]_vars
  BY DEF ThreadStep, JoinEnd, LeftEnd, BroadcastEnd, CallRecv, RecvData, RecvEnd,
         WriteCommand, ChatEnd, CloseSocket, CloseSocketAgain, FreeSlot, Detach, netVars,
         inboxVars, Next
<1>2. \A c, e \in Clients : \A kind \in {"join", "left", "chat"} :
        News(c, kind, e)' = News(c, kind, e)
  BY <1>1 DEF News
<1>3. ASSUME NEW e \in Clients
      PROVE  /\ Len(outbox[e]) \in Nat /\ Len(sent'[e]) \in Nat
             /\ outbox'[e] = outbox[e] =>
                  Len(outbox'[e]) + Len(sent[e]) <= Len(outbox[e]) + Len(sent'[e])
  <2>1. Len(outbox[e]) \in Nat /\ Len(sent[e]) \in Nat
    BY SentCount
  <2>2. \A m, n \in Nat : m + n <= m + n
    OBVIOUS
  <2> QED BY <1>1, <2>1, <2>2
<1>4. \A e \in Clients \ {d} : pc'[e] = pc[e] /\ idx'[e] = idx[e]
  <2>1. \A e \in Clients \ {d} : pc'[e] = pc[e]
    BY ThreadFrame DEF OnceContext
  <2>2. \A e \in Clients \ {d} : idx'[e] = idx[e]
    BY DEF ThreadStep, JoinEnd, LeftEnd, BroadcastEnd, CallRecv, RecvData, RecvEnd,
       WriteCommand, ChatEnd, CloseSocket, CloseSocketAgain, FreeSlot, Detach,
       OnceContext, OwnerInv, TypeInv, TypeOK, ThreadTypeOK
  <2> QED BY <2>1, <2>2
<1>5. \A c \in Clients, e \in Clients \ {d} :
        /\ JoinDue(c, e)' => JoinDue(c, e)
        /\ LeftDue(c, e)' => LeftDue(c, e)
        /\ ChatDue(c, e)' => ChatDue(c, e)
  BY <1>1, <1>4, DueKept, LoopRange
<1>6. /\ pc'[d] \notin {"none", "join"}
      /\ pc'[d] \in {"detach", "done"} \/ pc[d] \notin {"left", "detach", "done"}
  BY SharedTypes
  DEF ThreadStep, JoinEnd, LeftEnd, BroadcastEnd, CallRecv, RecvData, RecvEnd,
      WriteCommand, ChatEnd, CloseSocket, CloseSocketAgain, FreeSlot, Detach, GoTo, OnceContext
<1>7. \A c \in Clients :
        (JoinDue(c, d)' => JoinDue(c, d)) /\ (LeftDue(c, d)' => LeftDue(c, d))
  BY <1>6 DEF JoinDue, LeftDue
<1>8. CASE \E k \in 1 .. MaxSent : RecvData(d, k)
  <2>1. PICK k \in 1 .. MaxSent : RecvData(d, k)
    BY <1>8
  <2>2. /\ k \in 1 .. Len(outbox[d]) /\ Len(outbox'[d]) = Len(outbox[d]) - k
        /\ \A e \in Clients \ {d} : outbox'[e] = outbox[e]
        /\ UNCHANGED sent
    BY <2>1, RecvRest
  <2>3. Len(outbox'[d]) \in Nat /\ Len(outbox'[d]) < Len(outbox[d])
    BY <1>3, <2>2
  <2> QED BY <1>2, <1>3, <1>5, <1>7, <2>2, <2>3, NothingHeard
<1>9. CASE ~\E k \in 1 .. MaxSent : RecvData(d, k)
  <2>1. /\ UNCHANGED outbox
        /\ pc'[d] \notin {"uart", "chat"} \/ pc[d] = "uart"
    BY <1>9, SharedTypes
    DEF ThreadStep, JoinEnd, LeftEnd, BroadcastEnd, CallRecv, RecvEnd,
        WriteCommand, ChatEnd, CloseSocket, CloseSocketAgain, FreeSlot, Detach, GoTo,
        OnceContext, netVars
  <2>2. \A c \in Clients : ChatDue(c, d)' => ChatDue(c, d)
    BY <2>1 DEF ChatDue
  <2> QED BY <1>2, <1>3, <1>5, <1>7, <2>1, <2>2, NothingHeard
<1> QED BY <1>8, <1>9

LEMMA NewsStarts == Init => NewsInv
<1> SUFFICES ASSUME Init, NEW c \in Clients, NEW d \in Clients
             PROVE  /\ Cardinality(News(c, "join", d)) + Count(JoinDue(c, d)) <= 1
                    /\ Cardinality(News(c, "left", d)) + Count(LeftDue(c, d)) <= 1
                    /\ Cardinality(News(c, "chat", d)) + Count(ChatDue(c, d)) + Len(outbox[d])
                         <= Len(sent[d])
  BY DEF NewsInv
<1>1. DOMAIN <<>> = {} /\ Len(<<>>) = 0
  OBVIOUS
<1>2. /\ News(c, "join", d) = {} /\ News(c, "left", d) = {} /\ News(c, "chat", d) = {}
      /\ Len(sent[d]) = 0 /\ Len(outbox[d]) = 0
  BY <1>1 DEF Init, News
<1>3. Count(JoinDue(c, d)) \in {0, 1} /\ Count(LeftDue(c, d)) \in {0, 1} /\ Count(ChatDue(c, d)) = 0
  <2>1. ~ChatDue(c, d)
    BY DEF Init, ChatDue
  <2> QED BY <2>1 DEF Count
<1>4. Cardinality({}) = 0
  BY FS_EmptySet
<1>5. \A x \in {0, 1} : 0 + x <= 1 /\ 0 + 0 + 0 <= 0
  OBVIOUS
<1> QED BY <1>2, <1>3, <1>4, <1>5

LEMMA NewsStep ==
  ~ReuseWhileHeld /\ OnceContext /\ TellInv /\ NewsInv /\ [Next]_vars => NewsInv'
<1> SUFFICES ASSUME ~ReuseWhileHeld, OnceContext, TellInv, NewsInv, [Next]_vars PROVE NewsInv'
  OBVIOUS
<1>1. CASE \E c \in Clients : ClientStep(c)
  BY <1>1, ClientCounts
<1>2. CASE AcceptStep \/ MainStep
  BY <1>2, MainCounts
<1>3. ASSUME NEW d \in Clients, ThreadStep(d) PROVE NewsInv'
  <2>1. CASE BroadcastJoin(d) \/ BroadcastChat(d) \/ BroadcastLeft(d)
    BY <1>3, <2>1, BroadcastCounts DEF BroadcastJoin, BroadcastChat, BroadcastLeft, TellInv
  <2>2. CASE ~(BroadcastJoin(d) \/ BroadcastChat(d) \/ BroadcastLeft(d))
    BY <1>3, <2>2, ThreadCounts
  <2> QED BY <2>1, <2>2
<1>4. CASE OpenPort \/ SetUpPort \/ UNCHANGED vars
  <2>1. UNCHANGED <<inbox, sent, outbox, peer, client, mpc, newcomer, temp_id, pc, idx>>
    BY <1>4 DEF OpenPort, SetUpPort, vars, netVars, inboxVars, mainVars, threadVars
  <2>2. \A c, d \in Clients :
          /\ Ahead(c, d)' <=> Ahead(c, d)
          /\ \A kind \in {"join", "left", "chat"} : News(c, kind, d)' = News(c, kind, d)
    BY <2>1 DEF News, Ahead, Unserved, MainHolds, PeerOf
  <2>3. \A c, d \in Clients :
          /\ JoinDue(c, d)' <=> JoinDue(c, d)
          /\ LeftDue(c, d)' <=> LeftDue(c, d)
          /\ ChatDue(c, d)' <=> ChatDue(c, d)
    BY <2>1, <2>2 DEF JoinDue, LeftDue, ChatDue
  <2>4. \A d \in Clients :
          /\ Len(outbox'[d]) \in Nat /\ Len(sent'[d]) \in Nat
          /\ Len(outbox'[d]) + Len(sent[d]) <= Len(outbox[d]) + Len(sent'[d])
    BY <2>1, StreamsKept
  <2> QED BY <2>2, <2>3, <2>4, NothingHeard
<1> QED BY <1>1, <1>2, <1>3, <1>4 DEF Next

\* NewsOnce holds in every state if accept() gives out no value that a slot still
\* holds, for every number of clients, slots and pieces: although slots change
\* owners while a loop over the table runs (main.cpp:101,184,202), it never
\* comes to one connection twice, and each piece of a stream is broadcast at
\* most once.
THEOREM NewsHeardOnce ==
  ASSUME ~ReuseWhileHeld PROVE Spec => []NewsOnce
<1>1. OnceContext /\ NewsInv => NewsOnce
  <2> SUFFICES ASSUME OnceContext, NewsInv, NEW c \in Clients, NEW d \in Clients
               PROVE  /\ Cardinality(News(c, "join", d)) <= 1
                      /\ Cardinality(News(c, "left", d)) <= 1
                      /\ Cardinality(News(c, "chat", d)) <= Len(sent[d])
    BY DEF NewsOnce
  <2>1. /\ Cardinality(News(c, "join", d)) + Count(JoinDue(c, d)) <= 1
        /\ Cardinality(News(c, "left", d)) + Count(LeftDue(c, d)) <= 1
        /\ Cardinality(News(c, "chat", d)) + Count(ChatDue(c, d)) + Len(outbox[d])
             <= Len(sent[d])
    BY DEF NewsInv
  <2>2. /\ Count(JoinDue(c, d)) \in Nat /\ Count(LeftDue(c, d)) \in Nat
        /\ Count(ChatDue(c, d)) \in Nat
    BY DEF Count
  <2>3. \A kind \in {"join", "left", "chat"} : Cardinality(News(c, kind, d)) \in Nat
    BY NewsCount
  <2> QED BY <2>1, <2>2, <2>3, SentCount
<1> QED
  BY <1>1, OnceInvariant, TellStarts, TellStep, NewsStarts, NewsStep, PTL DEF Spec


-------------------------------------------------------------------------------
(* The threads and the port implement CommandQueues. *)

LEMMA StreamTypes ==
  ASSUME OnceContext, NEW c \in Clients
  PROVE  /\ outbox[c] \in Seq(Pieces) /\ said[c] \in Seq(Pieces) /\ sent[c] \in Seq(Pieces)
         /\ outbox \in [Clients -> Seq(Pieces)] /\ said \in [Clients -> Seq(Pieces)]
         /\ sent \in [Clients -> Seq(Pieces)]
         /\ pc \in [Clients -> ThreadPC]
         /\ conn \in [Clients -> {"off", "open", "closed"}]
         /\ pc[c] = "uart" => said[c] \in Commands
         /\ Unwritten[c] = IF pc[c] = "uart" THEN said[c] \o outbox[c] ELSE outbox[c]
         /\ Unwritten[c] \in Seq(Pieces)
<1>1. /\ outbox \in [Clients -> Seq(Pieces)] /\ said \in [Clients -> Seq(Pieces)]
      /\ sent \in [Clients -> Seq(Pieces)]
      /\ pc \in [Clients -> ThreadPC] /\ conn \in [Clients -> {"off", "open", "closed"}]
      /\ pc[c] = "uart" => said[c] \in Commands
  BY DEF OnceContext, OwnerInv, TypeInv, HoldsCommand, TypeOK, NetworkTypeOK, ThreadTypeOK
<1>2. said[c] \o outbox[c] \in Seq(Pieces)
  BY <1>1, ConcatProperties
<1> QED BY <1>1, <1>2 DEF Unwritten

\* The beginning and the rest of two sequences put together.
LEMMA FrontAndRest ==
  ASSUME NEW s \in Seq(Pieces), NEW o \in Seq(Pieces), s # <<>>
  PROVE  /\ Len(s) \in 1 .. Len(s \o o)
         /\ SubSeq(s \o o, 1, Len(s)) = s
         /\ SubSeq(s \o o, Len(s) + 1, Len(s \o o)) = o
<1>1. /\ s \o o \in Seq(Pieces) /\ Len(s) \in Nat /\ Len(s) >= 1 /\ Len(o) \in Nat
      /\ Len(s \o o) = Len(s) + Len(o)
  BY ConcatProperties, LenProperties, EmptySeq
<1>2. SubSeq(s \o o, 1, Len(s)) = s
  <2>1. 1 \in 1 .. Len(s) /\ Len(s) \in 1 .. Len(s)
    BY <1>1
  <2>2. SubSeq(s \o o, 1, Len(s)) = SubSeq(s, 1, Len(s))
    BY <2>1, SubSeqOfConcat1
  <2> QED BY <2>2, SubSeqFull
<1>3. SubSeq(s \o o, Len(s) + 1, Len(s \o o)) = o
  <2>1. CASE Len(o) = 0
    <3>1. o = <<>> /\ Len(s \o o) < Len(s) + 1
      BY <1>1, <2>1
    <3> QED BY <1>1, <3>1, SubSeqEmpty
  <2>2. CASE Len(o) # 0
    <3>1. /\ Len(s) + 1 \in Len(s) + 1 .. Len(s) + Len(o)
          /\ Len(s) + Len(o) \in Len(s) + 1 .. Len(s) + Len(o)
          /\ Len(s) + 1 - Len(s) = 1 /\ Len(s) + Len(o) - Len(s) = Len(o)
      BY <1>1, <2>2
    <3>2. SubSeq(s \o o, Len(s) + 1, Len(s) + Len(o)) = SubSeq(o, 1, Len(o))
      BY <3>1, SubSeqOfConcat2
    <3> QED BY <1>1, <3>2, SubSeqFull
  <2> QED BY <2>1, <2>2
<1>4. Len(s) \in 1 .. Len(s \o o)
  BY <1>1
<1> QED BY <1>2, <1>3, <1>4

\* The queues after a step that has changed at most that of c.
LEMMA OneQueue ==
  ASSUME NEW c \in Clients, \A e \in Clients \ {c} : Unwritten'[e] = Unwritten[e]
  PROVE  Unwritten' = [Unwritten EXCEPT ![c] = Unwritten'[c]]
BY DEF Unwritten

LEMMA QueueRest ==
  ASSUME NEW c \in Clients, outbox'[c] = outbox[c], pc'[c] = "uart" <=> pc[c] = "uart",
         pc[c] = "uart" => said'[c] = said[c]
  PROVE  Unwritten'[c] = Unwritten[c]
BY DEF Unwritten

\* What a client sends comes to the end of its queue.
LEMMA PutQueue ==
  ASSUME OnceContext, NEW c \in Clients, NEW t \in Texts, Transmit(c, t)
  PROVE  Device!Put(c, t) /\ sent' = [sent EXCEPT ![c] = @ \o t]
<1>1. /\ conn[c] # "closed" /\ UNCHANGED <<conn, wire, pc, said>>
      /\ outbox'[c] = outbox[c] \o t
      /\ \A e \in Clients \ {c} : outbox'[e] = outbox[e]
      /\ sent' = [sent EXCEPT ![c] = @ \o t]
  BY StreamTypes DEF Transmit, uartVars, threadVars
<1>2. \A e \in Clients \ {c} : Unwritten'[e] = Unwritten[e]
  BY <1>1, QueueRest
<1>3. Unwritten'[c] = Unwritten[c] \o t
  <2>1. Unwritten'[c] = IF pc[c] = "uart" THEN said[c] \o (outbox[c] \o t)
                                          ELSE outbox[c] \o t
    BY <1>1 DEF Unwritten
  <2>2. said[c] \o (outbox[c] \o t) = (said[c] \o outbox[c]) \o t
    <3>1. said[c] \in Seq(Pieces) /\ outbox[c] \in Seq(Pieces) /\ t \in Seq(Pieces)
      BY StreamTypes, ConstantsAssumption
    <3>2. \A p, q, r \in Seq(Pieces) : (p \o q) \o r = p \o (q \o r)
      BY ConcatAssociative
    <3> QED BY <3>1, <3>2
  <2>3. Unwritten[c] = IF pc[c] = "uart" THEN said[c] \o outbox[c] ELSE outbox[c]
    BY StreamTypes
  <2>4. CASE pc[c] = "uart"
    BY <2>1, <2>2, <2>3, <2>4
  <2>5. CASE pc[c] # "uart"
    BY <2>1, <2>3, <2>5
  <2> QED BY <2>4, <2>5
<1>4. Unwritten' = [Unwritten EXCEPT ![c] = Unwritten[c] \o t]
  BY <1>2, <1>3, OneQueue
<1> QED BY <1>1, <1>4 DEF Device!Put

\* A client that leaves loses nothing, or what the server has not received.
LEMMA LeaveQueue ==
  ASSUME OnceContext, NEW c \in Clients, ClientClose(c)
  PROVE  Device!Leave(c) /\ UNCHANGED sent
<1>1. /\ conn[c] # "closed" /\ conn' = [conn EXCEPT ![c] = "closed"]
      /\ UNCHANGED <<wire, pc, said, sent>>
      /\ outbox'[c] = outbox[c] \/ outbox'[c] = <<>>
      /\ \A e \in Clients \ {c} : outbox'[e] = outbox[e]
  BY StreamTypes DEF ClientClose, uartVars, threadVars
<1>2. \A e \in Clients \ {c} : Unwritten'[e] = Unwritten[e]
  BY <1>1, QueueRest
<1>3. {e \in Clients : conn'[e] = "closed"} = {e \in Clients : conn[e] = "closed"} \cup {c}
  BY <1>1, StreamTypes
<1>4. PICK k \in 0 .. Len(Unwritten[c]) : Unwritten'[c] = SubSeq(Unwritten[c], 1, k)
  <2>1. Unwritten[c] \in Seq(Pieces) /\ Len(Unwritten[c]) \in Nat
    BY StreamTypes
  <2>2. CASE outbox'[c] = outbox[c]
    <3>1. Unwritten'[c] = SubSeq(Unwritten[c], 1, Len(Unwritten[c]))
      BY <1>1, <2>1, <2>2, QueueRest, SubSeqFull
    <3> QED BY <2>1, <3>1
  <2>3. CASE outbox'[c] = <<>> /\ pc[c] = "uart"
    <3>1. /\ said[c] \in Seq(Pieces) /\ said[c] # <<>> /\ outbox[c] \in Seq(Pieces)
          /\ Unwritten[c] = said[c] \o outbox[c]
      BY <2>3, StreamTypes, ConstantsAssumption
    <3>2. Unwritten'[c] = said[c]
      BY <1>1, <2>3, <3>1, ConcatEmptySeq DEF Unwritten
    <3>3. SubSeq(Unwritten[c], 1, Len(said[c])) = said[c] /\ Len(said[c]) \in 1 .. Len(Unwritten[c])
      <4>1. /\ Len(said[c]) \in 1 .. Len(said[c] \o outbox[c])
            /\ SubSeq(said[c] \o outbox[c], 1, Len(said[c])) = said[c]
        BY <3>1, FrontAndRest
      <4> QED BY <3>1, <4>1
    <3> QED BY <2>1, <3>2, <3>3
  <2>4. CASE outbox'[c] = <<>> /\ pc[c] # "uart"
    <3>1. Unwritten'[c] = <<>>
      BY <1>1, <2>4 DEF Unwritten
    <3>2. SubSeq(Unwritten[c], 1, 0) = <<>> /\ 0 \in 0 .. Len(Unwritten[c])
      BY <2>1, SubSeqEmpty
    <3> QED BY <3>1, <3>2
  <2> QED BY <1>1, <2>2, <2>3, <2>4
<1>5. Unwritten' = [Unwritten EXCEPT ![c] = SubSeq(Unwritten[c], 1, k)]
  BY <1>2, <1>4, OneQueue
<1> QED BY <1>1, <1>3, <1>5 DEF Device!Leave

\* A buffer that recv() fills is a command, which stays first, or is passed
\* over.
LEMMA RecvQueue ==
  ASSUME OnceContext, NEW c \in Clients, NEW n, RecvData(c, n)
  PROVE  UNCHANGED <<Unwritten, sent, wire, conn>> \/ (Device!PassOver(c) /\ UNCHANGED sent)
<1>1. /\ n \in 1 .. Len(outbox[c]) /\ pc[c] = "recv" /\ pc'[c] \in {"uart", "chat"}
      /\ said'[c] = SubSeq(outbox[c], 1, n)
      /\ outbox'[c] = SubSeq(outbox[c], n + 1, Len(outbox[c]))
      /\ UNCHANGED <<wire, conn, sent>>
  BY RecvRest
<1>2. \A e \in Clients \ {c} : Unwritten'[e] = Unwritten[e]
  BY RecvRest, QueueRest
<1>3. Unwritten[c] = outbox[c] /\ outbox[c] \in Seq(Pieces) /\ Len(outbox[c]) \in Nat
  BY <1>1, StreamTypes
<1>4. CASE pc'[c] = "uart"
  <2>1. Unwritten'[c] = SubSeq(outbox[c], 1, n) \o SubSeq(outbox[c], n + 1, Len(outbox[c]))
    BY <1>1, <1>4 DEF Unwritten
  <2>2. /\ 1 \in 1 .. Len(outbox[c]) + 1 /\ n \in 1 - 1 .. Len(outbox[c])
        /\ Len(outbox[c]) \in n .. Len(outbox[c])
    BY <1>1, <1>3
  <2>3. Unwritten'[c] = SubSeq(outbox[c], 1, Len(outbox[c]))
    BY <1>3, <2>1, <2>2, ConcatAdjacentSubSeq
  <2>4. Unwritten'[c] = Unwritten[c]
    BY <1>3, <2>3, SubSeqFull
  <2> QED BY <1>1, <1>2, <2>4, OneQueue DEF Unwritten
<1>5. CASE pc'[c] = "chat"
  <2>1. Unwritten'[c] = SubSeq(Unwritten[c], n + 1, Len(Unwritten[c]))
    BY <1>1, <1>3, <1>5 DEF Unwritten
  <2>2. Unwritten' = [Unwritten EXCEPT ![c] = SubSeq(Unwritten[c], n + 1, Len(Unwritten[c]))]
    BY <1>2, <2>1, OneQueue
  <2> QED BY <1>1, <1>3, <2>2 DEF Device!PassOver
<1> QED BY <1>1, <1>4, <1>5

\* WriteFile() passes a command on, whole or cut, or passes it over.
LEMMA WriteQueue ==
  ASSUME OnceContext, NEW c \in Clients, WriteCommand(c)
  PROVE  (Device!PassOn(c) \/ Device!PassOver(c)) /\ UNCHANGED sent
<1>1. /\ UNCHANGED <<conn, outbox, said, sent>> /\ pc[c] = "uart" /\ pc'[c] = "chat"
      /\ \A e \in Clients \ {c} : pc'[e] = pc[e]
      /\ \/ UNCHANGED wire
         \/ \E w \in BOOLEAN : wire' = Append(wire, [from |-> c, text |-> said[c], whole |-> w])
  BY StreamTypes DEF WriteCommand, GoTo, netVars
<1>2. \A e \in Clients \ {c} : Unwritten'[e] = Unwritten[e]
  BY <1>1, QueueRest
<1>3. /\ said[c] \in Commands /\ outbox[c] \in Seq(Pieces)
      /\ said[c] \in Seq(Pieces) /\ said[c] # <<>>
      /\ Unwritten[c] = said[c] \o outbox[c]
  BY <1>1, StreamTypes, ConstantsAssumption
<1>4. Unwritten'[c] = outbox[c]
  BY <1>1 DEF Unwritten
<1> DEFINE k == Len(said[c])
<1>5. /\ k \in 1 .. Len(Unwritten[c])
      /\ SubSeq(Unwritten[c], 1, k) = said[c]
      /\ SubSeq(Unwritten[c], k + 1, Len(Unwritten[c])) = outbox[c]
  <2>1. /\ Len(said[c]) \in 1 .. Len(said[c] \o outbox[c])
        /\ SubSeq(said[c] \o outbox[c], 1, Len(said[c])) = said[c]
        /\ SubSeq(said[c] \o outbox[c], Len(said[c]) + 1, Len(said[c] \o outbox[c])) = outbox[c]
    BY <1>3, FrontAndRest
  <2> QED BY <1>3, <2>1
<1> HIDE DEF k
<1>6. Unwritten' = [Unwritten EXCEPT ![c] = SubSeq(Unwritten[c], k + 1, Len(Unwritten[c]))]
  BY <1>2, <1>4, <1>5, OneQueue
<1>7. CASE UNCHANGED wire
  BY <1>1, <1>5, <1>6, <1>7 DEF Device!PassOver
<1>8. ASSUME NEW w \in BOOLEAN, wire' = Append(wire, [from |-> c, text |-> said[c], whole |-> w])
      PROVE  Device!PassOn(c)
  <2>1. SubSeq(Unwritten[c], 1, k) \in Commands
    BY <1>3, <1>5
  <2>2. wire' = Append(wire, [from |-> c, text |-> SubSeq(Unwritten[c], 1, k), whole |-> w])
    BY <1>5, <1>8
  <2> QED BY <1>1, <1>5, <1>6, <2>1, <2>2 DEF Device!PassOn
<1> QED BY <1>1, <1>7, <1>8

\* The other steps leave what a client has not got through as it is.
LEMMA StreamStays ==
  ASSUME OnceContext, [Next]_vars, NEW c \in Clients,
         ~\E t \in Texts : Transmit(c, t), ~WriteCommand(c), ~ClientClose(c),
         ~\E k \in 1 .. MaxSent : RecvData(c, k)
  PROVE  /\ outbox'[c] = outbox[c]
         /\ pc'[c] = "uart" <=> pc[c] = "uart"
         /\ pc[c] = "uart" => said'[c] = said[c]
<1>1. /\ outbox \in [Clients -> Seq(Pieces)] /\ pc \in [Clients -> ThreadPC]
      /\ said \in [Clients -> Seq(Pieces)]
  BY StreamTypes
<1>2. CASE \E d \in Clients : ClientStep(d)
  BY <1>1, <1>2 DEF ClientStep, Connect, ClientSend, Transmit, Drain, ClientClose, netVars,
                    threadVars
<1>3. CASE AcceptStep
  BY <1>3 DEF AcceptStep, Accept, TakeConnection, threadVars
<1>4. CASE MainStep
  <2>1. CASE Spawn
    BY <1>1, <2>1, SharedTypes DEF Spawn, Placing, OnceContext, OwnerInv, OneThread, netVars
  <2>2. CASE ~Spawn
    BY <1>4, <2>2 DEF MainStep, Scan, ScanEnd, SendId, SendWelcome, Assign, SendFull,
       threadVars, netVars
  <2> QED BY <2>1, <2>2
<1>5. ASSUME NEW d \in Clients, ThreadStep(d)
      PROVE  /\ outbox'[c] = outbox[c]
             /\ pc'[c] = "uart" <=> pc[c] = "uart"
             /\ pc[c] = "uart" => said'[c] = said[c]
  <2>1. CASE d # c
    <3>1. CASE \E k \in 1 .. MaxSent : RecvData(d, k)
      BY <2>1, <3>1, RecvRest
    <3>2. CASE ~\E k \in 1 .. MaxSent : RecvData(d, k)
      BY <1>1, <1>5, <2>1, <3>2
      DEF ThreadStep, BroadcastJoin, BroadcastChat, BroadcastLeft, BroadcastStep, JoinEnd,
          LeftEnd, BroadcastEnd, CallRecv, RecvEnd, WriteCommand, ChatEnd, GoTo,
          CloseSocket, CloseSocketAgain, FreeSlot, Detach, netVars
    <3> QED BY <3>1, <3>2
  <2>2. CASE d = c
    BY <1>1, <1>5, <2>2
    DEF ThreadStep, BroadcastJoin, BroadcastChat, BroadcastLeft, BroadcastStep, JoinEnd,
        LeftEnd, BroadcastEnd, CallRecv, RecvEnd, ChatEnd, GoTo,
        CloseSocket, CloseSocketAgain, FreeSlot, Detach, netVars
  <2> QED BY <2>1, <2>2
<1>6. CASE OpenPort \/ SetUpPort \/ UNCHANGED vars
  BY <1>6 DEF OpenPort, SetUpPort, vars, netVars, threadVars
<1> QED BY <1>2, <1>3, <1>4, <1>5, <1>6 DEF Next

\* Whatever else is done is nothing to the queues.
LEMMA QueuesRest ==
  ASSUME OnceContext, [Next]_vars,
         ~\E c \in Clients, t \in Texts : Transmit(c, t),
         ~\E c \in Clients : WriteCommand(c) \/ ClientClose(c),
         ~\E c \in Clients, k \in 1 .. MaxSent : RecvData(c, k)
  PROVE  UNCHANGED <<Device!queueVars, sent>>
<1>1. \A c \in Clients : Unwritten'[c] = Unwritten[c]
  BY StreamStays, QueueRest
<1>2. Unwritten' = Unwritten
  BY <1>1 DEF Unwritten
<1>3. UNCHANGED <<wire, sent>>
  <2>1. CASE \E c \in Clients : ClientStep(c)
    BY <2>1 DEF ClientStep, Connect, ClientSend, Drain, uartVars, netVars
  <2>2. CASE AcceptStep \/ MainStep
    BY <2>2
    DEF AcceptStep, Accept, TakeConnection, MainStep, Scan, ScanEnd, SendId, SendWelcome,
        Spawn, Assign, SendFull, uartVars, netVars
  <2>3. CASE \E c \in Clients : ThreadStep(c)
    BY <2>3
    DEF ThreadStep, BroadcastJoin, BroadcastChat, BroadcastLeft, BroadcastStep, JoinEnd,
        LeftEnd, BroadcastEnd, CallRecv, RecvEnd, ChatEnd, CloseSocket, CloseSocketAgain,
        FreeSlot, Detach, uartVars, netVars
  <2>4. CASE OpenPort \/ SetUpPort \/ UNCHANGED vars
    BY <2>4 DEF OpenPort, SetUpPort, vars, uartVars, netVars
  <2> QED BY <2>1, <2>2, <2>3, <2>4 DEF Next
<1>4. {c \in Clients : conn'[c] = "closed"} = {c \in Clients : conn[c] = "closed"}
  <2>1. CASE \E c \in Clients : ClientStep(c)
    BY <2>1, StreamTypes DEF ClientStep, ClientSend, Connect, Drain, netVars
  <2>2. ASSUME NEW c \in Clients, ThreadStep(c) PROVE UNCHANGED conn
    BY <2>2, ThreadFrame DEF OnceContext
  <2>3. CASE AcceptStep \/ MainStep \/ OpenPort \/ SetUpPort \/ UNCHANGED vars
    BY <2>3
    DEF AcceptStep, Accept, TakeConnection, MainStep, Scan, ScanEnd, SendId, SendWelcome,
        Spawn, Assign, SendFull, OpenPort, SetUpPort, vars, netVars
  <2> QED BY <2>1, <2>2, <2>3 DEF Next
<1> QED BY <1>2, <1>3, <1>4 DEF Device!queueVars

\* What a step of the server is to the queues and to what was sent.
LEMMA QueueCases ==
  ASSUME OnceContext, [Next]_vars
  PROVE  \/ \E c \in Clients, t \in Texts :
              Device!Put(c, t) /\ sent' = [sent EXCEPT ![c] = @ \o t]
         \/ /\ \E c \in Clients : Device!PassOn(c) \/ Device!PassOver(c) \/ Device!Leave(c)
            /\ UNCHANGED sent
         \/ UNCHANGED <<Device!queueVars, sent>>
<1>1. CASE \E c \in Clients, t \in Texts : Transmit(c, t)
  BY <1>1, PutQueue
<1>2. CASE \E c \in Clients : WriteCommand(c)
  BY <1>2, WriteQueue
<1>3. CASE \E c \in Clients : ClientClose(c)
  BY <1>3, LeaveQueue
<1>4. CASE \E c \in Clients, k \in 1 .. MaxSent : RecvData(c, k)
  <2>1. PICK c \in Clients, k \in 1 .. MaxSent : RecvData(c, k)
    BY <1>4
  <2>2. CASE UNCHANGED <<Unwritten, sent, wire, conn>>
    BY <2>2 DEF Device!queueVars
  <2>3. CASE Device!PassOver(c) /\ UNCHANGED sent
    BY <2>3
  <2> QED BY <2>1, <2>2, <2>3, RecvQueue
<1> QED BY <1>1, <1>2, <1>3, <1>4, QueuesRest

\* If accept() gives out no value that a slot still holds, the server's threads
\* and its port implement CommandQueues, for every number of clients, slots and
\* pieces and however recv() cuts and joins what they send: on the way from
\* recv() to WriteFile() (main.cpp:117-171) commands are passed on, one per step
\* and in their client's order, and only a client that leaves loses the end of
\* what it has sent.
THEOREM ServerIsQueues ==
  ASSUME ~ReuseWhileHeld PROVE Spec => ImplementsCommandQueues
<1>1. Init => Device!QueueInit
  <2> SUFFICES ASSUME Init PROVE Device!QueueInit
    OBVIOUS
  <2>1. Unwritten = [c \in Clients |-> <<>>]
    BY DEF Init, Unwritten
  <2> QED BY <2>1 DEF Init, Device!QueueInit
<1>2. OnceContext /\ [Next]_vars => [Device!QueueNext]_(Device!queueVars)
  BY QueueCases DEF Device!QueueNext
<1> QED
  BY <1>1, <1>2, OnceInvariant, PTL DEF Spec, ImplementsCommandQueues, Device!QueueSpec

-------------------------------------------------------------------------------
(* The order of the commands on the serial line. *)

\* q is the stretch of s that starts behind its first n elements.
IsStretch(s, n, q) == n + Len(q) <= Len(s) /\ \A i \in 1 .. Len(q) : q[i] = s[n + i]

\* f gives for every command on the line a stretch of what its sender sent, and
\* for its next one a stretch behind it.
Origins(f) ==
  /\ \A i \in DOMAIN wire : IsStretch(sent[wire[i].from], f[i], wire[i].text)
  /\ \A i, j \in DOMAIN wire : i < j /\ wire[i].from = wire[j].from => EndOf(f, i) <= f[j]

\* What is left of the stream of c is its stretch behind g[c], up to the end
\* while the client is there, and behind all of its commands on the line.
Remains(f, g, c) ==
  /\ IsStretch(sent[c], g[c], Unwritten[c])
  /\ conn[c] # "closed" => g[c] + Len(Unwritten[c]) = Len(sent[c])
  /\ \A i \in DOMAIN wire : wire[i].from = c => EndOf(f, i) <= g[c]

\* WireOrder made inductive.
OriginInv ==
  \E f \in [DOMAIN wire -> Nat], g \in [Clients -> Nat] :
    Origins(f) /\ \A c \in Clients : Remains(f, g, c)

LEMMA StretchIs ==
  ASSUME NEW s \in Seq(Pieces), NEW q \in Seq(Pieces), NEW n \in Nat, IsStretch(s, n, q)
  PROVE  q = SubSeq(s, n + 1, n + Len(q)) /\ n \in 0 .. Len(s)
<1>1. Len(q) \in Nat /\ Len(s) \in Nat
  BY LenProperties
<1>2. n + Len(q) <= Len(s) /\ \A i \in 1 .. Len(q) : q[i] = s[n + i]
  BY DEF IsStretch
<1>3. n + 1 \in Int /\ n + Len(q) \in Int /\ \A i \in n + 1 .. n + Len(q) : s[i] \in Pieces
  BY <1>1, <1>2
<1>4. /\ SubSeq(s, n + 1, n + Len(q)) \in Seq(Pieces)
      /\ Len(SubSeq(s, n + 1, n + Len(q)))
           = IF n + 1 <= n + Len(q) THEN n + Len(q) - (n + 1) + 1 ELSE 0
      /\ \A i \in 1 .. n + Len(q) - (n + 1) + 1 :
           SubSeq(s, n + 1, n + Len(q))[i] = s[n + 1 + i - 1]
  BY <1>3, SubSeqProperties
<1>5. /\ Len(SubSeq(s, n + 1, n + Len(q))) = Len(q)
      /\ n + Len(q) - (n + 1) + 1 = Len(q)
      /\ \A i \in 1 .. Len(q) : n + 1 + i - 1 = n + i
  BY <1>1, <1>4
<1>6. \A i \in 1 .. Len(q) : q[i] = SubSeq(s, n + 1, n + Len(q))[i]
  BY <1>2, <1>4, <1>5
<1>7. n \in 0 .. Len(s)
  BY <1>1, <1>2
<1> QED BY <1>4, <1>5, <1>6, <1>7, SeqEqual

\* A stretch stays one when its sequence grows.
LEMMA StretchKept ==
  ASSUME NEW s \in Seq(Pieces), NEW q \in Seq(Pieces), NEW t \in Seq(Pieces), NEW n \in Nat,
         IsStretch(s, n, q)
  PROVE  IsStretch(s \o t, n, q)
<1>1. Len(q) \in Nat /\ Len(s) \in Nat /\ Len(t) \in Nat
  BY LenProperties
<1>2. /\ Len(s \o t) = Len(s) + Len(t)
      /\ \A i \in 1 .. Len(s) : (s \o t)[i] = s[i]
  BY <1>1, ConcatProperties
<1>3. \A i \in 1 .. Len(q) : n + i \in 1 .. Len(s)
  BY <1>1 DEF IsStretch
<1> QED BY <1>1, <1>2, <1>3 DEF IsStretch

\* A stretch up to the end grows with its sequence.
LEMMA StretchGrows ==
  ASSUME NEW s \in Seq(Pieces), NEW q \in Seq(Pieces), NEW t \in Seq(Pieces), NEW n \in Nat,
         IsStretch(s, n, q), n + Len(q) = Len(s)
  PROVE  IsStretch(s \o t, n, q \o t) /\ n + Len(q \o t) = Len(s \o t)
<1>1. Len(q) \in Nat /\ Len(s) \in Nat /\ Len(t) \in Nat
  BY LenProperties
<1>2. /\ Len(s \o t) = Len(s) + Len(t) /\ Len(q \o t) = Len(q) + Len(t)
      /\ \A i \in 1 .. Len(s) + Len(t) :
           (s \o t)[i] = IF i <= Len(s) THEN s[i] ELSE t[i - Len(s)]
      /\ \A i \in 1 .. Len(q) + Len(t) :
           (q \o t)[i] = IF i <= Len(q) THEN q[i] ELSE t[i - Len(q)]
  BY ConcatProperties
<1>3. n + Len(q \o t) = Len(s \o t)
  <2>1. n + (Len(q) + Len(t)) = Len(s) + Len(t)
    BY <1>1
  <2> QED BY <1>2, <2>1
<1>4. ASSUME NEW i \in 1 .. Len(q) + Len(t) PROVE (q \o t)[i] = (s \o t)[n + i]
  <2>1. n + i \in 1 .. Len(s) + Len(t) /\ (i <= Len(q) <=> n + i <= Len(s))
    BY <1>1
  <2>2. CASE i <= Len(q)
    BY <1>1, <1>2, <2>1, <2>2 DEF IsStretch
  <2>3. CASE ~(i <= Len(q))
    <3>1. i - Len(q) = n + i - Len(s)
      BY <1>1
    <3> QED BY <1>2, <2>1, <2>3, <3>1
  <2> QED BY <2>2, <2>3
<1> QED BY <1>1, <1>2, <1>3, <1>4 DEF IsStretch

\* What is cut off a stretch, at its front or at its end, are stretches.
LEMMA StretchCut ==
  ASSUME NEW s \in Seq(Pieces), NEW q \in Seq(Pieces), NEW n \in Nat, IsStretch(s, n, q),
         NEW k \in 0 .. Len(q)
  PROVE  /\ IsStretch(s, n, SubSeq(q, 1, k)) /\ Len(SubSeq(q, 1, k)) = k
         /\ IsStretch(s, n + k, SubSeq(q, k + 1, Len(q)))
         /\ Len(SubSeq(q, k + 1, Len(q))) = Len(q) - k
<1>1. Len(q) \in Nat /\ Len(s) \in Nat
  BY LenProperties
<1>2. /\ \A i \in 1 .. k : q[i] \in Pieces
      /\ \A i \in k + 1 .. Len(q) : q[i] \in Pieces
  BY <1>1
<1>3. /\ Len(SubSeq(q, 1, k)) = IF 1 <= k THEN k - 1 + 1 ELSE 0
      /\ \A i \in 1 .. k - 1 + 1 : SubSeq(q, 1, k)[i] = q[1 + i - 1]
  BY <1>2, SubSeqProperties
<1>4. /\ Len(SubSeq(q, k + 1, Len(q))) = IF k + 1 <= Len(q) THEN Len(q) - (k + 1) + 1 ELSE 0
      /\ \A i \in 1 .. Len(q) - (k + 1) + 1 : SubSeq(q, k + 1, Len(q))[i] = q[k + 1 + i - 1]
  BY <1>1, <1>2, SubSeqProperties
<1>5. Len(SubSeq(q, 1, k)) = k /\ \A i \in 1 .. k : SubSeq(q, 1, k)[i] = q[i]
  BY <1>3
<1>6. /\ Len(SubSeq(q, k + 1, Len(q))) = Len(q) - k
      /\ \A i \in 1 .. Len(q) - k : SubSeq(q, k + 1, Len(q))[i] = q[k + i]
  <2>1. Len(q) - (k + 1) + 1 = Len(q) - k /\ \A i \in 1 .. Len(q) - k : k + 1 + i - 1 = k + i
    BY <1>1
  <2> QED BY <1>1, <1>4, <2>1
<1>7. IsStretch(s, n, SubSeq(q, 1, k))
  BY <1>1, <1>5 DEF IsStretch
<1>8. IsStretch(s, n + k, SubSeq(q, k + 1, Len(q)))
  <2>1. n + k + (Len(q) - k) <= Len(s)
    BY <1>1 DEF IsStretch
  <2>2. ASSUME NEW i \in 1 .. Len(q) - k PROVE q[k + i] = s[n + k + i]
    <3>1. k + i \in 1 .. Len(q) /\ n + (k + i) = n + k + i
      BY <1>1
    <3> QED BY <3>1 DEF IsStretch
  <2> QED BY <1>6, <2>1, <2>2 DEF IsStretch
<1> QED BY <1>5, <1>6, <1>7, <1>8

LEMMA LineType ==
  ASSUME OnceContext, NEW i \in DOMAIN wire
  PROVE  /\ wire[i].from \in Clients /\ wire[i].text \in Seq(Pieces)
         /\ Len(wire[i].text) \in Nat
<1>1. wire \in Seq([from : Clients, text : Commands, whole : BOOLEAN])
  BY DEF OnceContext, OwnerInv, TypeInv, TypeOK, SharedTypeOK
<1>2. wire[i].from \in Clients /\ wire[i].text \in Commands
  <2>1. i \in 1 .. Len(wire)
    BY <1>1, LenProperties
  <2>2. wire[i] \in [from : Clients, text : Commands, whole : BOOLEAN]
    BY <1>1, <2>1, ElementOfSeq
  <2> QED BY <2>2
<1>3. wire[i].text \in Seq(Pieces)
  BY <1>2, ConstantsAssumption
<1> QED BY <1>2, <1>3, LenProperties

\* A client sends: nothing moves, its stream grows at its end.
LEMMA PutOrigins ==
  ASSUME OnceContext, OriginInv, NEW c \in Clients, NEW t \in Texts,
         Device!Put(c, t), sent' = [sent EXCEPT ![c] = @ \o t]
  PROVE  OriginInv'
<1>1. PICK f \in [DOMAIN wire -> Nat], g \in [Clients -> Nat] :
        Origins(f) /\ \A d \in Clients : Remains(f, g, d)
  BY DEF OriginInv
<1>2. /\ UNCHANGED wire /\ conn[c] # "closed"
      /\ \A d \in Clients : conn'[d] # "closed" => conn[d] # "closed"
      /\ Unwritten'[c] = Unwritten[c] \o t /\ sent'[c] = sent[c] \o t
      /\ \A d \in Clients \ {c} : Unwritten'[d] = Unwritten[d] /\ sent'[d] = sent[d]
  <2>1. /\ UNCHANGED <<wire, {d \in Clients : conn[d] = "closed"}>>
        /\ c \notin {d \in Clients : conn[d] = "closed"}
        /\ Unwritten' = [Unwritten EXCEPT ![c] = @ \o t]
    BY DEF Device!Put
  <2> QED BY <2>1, StreamTypes DEF Unwritten
<1>3. t \in Seq(Pieces)
  BY ConstantsAssumption
<1>4. Origins(f)'
  <2>1. ASSUME NEW i \in DOMAIN wire
        PROVE  IsStretch(sent'[wire[i].from], f[i], wire[i].text)
    <3>1. IsStretch(sent[wire[i].from], f[i], wire[i].text) /\ f[i] \in Nat
      BY <1>1 DEF Origins
    <3> QED BY <1>2, <1>3, <3>1, LineType, StreamTypes, StretchKept
  <2> QED BY <1>1, <1>2, <2>1 DEF Origins, EndOf
<1>5. ASSUME NEW d \in Clients PROVE Remains(f, g, d)'
  <2>1. Remains(f, g, d) /\ g[d] \in Nat
    BY <1>1
  <2>2. CASE d = c
    <3>1. /\ IsStretch(sent'[c], g[c], Unwritten'[c])
          /\ g[c] + Len(Unwritten'[c]) = Len(sent'[c])
      <4>1. /\ IsStretch(sent[c], g[c], Unwritten[c])
            /\ g[c] + Len(Unwritten[c]) = Len(sent[c])
        BY <1>2, <2>1, <2>2 DEF Remains
      <4>2. /\ IsStretch(sent[c] \o t, g[c], Unwritten[c] \o t)
            /\ g[c] + Len(Unwritten[c] \o t) = Len(sent[c] \o t)
        <5>1. sent[c] \in Seq(Pieces) /\ Unwritten[c] \in Seq(Pieces) /\ g[c] \in Nat
          BY <2>1, <2>2, StreamTypes
        <5> QED BY <1>3, <4>1, <5>1, StretchGrows
      <4> QED BY <1>2, <4>2
    <3> QED BY <1>2, <2>1, <2>2, <3>1 DEF Remains, EndOf
  <2>3. CASE d # c
    BY <1>2, <2>1, <2>3 DEF Remains, EndOf
  <2> QED BY <2>2, <2>3
<1> QED BY <1>2, <1>4, <1>5 DEF OriginInv

\* The front of a stream is taken away, or its end.
LEMMA CutOrigins ==
  ASSUME OnceContext, OriginInv, UNCHANGED sent, NEW c \in Clients,
         Device!PassOver(c) \/ Device!Leave(c)
  PROVE  OriginInv'
<1>1. PICK f \in [DOMAIN wire -> Nat], g \in [Clients -> Nat] :
        Origins(f) /\ \A d \in Clients : Remains(f, g, d)
  BY DEF OriginInv
<1>2. UNCHANGED wire /\ Origins(f)'
  BY <1>1 DEF Device!PassOver, Device!Leave, Origins, EndOf
<1>3. Remains(f, g, c) /\ g[c] \in Nat /\ Unwritten[c] \in Seq(Pieces) /\ sent[c] \in Seq(Pieces)
      /\ Len(Unwritten[c]) \in Nat
  BY <1>1, StreamTypes, LenProperties
<1>4. CASE Device!PassOver(c)
  <2>1. PICK k \in 1 .. Len(Unwritten[c]) :
          Unwritten' = [Unwritten EXCEPT ![c] = SubSeq(Unwritten[c], k + 1, Len(Unwritten[c]))]
    BY <1>4 DEF Device!PassOver
  <2>2. /\ Unwritten'[c] = SubSeq(Unwritten[c], k + 1, Len(Unwritten[c]))
        /\ \A d \in Clients \ {c} : Unwritten'[d] = Unwritten[d]
    BY <2>1 DEF Unwritten
  <2>3. \A d \in Clients : conn'[d] # "closed" => conn[d] # "closed"
    <3>1. UNCHANGED {d \in Clients : conn[d] = "closed"}
      BY <1>4 DEF Device!PassOver
    <3> QED BY <3>1
  <2> DEFINE h == [g EXCEPT ![c] = g[c] + k]
  <2>4. h \in [Clients -> Nat] /\ h[c] = g[c] + k /\ \A d \in Clients \ {c} : h[d] = g[d]
    BY <1>3
  <2> HIDE DEF h
  <2>5. k \in 0 .. Len(Unwritten[c])
    BY <1>3
  <2>6. /\ IsStretch(sent[c], h[c], Unwritten'[c])
        /\ h[c] + Len(Unwritten'[c]) = g[c] + Len(Unwritten[c])
    <3>1. /\ IsStretch(sent[c], g[c] + k, Unwritten'[c])
          /\ Len(Unwritten'[c]) = Len(Unwritten[c]) - k
      BY <1>3, <2>2, <2>5, StretchCut DEF Remains
    <3> QED BY <1>3, <2>4, <3>1
  <2>7. ASSUME NEW i \in DOMAIN wire, wire[i].from = c PROVE EndOf(f, i) <= h[c]
    <3>1. EndOf(f, i) <= g[c] /\ f[i] \in Nat /\ Len(wire[i].text) \in Nat
      BY <1>1, <1>3, <2>7, LineType DEF Remains
    <3> QED BY <1>3, <2>4, <3>1 DEF EndOf
  <2>8. Remains(f, h, c)'
    BY <1>2, <1>3, <2>3, <2>6, <2>7 DEF Remains, EndOf
  <2>9. \A d \in Clients \ {c} : Remains(f, h, d)'
    BY <1>1, <1>2, <2>2, <2>3, <2>4 DEF Remains, EndOf
  <2> QED BY <1>2, <2>4, <2>8, <2>9 DEF OriginInv
<1>5. CASE Device!Leave(c)
  <2>1. PICK k \in 0 .. Len(Unwritten[c]) :
          Unwritten' = [Unwritten EXCEPT ![c] = SubSeq(Unwritten[c], 1, k)]
    BY <1>5 DEF Device!Leave
  <2>2. /\ Unwritten'[c] = SubSeq(Unwritten[c], 1, k)
        /\ \A d \in Clients \ {c} : Unwritten'[d] = Unwritten[d]
    BY <2>1 DEF Unwritten
  <2>3. conn'[c] = "closed" /\ \A d \in Clients : conn'[d] # "closed" => conn[d] # "closed"
    <3>1. {d \in Clients : conn'[d] = "closed"} = {d \in Clients : conn[d] = "closed"} \cup {c}
      BY <1>5 DEF Device!Leave
    <3> QED BY <3>1
  <2>4. IsStretch(sent[c], g[c], Unwritten'[c])
    BY <1>3, <2>2, StretchCut DEF Remains
  <2>5. Remains(f, g, c)'
    BY <1>2, <1>3, <2>3, <2>4 DEF Remains, EndOf
  <2>6. \A d \in Clients \ {c} : Remains(f, g, d)'
    BY <1>1, <1>2, <2>2, <2>3 DEF Remains, EndOf
  <2> QED BY <1>1, <1>2, <2>5, <2>6 DEF OriginInv
<1> QED BY <1>4, <1>5

\* A command goes from the front of a stream to the line.
LEMMA WrittenOrigins ==
  ASSUME OnceContext, OriginInv, UNCHANGED sent, NEW c \in Clients, Device!PassOn(c)
  PROVE  OriginInv'
<1>1. PICK f \in [DOMAIN wire -> Nat], g \in [Clients -> Nat] :
        Origins(f) /\ \A d \in Clients : Remains(f, g, d)
  BY DEF OriginInv
<1>2. PICK k \in 1 .. Len(Unwritten[c]), w \in BOOLEAN :
        /\ SubSeq(Unwritten[c], 1, k) \in Commands
        /\ wire' = Append(wire, [from |-> c, text |-> SubSeq(Unwritten[c], 1, k), whole |-> w])
        /\ Unwritten' = [Unwritten EXCEPT ![c] = SubSeq(Unwritten[c], k + 1, Len(Unwritten[c]))]
        /\ UNCHANGED {d \in Clients : conn[d] = "closed"}
  BY DEF Device!PassOn
<1>3. /\ Unwritten'[c] = SubSeq(Unwritten[c], k + 1, Len(Unwritten[c]))
      /\ \A d \in Clients \ {c} : Unwritten'[d] = Unwritten[d]
      /\ \A d \in Clients : conn'[d] # "closed" => conn[d] # "closed"
  BY <1>2 DEF Unwritten
<1>4. Remains(f, g, c) /\ g[c] \in Nat /\ Unwritten[c] \in Seq(Pieces) /\ sent[c] \in Seq(Pieces)
      /\ Len(Unwritten[c]) \in Nat
  BY <1>1, StreamTypes, LenProperties
<1> DEFINE order == SubSeq(Unwritten[c], 1, k)
<1>5a. PICK n \in Nat : n = Len(wire) + 1
  <2>1. Len(wire) \in Nat
    BY LenProperties DEF OnceContext, OwnerInv, TypeInv, TypeOK, SharedTypeOK
  <2> QED BY <2>1
<1>5. /\ IsStretch(sent[c], g[c], order) /\ Len(order) = k
      /\ IsStretch(sent[c], g[c] + k, Unwritten'[c])
      /\ Len(Unwritten'[c]) = Len(Unwritten[c]) - k
  <2>1. k \in 0 .. Len(Unwritten[c])
    BY <1>4
  <2> QED BY <1>3, <1>4, <2>1, StretchCut DEF Remains
<1>6. /\ Len(wire) \in Nat /\ DOMAIN wire = 1 .. Len(wire) /\ DOMAIN wire' = 1 .. n
      /\ \A i \in DOMAIN wire : wire'[i] = wire[i]
      /\ wire'[n].from = c /\ wire'[n].text = order
  <2> DEFINE m == [from |-> c, text |-> order, whole |-> w]
  <2>1. wire \in Seq([from : Clients, text : Commands, whole : BOOLEAN])
    BY DEF OnceContext, OwnerInv, TypeInv, TypeOK, SharedTypeOK
  <2>2. m \in [from : Clients, text : Commands, whole : BOOLEAN] /\ m.from = c /\ m.text = order
    BY <1>2
  <2>3. wire' = Append(wire, m)
    BY <1>2
  <2> HIDE DEF m, order
  <2>4. Len(wire) \in Nat /\ DOMAIN wire = 1 .. Len(wire)
    BY <2>1
  <2>5. /\ Append(wire, m) \in Seq([from : Clients, text : Commands, whole : BOOLEAN])
        /\ Len(Append(wire, m)) = n
        /\ \A i \in 1 .. Len(wire) : Append(wire, m)[i] = wire[i]
        /\ Append(wire, m)[n] = m
    BY <1>5a, <2>1, <2>2, AppendProperties
  <2>6. DOMAIN wire' = 1 .. n
    BY <2>3, <2>5, LenProperties
  <2> QED BY <2>2, <2>3, <2>4, <2>5, <2>6
<1> HIDE DEF order
<1>7. PICK f1 \in [1 .. n -> Nat], g1 \in [Clients -> Nat] :
        /\ f1[n] = g[c] /\ \A i \in DOMAIN wire : f1[i] = f[i]
        /\ g1[c] = g[c] + k /\ \A d \in Clients \ {c} : g1[d] = g[d]
  <2> DEFINE f2 == [i \in 1 .. n |-> IF i \in DOMAIN wire THEN f[i] ELSE g[c]]
             g2 == [g EXCEPT ![c] = g[c] + k]
  <2>1. n \in 1 .. n /\ n \notin DOMAIN wire /\ DOMAIN wire \subseteq 1 .. n
    BY <1>6, <1>5a
  <2>2. f2 \in [1 .. n -> Nat] /\ f2[n] = g[c] /\ \A i \in DOMAIN wire : f2[i] = f[i]
    BY <1>4, <2>1
  <2>3. g2 \in [Clients -> Nat] /\ g2[c] = g[c] + k /\ \A d \in Clients \ {c} : g2[d] = g[d]
    BY <1>4
  <2> QED BY <2>2, <2>3
<1>8. /\ \A i \in DOMAIN wire : EndOf(f1, i)' = EndOf(f, i) /\ EndOf(f, i) \in Nat
      /\ EndOf(f1, n)' = g[c] + k
      /\ \A i \in 1 .. n : i \in DOMAIN wire \/ i = n
      /\ n \notin DOMAIN wire
  <2>1. \A i \in DOMAIN wire : EndOf(f1, i)' = EndOf(f, i)
    BY <1>6, <1>7 DEF EndOf
  <2>2. \A i \in DOMAIN wire : EndOf(f, i) \in Nat
    BY LineType DEF EndOf
  <2>3. EndOf(f1, n)' = g[c] + k
    BY <1>5, <1>6, <1>7 DEF EndOf
  <2> QED BY <1>6, <1>5a, <2>1, <2>2, <2>3
<1>9. Origins(f1)'
  <2>1. ASSUME NEW i \in 1 .. n PROVE IsStretch(sent'[wire'[i].from], f1[i], wire'[i].text)
    <3>1. CASE i = n
      BY <1>5, <1>6, <1>7, <3>1
    <3>2. CASE i \in DOMAIN wire
      BY <1>1, <1>6, <1>7, <3>2 DEF Origins
    <3> QED BY <1>8, <3>1, <3>2
  <2>2. ASSUME NEW i \in 1 .. n, NEW j \in 1 .. n, i < j, wire'[i].from = wire'[j].from
        PROVE  EndOf(f1, i)' <= f1[j]
    <3>1. i \in DOMAIN wire
      BY <1>5a, <1>6, <2>2
    <3>2. CASE j = n
      <4>1. wire[i].from = c
        BY <1>6, <2>2, <3>1, <3>2
      <4>2. EndOf(f, i) <= g[c]
        BY <1>4, <3>1, <4>1 DEF Remains
      <4> QED BY <1>7, <1>8, <3>1, <3>2, <4>2
    <3>3. CASE j \in DOMAIN wire
      <4>1. wire[i].from = wire[j].from
        BY <1>6, <2>2, <3>1, <3>3
      <4>2. EndOf(f, i) <= f[j]
        BY <1>1, <2>2, <3>1, <3>3, <4>1 DEF Origins
      <4> QED BY <1>7, <1>8, <3>1, <3>3, <4>2
    <3> QED BY <1>8, <3>2, <3>3
  <2> QED BY <1>6, <2>1, <2>2 DEF Origins
<1>10. Remains(f1, g1, c)'
  <2>1. g1[c] + Len(Unwritten'[c]) = g[c] + Len(Unwritten[c])
    BY <1>4, <1>5, <1>7
  <2>2. ASSUME NEW i \in 1 .. n, wire'[i].from = c PROVE EndOf(f1, i)' <= g1[c]
    <3>1. CASE i = n
      BY <1>4, <1>7, <1>8, <3>1
    <3>2. CASE i \in DOMAIN wire
      <4>1. EndOf(f, i) <= g[c]
        BY <1>4, <1>6, <2>2, <3>2 DEF Remains
      <4> QED BY <1>4, <1>7, <1>8, <3>2, <4>1
    <3> QED BY <1>8, <3>1, <3>2
  <2> QED BY <1>3, <1>4, <1>5, <1>6, <1>7, <2>1, <2>2 DEF Remains
<1>11. ASSUME NEW d \in Clients, d # c PROVE Remains(f1, g1, d)'
  <2>1. Remains(f, g, d)
    BY <1>1
  <2>2. ASSUME NEW i \in 1 .. n, wire'[i].from = d PROVE EndOf(f1, i)' <= g1[d]
    <3>1. i \in DOMAIN wire
      BY <1>6, <1>8, <1>11, <2>2
    <3> QED BY <1>6, <1>7, <1>8, <1>11, <2>1, <2>2, <3>1 DEF Remains
  <2> QED BY <1>3, <1>6, <1>7, <1>11, <2>1, <2>2 DEF Remains
<1>12. f1 \in [DOMAIN wire' -> Nat] /\ g1 \in [Clients -> Nat]
  BY <1>6
<1> QED BY <1>9, <1>10, <1>11, <1>12 DEF OriginInv

LEMMA OriginStarts == Init => OriginInv
<1> SUFFICES ASSUME Init PROVE OriginInv
  OBVIOUS
<1>1. DOMAIN wire = {} /\ Len(<<>>) = 0
  BY DEF Init
<1>2. \A c \in Clients : sent[c] = <<>> /\ Unwritten[c] = <<>>
  BY DEF Init, Unwritten
<1> DEFINE f == [i \in DOMAIN wire |-> 0]
           g == [c \in Clients |-> 0]
<1>3. f \in [DOMAIN wire -> Nat] /\ g \in [Clients -> Nat] /\ \A c \in Clients : g[c] = 0
  OBVIOUS
<1> HIDE DEF f, g
<1>4. Origins(f)
  BY <1>1 DEF Origins
<1>5. ASSUME NEW c \in Clients PROVE Remains(f, g, c)
  <2>1. IsStretch(sent[c], g[c], Unwritten[c]) /\ g[c] + Len(Unwritten[c]) = Len(sent[c])
    BY <1>1, <1>2, <1>3 DEF IsStretch
  <2> QED BY <1>1, <2>1 DEF Remains
<1> QED BY <1>3, <1>4, <1>5 DEF OriginInv

LEMMA OriginStep == OnceContext /\ OriginInv /\ [Next]_vars => OriginInv'
<1> SUFFICES ASSUME OnceContext, OriginInv, [Next]_vars PROVE OriginInv'
  OBVIOUS
<1>1. CASE \E c \in Clients, t \in Texts :
             Device!Put(c, t) /\ sent' = [sent EXCEPT ![c] = @ \o t]
  BY <1>1, PutOrigins
<1>2. CASE /\ \E c \in Clients : Device!PassOn(c) \/ Device!PassOver(c) \/ Device!Leave(c)
           /\ UNCHANGED sent
  BY <1>2, CutOrigins, WrittenOrigins
<1>3. CASE UNCHANGED <<Device!queueVars, sent>>
  <2>1. /\ UNCHANGED <<Unwritten, wire, sent>>
        /\ \A c \in Clients : conn'[c] # "closed" => conn[c] # "closed"
    <3>1. UNCHANGED <<Unwritten, wire, sent, {c \in Clients : conn[c] = "closed"}>>
      BY <1>3 DEF Device!queueVars
    <3> QED BY <3>1
  <2>2. PICK f \in [DOMAIN wire -> Nat], g \in [Clients -> Nat] :
          Origins(f) /\ \A c \in Clients : Remains(f, g, c)
    BY DEF OriginInv
  <2>3. Origins(f)' /\ \A c \in Clients : Remains(f, g, c)'
    BY <2>1, <2>2 DEF Origins, Remains, EndOf
  <2> QED BY <2>1, <2>2, <2>3 DEF OriginInv
<1> QED BY <1>1, <1>2, <1>3, QueueCases

\* WireOrder holds in every state if accept() gives out no value that a slot
\* still holds, for every number of clients, slots and pieces: what recv() takes
\* from a stream and WriteFile() writes (main.cpp:117,126-171) is a stretch of
\* what the client of that slot sent, in its order and once, although other
\* threads write between the two and recv() may cut and join texts anywhere.
THEOREM WireKeepsOrder ==
  ASSUME ~ReuseWhileHeld PROVE Spec => []WireOrder
<1>1. OnceContext /\ OriginInv => WireOrder
  <2> SUFFICES ASSUME OnceContext, OriginInv
               PROVE  \E f \in [DOMAIN wire -> UNION {0 .. Len(sent[c]) : c \in Clients}] :
                        IsOrigin(f)
    BY DEF WireOrder
  <2>1. PICK f \in [DOMAIN wire -> Nat] : Origins(f)
    BY DEF OriginInv
  <2>2. ASSUME NEW i \in DOMAIN wire
        PROVE  /\ wire[i].text = SubSeq(sent[wire[i].from], f[i] + 1, EndOf(f, i))
               /\ EndOf(f, i) <= Len(sent[wire[i].from])
               /\ f[i] \in 0 .. Len(sent[wire[i].from])
    <3>1. /\ IsStretch(sent[wire[i].from], f[i], wire[i].text) /\ f[i] \in Nat
          /\ wire[i].from \in Clients
          /\ sent[wire[i].from] \in Seq(Pieces) /\ wire[i].text \in Seq(Pieces)
      BY <2>1, LineType, StreamTypes DEF Origins
    <3>2. EndOf(f, i) <= Len(sent[wire[i].from])
      BY <3>1 DEF IsStretch, EndOf
    <3> QED BY <3>1, <3>2, StretchIs DEF EndOf
  <2>3. f \in [DOMAIN wire -> UNION {0 .. Len(sent[c]) : c \in Clients}]
    <3>1. ASSUME NEW i \in DOMAIN wire
          PROVE  f[i] \in UNION {0 .. Len(sent[c]) : c \in Clients}
      BY <2>2, LineType
    <3> QED BY <2>1, <3>1
  <2>4. IsOrigin(f)
    BY <2>1, <2>2 DEF IsOrigin, Origins
  <2> QED BY <2>3, <2>4
<1> QED BY <1>1, OnceInvariant, OriginStarts, OriginStep, PTL DEF Spec

-------------------------------------------------------------------------------
(* Who is said to have left.                                               *)

\* A thread is out of its loop only when its client has gone, and nobody has
\* heard that of another client.
LeaverInv ==
  /\ \A c \in Clients :
       pc[c] \in {"close", "reclose", "free", "left", "detach", "done"} => conn[c] = "closed"
  /\ \A c, d \in Clients :
       (\E k \in 1 .. Len(inbox[c]) : inbox[c][k] = Msg("left", d)) => conn[d] = "closed"

\* recv() reports an end or an error to a thread only when its own client has
\* gone.
LEMMA RecvEndsAtEnd ==
  ASSUME OnceContext, TellInv, NEW c \in Clients, RecvEnd(c)
  PROVE  conn[c] = "closed"
<1>1. pc[c] = "recv" /\ c \notin backlog /\ conn[c] # "off"
  BY SharedTypes DEF RecvEnd, GoTo, OnceContext, OwnerInv, OneThread
<1>2. conn[c] = "open" => ServerOpen(c)
  BY <1>1 DEF TellInv, StillOpen
<1>3. CASE src[c] = c
  BY <1>1, <1>2, <1>3, SharedTypes DEF RecvEnd, OnceContext
<1>4. CASE \A h \in Handles : peer[h] # c
  BY <1>1, <1>2, <1>4, SharedTypes DEF ServerOpen, OnceContext
<1> QED BY <1>1, <1>3, <1>4 DEF OnceContext, OnceInv, OwnStream

LEMMA GoneForGood ==
  ASSUME OnceContext, [Next]_vars, NEW c \in Clients, conn[c] = "closed"
  PROVE  conn'[c] = "closed"
<1>1. CASE \E d \in Clients : ClientStep(d)
  BY <1>1, SharedTypes
  DEF ClientStep, Connect, ClientSend, Transmit, Drain, ClientClose, netVars, OnceContext
<1>2. ASSUME NEW d \in Clients, ThreadStep(d) PROVE UNCHANGED conn
  BY <1>2, ThreadFrame DEF OnceContext
<1>3. CASE AcceptStep \/ MainStep \/ OpenPort \/ SetUpPort \/ UNCHANGED vars
  BY <1>3
  DEF AcceptStep, Accept, TakeConnection, MainStep, Scan, ScanEnd, SendId, SendWelcome,
      Spawn, Assign, SendFull, OpenPort, SetUpPort, vars, netVars
<1> QED BY <1>1, <1>2, <1>3 DEF Next

\* A thread gets out of its loop by such a recv() only.
LEMMA LeaversGone ==
  ASSUME OnceContext, TellInv, LeaverInv, [Next]_vars, NEW c \in Clients,
         pc'[c] \in {"close", "reclose", "free", "left", "detach", "done"}
  PROVE  conn'[c] = "closed"
<1> DEFINE Out == {"close", "reclose", "free", "left", "detach", "done"}
<1>1. conn[c] = "closed" => conn'[c] = "closed"
  BY GoneForGood
<1>2. CASE pc[c] \in Out
  BY <1>1, <1>2 DEF LeaverInv
<1>3. CASE pc[c] \notin Out
  <2>1. pc'[c] # pc[c]
    BY <1>3
  <2>2. PICK d \in Clients : ThreadStep(d)
    <3>1. ASSUME ~\E d \in Clients : ThreadStep(d) PROVE pc'[c] = pc[c] \/ pc'[c] = "join"
      BY <3>1, SharedTypes
      DEF Next, ClientStep, Connect, ClientSend, Transmit, Drain, ClientClose, AcceptStep, Accept,
          TakeConnection, MainStep, Scan, ScanEnd, SendId, SendWelcome, Spawn, Assign,
          SendFull, OpenPort, SetUpPort, vars, threadVars, OnceContext
    <3> QED BY <2>1, <3>1
  <2>3. d = c /\ UNCHANGED conn
    BY <2>1, <2>2, ThreadFrame DEF OnceContext
  <2>4. RecvEnd(c)
    BY <1>3, <2>1, <2>2, <2>3, SharedTypes
    DEF ThreadStep, BroadcastJoin, BroadcastChat, BroadcastLeft, BroadcastStep, JoinEnd,
        LeftEnd, BroadcastEnd, CallRecv, RecvData, WriteCommand, ChatEnd,
        CloseSocket, CloseSocketAgain, FreeSlot, Detach, GoTo, OnceContext
  <2> QED BY <2>3, <2>4, RecvEndsAtEnd
<1> QED BY <1>2, <1>3

\* A message that comes to an inbox.
LEMMA NewMessage ==
  ASSUME OnceContext, [Next]_vars, NEW c \in Clients, NEW d \in Clients,
         NEW k \in 1 .. Len(inbox'[c]), inbox'[c][k] = Msg("left", d)
  PROVE  \/ \E l \in 1 .. Len(inbox[c]) : inbox[c][l] = Msg("left", d)
         \/ BroadcastLeft(d)
<1>1. ASSUME NEW h, NEW kind \in {"id", "welcome", "full", "join", "chat", "left"},
             NEW e \in Clients, Send(h, Msg(kind, e))
      PROVE  \/ \E l \in 1 .. Len(inbox[c]) : inbox[c][l] = Msg("left", d)
             \/ kind = "left" /\ e = d
  <2>1. CASE inbox'[c] = inbox[c]
    BY <2>1
  <2>2. CASE inbox'[c] # inbox[c]
    <3> DEFINE m == Msg(kind, e)
    <3>1. inbox'[c] = Append(inbox[c], m)
      BY <1>1, <2>2, InboxType DEF Send, Deliver, inboxVars
    <3>2. inbox[c] \in Seq(Messages) /\ m \in Messages
      BY InboxType, MsgType
    <3>3. m.kind = kind /\ m.from = e /\ Msg("left", d).kind = "left" /\ Msg("left", d).from = d
      BY DEF Msg
    <3> HIDE DEF m
    <3>4. (k \in 1 .. Len(inbox[c]) /\ inbox'[c][k] = inbox[c][k]) \/ inbox'[c][k] = m
      BY <3>1, <3>2
    <3> QED BY <3>3, <3>4
  <2> QED BY <2>1, <2>2
<1>2. CASE UNCHANGED inbox
  BY <1>2
<1>3. CASE SendId \/ SendWelcome \/ SendFull
  <2>1. newcomer \in Clients
    BY <1>3, SharedTypes DEF SendId, SendWelcome, SendFull, Placing, OnceContext
  <2> QED BY <1>1, <1>3, <2>1 DEF SendId, SendWelcome, SendFull
<1>4. ASSUME NEW e \in Clients, BroadcastJoin(e) \/ BroadcastChat(e) \/ BroadcastLeft(e)
      PROVE  \/ \E l \in 1 .. Len(inbox[c]) : inbox[c][l] = Msg("left", d)
             \/ BroadcastLeft(d)
  <2>1. CASE BroadcastJoin(e) \/ BroadcastChat(e)
    BY <1>1, <1>2, <2>1 DEF BroadcastJoin, BroadcastChat, BroadcastStep, inboxVars
  <2>2. CASE BroadcastLeft(e)
    <3>1. UNCHANGED inbox \/ Send(client[idx[e]], Msg("left", e))
      BY <2>2 DEF BroadcastLeft, BroadcastStep, inboxVars
    <3> QED BY <1>1, <1>2, <2>2, <3>1
  <2> QED BY <1>4, <2>1, <2>2
<1>5. CASE \/ \E e \in Clients : ClientStep(e)
           \/ AcceptStep \/ Scan \/ ScanEnd \/ Spawn \/ Assign
           \/ OpenPort \/ SetUpPort \/ UNCHANGED vars
           \/ \E e \in Clients : /\ ThreadStep(e)
                                 /\ ~(BroadcastJoin(e) \/ BroadcastChat(e) \/ BroadcastLeft(e))
  <2>1. UNCHANGED inbox
    BY <1>5
    DEF ClientStep, Connect, ClientSend, Transmit, Drain, ClientClose, AcceptStep, Accept,
        TakeConnection, Scan, ScanEnd, Spawn, Assign, OpenPort, SetUpPort, vars, ThreadStep,
        JoinEnd, LeftEnd, BroadcastEnd, CallRecv, RecvData, RecvEnd, WriteCommand, ChatEnd,
        CloseSocket, CloseSocketAgain, FreeSlot, Detach, inboxVars
  <2> QED BY <1>2, <2>1
<1> QED BY <1>3, <1>4, <1>5 DEF Next, MainStep

LEMMA LeaverStep ==
  OnceContext /\ TellInv /\ LeaverInv /\ [Next]_vars => LeaverInv'
<1> SUFFICES ASSUME OnceContext, TellInv, LeaverInv, [Next]_vars PROVE LeaverInv'
  OBVIOUS
<1>1. ASSUME NEW c \in Clients,
             pc'[c] \in {"close", "reclose", "free", "left", "detach", "done"}
      PROVE  conn'[c] = "closed"
  BY <1>1, LeaversGone
<1>2. ASSUME NEW d \in Clients, conn[d] = "closed" PROVE conn'[d] = "closed"
  BY <1>2, GoneForGood
<1>3. ASSUME NEW c \in Clients, NEW d \in Clients, NEW k \in 1 .. Len(inbox'[c]),
             inbox'[c][k] = Msg("left", d)
      PROVE  conn'[d] = "closed"
  <2>1. CASE \E l \in 1 .. Len(inbox[c]) : inbox[c][l] = Msg("left", d)
    BY <1>2, <2>1 DEF LeaverInv
  <2>2. CASE BroadcastLeft(d)
    <3>1. pc[d] = "left"
      BY <2>2 DEF BroadcastLeft, BroadcastStep
    <3> QED BY <1>2, <3>1 DEF LeaverInv
  <2> QED BY <1>3, <2>1, <2>2, NewMessage
<1> QED BY <1>1, <1>3 DEF LeaverInv

\* "Client #i Disconnected" (main.cpp:193-207) is said only of a client that has
\* gone, if accept() gives out no value that a slot still holds: what the run
\* ChatServerReuseLeft finds has no other cause than that.
THEOREM LeftOnlyWhenGone ==
  ASSUME ~ReuseWhileHeld PROVE Spec => []LeftIsTrue
<1>1. Init => LeaverInv
  BY DEF Init, LeaverInv
<1>2. OnceContext /\ LeaverInv => LeftIsTrue
  <2> SUFFICES ASSUME OnceContext, LeaverInv, NEW c \in Clients, NEW d \in Clients,
                      Msg("left", d) \in MessagesOf(c)
               PROVE  conn[d] = "closed"
    BY DEF LeftIsTrue
  <2>1. inbox[c] \in Seq(Messages)
    BY InboxType
  <2>2. PICK k \in 1 .. Len(inbox[c]) : inbox[c][k] = Msg("left", d)
    BY <2>1 DEF MessagesOf, ToSet
  <2> QED BY <2>2 DEF LeaverInv
<1> QED
  BY <1>1, <1>2, OnceInvariant, TellStarts, TellStep, LeaverStep, PTL DEF Spec

===============================================================================
