---------------------------- MODULE SlotPoolProofs ----------------------------
(***************************************************************************)
(* The table of the command server implements SlotPool, for any number of  *)
(* connections, SOCKET values and slots.                                   *)
(***************************************************************************)
EXTENDS ChatServerPool, ChatServerProofs

\* "Server is full" is about to be said only at the end of a scan that took no
\* slot, when no slot is ahead of it.
OfferInv == mpc = "full" => temp_id = -1 /\ scan = MaxClients

\* Who owns a slot, by the three clauses of Owner.
OwnerFacts ==
  \A i \in Slots :
    /\ client[i] = INVALID_SOCKET => Owner(i) = NoClient
    /\ MainHolds(i) => Owner(i) = newcomer /\ newcomer \in Clients
    /\ \A c \in Clients : InSession(c) /\ slot[c] = i => Owner(i) = c

LEMMA OwnerIs == OwnerInv => OwnerFacts
<1> SUFFICES ASSUME OwnerInv, NEW i \in Slots
             PROVE  /\ client[i] = INVALID_SOCKET => Owner(i) = NoClient
                    /\ MainHolds(i) => Owner(i) = newcomer /\ newcomer \in Clients
                    /\ \A c \in Clients : InSession(c) /\ slot[c] = i => Owner(i) = c
  BY DEF OwnerFacts
<1>1. client[i] = INVALID_SOCKET => Owner(i) = NoClient
  BY DEF Owner
<1>2. MainHolds(i) => Owner(i) = newcomer /\ newcomer \in Clients
  BY DEF Owner, OwnerInv, OneOwner, TypeInv, Engaged, MainHolds
<1>3. ASSUME NEW c \in Clients, InSession(c), slot[c] = i
      PROVE  Owner(i) = c
  <2>1. client[i] # INVALID_SOCKET /\ ~MainHolds(i)
    BY <1>3 DEF OwnerInv, OneOwner
  <2>2. \A d \in Clients : InSession(d) /\ slot[d] = i => d = c
    BY <1>3 DEF OwnerInv, OneOwner
  <2>3. Owner(i) = CHOOSE d \in Clients : InSession(d) /\ slot[d] = i
    BY <2>1 DEF Owner
  <2> QED BY <1>3, <2>2, <2>3
<1> QED BY <1>1, <1>2, <1>3

\* A taken slot has an owner among the clients, a free one has none.
LEMMA OwnerType ==
  ASSUME OwnerInv, NEW i \in Slots
  PROVE  /\ Owner(i) = NoClient <=> client[i] = INVALID_SOCKET
         /\ Owner(i) \in Clients \cup {NoClient}
<1>1. CASE client[i] = INVALID_SOCKET
  BY <1>1, OwnerIs DEF OwnerFacts
<1>2. CASE client[i] # INVALID_SOCKET
  <2>1. MainHolds(i) \/ \E c \in Clients : InSession(c) /\ slot[c] = i
    BY <1>2 DEF OwnerInv, OneOwner
  <2>2. Owner(i) \in Clients
    BY <2>1, OwnerIs DEF OwnerFacts
  <2> QED BY <1>2, <2>2, ConstantsAssumption
<1> QED BY <1>1, <1>2

\* An owner stays while slots, sessions and what main holds stay.
LEMMA OwnerStays ==
  ASSUME OwnerInv, OwnerFacts', NEW i \in Slots, client'[i] = client[i],
         \A c \in Clients : InSession(c) /\ slot[c] = i => InSession(c)' /\ slot'[c] = i,
         MainHolds(i) => \/ MainHolds(i)' /\ newcomer' = newcomer
                         \/ \E c \in Clients : c = newcomer /\ InSession(c)' /\ slot'[c] = i
  PROVE  Owner(i)' = Owner(i)
<1>1. CASE client[i] = INVALID_SOCKET
  BY <1>1, OwnerIs DEF OwnerFacts
<1>2. CASE \E c \in Clients : InSession(c) /\ slot[c] = i
  BY <1>2, OwnerIs DEF OwnerFacts
<1>3. CASE MainHolds(i)
  BY <1>3, OwnerIs DEF OwnerFacts
<1> QED BY <1>1, <1>2, <1>3 DEF OwnerInv, OneOwner

\* The other variables of SlotPool.
Guest == IF Undecided THEN newcomer ELSE NoClient
Offer == IF Undecided THEN SlotsAhead ELSE {}

Owners == [i \in Slots |-> Owner(i)]

\* A step that changes no slot, no session and nothing main knows is a step of
\* no guest.
LEMMA StutterPool ==
  ASSUME OwnerInv, OwnerFacts', UNCHANGED <<client, slot>>,
         \A c \in Clients : InSession(c)' <=> InSession(c),
         \A i \in Slots : MainHolds(i)' <=> MainHolds(i),
         (\A i \in Slots : ~MainHolds(i)) \/ newcomer' = newcomer,
         Guest' = Guest, Offer' = Offer
  PROVE  UNCHANGED <<Owners, Guest, Offer>>
<1>1. \A i \in Slots : Owner(i)' = Owner(i)
  BY OwnerStays
<1> QED BY <1>1 DEF Owners

LEMMA AcceptPool ==
  ASSUME OwnerInv, OwnerFacts', NEW c \in Clients, NEW h \in Handles, Accept(c, h)
  PROVE  /\ Guest = NoClient /\ Guest' = c
         /\ \A i \in Slots : Owners[i] # c
         /\ Offer' = {i \in Slots : Owners[i] = NoClient}
         /\ Owners' = Owners
         /\ OfferInv'
<1>1. /\ mpc = "accept" /\ mpc' = "scan" /\ newcomer' = c /\ temp_id' = -1 /\ scan' = 0
      /\ UNCHANGED <<client, pc, slot>> /\ c \in backlog /\ pc[c] = "none"
  BY DEF Accept, TakeConnection, threadVars, OwnerInv, OneThread
<1>2. \A i \in Slots : ~MainHolds(i) /\ ~MainHolds(i)'
  BY <1>1, ConstantsAssumption DEF MainHolds, Slots
<1>3. \A d \in Clients : InSession(d)' <=> InSession(d)
  BY <1>1 DEF InSession
<1>4. \A i \in Slots : Owner(i)' = Owner(i)
  BY <1>1, <1>2, <1>3, OwnerStays
<1>5. \A i \in Slots : Owner(i) # c
  <2> SUFFICES ASSUME NEW i \in Slots, Owner(i) = c PROVE FALSE
    OBVIOUS
  <2>1. client[i] # INVALID_SOCKET
    BY OwnerType, ConstantsAssumption
  <2>2. PICK d \in Clients : InSession(d) /\ slot[d] = i
    BY <1>2, <2>1 DEF OwnerInv, OneOwner
  <2>3. d = c
    BY <2>2, OwnerIs DEF OwnerFacts
  <2> QED BY <1>1, <2>2, <2>3 DEF InSession, SessionPC
<1>6. Guest = NoClient /\ Guest' = c
  BY <1>1 DEF Guest, Undecided
<1>7. Offer' = {i \in Slots : Owner(i) = NoClient}
  <2>1. Offer' = {i \in Slots : client[i] = INVALID_SOCKET}
    BY <1>1 DEF Offer, Undecided, SlotsAhead, Slots
  <2> QED BY <2>1, OwnerType
<1>8. OfferInv'
  BY <1>1 DEF OfferInv
<1> QED BY <1>4, <1>5, <1>6, <1>7, <1>8 DEF Owners

\* The store into client[] places the guest at the lowest slot of its offer.
LEMMA ScanPool ==
  ASSUME OwnerInv, OwnerFacts', OfferInv, Scan
  PROVE  /\ OfferInv'
         /\ \/ UNCHANGED <<Owners, Guest, Offer>>
            \/ /\ Guest # NoClient /\ Guest' = NoClient /\ Offer' = {}
               /\ scan \in Slots /\ Owners[scan] = NoClient
               /\ scan \in Offer /\ \A j \in Offer : scan <= j
               /\ Owners' = [Owners EXCEPT ![scan] = Guest]
<1>1. /\ scan \in Slots /\ scan \in Nat /\ scan' = scan + 1 /\ newcomer \in Clients
      /\ UNCHANGED <<pc, slot, mpc, newcomer>> /\ mpc = "scan"
      /\ incoming # INVALID_SOCKET
  BY SlotRange, ConstantsAssumption
  DEF Scan, threadVars, OwnerInv, TypeInv, TypeOK, MainTypeOK, Engaged
<1>2. \A d \in Clients : InSession(d)' <=> InSession(d)
  BY <1>1 DEF InSession
<1>3. CASE client[scan] = INVALID_SOCKET /\ temp_id = -1
  <2>1. /\ temp_id' = scan /\ client'[scan] = incoming
        /\ \A i \in Slots \ {scan} : client'[i] = client[i]
    BY <1>1, <1>3 DEF Scan, OwnerInv, TypeInv, TypeOK, SharedTypeOK
  <2>2. /\ \A i \in Slots : ~MainHolds(i)
        /\ \A i \in Slots : i = scan => MainHolds(i)'
        /\ Undecided /\ ~Undecided'
    <3>1. temp_id' = scan /\ scan # -1 /\ mpc' = "scan"
      BY <1>1, <2>1
    <3>2. \A i \in Slots : ~MainHolds(i)
      BY <1>3, ConstantsAssumption DEF MainHolds, Slots
    <3>3. \A i \in Slots : i = scan => MainHolds(i)'
      BY <3>1 DEF MainHolds
    <3> QED BY <1>1, <1>3, <3>1, <3>2, <3>3 DEF Undecided
  <2>3. \A i \in Slots \ {scan} : Owner(i)' = Owner(i)
    BY <1>1, <1>2, <2>1, <2>2, OwnerStays
  <2>4. /\ \A i \in Slots : i = scan => Owner(i)' = newcomer
        /\ Owner(scan) = NoClient
    <3>1. \A i \in Slots : MainHolds(i)' => Owner(i)' = newcomer'
      BY DEF OwnerFacts
    <3>2. Owner(scan) = NoClient
      BY <1>1, <1>3, OwnerIs DEF OwnerFacts
    <3> QED BY <1>1, <2>2, <3>1, <3>2
  <2>5. Guest = newcomer /\ Guest' = NoClient /\ Offer = SlotsAhead /\ Offer' = {}
    BY <2>2 DEF Guest, Offer
  <2>6. scan \in SlotsAhead /\ \A j \in SlotsAhead : scan <= j
    BY <1>1, <1>3 DEF SlotsAhead
  <2>7. OfferInv'
    BY <1>1 DEF OfferInv
  <2>8. Owners' = [Owners EXCEPT ![scan] = newcomer]
    BY <1>1, <2>3, <2>4 DEF Owners
  <2>9. Owners[scan] = NoClient /\ newcomer # NoClient
    BY <1>1, <2>4, ConstantsAssumption DEF Owners
  <2> QED BY <1>1, <2>5, <2>6, <2>7, <2>8, <2>9
<1>4. CASE ~(client[scan] = INVALID_SOCKET /\ temp_id = -1)
  <2>1. UNCHANGED <<client, temp_id>>
    BY <1>4 DEF Scan
  <2>2. \A i \in Slots : MainHolds(i)' <=> MainHolds(i)
    BY <1>1, <2>1 DEF MainHolds
  <2>3. (Undecided' <=> Undecided) /\ Guest' = Guest
    BY <1>1, <2>1 DEF Guest, Undecided
  <2>4. Undecided => SlotsAhead' = SlotsAhead
    <3>1. Undecided => client[scan] # INVALID_SOCKET
      BY <1>4 DEF Undecided
    <3> QED BY <1>1, <2>1, <3>1 DEF SlotsAhead, Slots
  <2>5. Offer' = Offer
    BY <2>3, <2>4 DEF Offer
  <2>6. OfferInv'
    BY <1>1 DEF OfferInv
  <2> QED BY <1>1, <1>2, <2>1, <2>2, <2>3, <2>5, <2>6, StutterPool
<1> QED BY <1>3, <1>4

\* The other steps of main move what it knows, not the table; the newcomer's
\* thread takes over the slot main held for it.
LEMMA MainPool ==
  ASSUME OwnerInv, OwnerFacts', OfferInv,
         ScanEnd \/ SendId \/ SendWelcome \/ Spawn \/ Assign
  PROVE  OfferInv' /\ UNCHANGED <<Owners, Guest, Offer>>
<1>1. CASE ScanEnd
  <2>1. /\ UNCHANGED <<client, slot, pc, temp_id, newcomer, scan>>
        /\ mpc = "scan" /\ scan = MaxClients
        /\ mpc' = IF temp_id # -1 THEN "sendid" ELSE "full"
    BY <1>1 DEF ScanEnd, threadVars
  <2>2. /\ \A i \in Slots : MainHolds(i)' <=> MainHolds(i)
        /\ \A c \in Clients : InSession(c)' <=> InSession(c)
    BY <2>1, ConstantsAssumption DEF MainHolds, Slots, InSession
  <2>3. (Undecided' <=> Undecided) /\ Guest' = Guest /\ Offer' = Offer
    BY <2>1 DEF Undecided, SlotsAhead, Guest, Offer
  <2>4. OfferInv'
    BY <2>1, <2>3 DEF OfferInv
  <2> QED BY <2>1, <2>2, <2>3, <2>4, StutterPool
<1>2. CASE SendId \/ SendWelcome
  <2>1. /\ UNCHANGED <<client, slot, pc, temp_id, newcomer, scan>>
        /\ mpc \in {"sendid", "welcome"} /\ mpc' \in {"welcome", "spawn"}
    BY <1>2 DEF SendId, SendWelcome, threadVars
  <2>2. /\ \A i \in Slots : MainHolds(i)' <=> MainHolds(i)
        /\ \A c \in Clients : InSession(c)' <=> InSession(c)
    BY <2>1 DEF MainHolds, InSession
  <2>3. ~Undecided /\ ~Undecided' /\ Guest' = Guest /\ Offer' = Offer
    BY <2>1 DEF Undecided, SlotsAhead, Guest, Offer
  <2>4. OfferInv'
    BY <2>1, <2>3 DEF OfferInv
  <2> QED BY <2>1, <2>2, <2>3, <2>4, StutterPool
<1>3. CASE Spawn
  <2>1. /\ UNCHANGED <<client, temp_id, newcomer>> /\ mpc = "spawn" /\ mpc' = "assign"
        /\ newcomer \in Clients /\ temp_id \in Slots /\ pc[newcomer] = "none"
    BY <1>3 DEF Spawn, OwnerInv, TypeInv, Engaged, OneThread, Placing
  <2>2. /\ slot'[newcomer] = temp_id /\ pc'[newcomer] = "join"
        /\ \A c \in Clients \ {newcomer} : slot'[c] = slot[c] /\ pc'[c] = pc[c]
    BY <1>3, <2>1 DEF Spawn, OwnerInv, TypeInv, TypeOK, ThreadTypeOK
  <2>3. \A c \in Clients : InSession(c) =>
          c # newcomer /\ InSession(c)' /\ slot'[c] = slot[c]
    BY <2>1, <2>2 DEF InSession, SessionPC
  <2>4. \A c \in Clients : c = newcomer => InSession(c)' /\ slot'[c] = temp_id
    BY <2>2 DEF InSession, SessionPC
  <2>5. \A i \in Slots : MainHolds(i) =>
          \E c \in Clients : c = newcomer /\ InSession(c)' /\ slot'[c] = i
    BY <2>1, <2>4 DEF MainHolds
  <2>6. \A i \in Slots : Owner(i)' = Owner(i)
    BY <2>1, <2>3, <2>5, OwnerStays
  <2>7. ~Undecided /\ ~Undecided' /\ Guest' = Guest /\ Offer' = Offer
    BY <2>1 DEF Undecided, SlotsAhead, Guest, Offer
  <2>8. OfferInv'
    BY <2>1, <2>7 DEF OfferInv
  <2> QED BY <2>6, <2>7, <2>8 DEF Owners
<1>4. CASE Assign
  <2>1. /\ UNCHANGED <<client, slot, pc>>
        /\ mpc = "assign" /\ mpc' \in {"assign", "accept"}
    BY <1>4 DEF Assign, NextRound, mainVars, threadVars
  <2>2. /\ \A i \in Slots : ~MainHolds(i) /\ ~MainHolds(i)'
        /\ \A c \in Clients : InSession(c)' <=> InSession(c)
    BY <2>1 DEF MainHolds, InSession
  <2>3. ~Undecided /\ ~Undecided' /\ Guest' = Guest /\ Offer' = Offer
    BY <2>1 DEF Undecided, SlotsAhead, Guest, Offer
  <2>4. OfferInv'
    BY <2>1, <2>3 DEF OfferInv
  <2> QED BY <2>1, <2>2, <2>3, <2>4, StutterPool
<1> QED BY <1>1, <1>2, <1>3, <1>4

\* "Server is full" is sent to a guest with nothing on offer.
LEMMA RefusePool ==
  ASSUME OwnerInv, OwnerFacts', OfferInv, SendFull
  PROVE  /\ OfferInv'
         /\ Guest # NoClient /\ Guest' = NoClient /\ Offer = {}
         /\ UNCHANGED <<Owners, Offer>>
<1>1. /\ UNCHANGED <<client, slot, pc>> /\ mpc = "full" /\ mpc' = "accept"
      /\ newcomer \in Clients
  BY DEF SendFull, NextRound, threadVars, OwnerInv, TypeInv, Engaged
<1>2. Undecided /\ ~Undecided' /\ scan = MaxClients
  BY <1>1 DEF Undecided, OfferInv
<1>3. SlotsAhead = {}
  BY <1>2, ConstantsAssumption DEF SlotsAhead, Slots
<1>4. \A i \in Slots : Owner(i)' = Owner(i)
  <2>1. /\ \A i \in Slots : ~MainHolds(i) /\ ~MainHolds(i)'
        /\ \A c \in Clients : InSession(c)' <=> InSession(c)
    BY <1>1 DEF MainHolds, InSession
  <2> QED BY <1>1, <2>1, OwnerStays
<1>5. OfferInv'
  BY <1>1, <1>2 DEF OfferInv
<1>6. Guest = newcomer /\ Guest' = NoClient /\ Offer = {} /\ Offer' = {}
  BY <1>2, <1>3 DEF Guest, Offer
<1> QED BY <1>1, <1>4, <1>5, <1>6, ConstantsAssumption DEF Owners

\* A thread's store of INVALID_SOCKET lets its owner leave one place; what it
\* does besides is no step of the pool.
LEMMA ThreadPool ==
  ASSUME OwnerInv, OwnerFacts', OfferInv, NEW c \in Clients, ThreadStep(c)
  PROVE  /\ OfferInv'
         /\ UNCHANGED Guest
         /\ \/ UNCHANGED <<Owners, Offer>>
            \/ \E i \in Slots :
                 /\ Owners[i] # NoClient
                 /\ Owners' = [Owners EXCEPT ![i] = NoClient]
                 /\ \/ UNCHANGED Offer
                    \/ Guest # NoClient /\ Offer' = Offer \cup {i}
<1> USE DEF netVars, inboxVars, uartVars, mainVars
<1>1. /\ UNCHANGED <<slot, mpc, temp_id, newcomer, scan>>
      /\ \A d \in Clients \ {c} : pc'[d] = pc[d]
  BY DEF ThreadStep, BroadcastJoin, BroadcastChat, BroadcastLeft, BroadcastStep, JoinEnd,
         LeftEnd, BroadcastEnd, CallRecv, RecvData, RecvEnd, WriteCommand, ChatEnd,
         CloseSocket, CloseSocketAgain, FreeSlot, Detach, GoTo,
         OwnerInv, TypeInv, TypeOK, ThreadTypeOK
<1>2. /\ \A i \in Slots : MainHolds(i)' <=> MainHolds(i)
      /\ (Undecided' <=> Undecided) /\ Guest' = Guest
      /\ OfferInv'
  BY <1>1 DEF MainHolds, Undecided, Guest, OfferInv
<1>3. CASE FreeSlot(c)
  <2>1. /\ InSession(c)
        /\ \A d \in Clients \ {c} : InSession(d)' <=> InSession(d)
    BY <1>1, <1>3 DEF FreeSlot, GoTo, InSession, SessionPC
  <2>2. /\ slot[c] \in Slots /\ client'[slot[c]] = INVALID_SOCKET
        /\ \A i \in Slots \ {slot[c]} : client'[i] = client[i]
    BY <1>3 DEF FreeSlot, OwnerInv, TypeInv, TypeOK, SharedTypeOK, ThreadTypeOK
  <2>3. \A i \in Slots \ {slot[c]} : Owner(i)' = Owner(i)
    <3> SUFFICES ASSUME NEW i \in Slots, i # slot[c] PROVE Owner(i)' = Owner(i)
      OBVIOUS
    <3>1. \A d \in Clients : InSession(d) /\ slot[d] = i => InSession(d)' /\ slot'[d] = i
      BY <1>1, <2>1
    <3> QED BY <1>1, <1>2, <2>2, <3>1, OwnerStays
  <2>4. \A i \in Slots : i = slot[c] => Owner(i) = c /\ Owner(i)' = NoClient
    <3>1. \A i \in Slots : client'[i] = INVALID_SOCKET => Owner(i)' = NoClient
      BY DEF OwnerFacts
    <3>2. \A i \in Slots : i = slot[c] => Owner(i) = c
      BY <2>1, OwnerIs DEF OwnerFacts
    <3> QED BY <2>2, <3>1, <3>2
  <2>5. Owners' = [Owners EXCEPT ![slot[c]] = NoClient] /\ Owners[slot[c]] # NoClient
    BY <2>2, <2>3, <2>4, ConstantsAssumption DEF Owners
  <2>6. CASE Undecided /\ scan <= slot[c]
    <3>1. SlotsAhead' = SlotsAhead \cup {slot[c]}
      BY <1>1, <2>2, <2>6 DEF SlotsAhead
    <3>2. Offer' = Offer \cup {slot[c]}
      BY <1>2, <2>6, <3>1 DEF Offer
    <3>3. Guest # NoClient
      BY <2>6, ConstantsAssumption DEF Guest, Undecided, OwnerInv, TypeInv, Engaged
    <3> QED BY <1>2, <2>2, <2>5, <3>2, <3>3
  <2>7. CASE ~(Undecided /\ scan <= slot[c])
    <3>1. Undecided => SlotsAhead' = SlotsAhead
      BY <1>1, <2>2, <2>7 DEF SlotsAhead
    <3>2. Offer' = Offer
      BY <1>2, <3>1 DEF Offer
    <3> QED BY <1>2, <2>2, <2>5, <3>2
  <2> QED BY <2>6, <2>7
<1>4. CASE ~FreeSlot(c)
  <2>1. UNCHANGED client /\ (InSession(c)' <=> InSession(c))
    BY <1>4
    DEF ThreadStep, BroadcastJoin, BroadcastChat, BroadcastLeft, BroadcastStep, JoinEnd,
        LeftEnd, BroadcastEnd, CallRecv, RecvData, RecvEnd, WriteCommand, ChatEnd,
        CloseSocket, CloseSocketAgain, Detach, GoTo, InSession, SessionPC,
        OwnerInv, TypeInv, TypeOK, ThreadTypeOK
  <2>2. \A d \in Clients : InSession(d)' <=> InSession(d)
    BY <1>1, <2>1 DEF InSession
  <2>3. Offer' = Offer
    BY <1>1, <1>2, <2>1 DEF Offer, SlotsAhead
  <2> QED BY <1>1, <1>2, <2>1, <2>2, <2>3, StutterPool
<1> QED BY <1>3, <1>4

\* Clients and process_uart do nothing to the table.
LEMMA OthersPool ==
  ASSUME OwnerInv, OwnerFacts', OfferInv,
         \/ \E c \in Clients : ClientStep(c)
         \/ OpenPort \/ SetUpPort
         \/ UNCHANGED vars
  PROVE  OfferInv' /\ UNCHANGED <<Owners, Guest, Offer>>
<1>1. UNCHANGED <<client, mpc, newcomer, scan, temp_id, pc, slot>>
  BY DEF ClientStep, Connect, ClientSend, Transmit, Drain, ClientClose, OpenPort, SetUpPort, vars,
         mainVars, threadVars
<1>2. /\ \A i \in Slots : MainHolds(i)' <=> MainHolds(i)
      /\ \A c \in Clients : InSession(c)' <=> InSession(c)
      /\ Undecided' <=> Undecided
  BY <1>1 DEF MainHolds, InSession, Undecided
<1>3. Guest' = Guest /\ Offer' = Offer
  BY <1>1, <1>2 DEF Guest, Offer, SlotsAhead
<1>4. OfferInv'
  BY <1>1, <1>2 DEF OfferInv
<1> QED BY <1>1, <1>2, <1>3, <1>4, StutterPool

\* A step of the server is a step of the pool or changes nothing in it.
LEMMA PoolStep ==
  ASSUME OwnerInv, OwnerFacts', OfferInv, [Next]_vars
  PROVE  OfferInv' /\ [Pool!PoolNext]_(Pool!poolVars)
<1> USE DEF Pool!poolVars, Owners, Guest, Offer
<1>1. CASE AcceptStep
  <2>1. PICK c \in Clients, h \in Handles : Accept(c, h)
    BY <1>1 DEF AcceptStep
  <2>2. OfferInv' /\ Pool!Arrive(c)
    BY <2>1, AcceptPool DEF Pool!Arrive
  <2> QED BY <2>2 DEF Pool!PoolNext
<1>2. CASE Scan
  <2>1. /\ OfferInv'
        /\ UNCHANGED <<Owners, Guest, Offer>> \/ \E i \in Slots : Pool!Place(i)
    BY <1>2, ScanPool DEF Pool!Place
  <2> QED BY <2>1 DEF Pool!PoolNext
<1>3. CASE ScanEnd \/ SendId \/ SendWelcome \/ Spawn \/ Assign
  BY <1>3, MainPool
<1>4. CASE SendFull
  <2>1. OfferInv' /\ Pool!Refuse
    BY <1>4, RefusePool DEF Pool!Refuse
  <2> QED BY <2>1 DEF Pool!PoolNext
<1>5. CASE \E c \in Clients : ThreadStep(c)
  <2>1. PICK c \in Clients : ThreadStep(c)
    BY <1>5
  <2>2. /\ OfferInv'
        /\ UNCHANGED <<Owners, Guest, Offer>> \/ \E i \in Slots : Pool!Leave(i)
    BY <2>1, ThreadPool DEF Pool!Leave
  <2> QED BY <2>2 DEF Pool!PoolNext
<1>6. CASE (\E c \in Clients : ClientStep(c)) \/ OpenPort \/ SetUpPort \/ UNCHANGED vars
  <2>1. OfferInv' /\ UNCHANGED <<Owners, Guest, Offer>>
    BY <1>6, OthersPool
  <2> QED BY <2>1
<1> QED BY <1>1, <1>2, <1>3, <1>4, <1>5, <1>6 DEF Next, MainStep

\* The table of slots implements SlotPool, for every number of connections,
\* SOCKET values and slots (main.cpp:286-323 against main.cpp:199): however
\* main's scan interleaves with threads that free their slots, a newcomer gets
\* the lowest of the slots that were free when accept() returned or were freed
\* ahead of the scan, and is told "Server is full" only if there was none.
THEOREM TableIsAPool == Spec => ImplementsSlotPool
<1>1. Init => OfferInv /\ Pool!PoolInit
  <2> SUFFICES ASSUME Init PROVE OfferInv /\ Pool!PoolInit
    OBVIOUS
  <2>1. mpc = "accept" /\ ~Undecided /\ \A i \in Slots : client[i] = INVALID_SOCKET
    BY DEF Init, Undecided
  <2>2. OfferInv
    BY <2>1 DEF OfferInv
  <2>3. \A i \in Slots : Owner(i) = NoClient
    BY <2>1 DEF Owner
  <2> QED BY <2>1, <2>2, <2>3 DEF Pool!PoolInit
<1>2. OwnerInv' => OwnerFacts'
  BY OwnerIs, PTL
<1>3. OwnerInv /\ OwnerInv' /\ OfferInv /\ [Next]_vars
        => OfferInv' /\ [Pool!PoolNext]_(Pool!poolVars)
  BY <1>2, PoolStep
<1> QED
  BY <1>1, <1>3, OwnerInvariant, PTL DEF Spec, ImplementsSlotPool, Pool!PoolSpec
===============================================================================
