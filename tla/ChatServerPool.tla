---------------------------- MODULE ChatServerPool ----------------------------
(***************************************************************************)
(* The refinement of SlotPool by the command server: however main's scan   *)
(* of client[] interleaves with threads that free their slots, the table   *)
(* behaves like a pool of places.                                          *)
(***************************************************************************)
EXTENDS ChatServer

\* The owner of slot i: the thread in its session, else main's newcomer.
Owner(i) ==
  IF client[i] = INVALID_SOCKET THEN NoClient
  ELSE IF MainHolds(i) THEN newcomer
  ELSE CHOOSE c \in Clients : InSession(c) /\ slot[c] = i

\* A newcomer has been accepted and neither placed nor refused.
Undecided == mpc \in {"scan", "full"} /\ temp_id = -1

\* The free slots that the scan has still before it.
SlotsAhead == {i \in Slots : scan <= i /\ client[i] = INVALID_SOCKET}

Pool == INSTANCE SlotPool WITH
  Guests <- Clients,
  Places <- Slots,
  Nobody <- NoClient,
  owner <- [i \in Slots |-> Owner(i)],
  guest <- IF Undecided THEN newcomer ELSE NoClient,
  offer <- IF Undecided THEN SlotsAhead ELSE {}

\* The table of slots implements SlotPool: a newcomer gets the lowest of the
\* slots that were free when it was accepted or were freed ahead of the scan
\* since, "Server is full" is said only if there was none, and a slot goes
\* from one owner to the next only through being free.
ImplementsSlotPool == Pool!PoolSpec
===============================================================================
