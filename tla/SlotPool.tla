------------------------------- MODULE SlotPool -------------------------------
(***************************************************************************)
(* What the command server promises about its client table, without        *)
(* threads, sockets or loops: guests arrive one at a time, a guest gets    *)
(* one free place, owners leave in any order.  A guest is offered every    *)
(* place that was free when it arrived, and of those left while it waits   *)
(* the ones that are seen in time.  It gets the lowest place of its offer  *)
(* and is refused only when that is empty.                                 *)
(***************************************************************************)
EXTENDS Integers

CONSTANTS Guests, Places, Nobody

VARIABLES
  owner,    \* owner[i]: who has place i
  guest,    \* the guest being placed, or Nobody
  offer     \* the places offered to the guest

poolVars == <<owner, guest, offer>>

PoolInit ==
  /\ owner = [i \in Places |-> Nobody]
  /\ guest = Nobody
  /\ offer = {}

Arrive(c) ==
  /\ guest = Nobody
  /\ \A i \in Places : owner[i] # c
  /\ guest' = c
  /\ offer' = {i \in Places : owner[i] = Nobody}
  /\ UNCHANGED owner

Place(i) ==
  /\ guest # Nobody
  /\ owner[i] = Nobody
  /\ i \in offer
  /\ \A j \in offer : i <= j
  /\ owner' = [owner EXCEPT ![i] = guest]
  /\ guest' = Nobody
  /\ offer' = {}

Refuse ==
  /\ guest # Nobody
  /\ offer = {}
  /\ guest' = Nobody
  /\ UNCHANGED <<owner, offer>>

Leave(i) ==
  /\ owner[i] # Nobody
  /\ owner' = [owner EXCEPT ![i] = Nobody]
  /\ \/ UNCHANGED offer
     \/ guest # Nobody /\ offer' = offer \cup {i}
  /\ UNCHANGED guest

PoolNext ==
  \/ \E c \in Guests : Arrive(c)
  \/ \E i \in Places : Place(i) \/ Leave(i)
  \/ Refuse

PoolSpec == PoolInit /\ [][PoolNext]_poolVars
===============================================================================
