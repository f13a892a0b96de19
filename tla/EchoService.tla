------------------------------ MODULE EchoService ------------------------------
(***************************************************************************)
(* What an echo server promises, without sockets, threads, buffers or the  *)
(* cutting of streams: what comes back to a client is always the beginning *)
(* of what it has sent and not received back, for as long as it stays.     *)
(* Nothing promises that all of it comes back: a session may end.          *)
(***************************************************************************)
EXTENDS Integers, Sequences

CONSTANTS
  Users,    \* who may send
  Lines     \* what may be sent in one go: sequences of pieces

VARIABLES
  asked,    \* asked[c]: the pieces that c has sent and not received back
  back,     \* back[c]: those of them that are on their way back
  away      \* who has gone

serviceVars == <<asked, back, away>>

ServiceInit ==
  /\ asked = [c \in Users |-> <<>>]
  /\ back = [c \in Users |-> <<>>]
  /\ away = {}

Ask(c, line) ==
  /\ c \notin away
  /\ asked' = [asked EXCEPT ![c] = @ \o line]
  /\ UNCHANGED <<back, away>>

\* Any number of the next pieces.
Reply(c) ==
  /\ c \notin away
  /\ \E k \in Len(back[c]) + 1 .. Len(asked[c]) :
       back' = [back EXCEPT ![c] = SubSeq(asked[c], 1, k)]
  /\ UNCHANGED <<asked, away>>

Take(c) ==
  /\ \E k \in 1 .. Len(back[c]) :
       /\ back' = [back EXCEPT ![c] = SubSeq(@, k + 1, Len(@))]
       /\ asked' = [asked EXCEPT ![c] = SubSeq(@, k + 1, Len(@))]
  /\ UNCHANGED away

GoAway(c) ==
  /\ c \notin away
  /\ away' = away \cup {c}
  /\ asked' = [asked EXCEPT ![c] = <<>>]
  /\ back' = [back EXCEPT ![c] = <<>>]

ServiceNext ==
  \E c \in Users : Reply(c) \/ Take(c) \/ GoAway(c) \/ \E line \in Lines : Ask(c, line)

ServiceSpec == ServiceInit /\ [][ServiceNext]_serviceVars
===============================================================================
