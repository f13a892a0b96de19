----------------------------- MODULE CommandQueues -----------------------------
(***************************************************************************)
(* What the command server promises about the serial line, without         *)
(* threads, slots or recv(): each sender has a stream of its own. An order *)
(* at its front is passed on to the line, once, or something at its front  *)
(* is passed over; only a sender that leaves may lose the end of its       *)
(* stream. No order overtakes another of the same sender. The line itself  *)
(* may cut an order short.                                                 *)
(***************************************************************************)
EXTENDS Integers, Sequences

CONSTANTS
  Senders,
  Words,    \* what a sender may send at once, a sequence
  Orders    \* the sequences the line understands

VARIABLES
  queue,    \* queue[c]: what c has sent and nobody has decided about
  gone,     \* the senders that have left
  line      \* what has been passed on

queueVars == <<queue, gone, line>>

QueueInit ==
  /\ queue = [c \in Senders |-> <<>>]
  /\ gone = {}
  /\ line = <<>>

Put(c, t) ==
  /\ c \notin gone
  /\ queue' = [queue EXCEPT ![c] = @ \o t]
  /\ UNCHANGED <<gone, line>>

PassOn(c) ==
  \E k \in 1 .. Len(queue[c]), w \in BOOLEAN :
    LET order == SubSeq(queue[c], 1, k)
    IN  /\ order \in Orders
        /\ line' = Append(line, [from |-> c, text |-> order, whole |-> w])
        /\ queue' = [queue EXCEPT ![c] = SubSeq(@, k + 1, Len(@))]
        /\ UNCHANGED gone

PassOver(c) ==
  /\ \E k \in 1 .. Len(queue[c]) :
       queue' = [queue EXCEPT ![c] = SubSeq(@, k + 1, Len(@))]
  /\ UNCHANGED <<gone, line>>

Leave(c) ==
  /\ c \notin gone
  /\ gone' = gone \cup {c}
  /\ \E k \in 0 .. Len(queue[c]) : queue' = [queue EXCEPT ![c] = SubSeq(@, 1, k)]
  /\ UNCHANGED line

QueueNext ==
  \E c \in Senders :
    PassOn(c) \/ PassOver(c) \/ Leave(c) \/ \E t \in Words : Put(c, t)

QueueSpec == QueueInit /\ [][QueueNext]_queueVars
===============================================================================
