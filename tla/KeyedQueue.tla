---------------------------- MODULE KeyedQueue ----------------------------
(***************************************************************************)
(* What an arx-channel promises to its users: every key (a peer, usually)  *)
(* has a bounded queue of its own, which only that key's messages can      *)
(* overflow; the receiver takes the messages of one key in the order of    *)
(* the queue's style; and as long as it takes messages, every key gets its *)
(* turn, however fast the others send.                                     *)
(***************************************************************************)
EXTENDS Sequences, Integers

CONSTANTS
  Keys,
  Messages,
  QueueStyle,       \* "FIFO", "LIFO" or "KLAST"
  MaxQueueSize

VARIABLES
  queue,            \* queue[k]: the messages of key k
  closed            \* the receiver is gone

vars == <<queue, closed>>

(* A full queue drops its newest message, or its oldest. *)
Accept(q, m) ==
  IF Len(q) < MaxQueueSize THEN Append(q, m)
  ELSE IF QueueStyle = "FIFO" THEN q ELSE Append(Tail(q), m)

Without(q) == IF QueueStyle = "LIFO" THEN SubSeq(q, 1, Len(q) - 1) ELSE Tail(q)

Init == queue = [k \in Keys |-> <<>>] /\ closed = FALSE

Send(k, m) ==
  /\ ~closed
  /\ queue' = [queue EXCEPT ![k] = Accept(@, m)]
  /\ UNCHANGED closed

Receive(k) ==
  /\ ~closed /\ queue[k] # <<>>
  /\ queue' = [queue EXCEPT ![k] = Without(@)]
  /\ UNCHANGED closed

Clear == ~closed /\ queue' = [k \in Keys |-> <<>>] /\ UNCHANGED closed

Close == ~closed /\ closed' = TRUE /\ UNCHANGED queue

Next ==
  \/ \E k \in Keys, m \in Messages : Send(k, m)
  \/ \E k \in Keys : Receive(k)
  \/ Clear \/ Close

Spec == Init /\ [][Next]_vars

(***************************************************************************)
(* Nobody who sends is starved by those who send more: WF_vars(Receive(k)) *)
(* with its ENABLED written out.                                           *)
(***************************************************************************)
Served(k) == []<>(closed \/ queue[k] = <<>>) \/ []<><<Receive(k)>>_vars

FairSpec == Spec /\ \A k \in Keys : Served(k)

=============================================================================
