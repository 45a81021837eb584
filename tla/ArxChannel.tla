---------------------------- MODULE ArxChannel ----------------------------
(***************************************************************************)
(* The channel between the network and the consensus, mempool and state    *)
(* sync tasks (crates/arx-channel): a PerKeyQueue under a mutex, any       *)
(* number of senders, and one receiver task that sleeps on an empty queue  *)
(* until a sender wakes it.                                                *)
(*                                                                         *)
(* Every call holds the mutex from start to end, so it is one step.  The   *)
(* status channel of a message carries no state of the channel.            *)
(***************************************************************************)
EXTENDS Sequences, Integers

CONSTANTS
  Keys,
  Messages,
  QueueStyle,       \* "FIFO", "LIFO" or "KLAST"
  MaxQueueSize,     \* max_queue_size, per key
  PopsPerGc,        \* POPS_PER_GC
  MaxSenders        \* bound: clones of the sender alive at a time

ASSUME ChannelAssumption ==
  /\ QueueStyle \in {"FIFO", "LIFO", "KLAST"}
  /\ MaxQueueSize \in Nat \ {0}
  /\ PopsPerGc \in Nat \ {0}
  /\ MaxSenders \in Nat \ {0}

VARIABLES
  per_key_queue,        \* a function from the keys with an entry to their queues
  round_robin_queue,
  num_popped_since_gc,
  waker,                \* whether a waker of the receiver is registered
  num_senders,
  receiver_dropped,
  stream_terminated,
  receiver              \* the receiving task: "ready" to poll, or "pending"

queues == <<per_key_queue, round_robin_queue, num_popped_since_gc>>
shared == <<waker, num_senders, receiver_dropped, stream_terminated>>
vars == <<queues, shared, receiver>>

-----------------------------------------------------------------------------
(* PerKeyQueue *)

NoQueues == [k \in {} |-> <<>>]

(* The messages of k; a key without an entry has none. *)
Pending(k) == IF k \in DOMAIN per_key_queue THEN per_key_queue[k] ELSE <<>>

With(k, q) ==
  [j \in DOMAIN per_key_queue \cup {k} |-> IF j = k THEN q ELSE per_key_queue[j]]

Pushed(q, m) ==
  IF Len(q) >= MaxQueueSize
  THEN IF QueueStyle = "FIFO" THEN q ELSE Append(Tail(q), m)
  ELSE Append(q, m)

(* Mutant: the style is ignored. *)
PoppedFront(q) == Tail(q)

Popped(q) == IF QueueStyle = "LIFO" THEN SubSeq(q, 1, Len(q) - 1) ELSE Tail(q)

QueuePush(k, m) ==
  /\ per_key_queue' = With(k, Pushed(Pending(k), m))
  /\ round_robin_queue' =
       IF Pending(k) = <<>> THEN Append(round_robin_queue, k) ELSE round_robin_queue
  /\ UNCHANGED num_popped_since_gc

RemoveEmptyQueues(pkq) == [k \in {j \in DOMAIN pkq : pkq[j] # <<>>} |-> pkq[k]]

(* Mutant: the key that was served keeps its place. *)
QueuePopGreedy ==
  LET k == Head(round_robin_queue)
      q == IF Pending(k) = <<>> THEN <<>> ELSE Popped(Pending(k))
  IN /\ round_robin_queue' = IF q = <<>> THEN Tail(round_robin_queue) ELSE round_robin_queue
     /\ per_key_queue' = With(k, q)
     /\ UNCHANGED num_popped_since_gc

(***************************************************************************)
(* pop, on a round robin that is not empty.  A key in the round robin      *)
(* without a message would be dropped from it, and nothing returned.       *)
(***************************************************************************)
QueuePop ==
  LET k == Head(round_robin_queue)
      found == Pending(k) # <<>>
      q == IF found THEN Popped(Pending(k)) ELSE <<>>
      pkq == IF k \in DOMAIN per_key_queue THEN With(k, q) ELSE per_key_queue
      gc == found /\ num_popped_since_gc + 1 >= PopsPerGc
  IN /\ round_robin_queue' =
          IF q = <<>> THEN Tail(round_robin_queue) ELSE Append(Tail(round_robin_queue), k)
     /\ per_key_queue' = IF gc THEN RemoveEmptyQueues(pkq) ELSE pkq
     /\ num_popped_since_gc' =
          IF gc THEN 0 ELSE IF found THEN num_popped_since_gc + 1 ELSE num_popped_since_gc

QueueClear ==
  /\ per_key_queue' = NoQueues
  /\ round_robin_queue' = <<>>
  /\ UNCHANGED num_popped_since_gc

-----------------------------------------------------------------------------
(* Senders and the receiver *)

Init ==
  /\ per_key_queue = NoQueues
  /\ round_robin_queue = <<>>
  /\ num_popped_since_gc = 0
  /\ waker = FALSE
  /\ num_senders = 1
  /\ receiver_dropped = FALSE
  /\ stream_terminated = FALSE
  /\ receiver = "ready"

(* waker.take() and wake(): the executor will poll the task again. *)
Wake ==
  /\ waker' = FALSE
  /\ receiver' = IF waker THEN "ready" ELSE receiver

(* push_with_feedback; on a closed channel it only reports an error. *)
Push(k, m) ==
  /\ num_senders > 0 /\ ~receiver_dropped
  /\ QueuePush(k, m)
  /\ Wake
  /\ UNCHANGED <<num_senders, receiver_dropped, stream_terminated>>

CloneSender ==
  /\ num_senders \in 1..(MaxSenders - 1)
  /\ num_senders' = num_senders + 1
  /\ UNCHANGED <<queues, waker, receiver_dropped, stream_terminated, receiver>>

(* Mutant: the last sender leaves without waking the receiver. *)
DropSenderQuietly ==
  /\ num_senders > 0
  /\ num_senders' = num_senders - 1
  /\ UNCHANGED <<queues, waker, receiver_dropped, stream_terminated, receiver>>

DropSender ==
  /\ num_senders > 0
  /\ num_senders' = num_senders - 1
  /\ IF num_senders = 1 THEN Wake ELSE UNCHANGED <<waker, receiver>>
  /\ UNCHANGED <<queues, receiver_dropped, stream_terminated>>

ReceiverClear ==
  /\ ~receiver_dropped
  /\ QueueClear
  /\ UNCHANGED <<shared, receiver>>

DropReceiver ==
  /\ ~receiver_dropped
  /\ receiver_dropped' = TRUE
  /\ UNCHANGED <<queues, waker, num_senders, stream_terminated, receiver>>

(* pop finds a message: the first key of the round robin has one. *)
HasMessage ==
  IF round_robin_queue = <<>> THEN FALSE ELSE Pending(Head(round_robin_queue)) # <<>>

(* poll_next: a message, the end of the stream, or a registered waker. *)
PollNext ==
  /\ ~receiver_dropped /\ ~stream_terminated /\ receiver = "ready"
  /\ IF round_robin_queue = <<>> THEN UNCHANGED queues ELSE QueuePop
  /\ IF HasMessage THEN UNCHANGED <<shared, receiver>>
     ELSE IF num_senders = 0
     THEN stream_terminated' = TRUE /\ UNCHANGED <<waker, num_senders, receiver_dropped, receiver>>
     ELSE /\ waker' = TRUE
          /\ receiver' = "pending"
          /\ UNCHANGED <<num_senders, receiver_dropped, stream_terminated>>

(* Another future of the same task wakes it; the waker stays registered. *)
OtherWake ==
  /\ receiver = "pending" /\ ~receiver_dropped
  /\ receiver' = "ready"
  /\ UNCHANGED <<queues, shared>>

Next ==
  \/ \E k \in Keys, m \in Messages : Push(k, m)
  \/ CloneSender \/ DropSender \/ ReceiverClear \/ DropReceiver \/ PollNext \/ OtherWake

Spec == Init /\ [][Next]_vars

(* A task that is ready is polled, and its loop polls the stream again. *)
FairSpec == Spec /\ WF_vars(PollNext)

-----------------------------------------------------------------------------

TypeOK ==
  /\ DOMAIN per_key_queue \subseteq Keys
  /\ \A k \in DOMAIN per_key_queue : per_key_queue[k] \in Seq(Messages)
  /\ round_robin_queue \in Seq(Keys)
  /\ num_popped_since_gc \in 0..(PopsPerGc - 1)
  /\ waker \in BOOLEAN
  /\ num_senders \in 0..MaxSenders
  /\ receiver_dropped \in BOOLEAN
  /\ stream_terminated \in BOOLEAN
  /\ receiver \in {"ready", "pending"}

(***************************************************************************)
(* The round robin holds every key with messages exactly once, and no      *)
(* other: push adds a key only when its queue was empty, pop puts it back  *)
(* only when messages are left, and the garbage collection of empty queues *)
(* and clear touch no key of it.  A key missing from it would never be     *)
(* served again, since push would find its queue not empty.                *)
(***************************************************************************)
RoundRobinExact ==
  /\ \A k \in Keys : Pending(k) # <<>> <=> \E i \in 1..Len(round_robin_queue) : round_robin_queue[i] = k
  /\ \A i, j \in 1..Len(round_robin_queue) : round_robin_queue[i] = round_robin_queue[j] => i = j

(***************************************************************************)
(* No lost wake-up: a receiver that sleeps has its waker registered, no    *)
(* message to take, and a sender left to wake it (or to leave last).       *)
(***************************************************************************)
NoLostWakeup ==
  receiver = "pending" /\ ~receiver_dropped =>
    waker /\ round_robin_queue = <<>> /\ num_senders > 0

(* The bounded, independent queues the channel stands for. *)
Abstract ==
  INSTANCE KeyedQueue WITH
    queue <- [k \in Keys |-> Pending(k)], closed <- receiver_dropped

(***************************************************************************)
(* The channel is a bounded queue per key: an overflow, a garbage          *)
(* collection or another key's traffic never removes or reorders a         *)
(* message of a key.                                                       *)
(***************************************************************************)
ImplementsKeyedQueue == Abstract!Spec

(***************************************************************************)
(* Every key is served, whatever the others send: neither the round robin  *)
(* nor a missed wake-up starves a key.                                     *)
(***************************************************************************)
EveryKeyIsServed == \A k \in Keys : Abstract!Served(k)

(* When the last sender is gone the receiver learns that the stream ended. *)
StreamEnds == num_senders = 0 ~> stream_terminated \/ receiver_dropped

(* The receiver gets everything it waits for: messages and the end. *)
ReceiverProgress == EveryKeyIsServed /\ StreamEnds

=============================================================================
