------------------------- MODULE ArxChannelProofs -------------------------
(***************************************************************************)
(* For any keys, messages, queue style and limits: the types, the exact    *)
(* round robin, no lost wake-up, and the channel as an implementation of   *)
(* KeyedQueue.                                                             *)
(***************************************************************************)
EXTENDS ArxChannel, SequenceTheorems, TLAPS

(* The messages of a key form a sequence. *)
LEMMA PendingType ==
  ASSUME TypeOK, NEW k \in Keys
  PROVE  Pending(k) \in Seq(Messages)
BY EmptySeq DEF TypeOK, Pending

(* A queue to which a message was appended is not empty. *)
LEMMA AppendedType ==
  ASSUME NEW q \in Seq(Messages), NEW m \in Messages
  PROVE  Append(q, m) \in Seq(Messages) /\ Append(q, m) # <<>>
BY AppendProperties

(* push returns a queue that is not empty. *)
LEMMA PushedType ==
  ASSUME NEW q \in Seq(Messages), NEW m \in Messages
  PROVE  Pushed(q, m) \in Seq(Messages) /\ Pushed(q, m) # <<>>
<1>1. CASE Len(q) >= MaxQueueSize
  <2>1. Len(q) > 0 /\ q # <<>>
    BY <1>1, ChannelAssumption, EmptySeq, LenProperties
  <2>2. Tail(q) \in Seq(Messages)
    BY <2>1, HeadTailProperties
  <2>3. Append(Tail(q), m) \in Seq(Messages) /\ Append(Tail(q), m) # <<>>
    BY <2>2, AppendedType, Zenon
  <2> QED BY <1>1, <2>1, <2>3 DEF Pushed
<1>2. CASE ~(Len(q) >= MaxQueueSize)
  <2>1. Append(q, m) \in Seq(Messages) /\ Append(q, m) # <<>>
    BY AppendedType
  <2> QED BY <1>2, <2>1 DEF Pushed
<1> QED BY <1>1, <1>2

(* What is left after a message was taken is a sequence. *)
LEMMA PoppedType ==
  ASSUME NEW q \in Seq(Messages), q # <<>>
  PROVE  Popped(q) \in Seq(Messages)
<1>1. Tail(q) \in Seq(Messages)
  BY HeadTailProperties
<1>2. SubSeq(q, 1, Len(q) - 1) \in Seq(Messages)
  BY SubSeqProperties, LenProperties, EmptySeq
<1> QED BY <1>1, <1>2 DEF Popped

(* push changes the queue of its key and no other. *)
LEMMA PushPending ==
  ASSUME TypeOK, NEW k \in Keys, NEW m \in Messages, QueuePush(k, m)
  PROVE  /\ \A j \in Keys : Pending(j)' = IF j = k THEN Pushed(Pending(k), m) ELSE Pending(j)
         /\ DOMAIN per_key_queue' = DOMAIN per_key_queue \cup {k}
BY DEF QueuePush, With, Pending

(* clear empties every queue. *)
LEMMA ClearPending ==
  ASSUME QueueClear
  PROVE  /\ \A j \in Keys : Pending(j)' = <<>>
         /\ DOMAIN per_key_queue' = {}
BY DEF QueueClear, NoQueues, Pending

(* The round robin serves a key that has a message. *)
LEMMA HeadHasMessage ==
  ASSUME TypeOK, RoundRobinExact, round_robin_queue # <<>>
  PROVE  /\ Head(round_robin_queue) \in Keys
         /\ Pending(Head(round_robin_queue)) # <<>>
         /\ Head(round_robin_queue) \in DOMAIN per_key_queue
         /\ HasMessage
<1>1. round_robin_queue \in Seq(Keys)
  BY DEF TypeOK
<1>2. Len(round_robin_queue) \in Nat \ {0} /\ Head(round_robin_queue) = round_robin_queue[1]
  BY <1>1, EmptySeq, HeadTailProperties
<1>3. Head(round_robin_queue) \in Keys
  BY <1>1, HeadTailProperties
<1>4. Pending(Head(round_robin_queue)) # <<>>
  BY <1>2, <1>3 DEF RoundRobinExact
<1> QED BY <1>3, <1>4 DEF Pending, HasMessage

(***************************************************************************)
(* pop takes a message of the first key, and of no other; the garbage      *)
(* collection removes no message.                                          *)
(***************************************************************************)
LEMMA PopPending ==
  ASSUME TypeOK, RoundRobinExact, round_robin_queue # <<>>, QueuePop
  PROVE  LET k == Head(round_robin_queue)
         IN /\ \A j \in Keys :
                 Pending(j)' = IF j = k THEN Popped(Pending(k)) ELSE Pending(j)
            /\ DOMAIN per_key_queue' \subseteq DOMAIN per_key_queue
            /\ round_robin_queue' = IF Popped(Pending(k)) = <<>> THEN Tail(round_robin_queue)
                                    ELSE Append(Tail(round_robin_queue), k)
            /\ num_popped_since_gc' \in 0..(PopsPerGc - 1)
<1> DEFINE k == Head(round_robin_queue)
           q == Popped(Pending(k))
           pkq == With(k, q)
<1>1. k \in Keys /\ Pending(k) # <<>> /\ k \in DOMAIN per_key_queue
  BY HeadHasMessage
<1>2. /\ round_robin_queue' = IF q = <<>> THEN Tail(round_robin_queue)
                              ELSE Append(Tail(round_robin_queue), k)
      /\ \/ per_key_queue' = RemoveEmptyQueues(pkq) /\ num_popped_since_gc' = 0
         \/ /\ per_key_queue' = pkq
            /\ num_popped_since_gc + 1 < PopsPerGc
            /\ num_popped_since_gc' = num_popped_since_gc + 1
  BY <1>1, ChannelAssumption DEF QueuePop, TypeOK
<1>3. /\ DOMAIN pkq = DOMAIN per_key_queue
      /\ \A j \in DOMAIN per_key_queue : pkq[j] = IF j = k THEN q ELSE per_key_queue[j]
  BY <1>1, Zenon DEF With
<1> HIDE DEF pkq, q, k
<1>4. num_popped_since_gc' \in 0..(PopsPerGc - 1)
  BY <1>2, ChannelAssumption DEF TypeOK
<1>5. CASE per_key_queue' = pkq
  BY <1>1, <1>2, <1>3, <1>4, <1>5 DEF Pending, k, q
<1>6. CASE per_key_queue' = RemoveEmptyQueues(pkq)
  <2>1. /\ DOMAIN per_key_queue' = {j \in DOMAIN per_key_queue : pkq[j] # <<>>}
        /\ \A j \in DOMAIN per_key_queue' : per_key_queue'[j] = pkq[j]
    BY <1>3, <1>6 DEF RemoveEmptyQueues
  <2>2. \A j \in Keys : Pending(j)' = IF j = k THEN q ELSE Pending(j)
    BY <1>1, <1>3, <2>1 DEF Pending
  <2> QED BY <1>2, <1>4, <2>1, <2>2 DEF k, q
<1> QED BY <1>2, <1>5, <1>6

-----------------------------------------------------------------------------
(* The inductive invariant *)

ChannelInv == TypeOK /\ RoundRobinExact /\ NoLostWakeup

\* An empty channel satisfies the invariant.
LEMMA InitInv == Init => ChannelInv
<1> SUFFICES ASSUME Init PROVE ChannelInv
  OBVIOUS
<1>1. TypeOK
  <2>1. DOMAIN per_key_queue = {} /\ round_robin_queue \in Seq(Keys)
    BY EmptySeq DEF Init, NoQueues
  <2>2. num_popped_since_gc \in 0..(PopsPerGc - 1) /\ num_senders \in 0..MaxSenders
    BY ChannelAssumption DEF Init
  <2>3. waker \in BOOLEAN /\ receiver_dropped \in BOOLEAN /\ stream_terminated \in BOOLEAN
    BY Zenon DEF Init
  <2> QED BY <2>1, <2>2, <2>3, Zenon DEF Init, TypeOK
<1>2. RoundRobinExact
  BY EmptySeq DEF Init, RoundRobinExact, NoQueues, Pending
<1> QED BY <1>1, <1>2 DEF ChannelInv, Init, NoLostWakeup

In(x, s) == \E i \in 1..Len(s) : s[i] = x

Distinct(s) == \A i, j \in 1..Len(s) : s[i] = s[j] => i = j

(* An element that is appended becomes a member, once. *)
LEMMA AppendIn ==
  ASSUME NEW S, NEW s \in Seq(S), NEW e \in S
  PROVE  /\ Append(s, e) \in Seq(S)
         /\ \A x : In(x, Append(s, e)) <=> x = e \/ In(x, s)
         /\ Distinct(s) /\ ~In(e, s) => Distinct(Append(s, e))
<1> DEFINE t == Append(s, e)
<1>1. /\ t \in Seq(S) /\ Len(s) \in Nat /\ Len(t) = Len(s) + 1
      /\ \A i \in 1..Len(s) : t[i] = s[i]
      /\ t[Len(s) + 1] = e
  BY AppendProperties, LenProperties
<1> HIDE DEF t
<1>2. \A i : i \in 1..Len(t) <=> i \in 1..Len(s) \/ i = Len(s) + 1
  BY <1>1
<1>3. \A x : In(x, t) <=> x = e \/ In(x, s)
  BY <1>1, <1>2 DEF In
<1>4. ASSUME Distinct(s), ~In(e, s) PROVE Distinct(t)
  BY <1>1, <1>2, <1>4 DEF In, Distinct
<1> QED BY <1>1, <1>3, <1>4 DEF t

(* The first element of a sequence without duplicates leaves it. *)
LEMMA TailIn ==
  ASSUME NEW S, NEW s \in Seq(S), s # <<>>, Distinct(s)
  PROVE  /\ Tail(s) \in Seq(S)
         /\ \A x : In(x, Tail(s)) <=> x # Head(s) /\ In(x, s)
         /\ Distinct(Tail(s))
<1> DEFINE t == Tail(s)
<1>1. /\ t \in Seq(S) /\ Len(s) \in Nat \ {0} /\ Len(t) = Len(s) - 1
      /\ \A i \in 1..Len(t) : t[i] = s[i + 1]
      /\ Head(s) = s[1]
  BY HeadTailProperties, LenProperties, EmptySeq
<1> HIDE DEF t
<1>2. \A i \in 1..Len(t) : i + 1 \in 1..Len(s) /\ i + 1 # 1
  BY <1>1
<1>3. \A i \in 1..Len(s) : i # 1 => i - 1 \in 1..Len(t) /\ s[i] = t[i - 1]
  BY <1>1
<1>4. \A x : In(x, t) <=> x # Head(s) /\ In(x, s)
  <2>1. ASSUME NEW x, In(x, t) PROVE x # Head(s) /\ In(x, s)
    <3>1. PICK i \in 1..Len(t) : t[i] = x
      BY <2>1 DEF In
    <3>2. s[i + 1] = x /\ i + 1 \in 1..Len(s) /\ i + 1 # 1 /\ 1 \in 1..Len(s)
      BY <1>1, <1>2, <3>1
    <3> QED BY <1>1, <3>2 DEF In, Distinct
  <2>2. ASSUME NEW x, x # Head(s), In(x, s) PROVE In(x, t)
    BY <1>1, <1>3, <2>2 DEF In
  <2> QED BY <2>1, <2>2
<1>5. Distinct(t)
  <2> SUFFICES ASSUME NEW i \in 1..Len(t), NEW j \in 1..Len(t), t[i] = t[j] PROVE i = j
    BY DEF Distinct
  <2>1. s[i + 1] = s[j + 1] /\ i + 1 \in 1..Len(s) /\ j + 1 \in 1..Len(s)
    BY <1>1, <1>2
  <2>2. i + 1 = j + 1
    BY <2>1 DEF Distinct
  <2> QED BY <2>2
<1> QED BY <1>1, <1>4, <1>5 DEF t

(* The round robin, in these terms. *)
LEMMA ExactMeans ==
  RoundRobinExact <=>
    /\ \A k \in Keys : Pending(k) # <<>> <=> In(k, round_robin_queue)
    /\ Distinct(round_robin_queue)
BY DEF RoundRobinExact, In, Distinct

(* A round robin step keeps the queues typed and the round robin exact. *)
LEMMA PushExact ==
  ASSUME ChannelInv, NEW k \in Keys, NEW m \in Messages, QueuePush(k, m)
  PROVE  /\ DOMAIN per_key_queue' \subseteq Keys
         /\ \A j \in DOMAIN per_key_queue' : per_key_queue'[j] \in Seq(Messages)
         /\ round_robin_queue' \in Seq(Keys)
         /\ num_popped_since_gc' \in 0..(PopsPerGc - 1)
         /\ RoundRobinExact'
<1>1. TypeOK /\ RoundRobinExact
  BY DEF ChannelInv
<1>2. /\ \A j \in Keys : Pending(j)' = IF j = k THEN Pushed(Pending(k), m) ELSE Pending(j)
      /\ DOMAIN per_key_queue' = DOMAIN per_key_queue \cup {k}
  BY <1>1, PushPending
<1>3. Pushed(Pending(k), m) \in Seq(Messages) /\ Pushed(Pending(k), m) # <<>>
  BY <1>1, PendingType, PushedType
<1>4. DOMAIN per_key_queue' \subseteq Keys
  BY <1>1, <1>2 DEF TypeOK
<1>5. \A j \in DOMAIN per_key_queue' : per_key_queue'[j] \in Seq(Messages)
  <2> TAKE j \in DOMAIN per_key_queue'
  <2>1. per_key_queue'[j] = Pending(j)' /\ j \in Keys
    BY <1>4 DEF Pending
  <2> QED BY <1>1, <1>2, <1>3, <2>1, PendingType
<1>6. CASE Pending(k) = <<>>
  <2>1. round_robin_queue' = Append(round_robin_queue, k) /\ round_robin_queue \in Seq(Keys)
    BY <1>1, <1>6 DEF QueuePush, TypeOK
  <2>2. ~In(k, round_robin_queue) /\ Distinct(round_robin_queue)
    BY <1>1, <1>6, ExactMeans
  <2>3. /\ round_robin_queue' \in Seq(Keys)
        /\ \A x : In(x, round_robin_queue') <=> x = k \/ In(x, round_robin_queue)
        /\ Distinct(round_robin_queue')
    BY <2>1, <2>2, AppendIn
  <2>4. \A j \in Keys : Pending(j)' # <<>> <=> In(j, round_robin_queue')
    BY <1>1, <1>2, <1>3, <2>3, ExactMeans
  <2> QED BY <1>1, <1>4, <1>5, <2>3, <2>4 DEF QueuePush, TypeOK, RoundRobinExact, In, Distinct
<1>7. CASE Pending(k) # <<>>
  <2>1. round_robin_queue' = round_robin_queue /\ round_robin_queue \in Seq(Keys)
    BY <1>1, <1>7 DEF QueuePush, TypeOK
  <2>2. \A j \in Keys : Pending(j)' # <<>> <=> In(j, round_robin_queue')
    BY <1>1, <1>2, <1>3, <1>7, <2>1, ExactMeans
  <2>3. Distinct(round_robin_queue')
    BY <1>1, <2>1, ExactMeans
  <2> QED BY <1>1, <1>4, <1>5, <2>1, <2>2, <2>3 DEF QueuePush, TypeOK, RoundRobinExact, In,
             Distinct
<1> QED BY <1>6, <1>7

(* pop puts the key back exactly if messages are left. *)
LEMMA PopExact ==
  ASSUME ChannelInv, round_robin_queue # <<>>, QueuePop
  PROVE  /\ DOMAIN per_key_queue' \subseteq Keys
         /\ \A j \in DOMAIN per_key_queue' : per_key_queue'[j] \in Seq(Messages)
         /\ round_robin_queue' \in Seq(Keys)
         /\ num_popped_since_gc' \in 0..(PopsPerGc - 1)
         /\ RoundRobinExact'
<1> DEFINE k == Head(round_robin_queue)
           q == Popped(Pending(k))
           rest == Tail(round_robin_queue)
<1>1. TypeOK /\ RoundRobinExact
  BY DEF ChannelInv
<1>2. k \in Keys /\ Pending(k) # <<>>
  BY <1>1, HeadHasMessage
<1>3. /\ \A j \in Keys : Pending(j)' = IF j = k THEN q ELSE Pending(j)
      /\ DOMAIN per_key_queue' \subseteq DOMAIN per_key_queue
      /\ round_robin_queue' = IF q = <<>> THEN rest ELSE Append(rest, k)
      /\ num_popped_since_gc' \in 0..(PopsPerGc - 1)
  BY <1>1, PopPending
<1>4. q \in Seq(Messages)
  BY <1>1, <1>2, PendingType, PoppedType
<1>5. /\ rest \in Seq(Keys)
      /\ \A x : In(x, rest) <=> x # k /\ In(x, round_robin_queue)
      /\ Distinct(rest)
  BY <1>1, TailIn, ExactMeans DEF TypeOK
<1>6. /\ Append(rest, k) \in Seq(Keys)
      /\ \A x : In(x, Append(rest, k)) <=> x = k \/ In(x, rest)
      /\ Distinct(Append(rest, k))
  BY <1>2, <1>5, AppendIn, Zenon
<1> HIDE DEF k, q, rest
<1>7. DOMAIN per_key_queue' \subseteq Keys
  BY <1>1, <1>3 DEF TypeOK
<1>8. \A j \in DOMAIN per_key_queue' : per_key_queue'[j] \in Seq(Messages)
  <2> TAKE j \in DOMAIN per_key_queue'
  <2>1. per_key_queue'[j] = Pending(j)' /\ j \in Keys
    BY <1>7 DEF Pending
  <2> QED BY <1>1, <1>3, <1>4, <2>1, PendingType
<1>9. round_robin_queue' \in Seq(Keys) /\ Distinct(round_robin_queue')
  BY <1>3, <1>5, <1>6
<1>10. \A j \in Keys : Pending(j)' # <<>> <=> In(j, round_robin_queue')
  BY <1>1, <1>3, <1>5, <1>6, ExactMeans
<1> QED BY <1>3, <1>7, <1>8, <1>9, <1>10 DEF RoundRobinExact, In, Distinct

(* clear leaves an empty round robin. *)
LEMMA ClearExact ==
  ASSUME ChannelInv, QueueClear
  PROVE  /\ DOMAIN per_key_queue' \subseteq Keys
         /\ \A j \in DOMAIN per_key_queue' : per_key_queue'[j] \in Seq(Messages)
         /\ round_robin_queue' \in Seq(Keys)
         /\ num_popped_since_gc' \in 0..(PopsPerGc - 1)
         /\ RoundRobinExact'
<1>1. DOMAIN per_key_queue' = {} /\ \A j \in Keys : Pending(j)' = <<>>
  BY ClearPending
<1>2. round_robin_queue' = <<>> /\ num_popped_since_gc' = num_popped_since_gc
  BY DEF QueueClear
<1>3. RoundRobinExact'
  BY <1>1, <1>2, EmptySeq DEF RoundRobinExact
<1> QED BY <1>1, <1>2, <1>3, EmptySeq DEF ChannelInv, TypeOK

(* A step that leaves the queues alone keeps them exact. *)
LEMMA SameQueues ==
  ASSUME ChannelInv, UNCHANGED queues
  PROVE  /\ DOMAIN per_key_queue' \subseteq Keys
         /\ \A j \in DOMAIN per_key_queue' : per_key_queue'[j] \in Seq(Messages)
         /\ round_robin_queue' \in Seq(Keys)
         /\ num_popped_since_gc' \in 0..(PopsPerGc - 1)
         /\ RoundRobinExact'
BY DEF ChannelInv, TypeOK, RoundRobinExact, Pending, queues

(* What the flags of the channel may do in a step. *)
LEMMA StepInv == ChannelInv /\ [Next]_vars => ChannelInv'
<1> SUFFICES ASSUME ChannelInv, [Next]_vars PROVE ChannelInv'
  OBVIOUS
<1> USE DEF shared
<1>0. TypeOK /\ RoundRobinExact /\ NoLostWakeup
  BY DEF ChannelInv
<1>1. ASSUME NEW k \in Keys, NEW m \in Messages, Push(k, m) PROVE ChannelInv'
  <2>1. /\ DOMAIN per_key_queue' \subseteq Keys
        /\ \A j \in DOMAIN per_key_queue' : per_key_queue'[j] \in Seq(Messages)
        /\ round_robin_queue' \in Seq(Keys)
        /\ num_popped_since_gc' \in 0..(PopsPerGc - 1)
        /\ RoundRobinExact'
    BY <1>1, PushExact DEF Push
  <2>2. /\ waker' = FALSE /\ receiver' \in {"ready", "pending"}
        /\ receiver' = "pending" => receiver = "pending" /\ ~waker
        /\ num_senders' = num_senders /\ receiver_dropped' = receiver_dropped
        /\ stream_terminated' = stream_terminated /\ ~receiver_dropped
    BY <1>0, <1>1, Zenon DEF Push, Wake, TypeOK
  <2>3. TypeOK'
    BY <1>0, <2>1, <2>2, Zenon DEF TypeOK
  <2>4. NoLostWakeup'
    BY <1>0, <2>2, Zenon DEF NoLostWakeup
  <2> QED BY <2>1, <2>3, <2>4 DEF ChannelInv
<1>2. CASE CloneSender
  <2>1. RoundRobinExact' /\ UNCHANGED <<queues, waker, receiver_dropped, stream_terminated, receiver>>
    BY <1>2, SameQueues DEF CloneSender
  <2>2. num_senders' \in 0..MaxSenders /\ num_senders' > 0
    BY <1>0, <1>2, ChannelAssumption DEF CloneSender, TypeOK
  <2>3. TypeOK'
    BY <1>0, <2>1, <2>2, Zenon DEF TypeOK, queues
  <2>4. NoLostWakeup'
    BY <1>0, <2>1, <2>2, Zenon DEF NoLostWakeup, queues
  <2> QED BY <2>1, <2>3, <2>4 DEF ChannelInv
<1>3. CASE DropSender
  <2>1. RoundRobinExact' /\ UNCHANGED <<queues, receiver_dropped, stream_terminated>>
    BY <1>3, SameQueues DEF DropSender
  <2>2. num_senders' \in 0..MaxSenders /\ (num_senders # 1 => num_senders' > 0)
    BY <1>0, <1>3, ChannelAssumption DEF DropSender, TypeOK
  <2>3. \/ num_senders # 1 /\ UNCHANGED <<waker, receiver>>
        \/ /\ waker' = FALSE /\ receiver' \in {"ready", "pending"}
           /\ receiver' = "pending" => receiver = "pending" /\ ~waker
    BY <1>0, <1>3, Zenon DEF DropSender, Wake, TypeOK
  <2>4. TypeOK'
    BY <1>0, <2>1, <2>2, <2>3, Zenon DEF TypeOK, queues
  <2>5. NoLostWakeup'
    BY <1>0, <2>1, <2>2, <2>3, Zenon DEF NoLostWakeup, queues
  <2> QED BY <2>1, <2>4, <2>5 DEF ChannelInv
<1>4. CASE ReceiverClear
  <2>1. /\ DOMAIN per_key_queue' \subseteq Keys
        /\ \A j \in DOMAIN per_key_queue' : per_key_queue'[j] \in Seq(Messages)
        /\ round_robin_queue' \in Seq(Keys)
        /\ num_popped_since_gc' \in 0..(PopsPerGc - 1)
        /\ RoundRobinExact'
    BY <1>4, ClearExact DEF ReceiverClear
  <2>2. round_robin_queue' = <<>> /\ UNCHANGED <<shared, receiver>>
    BY <1>4 DEF ReceiverClear, QueueClear
  <2>3. TypeOK'
    BY <1>0, <2>1, <2>2, Zenon DEF TypeOK
  <2>4. NoLostWakeup'
    BY <1>0, <2>2, Zenon DEF NoLostWakeup
  <2> QED BY <2>1, <2>3, <2>4 DEF ChannelInv
<1>5. CASE DropReceiver
  <2>1. RoundRobinExact' /\ UNCHANGED <<queues, waker, num_senders, stream_terminated, receiver>>
    BY <1>5, SameQueues DEF DropReceiver
  <2>2. receiver_dropped' = TRUE
    BY <1>5 DEF DropReceiver
  <2>3. TypeOK'
    BY <1>0, <2>1, <2>2, Zenon DEF TypeOK, queues
  <2>4. NoLostWakeup'
    BY <2>2, Zenon DEF NoLostWakeup
  <2> QED BY <2>1, <2>3, <2>4 DEF ChannelInv
<1>6. CASE PollNext
  <2>1. /\ DOMAIN per_key_queue' \subseteq Keys
        /\ \A j \in DOMAIN per_key_queue' : per_key_queue'[j] \in Seq(Messages)
        /\ round_robin_queue' \in Seq(Keys)
        /\ num_popped_since_gc' \in 0..(PopsPerGc - 1)
        /\ RoundRobinExact'
    BY <1>6, PopExact, SameQueues, Zenon DEF PollNext
  <2>2. HasMessage <=> round_robin_queue # <<>>
    BY <1>0, HeadHasMessage DEF HasMessage
  <2>3. receiver = "ready" /\ UNCHANGED <<num_senders, receiver_dropped>>
    BY <1>6, Zenon DEF PollNext
  <2>4. \/ UNCHANGED <<waker, stream_terminated, receiver>>
        \/ stream_terminated' = TRUE /\ UNCHANGED <<waker, receiver>>
        \/ /\ round_robin_queue = <<>> /\ UNCHANGED queues /\ num_senders # 0
           /\ waker' = TRUE /\ receiver' = "pending" /\ UNCHANGED stream_terminated
    BY <1>6, <2>2, Zenon DEF PollNext
  <2>5. TypeOK'
    BY <1>0, <2>1, <2>3, <2>4, Zenon DEF TypeOK
  <2>6. NoLostWakeup'
    <3>1. num_senders # 0 => num_senders > 0
      BY <1>0 DEF TypeOK
    <3>2. receiver' = "pending" => waker' /\ round_robin_queue' = <<>> /\ num_senders > 0
      BY <2>3, <2>4, <3>1 DEF queues
    <3> QED BY <2>3, <3>2, Zenon DEF NoLostWakeup
  <2> QED BY <2>1, <2>5, <2>6 DEF ChannelInv
<1>7. CASE OtherWake
  <2>1. RoundRobinExact' /\ UNCHANGED <<queues, shared>> /\ receiver' = "ready"
    BY <1>7, SameQueues DEF OtherWake
  <2>2. TypeOK'
    BY <1>0, <2>1, Zenon DEF TypeOK, queues
  <2>3. NoLostWakeup'
    BY <2>1 DEF NoLostWakeup
  <2> QED BY <2>1, <2>2, <2>3 DEF ChannelInv
<1>8. CASE UNCHANGED vars
  <2>1. RoundRobinExact' /\ UNCHANGED <<queues, shared, receiver>>
    BY <1>8, SameQueues DEF vars
  <2>2. TypeOK' /\ NoLostWakeup'
    BY <1>0, <2>1, Zenon DEF TypeOK, NoLostWakeup, queues
  <2> QED BY <2>1, <2>2 DEF ChannelInv
<1> QED BY <1>1, <1>2, <1>3, <1>4, <1>5, <1>6, <1>7, <1>8 DEF Next

-----------------------------------------------------------------------------

(* All three invariants of the channel hold in every reachable state. *)
THEOREM ChannelInvariant == Spec => []ChannelInv
BY InitInv, StepInv, PTL DEF Spec

(* The round robin of PerKeyQueue holds exactly the keys with messages. *)
THEOREM RoundRobinIsExact == Spec => []RoundRobinExact
<1>1. ChannelInv => RoundRobinExact
  BY DEF ChannelInv
<1> QED BY <1>1, ChannelInvariant, PTL

(* A receiver that sleeps in poll_next will be woken. *)
THEOREM WakeupsAreKept == Spec => []NoLostWakeup
<1>1. ChannelInv => NoLostWakeup
  BY DEF ChannelInv
<1> QED BY <1>1, ChannelInvariant, PTL

(* push and KeyedQueue's Send agree on what a full queue drops. *)
LEMMA SamePush ==
  ASSUME NEW q \in Seq(Messages), NEW m \in Messages
  PROVE  Pushed(q, m) = Abstract!Accept(q, m)
<1>1. Len(q) \in Nat
  BY LenProperties
<1>2. Len(q) >= MaxQueueSize <=> ~(Len(q) < MaxQueueSize)
  BY <1>1, ChannelAssumption
<1> QED BY <1>2, Zenon DEF Pushed, Abstract!Accept

(* poll_next and Receive agree on which message is taken. *)
LEMMA SamePop ==
  ASSUME NEW q
  PROVE  Popped(q) = Abstract!Without(q)
BY DEF Popped, Abstract!Without

(* A change of one key's messages is a change of one abstract queue. *)
LEMMA OneQueue ==
  ASSUME NEW k \in Keys, NEW q,
         \A j \in Keys : Pending(j)' = IF j = k THEN q ELSE Pending(j)
  PROVE  [j \in Keys |-> Pending(j)]' = [[j \in Keys |-> Pending(j)] EXCEPT ![k] = q]
BY Zenon

(* Every step of the channel is a step of KeyedQueue, or changes nothing there. *)
LEMMA StepRefines ==
  ASSUME ChannelInv, [Next]_vars
  PROVE  [Abstract!Next]_(Abstract!vars)
<1> DEFINE queue == [j \in Keys |-> Pending(j)]
<1>0. TypeOK /\ RoundRobinExact
  BY DEF ChannelInv
<1>a. ASSUME UNCHANGED queues PROVE queue' = queue
  BY <1>a DEF queues, Pending
<1>1. ASSUME NEW k \in Keys, NEW m \in Messages, Push(k, m) PROVE Abstract!Send(k, m)
  <2>1. \A j \in Keys : Pending(j)' = IF j = k THEN Pushed(Pending(k), m) ELSE Pending(j)
    BY <1>0, <1>1, PushPending, Zenon DEF Push
  <2>2. Pushed(Pending(k), m) = Abstract!Accept(Pending(k), m)
    BY <1>0, PendingType, SamePush
  <2>3. queue' = [queue EXCEPT ![k] = Abstract!Accept(Pending(k), m)]
    BY <2>1, <2>2, OneQueue
  <2>4. queue[k] = Pending(k)
    OBVIOUS
  <2>5. ~receiver_dropped /\ receiver_dropped' = receiver_dropped
    BY <1>1 DEF Push
  <2> QED BY <2>3, <2>4, <2>5 DEF Abstract!Send
<1>2. CASE CloneSender \/ DropSender \/ OtherWake \/ UNCHANGED vars
  <2>1. UNCHANGED queues /\ receiver_dropped' = receiver_dropped
    BY <1>2 DEF CloneSender, DropSender, OtherWake, vars, shared
  <2> QED BY <1>a, <2>1 DEF Abstract!vars
<1>3. CASE ReceiverClear
  <2>1. ~receiver_dropped /\ receiver_dropped' = receiver_dropped
    BY <1>3 DEF ReceiverClear, shared
  <2>2. queue' = [j \in Keys |-> <<>>]
    BY <1>3, ClearPending DEF ReceiverClear
  <2> QED BY <2>1, <2>2 DEF Abstract!Next, Abstract!Clear
<1>4. CASE DropReceiver
  <2>1. ~receiver_dropped /\ receiver_dropped' = TRUE /\ UNCHANGED queues
    BY <1>4 DEF DropReceiver
  <2> QED BY <1>a, <2>1 DEF Abstract!Next, Abstract!Close
<1>5. CASE PollNext
  <2>1. ~receiver_dropped /\ receiver_dropped' = receiver_dropped
    BY <1>5, Zenon DEF PollNext, shared
  <2>2. CASE round_robin_queue = <<>>
    <3>1. UNCHANGED queues
      BY <1>5, <2>2 DEF PollNext
    <3> QED BY <1>a, <2>1, <3>1 DEF Abstract!vars
  <2>3. CASE round_robin_queue # <<>>
    <3> DEFINE k == Head(round_robin_queue)
    <3>1. k \in Keys /\ Pending(k) # <<>>
      BY <1>0, <2>3, HeadHasMessage
    <3>2. \A j \in Keys : Pending(j)' = IF j = k THEN Popped(Pending(k)) ELSE Pending(j)
      BY <1>0, <1>5, <2>3, PopPending DEF PollNext
    <3> HIDE DEF k
    <3>3. queue' = [queue EXCEPT ![k] = Popped(Pending(k))]
      BY <3>1, <3>2, OneQueue
    <3>4. queue[k] = Pending(k)
      BY <3>1
    <3>5. Abstract!Receive(k)
      BY <2>1, <3>1, <3>3, <3>4, SamePop, Zenon DEF Abstract!Receive
    <3> QED BY <3>1, <3>5 DEF Abstract!Next
  <2> QED BY <2>2, <2>3
<1> QED BY <1>1, <1>2, <1>3, <1>4, <1>5 DEF Next, Abstract!Next

(***************************************************************************)
(* The channel implements KeyedQueue: independent bounded queues per key,  *)
(* whatever the garbage collection, the senders and the wakers do.         *)
(***************************************************************************)
THEOREM ChannelRefines == Spec => ImplementsKeyedQueue
<1>1. Init => Abstract!Init
  BY DEF Init, NoQueues, Pending, Abstract!Init
<1>2. ChannelInv /\ [Next]_vars => [Abstract!Next]_(Abstract!vars)
  BY StepRefines
<1> QED BY <1>1, <1>2, ChannelInvariant, PTL DEF Spec, ImplementsKeyedQueue, Abstract!Spec

=============================================================================
