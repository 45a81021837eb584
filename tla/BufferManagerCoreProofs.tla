---------------------- MODULE BufferManagerCoreProofs ----------------------
(***************************************************************************)
(* What the buffer manager and the phases do to the queue: each helper,    *)
(* each arm of the manager's loop, each phase and each step of consensus   *)
(* keeps CoreInv, for any number of blocks and any batches.                *)
(***************************************************************************)
EXTENDS BufferManagerInv, WellFoundedInduction, TLAPS

-----------------------------------------------------------------------------
(* Channels and least elements. *)

\* Sending keeps a channel a channel.
LEMMA SendType ==
    ASSUME NEW S, NEW channel \in [S -> Nat], NEW T
    PROVE  Send(channel, T) \in [S -> Nat]
BY DEF Send

\* The messages in a channel after sending.
LEMMA SendContent ==
    ASSUME NEW S, NEW channel \in [S -> Nat], NEW T \in SUBSET S
    PROVE  \A e : e \in InFlight(Send(channel, T)) <=> e \in InFlight(channel) \/ e \in T
BY DEF Send, InFlight

\* Receiving takes nothing but the message out of a channel.
LEMMA ReceiveFields ==
    ASSUME NEW S, NEW channel \in [S -> Nat], NEW message \in S, channel[message] > 0
    PROVE  /\ Receive(channel, message) \in [S -> Nat]
           /\ \A e \in InFlight(Receive(channel, message)) : e \in InFlight(channel)
BY DEF Receive, InFlight

\* A new channel is empty.
LEMMA IdleFields ==
    ASSUME NEW S
    PROVE  Idle(S) \in [S -> Nat] /\ InFlight(Idle(S)) = {}
BY DEF Idle, InFlight

\* A set of numbers has a least element.
LEMMA LeastOf ==
    ASSUME NEW T \in SUBSET Nat, T # {}
    PROVE  Min(T) \in T /\ \A n \in T : Min(T) <= n
<1> DEFINE R == OpToRel(<, Nat)
<1>1. PICK k \in T : \A n \in T : ~ (<<n, k>> \in R)
  BY NatLessThanWellFounded, WFMin, Zenon
<1>2. \A n, l \in Nat : n < l => <<n, l>> \in R
  BY Zenon DEF OpToRel
<1> HIDE DEF R
<1>3. ASSUME NEW n \in T PROVE k <= n
  <2>1. n \in Nat /\ k \in Nat
    BY Zenon
  <2>2. ~ (n < k)
    BY <1>1, <1>2, <2>1, Zenon
  <2> QED BY <2>1, <2>2
<1> QED BY <1>3, Zenon DEF Min

-----------------------------------------------------------------------------
(* The manager's fields. *)

\* The fields of a batch.
LEMMA BatchFields ==
    ASSUME NEW b \in Batches
    PROVE  /\ b.first \in Nat /\ b.last \in Nat /\ b.first \in Blocks /\ b.last \in Blocks
           /\ 1 <= b.first /\ b.first <= b.last
           /\ b = [first |-> b.first, last |-> b.last]
<1>1. NumBlocks \in Nat
  BY BufferManagerAssumption, Zenon
<1> QED BY <1>1 DEF Batches, Blocks

\* The fields of a buffered item.
LEMMA ItemFields ==
    ASSUME NEW m, IsBufferManager(m), NEW i \in DOMAIN m.buffer
    PROVE  /\ m.buffer[i] \in BufferItem
           /\ m.buffer[i].batch \in Batches
           /\ m.buffer[i].stage \in {"Ordered", "Executed", "Signed"}
           /\ m.buffer[i].sigs \in SUBSET Validators
           /\ m.buffer[i].commit_proof \in BOOLEAN
           /\ i \in 1 .. Len(m.buffer) /\ i \in Nat /\ Len(m.buffer) \in Nat
<1>1. m.buffer \in Seq(BufferItem)
  BY Zenon DEF IsBufferManager
<1>2. m.buffer[i] \in BufferItem /\ i \in 1 .. Len(m.buffer) /\ Len(m.buffer) \in Nat
  BY <1>1
<1> QED BY <1>2 DEF BufferItem

\* Positions of a block in the buffer.
LEMMA PositionsFields ==
    ASSUME NEW m, IsBufferManager(m), NEW block
    PROVE  /\ Positions(m, block) \subseteq DOMAIN m.buffer
           /\ DOMAIN m.buffer = 1 .. Len(m.buffer) /\ Len(m.buffer) \in Nat
           /\ Positions(m, block) \subseteq Nat
           /\ Positions(m, None) = {}
<1>1. m.buffer \in Seq(BufferItem)
  BY Zenon DEF IsBufferManager
<1>2. DOMAIN m.buffer = 1 .. Len(m.buffer) /\ Len(m.buffer) \in Nat
  BY <1>1
<1>3. Positions(m, block) \subseteq DOMAIN m.buffer
  BY Zenon DEF Positions
<1>4. \A i \in DOMAIN m.buffer : m.buffer[i].batch.last # None
  <2> TAKE i \in DOMAIN m.buffer
  <2>1. m.buffer[i].batch \in Batches
    BY ItemFields, Zenon
  <2>2. m.buffer[i].batch.last \in Nat /\ 1 <= m.buffer[i].batch.first
        /\ m.buffer[i].batch.first <= m.buffer[i].batch.last
        /\ m.buffer[i].batch.first \in Nat
    BY <2>1, BatchFields, Zenon
  <2> QED BY <2>2 DEF None
<1>5. Positions(m, None) = {}
  BY <1>4, Zenon DEF Positions
<1>6. DOMAIN m.buffer \subseteq Nat
  BY <1>2
<1> QED BY <1>2, <1>3, <1>5, <1>6, Zenon

\* find_elem_from: the first item of the stage at or after the cursor.
LEMMA FindElemFromResult ==
    ASSUME NEW m, IsBufferManager(m), NEW cursor, NEW stage
    PROVE  LET next == FindElemFrom(m, cursor, stage)
               Found(j) == /\ m.buffer[j].stage = stage
                           /\ IF cursor = None THEN TRUE
                              ELSE \E i \in Positions(m, cursor) : i <= j
           IN  \/ next = None /\ \A j \in DOMAIN m.buffer : ~Found(j)
               \/ \E n \in DOMAIN m.buffer :
                     /\ next = m.buffer[n].batch.last /\ next \in Blocks /\ Found(n)
                     /\ \A j \in DOMAIN m.buffer : Found(j) => n <= j
<1> DEFINE next == FindElemFrom(m, cursor, stage)
           Found(j) == /\ m.buffer[j].stage = stage
                       /\ IF cursor = None THEN TRUE
                          ELSE \E i \in Positions(m, cursor) : i <= j
           start == IF cursor = None THEN {1} ELSE Positions(m, cursor)
           found == {j \in DOMAIN m.buffer :
                        /\ m.buffer[j].stage = stage
                        /\ \E i \in start : i <= j}
<1>1. DOMAIN m.buffer = 1 .. Len(m.buffer) /\ Len(m.buffer) \in Nat
  BY PositionsFields, Zenon
<1>2. \A j \in DOMAIN m.buffer : 1 <= j /\ j \in Nat
  BY <1>1
<1>3. \A j \in DOMAIN m.buffer : j \in found <=> Found(j)
  BY <1>2, Zenon
<1>4. next = IF found = {} THEN None ELSE m.buffer[Min(found)].batch.last
  BY Zenon DEF FindElemFrom
<1> HIDE DEF next
<1>5. CASE found = {}
  BY <1>3, <1>4, <1>5, Zenon DEF next
<1>6. CASE found # {}
  <2>1. found \subseteq DOMAIN m.buffer /\ found \in SUBSET Nat
    BY <1>2, Zenon
  <2>2. Min(found) \in found /\ \A n \in found : Min(found) <= n
    BY <1>6, <2>1, LeastOf, Zenon
  <2>3. Min(found) \in DOMAIN m.buffer
    BY <2>1, <2>2, Zenon
  <2>4. m.buffer[Min(found)].batch \in Batches
    BY <2>3, ItemFields, Zenon
  <2>5. m.buffer[Min(found)].batch.last \in Blocks
    BY <2>4, BatchFields, Zenon
  <2>6. next = m.buffer[Min(found)].batch.last
    BY <1>4, <1>6, Zenon
  <2>7. Found(Min(found)) /\ \A j \in DOMAIN m.buffer : Found(j) => Min(found) <= j
    BY <1>3, <2>2, <2>3, Zenon
  <2> QED BY <2>3, <2>5, <2>6, <2>7, Zenon DEF next
<1> QED BY <1>5, <1>6, Zenon

-----------------------------------------------------------------------------
(* The queue. *)

\* The positions and the batches of the queue.
LEMMA QueueFields ==
    ASSUME NEW m, IsBufferManager(m)
    PROVE  /\ Len(m.buffer) \in Nat /\ Len(m.block_rx) \in Nat /\ QueueLen(m) \in Nat
           /\ DOMAIN m.buffer = 1 .. Len(m.buffer) /\ DOMAIN m.buffer \subseteq Queue(m)
           /\ DOMAIN m.block_rx = 1 .. Len(m.block_rx)
           /\ \A i \in Queue(m) : i \in Nat /\ 1 <= i /\ i <= QueueLen(m)
           /\ \A i \in Nat : 1 <= i /\ i <= QueueLen(m) => i \in Queue(m)
           /\ \A i \in Queue(m) : Item(m, i) \in Batches
           /\ \A i \in DOMAIN m.buffer : Item(m, i) = m.buffer[i].batch
           /\ \A i \in Queue(m) : Done(m, i) => i \in DOMAIN m.buffer
           /\ \A i \in DOMAIN m.buffer : Done(m, i) <=> m.buffer[i].stage # "Ordered"
<1>1. m.buffer \in Seq(BufferItem) /\ m.block_rx \in Seq(Batches)
  BY Zenon DEF IsBufferManager
<1>2. /\ Len(m.buffer) \in Nat /\ Len(m.block_rx) \in Nat
      /\ DOMAIN m.buffer = 1 .. Len(m.buffer) /\ DOMAIN m.block_rx = 1 .. Len(m.block_rx)
      /\ \A k \in 1 .. Len(m.block_rx) : m.block_rx[k] \in Batches
  BY <1>1
<1>3. \A i \in DOMAIN m.buffer : m.buffer[i].batch \in Batches
  BY ItemFields, Zenon
<1> DEFINE a == Len(m.buffer)
           b == Len(m.block_rx)
<1>a. QueueLen(m) = a + b /\ a \in Nat /\ b \in Nat /\ DOMAIN m.buffer = 1 .. a
  BY <1>2, Zenon DEF QueueLen
<1> HIDE DEF a, b
<1>4. QueueLen(m) \in Nat /\ DOMAIN m.buffer \subseteq Queue(m)
  BY <1>a DEF Queue
<1>5. /\ \A i \in Queue(m) : i \in Nat /\ 1 <= i /\ i <= QueueLen(m)
      /\ \A i \in Nat : 1 <= i /\ i <= QueueLen(m) => i \in Queue(m)
  BY <1>4 DEF Queue
<1>6. ASSUME NEW i \in Queue(m) PROVE Item(m, i) \in Batches
  <2>1. CASE i <= Len(m.buffer)
    BY <1>2, <1>3, <1>5, <2>1 DEF Item
  <2>2. CASE ~ (i <= Len(m.buffer))
    <3>1. i - a \in 1 .. b
      <4>1. ~ (i <= a)
        BY <2>2, Zenon DEF a
      <4> QED BY <1>a, <1>5, <4>1
    <3>2. i - Len(m.buffer) \in 1 .. Len(m.block_rx)
      BY <3>1, Zenon DEF a, b
    <3> QED BY <1>2, <2>2, <3>2, Zenon DEF Item
  <2> QED BY <2>1, <2>2, Zenon
<1>7. \A i \in DOMAIN m.buffer : i <= Len(m.buffer)
  BY <1>2
<1>8. \A i \in Queue(m) : Done(m, i) => i \in DOMAIN m.buffer
  BY <1>2, <1>5 DEF Done
<1> QED BY <1>2, <1>4, <1>5, <1>6, <1>7, <1>8, Zenon DEF Item, Done

\* The numbers in the queue.
LEMMA QueueItem ==
    ASSUME NEW m, IsBufferManager(m), NEW i \in Queue(m)
    PROVE  /\ Item(m, i) \in Batches
           /\ Item(m, i).first \in Nat /\ Item(m, i).last \in Nat
           /\ 1 <= Item(m, i).first /\ Item(m, i).first <= Item(m, i).last
           /\ i \in Nat /\ 1 <= i /\ i <= QueueLen(m) /\ QueueLen(m) \in Nat
<1>1. Item(m, i) \in Batches /\ i \in Nat /\ 1 <= i /\ i <= QueueLen(m) /\ QueueLen(m) \in Nat
  BY QueueFields, Zenon
<1> QED BY <1>1, BatchFields, Zenon

\* A batch is at one position of the queue.
LEMMA QueueIsStrict ==
    ASSUME NEW m, IsBufferManager(m), NEW ord \in Nat, QueueInv(m, ord),
           NEW i \in Queue(m), NEW j \in Queue(m)
    PROVE  /\ i < j => Item(m, i).last < Item(m, j).last /\ Item(m, i).first < Item(m, j).first
           /\ Item(m, i).last = Item(m, j).last => i = j
<1>1. /\ i < j => Item(m, i).last < Item(m, j).first
      /\ j < i => Item(m, j).last < Item(m, i).first
  BY Zenon DEF QueueInv
<1>2. /\ Item(m, i).first \in Nat /\ Item(m, i).last \in Nat
      /\ Item(m, i).first <= Item(m, i).last /\ i \in Nat
  BY QueueItem, Zenon
<1>3. /\ Item(m, j).first \in Nat /\ Item(m, j).last \in Nat
      /\ Item(m, j).first <= Item(m, j).last /\ j \in Nat
  BY QueueItem, Zenon
<1> QED BY <1>1, <1>2, <1>3

\* Two managers with the same queue.
SameQueue(m, a) ==
    /\ QueueLen(a) = QueueLen(m)
    /\ \A i \in Queue(m) : Item(a, i) = Item(m, i) /\ (Done(a, i) <=> Done(m, i))

\* What else the invariant looks at.
SameRequests(m, a) ==
    /\ a.persisting = m.persisting /\ a.pending = m.pending
    /\ a.end_epoch_timestamp = m.end_epoch_timestamp /\ a.mode = m.mode

\* The first batch of the queue that is not executed.
IsNext(m, n) == n \in Queue(m) /\ \A j \in Queue(m) : j < n => Done(m, j)

\* The queue is a function of the buffer and the channel.
LEMMA SameBufferSameQueue ==
    ASSUME NEW m, NEW a, a.buffer = m.buffer, a.block_rx = m.block_rx
    PROVE  SameQueue(m, a)
BY Zenon DEF SameQueue, QueueLen, Queue, Item, Done

\* A new request for the next batch concerns no other one.
LEMMA NextIsAsked ==
    ASSUME NEW m, IsBufferManager(m), NEW ord \in Nat, QueueInv(m, ord),
           NEW n, IsNext(m, n)
    PROVE  /\ Item(m, n).last <= ord
           /\ Item(m, 1).first <= Item(m, n).first
           /\ \A i \in Queue(m) :
                 /\ Item(m, i).last = Item(m, n).last => Item(m, i) = Item(m, n)
                 /\ ~Done(m, i) => Item(m, n).last <= Item(m, i).last
<1>1. n \in Queue(m) /\ \A j \in Queue(m) : j < n => Done(m, j)
  BY Zenon DEF IsNext
<1>2. Item(m, n).last <= ord
  BY <1>1, Zenon DEF QueueInv
<1>3. ASSUME NEW i \in Queue(m), ~Done(m, i) PROVE Item(m, n).last <= Item(m, i).last
  <2>1. ~ (i < n) /\ i \in Nat /\ n \in Nat
    BY <1>1, <1>3, QueueItem, Zenon
  <2>2. i = n \/ n < i
    BY <2>1
  <2>3. Item(m, i).last \in Nat /\ Item(m, n).last \in Nat
    BY <1>1, QueueItem, Zenon
  <2>4. n < i => Item(m, n).last < Item(m, i).last
    BY <1>1, QueueIsStrict, Zenon
  <2> QED BY <2>2, <2>3, <2>4
<1>4. ASSUME NEW i \in Queue(m), Item(m, i).last = Item(m, n).last
      PROVE  Item(m, i) = Item(m, n)
  BY <1>1, <1>4, QueueIsStrict, Zenon
<1>5. Item(m, 1).first <= Item(m, n).first
  <2>1. n \in Nat /\ 1 <= n /\ n <= QueueLen(m) /\ QueueLen(m) \in Nat
    BY <1>1, QueueItem, Zenon
  <2>2. 1 \in Queue(m)
    BY <2>1 DEF Queue
  <2>3. Item(m, 1).first \in Nat /\ Item(m, n).first \in Nat
    BY <1>1, <2>2, QueueItem, Zenon
  <2>4. 1 < n => Item(m, 1).first < Item(m, n).first
    BY <1>1, <2>2, QueueIsStrict, Zenon
  <2> QED BY <2>1, <2>3, <2>4
<1> QED BY <1>2, <1>3, <1>4, <1>5, Zenon

\* A step that keeps the queue, adds no answer, and asks for no batch but the
\* next one, keeps the invariant.
LEMMA CoreTransfer ==
    ASSUME NEW m, NEW a, NEW rx, NEW rx2, NEW tr, NEW rt \in Nat, NEW ord \in Nat, NEW rc, NEW syn,
           CoreInv(m, rx, tr, rt, ord, rc, syn),
           IsBufferManager(a), SameQueue(m, a), SameRequests(m, a),
           \A b \in InFlight(a.execution) :
               b \in InFlight(m.execution) \/ \E n \in Queue(m) : IsNext(m, n) /\ b = Item(m, n),
           rx2 \subseteq rx
    PROVE  CoreInv(a, rx2, tr, rt, ord, rc, syn)
<1>1. Queue(a) = Queue(m) /\ QueueLen(a) = QueueLen(m)
      /\ \A i \in Queue(m) : Item(a, i) = Item(m, i) /\ (Done(a, i) <=> Done(m, i))
  BY Zenon DEF SameQueue, Queue
<1>2. IsBufferManager(m) /\ QueueLen(m) \in Nat
  BY QueueFields, Zenon DEF CoreInv
<1>3. QueueLen(m) # 0 => 1 \in Queue(m)
  BY <1>2 DEF Queue
<1>4. NextBlock(a, ord) = NextBlock(m, ord)
  BY <1>1, <1>3, Zenon DEF NextBlock
<1>5. Certified(a, rt) = Certified(m, rt)
  BY Zenon DEF Certified, SameRequests
<1>6. \A b \in Asked(a, rx2) :
          b \in Asked(m, rx) \/ \E n \in Queue(m) : IsNext(m, n) /\ b = Item(m, n)
  BY Zenon DEF Asked
<1>7. QueueInv(a, ord)
  <2>1. QueueInv(m, ord)
    BY Zenon DEF CoreInv
  <2>2. \A i \in Queue(m) : i < QueueLen(m) => i + 1 \in Queue(m)
    BY <1>2 DEF Queue
  <2> QED BY <1>1, <2>1, <2>2, Zenon DEF QueueInv
<1>8. StageInv(a)
  BY <1>1, Zenon DEF CoreInv, StageInv
<1>9. AskedInv(a, rx2, ord)
  <2>1. QueueInv(m, ord) /\ AskedInv(m, rx, ord)
    BY Zenon DEF CoreInv
  <2>2. ASSUME NEW b \in Asked(a, rx2)
        PROVE  /\ b.last <= ord
               /\ \A i \in Queue(m) :
                     /\ Item(m, i).last = b.last => Item(m, i) = b
                     /\ ~Done(m, i) => b.last <= Item(m, i).last
    <3>1. CASE b \in Asked(m, rx)
      BY <2>1, <3>1, Zenon DEF AskedInv
    <3>2. CASE \E n \in Queue(m) : IsNext(m, n) /\ b = Item(m, n)
      <4>1. PICK n \in Queue(m) : IsNext(m, n) /\ b = Item(m, n)
        BY <3>2, Zenon
      <4>2. /\ Item(m, n).last <= ord
            /\ \A i \in Queue(m) :
                  /\ Item(m, i).last = Item(m, n).last => Item(m, i) = Item(m, n)
                  /\ ~Done(m, i) => Item(m, n).last <= Item(m, i).last
        BY <1>2, <2>1, <4>1, NextIsAsked, Zenon
      <4> QED BY <4>1, <4>2, Zenon
    <3> QED BY <1>6, <3>1, <3>2, Zenon
  <2> QED BY <1>1, <2>2, Zenon DEF AskedInv
<1>10. TreeInv(a, rx2, tr, rt, rc)
  <2>1. TreeInv(m, rx, tr, rt, rc)
    BY Zenon DEF CoreInv
  <2> QED BY <1>1, <1>5, <2>1, Zenon DEF TreeInv, SameRequests
<1>11. PersistingInv(a, rt, ord, rc)
  <2>1. PersistingInv(m, rt, ord, rc)
    BY Zenon DEF CoreInv
  <2> QED BY <1>1, <2>1, Zenon DEF PersistingInv, SameRequests
<1>12. PendingInv(a, rt, ord, rc)
  <2>1. PendingInv(m, rt, ord, rc)
    BY Zenon DEF CoreInv
  <2> QED BY <1>1, <1>5, <2>1, Zenon DEF PendingInv, SameRequests
<1>13. AnchorInv(a, rx2, tr, rt, ord, rc, syn)
  <2>1. AnchorInv(m, rx, tr, rt, ord, rc, syn) /\ QueueInv(m, ord)
    BY Zenon DEF CoreInv
  <2>2. ASSUME Stuck(m, rx, tr, rt, ord) PROVE Stuck(a, rx2, tr, rt, ord)
    <3>1. \A b \in InFlight(a.execution) : b.first > rt + 1
      <4> TAKE b \in InFlight(a.execution)
      <4>1. CASE b \in InFlight(m.execution)
        BY <2>2, <4>1, Zenon DEF Stuck
      <4>2. ASSUME NEW n \in Queue(m), IsNext(m, n), b = Item(m, n)
            PROVE  b.first > rt + 1
        <5>1. 1 \in Queue(m) /\ Item(m, 1).first <= Item(m, n).first
          <6>1. QueueLen(m) # 0
            BY <1>2, QueueItem
          <6> QED BY <1>2, <1>3, <2>1, <4>2, <6>1, NextIsAsked, Zenon
        <5>2. NextBlock(m, ord) = Item(m, 1).first
          <6>1. QueueLen(m) # 0
            BY <1>2, QueueItem
          <6> QED BY <6>1, Zenon DEF NextBlock
        <5>3. Item(m, 1).first \in Nat /\ Item(m, n).first \in Nat
          BY <1>2, <5>1, QueueItem, Zenon
        <5>4. Item(m, 1).first > rt + 1
          BY <2>2, <5>2, Zenon DEF Stuck
        <5> QED BY <4>2, <5>1, <5>3, <5>4
      <4> QED BY <4>1, <4>2, Zenon
    <3> QED BY <1>1, <1>4, <2>2, <3>1, Zenon DEF Stuck, SameRequests
  <2> QED BY <1>4, <1>5, <2>1, <2>2, Zenon DEF AnchorInv, SameRequests
<1>14. TimestampInv(a, ord, rc)
  <2>1. TimestampInv(m, ord, rc)
    BY Zenon DEF CoreInv
  <2> QED BY <1>1, <2>1, Zenon DEF TimestampInv, SameRequests
<1> QED BY <1>7, <1>8, <1>9, <1>10, <1>11, <1>12, <1>13, <1>14, Zenon DEF CoreInv

-----------------------------------------------------------------------------
(* The roots. *)

\* advance_execution_root moves the root to the next ordered item and asks for
\* its batch.
LEMMA ExecutionRootAdvances ==
    ASSUME NEW m, IsBufferManager(m)
    PROVE  LET a == AdvanceExecutionRoot(m)
               next == FindElemFrom(m, m.execution_root, "Ordered") IN
           /\ IsBufferManager(a) /\ SameRequests(m, a)
           /\ a.buffer = m.buffer /\ a.block_rx = m.block_rx
           /\ a.signing_root = m.signing_root /\ a.signing = m.signing
           /\ a.execution_root = next
           /\ \A b \in InFlight(a.execution) :
                 b \in InFlight(m.execution) \/ \E i \in Positions(m, next) : b = m.buffer[i].batch
           /\ Positions(m, next) = {} /\ InFlight(m.execution) = {} => InFlight(a.execution) = {}
<1> DEFINE next == FindElemFrom(m, m.execution_root, "Ordered")
           batches == {m.buffer[i].batch : i \in Positions(m, next)}
           requests == Send(m.execution, batches)
           a == [m EXCEPT !.execution_root = next, !.execution = requests]
<1>1. AdvanceExecutionRoot(m) = a
  BY Zenon DEF AdvanceExecutionRoot
<1>2. next \in Blocks \cup {None}
  BY FindElemFromResult, Zenon
<1>3. batches \in SUBSET Batches
  <2>1. \A i \in Positions(m, next) : m.buffer[i].batch \in Batches
    BY ItemFields, PositionsFields, Zenon
  <2> QED BY <2>1
<1>4. m.execution \in [Batches -> Nat]
  BY Zenon DEF IsBufferManager
<1>5. requests \in [Batches -> Nat]
  BY <1>4, SendType, Zenon
<1>6. \A b : b \in InFlight(requests) <=> b \in InFlight(m.execution) \/ b \in batches
  <2> HIDE DEF batches
  <2> QED BY <1>3, <1>4, SendContent, Zenon
<1>7. batches = {} /\ InFlight(m.execution) = {} => InFlight(requests) = {}
  BY <1>6, Zenon
<1>8. Positions(m, next) = {} => batches = {}
  BY Zenon
<1> HIDE DEF next, requests, batches
<1>9. /\ DOMAIN a = DOMAIN m
      /\ a.buffer = m.buffer /\ a.block_rx = m.block_rx
      /\ a.execution_root = next /\ a.signing_root = m.signing_root
      /\ a.end_epoch_timestamp = m.end_epoch_timestamp
      /\ a.execution = requests /\ a.signing = m.signing
      /\ a.persisting = m.persisting /\ a.pending = m.pending /\ a.mode = m.mode
  BY DEF IsBufferManager
<1> HIDE DEF a
<1>10. IsBufferManager(a)
  BY <1>2, <1>5, <1>9, Zenon DEF IsBufferManager
<1>11. SameRequests(m, a)
  BY <1>9, Zenon DEF SameRequests
<1> QED BY <1>1, <1>6, <1>7, <1>8, <1>9, <1>10, <1>11, Zenon DEF next, batches

\* advance_signing_root changes only the signing root and what is to be signed.
LEMMA SigningRootAdvances ==
    ASSUME NEW m, IsBufferManager(m)
    PROVE  LET a == AdvanceSigningRoot(m)
               next == FindElemFrom(m, m.signing_root, "Executed") IN
           /\ IsBufferManager(a) /\ SameRequests(m, a)
           /\ a.buffer = m.buffer /\ a.block_rx = m.block_rx
           /\ a.execution_root = m.execution_root /\ a.execution = m.execution
           /\ a.signing_root = next
           /\ next = None /\ InFlight(m.signing) = {} => InFlight(a.signing) = {}
<1> DEFINE next == FindElemFrom(m, m.signing_root, "Executed")
           blocks == {next} \ {None}
           requests == Send(m.signing, blocks)
           a == [m EXCEPT !.signing_root = next, !.signing = requests]
<1>1. AdvanceSigningRoot(m) = a
  BY Zenon DEF AdvanceSigningRoot
<1>2. next \in Blocks \cup {None}
  BY FindElemFromResult, Zenon
<1>3. blocks \in SUBSET Blocks
  BY <1>2, Zenon
<1>4. m.signing \in [Blocks -> Nat]
  BY Zenon DEF IsBufferManager
<1>5. requests \in [Blocks -> Nat]
  BY <1>4, SendType, Zenon
<1>6. \A b : b \in InFlight(requests) <=> b \in InFlight(m.signing) \/ b \in blocks
  <2> HIDE DEF blocks
  <2> QED BY <1>3, <1>4, SendContent, Zenon
<1>7. blocks = {} /\ InFlight(m.signing) = {} => InFlight(requests) = {}
  BY <1>6, Zenon
<1>8. next = None => blocks = {}
  BY Zenon
<1> HIDE DEF next, requests, blocks
<1>9. /\ DOMAIN a = DOMAIN m
      /\ a.buffer = m.buffer /\ a.block_rx = m.block_rx
      /\ a.execution_root = m.execution_root /\ a.signing_root = next
      /\ a.end_epoch_timestamp = m.end_epoch_timestamp
      /\ a.execution = m.execution /\ a.signing = requests
      /\ a.persisting = m.persisting /\ a.pending = m.pending /\ a.mode = m.mode
  BY DEF IsBufferManager
<1> HIDE DEF a
<1>10. IsBufferManager(a)
  BY <1>2, <1>5, <1>9, Zenon DEF IsBufferManager
<1>11. SameRequests(m, a)
  BY <1>9, Zenon DEF SameRequests
<1> QED BY <1>1, <1>6, <1>7, <1>8, <1>9, <1>10, <1>11, Zenon DEF next, blocks

\* No batch below the root waits to be executed.
LooseRoot(m) ==
    m.execution_root # None =>
        \E i \in Positions(m, m.execution_root) :
            \A j \in DOMAIN m.buffer : j < i => Done(m, j)

\* The root is at the first batch to execute again.
LEMMA RootFound ==
    ASSUME NEW m, IsBufferManager(m), LooseRoot(m)
    PROVE  LET next == FindElemFrom(m, m.execution_root, "Ordered") IN
           /\ next = None => \A i \in DOMAIN m.buffer : Done(m, i)
           /\ next # None =>
                 \E i \in DOMAIN m.buffer :
                     /\ m.buffer[i].batch.last = next /\ ~Done(m, i)
                     /\ \A j \in DOMAIN m.buffer : j < i => Done(m, j)
<1> DEFINE next == FindElemFrom(m, m.execution_root, "Ordered")
           Found(j) == /\ m.buffer[j].stage = "Ordered"
                       /\ IF m.execution_root = None THEN TRUE
                          ELSE \E i \in Positions(m, m.execution_root) : i <= j
<1>1. \/ next = None /\ \A j \in DOMAIN m.buffer : ~Found(j)
      \/ \E n \in DOMAIN m.buffer :
            /\ next = m.buffer[n].batch.last /\ next \in Blocks /\ Found(n)
            /\ \A j \in DOMAIN m.buffer : Found(j) => n <= j
  BY FindElemFromResult, Zenon
<1>2. \A j \in DOMAIN m.buffer : Done(m, j) <=> m.buffer[j].stage # "Ordered"
  BY QueueFields, Zenon
<1>3. DOMAIN m.buffer \subseteq Nat /\ Positions(m, m.execution_root) \subseteq Nat
  <2>1. DOMAIN m.buffer = 1 .. Len(m.buffer) /\ Len(m.buffer) \in Nat
    BY PositionsFields, Zenon
  <2>2. Positions(m, m.execution_root) \subseteq Nat
    BY PositionsFields, Zenon
  <2> QED BY <2>1, <2>2
<1>4. ASSUME NEW j \in DOMAIN m.buffer, ~Found(j) PROVE Done(m, j)
  <2>1. CASE m.execution_root = None
    BY <1>2, <1>4, <2>1, Zenon
  <2>2. CASE m.execution_root # None
    <3>1. PICK i \in Positions(m, m.execution_root) :
              \A k \in DOMAIN m.buffer : k < i => Done(m, k)
      BY <2>2, Zenon DEF LooseRoot
    <3>2. CASE i <= j
      BY <1>2, <1>4, <2>2, <3>2, Zenon
    <3>3. CASE ~ (i <= j)
      <4>1. i \in Nat /\ j \in Nat
        BY <1>3, Zenon
      <4>2. j < i
        BY <3>3, <4>1
      <4> QED BY <3>1, <4>2, Zenon
    <3> QED BY <3>2, <3>3, Zenon
  <2> QED BY <2>1, <2>2, Zenon
<1>5. ASSUME \A j \in DOMAIN m.buffer : ~Found(j)
      PROVE  \A j \in DOMAIN m.buffer : Done(m, j)
  BY <1>4, <1>5, Zenon
<1>6. ASSUME NEW n \in DOMAIN m.buffer, next = m.buffer[n].batch.last, next \in Blocks, Found(n),
             \A j \in DOMAIN m.buffer : Found(j) => n <= j
      PROVE  /\ next # None
             /\ m.buffer[n].batch.last = next /\ ~Done(m, n)
             /\ \A j \in DOMAIN m.buffer : j < n => Done(m, j)
  <2>1. next # None
    BY <1>6 DEF Blocks, None
  <2>2. ~Done(m, n)
    BY <1>2, <1>6, Zenon
  <2>3. ASSUME NEW j \in DOMAIN m.buffer, j < n PROVE Done(m, j)
    <3>1. ~ (n <= j)
      BY <1>3, <2>3
    <3> QED BY <1>4, <1>6, <3>1, Zenon
  <2> QED BY <1>6, <2>1, <2>2, <2>3, Zenon
<1> HIDE DEF next, Found
<1>7. /\ next = None => \A i \in DOMAIN m.buffer : Done(m, i)
      /\ next # None =>
            \E i \in DOMAIN m.buffer :
                /\ m.buffer[i].batch.last = next /\ ~Done(m, i)
                /\ \A j \in DOMAIN m.buffer : j < i => Done(m, j)
  <2>1. CASE next = None /\ \A j \in DOMAIN m.buffer : ~Found(j)
    BY <1>5, <2>1, Zenon
  <2>2. CASE \E n \in DOMAIN m.buffer :
                /\ next = m.buffer[n].batch.last /\ next \in Blocks /\ Found(n)
                /\ \A j \in DOMAIN m.buffer : Found(j) => n <= j
    <3>1. PICK n \in DOMAIN m.buffer :
                /\ next = m.buffer[n].batch.last /\ next \in Blocks /\ Found(n)
                /\ \A j \in DOMAIN m.buffer : Found(j) => n <= j
      BY <2>2, Zenon
    <3>2. /\ next # None
          /\ m.buffer[n].batch.last = next /\ ~Done(m, n)
          /\ \A j \in DOMAIN m.buffer : j < n => Done(m, j)
      BY <1>6, <3>1, Zenon
    <3> QED BY <3>2, Zenon
  <2> QED BY <1>1, <2>1, <2>2, Zenon
<1> QED BY <1>7, Zenon DEF next

\* The root is loose when it is right.
LEMMA RootIsLoose ==
    ASSUME NEW m, RootInv(m)
    PROVE  LooseRoot(m)
BY Zenon DEF RootInv, LooseRoot, Positions

\* advance_execution_root restores the root and keeps the invariant.
LEMMA ExecutionRootKeeps ==
    ASSUME NEW m, NEW rx, NEW tr, NEW rt \in Nat, NEW ord \in Nat, NEW rc, NEW syn,
           CoreInv(m, rx, tr, rt, ord, rc, syn), LooseRoot(m)
    PROVE  LET a == AdvanceExecutionRoot(m) IN
           /\ CoreInv(a, rx, tr, rt, ord, rc, syn) /\ RootInv(a)
           /\ a.mode = m.mode /\ a.pending = m.pending
<1> DEFINE a == AdvanceExecutionRoot(m)
           next == FindElemFrom(m, m.execution_root, "Ordered")
<1>1. IsBufferManager(m) /\ QueueInv(m, ord)
  BY Zenon DEF CoreInv
<1>2. /\ IsBufferManager(a) /\ SameRequests(m, a)
      /\ a.buffer = m.buffer /\ a.block_rx = m.block_rx /\ a.execution_root = next
      /\ \A b \in InFlight(a.execution) :
            b \in InFlight(m.execution) \/ \E i \in Positions(m, next) : b = m.buffer[i].batch
  BY <1>1, ExecutionRootAdvances, Zenon
<1>3. /\ next = None => \A i \in DOMAIN m.buffer : Done(m, i)
      /\ next # None =>
            \E i \in DOMAIN m.buffer :
                /\ m.buffer[i].batch.last = next /\ ~Done(m, i)
                /\ \A j \in DOMAIN m.buffer : j < i => Done(m, j)
  BY <1>1, RootFound, Zenon
<1> HIDE DEF a, next
<1>4. \A i : Done(a, i) <=> Done(m, i)
  BY <1>2, Zenon DEF Done
<1>5. RootInv(a)
  BY <1>2, <1>3, <1>4, Zenon DEF RootInv
<1>6. SameQueue(m, a)
  BY <1>2, SameBufferSameQueue, Zenon
<1>7. ASSUME NEW b \in InFlight(a.execution)
      PROVE  b \in InFlight(m.execution) \/ \E n \in Queue(m) : IsNext(m, n) /\ b = Item(m, n)
  <2>1. SUFFICES ASSUME NEW k \in Positions(m, next), b = m.buffer[k].batch
                 PROVE  \E n \in Queue(m) : IsNext(m, n) /\ b = Item(m, n)
    BY <1>2, Zenon
  <2>2. k \in DOMAIN m.buffer /\ m.buffer[k].batch.last = next
    BY Zenon DEF Positions
  <2>3. next # None
    BY <1>1, PositionsFields, Zenon
  <2>4. PICK i \in DOMAIN m.buffer :
            /\ m.buffer[i].batch.last = next /\ ~Done(m, i)
            /\ \A j \in DOMAIN m.buffer : j < i => Done(m, j)
    BY <1>3, <2>3, Zenon
  <2>5. /\ DOMAIN m.buffer \subseteq Queue(m)
        /\ \A j \in DOMAIN m.buffer : Item(m, j) = m.buffer[j].batch
        /\ DOMAIN m.buffer = 1 .. Len(m.buffer) /\ Len(m.buffer) \in Nat
        /\ \A j \in Queue(m) : j \in Nat /\ 1 <= j
    BY <1>1, QueueFields, Zenon
  <2>6. i \in Queue(m) /\ k \in Queue(m) /\ Item(m, i).last = Item(m, k).last
    BY <2>2, <2>4, <2>5, Zenon
  <2>7. i = k
    BY <1>1, <2>6, QueueIsStrict, Zenon
  <2>8. \A j \in Queue(m) : j < i => j \in DOMAIN m.buffer
    BY <2>5
  <2>9. IsNext(m, i)
    BY <2>4, <2>6, <2>8, Zenon DEF IsNext
  <2> QED BY <2>1, <2>5, <2>6, <2>7, <2>9, Zenon
<1>8. CoreInv(a, rx, tr, rt, ord, rc, syn)
  BY <1>2, <1>6, <1>7, CoreTransfer, Zenon
<1> QED BY <1>2, <1>5, <1>8, Zenon DEF SameRequests, a

\* The signing root is not part of the invariant.
LEMMA SigningRootKeeps ==
    ASSUME NEW m, NEW rx, NEW tr, NEW rt \in Nat, NEW ord \in Nat, NEW rc, NEW syn,
           CoreInv(m, rx, tr, rt, ord, rc, syn), RootInv(m)
    PROVE  LET a == AdvanceSigningRoot(m) IN
           /\ CoreInv(a, rx, tr, rt, ord, rc, syn) /\ RootInv(a)
           /\ a.mode = m.mode /\ a.pending = m.pending
<1> DEFINE a == AdvanceSigningRoot(m)
<1>1. IsBufferManager(m)
  BY Zenon DEF CoreInv
<1>2. /\ IsBufferManager(a) /\ SameRequests(m, a)
      /\ a.buffer = m.buffer /\ a.block_rx = m.block_rx
      /\ a.execution_root = m.execution_root /\ a.execution = m.execution
  BY <1>1, SigningRootAdvances, Zenon
<1> HIDE DEF a
<1>3. \A i : Done(a, i) <=> Done(m, i)
  BY <1>2, Zenon DEF Done
<1>4. RootInv(a)
  BY <1>2, <1>3, Zenon DEF RootInv
<1>5. SameQueue(m, a)
  BY <1>2, SameBufferSameQueue, Zenon
<1>6. \A b \in InFlight(a.execution) : b \in InFlight(m.execution)
  BY <1>2, Zenon
<1>7. CoreInv(a, rx, tr, rt, ord, rc, syn)
  BY <1>2, <1>5, <1>6, CoreTransfer, Zenon
<1> QED BY <1>2, <1>4, <1>7, Zenon DEF SameRequests, a

\* With nothing to do, the roots stay where they are.
LEMMA RootsStayDrained ==
    ASSUME NEW m, IsBufferManager(m), Drained(m)
    PROVE  Drained(AdvanceExecutionRoot(m)) /\ Drained(AdvanceSigningRoot(m))
<1>1. m.buffer = <<>> /\ m.execution_root = None /\ m.signing_root = None
      /\ m.block_rx = <<>> /\ m.persisting = <<>>
      /\ InFlight(m.execution) = {} /\ InFlight(m.signing) = {}
  BY Zenon DEF Drained, Emptied
<1>2. DOMAIN m.buffer = {}
  BY <1>1
<1>3. \A c, s : FindElemFrom(m, c, s) = None
  BY <1>2, FindElemFromResult, Zenon
<1>4. Positions(m, None) = {}
  BY PositionsFields, Zenon
<1>5. Drained(AdvanceExecutionRoot(m))
  <2> DEFINE a == AdvanceExecutionRoot(m)
  <2>1. /\ a.buffer = m.buffer /\ a.block_rx = m.block_rx /\ SameRequests(m, a)
        /\ a.signing_root = m.signing_root /\ a.signing = m.signing
        /\ a.execution_root = None /\ InFlight(a.execution) = {}
    BY <1>1, <1>3, <1>4, ExecutionRootAdvances, Zenon
  <2> HIDE DEF a
  <2>2. Drained(a)
    BY <1>1, <2>1, Zenon DEF Drained, Emptied, SameRequests
  <2> QED BY <2>2, Zenon DEF a
<1>6. Drained(AdvanceSigningRoot(m))
  <2> DEFINE a == AdvanceSigningRoot(m)
  <2>1. /\ a.buffer = m.buffer /\ a.block_rx = m.block_rx /\ SameRequests(m, a)
        /\ a.execution_root = m.execution_root /\ a.execution = m.execution
        /\ a.signing_root = None /\ InFlight(a.signing) = {}
    BY <1>1, <1>3, SigningRootAdvances, Zenon
  <2> HIDE DEF a
  <2>2. Drained(a)
    BY <1>1, <2>1, Zenon DEF Drained, Emptied, SameRequests
  <2> QED BY <2>2, Zenon DEF a
<1> QED BY <1>5, <1>6, Zenon

\* A root that is set, and right, stays; a missing one is looked for.
LEMMA RootsIfNoneKeep ==
    ASSUME NEW m, NEW rx, NEW tr, NEW rt \in Nat, NEW ord \in Nat, NEW rc, NEW syn,
           CoreInv(m, rx, tr, rt, ord, rc, syn), m.execution_root # None => RootInv(m)
    PROVE  /\ LET a == AdvanceExecutionRootIfNone(m) IN
              /\ CoreInv(a, rx, tr, rt, ord, rc, syn) /\ RootInv(a)
              /\ a.mode = m.mode /\ a.pending = m.pending
           /\ RootInv(m) =>
              LET a == AdvanceSigningRootIfNone(m) IN
              /\ CoreInv(a, rx, tr, rt, ord, rc, syn) /\ RootInv(a)
              /\ a.mode = m.mode /\ a.pending = m.pending
<1>1. CASE m.execution_root = None
  <2>1. LooseRoot(m)
    BY <1>1, Zenon DEF LooseRoot
  <2>2. LET a == AdvanceExecutionRoot(m) IN
        /\ CoreInv(a, rx, tr, rt, ord, rc, syn) /\ RootInv(a)
        /\ a.mode = m.mode /\ a.pending = m.pending
    BY <2>1, ExecutionRootKeeps, Zenon
  <2>3. AdvanceExecutionRootIfNone(m) = AdvanceExecutionRoot(m)
    BY <1>1, Zenon DEF AdvanceExecutionRootIfNone
  <2>4. RootInv(m) =>
        LET a == AdvanceSigningRootIfNone(m) IN
        /\ CoreInv(a, rx, tr, rt, ord, rc, syn) /\ RootInv(a)
        /\ a.mode = m.mode /\ a.pending = m.pending
    BY SigningRootKeeps, Zenon DEF AdvanceSigningRootIfNone
  <2> QED BY <2>2, <2>3, <2>4, Zenon
<1>2. CASE m.execution_root # None
  <2>1. AdvanceExecutionRootIfNone(m) = m
    BY <1>2, Zenon DEF AdvanceExecutionRootIfNone
  <2>2. LET a == AdvanceSigningRootIfNone(m) IN
        /\ CoreInv(a, rx, tr, rt, ord, rc, syn) /\ RootInv(a)
        /\ a.mode = m.mode /\ a.pending = m.pending
    BY <1>2, SigningRootKeeps, Zenon DEF AdvanceSigningRootIfNone
  <2> QED BY <1>2, <2>1, <2>2, Zenon
<1> QED BY <1>1, <1>2, Zenon

-----------------------------------------------------------------------------
(* The handlers that keep the queue. *)

\* Only item n of the buffer changes, and neither its batch nor whether it is
\* executed.
ItemChanges(m, a, n, item) ==
    /\ item \in BufferItem /\ item.batch = m.buffer[n].batch
    /\ item.stage # "Ordered" <=> m.buffer[n].stage # "Ordered"
    /\ DOMAIN a = DOMAIN m /\ a.buffer = [m.buffer EXCEPT ![n] = item]
    /\ a.block_rx = m.block_rx /\ a.execution_root = m.execution_root
    /\ a.signing_root = m.signing_root /\ a.execution = m.execution
    /\ a.signing = m.signing /\ SameRequests(m, a)

\* The queue and the roots do not depend on the rest of an item.
LEMMA ItemUpdate ==
    ASSUME NEW m, NEW a, IsBufferManager(m), NEW n \in DOMAIN m.buffer, NEW item,
           ItemChanges(m, a, n, item)
    PROVE  IsBufferManager(a) /\ SameQueue(m, a) /\ (RootInv(m) => RootInv(a))
<1> USE DEF ItemChanges
<1>1. m.buffer \in Seq(BufferItem)
  BY Zenon DEF IsBufferManager
<1>2. /\ a.buffer \in Seq(BufferItem) /\ Len(a.buffer) = Len(m.buffer)
      /\ DOMAIN a.buffer = DOMAIN m.buffer
  BY <1>1
<1>3. \A i \in DOMAIN m.buffer : a.buffer[i] = IF i = n THEN item ELSE m.buffer[i]
  BY <1>1
<1>4. IsBufferManager(a)
  BY <1>2, Zenon DEF IsBufferManager, SameRequests
<1>5. \A i \in DOMAIN m.buffer :
          /\ a.buffer[i].batch = m.buffer[i].batch
          /\ a.buffer[i].stage # "Ordered" <=> m.buffer[i].stage # "Ordered"
  BY <1>3, Zenon
<1>6. /\ DOMAIN m.buffer \subseteq Queue(m) /\ DOMAIN m.buffer = 1 .. Len(m.buffer)
      /\ \A i \in Queue(m) : i \in Nat /\ 1 <= i
      /\ Len(m.buffer) \in Nat
  BY QueueFields, Zenon
<1>7. \A i \in Queue(m) : i <= Len(m.buffer) => i \in DOMAIN m.buffer
  BY <1>6
<1>8. SameQueue(m, a)
  BY <1>2, <1>5, <1>7, Zenon DEF SameQueue, QueueLen, Item, Done
<1>9. \A i \in DOMAIN m.buffer : Done(a, i) <=> Done(m, i)
  BY <1>2, <1>5, Zenon DEF Done
<1>10. ASSUME RootInv(m) PROVE RootInv(a)
  <2>1. CASE m.execution_root = None
    BY <1>2, <1>9, <1>10, <2>1, Zenon DEF RootInv
  <2>2. CASE m.execution_root # None
    <3>1. PICK i \in DOMAIN m.buffer :
              /\ m.buffer[i].batch.last = m.execution_root /\ ~Done(m, i)
              /\ \A j \in DOMAIN m.buffer : j < i => Done(m, j)
      BY <1>10, <2>2, Zenon DEF RootInv
    <3>2. /\ i \in DOMAIN a.buffer /\ a.buffer[i].batch.last = a.execution_root /\ ~Done(a, i)
          /\ \A j \in DOMAIN a.buffer : j < i => Done(a, j)
      BY <1>2, <1>5, <1>9, <3>1, Zenon
    <3>3. a.execution_root # None
      BY <2>2, Zenon
    <3> QED BY <3>2, <3>3, Zenon DEF RootInv
  <2> QED BY <2>1, <2>2, Zenon
<1> QED BY <1>4, <1>8, <1>10, Zenon

\* a is m with an item of that kind.
UpdatesItem(m, a, n, item) ==
    /\ n \in DOMAIN m.buffer /\ item \in BufferItem /\ item.batch = m.buffer[n].batch
    /\ item.stage # "Ordered" <=> m.buffer[n].stage # "Ordered"
    /\ a = [m EXCEPT !.buffer[n] = item]

UpdatedItem(m, a, n, item) ==
    /\ RootInv(a) /\ a.mode = m.mode /\ a.pending = m.pending
    /\ Len(a.buffer) = Len(m.buffer) /\ DOMAIN a.buffer = DOMAIN m.buffer
    /\ a.buffer[n] = item

\* It stays a manager, with the same queue and requests.
LEMMA ItemUpdateType ==
    ASSUME NEW m, NEW a, NEW n, NEW item, IsBufferManager(m), UpdatesItem(m, a, n, item)
    PROVE  /\ IsBufferManager(a) /\ SameQueue(m, a) /\ SameRequests(m, a)
           /\ a.execution = m.execution /\ (RootInv(m) => UpdatedItem(m, a, n, item))
<1> USE DEF UpdatesItem
<1>1. DOMAIN m = {"buffer", "block_rx", "execution_root", "signing_root",
                  "end_epoch_timestamp", "execution", "signing", "persisting",
                  "pending", "mode"} /\ m.buffer \in Seq(BufferItem)
  BY Zenon DEF IsBufferManager
<1>2. /\ DOMAIN a = DOMAIN m
      /\ a.buffer = [m.buffer EXCEPT ![n] = item] /\ a.block_rx = m.block_rx
      /\ a.execution_root = m.execution_root /\ a.signing_root = m.signing_root
      /\ a.end_epoch_timestamp = m.end_epoch_timestamp
      /\ a.execution = m.execution /\ a.signing = m.signing
      /\ a.persisting = m.persisting /\ a.pending = m.pending /\ a.mode = m.mode
  BY <1>1
<1>3. SameRequests(m, a)
  BY <1>2, Zenon DEF SameRequests
<1>4. IsBufferManager(a) /\ SameQueue(m, a) /\ (RootInv(m) => RootInv(a))
  <2>1. ItemChanges(m, a, n, item)
    BY <1>2, <1>3, Zenon DEF ItemChanges
  <2> QED BY <2>1, ItemUpdate, Zenon
<1>5. /\ Len(a.buffer) = Len(m.buffer) /\ DOMAIN a.buffer = DOMAIN m.buffer
      /\ a.buffer[n] = item
  BY <1>1, <1>2
<1> QED BY <1>2, <1>3, <1>4, <1>5, Zenon DEF UpdatedItem

\* The invariant stays as it is.
LEMMA ItemUpdateKeeps ==
    ASSUME NEW m, NEW a, NEW n, NEW item,
           NEW rx, NEW tr, NEW rt \in Nat, NEW ord \in Nat, NEW rc, NEW syn,
           CoreInv(m, rx, tr, rt, ord, rc, syn), RootInv(m), UpdatesItem(m, a, n, item)
    PROVE  CoreInv(a, rx, tr, rt, ord, rc, syn) /\ UpdatedItem(m, a, n, item)
<1>1. IsBufferManager(m)
  BY Zenon DEF CoreInv
<1>2. /\ IsBufferManager(a) /\ SameQueue(m, a) /\ SameRequests(m, a)
      /\ a.execution = m.execution /\ UpdatedItem(m, a, n, item)
  BY <1>1, ItemUpdateType, Zenon
<1>3. CoreInv(a, rx, tr, rt, ord, rc, syn)
  BY <1>2, CoreTransfer, Zenon
<1> QED BY <1>2, <1>3, Zenon

\* A batch moves from the channel to the buffer.
LEMMA PushKeepsQueue ==
    ASSUME NEW m, IsBufferManager(m), m.block_rx # <<>>
    PROVE  LET a == [m EXCEPT !.block_rx = Tail(@),
                              !.buffer = Append(@, NewOrdered(Head(m.block_rx)))] IN
           /\ IsBufferManager(a) /\ SameQueue(m, a) /\ SameRequests(m, a)
           /\ a.execution_root = m.execution_root /\ a.execution = m.execution
           /\ a.execution_root # None /\ RootInv(m) => RootInv(a)
<1> DEFINE new == NewOrdered(Head(m.block_rx))
           a == [m EXCEPT !.block_rx = Tail(@), !.buffer = Append(@, new)]
           x == Len(m.buffer)
           y == Len(m.block_rx)
<1>1. m.buffer \in Seq(BufferItem) /\ m.block_rx \in Seq(Batches)
  BY Zenon DEF IsBufferManager
<1>2. /\ Head(m.block_rx) \in Batches /\ Head(m.block_rx) = m.block_rx[1]
      /\ Tail(m.block_rx) \in Seq(Batches) /\ Len(Tail(m.block_rx)) = y - 1
      /\ y \in Nat /\ 1 <= y /\ x \in Nat
      /\ \A k \in 1 .. y - 1 : Tail(m.block_rx)[k] = m.block_rx[k + 1]
  BY <1>1
<1>3. new \in BufferItem /\ new.batch = m.block_rx[1] /\ new.stage = "Ordered"
  BY <1>2 DEF NewOrdered, BufferItem
<1> HIDE DEF new
<1>4. /\ Append(m.buffer, new) \in Seq(BufferItem) /\ Len(Append(m.buffer, new)) = x + 1
      /\ DOMAIN Append(m.buffer, new) = 1 .. x + 1
      /\ \A i \in 1 .. x : Append(m.buffer, new)[i] = m.buffer[i]
      /\ Append(m.buffer, new)[x + 1] = new
  BY <1>1, <1>3
<1>5. /\ DOMAIN a = DOMAIN m
      /\ a.buffer = Append(m.buffer, new) /\ a.block_rx = Tail(m.block_rx)
      /\ a.execution_root = m.execution_root /\ a.signing_root = m.signing_root
      /\ a.end_epoch_timestamp = m.end_epoch_timestamp
      /\ a.execution = m.execution /\ a.signing = m.signing
      /\ a.persisting = m.persisting /\ a.pending = m.pending /\ a.mode = m.mode
  BY DEF IsBufferManager
<1> HIDE DEF a
<1>6. IsBufferManager(a)
  BY <1>2, <1>4, <1>5, Zenon DEF IsBufferManager
<1>7. Len(a.buffer) = x + 1 /\ Len(a.block_rx) = y - 1 /\ QueueLen(m) = x + y
  BY <1>2, <1>4, <1>5, Zenon DEF QueueLen
<1>8. \A i : (i <= Len(m.buffer) <=> i <= x) /\ i - Len(m.buffer) = i - x
  BY Zenon
<1>9. /\ \A i : Item(m, i) = IF i <= x THEN m.buffer[i].batch ELSE m.block_rx[i - x]
      /\ \A i : Item(a, i) = IF i <= x + 1 THEN a.buffer[i].batch ELSE a.block_rx[i - (x + 1)]
      /\ \A i : Done(m, i) <=> i <= x /\ m.buffer[i].stage # "Ordered"
      /\ \A i : Done(a, i) <=> i <= x + 1 /\ a.buffer[i].stage # "Ordered"
  BY <1>7, <1>8, Zenon DEF Item, Done
<1>10. QueueLen(a) = x + 1 + (y - 1)
  BY <1>7, Zenon DEF QueueLen
<1>11. \A i \in 1 .. x : a.buffer[i] = m.buffer[i]
  BY <1>4, <1>5, Zenon
<1>12. a.buffer[x + 1].batch = m.block_rx[1] /\ a.buffer[x + 1].stage = "Ordered"
  BY <1>3, <1>4, <1>5, Zenon
<1>13. \A k \in 1 .. y - 1 : a.block_rx[k] = m.block_rx[k + 1]
  BY <1>2, <1>5, Zenon
<1>14. /\ \A i \in 1 .. x : a.buffer[i].batch = m.buffer[i].batch
       /\ \A i \in 1 .. x : a.buffer[i].stage = m.buffer[i].stage
  BY <1>11, Zenon
<1> HIDE DEF x, y
<1>15. \A i \in Queue(m) : i \in Nat /\ 1 <= i /\ i <= x + y
  BY <1>2, <1>7 DEF Queue
<1>16. ASSUME NEW i \in Queue(m)
       PROVE  Item(a, i) = Item(m, i) /\ (Done(a, i) <=> Done(m, i))
  <2>1. CASE i <= x
    <3>1. i \in 1 .. x /\ i <= x + 1
      BY <1>2, <1>15, <2>1
    <3> QED BY <1>9, <1>14, <2>1, <3>1, Zenon
  <2>2. CASE i = x + 1
    <3>1. ~ (i <= x) /\ i <= x + 1 /\ i - x = 1
      BY <1>2, <2>2
    <3>2. Item(m, i) = m.block_rx[1] /\ ~Done(m, i)
      BY <1>9, <2>2, <3>1, Zenon
    <3>3. Item(a, i) = m.block_rx[1] /\ ~Done(a, i)
      BY <1>9, <1>12, <2>2, <3>1, Zenon
    <3> QED BY <3>2, <3>3, Zenon
  <2>3. CASE ~ (i <= x + 1)
    <3>1. ~ (i <= x) /\ i - (x + 1) \in 1 .. y - 1 /\ i - (x + 1) + 1 = i - x
      BY <1>2, <1>15, <2>3
    <3>2. a.block_rx[i - (x + 1)] = m.block_rx[i - x]
      BY <1>13, <3>1
    <3> QED BY <1>9, <2>3, <3>1, <3>2, Zenon
  <2>4. i <= x \/ i = x + 1 \/ ~ (i <= x + 1)
    BY <1>2, <1>15
  <2> QED BY <2>1, <2>2, <2>3, <2>4, Zenon
<1>17. QueueLen(a) = QueueLen(m)
  BY <1>2, <1>7, <1>10
<1>18. SameQueue(m, a)
  BY <1>16, <1>17, Zenon DEF SameQueue
<1>19. ASSUME a.execution_root # None, RootInv(m) PROVE RootInv(a)
  <2>1. PICK i \in DOMAIN m.buffer :
            /\ m.buffer[i].batch.last = m.execution_root /\ ~Done(m, i)
            /\ \A j \in DOMAIN m.buffer : j < i => Done(m, j)
    BY <1>5, <1>19, Zenon DEF RootInv
  <2>2. DOMAIN m.buffer = 1 .. x /\ DOMAIN a.buffer = 1 .. x + 1
    BY <1>4, <1>5, QueueFields, Zenon DEF x
  <2>3. i \in 1 .. x /\ i \in DOMAIN a.buffer
    BY <1>2, <2>2
  <2>4. \A j \in 1 .. x : j <= x /\ j <= x + 1
    BY <1>2
  <2>5. \A j \in 1 .. x : Done(a, j) <=> Done(m, j)
    BY <1>9, <1>14, <2>4, Zenon
  <2>6. \A j \in DOMAIN a.buffer : j < i => j \in 1 .. x
    BY <1>2, <2>2, <2>3
  <2>7. \A j \in DOMAIN a.buffer : j < i => Done(a, j)
    BY <2>1, <2>2, <2>5, <2>6, Zenon
  <2>8. a.buffer[i].batch.last = a.execution_root /\ ~Done(a, i)
    BY <1>5, <1>14, <2>1, <2>3, <2>5, Zenon
  <2> QED BY <1>19, <2>3, <2>7, <2>8, Zenon DEF RootInv
<1>20. SameRequests(m, a)
  BY <1>5, Zenon DEF SameRequests
<1> QED BY <1>5, <1>6, <1>18, <1>19, <1>20, Zenon DEF a, new

-----------------------------------------------------------------------------
(* Execution responses. *)

\* The end timestamp is the last block's, unless that block is in the suffix.
LEMMA EndTimestamp ==
    ASSUME NEW m, NEW b \in Batches, Reconfig \in Nat,
           m.end_epoch_timestamp \in Blocks \cup {None},
           m.end_epoch_timestamp # None => Reconfig < b.first
    PROVE  LET t == EndEpochTimestamp(m, b) IN
           /\ t \in Blocks \cup {None}
           /\ t \in {None, b.last} \/ IsReconfigurationSuffix(b.last)
           /\ t # None => Reconfig <= b.last
<1> DEFINE t == EndEpochTimestamp(m, b)
           reconfigs == {x \in BlocksOf(b) : x >= Reconfig}
<1>1. /\ b.first \in Nat /\ b.last \in Nat /\ b.first \in Blocks /\ b.last \in Blocks
      /\ 1 <= b.first /\ b.first <= b.last
  BY BatchFields, Zenon
<1>2. CASE m.end_epoch_timestamp # None
  <2>1. t = m.end_epoch_timestamp
    BY <1>2, Zenon DEF EndEpochTimestamp
  <2>2. Reconfig < b.last
    BY <1>1, <1>2
  <2>3. IsReconfigurationSuffix(b.last) /\ Reconfig <= b.last
    BY <1>1, <2>2 DEF IsReconfigurationSuffix
  <2> QED BY <2>1, <2>3, Zenon
<1>3. CASE m.end_epoch_timestamp = None /\ reconfigs = {}
  <2>1. t = None
    BY <1>3, Zenon DEF EndEpochTimestamp
  <2> QED BY <2>1, Zenon
<1>4. CASE m.end_epoch_timestamp = None /\ reconfigs # {}
  <2>1. t = Min(reconfigs)
    BY <1>4, Zenon DEF EndEpochTimestamp
  <2>2. \A x \in reconfigs : x \in Nat /\ x \in Blocks /\ x <= b.last /\ Reconfig <= x
    <3> TAKE x \in reconfigs
    <3>1. x \in b.first .. b.last /\ x >= Reconfig
      BY Zenon DEF BlocksOf
    <3>2. NumBlocks \in Nat /\ b.last \in 1 .. NumBlocks
      BY <1>1, BufferManagerAssumption, Zenon DEF Blocks
    <3>3. x \in Nat /\ x <= b.last /\ Reconfig <= x /\ x \in 1 .. NumBlocks
      <4> HIDE DEF reconfigs
      <4> QED BY <1>1, <3>1, <3>2
    <3> QED BY <3>3, Zenon DEF Blocks
  <2>3. reconfigs \in SUBSET Nat
    BY <2>2, Zenon
  <2>4. t \in reconfigs /\ \A x \in reconfigs : t <= x
    BY <1>4, <2>1, <2>3, LeastOf, Zenon
  <2>5. t \in Nat /\ t \in Blocks /\ t <= b.last /\ Reconfig <= t
    BY <2>2, <2>4, Zenon
  <2> HIDE DEF t
  <2>6. t = b.last \/ b.last > Reconfig
    BY <1>1, <2>5
  <2>7. Reconfig <= b.last
    BY <1>1, <2>5
  <2>8. t \in {None, b.last} \/ IsReconfigurationSuffix(b.last)
    BY <2>6, Zenon DEF IsReconfigurationSuffix
  <2> QED BY <2>5, <2>7, <2>8, Zenon DEF t
<1> QED BY <1>2, <1>3, <1>4, Zenon

\* A response that finds an item has found the next one to be executed.
LEMMA ExecutionFinds ==
    ASSUME NEW m, NEW rx, NEW tr, NEW rt \in Nat, NEW ord \in Nat, NEW syn, Reconfig \in Nat,
           CoreInv(m, rx, tr, rt, ord, Reconfig, syn), RootInv(m),
           NEW r \in rx, r.batch \in Batches,
           FindElemByKey(m, m.execution_root, r.batch.last) # {}
    PROVE  LET n == Min(FindElemByKey(m, m.execution_root, r.batch.last))
               t == EndEpochTimestamp(m, r.batch) IN
           /\ n \in DOMAIN m.buffer /\ IsNext(m, n) /\ ~Done(m, n)
           /\ Item(m, n) = r.batch /\ m.buffer[n].batch = r.batch
           /\ m.execution_root = r.batch.last
           /\ CanAdvanceToExecuted(m.buffer[n], r.batch, t)
           /\ t \in Blocks \cup {None} /\ (t # None => Reconfig <= r.batch.last)
<1> DEFINE found == FindElemByKey(m, m.execution_root, r.batch.last)
           n == Min(found)
           t == EndEpochTimestamp(m, r.batch)
<1>1. /\ IsBufferManager(m) /\ QueueInv(m, ord) /\ AskedInv(m, rx, ord)
      /\ TimestampInv(m, ord, Reconfig)
  BY Zenon DEF CoreInv
<1>2. /\ DOMAIN m.buffer \subseteq Queue(m) /\ DOMAIN m.buffer \subseteq Nat
      /\ \A j \in Queue(m) : j \in Nat /\ 1 <= j
      /\ \A j \in DOMAIN m.buffer : Item(m, j) = m.buffer[j].batch
      /\ \A j \in DOMAIN m.buffer : Done(m, j) <=> m.buffer[j].stage # "Ordered"
      /\ DOMAIN m.buffer = 1 .. Len(m.buffer) /\ Len(m.buffer) \in Nat
  <2>1. DOMAIN m.buffer = 1 .. Len(m.buffer) /\ Len(m.buffer) \in Nat
    BY <1>1, QueueFields, Zenon
  <2>2. DOMAIN m.buffer \subseteq Nat
    BY <2>1
  <2> QED BY <1>1, <2>1, <2>2, QueueFields, Zenon
<1>3. found \subseteq DOMAIN m.buffer /\ found \in SUBSET Nat
  BY <1>2, Zenon DEF FindElemByKey, Positions
<1>4. n \in found
  BY <1>3, LeastOf, Zenon
<1>5. n \in DOMAIN m.buffer
  BY <1>3, <1>4, Zenon
<1>6. m.buffer[n].batch.last = r.batch.last /\ \E i \in Positions(m, m.execution_root) : i <= n
  BY <1>4, Zenon DEF FindElemByKey, Positions
<1> HIDE DEF n, found
<1>7. PICK i \in DOMAIN m.buffer : m.buffer[i].batch.last = m.execution_root /\ i <= n
  BY <1>6, Zenon DEF Positions
<1>8. m.execution_root # None
  BY <1>1, <1>6, PositionsFields, Zenon
<1>9. PICK k \in DOMAIN m.buffer :
          /\ m.buffer[k].batch.last = m.execution_root /\ ~Done(m, k)
          /\ \A j \in DOMAIN m.buffer : j < k => Done(m, j)
  BY <1>8, Zenon DEF RootInv
<1>10. i \in Queue(m) /\ k \in Queue(m) /\ n \in Queue(m)
       /\ Item(m, i).last = Item(m, k).last /\ Item(m, n).last = r.batch.last
  BY <1>2, <1>5, <1>6, <1>7, <1>9, Zenon
<1>11. i = k
  BY <1>1, <1>10, QueueIsStrict, Zenon
<1>12. r.batch \in Asked(m, rx)
  BY Zenon DEF Asked
<1>13. Item(m, n) = r.batch /\ r.batch.last <= Item(m, k).last
  BY <1>1, <1>9, <1>10, <1>12, Zenon DEF AskedInv
<1>14. k = n
  <2>1. k < n => Item(m, k).last < Item(m, n).last
    BY <1>1, <1>10, QueueIsStrict, Zenon
  <2>2. Item(m, k).last \in Nat /\ Item(m, n).last \in Nat /\ k \in Nat /\ n \in Nat
    BY <1>1, <1>10, QueueItem, Zenon
  <2>3. k <= n
    BY <1>7, <1>11, Zenon
  <2> QED BY <1>10, <1>13, <2>1, <2>2, <2>3
<1>15. IsNext(m, n)
  <2>1. \A j \in Queue(m) : j < n => j \in DOMAIN m.buffer
    BY <1>2, <1>5
  <2> QED BY <1>9, <1>10, <1>14, <2>1, Zenon DEF IsNext
<1>16. /\ ~Done(m, n) /\ m.buffer[n].batch = r.batch /\ m.buffer[n].stage = "Ordered"
       /\ m.execution_root = r.batch.last
  BY <1>2, <1>5, <1>9, <1>10, <1>13, <1>14, Zenon
<1>17. m.end_epoch_timestamp # None => Reconfig < r.batch.first
  BY <1>1, <1>10, <1>13, <1>16, Zenon DEF TimestampInv
<1>18. m.end_epoch_timestamp \in Blocks \cup {None}
  BY <1>1, Zenon DEF IsBufferManager
<1>19. /\ t \in Blocks \cup {None}
       /\ t \in {None, r.batch.last} \/ IsReconfigurationSuffix(r.batch.last)
       /\ t # None => Reconfig <= r.batch.last
  BY <1>17, <1>18, EndTimestamp, Zenon
<1> HIDE DEF t
<1>20. CanAdvanceToExecuted(m.buffer[n], r.batch, t)
  BY <1>16, <1>19, Zenon DEF CanAdvanceToExecuted
<1> QED BY <1>5, <1>13, <1>15, <1>16, <1>19, <1>20, Zenon DEF n, found, t

\* The fields after advance_to_executed.
ExecutedItem(m, e, n, t) ==
    /\ IsBufferManager(e) /\ Len(e.buffer) = Len(m.buffer)
    /\ e.block_rx = m.block_rx /\ e.execution_root = m.execution_root
    /\ e.end_epoch_timestamp = t /\ e.execution = m.execution
    /\ e.persisting = m.persisting /\ e.pending = m.pending /\ e.mode = m.mode
    /\ QueueLen(e) = QueueLen(m)
    /\ \A i \in Queue(m) : Item(e, i) = Item(m, i)
    /\ \A i \in Queue(m) : Done(e, i) <=> i = n \/ Done(m, i)

\* What advance_to_executed_or_aggregated changes is the stage of one item.
LEMMA ExecutedFields ==
    ASSUME NEW m, IsBufferManager(m), NEW n \in DOMAIN m.buffer, NEW t \in Blocks \cup {None}
    PROVE  ExecutedItem(m, AdvanceToExecuted(m, n, t), n, t)
<1> DEFINE item == [m.buffer[n] EXCEPT !.stage = "Executed"]
           new == [m.buffer EXCEPT ![n] = item]
           e == [m EXCEPT !.end_epoch_timestamp = t, !.buffer = new]
<1>1. AdvanceToExecuted(m, n, t) = e
  BY DEF AdvanceToExecuted, IsBufferManager
<1>2. m.buffer \in Seq(BufferItem) /\ m.buffer[n] \in BufferItem
  BY ItemFields, Zenon DEF IsBufferManager
<1>3. item \in BufferItem /\ item.batch = m.buffer[n].batch /\ item.stage = "Executed"
  BY <1>2 DEF BufferItem
<1> HIDE DEF item
<1>4. /\ new \in Seq(BufferItem) /\ Len(new) = Len(m.buffer)
      /\ \A i \in DOMAIN m.buffer : new[i] = IF i = n THEN item ELSE m.buffer[i]
  BY <1>2, <1>3
<1> HIDE DEF new
<1>5. /\ DOMAIN e = DOMAIN m
      /\ e.buffer = new /\ e.block_rx = m.block_rx
      /\ e.execution_root = m.execution_root /\ e.signing_root = m.signing_root
      /\ e.end_epoch_timestamp = t
      /\ e.execution = m.execution /\ e.signing = m.signing
      /\ e.persisting = m.persisting /\ e.pending = m.pending /\ e.mode = m.mode
  BY DEF IsBufferManager
<1> HIDE DEF e
<1>6. IsBufferManager(e)
  BY <1>4, <1>5, Zenon DEF IsBufferManager
<1>7. /\ DOMAIN m.buffer = 1 .. Len(m.buffer) /\ Len(m.buffer) \in Nat
      /\ \A i \in Queue(m) : i \in Nat /\ 1 <= i
  BY QueueFields, Zenon
<1>8. /\ \A i \in Queue(m) : i <= Len(m.buffer) => i \in DOMAIN m.buffer
      /\ n <= Len(m.buffer)
  BY <1>7
<1>9. \A i \in DOMAIN m.buffer :
          /\ e.buffer[i].batch = m.buffer[i].batch
          /\ e.buffer[i].stage # "Ordered" <=> i = n \/ m.buffer[i].stage # "Ordered"
  <2>1. "Executed" # "Ordered"
    OBVIOUS
  <2> QED BY <1>3, <1>4, <1>5, <2>1, Zenon
<1>10. Len(e.buffer) = Len(m.buffer) /\ QueueLen(e) = QueueLen(m)
  BY <1>4, <1>5, Zenon DEF QueueLen
<1>11. \A i \in Queue(m) : Item(e, i) = Item(m, i)
  BY <1>5, <1>8, <1>9, <1>10, Zenon DEF Item
<1>12. \A i \in Queue(m) : Done(e, i) <=> i = n \/ Done(m, i)
  BY <1>8, <1>9, <1>10, Zenon DEF Done
<1>13. ExecutedItem(m, e, n, t)
  BY <1>5, <1>6, <1>10, <1>11, <1>12, Zenon DEF ExecutedItem
<1> QED BY <1>1, <1>13, Zenon

\* Response r reports the execution of item n, with end timestamp t.
Executes(m, rx, r, n, t, rc) ==
    /\ r \in rx /\ r.ok /\ n \in DOMAIN m.buffer /\ IsNext(m, n)
    /\ Item(m, n) = r.batch /\ m.execution_root = r.batch.last
    /\ t \in Blocks \cup {None} /\ (t # None => rc <= r.batch.last)

\* What is then known of the manager e that item n of m is executed in.
AfterExecution(m, e, r, n) ==
    /\ LooseRoot(e) /\ Done(e, n)
    /\ Len(e.buffer) = Len(m.buffer) /\ n \in DOMAIN e.buffer
    /\ e.buffer[n].batch = r.batch /\ e.execution_root = r.batch.last
    /\ e.mode = m.mode /\ e.pending = m.pending

\* The batch just executed is the manager's next one, and the executor has its
\* blocks: the invariant is kept, and the root is left below the first batch to
\* execute.
LEMMA ExecutedKeeps ==
    ASSUME NEW m, NEW rx, NEW rx2, NEW tr, NEW rt \in Nat, NEW ord \in Nat, NEW rc \in Nat, NEW syn,
           CoreInv(m, rx, tr, rt, ord, rc, syn), rx2 \subseteq rx,
           NEW r, NEW n, NEW t, Executes(m, rx, r, n, t, rc)
    PROVE  /\ CoreInv(AdvanceToExecuted(m, n, t), rx2, tr, rt, ord, rc, syn)
           /\ AfterExecution(m, AdvanceToExecuted(m, n, t), r, n)
<1> USE DEF Executes
<1> DEFINE e == AdvanceToExecuted(m, n, t)
<1>1. /\ IsBufferManager(m) /\ QueueInv(m, ord) /\ StageInv(m) /\ AskedInv(m, rx, ord)
      /\ TreeInv(m, rx, tr, rt, rc) /\ PersistingInv(m, rt, ord, rc)
      /\ PendingInv(m, rt, ord, rc) /\ AnchorInv(m, rx, tr, rt, ord, rc, syn)
      /\ TimestampInv(m, ord, rc)
  BY Zenon DEF CoreInv
<1>0. ExecutedItem(m, e, n, t)
  BY <1>1, ExecutedFields, Zenon
<1> HIDE DEF e
<1>2. /\ IsBufferManager(e) /\ Len(e.buffer) = Len(m.buffer)
      /\ e.block_rx = m.block_rx /\ e.execution_root = m.execution_root
      /\ e.end_epoch_timestamp = t /\ e.execution = m.execution
      /\ e.persisting = m.persisting /\ e.pending = m.pending /\ e.mode = m.mode
      /\ QueueLen(e) = QueueLen(m)
      /\ \A i \in Queue(m) : Item(e, i) = Item(m, i)
      /\ \A i \in Queue(m) : Done(e, i) <=> i = n \/ Done(m, i)
  BY <1>0, Zenon DEF ExecutedItem
<1>3. Queue(e) = Queue(m) /\ QueueLen(m) \in Nat /\ n \in Queue(m)
      /\ DOMAIN m.buffer \subseteq Queue(m) /\ DOMAIN e.buffer = DOMAIN m.buffer
  <2>1. DOMAIN e.buffer = 1 .. Len(e.buffer) /\ DOMAIN m.buffer = 1 .. Len(m.buffer)
    BY <1>1, <1>2, QueueFields, Zenon
  <2> QED BY <1>1, <1>2, <2>1, QueueFields, Zenon DEF Queue, IsNext
<1>4. QueueLen(m) # 0 => 1 \in Queue(m)
  BY <1>3 DEF Queue
<1>5. NextBlock(e, ord) = NextBlock(m, ord) /\ Certified(e, rt) = Certified(m, rt)
      /\ Asked(e, rx2) \subseteq Asked(m, rx)
  BY <1>2, <1>4, Zenon DEF NextBlock, Certified, Asked
<1>6. QueueInv(e, ord)
  <2>1. \A i \in Queue(m) : i < QueueLen(m) => i + 1 \in Queue(m)
    BY <1>3 DEF Queue
  <2>2. \A i, j \in Queue(e) : i < j => Item(e, i).last < Item(e, j).first
    BY <1>1, <1>2, <1>3, Zenon DEF QueueInv
  <2>3. ASSUME NEW i \in Queue(e)
        PROVE  /\ Item(e, i).last <= ord
               /\ i = QueueLen(e) => Item(e, i).last = ord
               /\ i < QueueLen(e) => Item(e, i + 1).first = Item(e, i).last + 1
    <3>1. i \in Queue(m) /\ Item(e, i) = Item(m, i) /\ QueueLen(e) = QueueLen(m)
      BY <1>2, <1>3, Zenon
    <3>2. i < QueueLen(m) => Item(e, i + 1) = Item(m, i + 1)
      BY <1>2, <2>1, <3>1, Zenon
    <3> QED BY <1>1, <3>1, <3>2, Zenon DEF QueueInv
  <2> QED BY <2>2, <2>3, Zenon DEF QueueInv
<1>7. StageInv(e)
  BY <1>1, <1>2, <1>3, Zenon DEF StageInv, IsNext
<1>8. AskedInv(e, rx2, ord)
  <2>1. \A i \in Queue(m) : ~Done(e, i) => ~Done(m, i)
    BY <1>2, Zenon
  <2>2. \A b \in Asked(e, rx2) : b \in Asked(m, rx)
    BY <1>5, Zenon
  <2>3. ASSUME NEW b \in Asked(e, rx2), NEW i \in Queue(m)
        PROVE  /\ b.last <= ord
               /\ Item(e, i).last = b.last => Item(e, i) = b
               /\ ~Done(e, i) => b.last <= Item(e, i).last
    <3>1. /\ b.last <= ord
          /\ Item(m, i).last = b.last => Item(m, i) = b
          /\ ~Done(m, i) => b.last <= Item(m, i).last
      BY <1>1, <2>2, Zenon DEF AskedInv
    <3>2. Item(e, i) = Item(m, i)
      BY <1>2, Zenon
    <3> QED BY <2>1, <3>1, <3>2, Zenon
  <2>4. \A b \in Asked(e, rx2) : b.last <= ord
    BY <1>1, <2>2, Zenon DEF AskedInv
  <2> QED BY <1>3, <2>3, <2>4, Zenon DEF AskedInv
<1>9. TreeInv(e, rx2, tr, rt, rc)
  <2>1. rt < rc => BlocksOf(Item(m, n)) \subseteq tr
    BY <1>1, <1>3, Zenon DEF TreeInv
  <2> QED BY <1>1, <1>2, <1>3, <1>5, <2>1, Zenon DEF TreeInv
<1>10. PersistingInv(e, rt, ord, rc)
  BY <1>1, <1>2, <1>3, Zenon DEF PersistingInv
<1>11. PendingInv(e, rt, ord, rc)
  BY <1>1, <1>2, <1>3, <1>5, Zenon DEF PendingInv
<1>12. AnchorInv(e, rx2, tr, rt, ord, rc, syn)
  <2>1. ~Stuck(m, rx, tr, rt, ord)
    <3>1. Item(m, 1).first <= Item(m, n).first
      BY <1>1, NextIsAsked, Zenon
    <3>2. QueueLen(m) # 0 /\ 1 \in Queue(m)
      BY <1>3, <1>4 DEF Queue
    <3>3. NextBlock(m, ord) = Item(m, 1).first
      BY <3>2, Zenon DEF NextBlock
    <3>4. Item(m, 1).first \in Nat
      BY <1>1, <3>2, QueueItem, Zenon
    <3>5. Item(m, n).first \in Nat /\ Item(m, n).last \in Nat /\ Item(m, n).first <= Item(m, n).last
      BY <1>1, <1>3, QueueItem, Zenon
    <3>6. ~ (Item(m, n).last < Item(m, 1).first)
      BY <3>1, <3>4, <3>5
    <3> QED BY <3>3, <3>6, Zenon DEF Stuck
  <2> QED BY <1>1, <1>2, <1>5, <2>1, Zenon DEF AnchorInv
<1>13. TimestampInv(e, ord, rc)
  <2>1. SUFFICES ASSUME t # None
                 PROVE  rc <= ord /\ \A i \in Queue(m) : ~Done(e, i) => rc < Item(m, i).first
    BY <1>2, <1>3, Zenon DEF TimestampInv
  <2>2. Item(m, n).last <= ord /\ Item(m, n).last \in Nat /\ rc <= Item(m, n).last
    BY <1>1, <1>3, <2>1, QueueItem, Zenon DEF QueueInv
  <2>3. rc <= ord
    BY <2>2
  <2>4. ASSUME NEW i \in Queue(m), ~Done(e, i) PROVE rc < Item(m, i).first
    <3>1. i # n /\ ~Done(m, i)
      BY <1>2, <2>4, Zenon
    <3>2. ~ (i < n)
      BY <3>1, Zenon DEF IsNext
    <3>3. i \in Nat /\ n \in Nat /\ Item(m, i).first \in Nat
      BY <1>1, <1>3, QueueItem, Zenon
    <3>4. n < i
      BY <3>1, <3>2, <3>3
    <3>5. Item(m, n).last < Item(m, i).first
      BY <1>1, <1>3, <3>4, Zenon DEF QueueInv
    <3> QED BY <2>2, <3>3, <3>5
  <2> QED BY <2>3, <2>4, Zenon
<1>14. \A i \in DOMAIN m.buffer : e.buffer[i].batch = Item(m, i) /\ m.buffer[i].batch = Item(m, i)
  BY <1>1, <1>2, <1>3, QueueFields, Zenon
<1>15. LooseRoot(e)
  <2>1. n \in Positions(e, e.execution_root)
    BY <1>2, <1>3, <1>14, Zenon DEF Positions
  <2>2. \A j \in DOMAIN e.buffer : j < n => Done(e, j)
    BY <1>2, <1>3, Zenon DEF IsNext
  <2> QED BY <2>1, <2>2, Zenon DEF LooseRoot
<1>16. CoreInv(e, rx2, tr, rt, ord, rc, syn)
  BY <1>2, <1>6, <1>7, <1>8, <1>9, <1>10, <1>11, <1>12, <1>13, Zenon DEF CoreInv
<1>17. AfterExecution(m, e, r, n)
  BY <1>2, <1>3, <1>14, <1>15, <1>16, Zenon DEF AfterExecution
<1>18. CoreInv(e, rx2, tr, rt, ord, rc, syn)
  BY <1>2, <1>3, <1>14, <1>15, <1>16, Zenon
<1> QED BY <1>17, <1>18, Zenon DEF e

-----------------------------------------------------------------------------
(* Aggregated items leave the buffer. *)

\* The executed batches up to position n are an interval of blocks.
LEMMA PrefixBlocks ==
    ASSUME NEW m, IsBufferManager(m), NEW ord \in Nat, QueueInv(m, ord), NEW n \in Queue(m)
    PROVE  UNION {BlocksOf(Item(m, i)) : i \in 1 .. n} = Item(m, 1).first .. Item(m, n).last
<1> DEFINE all == UNION {BlocksOf(Item(m, i)) : i \in 1 .. n}
<1>1. n \in Nat /\ 1 <= n /\ n <= QueueLen(m) /\ QueueLen(m) \in Nat
  BY QueueItem, Zenon
<1>2. \A i \in 1 .. n : i \in Queue(m)
  BY <1>1 DEF Queue
<1>3. 1 \in 1 .. n /\ n \in 1 .. n /\ 1 \in Queue(m)
  BY <1>1, <1>2
<1>4. \A i \in 1 .. n : Item(m, i).first \in Nat /\ Item(m, i).last \in Nat
  BY <1>2, QueueItem, Zenon
<1>5. \A i \in 1 .. n : Item(m, 1).first <= Item(m, i).first /\ Item(m, i).last <= Item(m, n).last
  <2> TAKE i \in 1 .. n
  <2>1. i \in Queue(m) /\ i \in Nat
    BY <1>2, <1>1
  <2>2. 1 < i => Item(m, 1).first < Item(m, i).first
    BY <1>3, <2>1, QueueIsStrict, Zenon
  <2>3. i < n => Item(m, i).last < Item(m, n).last
    BY <1>3, <2>1, QueueIsStrict, Zenon
  <2>4. /\ Item(m, 1).first \in Nat /\ Item(m, i).first \in Nat
        /\ Item(m, i).last \in Nat /\ Item(m, n).last \in Nat
    BY <1>3, <1>4, Zenon
  <2>5. i = 1 \/ 1 < i
    BY <2>1, <1>1
  <2>6. i = n \/ i < n
    BY <2>1, <1>1
  <2>7. Item(m, 1).first <= Item(m, i).first
    BY <2>2, <2>4, <2>5
  <2>8. Item(m, i).last <= Item(m, n).last
    BY <2>3, <2>4, <2>6
  <2> QED BY <2>7, <2>8, Zenon
<1>6. ASSUME NEW x \in all PROVE x \in Item(m, 1).first .. Item(m, n).last
  <2>1. PICK i \in 1 .. n : x \in BlocksOf(Item(m, i))
    BY Zenon
  <2>2. x \in Item(m, i).first .. Item(m, i).last
    BY <2>1, Zenon DEF BlocksOf
  <2>3. /\ Item(m, 1).first \in Nat /\ Item(m, i).first \in Nat
        /\ Item(m, i).last \in Nat /\ Item(m, n).last \in Nat
    BY <1>3, <1>4, Zenon
  <2>4. Item(m, 1).first <= Item(m, i).first /\ Item(m, i).last <= Item(m, n).last
    BY <1>5, Zenon
  <2> HIDE DEF all
  <2> QED BY <2>2, <2>3, <2>4
<1>7. ASSUME NEW x \in Item(m, 1).first .. Item(m, n).last PROVE x \in all
  <2> DEFINE up == {i \in 1 .. n : x <= Item(m, i).last}
             k == Min(up)
  <2>1. x \in Int /\ Item(m, 1).first <= x /\ x <= Item(m, n).last
    <3>1. Item(m, 1).first \in Nat /\ Item(m, n).last \in Nat
      BY <1>3, <1>4, Zenon
    <3> HIDE DEF all, up
    <3> QED BY <3>1
  <2>2. n \in up
    BY <1>3, <2>1, Zenon
  <2>3. up \in SUBSET Nat
    BY <1>1
  <2>4. k \in up /\ \A i \in up : k <= i
    BY <2>2, <2>3, LeastOf, Zenon
  <2>5. k \in 1 .. n /\ x <= Item(m, k).last
    BY <2>4, Zenon
  <2> HIDE DEF k, up
  <2>6. Item(m, k).first <= x
    <3>1. CASE k = 1
      BY <2>1, <3>1, Zenon
    <3>2. CASE k # 1
      <4>1. k - 1 \in 1 .. n /\ ~ (k <= k - 1) /\ k - 1 + 1 = k /\ k - 1 < QueueLen(m)
        BY <1>1, <2>5, <3>2
      <4>2. ~ (x <= Item(m, k - 1).last)
        BY <2>4, <4>1, Zenon DEF up
      <4>3. Item(m, k - 1 + 1).first = Item(m, k - 1).last + 1
        BY <1>2, <4>1, Zenon DEF QueueInv
      <4>4. Item(m, k).first = Item(m, k - 1).last + 1
        BY <4>1, <4>3, Zenon
      <4>5. Item(m, k - 1).last \in Nat
        BY <1>4, <4>1, Zenon
      <4> HIDE DEF all
      <4> QED BY <2>1, <4>2, <4>4, <4>5
    <3> QED BY <3>1, <3>2, Zenon
  <2>7. x \in Item(m, k).first .. Item(m, k).last
    <3>1. Item(m, k).first \in Nat /\ Item(m, k).last \in Nat
      BY <1>4, <2>5, Zenon
    <3> HIDE DEF all
    <3> QED BY <2>1, <2>5, <2>6, <3>1
  <2> QED BY <2>5, <2>7, Zenon DEF BlocksOf
<1> HIDE DEF all
<1>8. all = Item(m, 1).first .. Item(m, n).last
  BY <1>6, <1>7, Zenon
<1> QED BY <1>8, Zenon DEF all

\* The rest of a sequence.
LEMMA SuffixFields ==
    ASSUME NEW S, NEW s \in Seq(S), NEW n \in 1 .. Len(s)
    PROVE  /\ SubSeq(s, n + 1, Len(s)) \in Seq(S)
           /\ Len(SubSeq(s, n + 1, Len(s))) = Len(s) - n
           /\ \A i \in 1 .. Len(s) - n : SubSeq(s, n + 1, Len(s))[i] = s[n + i]
OBVIOUS

\* r is m without the first n batches of its queue.
Shifted(m, r, n) ==
    /\ QueueLen(r) = QueueLen(m) - n
    /\ \A i \in Queue(r) :
          n + i \in Queue(m) /\ Item(r, i) = Item(m, n + i) /\ (Done(r, i) <=> Done(m, n + i))

\* r is m after the first n items, named by popped, have left the buffer.
Pops(m, r, n, popped) ==
    /\ IsBufferManager(r) /\ Shifted(m, r, n) /\ SameRequests(m, r)
    /\ r.execution = m.execution /\ r.signing = m.signing
    /\ m.execution_root \in popped => r.execution_root = None
    /\ m.execution_root \notin popped => r.execution_root = m.execution_root
    /\ Len(r.buffer) = Len(m.buffer) - n
    /\ \A i \in DOMAIN r.buffer : n + i \in DOMAIN m.buffer /\ r.buffer[i] = m.buffer[n + i]

\* What leaves the buffer is no longer part of the queue.
LEMMA PopFields ==
    ASSUME NEW m, IsBufferManager(m), NEW n \in DOMAIN m.buffer, NEW popped
    PROVE  Pops(m, PopPrefix(m, n, popped), n, popped)
<1> DEFINE new == SubSeq(m.buffer, n + 1, Len(m.buffer))
           ex == IF m.execution_root \in popped THEN None ELSE m.execution_root
           sg == IF m.signing_root \in popped THEN None ELSE m.signing_root
           r == [m EXCEPT !.buffer = new, !.execution_root = ex, !.signing_root = sg]
           x == Len(m.buffer)
           y == Len(m.block_rx)
<1>1. PopPrefix(m, n, popped) = r
  BY Zenon DEF PopPrefix
<1>2. m.buffer \in Seq(BufferItem) /\ m.block_rx \in Seq(Batches)
  BY Zenon DEF IsBufferManager
<1>3. x \in Nat /\ y \in Nat /\ DOMAIN m.buffer = 1 .. x /\ n \in Nat /\ 1 <= n /\ n <= x
  BY <1>2
<1>4. n \in 1 .. Len(m.buffer)
  BY <1>3, Zenon
<1>5. /\ new \in Seq(BufferItem) /\ Len(new) = x - n
      /\ \A i \in 1 .. x - n : new[i] = m.buffer[n + i]
  BY <1>2, <1>4, SuffixFields, Zenon
<1>6. ex \in Blocks \cup {None} /\ sg \in Blocks \cup {None}
  BY Zenon DEF IsBufferManager
<1> HIDE DEF new, ex, sg
<1>7. /\ DOMAIN r = DOMAIN m
      /\ r.buffer = new /\ r.block_rx = m.block_rx
      /\ r.execution_root = ex /\ r.signing_root = sg
      /\ r.end_epoch_timestamp = m.end_epoch_timestamp
      /\ r.execution = m.execution /\ r.signing = m.signing
      /\ r.persisting = m.persisting /\ r.pending = m.pending /\ r.mode = m.mode
  BY DEF IsBufferManager
<1> HIDE DEF r
<1>8. IsBufferManager(r)
  BY <1>5, <1>6, <1>7, Zenon DEF IsBufferManager
<1>9. DOMAIN new = 1 .. x - n
  BY <1>3, <1>5
<1>10. /\ \A i : i <= x => Item(m, i) = m.buffer[i].batch
       /\ \A i : ~ (i <= x) => Item(m, i) = m.block_rx[i - x]
       /\ \A i : i <= x - n => Item(r, i) = new[i].batch
       /\ \A i : ~ (i <= x - n) => Item(r, i) = m.block_rx[i - (x - n)]
       /\ \A i : Done(m, i) <=> i <= x /\ m.buffer[i].stage # "Ordered"
       /\ \A i : Done(r, i) <=> i <= x - n /\ new[i].stage # "Ordered"
       /\ QueueLen(m) = x + y /\ QueueLen(r) = x - n + y
  BY <1>5, <1>7, Zenon DEF Item, Done, QueueLen
<1> HIDE DEF x, y
<1>11. QueueLen(r) = QueueLen(m) - n
  BY <1>3, <1>10
<1>12. ASSUME NEW i \in Queue(r)
       PROVE  n + i \in Queue(m) /\ Item(r, i) = Item(m, n + i) /\ (Done(r, i) <=> Done(m, n + i))
  <2>1. i \in Nat /\ 1 <= i /\ i <= x - n + y
    BY <1>3, <1>10 DEF Queue
  <2>2. n + i \in 1 .. x + y
    BY <1>3, <2>1
  <2>3. n + i \in Queue(m)
    BY <1>10, <2>2, Zenon DEF Queue
  <2>4. CASE i <= x - n
    <3>1. n + i <= x /\ i \in 1 .. x - n
      BY <1>3, <2>1, <2>4
    <3>2. new[i] = m.buffer[n + i]
      BY <1>5, <3>1, Zenon
    <3> QED BY <1>10, <2>3, <2>4, <3>1, <3>2, Zenon
  <2>5. CASE ~ (i <= x - n)
    <3> DEFINE p == n + i
               d == i - (x - n)
    <3>1. ~ (p <= x) /\ p - x = d
      BY <1>3, <2>1, <2>5
    <3>2. Item(r, i) = m.block_rx[d] /\ ~Done(r, i)
      BY <1>10, <2>5, Zenon
    <3> HIDE DEF p, d
    <3>3. Item(m, p) = m.block_rx[p - x] /\ ~Done(m, p)
      BY <1>10, <3>1, Zenon
    <3>4. Item(r, i) = Item(m, p) /\ ~Done(r, i) /\ ~Done(m, p)
      BY <3>1, <3>2, <3>3, Zenon
    <3> QED BY <2>3, <3>4, Zenon DEF p
  <2> QED BY <2>4, <2>5, Zenon
<1>13. Shifted(m, r, n)
  BY <1>11, <1>12, Zenon DEF Shifted
<1>14. ASSUME NEW i \in DOMAIN r.buffer
       PROVE  n + i \in DOMAIN m.buffer /\ r.buffer[i] = m.buffer[n + i]
  <2>1. i \in 1 .. x - n
    BY <1>7, <1>9, Zenon
  <2>2. n + i \in 1 .. x
    BY <1>3, <2>1
  <2> QED BY <1>3, <1>5, <1>7, <2>1, <2>2, Zenon
<1>15. SameRequests(m, r)
  BY <1>7, Zenon DEF SameRequests
<1>16. Len(r.buffer) = Len(m.buffer) - n
  BY <1>5, <1>7, Zenon DEF x
<1>17. Pops(m, r, n, popped)
  BY <1>7, <1>8, <1>13, <1>14, <1>15, <1>16, Zenon DEF Pops, ex
<1> QED BY <1>1, <1>17, Zenon

\* What advance_head asks the persisting phase for.
Request(m, n) ==
    [blocks |-> UNION {BlocksOf(m.buffer[i].batch) : i \in 1 .. n},
     last |-> m.buffer[n].batch.last]

\* The request continues what was asked before, and its blocks are executed.
LEMMA RequestFields ==
    ASSUME NEW m, NEW rx, NEW tr, NEW rt \in Nat, NEW ord \in Nat, NEW rc \in Nat, NEW syn,
           CoreInv(m, rx, tr, rt, ord, rc, syn), m.mode = "running", syn # "syncing",
           NEW n \in DOMAIN m.buffer, Done(m, n)
    PROVE  LET q == Request(m, n) IN
           /\ q \in PersistingRequest /\ q.last = Item(m, n).last /\ q.last \in Nat
           /\ q.last <= ord /\ q.blocks = Item(m, 1).first .. q.last
           /\ 1 \in Queue(m) /\ Item(m, 1).first \in Nat /\ Item(m, 1).first <= q.last
           /\ Certified(m, rt) < rc => Item(m, 1).first = Certified(m, rt) + 1
           /\ rt < rc => q.blocks \subseteq tr
           /\ \A i \in Queue(m) : n < i => q.last < Item(m, i).first
<1> DEFINE q == Request(m, n)
<1>1. /\ IsBufferManager(m) /\ QueueInv(m, ord) /\ StageInv(m)
      /\ TreeInv(m, rx, tr, rt, rc) /\ AnchorInv(m, rx, tr, rt, ord, rc, syn)
  BY Zenon DEF CoreInv
<1>2. /\ n \in Queue(m) /\ n \in Nat /\ 1 <= n /\ n <= QueueLen(m) /\ QueueLen(m) \in Nat
      /\ DOMAIN m.buffer = 1 .. Len(m.buffer) /\ Len(m.buffer) \in Nat
      /\ \A i \in DOMAIN m.buffer : i \in Queue(m) /\ Item(m, i) = m.buffer[i].batch
  <2>1. n \in Queue(m) /\ QueueLen(m) \in Nat
    BY <1>1, QueueFields, Zenon
  <2> QED BY <1>1, <2>1, QueueFields, Zenon
<1>3. \A i \in 1 .. n : i \in DOMAIN m.buffer
  BY <1>2
<1>4. 1 \in 1 .. n /\ 1 \in Queue(m) /\ QueueLen(m) # 0
  BY <1>2, <1>3
<1>5. \A i \in 1 .. n : Done(m, i)
  <2> TAKE i \in 1 .. n
  <2>1. i = n \/ i < n
    BY <1>2
  <2>2. i \in Queue(m)
    BY <1>2, <1>3, Zenon
  <2> QED BY <1>1, <1>2, <2>1, <2>2, Zenon DEF StageInv
<1>6. q.last = m.buffer[n].batch.last
      /\ q.blocks = UNION {BlocksOf(m.buffer[i].batch) : i \in 1 .. n}
      /\ q = [blocks |-> q.blocks, last |-> q.last]
  BY DEF Request
<1> HIDE DEF q
<1>7. \A i \in 1 .. n : m.buffer[i].batch = Item(m, i)
  BY <1>2, <1>3, Zenon
<1>8. {BlocksOf(m.buffer[i].batch) : i \in 1 .. n} = {BlocksOf(Item(m, i)) : i \in 1 .. n}
  BY <1>7, Zenon
<1>9. q.blocks = UNION {BlocksOf(Item(m, i)) : i \in 1 .. n}
  BY <1>6, <1>8, Zenon
<1>10. q.last = Item(m, n).last
  BY <1>2, <1>6, Zenon
<1>11. UNION {BlocksOf(Item(m, i)) : i \in 1 .. n} = Item(m, 1).first .. Item(m, n).last
  BY <1>1, <1>2, PrefixBlocks, Zenon
<1>12. q.blocks = Item(m, 1).first .. q.last
  BY <1>9, <1>10, <1>11, Zenon
<1>13. /\ Item(m, 1) \in Batches /\ Item(m, n) \in Batches
       /\ Item(m, 1).first \in Nat /\ Item(m, n).last \in Nat
       /\ Item(m, 1).first <= Item(m, 1).last /\ Item(m, 1).last \in Nat
  BY <1>1, <1>2, <1>4, QueueItem, Zenon
<1>14. Item(m, 1).first <= q.last
  <2>1. 1 < n => Item(m, 1).last < Item(m, n).last
    BY <1>1, <1>2, <1>4, QueueIsStrict, Zenon
  <2> QED BY <1>2, <1>10, <1>13, <2>1
<1>15. q \in PersistingRequest
  <2>1. q.last \in Blocks /\ Item(m, 1).first \in Blocks
    BY <1>10, <1>13, BatchFields, Zenon
  <2>2. NumBlocks \in Nat
    BY BufferManagerAssumption, Zenon
  <2>3. q.blocks \in SUBSET Blocks
    BY <1>12, <1>13, <2>1, <2>2 DEF Blocks
  <2>4. [blocks |-> q.blocks, last |-> q.last] \in PersistingRequest
    BY <2>1, <2>3 DEF PersistingRequest
  <2> QED BY <1>6, <2>4, Zenon
<1>16. ASSUME Certified(m, rt) < rc PROVE Item(m, 1).first = Certified(m, rt) + 1
  <2>1. ~Stuck(m, rx, tr, rt, ord)
    BY <1>4, <1>5, Zenon DEF Stuck
  <2>2. NextBlock(m, ord) = Item(m, 1).first
    BY <1>4, Zenon DEF NextBlock
  <2> QED BY <1>1, <1>16, <2>1, <2>2, Zenon DEF AnchorInv
<1>17. ASSUME rt < rc PROVE q.blocks \subseteq tr
  <2>1. \A i \in 1 .. n : BlocksOf(Item(m, i)) \subseteq tr
    BY <1>1, <1>2, <1>3, <1>5, <1>17, Zenon DEF TreeInv
  <2> QED BY <1>9, <2>1, Zenon
<1>18. \A i \in Queue(m) : n < i => q.last < Item(m, i).first
  BY <1>1, <1>2, <1>10, Zenon DEF QueueInv
<1>19. q.last \in Nat /\ q.last <= ord
  BY <1>1, <1>2, <1>10, <1>13, Zenon DEF QueueInv
<1> QED BY <1>4, <1>10, <1>12, <1>13, <1>14, <1>15, <1>16, <1>17, <1>18, <1>19, Zenon DEF q

\* A certified prefix leaves the buffer, below the end of the epoch.
LEMMA CommitKeeps ==
    ASSUME NEW m, NEW rx, NEW tr, NEW rt \in Nat, NEW ord \in Nat, NEW rc \in Nat, NEW syn,
           CoreInv(m, rx, tr, rt, ord, rc, syn), m.mode = "running", syn # "syncing",
           m.pending = <<>>, NEW n \in DOMAIN m.buffer, Done(m, n), Request(m, n).last < rc,
           NEW h, NEW r, IsBufferManager(h), Shifted(m, r, n),
           h.buffer = r.buffer, h.block_rx = r.block_rx, h.execution = m.execution,
           h.end_epoch_timestamp = m.end_epoch_timestamp, h.pending = m.pending,
           h.persisting = Append(m.persisting, Request(m, n))
    PROVE  CoreInv(h, rx, tr, rt, ord, rc, syn)
<1> DEFINE q == Request(m, n)
           k == Len(m.persisting)
<1>1. /\ IsBufferManager(m) /\ QueueInv(m, ord) /\ StageInv(m) /\ AskedInv(m, rx, ord)
      /\ TreeInv(m, rx, tr, rt, rc) /\ PersistingInv(m, rt, ord, rc)
      /\ TimestampInv(m, ord, rc)
  BY Zenon DEF CoreInv
<1>2. /\ q \in PersistingRequest /\ q.last = Item(m, n).last /\ q.last \in Nat
      /\ q.last <= ord /\ q.blocks = Item(m, 1).first .. q.last
      /\ 1 \in Queue(m) /\ Item(m, 1).first \in Nat /\ Item(m, 1).first <= q.last
      /\ Certified(m, rt) < rc => Item(m, 1).first = Certified(m, rt) + 1
      /\ rt < rc => q.blocks \subseteq tr
      /\ \A i \in Queue(m) : n < i => q.last < Item(m, i).first
  BY RequestFields, Zenon
<1> HIDE DEF q
<1>3. SameQueue(r, h)
  BY SameBufferSameQueue, Zenon
<1>4. /\ QueueLen(h) = QueueLen(m) - n
      /\ \A i \in Queue(h) :
            n + i \in Queue(m) /\ Item(h, i) = Item(m, n + i) /\ (Done(h, i) <=> Done(m, n + i))
  <2>1. QueueLen(h) = QueueLen(r) /\ Queue(h) = Queue(r)
    BY <1>3, Zenon DEF SameQueue, Queue
  <2> QED BY <1>3, <2>1, Zenon DEF SameQueue, Shifted
<1>5. /\ n \in Queue(m) /\ n \in Nat /\ 1 <= n /\ QueueLen(m) \in Nat /\ n <= QueueLen(m)
      /\ \A i \in Queue(m) : i \in Nat /\ 1 <= i /\ i <= QueueLen(m)
  <2>1. n \in Queue(m)
    BY <1>1, QueueFields, Zenon
  <2> QED BY <1>1, <2>1, QueueFields, Zenon
<1>6. \A i \in Queue(h) : i \in Nat /\ 1 <= i /\ n < n + i
  BY <1>4, <1>5 DEF Queue
<1>7. \A i \in Queue(h) : q.last < Item(h, i).first
  BY <1>2, <1>4, <1>6, Zenon
<1>8. QueueInv(h, ord)
  <2>1. ASSUME NEW i \in Queue(h), NEW j \in Queue(h), i < j
        PROVE  Item(h, i).last < Item(h, j).first
    <3>1. n + i < n + j
      BY <1>5, <1>6, <2>1
    <3> QED BY <1>1, <1>4, <3>1, Zenon DEF QueueInv
  <2>2. ASSUME NEW i \in Queue(h)
        PROVE  /\ Item(h, i).last <= ord
               /\ i = QueueLen(h) => Item(h, i).last = ord
               /\ i < QueueLen(h) => Item(h, i + 1).first = Item(h, i).last + 1
    <3>1. Item(h, i).last <= ord
      BY <1>1, <1>4, Zenon DEF QueueInv
    <3>2. ASSUME i = QueueLen(h) PROVE Item(h, i).last = ord
      <4>1. n + i = QueueLen(m)
        BY <1>4, <1>5, <3>2
      <4> QED BY <1>1, <1>4, <4>1, Zenon DEF QueueInv
    <3>3. ASSUME i < QueueLen(h) PROVE Item(h, i + 1).first = Item(h, i).last + 1
      <4>1. i + 1 \in Queue(h) /\ n + i < QueueLen(m) /\ n + i + 1 = n + (i + 1)
        BY <1>4, <1>5, <1>6, <3>3 DEF Queue
      <4>2. Item(m, n + i + 1).first = Item(m, n + i).last + 1
        BY <1>1, <1>4, <4>1, Zenon DEF QueueInv
      <4>3. Item(h, i + 1) = Item(m, n + (i + 1)) /\ Item(h, i) = Item(m, n + i)
        BY <1>4, <4>1, Zenon
      <4> QED BY <4>1, <4>2, <4>3, Zenon
    <3> QED BY <3>1, <3>2, <3>3, Zenon
  <2> QED BY <2>1, <2>2, Zenon DEF QueueInv
<1>9. StageInv(h)
  <2>1. \A i, j \in Queue(h) : i < j => n + i < n + j
    BY <1>5, <1>6
  <2> QED BY <1>1, <1>4, <2>1, Zenon DEF StageInv
<1>10. AskedInv(h, rx, ord)
  <2>1. Asked(h, rx) = Asked(m, rx)
    BY Zenon DEF Asked
  <2> QED BY <1>1, <1>4, <2>1, Zenon DEF AskedInv
<1>11. m.persisting \in Seq(PersistingRequest)
  BY <1>1, Zenon DEF IsBufferManager
<1>12. /\ k \in Nat /\ DOMAIN m.persisting = 1 .. k /\ DOMAIN h.persisting = 1 .. k + 1
       /\ Len(h.persisting) = k + 1 /\ (m.persisting = <<>> <=> k = 0)
       /\ \A l \in 1 .. k : h.persisting[l] = m.persisting[l] /\ m.persisting[l] \in PersistingRequest
       /\ h.persisting[k + 1] = q
  BY <1>2, <1>11 DEF q
<1>13. /\ \A l \in DOMAIN m.persisting : l \in DOMAIN h.persisting /\ h.persisting[l] = m.persisting[l]
       /\ \A l \in DOMAIN h.persisting : l \in DOMAIN m.persisting \/ l = k + 1
       /\ h.persisting # <<>>
  <2> HIDE DEF k
  <2>1. /\ \A l \in 1 .. k : l \in 1 .. k + 1
        /\ \A l \in 1 .. k + 1 : l \in 1 .. k \/ l = k + 1
    BY <1>12
  <2>2. h.persisting # <<>>
    BY <1>12
  <2> QED BY <1>12, <2>1, <2>2, Zenon
<1>14. /\ m.persisting = <<>> => Certified(m, rt) = rt
       /\ m.persisting # <<>> => Certified(m, rt) = m.persisting[k].last /\ k \in DOMAIN m.persisting
  <2>1. k # 0 => k \in DOMAIN m.persisting
    BY <1>12
  <2> QED BY <1>12, <2>1, Zenon DEF Certified
<1> HIDE DEF k
<1>15. rt < Item(m, 1).first /\ rt < q.last /\ rt < rc
  <2>1. rt < Item(m, 1).first
    BY <1>1, <1>2, Zenon DEF PersistingInv
  <2>2. q.last < rc
    BY Zenon DEF q
  <2> QED BY <1>2, <2>1, <2>2
<1>16. \A l \in DOMAIN m.persisting :
           /\ m.persisting[l].last \in Nat /\ m.persisting[l].last < q.last
           /\ m.persisting[l].last < rc
  <2> TAKE l \in DOMAIN m.persisting
  <2>1. m.persisting[l].last < Item(m, 1).first
    BY <1>1, <1>2, Zenon DEF PersistingInv
  <2>2. m.persisting[l] \in PersistingRequest
    BY <1>12, Zenon
  <2>3. m.persisting[l].last \in Nat
    <3>1. m.persisting[l].last \in Blocks
      BY <2>2 DEF PersistingRequest
    <3>2. NumBlocks \in Nat
      BY BufferManagerAssumption, Zenon
    <3> QED BY <3>1, <3>2 DEF Blocks
  <2>4. q.last < rc
    BY Zenon DEF q
  <2> QED BY <1>2, <2>1, <2>3, <2>4
<1>17. Certified(m, rt) < rc
  BY <1>14, <1>15, <1>16, Zenon
<1>18. q.blocks = Certified(m, rt) + 1 .. q.last
  BY <1>2, <1>17, Zenon
<1>19. Certified(h, rt) = q.last
  BY <1>12, <1>13, Zenon DEF Certified
<1>20. TreeInv(h, rx, tr, rt, rc)
  <2>1. \A i \in Queue(h) : Done(h, i) => BlocksOf(Item(h, i)) \subseteq tr
    BY <1>1, <1>4, <1>15, Zenon DEF TreeInv
  <2>2. \A i \in Queue(h), s \in rx :
            s.ok /\ s.batch.last = Item(h, i).last => BlocksOf(Item(h, i)) \subseteq tr
    BY <1>1, <1>4, <1>15, Zenon DEF TreeInv
  <2>3. \A l \in DOMAIN h.persisting : h.persisting[l].blocks \subseteq tr
    BY <1>1, <1>2, <1>12, <1>13, <1>15, Zenon DEF TreeInv
  <2>4. DOMAIN h.pending = {}
    OBVIOUS
  <2> QED BY <2>1, <2>2, <2>3, <2>4, Zenon DEF TreeInv
<1>21. PersistingInv(h, rt, ord, rc)
  <2>1. rt <= ord /\ \A i \in Queue(h) : rt < Item(h, i).first
    BY <1>1, <1>4, Zenon DEF PersistingInv
  <2>2. ASSUME NEW l \in DOMAIN m.persisting
        PROVE  /\ m.persisting[l].last <= ord
               /\ \A i \in Queue(h) : m.persisting[l].last < Item(h, i).first
               /\ rt < m.persisting[l].last
               /\ l = 1 => m.persisting[l].blocks = rt + 1 .. m.persisting[l].last
               /\ l > 1 =>
                     m.persisting[l].blocks = m.persisting[l - 1].last + 1 .. m.persisting[l].last
    BY <1>1, <1>4, <1>15, Zenon DEF PersistingInv
  <2>3. ASSUME NEW l \in DOMAIN h.persisting
        PROVE  /\ h.persisting[l].last <= ord
               /\ \A i \in Queue(h) : h.persisting[l].last < Item(h, i).first
               /\ rt < h.persisting[l].last /\ h.persisting[l].last < rc
               /\ h.persisting[l].last \in Nat
    <3>1. q.last < rc
      BY Zenon DEF q
    <3>2. CASE l = k + 1
      BY <1>2, <1>7, <1>12, <1>15, <3>1, <3>2, Zenon
    <3>3. CASE l \in DOMAIN m.persisting
      BY <1>13, <1>16, <2>2, <3>3, Zenon
    <3> QED BY <1>13, <3>2, <3>3, Zenon
  <2>4. ASSUME NEW l \in DOMAIN h.persisting
        PROVE  /\ l = 1 => h.persisting[l].blocks = rt + 1 .. h.persisting[l].last
               /\ l > 1 =>
                     h.persisting[l].blocks = h.persisting[l - 1].last + 1 .. h.persisting[l].last
    <3>1. CASE l = k + 1
      <4>1. h.persisting[l] = q
        BY <1>12, <3>1, Zenon
      <4>2. l = 1 => k = 0
        BY <1>12, <3>1
      <4>3. l > 1 => k # 0 /\ l - 1 = k
        BY <1>12, <3>1
      <4>4. l = 1 => Certified(m, rt) = rt
        BY <1>12, <1>14, <4>2, Zenon
      <4>5. l > 1 => Certified(m, rt) = h.persisting[l - 1].last
        BY <1>12, <1>13, <1>14, <4>3, Zenon
      <4> QED BY <1>18, <4>1, <4>4, <4>5, Zenon
    <3>2. CASE l \in DOMAIN m.persisting
      <4>1. l > 1 => l - 1 \in DOMAIN m.persisting
        BY <1>12, <3>2
      <4> QED BY <1>13, <2>2, <3>2, <4>1, Zenon
    <3> QED BY <1>13, <3>1, <3>2, Zenon
  <2>5. ASSUME NEW l \in DOMAIN h.persisting, NEW j \in DOMAIN h.persisting, l < j
        PROVE  h.persisting[l].last < h.persisting[j].last
    <3>1. l \in DOMAIN m.persisting
      BY <1>12, <2>5
    <3>2. CASE j = k + 1
      BY <1>12, <1>13, <1>16, <3>1, <3>2, Zenon
    <3>3. CASE j \in DOMAIN m.persisting
      BY <1>1, <1>13, <2>5, <3>1, <3>3, Zenon DEF PersistingInv
    <3> QED BY <1>13, <3>2, <3>3, Zenon
  <2>6. ~ (rt >= rc)
    BY <1>15
  <2>7. \A l \in DOMAIN h.persisting : ~ (h.persisting[l].last >= rc)
    BY <2>3
  <2> QED BY <2>1, <2>3, <2>4, <2>5, <2>6, <2>7, Zenon DEF PersistingInv
<1>22. PendingInv(h, rt, ord, rc)
  <2>1. DOMAIN h.pending = {}
    OBVIOUS
  <2> QED BY <2>1, Zenon DEF PendingInv
<1>23. AnchorInv(h, rx, tr, rt, ord, rc, syn)
  <2>1. CASE QueueLen(h) = 0
    <3>1. n = QueueLen(m)
      BY <1>4, <1>5, <2>1
    <3>2. q.last = ord
      BY <1>1, <1>2, <1>5, <3>1, Zenon DEF QueueInv
    <3> QED BY <1>19, <2>1, <3>2, Zenon DEF AnchorInv, NextBlock
  <2>2. CASE QueueLen(h) # 0
    <3>1. 1 \in Queue(h) /\ n < QueueLen(m)
      BY <1>4, <1>5, <2>2 DEF Queue
    <3>2. Item(h, 1).first = q.last + 1
      BY <1>1, <1>2, <1>4, <1>5, <3>1, Zenon DEF QueueInv
    <3> QED BY <1>19, <2>2, <3>2, Zenon DEF AnchorInv, NextBlock
  <2> QED BY <2>1, <2>2, Zenon
<1>24. TimestampInv(h, ord, rc)
  BY <1>1, <1>4, Zenon DEF TimestampInv
<1> QED BY <1>8, <1>9, <1>10, <1>20, <1>21, <1>22, <1>23, <1>24, Zenon DEF CoreInv

\* h is m after the reset at the end of the epoch.
Ends(m, h, n) ==
    /\ IsBufferManager(h) /\ h.buffer = <<>> /\ h.block_rx = <<>>
    /\ h.execution_root = None /\ h.execution = m.execution /\ h.mode = "ending"
    /\ h.end_epoch_timestamp = m.end_epoch_timestamp /\ h.persisting = m.persisting
    /\ h.pending = <<Request(m, n)>>

\* A certified prefix that ends the epoch empties the manager.
LEMMA EndKeeps ==
    ASSUME NEW m, NEW rx, NEW tr, NEW rt \in Nat, NEW ord \in Nat, NEW rc \in Nat, NEW syn,
           CoreInv(m, rx, tr, rt, ord, rc, syn), m.mode = "running", syn # "syncing",
           NEW n \in DOMAIN m.buffer, Done(m, n), Request(m, n).last >= rc,
           NEW h, Ends(m, h, n)
    PROVE  CoreInv(h, rx, tr, rt, ord, rc, syn) /\ RootInv(h)
<1> USE DEF Ends
<1> DEFINE q == Request(m, n)
<1>1. /\ IsBufferManager(m) /\ AskedInv(m, rx, ord) /\ TreeInv(m, rx, tr, rt, rc)
      /\ PersistingInv(m, rt, ord, rc) /\ TimestampInv(m, ord, rc)
  BY Zenon DEF CoreInv
<1>2. /\ q \in PersistingRequest /\ q.last = Item(m, n).last /\ q.last \in Nat
      /\ q.last <= ord /\ q.blocks = Item(m, 1).first .. q.last
      /\ 1 \in Queue(m) /\ Item(m, 1).first \in Nat /\ Item(m, 1).first <= q.last
      /\ Certified(m, rt) < rc => Item(m, 1).first = Certified(m, rt) + 1
      /\ rt < rc => q.blocks \subseteq tr
      /\ \A i \in Queue(m) : n < i => q.last < Item(m, i).first
  BY RequestFields, Zenon
<1>3. q.last >= rc /\ h.pending = <<q>>
  BY Zenon
<1> HIDE DEF q
<1>4. /\ Queue(h) = {} /\ DOMAIN h.buffer = {} /\ DOMAIN h.pending = {1} /\ h.pending[1] = q
  <2>1. Len(h.buffer) = 0 /\ Len(h.block_rx) = 0 /\ DOMAIN h.buffer = {}
    OBVIOUS
  <2>2. DOMAIN h.pending = {1} /\ h.pending[1] = q
    BY <1>3
  <2> QED BY <2>1, <2>2 DEF Queue, QueueLen
<1>5. Certified(h, rt) = Certified(m, rt) /\ Asked(h, rx) = Asked(m, rx)
  BY Zenon DEF Certified, Asked
<1>6. QueueInv(h, ord) /\ StageInv(h) /\ AskedInv(h, rx, ord)
  BY <1>1, <1>4, <1>5, Zenon DEF QueueInv, StageInv, AskedInv
<1>7. TreeInv(h, rx, tr, rt, rc)
  <2>1. rt < rc => \A k \in DOMAIN h.pending : h.pending[k].blocks \subseteq tr
    BY <1>2, <1>4, Zenon
  <2> QED BY <1>1, <1>4, <2>1, Zenon DEF TreeInv
<1>8. PersistingInv(h, rt, ord, rc)
  BY <1>1, <1>4, Zenon DEF PersistingInv
<1>9. PendingInv(h, rt, ord, rc)
  <2>1. rc <= q.last
    BY <1>2, <1>3
  <2> QED BY <1>2, <1>4, <1>5, <2>1, Zenon DEF PendingInv
<1>10. AnchorInv(h, rx, tr, rt, ord, rc, syn)
  <2>1. "ending" # "running"
    OBVIOUS
  <2> QED BY <2>1, Zenon DEF AnchorInv
<1>11. TimestampInv(h, ord, rc)
  BY <1>1, <1>4, Zenon DEF TimestampInv
<1>12. RootInv(h)
  BY <1>4, Zenon DEF RootInv
<1> QED BY <1>6, <1>7, <1>8, <1>9, <1>10, <1>11, <1>12, Zenon DEF CoreInv

\* advance_head keeps the invariant.
LEMMA AdvanceHeadKeeps ==
    ASSUME NEW m, NEW rx, NEW tr, NEW rt \in Nat, NEW ord \in Nat, NEW syn, Reconfig \in Nat,
           CoreInv(m, rx, tr, rt, ord, Reconfig, syn), m.mode = "running", syn # "syncing",
           m.pending = <<>>, NEW n \in DOMAIN m.buffer, Done(m, n),
           RootInv(m) \/ m.execution_root = m.buffer[n].batch.last
    PROVE  LET h == AdvanceHead(m, n) IN
           /\ CoreInv(h, rx, tr, rt, ord, Reconfig, syn)
           /\ h.execution_root # None => RootInv(h)
           /\ \/ h.mode = "running" /\ h.pending = <<>> /\ Len(h.buffer) < Len(m.buffer)
              \/ h.mode = "ending" /\ Emptied(h) /\ Len(h.pending) = 1 /\ RootInv(h)
<1> DEFINE q == Request(m, n)
           popped == {m.buffer[i].batch.last : i \in 1 .. n}
           r == PopPrefix(m, n, popped)
           reset == [ResetBuffer(r) EXCEPT !.mode = "ending", !.pending = <<q>>]
           kept == [r EXCEPT !.persisting = Append(@, q)]
<1>1. /\ IsBufferManager(m) /\ QueueInv(m, ord) /\ StageInv(m)
      /\ m.persisting \in Seq(PersistingRequest)
  BY Zenon DEF CoreInv, IsBufferManager
<1>2. /\ IsBufferManager(r) /\ Shifted(m, r, n) /\ SameRequests(m, r)
      /\ r.execution = m.execution /\ r.signing = m.signing
      /\ m.execution_root \in popped => r.execution_root = None
      /\ m.execution_root \notin popped => r.execution_root = m.execution_root
      /\ Len(r.buffer) = Len(m.buffer) - n
      /\ \A i \in DOMAIN r.buffer : n + i \in DOMAIN m.buffer /\ r.buffer[i] = m.buffer[n + i]
  <2>1. Pops(m, r, n, popped)
    BY <1>1, PopFields, Zenon
  <2> HIDE DEF r, popped
  <2> QED BY <2>1, Zenon DEF Pops
<1>3. AdvanceHead(m, n) = IF q.last >= Reconfig THEN reset ELSE kept
  BY Zenon DEF AdvanceHead, Request
<1>4. q \in PersistingRequest /\ q.last \in Nat
  BY RequestFields, Zenon
<1>5. /\ n \in Queue(m) /\ n \in Nat /\ 1 <= n /\ Len(m.buffer) \in Nat /\ n <= Len(m.buffer)
      /\ DOMAIN m.buffer = 1 .. Len(m.buffer) /\ DOMAIN m.buffer \subseteq Queue(m)
      /\ \A i \in DOMAIN m.buffer : Item(m, i) = m.buffer[i].batch
  <2>1. DOMAIN m.buffer = 1 .. Len(m.buffer) /\ Len(m.buffer) \in Nat
        /\ DOMAIN m.buffer \subseteq Queue(m)
        /\ \A i \in DOMAIN m.buffer : Item(m, i) = m.buffer[i].batch
    BY <1>1, QueueFields, Zenon
  <2>2. n \in Nat /\ 1 <= n /\ n <= Len(m.buffer)
    BY <2>1
  <2> QED BY <2>1, <2>2, Zenon
<1>6. r.mode = "running" /\ r.pending = <<>> /\ r.persisting = m.persisting
      /\ r.end_epoch_timestamp = m.end_epoch_timestamp
  BY <1>2, Zenon DEF SameRequests
<1>7. DOMAIN r = {"buffer", "block_rx", "execution_root", "signing_root",
                  "end_epoch_timestamp", "execution", "signing", "persisting",
                  "pending", "mode"}
  BY <1>2, Zenon DEF IsBufferManager
<1> HIDE DEF q, r
<1>8. ASSUME q.last >= Reconfig
      PROVE  /\ CoreInv(reset, rx, tr, rt, ord, Reconfig, syn)
             /\ reset.mode = "ending" /\ Emptied(reset) /\ Len(reset.pending) = 1
             /\ RootInv(reset)
  <2>1. /\ DOMAIN reset = DOMAIN r
        /\ reset.buffer = <<>> /\ reset.block_rx = <<>>
        /\ reset.execution_root = None /\ reset.signing_root = None
        /\ reset.end_epoch_timestamp = r.end_epoch_timestamp
        /\ reset.execution = r.execution /\ reset.signing = r.signing
        /\ reset.persisting = r.persisting /\ reset.pending = <<q>> /\ reset.mode = "ending"
    BY <1>7 DEF ResetBuffer
  <2> HIDE DEF reset
  <2>2. <<q>> \in Seq(PersistingRequest) /\ Len(<<q>>) = 1
    BY <1>4
  <2>3. <<>> \in Seq(BufferItem) /\ <<>> \in Seq(Batches) /\ None \in Blocks \cup {None}
    OBVIOUS
  <2>4. IsBufferManager(reset)
    BY <1>2, <2>1, <2>2, <2>3, Zenon DEF IsBufferManager
  <2>5. CoreInv(reset, rx, tr, rt, ord, Reconfig, syn) /\ RootInv(reset)
    <3>1. /\ reset.execution = m.execution /\ reset.persisting = m.persisting
          /\ reset.end_epoch_timestamp = m.end_epoch_timestamp
          /\ reset.pending = <<Request(m, n)>> /\ Request(m, n).last >= Reconfig
      BY <1>2, <1>6, <1>8, <2>1, Zenon DEF q
    <3>2. Ends(m, reset, n)
      BY <2>1, <2>4, <3>1, Zenon DEF Ends
    <3> QED BY <3>1, <3>2, EndKeeps, Zenon
  <2> QED BY <2>1, <2>2, <2>5, Zenon DEF Emptied
<1>9. ASSUME ~ (q.last >= Reconfig)
      PROVE  /\ CoreInv(kept, rx, tr, rt, ord, Reconfig, syn)
             /\ kept.execution_root # None => RootInv(kept)
             /\ kept.mode = "running" /\ kept.pending = <<>>
             /\ Len(kept.buffer) < Len(m.buffer)
  <2>1. /\ DOMAIN kept = DOMAIN r
        /\ kept.buffer = r.buffer /\ kept.block_rx = r.block_rx
        /\ kept.execution_root = r.execution_root /\ kept.signing_root = r.signing_root
        /\ kept.end_epoch_timestamp = r.end_epoch_timestamp
        /\ kept.execution = r.execution /\ kept.signing = r.signing
        /\ kept.persisting = Append(r.persisting, q) /\ kept.pending = r.pending
        /\ kept.mode = r.mode
    BY <1>7
  <2> HIDE DEF kept
  <2>2. Append(r.persisting, q) \in Seq(PersistingRequest)
    BY <1>1, <1>4, <1>6
  <2>3. IsBufferManager(kept)
    BY <1>2, <2>1, <2>2, Zenon DEF IsBufferManager
  <2>4. q.last < Reconfig
    BY <1>4, <1>9
  <2>5. CoreInv(kept, rx, tr, rt, ord, Reconfig, syn)
    <3>1. Request(m, n).last < Reconfig /\ kept.persisting = Append(m.persisting, Request(m, n))
      BY <1>6, <2>1, <2>4, Zenon DEF q
    <3>2. kept.execution = m.execution /\ kept.pending = m.pending
          /\ kept.end_epoch_timestamp = m.end_epoch_timestamp
      BY <1>2, <1>6, <2>1, Zenon
    <3> QED BY <1>2, <2>1, <2>3, <3>1, <3>2, CommitKeeps, Zenon
  <2>6. Len(kept.buffer) < Len(m.buffer)
    BY <1>2, <1>5, <2>1
  <2>7. ASSUME kept.execution_root # None PROVE RootInv(kept)
    <3>1. m.execution_root \notin popped /\ kept.execution_root = m.execution_root
          /\ m.execution_root # None
      BY <1>2, <2>1, <2>7, Zenon
    <3>2. n \in 1 .. n /\ \A i \in DOMAIN m.buffer : i <= n => i \in 1 .. n
      BY <1>5
    <3>3. m.execution_root # m.buffer[n].batch.last
      BY <3>1, <3>2, Zenon
    <3>4. PICK i \in DOMAIN m.buffer :
              /\ m.buffer[i].batch.last = m.execution_root /\ ~Done(m, i)
              /\ \A j \in DOMAIN m.buffer : j < i => Done(m, j)
      BY <3>1, <3>3, Zenon DEF RootInv
    <3>5. ~ (i <= n)
      BY <3>1, <3>2, <3>4, Zenon
    <3> DEFINE p == i - n
    <3>6. p \in 1 .. Len(m.buffer) - n /\ n + p = i
      BY <1>5, <3>5
    <3> HIDE DEF p
    <3>7. DOMAIN kept.buffer = 1 .. Len(m.buffer) - n
      <4>1. kept.buffer \in Seq(BufferItem)
        BY <2>3, Zenon DEF IsBufferManager
      <4> QED BY <1>2, <2>1, <4>1
    <3>8. /\ DOMAIN kept.buffer \subseteq Queue(r)
          /\ \A j \in Queue(r) : Done(kept, j) <=> Done(m, n + j)
      <4>1. DOMAIN r.buffer \subseteq Queue(r)
        BY <1>2, QueueFields, Zenon
      <4>2. \A j : Done(kept, j) <=> Done(r, j)
        BY <2>1, Zenon DEF Done
      <4> QED BY <1>2, <2>1, <4>1, <4>2, Zenon DEF Shifted
    <3>9. p \in DOMAIN kept.buffer /\ ~Done(kept, p)
          /\ kept.buffer[p].batch.last = kept.execution_root
      <4>1. p \in DOMAIN kept.buffer
        BY <3>6, <3>7, Zenon
      <4>2. kept.buffer[p] = m.buffer[i]
        BY <1>2, <2>1, <3>6, <4>1, Zenon
      <4>3. Done(kept, p) <=> Done(m, i)
        BY <3>6, <3>8, <4>1, Zenon
      <4> QED BY <3>1, <3>4, <4>1, <4>2, <4>3, Zenon
    <3>10. ASSUME NEW j \in DOMAIN kept.buffer, j < p PROVE Done(kept, j)
      <4>1. n + j \in DOMAIN m.buffer
        BY <1>2, <2>1, Zenon
      <4>2. n + j < i
        BY <1>5, <3>6, <3>7, <3>10
      <4> QED BY <3>4, <3>8, <4>1, <4>2, Zenon
    <3> QED BY <2>7, <3>9, <3>10, Zenon DEF RootInv
  <2> QED BY <1>6, <2>1, <2>5, <2>6, <2>7, Zenon
<1> HIDE DEF reset, kept
<1>10. CASE q.last >= Reconfig
  <2>1. AdvanceHead(m, n) = reset
    BY <1>3, <1>10, Zenon
  <2> QED BY <1>8, <1>10, <2>1, Zenon
<1>11. CASE ~ (q.last >= Reconfig)
  <2>1. AdvanceHead(m, n) = kept
    BY <1>3, <1>11, Zenon
  <2> QED BY <1>9, <1>11, <2>1, Zenon
<1> QED BY <1>10, <1>11, Zenon

-----------------------------------------------------------------------------
(* The manager's loop. *)

\* The manager waits in select!, or inside advance_head for the end of the epoch.
Settled(m) ==
    /\ RootInv(m)
    /\ \/ m.mode = "running" /\ m.pending = <<>>
       \/ m.mode = "ending" /\ Emptied(m) /\ Len(m.pending) = 1

\* Nothing can be found in an empty buffer.
LEMMA DrainedFinds ==
    ASSUME NEW m, Drained(m), NEW cursor, NEW key
    PROVE  FindElemByKey(m, cursor, key) = {} /\ Positions(m, key) = {}
<1>1. DOMAIN m.buffer = {}
  <2>1. m.buffer = <<>>
    BY Zenon DEF Drained, Emptied
  <2> QED BY <2>1
<1> QED BY <1>1, Zenon DEF FindElemByKey, Positions

\* An answer that is dropped changes nothing.
LEMMA CoreDropsAnswers ==
    ASSUME NEW m, NEW rx, NEW rx2, NEW tr, NEW rt \in Nat, NEW ord \in Nat, NEW rc, NEW syn,
           CoreInv(m, rx, tr, rt, ord, rc, syn), rx2 \subseteq rx
    PROVE  CoreInv(m, rx2, tr, rt, ord, rc, syn)
<1>1. IsBufferManager(m) /\ SameQueue(m, m) /\ SameRequests(m, m)
  BY Zenon DEF CoreInv, SameQueue, SameRequests
<1> QED BY <1>1, CoreTransfer, Zenon

\* process_execution_response: no assertion fails, and the invariant is kept.
LEMMA ExecutionResponseKeeps ==
    ASSUME NEW m, NEW rx, NEW rx2, NEW tr, NEW rt \in Nat, NEW ord \in Nat, NEW syn,
           Reconfig \in Nat, CoreInv(m, rx, tr, rt, ord, Reconfig, syn), RootInv(m),
           m.mode = "running", m.pending = <<>>, syn = "syncing" => Drained(m),
           NEW r \in rx, r.batch \in Batches, rx2 \subseteq rx
    PROVE  LET p == ProcessExecutionResponse(m, r) IN
           /\ CoreInv(p, rx2, tr, rt, ord, Reconfig, syn)
           /\ p.mode = "running" => LooseRoot(p) /\ p.pending = <<>>
           /\ p.mode # "running" => Settled(p)
<1> DEFINE p == ProcessExecutionResponse(m, r)
           found == FindElemByKey(m, m.execution_root, r.batch.last)
           n == Min(found)
           t == EndEpochTimestamp(m, r.batch)
           e == AdvanceToExecuted(m, n, t)
<1>1. CASE found = {} \/ ~r.ok
  <2>1. p = m
    BY <1>1, Zenon DEF ProcessExecutionResponse
  <2>2. LooseRoot(m)
    BY RootIsLoose, Zenon
  <2>3. CoreInv(m, rx2, tr, rt, ord, Reconfig, syn)
    BY CoreDropsAnswers, Zenon
  <2> QED BY <2>1, <2>2, <2>3, Zenon
<1>2. CASE found # {} /\ r.ok
  <2>1. /\ n \in DOMAIN m.buffer /\ IsNext(m, n) /\ ~Done(m, n)
        /\ Item(m, n) = r.batch /\ m.buffer[n].batch = r.batch
        /\ m.execution_root = r.batch.last
        /\ CanAdvanceToExecuted(m.buffer[n], r.batch, t)
        /\ t \in Blocks \cup {None} /\ (t # None => Reconfig <= r.batch.last)
    BY <1>2, ExecutionFinds, Zenon
  <2>2. p = IF m.buffer[n].commit_proof \/ m.buffer[n].sigs \in Quorums
            THEN AdvanceHead(e, n) ELSE e
    BY <1>2, <2>1, Zenon DEF ProcessExecutionResponse
  <2>3. ~Drained(m)
    BY <1>2, DrainedFinds, Zenon
  <2> HIDE DEF n, t, found
  <2>4. /\ CoreInv(e, rx2, tr, rt, ord, Reconfig, syn) /\ LooseRoot(e) /\ Done(e, n)
        /\ Len(e.buffer) = Len(m.buffer) /\ n \in DOMAIN e.buffer
        /\ e.buffer[n].batch = r.batch /\ e.execution_root = r.batch.last
        /\ e.mode = m.mode /\ e.pending = m.pending
    <3>1. Executes(m, rx, r, n, t, Reconfig)
      BY <1>2, <2>1, Zenon DEF Executes
    <3>2. CoreInv(e, rx2, tr, rt, ord, Reconfig, syn) /\ AfterExecution(m, e, r, n)
      BY <3>1, ExecutedKeeps, Zenon
    <3> HIDE DEF e
    <3> QED BY <3>2, Zenon DEF AfterExecution
  <2> HIDE DEF e, p
  <2>5. CASE p = e
    BY <2>3, <2>4, <2>5, Zenon DEF p
  <2>6. CASE p = AdvanceHead(e, n)
    <3>1. n \in DOMAIN e.buffer /\ e.mode = "running" /\ e.pending = <<>> /\ syn # "syncing"
          /\ e.execution_root = e.buffer[n].batch.last
      BY <2>1, <2>3, <2>4, Zenon
    <3> DEFINE h == AdvanceHead(e, n)
    <3>h. /\ CoreInv(h, rx2, tr, rt, ord, Reconfig, syn)
          /\ h.execution_root # None => RootInv(h)
          /\ \/ h.mode = "running" /\ h.pending = <<>> /\ Len(h.buffer) < Len(e.buffer)
             \/ h.mode = "ending" /\ Emptied(h) /\ Len(h.pending) = 1 /\ RootInv(h)
      BY <2>4, <3>1, AdvanceHeadKeeps, Zenon
    <3> HIDE DEF h
    <3>2. /\ CoreInv(p, rx2, tr, rt, ord, Reconfig, syn)
          /\ p.execution_root # None => RootInv(p)
          /\ \/ p.mode = "running" /\ p.pending = <<>> /\ Len(p.buffer) < Len(e.buffer)
             \/ p.mode = "ending" /\ Emptied(p) /\ Len(p.pending) = 1 /\ RootInv(p)
      BY <2>6, <3>h, Zenon DEF h
    <3>3. LooseRoot(p)
      <4>1. CASE p.execution_root = None
        BY <4>1, Zenon DEF LooseRoot
      <4>2. CASE p.execution_root # None
        BY <3>2, <4>2, RootIsLoose, Zenon
      <4> QED BY <4>1, <4>2, Zenon
    <3>4. "ending" # "running"
      OBVIOUS
    <3> QED BY <2>3, <3>2, <3>3, <3>4, Zenon DEF Settled, p
  <2> QED BY <2>2, <2>5, <2>6, Zenon DEF p
<1> QED BY <1>1, <1>2, Zenon

\* What the arm of an execution response does to the manager.
ExecutionArm(m, r) ==
    LET p == ProcessExecutionResponse(m, r) IN
    IF p.mode = "running" THEN AdvanceSigningRootIfNone(AdvanceExecutionRoot(p)) ELSE p

\* The whole arm of an execution response keeps the invariant.
LEMMA ExecutionArmKeeps ==
    ASSUME NEW m, NEW rx, NEW rx2, NEW tr, NEW rt \in Nat, NEW ord \in Nat, NEW syn,
           Reconfig \in Nat, CoreInv(m, rx, tr, rt, ord, Reconfig, syn), RootInv(m),
           m.mode = "running", m.pending = <<>>, syn = "syncing" => Drained(m),
           NEW r \in rx, r.batch \in Batches, rx2 \subseteq rx
    PROVE  /\ CoreInv(ExecutionArm(m, r), rx2, tr, rt, ord, Reconfig, syn)
           /\ Settled(ExecutionArm(m, r))
<1> DEFINE a == ExecutionArm(m, r)
<1> DEFINE p == ProcessExecutionResponse(m, r)
           b == AdvanceExecutionRoot(p)
           c == AdvanceSigningRootIfNone(b)
<1>1. /\ CoreInv(p, rx2, tr, rt, ord, Reconfig, syn)
      /\ p.mode = "running" => LooseRoot(p) /\ p.pending = <<>>
      /\ p.mode # "running" => Settled(p)
  BY ExecutionResponseKeeps, Zenon
<1>2. a = IF p.mode = "running" THEN c ELSE p
  BY Zenon DEF ExecutionArm
<1> HIDE DEF p, a
<1> SUFFICES CoreInv(a, rx2, tr, rt, ord, Reconfig, syn) /\ Settled(a)
  BY Zenon DEF a
<1>3. CASE p.mode = "running"
  <2>1. /\ CoreInv(b, rx2, tr, rt, ord, Reconfig, syn) /\ RootInv(b)
        /\ b.mode = p.mode /\ b.pending = p.pending
    BY <1>1, <1>3, ExecutionRootKeeps, Zenon
  <2> HIDE DEF b
  <2>3. /\ CoreInv(c, rx2, tr, rt, ord, Reconfig, syn) /\ RootInv(c)
        /\ c.mode = b.mode /\ c.pending = b.pending
    BY <2>1, RootsIfNoneKeep, Zenon
  <2> HIDE DEF c
  <2> QED BY <1>1, <1>2, <1>3, <2>1, <2>3, Zenon DEF Settled
<1>4. CASE p.mode # "running"
  <2>1. a = p
    BY <1>2, <1>4, Zenon
  <2> QED BY <1>1, <1>4, <2>1, Zenon
<1> QED BY <1>3, <1>4, Zenon

\* The manager may take a step of its loop.
Ready(m, rx, tr, rt, ord, syn) ==
    /\ CoreInv(m, rx, tr, rt, ord, Reconfig, syn) /\ RootInv(m)
    /\ m.mode = "running" /\ m.pending = <<>>
    /\ syn = "syncing" => Drained(m)

\* a is the manager after an arm of the loop.
Arm(a, rx, tr, rt, ord, syn) ==
    CoreInv(a, rx, tr, rt, ord, Reconfig, syn) /\ Settled(a)

\* Updating one field of an item.
LEMMA ItemFieldUpdate ==
    ASSUME NEW m, NEW n, NEW v
    PROVE  /\ [m EXCEPT !.buffer[n].stage = v]
                = [m EXCEPT !.buffer[n] = [m.buffer[n] EXCEPT !.stage = v]]
           /\ [m EXCEPT !.buffer[n].sigs = v]
                = [m EXCEPT !.buffer[n] = [m.buffer[n] EXCEPT !.sigs = v]]
           /\ [m EXCEPT !.buffer[n].commit_proof = v]
                = [m EXCEPT !.buffer[n] = [m.buffer[n] EXCEPT !.commit_proof = v]]
OBVIOUS

\* process_signing_response and what follows it.
LEMMA SigningArmKeeps ==
    ASSUME NEW m, NEW rx, NEW tr, NEW rt \in Nat, NEW ord \in Nat, NEW syn,
           Ready(m, rx, tr, rt, ord, syn), NEW r
    PROVE  Arm(AdvanceSigningRoot(ProcessSigningResponse(m, r)), rx, tr, rt, ord, syn)
<1> DEFINE p == ProcessSigningResponse(m, r)
           a == AdvanceSigningRoot(p)
           found == {i \in FindElemByKey(m, m.signing_root, r.block) :
                        m.buffer[i].stage = "Executed"}
           n == Min(found)
           item == [m.buffer[n] EXCEPT !.stage = "Signed"]
<1>1. /\ CoreInv(m, rx, tr, rt, ord, Reconfig, syn) /\ RootInv(m) /\ IsBufferManager(m)
      /\ m.mode = "running" /\ m.pending = <<>>
  BY Zenon DEF Ready, CoreInv
<1>2. /\ CoreInv(p, rx, tr, rt, ord, Reconfig, syn) /\ RootInv(p)
      /\ p.mode = m.mode /\ p.pending = m.pending
  <2>1. CASE found = {} \/ ~r.ok
    <3>1. p = m
      BY <2>1, Zenon DEF ProcessSigningResponse
    <3> QED BY <1>1, <3>1, Zenon
  <2>2. CASE found # {} /\ r.ok
    <3>1. p = [m EXCEPT !.buffer[n].stage = "Signed"]
      BY <2>2, Zenon DEF ProcessSigningResponse
    <3>3. found \subseteq DOMAIN m.buffer
      BY Zenon DEF FindElemByKey, Positions
    <3>4. DOMAIN m.buffer \subseteq Nat
      BY <1>1, ItemFields, Zenon
    <3>5. found \in SUBSET Nat
      BY <3>3, <3>4, Zenon
    <3>6. n \in found
      <4> HIDE DEF found
      <4> QED BY <2>2, <3>5, LeastOf, Zenon
    <3>7. n \in DOMAIN m.buffer /\ m.buffer[n].stage = "Executed"
      BY <3>3, <3>6, Zenon
    <3> HIDE DEF found, n
    <3>8. m.buffer[n] \in BufferItem
      BY <1>1, <3>7, ItemFields, Zenon
    <3>9. item \in BufferItem /\ item.batch = m.buffer[n].batch
          /\ (item.stage # "Ordered" <=> m.buffer[n].stage # "Ordered")
      BY <3>7, <3>8 DEF BufferItem
    <3>10. p = [m EXCEPT !.buffer[n] = item]
      BY <3>1, ItemFieldUpdate, Zenon
    <3> HIDE DEF item, p
    <3>11. UpdatesItem(m, p, n, item)
      BY <3>7, <3>9, <3>10, Zenon DEF UpdatesItem
    <3>12. CoreInv(p, rx, tr, rt, ord, Reconfig, syn) /\ UpdatedItem(m, p, n, item)
      BY <1>1, <3>11, ItemUpdateKeeps, Zenon
    <3> QED BY <3>12, Zenon DEF UpdatedItem
  <2> QED BY <2>1, <2>2, Zenon
<1> HIDE DEF p
<1>3. /\ CoreInv(a, rx, tr, rt, ord, Reconfig, syn) /\ RootInv(a)
      /\ a.mode = p.mode /\ a.pending = p.pending
  BY <1>2, SigningRootKeeps, Zenon
<1> HIDE DEF a
<1>5. Arm(a, rx, tr, rt, ord, syn)
  BY <1>1, <1>2, <1>3, Zenon DEF Arm, Settled
<1> QED BY <1>5, Zenon DEF a, p

\* p is m after process_commit_message.
CommitProcessed(m, p, rx, tr, rt, ord, syn) ==
    /\ CoreInv(p, rx, tr, rt, ord, Reconfig, syn)
    /\ \/ p.mode = "running" /\ p.pending = <<>> /\ RootInv(p) /\ Len(p.buffer) = Len(m.buffer)
       \/ /\ p.mode = "running" /\ p.pending = <<>> /\ Len(p.buffer) < Len(m.buffer)
          /\ p.execution_root # None => RootInv(p)
       \/ p.mode = "ending" /\ Emptied(p) /\ Len(p.pending) = 1 /\ RootInv(p)

\* A commit message that finds an item comes to a manager that is not drained.
LEMMA ItemIsFound ==
    ASSUME NEW m, NEW rx, NEW tr, NEW rt, NEW ord, NEW syn, Ready(m, rx, tr, rt, ord, syn),
           NEW block, NEW n \in Positions(m, block)
    PROVE  n \in DOMAIN m.buffer /\ syn # "syncing"
<1>1. ~Drained(m)
  BY DrainedFinds, Zenon
<1>2. n \in DOMAIN m.buffer
  BY Zenon DEF Positions
<1> QED BY <1>1, <1>2, Zenon DEF Ready

\* An item that is executed and certified leaves the buffer.
LEMMA CertifiedLeaves ==
    ASSUME NEW m, NEW d, NEW n \in DOMAIN d.buffer,
           NEW rx, NEW tr, NEW rt \in Nat, NEW ord \in Nat, NEW syn, Reconfig \in Nat,
           CoreInv(d, rx, tr, rt, ord, Reconfig, syn), RootInv(d), syn # "syncing",
           d.mode = "running", d.pending = <<>>, Len(d.buffer) = Len(m.buffer), Done(d, n)
    PROVE  CommitProcessed(m, AdvanceHead(d, n), rx, tr, rt, ord, syn)
<1> DEFINE h == AdvanceHead(d, n)
<1>1. /\ CoreInv(h, rx, tr, rt, ord, Reconfig, syn)
      /\ h.execution_root # None => RootInv(h)
      /\ \/ h.mode = "running" /\ h.pending = <<>> /\ Len(h.buffer) < Len(d.buffer)
         \/ h.mode = "ending" /\ Emptied(h) /\ Len(h.pending) = 1 /\ RootInv(h)
  BY AdvanceHeadKeeps, Zenon
<1> HIDE DEF h
<1>2. CommitProcessed(m, h, rx, tr, rt, ord, syn)
  BY <1>1, Zenon DEF CommitProcessed
<1> QED BY <1>2, Zenon DEF h

\* A commit vote: the signature is added, and an executed item that it
\* certifies leaves the buffer.
LEMMA CommitVoteKeeps ==
    ASSUME NEW m, NEW rx, NEW tr, NEW rt \in Nat, NEW ord \in Nat, NEW syn, Reconfig \in Nat,
           Ready(m, rx, tr, rt, ord, syn), NEW block, NEW n \in Positions(m, block),
           NEW author \in Validators, NEW matches \in BOOLEAN
    PROVE  CommitProcessed(m, ProcessCommitVote(m, n, author, matches), rx, tr, rt, ord, syn)
<1> DEFINE p == ProcessCommitVote(m, n, author, matches)
           d == AddSignature(m, n, author, matches)
           sigs == IF matches THEN m.buffer[n].sigs \cup {author}
                   ELSE m.buffer[n].sigs \ {author}
           item == [m.buffer[n] EXCEPT !.sigs = sigs]
<1>1. /\ CoreInv(m, rx, tr, rt, ord, Reconfig, syn) /\ RootInv(m) /\ IsBufferManager(m)
      /\ m.mode = "running" /\ m.pending = <<>>
  BY Zenon DEF Ready, CoreInv
<1>2. n \in DOMAIN m.buffer /\ syn # "syncing"
  BY ItemIsFound, Zenon
<1>3. m.buffer[n] \in BufferItem /\ m.buffer[n].sigs \in SUBSET Validators
  BY <1>1, <1>2, ItemFields, Zenon
<1>4. sigs \in SUBSET Validators
  BY <1>3, Zenon
<1>5. d = [m EXCEPT !.buffer[n].sigs = sigs]
  BY DEF AddSignature
<1> HIDE DEF sigs
<1>6. item \in BufferItem /\ item.batch = m.buffer[n].batch /\ item.stage = m.buffer[n].stage
  BY <1>3, <1>4 DEF BufferItem
<1>7. d = [m EXCEPT !.buffer[n] = item]
  BY <1>5, ItemFieldUpdate, Zenon
<1>8. p = IF m.buffer[n].stage = "Ordered" THEN d
          ELSE IF ~matches THEN m
          ELSE IF d.buffer[n].sigs \in Quorums THEN AdvanceHead(d, n) ELSE d
  BY Zenon DEF ProcessCommitVote
<1> HIDE DEF item, d, p
<1>9. UpdatesItem(m, d, n, item)
  BY <1>2, <1>6, <1>7, Zenon DEF UpdatesItem
<1>10. CoreInv(d, rx, tr, rt, ord, Reconfig, syn) /\ UpdatedItem(m, d, n, item)
  BY <1>1, <1>9, ItemUpdateKeeps, Zenon
<1>11. /\ RootInv(d) /\ d.mode = "running" /\ d.pending = <<>>
       /\ Len(d.buffer) = Len(m.buffer) /\ n \in DOMAIN d.buffer
       /\ d.buffer[n].stage = m.buffer[n].stage
  BY <1>1, <1>2, <1>6, <1>10, Zenon DEF UpdatedItem
<1>12. CommitProcessed(m, d, rx, tr, rt, ord, syn) /\ CommitProcessed(m, m, rx, tr, rt, ord, syn)
  BY <1>1, <1>10, <1>11, Zenon DEF CommitProcessed
<1>13. ASSUME m.buffer[n].stage # "Ordered"
       PROVE  CommitProcessed(m, AdvanceHead(d, n), rx, tr, rt, ord, syn)
  <2>1. IsBufferManager(d)
    BY <1>10, Zenon DEF CoreInv
  <2>2. Done(d, n)
    BY <1>11, <1>13, <2>1, QueueFields, Zenon
  <2> QED BY <1>2, <1>10, <1>11, <2>2, CertifiedLeaves, Zenon
<1> QED BY <1>8, <1>12, <1>13, Zenon DEF p

\* A commit decision: an executed item leaves the buffer, another one keeps
\* the proof.
LEMMA CommitDecisionKeeps ==
    ASSUME NEW m, NEW rx, NEW tr, NEW rt \in Nat, NEW ord \in Nat, NEW syn, Reconfig \in Nat,
           Ready(m, rx, tr, rt, ord, syn), NEW block, NEW n \in Positions(m, block)
    PROVE  CommitProcessed(m, ProcessCommitDecision(m, n), rx, tr, rt, ord, syn)
<1> DEFINE p == ProcessCommitDecision(m, n)
           item == [m.buffer[n] EXCEPT !.commit_proof = TRUE]
           d == [m EXCEPT !.buffer[n] = item]
<1>1. /\ CoreInv(m, rx, tr, rt, ord, Reconfig, syn) /\ RootInv(m) /\ IsBufferManager(m)
      /\ m.mode = "running" /\ m.pending = <<>>
  BY Zenon DEF Ready, CoreInv
<1>2. n \in DOMAIN m.buffer /\ syn # "syncing"
  BY ItemIsFound, Zenon
<1>3. m.buffer[n] \in BufferItem
  BY <1>1, <1>2, ItemFields, Zenon
<1>4. item \in BufferItem /\ item.batch = m.buffer[n].batch /\ item.stage = m.buffer[n].stage
  BY <1>3, Zenon DEF BufferItem
<1>5. p = IF m.buffer[n].stage = "Ordered" THEN d ELSE AdvanceHead(m, n)
  BY ItemFieldUpdate, Zenon DEF ProcessCommitDecision
<1>6. UpdatesItem(m, d, n, item)
  <2> HIDE DEF item
  <2> QED BY <1>2, <1>4, Zenon DEF UpdatesItem
<1> HIDE DEF item, d, p
<1>7. CoreInv(d, rx, tr, rt, ord, Reconfig, syn) /\ UpdatedItem(m, d, n, item)
  BY <1>1, <1>6, ItemUpdateKeeps, Zenon
<1>8. CommitProcessed(m, d, rx, tr, rt, ord, syn)
  BY <1>1, <1>7, Zenon DEF CommitProcessed, UpdatedItem
<1>9. ASSUME m.buffer[n].stage # "Ordered"
       PROVE  CommitProcessed(m, AdvanceHead(m, n), rx, tr, rt, ord, syn)
  <2>1. Done(m, n)
    BY <1>1, <1>2, <1>9, QueueFields, Zenon
  <2> QED BY <1>1, <1>2, <2>1, CertifiedLeaves, Zenon
<1> QED BY <1>5, <1>8, <1>9, Zenon DEF p

\* The rest of the arm.
LEMMA CommitArmKeeps ==
    ASSUME NEW m, NEW p, NEW a, NEW rx, NEW tr, NEW rt \in Nat, NEW ord \in Nat, NEW syn,
           CommitProcessed(m, p, rx, tr, rt, ord, syn), Len(m.buffer) \in Nat,
           IF p.mode = "running" /\ Len(p.buffer) < Len(m.buffer)
           THEN a = AdvanceSigningRootIfNone(AdvanceExecutionRootIfNone(p))
           ELSE a = p
    PROVE  Arm(a, rx, tr, rt, ord, syn)
<1> DEFINE b == AdvanceExecutionRootIfNone(p)
           c == AdvanceSigningRootIfNone(b)
<1>1. CASE p.mode = "running" /\ Len(p.buffer) < Len(m.buffer)
  <2>1. "ending" # "running" /\ Len(p.buffer) # Len(m.buffer)
    BY <1>1
  <2>2. CoreInv(p, rx, tr, rt, ord, Reconfig, syn) /\ (p.execution_root # None => RootInv(p))
        /\ p.pending = <<>>
    BY <1>1, <2>1, Zenon DEF CommitProcessed
  <2>3. /\ CoreInv(b, rx, tr, rt, ord, Reconfig, syn) /\ RootInv(b)
        /\ b.mode = p.mode /\ b.pending = p.pending
    BY <2>2, RootsIfNoneKeep, Zenon
  <2>4. a = c
    BY <1>1, Zenon
  <2> HIDE DEF b
  <2>5. /\ CoreInv(c, rx, tr, rt, ord, Reconfig, syn) /\ RootInv(c)
        /\ c.mode = b.mode /\ c.pending = b.pending
    BY <2>3, RootsIfNoneKeep, Zenon
  <2> HIDE DEF c
  <2> QED BY <1>1, <2>2, <2>3, <2>4, <2>5, Zenon DEF Arm, Settled
<1>2. CASE ~ (p.mode = "running" /\ Len(p.buffer) < Len(m.buffer))
  <2>1. a = p
    BY <1>2, Zenon
  <2> QED BY <1>2, <2>1, Zenon DEF CommitProcessed, Arm, Settled
<1> QED BY <1>1, <1>2, Zenon

\* process_ordered_blocks.
LEMMA OrderedArmKeeps ==
    ASSUME NEW m, NEW rx, NEW tr, NEW rt \in Nat, NEW ord \in Nat, NEW syn,
           Ready(m, rx, tr, rt, ord, syn), m.block_rx # <<>>
    PROVE  Arm(AdvanceExecutionRootIfNone(
                      [m EXCEPT !.block_rx = Tail(@),
                                !.buffer = Append(@, NewOrdered(Head(m.block_rx)))]),
               rx, tr, rt, ord, syn)
<1> DEFINE d == [m EXCEPT !.block_rx = Tail(@),
                          !.buffer = Append(@, NewOrdered(Head(m.block_rx)))]
           a == AdvanceExecutionRootIfNone(d)
<1>1. /\ CoreInv(m, rx, tr, rt, ord, Reconfig, syn) /\ RootInv(m) /\ IsBufferManager(m)
      /\ m.mode = "running" /\ m.pending = <<>>
  BY Zenon DEF Ready, CoreInv
<1>2. /\ IsBufferManager(d) /\ SameQueue(m, d) /\ SameRequests(m, d)
      /\ d.execution_root = m.execution_root /\ d.execution = m.execution
      /\ d.execution_root # None /\ RootInv(m) => RootInv(d)
  BY <1>1, PushKeepsQueue, Zenon
<1> HIDE DEF d
<1>3. CoreInv(d, rx, tr, rt, ord, Reconfig, syn)
  BY <1>1, <1>2, CoreTransfer, Zenon
<1>4. /\ CoreInv(a, rx, tr, rt, ord, Reconfig, syn) /\ RootInv(a)
      /\ a.mode = d.mode /\ a.pending = d.pending
  BY <1>1, <1>2, <1>3, RootsIfNoneKeep, Zenon
<1> HIDE DEF a
<1>6. Arm(a, rx, tr, rt, ord, syn)
  BY <1>1, <1>2, <1>4, Zenon DEF Arm, Settled, SameRequests
<1> QED BY <1>6, Zenon DEF a, d

-----------------------------------------------------------------------------
(* Resets and state sync. *)

\* a is m after reset() has emptied the buffer and the channel.
Resets(m, a) ==
    /\ IsBufferManager(a) /\ a.buffer = <<>> /\ a.block_rx = <<>>
    /\ a.execution_root = None /\ a.signing_root = None
    /\ a.end_epoch_timestamp = m.end_epoch_timestamp /\ a.execution = m.execution
    /\ a.persisting = m.persisting /\ a.pending = m.pending /\ a.mode = "resetting"

\* What reset() leaves.
LEMMA ResetFields ==
    ASSUME NEW m, IsBufferManager(m)
    PROVE  Resets(m, [ResetBuffer(m) EXCEPT !.mode = "resetting"])
<1> DEFINE a == [ResetBuffer(m) EXCEPT !.mode = "resetting"]
<1>1. DOMAIN m = {"buffer", "block_rx", "execution_root", "signing_root",
                  "end_epoch_timestamp", "execution", "signing", "persisting",
                  "pending", "mode"}
  BY Zenon DEF IsBufferManager
<1>2. /\ DOMAIN a = DOMAIN m /\ a.buffer = <<>> /\ a.block_rx = <<>>
      /\ a.execution_root = None /\ a.signing_root = None
      /\ a.end_epoch_timestamp = m.end_epoch_timestamp
      /\ a.execution = m.execution /\ a.signing = m.signing
      /\ a.persisting = m.persisting /\ a.pending = m.pending /\ a.mode = "resetting"
  BY <1>1 DEF ResetBuffer
<1> HIDE DEF a
<1>3. <<>> \in Seq(BufferItem) /\ <<>> \in Seq(Batches) /\ None \in Blocks \cup {None}
  OBVIOUS
<1>4. IsBufferManager(a)
  BY <1>2, <1>3, Zenon DEF IsBufferManager
<1>5. Resets(m, a)
  BY <1>2, <1>4, Zenon DEF Resets
<1> QED BY <1>5, Zenon DEF a

\* An empty queue.
LEMMA EmptyQueue ==
    ASSUME NEW m, m.buffer = <<>>, m.block_rx = <<>>
    PROVE  QueueLen(m) = 0 /\ Queue(m) = {} /\ DOMAIN m.buffer = {}
           /\ \A ord : NextBlock(m, ord) = ord + 1
<1>1. Len(m.buffer) = 0 /\ Len(m.block_rx) = 0 /\ DOMAIN m.buffer = {}
  OBVIOUS
<1>2. QueueLen(m) = 0
  BY <1>1 DEF QueueLen
<1>3. Queue(m) = {}
  BY <1>2 DEF Queue
<1> QED BY <1>1, <1>2, <1>3, Zenon DEF NextBlock

\* process_reset_request: with the queue gone, nothing is left to continue.
LEMMA ResetKeeps ==
    ASSUME NEW m, NEW a, NEW rx, NEW tr, NEW rt \in Nat, NEW ord \in Nat, NEW rc, NEW syn,
           CoreInv(m, rx, tr, rt, ord, rc, syn), m.pending = <<>>, Resets(m, a)
    PROVE  CoreInv(a, rx, tr, rt, ord, rc, syn) /\ RootInv(a)
<1> USE DEF Resets
<1>1. /\ IsBufferManager(m) /\ AskedInv(m, rx, ord) /\ TreeInv(m, rx, tr, rt, rc)
      /\ PersistingInv(m, rt, ord, rc) /\ TimestampInv(m, ord, rc)
  BY Zenon DEF CoreInv
<1>2. Queue(a) = {} /\ DOMAIN a.buffer = {}
  BY EmptyQueue, Zenon
<1>3. DOMAIN a.pending = {}
  OBVIOUS
<1>4. Asked(a, rx) = Asked(m, rx)
  BY Zenon DEF Asked
<1>5. QueueInv(a, ord) /\ StageInv(a) /\ AskedInv(a, rx, ord)
  BY <1>1, <1>2, <1>4, Zenon DEF QueueInv, StageInv, AskedInv
<1>6. TreeInv(a, rx, tr, rt, rc)
  BY <1>1, <1>2, <1>3, Zenon DEF TreeInv
<1>7. PersistingInv(a, rt, ord, rc)
  BY <1>1, <1>2, Zenon DEF PersistingInv
<1>8. PendingInv(a, rt, ord, rc)
  BY <1>3, Zenon DEF PendingInv
<1>9. AnchorInv(a, rx, tr, rt, ord, rc, syn)
  <2>1. "resetting" # "running"
    OBVIOUS
  <2> QED BY <2>1, Zenon DEF AnchorInv
<1>10. TimestampInv(a, ord, rc)
  BY <1>1, <1>2, Zenon DEF TimestampInv
<1>11. RootInv(a)
  BY <1>2, Zenon DEF RootInv
<1> QED BY <1>5, <1>6, <1>7, <1>8, <1>9, <1>10, <1>11, Zenon DEF CoreInv

\* The queue's shape is a matter of the queue alone.
LEMMA SameQueueInv ==
    ASSUME NEW m, NEW a, NEW ord, IsBufferManager(m), SameQueue(m, a),
           QueueInv(m, ord), StageInv(m)
    PROVE  QueueInv(a, ord) /\ StageInv(a)
<1>1. Queue(a) = Queue(m) /\ QueueLen(a) = QueueLen(m) /\ QueueLen(m) \in Nat
      /\ \A i \in Queue(m) : Item(a, i) = Item(m, i) /\ (Done(a, i) <=> Done(m, i))
  BY QueueFields, Zenon DEF SameQueue, Queue
<1>2. \A i \in Queue(m) : i < QueueLen(m) => i + 1 \in Queue(m)
  BY <1>1 DEF Queue
<1>3. QueueInv(a, ord)
  <2>1. ASSUME NEW i \in Queue(m), NEW j \in Queue(m), i < j
        PROVE  Item(a, i).last < Item(a, j).first
    BY <1>1, <2>1, Zenon DEF QueueInv
  <2>2. ASSUME NEW i \in Queue(m)
        PROVE  /\ Item(a, i).last <= ord
               /\ i = QueueLen(m) => Item(a, i).last = ord
               /\ i < QueueLen(m) => Item(a, i + 1).first = Item(a, i).last + 1
    <3>1. /\ Item(m, i).last <= ord
          /\ i = QueueLen(m) => Item(m, i).last = ord
          /\ i < QueueLen(m) => Item(m, i + 1).first = Item(m, i).last + 1
      BY Zenon DEF QueueInv
    <3>2. Item(a, i) = Item(m, i) /\ (i < QueueLen(m) => Item(a, i + 1) = Item(m, i + 1))
      BY <1>1, <1>2, Zenon
    <3> QED BY <3>1, <3>2, Zenon
  <2>3. Queue(a) = Queue(m) /\ QueueLen(a) = QueueLen(m)
    BY <1>1, Zenon
  <2> QED BY <2>1, <2>2, <2>3, Zenon DEF QueueInv
<1> QED BY <1>1, <1>3, Zenon DEF StageInv

\* Nothing but the mode changes, and the queue is not in use.
LEMMA ModeKeeps ==
    ASSUME NEW m, NEW mode \in {"running", "stopped"},
           NEW rx, NEW tr, NEW rt \in Nat, NEW ord \in Nat, NEW rc, NEW syn, NEW syn2,
           CoreInv(m, rx, tr, rt, ord, rc, syn), RootInv(m),
           mode = "running" => syn2 = "syncing"
    PROVE  LET a == [m EXCEPT !.mode = mode] IN
           CoreInv(a, rx, tr, rt, ord, rc, syn2) /\ RootInv(a)
<1> DEFINE a == [m EXCEPT !.mode = mode]
<1>1. /\ IsBufferManager(m) /\ QueueInv(m, ord) /\ StageInv(m) /\ AskedInv(m, rx, ord)
      /\ TreeInv(m, rx, tr, rt, rc) /\ PersistingInv(m, rt, ord, rc)
      /\ PendingInv(m, rt, ord, rc) /\ TimestampInv(m, ord, rc)
  BY Zenon DEF CoreInv
<1>2. DOMAIN m = {"buffer", "block_rx", "execution_root", "signing_root",
                  "end_epoch_timestamp", "execution", "signing", "persisting",
                  "pending", "mode"}
  BY <1>1, Zenon DEF IsBufferManager
<1>3. /\ DOMAIN a = DOMAIN m /\ a.buffer = m.buffer /\ a.block_rx = m.block_rx
      /\ a.execution_root = m.execution_root /\ a.signing_root = m.signing_root
      /\ a.end_epoch_timestamp = m.end_epoch_timestamp
      /\ a.execution = m.execution /\ a.signing = m.signing
      /\ a.persisting = m.persisting /\ a.pending = m.pending /\ a.mode = mode
  BY <1>2
<1> HIDE DEF a
<1>4. IsBufferManager(a)
  BY <1>1, <1>3, Zenon DEF IsBufferManager
<1>5. QueueLen(a) = QueueLen(m) /\ Queue(a) = Queue(m) /\ Certified(a, rt) = Certified(m, rt)
      /\ Asked(a, rx) = Asked(m, rx)
      /\ \A i : Item(a, i) = Item(m, i) /\ (Done(a, i) <=> Done(m, i))
  BY <1>3, Zenon DEF QueueLen, Queue, Item, Done, Certified, Asked
<1>6. QueueInv(a, ord) /\ StageInv(a)
  <2>1. SameQueue(m, a)
    BY <1>3, SameBufferSameQueue, Zenon
  <2> QED BY <1>1, <2>1, SameQueueInv, Zenon
<1>7. AskedInv(a, rx, ord)
  BY <1>1, <1>5, Zenon DEF AskedInv
<1>8. TreeInv(a, rx, tr, rt, rc)
  BY <1>1, <1>3, <1>5, Zenon DEF TreeInv
<1>9. PersistingInv(a, rt, ord, rc)
  BY <1>1, <1>3, <1>5, Zenon DEF PersistingInv
<1>10. PendingInv(a, rt, ord, rc) /\ TimestampInv(a, ord, rc)
  BY <1>1, <1>3, <1>5, Zenon DEF PendingInv, TimestampInv
<1>11. AnchorInv(a, rx, tr, rt, ord, rc, syn2)
  BY <1>3, Zenon DEF AnchorInv
<1>12. RootInv(a)
  BY <1>1, <1>3, <1>5, Zenon DEF RootInv
<1> QED BY <1>4, <1>6, <1>7, <1>8, <1>9, <1>10, <1>11, <1>12, Zenon DEF CoreInv, a

-----------------------------------------------------------------------------
(* The phases. *)

\* The executor has executed batch b up to block last; a is m afterwards.
ExecutesUpTo(m, a, b, last, rx, rx2, tr, tr2, rt) ==
    /\ IsBufferManager(a) /\ SameQueue(m, a) /\ SameRequests(m, a)
    /\ \A c \in InFlight(a.execution) : c \in InFlight(m.execution)
    /\ b \in Batches /\ b \in InFlight(m.execution) /\ last \in b.first - 1 .. b.last
    /\ \A r \in rx2 : r \in rx \/ (r.batch = b /\ (r.ok => last = b.last))
    /\ tr2 = tr \cup b.first .. last
    /\ b.first - 1 \in tr \/ b.first - 1 = rt \/ last = b.first - 1

\* A response is for the batch it was asked for, and when it reports success the
\* executor has the blocks.
LEMMA ExecuteKeeps ==
    ASSUME NEW m, NEW a, NEW b, NEW last, NEW rx, NEW rx2, NEW tr, NEW tr2,
           NEW rt \in Nat, NEW ord \in Nat, NEW rc, NEW syn,
           CoreInv(m, rx, tr, rt, ord, rc, syn),
           ExecutesUpTo(m, a, b, last, rx, rx2, tr, tr2, rt)
    PROVE  CoreInv(a, rx2, tr2, rt, ord, rc, syn)
<1> USE DEF ExecutesUpTo
<1>1. /\ IsBufferManager(m) /\ QueueInv(m, ord) /\ StageInv(m) /\ AskedInv(m, rx, ord)
      /\ TreeInv(m, rx, tr, rt, rc) /\ PersistingInv(m, rt, ord, rc)
      /\ PendingInv(m, rt, ord, rc) /\ AnchorInv(m, rx, tr, rt, ord, rc, syn)
      /\ TimestampInv(m, ord, rc)
  BY Zenon DEF CoreInv
<1>2. Queue(a) = Queue(m) /\ QueueLen(a) = QueueLen(m) /\ QueueLen(m) \in Nat
      /\ \A i \in Queue(m) : Item(a, i) = Item(m, i) /\ (Done(a, i) <=> Done(m, i))
  BY <1>1, QueueFields, Zenon DEF SameQueue, Queue
<1>3. QueueLen(m) # 0 => 1 \in Queue(m)
  BY <1>2 DEF Queue
<1>4. NextBlock(a, ord) = NextBlock(m, ord)
  BY <1>2, <1>3, Zenon DEF NextBlock
<1>5. Certified(a, rt) = Certified(m, rt)
  BY Zenon DEF Certified, SameRequests
<1>6. QueueInv(a, ord) /\ StageInv(a)
  BY <1>1, SameQueueInv, Zenon
<1>7. \A r \in rx2 : r \in rx \/ (r.batch = b /\ (r.ok => last = b.last))
  BY Zenon
<1>8. b \in Asked(m, rx)
  BY Zenon DEF Asked
<1>9. \A c \in Asked(a, rx2) : c \in Asked(m, rx)
  BY <1>7, <1>8, Zenon DEF Asked
<1>10. AskedInv(a, rx2, ord)
  BY <1>1, <1>2, <1>9, Zenon DEF AskedInv
<1>11. tr \subseteq tr2 /\ (last = b.last => BlocksOf(b) \subseteq tr2)
  BY Zenon DEF BlocksOf
<1>12. TreeInv(a, rx2, tr2, rt, rc)
  <2> SUFFICES ASSUME rt < rc
               PROVE  /\ \A i \in Queue(a) : Done(a, i) => BlocksOf(Item(a, i)) \subseteq tr2
                      /\ \A i \in Queue(a), r \in rx2 :
                            r.ok /\ r.batch.last = Item(a, i).last =>
                                BlocksOf(Item(a, i)) \subseteq tr2
                      /\ \A k \in DOMAIN a.persisting : a.persisting[k].blocks \subseteq tr2
                      /\ Certified(a, rt) < rc =>
                            \A k \in DOMAIN a.pending : a.pending[k].blocks \subseteq tr2
    BY Zenon DEF TreeInv
  <2>1. /\ \A i \in Queue(m) : Done(m, i) => BlocksOf(Item(m, i)) \subseteq tr
        /\ \A i \in Queue(m), r \in rx :
              r.ok /\ r.batch.last = Item(m, i).last => BlocksOf(Item(m, i)) \subseteq tr
        /\ \A k \in DOMAIN m.persisting : m.persisting[k].blocks \subseteq tr
        /\ Certified(m, rt) < rc =>
              \A k \in DOMAIN m.pending : m.pending[k].blocks \subseteq tr
    BY <1>1, Zenon DEF TreeInv
  <2>2. ASSUME NEW i \in Queue(m), NEW r \in rx2, r.ok, r.batch.last = Item(m, i).last
        PROVE  BlocksOf(Item(m, i)) \subseteq tr2
    <3>1. CASE r \in rx
      <4>1. BlocksOf(Item(m, i)) \subseteq tr
        BY <2>1, <2>2, <3>1, Zenon
      <4> QED BY <1>11, <4>1, Zenon
    <3>2. CASE r.batch = b /\ last = b.last
      <4>1. Item(m, i) = b
        BY <1>1, <1>8, <2>2, <3>2, Zenon DEF AskedInv
      <4> QED BY <1>11, <3>2, <4>1, Zenon
    <3> QED BY <1>7, <2>2, <3>1, <3>2, Zenon
  <2>3. \A i \in Queue(m) : Done(m, i) => BlocksOf(Item(m, i)) \subseteq tr2
    BY <1>11, <2>1, Zenon
  <2>4. \A k \in DOMAIN a.persisting : a.persisting[k].blocks \subseteq tr2
    BY <1>11, <2>1, Zenon DEF SameRequests
  <2>5. Certified(a, rt) < rc => \A k \in DOMAIN a.pending : a.pending[k].blocks \subseteq tr2
    BY <1>5, <1>11, <2>1, Zenon DEF SameRequests
  <2> QED BY <1>2, <2>2, <2>3, <2>4, <2>5, Zenon
<1>13. PersistingInv(a, rt, ord, rc)
  BY <1>1, <1>2, Zenon DEF PersistingInv, SameRequests
<1>14. PendingInv(a, rt, ord, rc)
  BY <1>1, <1>2, <1>5, Zenon DEF PendingInv, SameRequests
<1>15. TimestampInv(a, ord, rc)
  BY <1>1, <1>2, Zenon DEF TimestampInv, SameRequests
<1>16. AnchorInv(a, rx2, tr2, rt, ord, rc, syn)
  <2>1. ASSUME Stuck(m, rx, tr, rt, ord) PROVE Stuck(a, rx2, tr2, rt, ord)
    <3>1. b.first > rt + 1 /\ tr = {}
      BY <2>1, Zenon DEF Stuck
    <3>2. b.first \in Nat /\ b.last \in Nat /\ b.first <= b.last
      BY BatchFields, Zenon
    <3>3. last = b.first - 1
      BY <3>1, <3>2
    <3>4. tr2 = {} /\ last # b.last
      BY <3>1, <3>2, <3>3
    <3>5. \A r \in rx2 : r.ok => r.batch.last < NextBlock(m, ord)
      BY <1>7, <2>1, <3>4, Zenon DEF Stuck
    <3> QED BY <1>2, <1>4, <2>1, <3>4, <3>5, Zenon DEF Stuck, SameRequests
  <2> QED BY <1>1, <1>4, <1>5, <2>1, Zenon DEF AnchorInv, SameRequests
<1> QED BY <1>6, <1>10, <1>12, <1>13, <1>14, <1>15, <1>16, Zenon DEF CoreInv

\* The manager after one of its requests has been answered.
LEMMA AnsweredFields ==
    ASSUME NEW m, IsBufferManager(m)
    PROVE  /\ \A b \in Batches : m.execution[b] > 0 =>
                 LET a == [m EXCEPT !.execution = Receive(@, b)] IN
                 /\ IsBufferManager(a) /\ SameQueue(m, a) /\ SameRequests(m, a)
                 /\ b \in InFlight(m.execution) /\ a.execution_root = m.execution_root
                 /\ a.buffer = m.buffer /\ a.block_rx = m.block_rx
                 /\ a.signing_root = m.signing_root
                 /\ \A c \in InFlight(a.execution) : c \in InFlight(m.execution)
           /\ \A b \in Blocks : m.signing[b] > 0 =>
                 LET a == [m EXCEPT !.signing = Receive(@, b)] IN
                 /\ IsBufferManager(a) /\ SameQueue(m, a) /\ SameRequests(m, a)
                 /\ b \in InFlight(m.signing) /\ a.execution_root = m.execution_root
                 /\ a.buffer = m.buffer /\ a.block_rx = m.block_rx
                 /\ a.signing_root = m.signing_root /\ a.execution = m.execution
<1>1. DOMAIN m = {"buffer", "block_rx", "execution_root", "signing_root",
                  "end_epoch_timestamp", "execution", "signing", "persisting",
                  "pending", "mode"}
      /\ m.execution \in [Batches -> Nat] /\ m.signing \in [Blocks -> Nat]
  BY Zenon DEF IsBufferManager
<1>2. ASSUME NEW b \in Batches, m.execution[b] > 0
      PROVE  LET a == [m EXCEPT !.execution = Receive(@, b)] IN
             /\ IsBufferManager(a) /\ SameQueue(m, a) /\ SameRequests(m, a)
             /\ b \in InFlight(m.execution) /\ a.execution_root = m.execution_root
             /\ a.buffer = m.buffer /\ a.block_rx = m.block_rx
             /\ a.signing_root = m.signing_root
             /\ \A c \in InFlight(a.execution) : c \in InFlight(m.execution)
  <2> DEFINE x == Receive(m.execution, b)
             a == [m EXCEPT !.execution = x]
  <2>1. x \in [Batches -> Nat] /\ \A c \in InFlight(x) : c \in InFlight(m.execution)
    BY <1>1, <1>2, ReceiveFields, Zenon
  <2>2. b \in InFlight(m.execution)
    BY <1>1, <1>2, Zenon DEF InFlight
  <2> HIDE DEF x
  <2>3. /\ DOMAIN a = DOMAIN m /\ a.buffer = m.buffer /\ a.block_rx = m.block_rx
        /\ a.execution_root = m.execution_root /\ a.signing_root = m.signing_root
        /\ a.end_epoch_timestamp = m.end_epoch_timestamp
        /\ a.execution = x /\ a.signing = m.signing
        /\ a.persisting = m.persisting /\ a.pending = m.pending /\ a.mode = m.mode
    BY <1>1
  <2> HIDE DEF a
  <2>4. IsBufferManager(a)
    BY <2>1, <2>3, Zenon DEF IsBufferManager
  <2>5. SameQueue(m, a)
    BY <2>3, SameBufferSameQueue, Zenon
  <2>6. SameRequests(m, a)
    BY <2>3, Zenon DEF SameRequests
  <2>7. \A c \in InFlight(a.execution) : c \in InFlight(m.execution)
    BY <2>1, <2>3, Zenon
  <2> QED BY <2>2, <2>3, <2>4, <2>5, <2>6, <2>7, Zenon DEF a, x
<1>3. ASSUME NEW b \in Blocks, m.signing[b] > 0
      PROVE  LET a == [m EXCEPT !.signing = Receive(@, b)] IN
             /\ IsBufferManager(a) /\ SameQueue(m, a) /\ SameRequests(m, a)
             /\ b \in InFlight(m.signing) /\ a.execution_root = m.execution_root
             /\ a.buffer = m.buffer /\ a.block_rx = m.block_rx
             /\ a.signing_root = m.signing_root /\ a.execution = m.execution
  <2> DEFINE x == Receive(m.signing, b)
             a == [m EXCEPT !.signing = x]
  <2>1. x \in [Blocks -> Nat]
    BY <1>1, <1>3, ReceiveFields, Zenon
  <2>2. b \in InFlight(m.signing)
    BY <1>1, <1>3, Zenon DEF InFlight
  <2> HIDE DEF x
  <2>3. /\ DOMAIN a = DOMAIN m /\ a.buffer = m.buffer /\ a.block_rx = m.block_rx
        /\ a.execution_root = m.execution_root /\ a.signing_root = m.signing_root
        /\ a.end_epoch_timestamp = m.end_epoch_timestamp
        /\ a.execution = m.execution /\ a.signing = x
        /\ a.persisting = m.persisting /\ a.pending = m.pending /\ a.mode = m.mode
    BY <1>1
  <2> HIDE DEF a
  <2>4. IsBufferManager(a)
    BY <2>1, <2>3, Zenon DEF IsBufferManager
  <2>5. SameQueue(m, a)
    BY <2>3, SameBufferSameQueue, Zenon
  <2>6. SameRequests(m, a)
    BY <2>3, Zenon DEF SameRequests
  <2> QED BY <2>2, <2>3, <2>4, <2>5, <2>6, Zenon DEF a, x
<1> QED BY <1>2, <1>3, Zenon

\* a is m after the persisting phase has taken its first request.
Persisted(m, a) ==
    /\ IsBufferManager(a) /\ SameQueue(m, a) /\ a.execution = m.execution
    /\ m.persisting # <<>> /\ a.persisting = Tail(m.persisting) /\ a.pending = m.pending
    /\ a.end_epoch_timestamp = m.end_epoch_timestamp /\ a.mode = m.mode

\* The first request continues the ledger with blocks that are executed.
LEMMA RequestAccepted ==
    ASSUME NEW m, NEW rx, NEW tr, NEW rt, NEW ord, NEW rc, NEW syn,
           CoreInv(m, rx, tr, rt, ord, rc, syn), m.persisting # <<>>
    PROVE  LET q == Head(m.persisting) IN
           /\ q = m.persisting[1] /\ q \in PersistingRequest /\ q.last \in Blocks /\ q.last \in Nat
           /\ 1 \in DOMAIN m.persisting
           /\ rt < rc => /\ rt < q.last /\ q.blocks \subseteq tr
                         /\ q.blocks = rt + 1 .. q.last
           /\ rt >= rc => q.last >= rc
           /\ q.last >= rc => Len(m.persisting) = 1
<1> DEFINE q == Head(m.persisting)
<1>1. m.persisting \in Seq(PersistingRequest)
  BY Zenon DEF CoreInv, IsBufferManager
<1>2. q = m.persisting[1] /\ q \in PersistingRequest /\ 1 \in DOMAIN m.persisting
  BY <1>1
<1>3. q.last \in Blocks /\ q.last \in Nat
  BY <1>2 DEF PersistingRequest, Blocks
<1>4. rt < rc => \A k \in DOMAIN m.persisting : m.persisting[k].blocks \subseteq tr
  BY Zenon DEF CoreInv, TreeInv
<1>5. \A k \in DOMAIN m.persisting :
          /\ rt < rc => rt < m.persisting[k].last
          /\ rt < rc /\ k = 1 => m.persisting[k].blocks = rt + 1 .. m.persisting[k].last
          /\ rt >= rc => m.persisting[k].last >= rc
          /\ m.persisting[k].last >= rc => Len(m.persisting) = 1
  BY Zenon DEF CoreInv, PersistingInv
<1> HIDE DEF q
<1>6. /\ rt < rc => rt < q.last /\ q.blocks \subseteq tr
      /\ rt < rc => q.blocks = rt + 1 .. q.last
      /\ rt >= rc => q.last >= rc
      /\ q.last >= rc => Len(m.persisting) = 1
  BY <1>2, <1>4, <1>5, Zenon
<1> QED BY <1>2, <1>3, <1>6, Zenon DEF q

\* The rest of the requests.
LEMMA TailFields ==
    ASSUME NEW S, NEW s \in Seq(S), s # <<>>
    PROVE  /\ Tail(s) \in Seq(S) /\ Len(Tail(s)) = Len(s) - 1 /\ Len(s) \in Nat /\ 1 <= Len(s)
           /\ DOMAIN s = 1 .. Len(s) /\ DOMAIN Tail(s) = 1 .. Len(s) - 1
           /\ \A k \in DOMAIN Tail(s) : k + 1 \in DOMAIN s /\ Tail(s)[k] = s[k + 1]
           /\ Len(s) = 1 => Tail(s) = <<>>
           /\ Len(s) # 1 => Tail(s) # <<>> /\ Tail(s)[Len(Tail(s))] = s[Len(s)]
<1> DEFINE t == Tail(s)
           n == Len(s)
<1>1. n \in Nat /\ 1 <= n /\ DOMAIN s = 1 .. n
  OBVIOUS
<1>2. t \in Seq(S) /\ Len(t) = n - 1 /\ DOMAIN t = 1 .. n - 1
  OBVIOUS
<1>3. \A k \in 1 .. n - 1 : t[k] = s[k + 1]
  OBVIOUS
<1>4. n = 1 => t = <<>>
  BY <1>1, <1>2
<1>5. n # 1 => t # <<>>
  BY <1>1, <1>2
<1> HIDE DEF t, n
<1>6. \A k \in DOMAIN t : k + 1 \in DOMAIN s /\ t[k] = s[k + 1]
  BY <1>1, <1>2, <1>3
<1>7. n # 1 => n - 1 \in 1 .. n - 1 /\ n - 1 + 1 = n
  BY <1>1
<1>8. n # 1 => t[Len(t)] = s[n]
  BY <1>2, <1>3, <1>7, Zenon
<1> QED BY <1>1, <1>2, <1>4, <1>5, <1>6, <1>8, Zenon DEF t, n

\* The end of the epoch is committed: nothing is left to continue.
PersistsEnd(m, a, rt, rt2, rc) ==
    /\ Persisted(m, a) /\ rt2 \in Nat /\ rt2 >= rc /\ Head(m.persisting).last >= rc
    /\ rt2 = rt \/ rt2 = Head(m.persisting).last

\* A commit of the epoch's last block, or its repetition, keeps the invariant.
LEMMA PersistEndKeeps ==
    ASSUME NEW m, NEW a, NEW rx, NEW tr, NEW tr2, NEW rt, NEW rt2,
           NEW ord \in Nat, NEW rc \in Nat, NEW syn,
           CoreInv(m, rx, tr, rt, ord, rc, syn), PersistsEnd(m, a, rt, rt2, rc)
    PROVE  CoreInv(a, rx, tr2, rt2, ord, rc, syn)
<1> USE DEF PersistsEnd
<1> USE DEF Persisted
<1> DEFINE q == Head(m.persisting)
<1>1. /\ IsBufferManager(m) /\ QueueInv(m, ord) /\ StageInv(m) /\ AskedInv(m, rx, ord)
      /\ PersistingInv(m, rt, ord, rc)
      /\ PendingInv(m, rt, ord, rc) /\ TimestampInv(m, ord, rc)
  BY Zenon DEF CoreInv
<1>2. m.persisting \in Seq(PersistingRequest)
  BY <1>1, Zenon DEF IsBufferManager
<1>3. q = m.persisting[1] /\ 1 \in DOMAIN m.persisting /\ Len(m.persisting) = 1
  BY RequestAccepted, Zenon
<1>4. a.persisting = <<>> /\ DOMAIN a.persisting = {}
  <2>1. a.persisting = <<>>
    BY <1>2, <1>3, TailFields, Zenon
  <2>2. DOMAIN <<>> = {}
    OBVIOUS
  <2> QED BY <2>1, <2>2, Zenon
<1> HIDE DEF q
<1>5. ~ (rt2 < rc)
  OBVIOUS
<1>6. Queue(a) = Queue(m) /\ QueueLen(a) = QueueLen(m)
      /\ \A i \in Queue(m) : Item(a, i) = Item(m, i) /\ (Done(a, i) <=> Done(m, i))
  BY <1>1, QueueFields, Zenon DEF SameQueue, Queue
<1>7. Certified(a, rt2) = rt2
  BY <1>4, Zenon DEF Certified
<1>8. QueueInv(a, ord) /\ StageInv(a)
  BY <1>1, SameQueueInv, Zenon
<1>9. AskedInv(a, rx, ord)
  <2>1. Asked(a, rx) = Asked(m, rx)
    BY Zenon DEF Asked
  <2> QED BY <1>1, <1>6, <2>1, Zenon DEF AskedInv
<1>10. TreeInv(a, rx, tr2, rt2, rc)
  BY <1>5, Zenon DEF TreeInv
<1>11. PersistingInv(a, rt2, ord, rc)
  <2>1. /\ rt <= ord /\ \A i \in Queue(m) : rt < Item(m, i).first
        /\ q.last <= ord /\ \A i \in Queue(m) : q.last < Item(m, i).first
    BY <1>1, <1>3, Zenon DEF PersistingInv
  <2>2. rt2 <= ord /\ \A i \in Queue(m) : rt2 < Item(m, i).first
    BY <2>1, Zenon DEF q
  <2> QED BY <1>4, <1>6, <2>2, Zenon DEF PersistingInv
<1>12. PendingInv(a, rt2, ord, rc)
  BY <1>1, <1>5, <1>6, <1>7, Zenon DEF PendingInv
<1>13. AnchorInv(a, rx, tr2, rt2, ord, rc, syn)
  BY <1>5, <1>7, Zenon DEF AnchorInv
<1>14. TimestampInv(a, ord, rc)
  BY <1>1, <1>6, Zenon DEF TimestampInv
<1> QED BY <1>8, <1>9, <1>10, <1>11, <1>12, <1>13, <1>14, Zenon DEF CoreInv

\* A commit below the end of the epoch: the ledger moves to the request's last
\* block, the executor drops what is committed, and the rest stays in place.
PersistsOn(m, a, tr, tr2, rt, rt2, rc) ==
    /\ Persisted(m, a) /\ rt < rc
    /\ rt2 = Head(m.persisting).last /\ rt2 < rc /\ tr2 = tr \ (1 .. rt2)

\* A commit within the epoch moves the root and the executor's tree together.
LEMMA PersistKeeps ==
    ASSUME NEW m, NEW a, NEW rx, NEW tr, NEW tr2, NEW rt \in Nat, NEW rt2,
           NEW ord \in Nat, NEW rc \in Nat, NEW syn,
           CoreInv(m, rx, tr, rt, ord, rc, syn), PersistsOn(m, a, tr, tr2, rt, rt2, rc)
    PROVE  CoreInv(a, rx, tr2, rt2, ord, rc, syn)
<1> USE DEF PersistsOn
<1> USE DEF Persisted
<1> DEFINE s == m.persisting
           u == a.persisting
           n == Len(s)
<1>1. /\ IsBufferManager(m) /\ QueueInv(m, ord) /\ StageInv(m) /\ AskedInv(m, rx, ord)
      /\ TreeInv(m, rx, tr, rt, rc) /\ PersistingInv(m, rt, ord, rc)
      /\ PendingInv(m, rt, ord, rc) /\ AnchorInv(m, rx, tr, rt, ord, rc, syn)
      /\ TimestampInv(m, ord, rc)
  BY Zenon DEF CoreInv
<1>2. s \in Seq(PersistingRequest)
  BY <1>1, Zenon DEF IsBufferManager
<1>3. rt2 = s[1].last /\ 1 \in DOMAIN s /\ rt2 \in Nat /\ rt < rt2
  BY RequestAccepted, Zenon
<1>4. /\ n \in Nat /\ 1 <= n /\ DOMAIN s = 1 .. n /\ DOMAIN u = 1 .. n - 1
      /\ Len(u) = n - 1
      /\ \A k \in DOMAIN u : k + 1 \in DOMAIN s /\ u[k] = s[k + 1]
      /\ n = 1 => u = <<>>
      /\ n # 1 => u # <<>> /\ u[Len(u)] = s[n]
  <2>1. u = Tail(s) /\ s # <<>>
    BY Zenon
  <2> HIDE DEF s, u
  <2>2. /\ Len(Tail(s)) = Len(s) - 1 /\ Len(s) \in Nat /\ 1 <= Len(s)
        /\ DOMAIN s = 1 .. Len(s) /\ DOMAIN Tail(s) = 1 .. Len(s) - 1
        /\ \A k \in DOMAIN Tail(s) : k + 1 \in DOMAIN s /\ Tail(s)[k] = s[k + 1]
        /\ Len(s) = 1 => Tail(s) = <<>>
        /\ Len(s) # 1 => Tail(s) # <<>> /\ Tail(s)[Len(Tail(s))] = s[Len(s)]
    BY <1>2, <2>1, TailFields, Zenon
  <2> QED BY <2>1, <2>2, Zenon
<1>5. \A k \in DOMAIN s : s[k] \in PersistingRequest /\ s[k].last \in Nat
  <2>1. \A k \in DOMAIN s : s[k] \in PersistingRequest
    BY <1>2, <1>4
  <2> QED BY <2>1 DEF PersistingRequest, Blocks
<1>6. Certified(m, rt) = s[n].last /\ Certified(a, rt2) = s[n].last
  BY <1>3, <1>4, Zenon DEF Certified
<1>7. \A k \in DOMAIN s :
          /\ s[k].last <= ord
          /\ \A i \in Queue(m) : s[k].last < Item(m, i).first
          /\ k > 1 => s[k].blocks = s[k - 1].last + 1 .. s[k].last
          /\ s[k].last >= rc => n = 1
          /\ \A l \in DOMAIN s : k < l => s[k].last < s[l].last
  BY <1>1, Zenon DEF PersistingInv
<1>8. /\ \A i \in Queue(m) : Done(m, i) => BlocksOf(Item(m, i)) \subseteq tr
      /\ \A i \in Queue(m), r \in rx :
            r.ok /\ r.batch.last = Item(m, i).last => BlocksOf(Item(m, i)) \subseteq tr
      /\ \A k \in DOMAIN s : s[k].blocks \subseteq tr
      /\ Certified(m, rt) < rc => \A k \in DOMAIN m.pending : m.pending[k].blocks \subseteq tr
  BY <1>1, Zenon DEF TreeInv
<1> HIDE DEF s, u, n
<1>9. Queue(a) = Queue(m) /\ QueueLen(a) = QueueLen(m) /\ QueueLen(m) \in Nat
      /\ \A i \in Queue(m) : Item(a, i) = Item(m, i) /\ (Done(a, i) <=> Done(m, i))
  BY <1>1, QueueFields, Zenon DEF SameQueue, Queue
<1>10. QueueInv(a, ord) /\ StageInv(a)
  BY <1>1, SameQueueInv, Zenon
<1>11. AskedInv(a, rx, ord)
  <2>1. Asked(a, rx) = Asked(m, rx)
    BY Zenon DEF Asked
  <2> QED BY <1>1, <1>9, <2>1, Zenon DEF AskedInv
<1>12. \A i \in Queue(m) : rt2 < Item(m, i).first /\ Item(m, i).first \in Nat
                           /\ Item(m, i).last \in Nat
  BY <1>1, <1>3, <1>7, QueueItem, Zenon
<1>13. ASSUME NEW S, S \subseteq tr, NEW f \in Nat, NEW l \in Nat, S = f .. l, rt2 < f
       PROVE  S \subseteq tr2
  BY <1>3, <1>13
<1>14. \A k \in DOMAIN s : rt2 <= s[k].last /\ (1 < k => rt2 < s[k].last)
  <2> TAKE k \in DOMAIN s
  <2>1. 1 < k => s[1].last < s[k].last
    BY <1>3, <1>7, Zenon
  <2>2. k = 1 \/ 1 < k
    BY <1>4
  <2>3. s[k].last \in Nat
    BY <1>5, Zenon
  <2>4. k = 1 => s[k].last = rt2
    BY <1>3, Zenon
  <2>5. 1 < k => rt2 < s[k].last
    BY <1>3, <2>1, Zenon
  <2> QED BY <1>3, <2>2, <2>3, <2>4, <2>5
<1>15. ASSUME NEW k \in DOMAIN u
       PROVE  /\ k + 1 \in DOMAIN s /\ u[k] = s[k + 1] /\ k + 1 > 1 /\ k \in Nat
              /\ k \in DOMAIN s /\ s[k + 1].blocks = s[k].last + 1 .. s[k + 1].last
  <2>1. k + 1 \in DOMAIN s /\ u[k] = s[k + 1] /\ k + 1 > 1 /\ k \in DOMAIN s
        /\ k + 1 - 1 = k /\ k \in Nat
    BY <1>4
  <2> DEFINE p == k + 1
  <2>2. s[p].blocks = s[p - 1].last + 1 .. s[p].last
    <3>1. p \in DOMAIN s /\ p > 1
      BY <2>1, Zenon
    <3> HIDE DEF p
    <3> QED BY <1>7, <3>1, Zenon
  <2>3. p - 1 = k
    BY <2>1
  <2>4. s[p].blocks = s[k].last + 1 .. s[p].last
    <3> HIDE DEF p
    <3> QED BY <2>2, <2>3, Zenon
  <2> QED BY <2>1, <2>4, Zenon
<1>16. TreeInv(a, rx, tr2, rt2, rc)
  <2>1. ASSUME NEW i \in Queue(m), BlocksOf(Item(m, i)) \subseteq tr
        PROVE  BlocksOf(Item(m, i)) \subseteq tr2
    BY <1>12, <1>13, <2>1, Zenon DEF BlocksOf
  <2>2. ASSUME NEW k \in DOMAIN u PROVE u[k].blocks \subseteq tr2
    <3> DEFINE f == s[k].last + 1
               l == s[k + 1].last
    <3>1. f \in Nat /\ l \in Nat /\ rt2 < f
      BY <1>3, <1>5, <1>14, <1>15
    <3>2. u[k].blocks = f .. l /\ u[k].blocks \subseteq tr
      BY <1>8, <1>15, Zenon
    <3> HIDE DEF f, l
    <3> QED BY <1>13, <3>1, <3>2, Zenon
  <2>3. ASSUME Certified(m, rt) < rc, NEW k \in DOMAIN m.pending
        PROVE  m.pending[k].blocks \subseteq tr2
    <3> DEFINE f == Certified(m, rt) + 1
               l == m.pending[k].last
    <3>1. n \in DOMAIN s
      BY <1>4
    <3>2. f \in Nat /\ rt2 < f
      BY <1>3, <1>5, <1>6, <1>14, <3>1
    <3>3. m.pending[k].blocks = f .. l /\ m.pending[k].blocks \subseteq tr
      BY <1>1, <1>8, <2>3, Zenon DEF PendingInv
    <3>4. l \in Nat
      <4>1. m.pending \in Seq(PersistingRequest)
        BY <1>1, Zenon DEF IsBufferManager
      <4>2. m.pending[k] \in PersistingRequest
        BY <4>1
      <4> QED BY <4>2 DEF PersistingRequest, Blocks
    <3> HIDE DEF f, l
    <3> QED BY <1>13, <3>2, <3>3, <3>4, Zenon
  <2>4. /\ \A i \in Queue(m) : Done(m, i) => BlocksOf(Item(m, i)) \subseteq tr2
        /\ \A i \in Queue(m), r \in rx :
              r.ok /\ r.batch.last = Item(m, i).last => BlocksOf(Item(m, i)) \subseteq tr2
    BY <1>8, <2>1, Zenon
  <2>5. Certified(a, rt2) < rc => \A k \in DOMAIN a.pending : a.pending[k].blocks \subseteq tr2
    BY <1>6, <2>3, Zenon
  <2> QED BY <1>9, <2>2, <2>4, <2>5, Zenon DEF TreeInv, u
<1>17. PersistingInv(a, rt2, ord, rc)
  <2>1. rt2 <= ord /\ \A i \in Queue(a) : rt2 < Item(a, i).first
    BY <1>3, <1>7, <1>9, <1>12, Zenon
  <2>2. ASSUME NEW k \in DOMAIN u
        PROVE  /\ u[k].last <= ord
               /\ \A i \in Queue(a) : u[k].last < Item(a, i).first
               /\ rt2 < rc => rt2 < u[k].last
               /\ rt2 < rc /\ k = 1 => u[k].blocks = rt2 + 1 .. u[k].last
               /\ rt2 < rc /\ k > 1 => u[k].blocks = u[k - 1].last + 1 .. u[k].last
               /\ rt2 >= rc => u[k].last >= rc
               /\ u[k].last >= rc => Len(u) = 1
               /\ \A l \in DOMAIN u : k < l => u[k].last < u[l].last
    <3> DEFINE p == k + 1
    <3>1. p \in DOMAIN s /\ u[k] = s[p] /\ p > 1 /\ k \in Nat
          /\ k \in DOMAIN s /\ s[p].blocks = s[k].last + 1 .. s[p].last
      BY <1>15, Zenon
    <3>2. \A l \in DOMAIN u : u[l] = s[l + 1] /\ l + 1 \in DOMAIN s /\ (k < l => p < l + 1)
      BY <1>4
    <3>3. 1 < p /\ n # 1
      BY <1>4, <3>1
    <3>4. k > 1 => k - 1 \in DOMAIN u /\ k - 1 + 1 = k
      BY <1>4, <3>1
    <3> HIDE DEF p
    <3>5. u[k].last <= ord /\ \A i \in Queue(a) : u[k].last < Item(a, i).first
      BY <1>7, <1>9, <3>1, Zenon
    <3>6. rt2 < u[k].last
      BY <1>14, <3>1, <3>3, Zenon
    <3>7. k = 1 => u[k].blocks = rt2 + 1 .. u[k].last
      BY <1>3, <3>1, Zenon
    <3>8. k > 1 => u[k].blocks = u[k - 1].last + 1 .. u[k].last
      <4>1. k > 1 => u[k - 1] = s[k - 1 + 1]
        BY <1>4, <3>4, Zenon
      <4> QED BY <3>1, <3>4, <4>1, Zenon
    <3>9. ~ (u[k].last >= rc)
      BY <1>7, <3>1, <3>3, Zenon
    <3>10. \A l \in DOMAIN u : k < l => u[k].last < u[l].last
      BY <1>7, <3>1, <3>2, Zenon
    <3>11. ~ (rt2 >= rc)
      BY <1>3
    <3> QED BY <3>5, <3>6, <3>7, <3>8, <3>9, <3>10, <3>11, Zenon
  <2> QED BY <2>1, <2>2, Zenon DEF PersistingInv, u
<1>18. PendingInv(a, rt2, ord, rc)
  BY <1>1, <1>6, <1>9, Zenon DEF PendingInv
<1>19. AnchorInv(a, rx, tr2, rt2, ord, rc, syn)
  <2>1. QueueLen(m) # 0 => 1 \in Queue(m)
    BY <1>9 DEF Queue
  <2>2. NextBlock(a, ord) = NextBlock(m, ord)
    BY <1>9, <2>1, Zenon DEF NextBlock
  <2>3. ~Stuck(m, rx, tr, rt, ord)
    BY Zenon DEF Stuck
  <2>4. Certified(a, rt2) = Certified(m, rt)
    BY <1>6, Zenon
  <2> QED BY <1>1, <2>2, <2>3, <2>4, Zenon DEF AnchorInv
<1>20. TimestampInv(a, ord, rc)
  BY <1>1, <1>9, Zenon DEF TimestampInv
<1> QED BY <1>10, <1>11, <1>16, <1>17, <1>18, <1>19, <1>20, Zenon DEF CoreInv

-----------------------------------------------------------------------------
(* Consensus. *)

\* a is m after consensus has sent it the blocks from ord + 1 to last.
Orders(m, a, ord, last) ==
    /\ IsBufferManager(a) /\ a.buffer = m.buffer /\ SameRequests(m, a)
    /\ a.block_rx = Append(m.block_rx, [first |-> ord + 1, last |-> last])
    /\ a.execution = m.execution /\ a.execution_root = m.execution_root

\* The queue becomes longer by one batch.
LEMMA OrderedQueue ==
    ASSUME NEW m, NEW a, NEW ord \in Nat, NEW last \in Nat, IsBufferManager(m),
           Orders(m, a, ord, last)
    PROVE  /\ QueueLen(m) \in Nat /\ QueueLen(a) = QueueLen(m) + 1
           /\ \A i \in Queue(m) : /\ i \in Queue(a) /\ Item(a, i) = Item(m, i)
                                  /\ (Done(a, i) <=> Done(m, i)) /\ i < QueueLen(a)
           /\ QueueLen(a) \in Queue(a) /\ ~Done(a, QueueLen(a))
           /\ Item(a, QueueLen(a)).first = ord + 1 /\ Item(a, QueueLen(a)).last = last
           /\ \A i \in Queue(a) : i \in Queue(m) \/ i = QueueLen(a)
<1> DEFINE new == [first |-> ord + 1, last |-> last]
           x == Len(m.buffer)
           y == Len(m.block_rx)
           q == QueueLen(m)
<1>1. new.first = ord + 1 /\ new.last = last /\ m.block_rx \in Seq(Batches)
      /\ a.block_rx \in Seq(Batches) /\ a.block_rx = Append(m.block_rx, new)
  BY DEF Orders, IsBufferManager
<1> HIDE DEF new
<1>2. /\ y \in Nat /\ Len(a.block_rx) = y + 1
      /\ \A i \in 1 .. y : a.block_rx[i] = m.block_rx[i]
      /\ a.block_rx[y + 1] = new
  BY <1>1
<1>3. x \in Nat /\ Len(a.buffer) = x /\ a.buffer = m.buffer /\ q = x + y
      /\ \A i \in Queue(m) : i \in Nat /\ 1 <= i /\ i <= q
  BY QueueFields, Zenon DEF Orders, QueueLen
<1>4. QueueLen(a) = x + (y + 1)
  BY <1>2, <1>3, Zenon DEF QueueLen
<1>5. /\ \A i : Item(m, i) = IF i <= x THEN m.buffer[i].batch ELSE m.block_rx[i - x]
      /\ \A i : Item(a, i) = IF i <= x THEN m.buffer[i].batch ELSE a.block_rx[i - x]
      /\ \A i : Done(a, i) <=> Done(m, i)
      /\ \A i : Done(m, i) => i <= x
  BY <1>3, Zenon DEF Item, Done
<1> HIDE DEF x, y, q
<1>6. QueueLen(a) = q + 1 /\ q \in Nat
  BY <1>2, <1>3, <1>4
<1>7. Queue(m) = 1 .. q /\ Queue(a) = 1 .. q + 1
  BY <1>6, Zenon DEF Queue, q
<1>8. ASSUME NEW i \in Queue(m)
      PROVE  i \in Queue(a) /\ i < QueueLen(a) /\ Item(a, i) = Item(m, i)
  <2>1. i \in Queue(a) /\ i < QueueLen(a)
    BY <1>6, <1>7
  <2>2. CASE i <= x
    BY <1>5, <2>1, <2>2, Zenon
  <2>3. CASE ~ (i <= x)
    <3>1. i - x \in 1 .. y
      BY <1>2, <1>3, <2>3
    <3> QED BY <1>2, <1>5, <2>1, <2>3, <3>1, Zenon
  <2> QED BY <2>2, <2>3, Zenon
<1>9. Item(a, q + 1) = new /\ ~Done(a, q + 1)
  <2> DEFINE k == q + 1
  <2>1. ~ (k <= x) /\ k - x = y + 1
    BY <1>2, <1>3
  <2> HIDE DEF k
  <2>2. Item(a, k) = new /\ ~Done(a, k)
    BY <1>2, <1>5, <2>1, Zenon
  <2> QED BY <2>2, Zenon DEF k
<1>10. q + 1 \in Queue(a) /\ \A i \in Queue(a) : i \in Queue(m) \/ i = q + 1
  BY <1>6, <1>7
<1>11. \A i \in Queue(m) : i \in Queue(a) /\ i < QueueLen(a) /\ Item(a, i) = Item(m, i)
                           /\ (Done(a, i) <=> Done(m, i))
  BY <1>5, <1>8, Zenon
<1>12. /\ Item(a, QueueLen(a)).first = ord + 1 /\ Item(a, QueueLen(a)).last = last
       /\ QueueLen(a) \in Queue(a) /\ ~Done(a, QueueLen(a))
       /\ \A i \in Queue(a) : i \in Queue(m) \/ i = QueueLen(a)
  BY <1>1, <1>6, <1>9, <1>10, Zenon
<1> QED BY <1>6, <1>11, <1>12, Zenon DEF q

\* The batches that are asked for.
LEMMA AskedFields ==
    ASSUME NEW m, NEW rx, IsBufferManager(m), \A r \in rx : r.batch \in Batches,
           NEW b \in Asked(m, rx)
    PROVE  b \in Batches /\ b.last \in Nat
<1>1. m.execution \in [Batches -> Nat]
  BY Zenon DEF IsBufferManager
<1>2. DOMAIN m.execution = Batches
  BY <1>1, Zenon
<1>3. b \in Batches
  BY <1>2, Zenon DEF Asked, InFlight
<1> QED BY <1>3, BatchFields, Zenon

\* BlockStore::commit: the new batch continues the queue.
LEMMA OrderKeeps ==
    ASSUME NEW m, NEW a, NEW rx, NEW tr, NEW rt \in Nat, NEW ord \in Nat, NEW last \in Nat,
           NEW rc \in Nat, NEW syn, CoreInv(m, rx, tr, rt, ord, rc, syn),
           \A r \in rx : r.batch \in Batches, Orders(m, a, ord, last), ord < last
    PROVE  CoreInv(a, rx, tr, rt, last, rc, syn)
<1> DEFINE z == QueueLen(a)
<1>1. /\ IsBufferManager(m) /\ QueueInv(m, ord) /\ StageInv(m) /\ AskedInv(m, rx, ord)
      /\ TreeInv(m, rx, tr, rt, rc) /\ PersistingInv(m, rt, ord, rc)
      /\ PendingInv(m, rt, ord, rc) /\ AnchorInv(m, rx, tr, rt, ord, rc, syn)
      /\ TimestampInv(m, ord, rc)
  BY Zenon DEF CoreInv
<1>2. /\ QueueLen(m) \in Nat /\ z = QueueLen(m) + 1
      /\ \A i \in Queue(m) : /\ i \in Queue(a) /\ Item(a, i) = Item(m, i)
                             /\ (Done(a, i) <=> Done(m, i)) /\ i < z
      /\ z \in Queue(a) /\ ~Done(a, z)
      /\ Item(a, z).first = ord + 1 /\ Item(a, z).last = last
      /\ \A i \in Queue(a) : i \in Queue(m) \/ i = z
  BY <1>1, OrderedQueue, Zenon
<1> HIDE DEF z
<1>3. \A i \in Queue(m) : /\ Item(m, i).first \in Nat /\ Item(m, i).last \in Nat /\ i \in Nat
                          /\ Item(m, i).last <= ord /\ Item(m, i).first <= Item(m, i).last
  <2> TAKE i \in Queue(m)
  <2>1. /\ Item(m, i).first \in Nat /\ Item(m, i).last \in Nat /\ i \in Nat
        /\ Item(m, i).first <= Item(m, i).last
    BY <1>1, QueueItem, Zenon
  <2>2. Item(m, i).last <= ord
    BY <1>1, Zenon DEF QueueInv
  <2> QED BY <2>1, <2>2, Zenon
<1>4. IsBufferManager(a) /\ SameRequests(m, a) /\ a.execution = m.execution
      /\ Certified(a, rt) = Certified(m, rt) /\ Asked(a, rx) = Asked(m, rx)
      /\ a.persisting = m.persisting /\ a.pending = m.pending /\ a.mode = m.mode
      /\ a.end_epoch_timestamp = m.end_epoch_timestamp
  BY Zenon DEF Orders, SameRequests, Certified, Asked
<1>5. NextBlock(a, last) = NextBlock(m, ord)
  <2>1. CASE QueueLen(m) = 0
    <3>1. z = 1 /\ QueueLen(a) # 0
      BY <1>2, <2>1 DEF z
    <3> QED BY <1>2, <2>1, <3>1, Zenon DEF NextBlock
  <2>2. CASE QueueLen(m) # 0
    <3>1. 1 \in Queue(m) /\ QueueLen(a) # 0
      BY <1>2, <2>2 DEF z, Queue
    <3> QED BY <1>2, <2>2, <3>1, Zenon DEF NextBlock
  <2> QED BY <2>1, <2>2, Zenon
<1>6. QueueInv(a, last)
  <2>1. ASSUME NEW i \in Queue(a), NEW j \in Queue(a), i < j
        PROVE  Item(a, i).last < Item(a, j).first
    <3>1. CASE i \in Queue(m) /\ j \in Queue(m)
      BY <1>1, <1>2, <2>1, <3>1, Zenon DEF QueueInv
    <3>2. CASE i \in Queue(m) /\ j = z
      <4>1. Item(a, i) = Item(m, i) /\ Item(a, j).first = ord + 1
        BY <1>2, <3>2, Zenon
      <4>2. Item(m, i).last <= ord /\ Item(m, i).last \in Nat
        BY <1>3, <3>2, Zenon
      <4> QED BY <4>1, <4>2
    <3>3. CASE i = z
      <4>1. j \in Nat /\ i \in Nat /\ j <= z
        BY <1>2, <3>3 DEF Queue, z
      <4> QED BY <2>1, <3>3, <4>1
    <3> QED BY <1>2, <3>1, <3>2, <3>3, Zenon
  <2>2. ASSUME NEW i \in Queue(a)
        PROVE  /\ Item(a, i).last <= last
               /\ i = z => Item(a, i).last = last
               /\ i < z => Item(a, i + 1).first = Item(a, i).last + 1
    <3>1. CASE i = z
      <4>1. ~ (z < z) /\ last <= last
        BY <1>2
      <4> QED BY <1>2, <3>1, <4>1, Zenon
    <3>2. CASE i \in Queue(m)
      <4>1. Item(a, i) = Item(m, i) /\ i < z /\ Item(m, i).last <= ord /\ Item(m, i).last \in Nat
            /\ i \in Nat
        BY <1>2, <1>3, <3>2, Zenon
      <4>2. CASE i = QueueLen(m)
        <5>1. Item(m, i).last = ord
          BY <1>1, <3>2, <4>2, Zenon DEF QueueInv
        <5>2. Item(a, i + 1).first = ord + 1
          BY <1>2, <4>2, Zenon
        <5>3. i # z /\ ord <= last
          BY <1>2, <4>1
        <5> QED BY <4>1, <5>1, <5>2, <5>3, Zenon
      <4>3. CASE i # QueueLen(m)
        <5>1. i < QueueLen(m) /\ i + 1 \in Queue(m) /\ i # z
          BY <1>2, <3>2, <4>1, <4>3 DEF Queue
        <5>2. Item(m, i + 1).first = Item(m, i).last + 1
          BY <1>1, <3>2, <5>1, Zenon DEF QueueInv
        <5>3. Item(a, i + 1) = Item(m, i + 1)
          BY <1>2, <5>1, Zenon
        <5>4. Item(m, i).last <= last
          BY <4>1
        <5> QED BY <4>1, <5>1, <5>2, <5>3, <5>4, Zenon
      <4> QED BY <4>2, <4>3, Zenon
    <3> QED BY <1>2, <3>1, <3>2, Zenon
  <2> QED BY <2>1, <2>2, Zenon DEF QueueInv, z
<1>7. StageInv(a)
  <2>1. \A i \in Queue(a), j \in Queue(m) : i < j => i \in Queue(m)
    <3> SUFFICES ASSUME NEW j \in Queue(m), z < j PROVE FALSE
      BY <1>2, Zenon
    <3> QED BY <1>2, <1>3
  <2>2. \A j \in Queue(a) : Done(a, j) => j \in Queue(m) /\ Done(m, j)
    BY <1>2, Zenon
  <2> QED BY <1>1, <1>2, <2>1, <2>2, Zenon DEF StageInv
<1>8. AskedInv(a, rx, last)
  <2>1. ASSUME NEW b \in Asked(m, rx)
        PROVE  /\ b.last <= last
               /\ Item(a, z).last = b.last => Item(a, z) = b
               /\ ~Done(a, z) => b.last <= Item(a, z).last
    <3>1. b.last <= ord
      BY <1>1, Zenon DEF AskedInv
    <3>2. b.last \in Nat
      BY <1>1, AskedFields, Zenon
    <3> QED BY <1>2, <3>1, <3>2
  <2> QED BY <1>1, <1>2, <1>4, <2>1, Zenon DEF AskedInv
<1>9. TreeInv(a, rx, tr, rt, rc)
  <2>1. ASSUME NEW r \in rx PROVE r.batch.last # Item(a, z).last
    <3>1. r.batch \in Asked(m, rx)
      BY Zenon DEF Asked
    <3>2. r.batch.last <= ord /\ r.batch.last \in Nat
      BY <1>1, <3>1, AskedFields, Zenon DEF AskedInv
    <3> QED BY <1>2, <3>2
  <2> QED BY <1>1, <1>2, <1>4, <2>1, Zenon DEF TreeInv
<1>10. ASSUME NEW k \in Nat, k <= ord PROVE k <= last /\ k < Item(a, z).first
  BY <1>2, <1>10
<1>11. PersistingInv(a, rt, last, rc)
  <2>1. rt <= ord /\ \A i \in Queue(m) : rt < Item(m, i).first
    BY <1>1, Zenon DEF PersistingInv
  <2>2. rt <= last /\ \A i \in Queue(a) : rt < Item(a, i).first
    BY <1>2, <1>10, <2>1, Zenon
  <2>3. ASSUME NEW k \in DOMAIN m.persisting
        PROVE  /\ m.persisting[k].last <= last
               /\ \A i \in Queue(a) : m.persisting[k].last < Item(a, i).first
    <3>1. m.persisting[k].last \in Nat
      <4>1. m.persisting \in Seq(PersistingRequest)
        BY <1>1, Zenon DEF IsBufferManager
      <4>2. m.persisting[k] \in PersistingRequest
        BY <4>1
      <4> QED BY <4>2 DEF PersistingRequest, Blocks
    <3>2. /\ m.persisting[k].last <= ord
          /\ \A i \in Queue(m) : m.persisting[k].last < Item(m, i).first
      BY <1>1, Zenon DEF PersistingInv
    <3> QED BY <1>2, <1>10, <3>1, <3>2, Zenon
  <2> QED BY <1>1, <1>4, <2>2, <2>3, Zenon DEF PersistingInv
<1>12. PendingInv(a, rt, last, rc)
  <2>1. ASSUME NEW k \in DOMAIN m.pending
        PROVE  /\ m.pending[k].last <= last
               /\ \A i \in Queue(a) : m.pending[k].last < Item(a, i).first
    <3>1. m.pending[k].last \in Nat
      <4>1. m.pending \in Seq(PersistingRequest)
        BY <1>1, Zenon DEF IsBufferManager
      <4>2. m.pending[k] \in PersistingRequest
        BY <4>1
      <4> QED BY <4>2 DEF PersistingRequest, Blocks
    <3>2. /\ m.pending[k].last <= ord
          /\ \A i \in Queue(m) : m.pending[k].last < Item(m, i).first
      BY <1>1, Zenon DEF PendingInv
    <3> QED BY <1>2, <1>10, <3>1, <3>2, Zenon
  <2> QED BY <1>1, <1>4, <2>1, Zenon DEF PendingInv
<1>13. AnchorInv(a, rx, tr, rt, last, rc, syn)
  <2>1. ASSUME Stuck(m, rx, tr, rt, ord) PROVE Stuck(a, rx, tr, rt, last)
    BY <1>2, <1>4, <1>5, <2>1, Zenon DEF Stuck
  <2> QED BY <1>1, <1>4, <1>5, <2>1, Zenon DEF AnchorInv
<1>14. TimestampInv(a, last, rc)
  <2> SUFFICES ASSUME m.end_epoch_timestamp # None
               PROVE  rc <= last /\ \A i \in Queue(a) : ~Done(a, i) => rc < Item(a, i).first
    BY <1>4, Zenon DEF TimestampInv
  <2>1. rc <= ord /\ \A i \in Queue(m) : ~Done(m, i) => rc < Item(m, i).first
    BY <1>1, Zenon DEF TimestampInv
  <2>2. rc <= last /\ rc < Item(a, z).first
    BY <1>10, <2>1, Zenon
  <2> QED BY <1>2, <2>1, <2>2, Zenon
<1> QED BY <1>4, <1>6, <1>7, <1>8, <1>9, <1>11, <1>12, <1>13, <1>14, Zenon DEF CoreInv

\* a is m after the last request of the epoch has been sent.
EndsEpoch(m, a) ==
    /\ IsBufferManager(a) /\ SameQueue(m, a) /\ a.execution = m.execution
    /\ m.persisting = <<>> /\ Len(m.pending) = 1
    /\ DOMAIN a.persisting = {1} /\ a.persisting[1] = m.pending[1] /\ Len(a.persisting) = 1
    /\ a.persisting # <<>> /\ a.pending = <<>>
    /\ a.end_epoch_timestamp = m.end_epoch_timestamp

\* The end of advance_head: the request continues the ledger.
LEMMA EpochEndKeeps ==
    ASSUME NEW m, NEW a, NEW rx, NEW tr, NEW rt \in Nat, NEW ord \in Nat, NEW rc \in Nat, NEW syn,
           CoreInv(m, rx, tr, rt, ord, rc, syn), EndsEpoch(m, a)
    PROVE  CoreInv(a, rx, tr, rt, ord, rc, syn)
<1> USE DEF EndsEpoch
<1> DEFINE q == m.pending[1]
<1>1. /\ IsBufferManager(m) /\ QueueInv(m, ord) /\ StageInv(m) /\ AskedInv(m, rx, ord)
      /\ TreeInv(m, rx, tr, rt, rc) /\ PersistingInv(m, rt, ord, rc)
      /\ PendingInv(m, rt, ord, rc) /\ TimestampInv(m, ord, rc)
  BY Zenon DEF CoreInv
<1>2. 1 \in DOMAIN m.pending /\ q.last \in Nat
  <2>1. m.pending \in Seq(PersistingRequest)
    BY <1>1, Zenon DEF IsBufferManager
  <2>2. 1 \in DOMAIN m.pending /\ q \in PersistingRequest
    BY <2>1
  <2> QED BY <2>2 DEF PersistingRequest, Blocks
<1>3. Certified(m, rt) = rt /\ Certified(a, rt) = q.last
  BY Zenon DEF Certified
<1>4. /\ rc <= q.last /\ q.last <= ord /\ \A i \in Queue(m) : q.last < Item(m, i).first
      /\ rt < rc => q.blocks = rt + 1 .. q.last
  BY <1>1, <1>2, <1>3, Zenon DEF PendingInv
<1>5. rt < rc => q.blocks \subseteq tr
  BY <1>1, <1>2, <1>3, Zenon DEF TreeInv
<1> HIDE DEF q
<1>6. Queue(a) = Queue(m) /\ QueueLen(a) = QueueLen(m)
      /\ \A i \in Queue(m) : Item(a, i) = Item(m, i) /\ (Done(a, i) <=> Done(m, i))
  BY Zenon DEF SameQueue, Queue
<1>7. a.persisting[1] = q /\ DOMAIN a.pending = {} /\ ~ (q.last < rc)
      /\ (rt < rc => rt < q.last) /\ q.last >= rc
  <2>1. DOMAIN <<>> = {}
    OBVIOUS
  <2>2. ~ (q.last < rc) /\ (rt < rc => rt < q.last) /\ q.last >= rc
    BY <1>2, <1>4
  <2> QED BY <2>1, <2>2, Zenon DEF q
<1>8. QueueInv(a, ord) /\ StageInv(a)
  BY <1>1, SameQueueInv, Zenon
<1>9. AskedInv(a, rx, ord)
  <2>1. Asked(a, rx) = Asked(m, rx)
    BY Zenon DEF Asked
  <2> QED BY <1>1, <1>6, <2>1, Zenon DEF AskedInv
<1>10. TreeInv(a, rx, tr, rt, rc)
  BY <1>1, <1>5, <1>6, <1>7, Zenon DEF TreeInv
<1>11. PersistingInv(a, rt, ord, rc)
  <2>1. rt <= ord /\ \A i \in Queue(a) : rt < Item(a, i).first
    BY <1>1, <1>6, Zenon DEF PersistingInv
  <2>2. ASSUME NEW k \in DOMAIN a.persisting
        PROVE  /\ a.persisting[k].last <= ord
               /\ \A i \in Queue(a) : a.persisting[k].last < Item(a, i).first
               /\ rt < rc => rt < a.persisting[k].last
               /\ rt < rc /\ k = 1 => a.persisting[k].blocks = rt + 1 .. a.persisting[k].last
               /\ a.persisting[k].last >= rc /\ k = 1 /\ ~ (k > 1)
               /\ \A l \in DOMAIN a.persisting : ~ (k < l)
    <3>1. k = 1 /\ a.persisting[k] = q
      BY <1>7, Zenon
    <3>2. ~ (k > 1) /\ \A l \in DOMAIN a.persisting : ~ (k < l)
      BY <3>1
    <3> QED BY <1>4, <1>6, <1>7, <3>1, <3>2, Zenon
  <2> QED BY <2>1, <2>2, Zenon DEF PersistingInv
<1>12. PendingInv(a, rt, ord, rc)
  BY <1>7, Zenon DEF PendingInv
<1>13. AnchorInv(a, rx, tr, rt, ord, rc, syn)
  BY <1>3, <1>7, Zenon DEF AnchorInv
<1>14. TimestampInv(a, ord, rc)
  BY <1>1, <1>6, Zenon DEF TimestampInv
<1> QED BY <1>8, <1>9, <1>10, <1>11, <1>12, <1>13, <1>14, Zenon DEF CoreInv

\* The end of a state sync: it has moved the ledger and the block store to its
\* target with nothing left behind, or failed and moved nothing.
LEMMA SyncKeeps ==
    ASSUME NEW m, NEW rx, NEW tr, NEW rt \in Nat, NEW ord \in Nat, NEW rc \in Nat, NEW syn,
           NEW rt2 \in Nat, NEW ord2 \in Nat, NEW syn2,
           CoreInv(m, rx, tr, rt, ord, rc, syn), Drained(m), m.pending = <<>>,
           \A r \in rx : r.batch \in Batches,
           \/ rt2 = rt /\ ord2 = ord
           \/ /\ rt2 = ord2 /\ \A r \in rx : r.batch.last <= ord2
              /\ m.end_epoch_timestamp = None
    PROVE  CoreInv(m, rx, {}, rt2, ord2, rc, syn2)
<1>1. /\ IsBufferManager(m) /\ AskedInv(m, rx, ord) /\ TimestampInv(m, ord, rc)
      /\ PersistingInv(m, rt, ord, rc)
  BY Zenon DEF CoreInv
<1>2. /\ m.buffer = <<>> /\ m.block_rx = <<>> /\ m.persisting = <<>>
      /\ InFlight(m.execution) = {}
  BY Zenon DEF Drained, Emptied
<1>3. Queue(m) = {} /\ NextBlock(m, ord2) = ord2 + 1 /\ Certified(m, rt2) = rt2
  BY <1>2, EmptyQueue, Zenon DEF Certified
<1>4. DOMAIN m.persisting = {} /\ DOMAIN m.pending = {}
  <2>1. DOMAIN <<>> = {}
    OBVIOUS
  <2> QED BY <1>2, <2>1, Zenon
<1>5. QueueInv(m, ord2) /\ StageInv(m)
  BY <1>3, Zenon DEF QueueInv, StageInv
<1>6. TreeInv(m, rx, {}, rt2, rc) /\ PendingInv(m, rt2, ord2, rc)
  BY <1>3, <1>4, Zenon DEF TreeInv, PendingInv
<1>7. rt2 <= ord2
  <2>1. rt <= ord
    BY <1>1, Zenon DEF PersistingInv
  <2> QED BY <2>1
<1>8. PersistingInv(m, rt2, ord2, rc)
  BY <1>3, <1>4, <1>7, Zenon DEF PersistingInv
<1>9. AskedInv(m, rx, ord2)
  <2>1. CASE ord2 = ord
    BY <1>1, <2>1, Zenon
  <2>2. CASE \A r \in rx : r.batch.last <= ord2
    BY <1>2, <1>3, <2>2, Zenon DEF AskedInv, Asked
  <2> QED BY <2>1, <2>2, Zenon
<1>10. TimestampInv(m, ord2, rc)
  BY <1>1, Zenon DEF TimestampInv
<1>11. AnchorInv(m, rx, {}, rt2, ord2, rc, syn2)
  <2>1. CASE rt2 = ord2
    BY <1>3, <2>1, Zenon DEF AnchorInv
  <2>2. CASE rt2 # ord2
    <3>1. ord2 = ord /\ ord2 + 1 > rt2 + 1
      BY <1>7, <2>2
    <3>2. ASSUME NEW r \in rx PROVE r.batch.last < ord2 + 1
      <4>1. r.batch \in Asked(m, rx)
        BY Zenon DEF Asked
      <4>2. r.batch.last <= ord /\ r.batch.last \in Nat
        BY <1>1, <4>1, AskedFields, Zenon DEF AskedInv
      <4> QED BY <3>1, <4>2
    <3>3. Stuck(m, rx, {}, rt2, ord2)
      BY <1>2, <1>3, <3>1, <3>2, Zenon DEF Stuck
    <3> QED BY <3>3, Zenon DEF AnchorInv
  <2> QED BY <2>1, <2>2, Zenon
<1> QED BY <1>1, <1>5, <1>6, <1>8, <1>9, <1>10, <1>11, Zenon DEF CoreInv

=============================================================================
