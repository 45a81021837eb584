-------------------------- MODULE StateSyncProofs --------------------------
(***************************************************************************)
(* For any chain, epochs, queue bounds, nodes and faults: storage has one  *)
(* writer, it never refuses a chunk, chunks stay within the target, the    *)
(* counter of pending chunks is exact, and an answered request has reached *)
(* its target.                                                             *)
(***************************************************************************)
EXTENDS StateSync, SequenceTheorems, FiniteSetTheorems, TLAPS

(***************************************************************************)
(* What the operators of the model return, that every step keeps the       *)
(* types, that the counter of pending chunks follows the pipeline, and     *)
(* that a sync request is in one place at a time.                          *)
(***************************************************************************)

(* There are finitely many epochs. *)
LEMMA EndsAreFinite == IsFiniteSet(EpochEnds)
<1>1. EpochEnds \subseteq 0..MaxVersion /\ MaxVersion \in Nat
  BY StateSyncAssumption, Zenon
<1>2. IsFiniteSet(0..MaxVersion)
  BY <1>1, FS_Interval
<1> QED BY <1>1, <1>2, FS_Subset, Zenon

(* Later versions are in later epochs. *)
LEMMA EpochsGrow ==
    ASSUME NEW v \in Versions, NEW w \in Versions, v <= w
    PROVE  /\ NextEpoch(v) \in Nat /\ NextEpoch(w) \in Nat
           /\ NextEpoch(v) <= NextEpoch(w)
<1> DEFINE Ends(u) == {e \in EpochEnds : e <= u}
<1>1. EpochEnds \subseteq Int /\ v \in Int /\ w \in Int
  BY StateSyncAssumption DEF Versions
<1>2. Ends(w) \subseteq EpochEnds /\ Ends(v) \subseteq Ends(w)
  <2>1. \A e \in EpochEnds : e <= v => e <= w
    BY <1>1
  <2> QED BY <2>1, Zenon
<1>3. IsFiniteSet(Ends(w))
  BY <1>2, EndsAreFinite, FS_Subset, Zenon
<1>4. Cardinality(Ends(v)) <= Cardinality(Ends(w)) /\ IsFiniteSet(Ends(v))
  BY <1>2, <1>3, FS_Subset, Zenon
<1>5. Cardinality(Ends(v)) \in Nat /\ Cardinality(Ends(w)) \in Nat
  BY <1>3, <1>4, FS_CardinalityType, Zenon
<1> QED BY <1>4, <1>5 DEF NextEpoch

(* A ledger info of an epoch that has begun at version v: no epoch ends    *)
(* between the two.                                                        *)
LEMMA WithinEpoch ==
    ASSUME NEW v \in Versions, NEW l \in Versions, EpochOf(l) <= NextEpoch(v)
    PROVE  NoEndBetween(v, l)
<1> DEFINE Upto(u) == {e \in EpochEnds : e <= u}
           Below(u) == {e \in EpochEnds : e < u}
<1>1. EpochEnds \subseteq Int /\ v \in Int /\ l \in Int
  BY StateSyncAssumption DEF Versions
<1>2. SUFFICES ASSUME NEW x \in EpochEnds, v < x, x < l PROVE FALSE
  BY Zenon DEF NoEndBetween
<1>3. Below(l) \subseteq EpochEnds /\ Upto(v) \subseteq Below(l) /\ x \in Below(l) /\ x \notin Upto(v)
  <2>1. \A e \in EpochEnds : e <= v => e < l
    BY <1>1, <1>2
  <2>2. ~(x <= v)
    BY <1>1, <1>2
  <2> QED BY <1>2, <2>1, <2>2, Zenon
<1>4. IsFiniteSet(Below(l))
  BY <1>3, EndsAreFinite, FS_Subset, Zenon
<1>5. /\ Cardinality(Upto(v)) <= Cardinality(Below(l)) /\ IsFiniteSet(Upto(v))
      /\ Cardinality(Below(l)) # Cardinality(Upto(v))
  BY <1>3, <1>4, FS_Subset, Zenon
<1>6. Cardinality(Upto(v)) \in Nat /\ Cardinality(Below(l)) \in Nat
  BY <1>4, <1>5, FS_CardinalityType, Zenon
<1> QED BY <1>5, <1>6 DEF EpochOf, NextEpoch

(* Epochs are numbered from one up to the epoch after the whole chain. *)
LEMMA EpochRange ==
    ASSUME NEW v \in Versions
    PROVE  NextEpoch(v) \in 1..NextEpoch(MaxVersion)
<1>1. MaxVersion \in Versions /\ v <= MaxVersion
  BY StateSyncAssumption DEF Versions
<1>2. NextEpoch(v) \in Nat /\ NextEpoch(MaxVersion) \in Nat /\ NextEpoch(v) <= NextEpoch(MaxVersion)
  BY <1>1, EpochsGrow
<1>3. NextEpoch(v) >= 1
  <2>1. {e \in EpochEnds : e <= v} \subseteq EpochEnds
    BY Zenon
  <2>2. IsFiniteSet({e \in EpochEnds : e <= v})
    BY <2>1, EndsAreFinite, FS_Subset, Zenon
  <2>3. Cardinality({e \in EpochEnds : e <= v}) \in Nat
    BY <2>2, FS_CardinalityType, Zenon
  <2> QED BY <2>3 DEF NextEpoch
<1> QED BY <1>2, <1>3

(* Versions are numbers. *)
LEMMA VersionsAreInts == Versions \subseteq Int /\ LedgerInfos \subseteq Versions
BY StateSyncAssumption DEF Versions

(* A queue with one more element. *)
LEMMA Appended ==
    ASSUME NEW S, NEW q \in Seq(S), NEW e \in S
    PROVE  /\ Append(q, e) \in Seq(S)
           /\ Len(Append(q, e)) = Len(q) + 1 /\ Len(q) \in Nat
           /\ DOMAIN q = 1..Len(q) /\ DOMAIN Append(q, e) = 1..(Len(q) + 1)
           /\ \A i \in 1..Len(q) : Append(q, e)[i] = q[i]
           /\ Append(q, e)[Len(q) + 1] = e
BY AppendProperties, LenProperties

(* A queue without its first element. *)
LEMMA Dequeued ==
    ASSUME NEW S, NEW q \in Seq(S), q # <<>>
    PROVE  /\ Head(q) = q[1] /\ Head(q) \in S
           /\ Tail(q) \in Seq(S)
           /\ Len(Tail(q)) = Len(q) - 1 /\ Len(q) \in Nat \ {0}
           /\ DOMAIN q = 1..Len(q) /\ DOMAIN Tail(q) = 1..(Len(q) - 1)
           /\ \A i \in 1..(Len(q) - 1) : Tail(q)[i] = q[i + 1]
BY HeadTailProperties, LenProperties, EmptySeq

(* The counter as an AtomicU64: it wraps at both ends. *)
LEMMA Wraps ==
    ASSUME NEW m \in Nat, m > 1
    PROVE  /\ \A a \in Int : a % m \in 0..(m - 1)
           /\ \A a \in 0..(m - 1) : a % m = a
           /\ m % m = 0 /\ (0 - 1) % m = m - 1
OBVIOUS

(* A fault that happens is taken from the budget. *)
LEMMA SpendType ==
    ASSUME TypeOK, NEW kind \in EventKinds, Spend(kind)
    PROVE  budget' \in [EventKinds -> Nat]
BY DEF TypeOK, Spend

(* What the tail of drive_progress may do. *)
LEMMA DriveSyncerCases ==
    ASSUME TypeOK, DriveSyncer
    PROVE  /\ \/ driver' = Idle /\ UNCHANGED <<stream, inner>>
              \/ /\ setup.validator => request # None
                 /\ stream # None
                 /\ driver' = [pc |-> "fetch", left |-> MaxNotifications]
                 /\ UNCHANGED <<stream, inner>>
              \/ /\ setup.validator => request # None
                 /\ stream = None /\ ~(pending > 0)
                 /\ driver' = Idle
                 /\ inner' = [view |-> ledger.version, chunks |-> <<>>]
                 /\ stream' \in {stream, [synced |-> ledger.version,
                                          epoch |-> NextEpoch(ledger.li),
                                          timeouts |-> 0, target |-> request]}
           /\ fallback' \in BOOLEAN /\ budget' \in [EventKinds -> Nat]
<1>1. "stream" \in EventKinds
  BY Zenon DEF EventKinds
<1>2. budget' = budget \/ Spend("stream")
  BY Zenon DEF DriveSyncer, InitializeStream
<1>3. budget' \in [EventKinds -> Nat]
  BY <1>1, <1>2, SpendType, Zenon DEF TypeOK
<1>4. fallback' \in BOOLEAN
  BY Zenon DEF DriveSyncer, InitializeStream, TypeOK
<1> QED BY <1>3, <1>4, Zenon DEF DriveSyncer, InitializeStream

(* What the notification of mempool and of the subscribers changes. *)
LEMMA NotifyEventsType ==
    ASSUME TypeOK, NEW task \in NotifyStates, task.pc = "notify", NotifyEvents(task)
    PROVE  /\ reconfig' \in 1..NextEpoch(MaxVersion) \cup {None}
           /\ budget' \in [EventKinds -> Nat]
<1>1. task.version \in Versions
  BY Zenon DEF NotifyStates
<1>2. CASE reconfig' = (IF task.reconfig THEN NextEpoch(task.version) ELSE reconfig) /\ UNCHANGED budget
  BY <1>1, <1>2, EpochRange, Zenon DEF TypeOK
<1>3. CASE Spend("mempool") /\ UNCHANGED reconfig
  BY <1>3, SpendType, Zenon DEF TypeOK, EventKinds
<1> QED BY <1>2, <1>3, Zenon DEF NotifyEvents

(* The records that the handlers write are no None: an open stream stays   *)
(* one, and so does an initialized cache.                                  *)
LEMMA StreamCounted ==
    ASSUME TypeOK, CacheInv, IncrementPending
    PROVE  stream' \in StreamStates
<1>1. stream \in StreamStates
  BY Zenon DEF IncrementPending, CacheInv, TypeOK
<1>2. driver.chunk \in Chunks
  BY Zenon DEF IncrementPending, TypeOK, DriverStates, NotifyStates
<1>3. driver.chunk.last \in Versions /\ driver.chunk.li \in Versions
  BY <1>2, StateSyncAssumption, Zenon DEF Chunks, Versions
<1>4. NextEpoch(driver.chunk.li) \in Nat
  BY <1>3, EpochRange
<1> QED BY <1>1, <1>3, <1>4, Zenon DEF IncrementPending, StreamStates

\* A payload taken from the stream leaves a stream that can go on.
LEMMA StreamReceives ==
    ASSUME TypeOK, CacheInv, NEW p \in Chunks, ProcessPayload(p), Verified(p)
    PROVE  stream' \in StreamStates
<1>1. stream \in StreamStates
  BY Zenon DEF ProcessPayload, CacheInv, TypeOK
<1> QED BY <1>1, StateSyncAssumption DEF ProcessPayload, StreamStates

\* execute_chunk leaves a chunk executor with a well-formed cache.
LEMMA CacheExecuted ==
    ASSUME TypeOK, ExecuteChunk
    PROVE  inner' \in Caches
<1> DEFINE c == Head(execq)
<1>1. c \in Chunks
  BY Dequeued, Zenon DEF ExecuteChunk, TypeOK
<1>2. ExecutedChunk(c) \in Executed
  BY <1>1, Zenon DEF ExecutedChunk, Executed, Chunks
<1>3. CASE inner = None
  <2>1. CacheFor(c) = [view |-> ledger.version, chunks |-> <<>>]
    BY <1>3, Zenon DEF ExecuteChunk, CacheFor
  <2>2. inner' = [view |-> ledger.version, chunks |-> <<ExecutedChunk(c)>>]
    BY <1>3, <2>1 DEF ExecuteChunk
  <2>3. <<ExecutedChunk(c)>> \in Seq(Executed)
    BY <1>2
  <2> QED BY <2>2, <2>3, Zenon DEF Caches, TypeOK
<1>4. CASE inner # None
  <2>1. inner \in Caches
    BY <1>4, Zenon DEF TypeOK
  <2>2. Append(inner.chunks, ExecutedChunk(c)) \in Seq(Executed)
    BY <1>2, <2>1, Appended, Zenon DEF Caches
  <2> QED BY <1>4, <2>1, <2>2, Zenon DEF ExecuteChunk, Caches
<1> QED BY <1>3, <1>4, Zenon

\* commit_chunk moves the first executed chunk from the cache to storage.
LEMMA CacheSaved ==
    ASSUME TypeOK, inner # None, inner.chunks # <<>>, SaveChunk
    PROVE  /\ inner' \in Caches /\ Head(inner.chunks) \in Executed
           /\ ledger' \in [version : Versions, li : LedgerInfos]
<1>1. Head(inner.chunks) \in Executed /\ Tail(inner.chunks) \in Seq(Executed)
  BY Dequeued, Zenon DEF TypeOK, Caches
<1> QED BY <1>1, Zenon DEF SaveChunk, Executed, Caches, TypeOK

(***************************************************************************)
(* Types, one step per action.                                             *)
(***************************************************************************)
LEMMA ConsensusTypeStep ==
    ASSUME TypeOK, ConsensusStep
    PROVE  TypeOK'
<1>1. ASSUME NEW v \in Versions, ConsensusCommit(v) PROVE TypeOK'
  <2>1. budget' \in [EventKinds -> Nat]
    BY <1>1, SpendType, Zenon DEF ConsensusCommit, EventKinds
  <2>2. asyncq' \in Seq(BOOLEAN)
    BY <1>1, Appended DEF ConsensusCommit, TypeOK
  <2> QED BY <1>1, <2>1, <2>2, Zenon DEF TypeOK, ConsensusCommit, pipelineVars
<1>2. ASSUME NEW v \in Versions, NEW purpose \in {"block", "epoch"}, SyncTo(v, purpose) PROVE TypeOK'
  <2>1. budget' \in [EventKinds -> Nat]
    BY <1>2, SpendType, Zenon DEF SyncTo, EventKinds
  <2>2. inbox' \in Seq(Notifications)
    <3>1. [type |-> "sync", target |-> v] \in Notifications
      BY Zenon DEF Notifications
    <3> QED BY <1>2, <3>1, Appended, Zenon DEF SyncTo, TypeOK
  <2>3. con' \in ConsensusStates
    BY <1>2, Zenon DEF SyncTo, TypeOK, ConsensusStates
  <2> QED BY <1>2, <2>1, <2>2, <2>3, Zenon DEF TypeOK, SyncTo, pipelineVars
<1>3. CASE NotifyCommit
  <2>1. asyncq' \in Seq(BOOLEAN) /\ Head(asyncq) \in BOOLEAN
    BY <1>3, Dequeued, Zenon DEF NotifyCommit, TypeOK
  <2>2. [type |-> "commit", reconfig |-> Head(asyncq)] \in Notifications
    BY <2>1, Zenon DEF Notifications
  <2>3. inbox' \in Seq(Notifications)
    BY <1>3, <2>2, Appended, Zenon DEF NotifyCommit, TypeOK
  <2> QED BY <1>3, <2>1, <2>3, Zenon DEF TypeOK, NotifyCommit, pipelineVars
<1>4. CASE SyncReturns
  <2>1. con' \in ConsensusStates
    BY <1>4, Zenon DEF SyncReturns, TypeOK, ConsensusStates
  <2> QED BY <1>4, <2>1, Zenon DEF TypeOK, SyncReturns, pipelineVars
<1>5. CASE StartNewEpoch
  <2>1. con' \in ConsensusStates
    BY <1>5, Zenon DEF StartNewEpoch, TypeOK, ConsensusStates
  <2> QED BY <1>5, <2>1, Zenon DEF TypeOK, StartNewEpoch, pipelineVars
<1> QED BY <1>1, <1>2, <1>3, <1>4, <1>5, Zenon DEF ConsensusStep

\* Steps of the driver keep the types.
LEMMA DriverTypeStep ==
    ASSUME TypeOK, CacheInv, DriverStep
    PROVE  TypeOK'
<1> USE DEF consensusVars, pipelineVars
<1>0. Idle \in DriverStates
  BY Zenon DEF Idle, DriverStates
<1>1. ASSUME DriveSyncer
      PROVE  /\ driver' \in DriverStates /\ stream' \in {None} \cup StreamStates
             /\ inner' \in {None} \cup Caches
             /\ fallback' \in BOOLEAN /\ budget' \in [EventKinds -> Nat]
  <2>1. [pc |-> "fetch", left |-> MaxNotifications] \in DriverStates
    BY StateSyncAssumption DEF DriverStates
  <2>2. [view |-> ledger.version, chunks |-> <<>>] \in Caches
    BY EmptySeq, Zenon DEF TypeOK, Caches
  <2>3. [synced |-> ledger.version, epoch |-> NextEpoch(ledger.li),
         timeouts |-> 0, target |-> request] \in StreamStates
    <3>1. NextEpoch(ledger.li) \in Nat
      <4>1. ledger.li \in Versions
        BY StateSyncAssumption, Zenon DEF TypeOK, Versions
      <4> QED BY <4>1, EpochRange
    <3> QED BY <3>1, StateSyncAssumption DEF TypeOK, StreamStates
  <2> QED BY <1>0, <1>1, <2>1, <2>2, <2>3, DriveSyncerCases, Zenon DEF TypeOK
<1>2. CASE DriveProgress
  <2>1. [pc |-> "drain", drive |-> TRUE] \in DriverStates
    BY Zenon DEF DriverStates
  <2> QED BY <1>1, <1>2, <2>1, Zenon DEF TypeOK, DriveProgress
<1>3. CASE Drained
  <2>1. con' \in ConsensusStates
    BY <1>3, Zenon DEF Drained, Answer, TypeOK, ConsensusStates
  <2>2. [pc |-> "finish"] \in DriverStates
    BY Zenon DEF DriverStates
  <2> QED BY <1>0, <1>1, <1>3, <2>1, <2>2, Zenon DEF TypeOK, Drained
<1>4. CASE FinishChunkExecutor
  BY <1>0, <1>4, Zenon DEF TypeOK, FinishChunkExecutor, ResetStream
<1>5. CASE HandleSync
  <2>1. inbox' \in Seq(Notifications) /\ Head(inbox) \in Notifications
    BY <1>5, Dequeued, Zenon DEF HandleSync, TypeOK
  <2>2. Head(inbox).target \in Versions
    BY <1>5, <2>1, Zenon DEF HandleSync, Notifications
  <2>3. con' \in ConsensusStates
    BY <1>5, Zenon DEF HandleSync, Answer, TypeOK, ConsensusStates
  <2> QED BY <1>5, <2>1, <2>2, <2>3, Zenon DEF TypeOK, HandleSync
<1>6. CASE HandleCommit
  <2>1. inbox' \in Seq(Notifications) /\ Head(inbox) \in Notifications
    BY <1>6, Dequeued, Zenon DEF HandleCommit, TypeOK
  <2>2. driver' \in DriverStates
    BY <1>6, <2>1, Zenon DEF HandleCommit, Notifications, DriverStates, NotifyStates
  <2> QED BY <1>6, <2>1, <2>2, Zenon DEF TypeOK, HandleCommit
<1>7. CASE HandleError
  BY <1>7 DEF TypeOK, HandleError, ResetStream
<1>8. CASE DriverReadsVersion
  <2>1. driver' \in DriverStates
    BY <1>8, Zenon DEF DriverReadsVersion, ReadVersion, TypeOK, DriverStates, NotifyStates
  <2> QED BY <1>8, <2>1, Zenon DEF TypeOK, DriverReadsVersion
<1>9. CASE DriverNotifies
  <2>1. driver \in NotifyStates
    BY <1>9, Zenon DEF DriverNotifies, TypeOK, DriverStates
  <2>2. [pc |-> "drain", drive |-> FALSE] \in DriverStates
    BY Zenon DEF DriverStates
  <2> QED BY <1>0, <1>9, <2>1, <2>2, NotifyEventsType, Zenon DEF TypeOK, DriverNotifies
<1>10. CASE SendChunk
  <2>1. driver.chunk \in Chunks /\ driver' \in DriverStates
    BY <1>10, Zenon DEF SendChunk, TypeOK, DriverStates, NotifyStates
  <2>2. execq' \in Seq(Chunks) /\ Len(execq') <= QueueBound
    BY <1>10, <2>1, Appended, StateSyncAssumption DEF SendChunk, TypeOK
  <2> QED BY <1>10, <2>1, <2>2, Zenon DEF TypeOK, SendChunk
<1>11. CASE IncrementPending
  <2>1. driver.chunk \in Chunks /\ driver.left \in 1..MaxNotifications
    BY <1>11, Zenon DEF IncrementPending, TypeOK, DriverStates, NotifyStates
  <2>2. driver' \in DriverStates
    BY <1>0, <1>11, <2>1, StateSyncAssumption DEF IncrementPending, NextLeft, DriverStates
  <2>3. stream' \in StreamStates
    BY <1>11, StreamCounted, Zenon
  <2>4. pending' \in 0..(CounterModulus - 1)
    <3>1. pending + 1 \in Int /\ CounterModulus \in Nat /\ CounterModulus > 1
      BY StateSyncAssumption DEF TypeOK
    <3> QED BY <1>11, <3>1, Wraps, Zenon DEF IncrementPending
  <2> QED BY <1>11, <2>2, <2>3, <2>4, Zenon DEF TypeOK, IncrementPending
<1>12. CASE EndOfStream
  <2>1. budget' \in [EventKinds -> Nat]
    BY <1>12, SpendType, Zenon DEF EndOfStream, EventKinds, TypeOK
  <2> QED BY <1>0, <1>12, <2>1, Zenon DEF TypeOK, EndOfStream, ResetStream
<1>13. CASE StreamTimeout
  <2>1. budget' \in [EventKinds -> Nat]
    BY <1>13, SpendType, Zenon DEF StreamTimeout, EventKinds, TypeOK
  <2>2. stream' \in {None} \cup StreamStates
    <3>1. stream \in StreamStates
      BY <1>13, Zenon DEF StreamTimeout, CacheInv, TypeOK
    <3> QED BY <1>13, <3>1, StateSyncAssumption DEF StreamTimeout, StreamStates
  <2> QED BY <1>0, <1>13, <2>1, <2>2, Zenon DEF TypeOK, StreamTimeout
<1>14. ASSUME NEW p \in Chunks, ProcessPayload(p) PROVE TypeOK'
  <2>1. budget' \in [EventKinds -> Nat]
    BY <1>14, SpendType, Zenon DEF ProcessPayload, EventKinds, TypeOK
  <2>2. driver' \in DriverStates
    BY <1>0, <1>14 DEF ProcessPayload, TypeOK, DriverStates, NotifyStates
  <2>3. stream' \in {None} \cup StreamStates
    BY <1>14, StreamReceives, Zenon DEF ProcessPayload, ResetStream
  <2> QED BY <1>14, <2>1, <2>2, <2>3, Zenon DEF TypeOK, ProcessPayload
<1> QED BY <1>2, <1>3, <1>4, <1>5, <1>6, <1>7, <1>8, <1>9, <1>10, <1>11, <1>12, <1>13, <1>14,
           Zenon
        DEF DriverStep

\* Steps of the executor and committer tasks keep the types.
LEMMA PipelineTypeStep ==
    ASSUME TypeOK, ExecutorStep \/ CommitterStep
    PROVE  TypeOK'
<1> USE DEF consensusVars
<1>0. pending - 1 \in Int /\ CounterModulus \in Nat /\ CounterModulus > 1
  BY StateSyncAssumption DEF TypeOK
<1>1. ASSUME Decrement PROVE pending' \in 0..(CounterModulus - 1)
  BY <1>0, <1>1, Wraps, Zenon DEF Decrement
<1>2. CASE ExecuteChunk
  <2> DEFINE c == Head(execq)
  <2>1. c \in Chunks /\ execq' \in Seq(Chunks) /\ Len(execq') <= QueueBound
    BY <1>2, Dequeued, StateSyncAssumption DEF ExecuteChunk, TypeOK
  <2>3. budget' \in [EventKinds -> Nat] /\ errors' \in Nat /\ exec' \in {"send", "decrement"}
    <3>1. /\ UNCHANGED budget \/ Spend("execute")
          /\ errors' \in {errors, errors + 1} /\ exec' \in {"send", "decrement"}
      BY <1>2, Zenon DEF ExecuteChunk
    <3> QED BY <3>1, SpendType DEF EventKinds, TypeOK
  <2>4. inner' \in Caches
    BY <1>2, CacheExecuted, Zenon
  <2> QED BY <1>2, <2>1, <2>3, <2>4, Zenon DEF TypeOK, ExecuteChunk
<1>3. CASE NotifyCommitter
  BY <1>3, StateSyncAssumption DEF TypeOK, NotifyCommitter
<1>4. CASE ExecutorDecrements
  BY <1>1, <1>4, Zenon DEF TypeOK, ExecutorDecrements
<1>5. CASE CommitChunk
  <2>1. inner \in Caches
    BY <1>5, Zenon DEF CommitChunk, TypeOK
  <2>2. CASE inner.chunks # <<>> /\ SaveChunk
    <3>1. ledger' \in [version : Versions, li : LedgerInfos] /\ inner' \in Caches
      BY <1>5, <2>2, CacheSaved, Zenon DEF CommitChunk
    <3>2. comm' \in NotifyStates
      BY <2>2 DEF SaveChunk, NotifyStates
    <3>3. UNCHANGED <<errors, budget>>
      BY <2>2, Zenon DEF SaveChunk
    <3>4. commq' \in 0..QueueBound
      BY <1>5, StateSyncAssumption DEF TypeOK, CommitChunk
    <3>5. UNCHANGED <<setup, con, asyncq, inbox, driver, request, stream, fallback, execq, exec, pending, reconfig>>
      BY <1>5, Zenon DEF CommitChunk
    <3> QED BY <3>1, <3>2, <3>3, <3>4, <3>5, Zenon DEF TypeOK
  <2>3. CASE ~(inner.chunks # <<>> /\ SaveChunk)
    <3>1. budget' \in [EventKinds -> Nat]
      BY <1>5, <2>3, SpendType, Zenon DEF CommitChunk, EventKinds, TypeOK
    <3> QED BY <1>5, <2>3, <3>1, StateSyncAssumption DEF TypeOK, CommitChunk
  <2> QED BY <2>2, <2>3, Zenon
<1>6. CASE CommitterReadsVersion
  <2>1. comm' \in NotifyStates
    BY <1>6, Zenon DEF CommitterReadsVersion, ReadVersion, TypeOK, NotifyStates
  <2> QED BY <1>6, <2>1, Zenon DEF TypeOK, CommitterReadsVersion
<1>7. CASE CommitterNotifies
  <2>1. comm \in NotifyStates
    BY <1>7, Zenon DEF CommitterNotifies, TypeOK
  <2> QED BY <1>7, <2>1, NotifyEventsType, Zenon DEF TypeOK, CommitterNotifies
<1>8. CASE CommitterDecrements
  BY <1>1, <1>8, Zenon DEF TypeOK, CommitterDecrements
<1> QED BY <1>2, <1>3, <1>4, <1>5, <1>6, <1>7, <1>8, Zenon DEF ExecutorStep, CommitterStep

\* Every step keeps the types.
LEMMA TypeStep ==
    ASSUME IInv, [Next]_vars
    PROVE  TypeOK'
<1>1. CASE Next
  BY <1>1, ConsensusTypeStep, DriverTypeStep, PipelineTypeStep, Zenon DEF IInv, Next
<1>2. CASE UNCHANGED vars
  BY <1>2, Zenon DEF IInv, TypeOK, vars
<1> QED BY <1>1, <1>2, Zenon

(***************************************************************************)
(* The counter.                                                            *)
(***************************************************************************)

(* The places of the pipeline, before and after a step. *)
LEMMA PipelineParts ==
    ASSUME TypeOK, TypeOK'
    PROVE  /\ Len(execq) \in Nat /\ Len(execq) <= QueueBound /\ (Len(execq) = 0 <=> execq = <<>>)
           /\ Len(execq') \in Nat /\ Len(execq') <= QueueBound
           /\ InExecutor \in Nat /\ InExecutor <= 1 /\ (InExecutor = 0 <=> exec = "idle")
           /\ InExecutor' \in Nat /\ InExecutor' <= 1 /\ (InExecutor' = 0 <=> exec' = "idle")
           /\ commq \in Nat /\ commq <= QueueBound /\ commq' \in Nat /\ commq' <= QueueBound
           /\ InCommitter \in Nat /\ InCommitter <= 1 /\ (InCommitter = 0 <=> comm.pc = "idle")
           /\ InCommitter' \in Nat /\ InCommitter' <= 1 /\ (InCommitter' = 0 <=> comm'.pc = "idle")
BY EmptySeq, LenProperties, StateSyncAssumption DEF TypeOK, InExecutor, InCommitter

(* No place holds less than nothing, and together they stay below the      *)
(* counter's modulus.                                                      *)
LEMMA PipelineBound ==
    ASSUME TypeOK, TypeOK'
    PROVE  /\ InPipeline \in Nat /\ InPipeline < CounterModulus - 1
           /\ InPipeline' \in Nat /\ InPipeline' < CounterModulus - 1
           /\ CounterModulus \in Nat /\ CounterModulus > 1
           /\ InPipeline = 0 => execq = <<>> /\ exec = "idle" /\ commq = 0 /\ comm.pc = "idle"
<1>1. QueueBound \in Nat /\ CounterModulus \in Nat /\ CounterModulus > 2 * QueueBound + 3
  BY StateSyncAssumption, Zenon
<1>2. InPipeline \in Nat /\ InPipeline <= 2 * QueueBound + 2
  BY <1>1, PipelineParts DEF InPipeline
<1>3. InPipeline' \in Nat /\ InPipeline' <= 2 * QueueBound + 2
  BY <1>1, PipelineParts DEF InPipeline
<1>4. InPipeline = 0 => Len(execq) = 0 /\ InExecutor = 0 /\ commq = 0 /\ InCommitter = 0
  BY PipelineParts DEF InPipeline
<1>5. InPipeline = 0 => execq = <<>> /\ exec = "idle" /\ commq = 0 /\ comm.pc = "idle"
  BY <1>4, PipelineParts, Zenon
<1> QED BY <1>1, <1>2, <1>3, <1>5

\* Every step keeps the pending-data counter exact.
LEMMA CounterStep ==
    ASSUME IInv, [Next]_vars
    PROVE  CounterInv'
<1> USE DEF IInv
<1>a. TypeOK /\ TypeOK'
  BY TypeStep, Zenon
<1>0. /\ InPipeline \in Nat /\ InPipeline < CounterModulus - 1
      /\ InPipeline' \in Nat /\ InPipeline' < CounterModulus - 1
      /\ CounterModulus \in Nat /\ CounterModulus > 1
  BY <1>a, PipelineBound, Zenon
<1>b. /\ Len(execq) \in Int /\ Len(execq') \in Int /\ InExecutor \in Int /\ InExecutor' \in Int
      /\ commq \in Int /\ commq' \in Int /\ InCommitter \in Int /\ InCommitter' \in Int
  BY <1>a, PipelineParts
<1>1. CASE UNCHANGED <<execq, exec, commq, comm, pending>> /\ driver.pc # "increment" /\ driver'.pc # "increment"
  BY <1>1, Zenon DEF CounterInv, InPipeline, InExecutor, InCommitter
<1>2. CASE ConsensusStep \/ UNCHANGED vars
  <2>1. UNCHANGED <<execq, exec, commq, comm, pending, driver>>
    BY <1>2, Zenon DEF ConsensusStep, ConsensusCommit, NotifyCommit, SyncTo, SyncReturns,
       StartNewEpoch,
                pipelineVars, vars
  <2> QED BY <2>1, Zenon DEF CounterInv, InPipeline, InExecutor, InCommitter
<1>3. CASE DriverStep
  <2>1. CASE SendChunk
    <3>1. Len(execq') = Len(execq) + 1
      <4>1. driver.chunk \in Chunks
        BY <2>1, Zenon DEF SendChunk, TypeOK, DriverStates, NotifyStates
      <4> QED BY <2>1, <4>1, Appended DEF SendChunk, TypeOK
    <3>2. InPipeline' = InPipeline + 1
      <4>1. UNCHANGED <<InExecutor, commq, InCommitter>>
        BY <2>1, Zenon DEF SendChunk, InExecutor, InCommitter
      <4> QED BY <1>b, <3>1, <4>1 DEF InPipeline
    <3>3. driver'.pc = "increment"
      BY <2>1, Zenon DEF SendChunk, TypeOK, DriverStates, NotifyStates
    <3> QED BY <1>0, <2>1, <3>2, <3>3 DEF SendChunk, CounterInv
  <2>2. CASE IncrementPending
    <3>1. driver'.pc # "increment"
      BY <2>2, Zenon DEF IncrementPending, NextLeft, Idle
    <3>2. InPipeline' = InPipeline
      BY <2>2, Zenon DEF IncrementPending, InPipeline, InExecutor, InCommitter
    <3>3. pending' = (pending + 1) % CounterModulus
      BY <2>2, Zenon DEF IncrementPending
    <3>4. CASE InPipeline = 0
      <4>1. pending + 1 = CounterModulus
        BY <1>0, <2>2, <3>4 DEF IncrementPending, CounterInv
      <4> QED BY <1>0, <3>1, <3>2, <3>3, <3>4, <4>1, Wraps, Zenon DEF CounterInv
    <3>5. CASE InPipeline # 0
      <4>1. pending + 1 = InPipeline
        BY <1>0, <2>2, <3>5 DEF IncrementPending, CounterInv
      <4>2. InPipeline \in 0..(CounterModulus - 1)
        BY <1>0
      <4> QED BY <1>0, <3>1, <3>2, <3>3, <4>1, <4>2, Wraps, Zenon DEF CounterInv
    <3> QED BY <3>4, <3>5, Zenon
  <2>3. CASE DriveProgress \/ Drained
    <3>1. ASSUME DriveSyncer PROVE driver'.pc # "increment"
      BY <3>1, DriveSyncerCases DEF Idle
    <3> QED BY <1>1, <2>3, <3>1 DEF DriveProgress, Drained, Idle
  <2>4. CASE \/ FinishChunkExecutor \/ HandleSync \/ HandleCommit \/ HandleError
             \/ DriverReadsVersion \/ DriverNotifies \/ EndOfStream \/ StreamTimeout
    BY <1>1, <2>4 DEF FinishChunkExecutor, HandleSync, HandleCommit, HandleError,
       DriverReadsVersion,
                      DriverNotifies, EndOfStream, StreamTimeout, ReadVersion, Idle, pipelineVars
  <2>5. CASE \E p \in Chunks : ProcessPayload(p)
    BY <1>1, <2>5 DEF ProcessPayload, Idle, pipelineVars
  <2> QED BY <1>3, <2>1, <2>2, <2>3, <2>4, <2>5, Zenon DEF DriverStep
<1>4. CASE ExecuteChunk
  <2>1. Len(execq') = Len(execq) - 1
    BY <1>4, Dequeued, Zenon DEF ExecuteChunk, TypeOK
  <2>2. exec = "idle" /\ exec' # "idle"
    BY <1>4, Zenon DEF ExecuteChunk
  <2>3. UNCHANGED <<commq, InCommitter>>
    BY <1>4, Zenon DEF ExecuteChunk, InCommitter
  <2>4. InPipeline' = InPipeline
    <3>1. InExecutor = 0 /\ InExecutor' = 1
      BY <2>2, Zenon DEF InExecutor
    <3> QED BY <1>b, <2>1, <2>3, <3>1 DEF InPipeline
  <2> QED BY <1>4, <2>4, Zenon DEF ExecuteChunk, CounterInv
<1>5. CASE NotifyCommitter \/ CommitChunk \/ CommitterReadsVersion \/ CommitterNotifies
  <2>1. /\ Len(execq') = Len(execq)
        /\ \/ UNCHANGED commq /\ (exec' = "idle" <=> exec = "idle")
                             /\ (comm'.pc = "idle" <=> comm.pc = "idle")
           \/ commq' = commq + 1 /\ exec # "idle" /\ exec' = "idle" /\ UNCHANGED comm
           \/ commq' = commq - 1 /\ comm.pc = "idle" /\ comm'.pc # "idle" /\ UNCHANGED exec
    BY <1>5 DEF NotifyCommitter, CommitChunk, SaveChunk, CommitterReadsVersion, ReadVersion,
                CommitterNotifies
  <2>2. \/ UNCHANGED <<commq, InExecutor, InCommitter>>
        \/ commq' = commq + 1 /\ InExecutor = 1 /\ InExecutor' = 0 /\ UNCHANGED InCommitter
        \/ commq' = commq - 1 /\ InCommitter = 0 /\ InCommitter' = 1 /\ UNCHANGED InExecutor
    BY <2>1, Zenon DEF InExecutor, InCommitter
  <2>3. InPipeline' = InPipeline
    <3>1. CASE UNCHANGED <<commq, InExecutor, InCommitter>>
      BY <2>1, <3>1, Zenon DEF InPipeline
    <3>2. CASE commq' = commq + 1 /\ InExecutor = 1 /\ InExecutor' = 0 /\ UNCHANGED InCommitter
      BY <1>b, <2>1, <3>2 DEF InPipeline
    <3>3. CASE commq' = commq - 1 /\ InCommitter = 0 /\ InCommitter' = 1 /\ UNCHANGED InExecutor
      BY <1>b, <2>1, <3>3 DEF InPipeline
    <3> QED BY <2>2, <3>1, <3>2, <3>3, Zenon
  <2> QED BY <1>5, <2>3, Zenon DEF NotifyCommitter, CommitChunk, CommitterReadsVersion,
             CommitterNotifies, CounterInv
<1>6. CASE ExecutorDecrements \/ CommitterDecrements
  <2>1. /\ Len(execq') = Len(execq) /\ UNCHANGED commq
        /\ \/ exec # "idle" /\ exec' = "idle" /\ UNCHANGED comm
           \/ comm.pc # "idle" /\ comm'.pc = "idle" /\ UNCHANGED exec
    BY <1>6 DEF ExecutorDecrements, CommitterDecrements
  <2>2. InPipeline' = InPipeline - 1
    <3>1. \/ InExecutor = 1 /\ InExecutor' = 0 /\ UNCHANGED InCommitter
          \/ InCommitter = 1 /\ InCommitter' = 0 /\ UNCHANGED InExecutor
      BY <2>1, Zenon DEF InExecutor, InCommitter
    <3>2. CASE InExecutor = 1 /\ InExecutor' = 0 /\ UNCHANGED InCommitter
      BY <1>b, <2>1, <3>2 DEF InPipeline
    <3>3. CASE InCommitter = 1 /\ InCommitter' = 0 /\ UNCHANGED InExecutor
      BY <1>b, <2>1, <3>3 DEF InPipeline
    <3> QED BY <3>1, <3>2, <3>3, Zenon
  <2>3. pending' = (pending - 1) % CounterModulus /\ driver' = driver /\ pending \in Nat
    BY <1>6 DEF ExecutorDecrements, CommitterDecrements, Decrement, TypeOK
  <2>4. CASE pending = 0
    <3>1. pending' = CounterModulus - 1
      BY <1>0, <2>3, <2>4, Wraps, Zenon
    <3> QED BY <1>0, <2>2, <2>3, <2>4, <3>1 DEF CounterInv
  <2>5. CASE pending # 0
    <3>1. pending - 1 \in 0..(CounterModulus - 1)
      BY <1>0, <2>3, <2>5 DEF TypeOK
    <3>2. pending' = pending - 1
      BY <1>0, <2>3, <3>1, Wraps, Zenon
    <3> QED BY <1>0, <2>2, <2>3, <2>5, <3>2 DEF CounterInv
  <2> QED BY <2>4, <2>5, Zenon
<1> QED BY <1>2, <1>3, <1>4, <1>5, <1>6, Zenon DEF Next, ExecutorStep, CommitterStep

(***************************************************************************)
(* Requests of consensus.                                                  *)
(***************************************************************************)
LEMMA RequestStep ==
    ASSUME IInv, [Next]_vars
    PROVE  RequestInv'
<1> USE DEF IInv
<1>1. ASSUME UNCHANGED <<setup, con, request, inbox>> PROVE RequestInv'
  BY <1>1, Zenon DEF RequestInv
<1>2. ASSUME NEW v \in Versions, NEW purpose \in {"block", "epoch"}, SyncTo(v, purpose)
      PROVE  RequestInv'
  <2> DEFINE m == [type |-> "sync", target |-> v]
  <2>1. /\ setup'.validator /\ con'.pc = "syncing" /\ con'.target = v
        /\ con.pc = "running" /\ inbox' = Append(inbox, m) /\ UNCHANGED request
    BY <1>2, Zenon DEF SyncTo, TypeOK, ConsensusStates
  <2>2. request = None /\ \A i \in DOMAIN inbox : inbox[i].type # "sync"
    BY <2>1, Zenon DEF RequestInv
  <2>3. /\ Len(inbox) \in Nat /\ DOMAIN inbox = 1..Len(inbox)
        /\ DOMAIN inbox' = 1..(Len(inbox) + 1)
        /\ \A i \in 1..Len(inbox) : inbox'[i] = inbox[i]
        /\ inbox'[Len(inbox) + 1] = m
    <3>1. m \in Notifications
      BY Zenon DEF Notifications
    <3> QED BY <2>1, <3>1, Appended DEF TypeOK
  <2>4. \A i \in DOMAIN inbox' : inbox'[i].type = "sync" => i = Len(inbox) + 1
    BY <2>2, <2>3
  <2> QED BY <2>1, <2>2, <2>3, <2>4 DEF RequestInv
<1>3. CASE NotifyCommit
  <2> DEFINE m == [type |-> "commit", reconfig |-> Head(asyncq)]
  <2>1. inbox' = Append(inbox, m) /\ UNCHANGED <<setup, con, request>>
    BY <1>3, Zenon DEF NotifyCommit
  <2>2. /\ Len(inbox) \in Nat /\ DOMAIN inbox = 1..Len(inbox)
        /\ DOMAIN inbox' = 1..(Len(inbox) + 1)
        /\ \A i \in 1..Len(inbox) : inbox'[i] = inbox[i]
        /\ inbox'[Len(inbox) + 1] = m
    <3>1. m \in Notifications
      BY <1>3, Dequeued, Zenon DEF NotifyCommit, Notifications, TypeOK
    <3> QED BY <2>1, <3>1, Appended DEF TypeOK
  <2>3. \A i \in DOMAIN inbox' : inbox'[i].type = "sync" => i \in DOMAIN inbox /\ inbox'[i] = inbox[i]
    BY <2>2
  <2> QED BY <2>1, <2>3 DEF RequestInv
<1>4. CASE SyncReturns \/ StartNewEpoch
  <2>1. con.pc \notin {"running", "syncing"} /\ con'.pc # "syncing" /\ UNCHANGED <<setup, request, inbox>>
    BY <1>4, Zenon DEF SyncReturns, StartNewEpoch, TypeOK, ConsensusStates
  <2> QED BY <2>1, Zenon DEF RequestInv
<1>5. CASE HandleSync \/ HandleCommit
  <2>1. inbox # <<>> /\ inbox' = Tail(inbox)
    BY <1>5, Zenon DEF HandleSync, HandleCommit
  <2>2. /\ Len(inbox) \in Nat \ {0} /\ DOMAIN inbox = 1..Len(inbox) /\ Head(inbox) = inbox[1]
        /\ DOMAIN inbox' = 1..(Len(inbox) - 1)
        /\ \A i \in 1..(Len(inbox) - 1) : inbox'[i] = inbox[i + 1]
    BY <2>1, Dequeued, Zenon DEF TypeOK
  <2>3. \A i \in DOMAIN inbox' : i + 1 \in DOMAIN inbox /\ inbox'[i] = inbox[i + 1] /\ i + 1 # 1
    BY <2>2
  <2>4. CASE HandleCommit
    <3>1. UNCHANGED <<setup, con, request>>
      BY <2>4, Zenon DEF HandleCommit, consensusVars
    <3>2. \A i, j \in DOMAIN inbox' : i + 1 = j + 1 => i = j
      BY <2>2
    <3> QED BY <2>3, <3>1, <3>2 DEF RequestInv
  <2>5. CASE HandleSync
    <3>1. inbox[1].type = "sync" /\ 1 \in DOMAIN inbox
      BY <2>2, <2>5 DEF HandleSync
    <3>2. con.pc = "syncing" /\ con.target = inbox[1].target /\ request = None
      BY <3>1, Zenon DEF RequestInv
    <3>3. \A i \in DOMAIN inbox' : inbox'[i].type # "sync"
      BY <2>3, <3>1, Zenon DEF RequestInv
    <3>4. /\ UNCHANGED setup
          /\ \/ request' = inbox[1].target /\ UNCHANGED con
             \/ request' = request
      BY <2>2, <2>5, Zenon DEF HandleSync
    <3>5. setup.validator
      BY <3>2, Zenon DEF RequestInv
    <3> QED BY <3>2, <3>3, <3>4, <3>5, Zenon DEF RequestInv
  <2> QED BY <1>5, <2>4, <2>5, Zenon
<1>6. CASE Drained
  <2>1. CASE request # None /\ ledger.li = request
    <3>1. request' = None /\ con'.pc # "running" /\ UNCHANGED <<setup, inbox>>
      BY <1>6, <2>1, Zenon DEF Drained, Answer, TypeOK, ConsensusStates
    <3>2. con.pc = "syncing" /\ setup.validator /\ \A i \in DOMAIN inbox : inbox[i].type # "sync"
      BY <2>1, Zenon DEF RequestInv
    <3> QED BY <3>1, <3>2, Zenon DEF RequestInv
  <2>2. CASE ~(request # None /\ ledger.li = request)
    BY <1>1, <1>6, <2>2, Zenon DEF Drained
  <2> QED BY <2>1, <2>2, Zenon
<1>7. CASE ExecutorStep \/ CommitterStep \/ UNCHANGED vars
  BY <1>1, <1>7, Zenon DEF ExecutorStep, ExecuteChunk, NotifyCommitter, ExecutorDecrements,
     CommitterStep,
     CommitChunk, CommitterReadsVersion, CommitterNotifies, CommitterDecrements, consensusVars, vars
<1>8. CASE \/ DriveProgress \/ FinishChunkExecutor \/ HandleError \/ DriverReadsVersion
           \/ DriverNotifies \/ SendChunk \/ IncrementPending \/ EndOfStream \/ StreamTimeout
           \/ \E p \in Chunks : ProcessPayload(p)
  BY <1>1, <1>8, Zenon DEF DriveProgress, FinishChunkExecutor, HandleError, DriverReadsVersion,
     DriverNotifies,
     SendChunk, IncrementPending, EndOfStream, StreamTimeout, ProcessPayload, consensusVars
<1>9. ASSUME NEW v \in Versions, ConsensusCommit(v) PROVE RequestInv'
  BY <1>1, <1>9, Zenon DEF ConsensusCommit
<1> QED BY <1>2, <1>3, <1>4, <1>5, <1>6, <1>7, <1>8, <1>9, Zenon
           DEF Next, DriverStep, ConsensusStep

(***************************************************************************)
(* The pipeline as the other conjuncts see it.                             *)
(***************************************************************************)

(* What an empty pipeline rules out. *)
LEMMA EmptyPipeline ==
    ASSUME TypeOK, TypeOK', InPipeline = 0
    PROVE  ~ExecutorStep /\ ~CommitterStep
BY PipelineBound DEF ExecutorStep, ExecuteChunk, NotifyCommitter, ExecutorDecrements,
   CommitterStep,
   CommitChunk, CommitterReadsVersion, CommitterNotifies, CommitterDecrements

(* Everyone but the executor, the committer and SendChunk leaves the       *)
(* pipeline alone.                                                         *)
LEMMA PipelineUnchanged ==
    ASSUME UNCHANGED <<execq, exec, commq, comm>>
    PROVE  UNCHANGED InPipeline
BY Zenon DEF InPipeline, InExecutor, InCommitter

(* What consensus leaves alone. *)
LEMMA ConsensusLeaves ==
    ASSUME ConsensusStep
    PROVE  UNCHANGED <<setup, driver, request, stream, fallback, errors, pipelineVars>>
BY Zenon DEF ConsensusStep, ConsensusCommit, NotifyCommit, SyncTo, SyncReturns, StartNewEpoch

(* What the executor and the committer leave alone. *)
LEMMA PipelineLeaves ==
    ASSUME ExecutorStep \/ CommitterStep
    PROVE  UNCHANGED <<setup, driver, request, stream, consensusVars, inbox>>
BY Zenon DEF ExecutorStep, ExecuteChunk, NotifyCommitter, ExecutorDecrements, CommitterStep,
   CommitChunk, SaveChunk, CommitterReadsVersion, CommitterNotifies, CommitterDecrements

(***************************************************************************)
(* State sync at rest.                                                     *)
(***************************************************************************)
LEMMA RestStep ==
    ASSUME IInv, [Next]_vars
    PROVE  RestInv'
<1> USE DEF IInv
<1>a. TypeOK /\ TypeOK'
  BY TypeStep, Zenon
<1>b. driver.pc # "increment" /\ pending = 0 => InPipeline = 0
  BY Zenon DEF CounterInv
<1>1. CASE UNCHANGED vars
  BY <1>1, PipelineUnchanged, Zenon DEF vars, RestInv
<1>2. CASE ConsensusStep
  <2>1. UNCHANGED <<setup, driver, request, stream, inner, InPipeline>>
    BY <1>2, ConsensusLeaves, PipelineUnchanged, Zenon DEF pipelineVars
  <2>2. ledger' = ledger \/ ledger'.version = ledger'.li
    <3>1. ASSUME NEW v \in Versions, ConsensusCommit(v) PROVE ledger'.version = ledger'.li
      BY <3>1, Zenon DEF ConsensusCommit
    <3>2. CASE \/ NotifyCommit \/ SyncReturns \/ StartNewEpoch
               \/ \E v \in Versions, purpose \in {"block", "epoch"} : SyncTo(v, purpose)
      BY <3>2, Zenon DEF NotifyCommit, SyncTo, SyncReturns, StartNewEpoch
    <3> QED BY <1>2, <3>1, <3>2, Zenon DEF ConsensusStep
  <2> QED BY <2>1, <2>2, Zenon DEF RestInv
<1>3. CASE ExecutorStep \/ CommitterStep
  <2>1. InPipeline # 0
    BY <1>3, <1>a, EmptyPipeline, Zenon
  <2>2. UNCHANGED <<setup, driver, request>>
    BY <1>3, PipelineLeaves, Zenon
  <2> QED BY <2>1, <2>2, Zenon DEF RestInv
<1>4. CASE DriveProgress
  <2>1. UNCHANGED <<setup, request, ledger, InPipeline>> /\ driver.pc = "select"
    BY <1>4, PipelineUnchanged, Zenon DEF DriveProgress
  <2>2. CASE AtTarget
    BY <1>4, <2>1, <2>2 DEF DriveProgress, AtTarget, RestInv
  <2>3. CASE ~AtTarget
    <3>1. DriveSyncer /\ driver'.pc \notin {"drain", "finish"}
      BY <1>4, <2>3, DriveSyncerCases DEF DriveProgress, Idle
    <3>2. CASE setup.validator /\ request = None
      BY <2>1, <3>1, <3>2 DEF DriveSyncer, RestInv, Idle
    <3> QED BY <2>1, <3>1, <3>2, Zenon DEF RestInv
  <2> QED BY <2>2, <2>3, Zenon
<1>5. CASE Drained
  <2>1. UNCHANGED <<setup, ledger, InPipeline>> /\ driver.pc = "drain" /\ request # None /\ InPipeline = 0
    BY <1>5, <1>b, PipelineUnchanged, Zenon DEF Drained, RestInv
  <2>2. CASE ledger.li = request
    <3>1. driver'.pc = "finish" /\ request' = None
      BY <1>5, <2>1, <2>2 DEF Drained
    <3>2. ledger.version = ledger.li
      BY <2>1, <2>2, StateSyncAssumption DEF ViewInv, TargetInv, TypeOK, Versions
    <3> QED BY <2>1, <3>1, <3>2, Zenon DEF RestInv
  <2>3. CASE ledger.li # request
    <3>1. request' = request /\ driver'.pc \notin {"drain", "finish"}
      BY <1>5, <2>3, DriveSyncerCases DEF Drained, Idle
    <3> QED BY <2>1, <3>1, Zenon DEF RestInv
  <2> QED BY <2>2, <2>3, Zenon
<1>6. CASE FinishChunkExecutor
  <2>1. UNCHANGED <<setup, request, ledger, InPipeline>> /\ driver.pc = "finish"
        /\ driver'.pc = "select" /\ stream' = None /\ inner' = None
    BY <1>6, PipelineUnchanged, Zenon DEF FinishChunkExecutor, ResetStream, Idle
  <2> QED BY <2>1, Zenon DEF RestInv
<1>7. CASE HandleSync
  <2>1. UNCHANGED <<setup, ledger, driver, stream, inner, InPipeline>> /\ driver.pc = "select"
    BY <1>7, PipelineUnchanged, Zenon DEF HandleSync, pipelineVars
  <2>2. request' = None => request = None
    <3>1. Head(inbox) \in Notifications /\ Head(inbox).type = "sync"
      BY <1>7, Dequeued, Zenon DEF HandleSync, TypeOK
    <3>2. Head(inbox).target # None
      BY <3>1, NoneAssumption, Zenon DEF Notifications
    <3> QED BY <1>7, <3>2, Zenon DEF HandleSync
  <2> QED BY <2>1, <2>2, Zenon DEF RestInv
<1>8. CASE DriverNotifies
  <2>1. UNCHANGED <<setup, ledger, request, stream, inner, InPipeline>> /\ driver.pc = "notify"
    BY <1>8, PipelineUnchanged, Zenon DEF DriverNotifies, pipelineVars
  <2>2. driver'.pc = "select" \/ (driver'.pc = "drain" /\ request # None)
    BY <1>8, Zenon DEF DriverNotifies, AtTarget, Idle
  <2> QED BY <2>1, <2>2, Zenon DEF RestInv
<1>9. CASE HandleCommit \/ DriverReadsVersion \/ HandleError
  <2>1. UNCHANGED <<setup, ledger, request, inner, InPipeline>> /\ stream' \in {stream, None}
    BY <1>9, PipelineUnchanged, Zenon DEF HandleCommit, DriverReadsVersion, HandleError,
       ResetStream, pipelineVars
  <2>2. driver'.pc \in {"select", "read", "notify"} /\ driver.pc # "finish"
    BY <1>9 DEF HandleCommit, DriverReadsVersion, HandleError, ReadVersion
  <2> QED BY <2>1, <2>2, Zenon DEF RestInv
<1>10. CASE SendChunk \/ IncrementPending \/ EndOfStream \/ StreamTimeout \/ \E p \in Chunks : ProcessPayload(p)
  <2>1. UNCHANGED <<setup, request>> /\ driver.pc \in {"fetch", "send", "increment"}
    BY <1>10, Zenon DEF SendChunk, IncrementPending, EndOfStream, StreamTimeout, ProcessPayload
  <2>2. driver'.pc \notin {"drain", "finish"}
    BY <1>10 DEF SendChunk, IncrementPending, NextLeft, EndOfStream, StreamTimeout,
       ProcessPayload, Idle,
                 TypeOK, DriverStates, NotifyStates
  <2> QED BY <2>1, <2>2, Zenon DEF RestInv
<1> QED BY <1>1, <1>2, <1>3, <1>4, <1>5, <1>6, <1>7, <1>8, <1>9, <1>10, Zenon
           DEF Next, DriverStep

(***************************************************************************)
(* The chunk executor's cache.                                             *)
(***************************************************************************)
LEMMA CacheStep ==
    ASSUME IInv, [Next]_vars
    PROVE  CacheInv'
<1> USE DEF IInv
<1>a. TypeOK /\ TypeOK'
  BY TypeStep, Zenon
<1>b. InPipeline \in Nat /\ InPipeline' \in Nat
  BY <1>a, PipelineBound, Zenon
<1>1. CASE UNCHANGED vars \/ ConsensusStep
  <2>1. UNCHANGED <<driver, stream, inner, InPipeline>>
    BY <1>1, ConsensusLeaves, PipelineUnchanged, Zenon DEF vars, pipelineVars
  <2> QED BY <2>1, Zenon DEF CacheInv
<1>2. CASE ExecutorStep \/ CommitterStep
  <2>1. InPipeline > 0 /\ UNCHANGED <<driver, stream>>
    BY <1>2, <1>a, <1>b, EmptyPipeline, PipelineLeaves
  <2>2. inner # None
    BY <2>1, Zenon DEF CacheInv
  <2>3. inner' # None
    <3>1. CASE ExecuteChunk
      BY <3>1, CacheExecuted, NoneAssumption, Zenon
    <3>2. CASE CommitChunk
      BY <2>2, <3>2, CacheSaved, NoneAssumption, Zenon DEF CommitChunk
    <3>3. CASE UNCHANGED inner
      BY <2>2, <3>3, Zenon
    <3> QED BY <1>2, <3>1, <3>2, <3>3, Zenon
               DEF ExecutorStep, NotifyCommitter, ExecutorDecrements,
               CommitterStep, CommitterReadsVersion, CommitterNotifies, CommitterDecrements
  <2> QED BY <2>1, <2>3, Zenon DEF CacheInv
<1>3. CASE DriveProgress \/ Drained
  <2>1. UNCHANGED InPipeline
    BY <1>3, PipelineUnchanged, Zenon DEF DriveProgress, Drained
  <2>2. CASE UNCHANGED <<stream, inner>> /\ (driver'.pc = "fetch" => stream # None)
             /\ driver'.pc \notin {"send", "increment"}
    BY <2>1, <2>2, Zenon DEF CacheInv
  <2>3. ASSUME DriveSyncer PROVE CacheInv'
    <3>1. CASE inner' = [view |-> ledger.version, chunks |-> <<>>] /\ driver'.pc = "select"
      <4>1. inner' \in Caches
        BY <3>1, EmptySeq, Zenon DEF TypeOK, Caches
      <4> QED BY <3>1, <4>1, NoneAssumption, Zenon DEF CacheInv
    <3> QED BY <2>2, <2>3, <3>1, DriveSyncerCases DEF Idle
  <2> QED BY <1>3, <2>2, <2>3 DEF DriveProgress, Drained, Idle
<1>4. CASE FinishChunkExecutor
  <2>1. InPipeline' = 0
    BY <1>4, PipelineUnchanged, Zenon DEF FinishChunkExecutor, RestInv
  <2> QED BY <1>4, <2>1 DEF FinishChunkExecutor, ResetStream, Idle, CacheInv
<1>5. CASE HandleSync \/ HandleCommit \/ HandleError \/ DriverReadsVersion \/ DriverNotifies
           \/ EndOfStream
  <2>1. UNCHANGED <<inner, InPipeline>> /\ stream' \in {stream, None}
    BY <1>5, PipelineUnchanged, Zenon DEF HandleSync, HandleCommit, HandleError,
       DriverReadsVersion,
       DriverNotifies, EndOfStream, ResetStream, pipelineVars
  <2>2. driver'.pc \notin {"fetch", "send", "increment"}
    BY <1>5 DEF HandleSync, HandleCommit, HandleError, DriverReadsVersion, ReadVersion,
       DriverNotifies, EndOfStream, Idle
  <2> QED BY <2>1, <2>2, Zenon DEF CacheInv
<1>6. CASE SendChunk \/ IncrementPending
  <2>1. stream # None /\ inner # None
    BY <1>6, Zenon DEF SendChunk, IncrementPending, CacheInv
  <2>2. inner' = inner
    BY <1>6, Zenon DEF SendChunk, IncrementPending
  <2>3. stream' # None
    <3>1. CASE SendChunk
      BY <2>1, <3>1, Zenon DEF SendChunk
    <3>2. CASE IncrementPending
      BY <3>2, StreamCounted, NoneAssumption, Zenon
    <3> QED BY <1>6, <3>1, <3>2, Zenon
  <2> QED BY <2>1, <2>2, <2>3, Zenon DEF CacheInv
<1>7. CASE StreamTimeout \/ \E p \in Chunks : ProcessPayload(p)
  <2>1. stream # None /\ inner # None /\ UNCHANGED inner
    BY <1>7, Zenon DEF StreamTimeout, ProcessPayload, CacheInv, pipelineVars
  <2>2. driver'.pc \in {"fetch", "send", "increment"} => stream' # None
    <3>1. CASE StreamTimeout
      BY <3>1, Zenon DEF StreamTimeout, Idle
    <3>2. ASSUME NEW p \in Chunks, ProcessPayload(p), Verified(p) PROVE stream' # None
      BY <3>2, StreamReceives, NoneAssumption, Zenon
    <3>3. ASSUME NEW p \in Chunks, ProcessPayload(p), ~Verified(p) PROVE driver'.pc = "select"
      BY <3>3 DEF ProcessPayload, Idle
    <3> QED BY <1>7, <3>1, <3>2, <3>3, Zenon
  <2> QED BY <2>1, <2>2, Zenon DEF CacheInv
<1> QED BY <1>1, <1>2, <1>3, <1>4, <1>5, <1>6, <1>7, Zenon DEF Next, DriverStep

(***************************************************************************)
(* The view of the cache.                                                  *)
(***************************************************************************)

(* Executing a chunk appends one that extends the latest view. *)
LEMMA ExecuteExtends ==
    ASSUME TypeOK, inner # None, Extending(inner.view, inner.chunks),
           NEW c \in Chunks, Executes(c)
    PROVE  Extending(inner.view, Append(inner.chunks, ExecutedChunk(c)))
<1> DEFINE q == inner.chunks
           e == ExecutedChunk(c)
           r == Append(q, e)
<1>1. q \in Seq(Executed) /\ e \in Executed
  BY Zenon DEF TypeOK, Caches, ExecutedChunk, Executed, Chunks
<1>2. /\ Len(q) \in Nat /\ DOMAIN q = 1..Len(q) /\ DOMAIN r = 1..(Len(q) + 1)
      /\ \A i \in 1..Len(q) : r[i] = q[i]
      /\ r[Len(q) + 1] = e
  BY <1>1, Appended
<1>3. e.last = c.last /\ e.li \in {e.last, None} /\ c.last > LatestView
  BY Zenon DEF ExecutedChunk, Executes
<1>4. ASSUME NEW i \in DOMAIN r
      PROVE  /\ r[i].last > (IF i = 1 THEN inner.view ELSE r[i - 1].last)
             /\ r[i].li \in {r[i].last, None}
  <2>1. CASE i \in 1..Len(q)
    <3>1. r[i] = q[i] /\ (i # 1 => r[i - 1] = q[i - 1])
      BY <1>2, <2>1
    <3> QED BY <1>2, <2>1, <3>1, Zenon DEF Extending
  <2>2. CASE i = Len(q) + 1
    <3>1. CASE q = <<>>
      BY <1>2, <1>3, <2>2, <3>1 DEF LatestView
    <3>2. CASE q # <<>>
      <4>1. Len(q) # 0
        BY <1>1, <3>2, EmptySeq, Zenon
      <4>2. i # 1 /\ r[i - 1] = q[Len(q)]
        BY <1>2, <2>2, <4>1
      <4> QED BY <1>2, <1>3, <2>2, <3>2, <4>2, Zenon DEF LatestView
    <3> QED BY <3>1, <3>2, Zenon
  <2> QED BY <1>2, <2>1, <2>2
<1> QED BY <1>4, Zenon DEF Extending

(* Saving the first chunk makes it the view of the others. *)
LEMMA SaveExtends ==
    ASSUME NEW q \in Seq(Executed), q # <<>>, NEW view \in Versions, Extending(view, q)
    PROVE  /\ Extending(Head(q).last, Tail(q))
           /\ Head(q).last > view /\ Head(q).li \in {Head(q).last, None}
<1>1. /\ Head(q) = q[1] /\ Len(q) \in Nat \ {0}
      /\ DOMAIN q = 1..Len(q) /\ DOMAIN Tail(q) = 1..(Len(q) - 1)
      /\ \A i \in 1..(Len(q) - 1) : Tail(q)[i] = q[i + 1]
  BY Dequeued, Zenon
<1>2. Head(q).last > view /\ Head(q).li \in {Head(q).last, None}
  <2>1. 1 \in DOMAIN q
    BY <1>1
  <2> QED BY <1>1, <2>1, Zenon DEF Extending
<1>3. ASSUME NEW i \in DOMAIN Tail(q)
      PROVE  /\ Tail(q)[i].last > (IF i = 1 THEN Head(q).last ELSE Tail(q)[i - 1].last)
             /\ Tail(q)[i].li \in {Tail(q)[i].last, None}
  <2>1. i + 1 \in DOMAIN q /\ i + 1 # 1 /\ (i + 1) - 1 = i /\ Tail(q)[i] = q[i + 1]
    BY <1>1
  <2>2. q[i + 1].last > q[i].last /\ q[i + 1].li \in {q[i + 1].last, None}
    BY <2>1, Zenon DEF Extending
  <2>3. q[i] = IF i = 1 THEN Head(q) ELSE Tail(q)[i - 1]
    BY <1>1
  <2> QED BY <2>1, <2>2, <2>3, Zenon
<1> QED BY <1>2, <1>3, Zenon DEF Extending

\* What the driver and consensus believe of each other follows every step.
LEMMA ViewStep ==
    ASSUME IInv, [Next]_vars
    PROVE  ViewInv'
<1> USE DEF IInv
<1>a. TypeOK /\ TypeOK'
  BY TypeStep, Zenon
<1>1. CASE UNCHANGED <<ledger, inner>> /\ (driver.pc = "finish" => driver'.pc = "finish")
  BY <1>1, Zenon DEF ViewInv
<1>2. ASSUME NEW v \in Versions, ConsensusCommit(v) PROVE ViewInv'
  <2>1. ledger' = [version |-> v, li |-> v] /\ UNCHANGED <<inner, driver>>
    BY <1>2, Zenon DEF ConsensusCommit, pipelineVars
  <2>2. driver.pc # "finish" => inner = None
    BY <1>2, Zenon DEF ConsensusCommit, RequestInv, RestInv
  <2> QED BY <2>1, <2>2, StateSyncAssumption DEF ViewInv, Versions
<1>3. CASE ConsensusStep \/ UNCHANGED vars
  <2>1. ASSUME ~\E v \in Versions : ConsensusCommit(v) PROVE UNCHANGED <<ledger, inner, driver>>
    BY <1>3, <2>1, Zenon DEF ConsensusStep, NotifyCommit, SyncTo, SyncReturns, StartNewEpoch,
       pipelineVars, vars
  <2> QED BY <1>1, <1>2, <2>1, Zenon
<1>4. CASE DriveProgress \/ Drained
  <2>1. UNCHANGED ledger /\ driver.pc # "finish"
    BY <1>4, Zenon DEF DriveProgress, Drained
  <2>2. \/ UNCHANGED inner
        \/ inner' = [view |-> ledger.version, chunks |-> <<>>]
    BY <1>4, Zenon DEF DriveProgress, Drained, DriveSyncer, InitializeStream
  <2>3. Extending(ledger.version, <<>>)
    BY DEF Extending
  <2> QED BY <1>1, <2>1, <2>2, <2>3 DEF ViewInv
<1>5. CASE FinishChunkExecutor
  BY <1>5, Zenon DEF FinishChunkExecutor, ViewInv
<1>6. CASE \/ HandleSync \/ HandleCommit \/ HandleError \/ DriverReadsVersion \/ DriverNotifies
           \/ SendChunk \/ IncrementPending \/ EndOfStream \/ StreamTimeout
           \/ \E p \in Chunks : ProcessPayload(p)
  <2>1. UNCHANGED <<ledger, inner>> /\ driver.pc # "finish"
    BY <1>6, Zenon DEF HandleSync, HandleCommit, HandleError, DriverReadsVersion,
       DriverNotifies, SendChunk,
       IncrementPending, EndOfStream, StreamTimeout, ProcessPayload, pipelineVars
  <2> QED BY <1>1, <2>1, Zenon
<1>7. CASE ExecutorStep \/ CommitterStep
  <2>1. UNCHANGED driver /\ driver.pc # "finish" /\ inner # None
    <3>1. InPipeline # 0 /\ InPipeline \in Nat
      BY <1>7, <1>a, EmptyPipeline, PipelineBound, Zenon
    <3>2. driver.pc # "finish" /\ inner # None
      BY <3>1 DEF RestInv, CacheInv
    <3> QED BY <1>7, <3>2, PipelineLeaves, Zenon
  <2>2. CASE ExecuteChunk
    <3>1. Head(execq) \in Chunks
      BY <2>2, Dequeued, Zenon DEF ExecuteChunk, TypeOK
    <3>2. UNCHANGED ledger
      BY <2>2, Zenon DEF ExecuteChunk
    <3>3. CASE UNCHANGED inner
      BY <1>1, <2>1, <3>2, <3>3, Zenon
    <3>4. CASE inner' # inner
      <4>1. /\ Executes(Head(execq))
            /\ inner' = [inner EXCEPT !.chunks = Append(@, ExecutedChunk(Head(execq)))]
        BY <2>1, <2>2, <3>4, Zenon DEF ExecuteChunk
      <4>2. inner'.view = inner.view /\ inner'.chunks = Append(inner.chunks, ExecutedChunk(Head(execq)))
        BY <2>1, <4>1, Zenon DEF TypeOK, Caches
      <4>3. Extending(inner'.view, inner'.chunks)
        BY <2>1, <3>1, <4>1, <4>2, ExecuteExtends, Zenon DEF ViewInv
      <4> QED BY <2>1, <3>2, <4>2, <4>3, Zenon DEF ViewInv
    <3> QED BY <3>3, <3>4, Zenon
  <2>3. CASE CommitChunk
    <3>1. CASE UNCHANGED <<ledger, inner>>
      BY <1>1, <2>1, <3>1, Zenon
    <3>2. CASE inner.chunks # <<>> /\ SaveChunk
      <4> DEFINE c == Head(inner.chunks)
      <4>1. inner.chunks \in Seq(Executed) /\ inner.view \in Versions
        BY <2>1, Zenon DEF TypeOK, Caches
      <4>2. Extending(c.last, Tail(inner.chunks)) /\ c.last > inner.view /\ c.li \in {c.last, None}
        BY <2>1, <3>2, <4>1, SaveExtends, Zenon DEF ViewInv
      <4>3. /\ ledger'.version = c.last /\ ledger'.li \in {ledger.li, c.last}
            /\ inner'.view = c.last /\ inner'.chunks = Tail(inner.chunks)
        BY <3>2, <4>2, Zenon DEF SaveChunk
      <4>4. ledger'.li <= ledger'.version
        <5>1. c \in Executed
          BY <3>2, <4>1, Dequeued, Zenon
        <5>2. inner.view \in Int /\ c.last \in Int
          BY <4>1, <5>1, VersionsAreInts, Zenon DEF Executed
        <5>3. ledger.li \in Int
          BY VersionsAreInts, Zenon DEF TypeOK
        <5>4. ledger.li <= inner.view
          BY <2>1, Zenon DEF ViewInv
        <5> QED BY <4>2, <4>3, <5>2, <5>3, <5>4
      <4> QED BY <4>2, <4>3, <4>4, Zenon DEF ViewInv
    <3> QED BY <2>3, <3>1, <3>2, Zenon DEF CommitChunk
  <2>4. CASE UNCHANGED <<ledger, inner>>
    BY <1>1, <2>1, <2>4, Zenon
  <2> QED BY <1>7, <2>2, <2>3, <2>4, Zenon
             DEF ExecutorStep, NotifyCommitter, ExecutorDecrements,
             CommitterStep, CommitterReadsVersion, CommitterNotifies, CommitterDecrements
<1> QED BY <1>3, <1>4, <1>5, <1>6, <1>7, Zenon DEF Next, DriverStep

(***************************************************************************)
(* The target.                                                             *)
(***************************************************************************)
LEMMA TargetStep ==
    ASSUME IInv, [Next]_vars
    PROVE  TargetInv'
<1> USE DEF IInv
<1>a. TypeOK /\ TypeOK'
  BY TypeStep, Zenon
<1>1. CASE UNCHANGED <<ledger, request, execq, inner>> /\ driver'.pc \notin {"send", "increment"}
  BY <1>1, Zenon DEF TargetInv
<1>2. CASE ConsensusStep \/ UNCHANGED vars
  <2>1. UNCHANGED <<request, driver, execq, inner>>
    BY <1>2, ConsensusLeaves, Zenon DEF vars, pipelineVars
  <2>2. ASSUME NEW v \in Versions, ConsensusCommit(v) PROVE request = None
    BY <2>2, Zenon DEF ConsensusCommit, RequestInv
  <2>3. ASSUME ~\E v \in Versions : ConsensusCommit(v) PROVE UNCHANGED ledger
    BY <1>2, <2>3, Zenon DEF ConsensusStep, NotifyCommit, SyncTo, SyncReturns, StartNewEpoch,
       vars
  <2> QED BY <2>1, <2>2, <2>3, Zenon DEF TargetInv
<1>3. CASE DriveProgress \/ Drained
  <2>1. /\ UNCHANGED <<ledger, execq>> /\ request' \in {request, None}
        /\ driver'.pc \notin {"send", "increment"}
    BY <1>3, DriveSyncerCases DEF DriveProgress, Drained, Idle
  <2>2. \/ UNCHANGED inner
        \/ inner' = [view |-> ledger.version, chunks |-> <<>>]
    BY <1>3, Zenon DEF DriveProgress, Drained, DriveSyncer, InitializeStream
  <2>3. DOMAIN <<>> = {}
    OBVIOUS
  <2> QED BY <2>1, <2>2, <2>3 DEF TargetInv
<1>4. CASE FinishChunkExecutor
  BY <1>4, Zenon DEF FinishChunkExecutor, Idle, TargetInv
<1>5. CASE HandleSync
  <2>1. UNCHANGED <<ledger, execq, inner, driver>> /\ driver.pc = "select"
    BY <1>5, Zenon DEF HandleSync, pipelineVars
  <2>2. CASE UNCHANGED request
    BY <1>1, <2>1, <2>2, Zenon
  <2>3. CASE request' # request
    <3>1. Head(inbox).type = "sync" /\ Head(inbox) = inbox[1] /\ 1 \in DOMAIN inbox
      BY <1>5, Dequeued DEF HandleSync, TypeOK
    <3>2. setup.validator /\ request = None
      BY <3>1, Zenon DEF RequestInv
    <3>3. ledger.version = ledger.li /\ inner = None /\ InPipeline = 0
      BY <2>1, <3>2, Zenon DEF RestInv
    <3>4. request' > ledger.li
      BY <1>5, <2>3, Zenon DEF HandleSync
    <3>5. execq = <<>>
      BY <1>a, <3>3, PipelineBound, Zenon
    <3>6. ledger.version <= request'
      <4>1. Head(inbox) \in Notifications
        BY <1>5, Dequeued, Zenon DEF HandleSync, TypeOK
      <4>2. request' \in Versions
        BY <1>5, <2>3, <4>1, Zenon DEF HandleSync, Notifications
      <4> QED BY <3>3, <3>4, <4>2, StateSyncAssumption DEF TypeOK, Versions
    <3> QED BY <2>1, <3>3, <3>5, <3>6 DEF TargetInv
  <2> QED BY <2>2, <2>3, Zenon
<1>6. CASE HandleCommit \/ HandleError \/ DriverReadsVersion \/ DriverNotifies \/ EndOfStream \/ StreamTimeout
  <2>1. UNCHANGED <<ledger, request, execq, inner>>
    BY <1>6, Zenon DEF HandleCommit, HandleError, DriverReadsVersion, DriverNotifies,
       EndOfStream,
       StreamTimeout, pipelineVars
  <2>2. driver'.pc \notin {"send", "increment"}
    BY <1>6 DEF HandleCommit, HandleError, DriverReadsVersion, ReadVersion, DriverNotifies,
       EndOfStream, StreamTimeout, Idle
  <2> QED BY <1>1, <2>1, <2>2, Zenon
<1>7. ASSUME NEW p \in Chunks, ProcessPayload(p) PROVE TargetInv'
  <2>1. UNCHANGED <<ledger, request, execq, inner>>
    BY <1>7, Zenon DEF ProcessPayload, pipelineVars
  <2>2. \/ driver'.pc = "select"
        \/ driver'.chunk = p /\ (request = None \/ p.li <= request)
    BY <1>7 DEF ProcessPayload, Verified, Idle
  <2> QED BY <2>1, <2>2, Zenon DEF TargetInv
<1>8. CASE SendChunk
  <2>1. UNCHANGED <<ledger, request, inner>> /\ driver.pc = "send"
    BY <1>8, Zenon DEF SendChunk
  <2>2. driver.chunk \in Chunks /\ driver'.chunk = driver.chunk
    BY <1>8, Zenon DEF SendChunk, TypeOK, DriverStates, NotifyStates
  <2>3. /\ DOMAIN execq' = 1..(Len(execq) + 1) /\ Len(execq) \in Nat
        /\ \A i \in 1..Len(execq) : execq'[i] = execq[i]
        /\ execq'[Len(execq) + 1] = driver.chunk
        /\ DOMAIN execq = 1..Len(execq)
    BY <1>8, <2>2, Appended DEF SendChunk, TypeOK
  <2>4. \A i \in DOMAIN execq' : execq'[i] = driver.chunk \/ (i \in DOMAIN execq /\ execq'[i] = execq[i])
    BY <2>3
  <2> QED BY <2>1, <2>2, <2>4, Zenon DEF TargetInv
<1>9. CASE IncrementPending
  BY <1>1, <1>9, Zenon DEF IncrementPending, NextLeft, Idle
<1>10. CASE ExecuteChunk
  <2>1. UNCHANGED <<ledger, request, driver>> /\ inner # None
    BY <1>10, <1>a, EmptyPipeline, PipelineBound DEF ExecuteChunk, ExecutorStep, CacheInv
  <2>2. /\ Head(execq) \in Chunks /\ Head(execq) = execq[1] /\ 1 \in DOMAIN execq
        /\ \A i \in DOMAIN execq' : i + 1 \in DOMAIN execq /\ execq'[i] = execq[i + 1]
    BY <1>10, Dequeued DEF ExecuteChunk, TypeOK
  <2>3. CASE UNCHANGED inner
    BY <2>1, <2>2, <2>3, Zenon DEF TargetInv
  <2>4. CASE inner' # inner
    <3> DEFINE q == inner.chunks
               e == ExecutedChunk(Head(execq))
    <3>1. Executes(Head(execq)) /\ inner' = [inner EXCEPT !.chunks = Append(@, e)]
      BY <1>10, <2>1, <2>4, Zenon DEF ExecuteChunk
    <3>2. inner'.chunks = Append(q, e)
      BY <2>1, <3>1, Zenon DEF TypeOK, Caches
    <3>3. q \in Seq(Executed) /\ e \in Executed
      BY <2>1, <2>2, Zenon DEF TypeOK, Caches, ExecutedChunk, Executed, Chunks
    <3>4. \A i \in DOMAIN Append(q, e) : Append(q, e)[i] = e \/ (i \in DOMAIN q /\ Append(q, e)[i] = q[i])
      BY <3>3, Appended
    <3>5. request # None => e.last <= request
      <4>1. ASSUME request # None PROVE e.last <= request
        <5>1. e.last = execq[1].last /\ execq[1].last <= execq[1].li
          BY <2>2, <3>1, Zenon DEF ExecutedChunk, Executes
        <5>2. execq[1].li <= request
          BY <2>2, <4>1, Zenon DEF TargetInv
        <5>3. execq[1].last \in Int /\ execq[1].li \in Int
          BY <2>2, VersionsAreInts, Zenon DEF Chunks
        <5>4. request \in Int
          BY <4>1, VersionsAreInts, Zenon DEF TypeOK
        <5> QED BY <5>1, <5>2, <5>3, <5>4
      <4> QED BY <4>1, Zenon
    <3> QED BY <2>1, <2>2, <3>2, <3>4, <3>5, Zenon DEF TargetInv
  <2> QED BY <2>3, <2>4, Zenon
<1>11. CASE CommitChunk
  <2>1. UNCHANGED <<request, driver, execq>> /\ inner # None
    BY <1>11, Zenon DEF CommitChunk
  <2>2. CASE UNCHANGED <<ledger, inner>>
    BY <2>1, <2>2, Zenon DEF TargetInv
  <2>3. CASE inner.chunks # <<>> /\ SaveChunk
    <3>1. inner.chunks \in Seq(Executed)
      BY <2>1, Zenon DEF TypeOK, Caches
    <3>2. /\ Head(inner.chunks) = inner.chunks[1] /\ 1 \in DOMAIN inner.chunks
          /\ \A i \in DOMAIN Tail(inner.chunks) :
                i + 1 \in DOMAIN inner.chunks /\ Tail(inner.chunks)[i] = inner.chunks[i + 1]
      BY <2>3, <3>1, Dequeued
    <3>3. ledger'.version = inner.chunks[1].last /\ inner'.chunks = Tail(inner.chunks)
      BY <2>3, <3>2, Zenon DEF SaveChunk
    <3> QED BY <2>1, <3>2, <3>3, Zenon DEF TargetInv
  <2> QED BY <1>11, <2>2, <2>3, Zenon DEF CommitChunk
<1>12. CASE NotifyCommitter \/ ExecutorDecrements \/ CommitterReadsVersion \/ CommitterNotifies \/ CommitterDecrements
  <2>1. UNCHANGED <<ledger, request, execq, inner, driver>>
    BY <1>12, Zenon DEF NotifyCommitter, ExecutorDecrements, CommitterReadsVersion,
       CommitterNotifies,
       CommitterDecrements
  <2> QED BY <2>1, Zenon DEF TargetInv
<1> QED BY <1>2, <1>3, <1>4, <1>5, <1>6, <1>7, <1>8, <1>9, <1>10, <1>11, <1>12, Zenon
        DEF Next, DriverStep, ExecutorStep, CommitterStep

(***************************************************************************)
(* Epochs.                                                                 *)
(***************************************************************************)

(* The chunk that the driver has received. *)
LEMMA DriverChunk ==
    ASSUME TypeOK, driver.pc \in {"send", "increment"}
    PROVE  /\ driver.chunk \in Chunks
           /\ driver.chunk.first \in Versions /\ driver.chunk.last \in Versions
           /\ driver.chunk.li \in Versions
<1>1. driver.chunk \in Chunks
  BY Zenon DEF TypeOK, DriverStates, NotifyStates
<1> QED BY <1>1, VersionsAreInts, Zenon DEF Chunks

\* Chunks on their way stay within an epoch, and storage does.
LEMMA EpochStep ==
    ASSUME IInv, [Next]_vars
    PROVE  EpochInv'
<1> USE DEF IInv
<1>a. TypeOK /\ TypeOK'
  BY TypeStep, Zenon
<1>b. \A v \in Versions : v \in Int
  BY VersionsAreInts, Zenon
<1>c. EpochEnds \subseteq Int
  BY StateSyncAssumption
<1>1. CASE UNCHANGED <<ledger, execq>> /\ stream' \in {stream, None}
           /\ driver'.pc \notin {"send", "increment"}
  BY <1>1, Zenon DEF EpochInv
<1>2. CASE ConsensusStep \/ UNCHANGED vars
  <2>1. UNCHANGED <<stream, driver, execq>>
    BY <1>2, ConsensusLeaves, Zenon DEF vars, pipelineVars
  <2>2. ASSUME NEW v \in Versions, ConsensusCommit(v) PROVE NoEndBetween(ledger'.li, ledger'.version + 1)
    <3>1. ledger'.li = v /\ ledger'.version = v /\ v \in Int
      BY <1>b, <2>2, Zenon DEF ConsensusCommit
    <3> QED BY <1>c, <3>1 DEF NoEndBetween
  <2>3. ASSUME ~\E v \in Versions : ConsensusCommit(v) PROVE UNCHANGED ledger
    BY <1>2, <2>3, Zenon DEF ConsensusStep, NotifyCommit, SyncTo, SyncReturns, StartNewEpoch,
       vars
  <2> QED BY <2>1, <2>2, <2>3, Zenon DEF EpochInv
<1>3. CASE DriveProgress \/ Drained
  <2>1. UNCHANGED <<ledger, execq>> /\ driver'.pc \notin {"send", "increment"}
    BY <1>3, DriveSyncerCases DEF DriveProgress, Drained, Idle
  <2>2. \/ UNCHANGED stream
        \/ stream' = [synced |-> ledger.version, epoch |-> NextEpoch(ledger.li),
                      timeouts |-> 0, target |-> request]
    BY <1>3, Zenon DEF DriveProgress, Drained, DriveSyncer, InitializeStream
  <2>3. NextEpoch(ledger.li) <= NextEpoch(ledger.version)
    <3>1. ledger.li \in Versions /\ ledger.version \in Versions /\ ledger.li <= ledger.version
      BY VersionsAreInts, Zenon DEF TypeOK, ViewInv
    <3> QED BY <3>1, EpochsGrow, Zenon
  <2>4. stream' # None => stream'.epoch <= NextEpoch(stream'.synced)
    <3>1. CASE UNCHANGED stream
      BY <3>1, Zenon DEF EpochInv
    <3>2. CASE stream'.epoch = NextEpoch(ledger.li) /\ stream'.synced = ledger.version
      BY <2>3, <3>2, Zenon
    <3> QED BY <2>2, <3>1, <3>2
  <2> QED BY <2>1, <2>4, Zenon DEF EpochInv
<1>4. CASE \/ FinishChunkExecutor \/ HandleSync \/ HandleCommit \/ HandleError
           \/ DriverReadsVersion \/ DriverNotifies \/ EndOfStream
  <2>1. UNCHANGED <<ledger, execq>> /\ stream' \in {stream, None}
    BY <1>4, Zenon DEF FinishChunkExecutor, HandleSync, HandleCommit, HandleError,
       DriverReadsVersion, DriverNotifies, EndOfStream, ResetStream, pipelineVars
  <2>2. driver'.pc \notin {"send", "increment"}
    BY <1>4 DEF FinishChunkExecutor, HandleSync, HandleCommit, HandleError,
       DriverReadsVersion, ReadVersion, DriverNotifies, EndOfStream, Idle
  <2> QED BY <1>1, <2>1, <2>2, Zenon
<1>5. CASE StreamTimeout
  <2>1. UNCHANGED <<ledger, execq>> /\ driver'.pc \notin {"send", "increment"}
    BY <1>5 DEF StreamTimeout, Idle, pipelineVars
  <2>2. stream \in StreamStates
    BY <1>5, Zenon DEF StreamTimeout, CacheInv, TypeOK
  <2>3. stream' = None \/ (stream'.epoch = stream.epoch /\ stream'.synced = stream.synced)
    BY <1>5, <2>2, Zenon DEF StreamTimeout, StreamStates
  <2>4. stream # None
    BY <2>2, NoneAssumption, Zenon
  <2> QED BY <2>1, <2>3, <2>4, Zenon DEF EpochInv
<1>6. ASSUME NEW p \in Chunks, ProcessPayload(p) PROVE EpochInv'
  <2>1. UNCHANGED <<ledger, execq>> /\ p.first <= p.last
    BY <1>6, Zenon DEF ProcessPayload, pipelineVars
  <2>2. stream \in StreamStates /\ stream # None
    BY <1>6, NoneAssumption, Zenon DEF ProcessPayload, CacheInv, TypeOK
  <2>3. CASE ~Verified(p)
    <3>1. stream' = None /\ driver'.pc \notin {"send", "increment"}
      BY <1>6, <2>3 DEF ProcessPayload, ResetStream, Idle
    <3> QED BY <1>1, <2>1, <3>1, Zenon
  <2>4. CASE Verified(p)
    <3>1. /\ driver'.chunk = p
          /\ stream'.epoch = stream.epoch /\ stream'.synced = stream.synced
      <4>1. /\ driver' = [pc |-> "send", left |-> driver.left, chunk |-> p]
            /\ stream' = [stream EXCEPT !.timeouts = 0]
        BY <1>6, <2>4, Zenon DEF ProcessPayload
      <4> QED BY <2>2, <4>1 DEF StreamStates
    <3>2. p.first = stream.synced + 1 /\ EpochOf(p.li) = stream.epoch
      BY <2>4, Zenon DEF Verified
    <3>3. /\ p.first \in Versions /\ p.last \in Versions /\ p.li \in Versions
          /\ stream.synced \in Versions
      BY <2>2, VersionsAreInts, Zenon DEF Chunks, StreamStates
    <3>4. stream.synced <= p.last /\ p.first - 1 = stream.synced
      BY <1>b, <2>1, <3>2, <3>3
    <3>5. EpochOf(p.li) <= NextEpoch(stream.synced)
      BY <2>2, <3>2, Zenon DEF EpochInv
    <3>6. NoEndBetween(p.first - 1, p.li)
      BY <3>3, <3>4, <3>5, WithinEpoch, Zenon
    <3> QED BY <2>1, <2>2, <3>1, <3>4, <3>6, Zenon DEF EpochInv
  <2> QED BY <2>3, <2>4, Zenon
<1>7. CASE SendChunk
  <2>1. UNCHANGED <<ledger, stream>> /\ driver.pc = "send"
    BY <1>7, Zenon DEF SendChunk
  <2>2. driver.chunk \in Chunks /\ driver'.chunk = driver.chunk
    BY <1>7, Zenon DEF SendChunk, TypeOK, DriverStates, NotifyStates
  <2>3. \A i \in DOMAIN execq' : execq'[i] = driver.chunk \/ (i \in DOMAIN execq /\ execq'[i] = execq[i])
    BY <1>7, <2>2, Appended DEF SendChunk, TypeOK
  <2> QED BY <2>1, <2>2, <2>3, Zenon DEF EpochInv
<1>8. CASE IncrementPending
  <2>1. /\ UNCHANGED <<ledger, execq>> /\ driver.pc = "increment"
        /\ driver'.pc \notin {"send", "increment"}
    BY <1>8, Zenon DEF IncrementPending, NextLeft, Idle
  <2>2. stream \in StreamStates /\ stream # None
    BY <1>8, NoneAssumption, Zenon DEF IncrementPending, CacheInv, TypeOK
  <2>3. /\ stream'.synced = driver.chunk.last
        /\ \/ stream'.epoch = stream.epoch
           \/ stream'.epoch = NextEpoch(driver.chunk.li) /\ driver.chunk.li = driver.chunk.last
    BY <1>8, <2>2, Zenon DEF IncrementPending, StreamStates
  <2>4. driver.chunk.last \in Versions /\ stream.synced \in Versions /\ stream.epoch \in Nat
    BY <2>1, <2>2, DriverChunk, Zenon DEF StreamStates
  <2>5. /\ stream.epoch <= NextEpoch(stream.synced) /\ stream.synced <= driver.chunk.last
    BY <2>1, <2>2, Zenon DEF EpochInv
  <2>6. /\ NextEpoch(stream.synced) <= NextEpoch(driver.chunk.last)
        /\ NextEpoch(stream.synced) \in Nat /\ NextEpoch(driver.chunk.last) \in Nat
    BY <2>4, <2>5, EpochsGrow, Zenon
  <2>7. stream'.epoch <= NextEpoch(stream'.synced)
    BY <2>3, <2>4, <2>5, <2>6
  <2> QED BY <2>1, <2>7, Zenon DEF EpochInv
<1>9. CASE ExecuteChunk
  <2>1. UNCHANGED <<ledger, stream, driver>>
    BY <1>9, Zenon DEF ExecuteChunk
  <2>2. \A i \in DOMAIN execq' : i + 1 \in DOMAIN execq /\ execq'[i] = execq[i + 1]
    BY <1>9, Dequeued DEF ExecuteChunk, TypeOK
  <2> QED BY <2>1, <2>2, Zenon DEF EpochInv
<1>10. CASE CommitChunk
  <2>1. UNCHANGED <<stream, driver, execq>> /\ inner # None
    BY <1>10, Zenon DEF CommitChunk
  <2>2. CASE UNCHANGED ledger
    BY <2>1, <2>2, Zenon DEF EpochInv
  <2>3. CASE inner.chunks # <<>> /\ StorageAccepts /\ SaveChunk
    <3> DEFINE c == inner.chunks[1]
    <3>1. inner.chunks \in Seq(Executed)
      BY <2>1, Zenon DEF TypeOK, Caches
    <3>2. Head(inner.chunks) = c /\ 1 \in DOMAIN inner.chunks /\ c \in Executed
      BY <2>3, <3>1, Dequeued
    <3>3. /\ NoEndBetween(ledger.version, c.last)
          /\ c.last \in EpochEnds => c.li = c.last
      BY <2>1, <2>3, <3>2, Zenon DEF QueueInv, ChunkEpochs, StorageAccepts
    <3>4. ledger'.version = c.last /\ ledger'.li = IF c.li = None THEN ledger.li ELSE c.li
      BY <2>3, <3>2, Zenon DEF SaveChunk
    <3>5. c.last \in Int /\ ledger.version \in Int /\ ledger.li \in Int
      BY <1>b, <3>2, VersionsAreInts, Zenon DEF Executed, TypeOK
    <3>6. c.li \in {c.last, None}
      <4>1. driver.pc # "finish"
        BY <1>10, <1>a, EmptyPipeline, Zenon DEF RestInv, CommitterStep
      <4> QED BY <2>1, <3>2, <4>1, Zenon DEF ViewInv, Extending
    <3>7. NoEndBetween(ledger.li, ledger.version + 1)
      BY Zenon DEF EpochInv
    <3>8. c.last # None
      BY <3>2, NoneAssumption, Zenon DEF Executed
    <3>9. NoEndBetween(ledger'.li, ledger'.version + 1)
      <4>1. CASE c.li = c.last
        BY <1>c, <3>4, <3>5, <3>8, <4>1 DEF NoEndBetween
      <4>2. CASE c.li = None
        <5>1. c.last \notin EpochEnds
          BY <3>3, <3>8, <4>2, Zenon
        <5> QED BY <1>c, <3>3, <3>4, <3>5, <3>7, <4>2, <5>1 DEF NoEndBetween
      <4> QED BY <3>6, <4>1, <4>2, Zenon
    <3> QED BY <2>1, <3>9, Zenon DEF EpochInv
  <2> QED BY <1>10, <2>2, <2>3, Zenon DEF CommitChunk
<1>11. CASE NotifyCommitter \/ ExecutorDecrements \/ CommitterReadsVersion \/ CommitterNotifies \/ CommitterDecrements
  <2>1. UNCHANGED <<ledger, stream, execq, driver>>
    BY <1>11, Zenon DEF NotifyCommitter, ExecutorDecrements, CommitterReadsVersion,
       CommitterNotifies, CommitterDecrements
  <2> QED BY <2>1, Zenon DEF EpochInv
<1> QED BY <1>2, <1>3, <1>4, <1>5, <1>6, <1>7, <1>8, <1>9, <1>10, <1>11, Zenon
        DEF Next, DriverStep, ExecutorStep, CommitterStep

(***************************************************************************)
(* The commit queue.                                                       *)
(***************************************************************************)

(* Executing a chunk that stays within an epoch appends one that does. *)
LEMMA ExecuteKeepsEpochs ==
    ASSUME TypeOK, inner # None, ChunkEpochs(inner.view, inner.chunks),
           NEW c \in Chunks, Executes(c), NoEndBetween(c.first - 1, c.li)
    PROVE  ChunkEpochs(inner.view, Append(inner.chunks, ExecutedChunk(c)))
<1> DEFINE q == inner.chunks
           e == ExecutedChunk(c)
           r == Append(q, e)
<1>1. q \in Seq(Executed) /\ e \in Executed /\ inner.view \in Versions
  BY Zenon DEF TypeOK, Caches, ExecutedChunk, Executed, Chunks
<1>2. /\ Len(q) \in Nat /\ DOMAIN q = 1..Len(q) /\ DOMAIN r = 1..(Len(q) + 1)
      /\ \A i \in 1..Len(q) : r[i] = q[i]
      /\ r[Len(q) + 1] = e
  BY <1>1, Appended
<1>3. LatestView \in Versions
  <2>1. CASE q = <<>>
    BY <1>1, <2>1, Zenon DEF LatestView
  <2>2. CASE q # <<>>
    <3>1. Len(q) \in DOMAIN q
      BY <1>1, <2>2, Dequeued
    <3>2. q[Len(q)] \in Executed
      BY <1>1, <3>1, ElementOfSeq, <1>2
    <3> QED BY <2>2, <3>2, Zenon DEF LatestView, Executed
  <2> QED BY <2>1, <2>2, Zenon
<1>4. /\ e.last = c.last /\ c.last <= c.li /\ c.first <= LatestView + 1
      /\ c.last \in EpochEnds => e.li = e.last
  BY Zenon DEF ExecutedChunk, Executes
<1>5. NoEndBetween(LatestView, e.last)
  <2>1. c.first \in Int /\ c.last \in Int /\ c.li \in Int /\ LatestView \in Int /\ EpochEnds \subseteq Int
    BY <1>3, VersionsAreInts, StateSyncAssumption DEF Chunks
  <2> QED BY <1>4, <2>1 DEF NoEndBetween
<1>6. ASSUME NEW i \in DOMAIN r
      PROVE  /\ NoEndBetween(IF i = 1 THEN inner.view ELSE r[i - 1].last, r[i].last)
             /\ r[i].last \in EpochEnds => r[i].li = r[i].last
  <2>1. CASE i \in 1..Len(q)
    <3>1. r[i] = q[i] /\ (i # 1 => r[i - 1] = q[i - 1])
      BY <1>2, <2>1
    <3> QED BY <1>2, <2>1, <3>1, Zenon DEF ChunkEpochs
  <2>2. CASE i = Len(q) + 1
    <3>1. LatestView = (IF i = 1 THEN inner.view ELSE r[i - 1].last)
      <4>1. CASE q = <<>>
        BY <1>2, <2>2, <4>1 DEF LatestView
      <4>2. CASE q # <<>>
        <5>1. Len(q) # 0
          BY <1>1, <4>2, EmptySeq, Zenon
        <5>2. i # 1 /\ r[i - 1] = q[Len(q)]
          BY <1>2, <2>2, <5>1
        <5> QED BY <4>2, <5>2, Zenon DEF LatestView
      <4> QED BY <4>1, <4>2, Zenon
    <3>2. r[i] = e
      BY <1>2, <2>2, Zenon
    <3> QED BY <1>4, <1>5, <3>1, <3>2, Zenon
  <2> QED BY <1>2, <2>1, <2>2
<1> QED BY <1>6, Zenon DEF ChunkEpochs

(* Saving the first chunk leaves chunks that stay within an epoch. *)
LEMMA SaveKeepsEpochs ==
    ASSUME NEW q \in Seq(Executed), q # <<>>, NEW view, ChunkEpochs(view, q)
    PROVE  ChunkEpochs(Head(q).last, Tail(q))
<1>1. /\ Head(q) = q[1] /\ Len(q) \in Nat \ {0}
      /\ DOMAIN q = 1..Len(q) /\ DOMAIN Tail(q) = 1..(Len(q) - 1)
      /\ \A i \in 1..(Len(q) - 1) : Tail(q)[i] = q[i + 1]
  BY Dequeued, Zenon
<1>2. ASSUME NEW i \in DOMAIN Tail(q)
      PROVE  /\ NoEndBetween(IF i = 1 THEN Head(q).last ELSE Tail(q)[i - 1].last, Tail(q)[i].last)
             /\ Tail(q)[i].last \in EpochEnds => Tail(q)[i].li = Tail(q)[i].last
  <2>1. i + 1 \in DOMAIN q /\ i + 1 # 1 /\ (i + 1) - 1 = i /\ Tail(q)[i] = q[i + 1]
    BY <1>1
  <2>2. /\ NoEndBetween(q[i].last, q[i + 1].last)
        /\ q[i + 1].last \in EpochEnds => q[i + 1].li = q[i + 1].last
    BY <2>1, Zenon DEF ChunkEpochs
  <2>3. q[i] = IF i = 1 THEN Head(q) ELSE Tail(q)[i - 1]
    BY <1>1
  <2> QED BY <2>1, <2>2, <2>3, Zenon
<1> QED BY <1>2, Zenon DEF ChunkEpochs

\* The commit queue keeps a chunk for every commit that is due.
LEMMA QueueStep ==
    ASSUME IInv, [Next]_vars
    PROVE  QueueInv'
<1> USE DEF IInv
<1>a. TypeOK /\ TypeOK'
  BY TypeStep, Zenon
<1>1. CASE UNCHANGED <<exec, commq, inner>>
  BY <1>1, Zenon DEF QueueInv
<1>2. CASE UNCHANGED vars \/ ConsensusStep
  BY <1>1, <1>2, ConsensusLeaves, Zenon DEF vars, pipelineVars
<1>3. CASE DriveProgress \/ Drained
  <2>1. UNCHANGED <<exec, commq>>
    BY <1>3, Zenon DEF DriveProgress, Drained
  <2>2. CASE UNCHANGED inner
    BY <1>1, <2>1, <2>2, Zenon
  <2>3. CASE inner' # inner
    <3>1. DriveSyncer /\ driver.pc \in {"select", "drain"}
      BY <1>3, <2>3, Zenon DEF DriveProgress, Drained
    <3>2. ~(pending > 0) /\ inner' = [view |-> ledger.version, chunks |-> <<>>]
      BY <2>3, <3>1, DriveSyncerCases, Zenon
    <3>3. pending = 0
      BY <3>2, StateSyncAssumption DEF TypeOK
    <3>4. InPipeline = 0
      BY <3>1, <3>3, Zenon DEF CounterInv
    <3>5. exec = "idle" /\ commq = 0
      BY <1>a, <3>4, PipelineBound, Zenon
    <3>6. inner'.chunks = <<>> /\ Len(<<>>) = 0 /\ DOMAIN <<>> = {}
      BY <3>2
    <3>7. ChunkEpochs(inner'.view, <<>>)
      BY <3>6, Zenon DEF ChunkEpochs
    <3> QED BY <2>1, <3>5, <3>6, <3>7 DEF QueueInv
  <2> QED BY <2>2, <2>3, Zenon
<1>4. CASE FinishChunkExecutor
  <2>1. InPipeline = 0 /\ UNCHANGED <<exec, commq>> /\ inner' = None
    BY <1>4, Zenon DEF FinishChunkExecutor, RestInv
  <2>2. exec = "idle" /\ commq = 0
    BY <1>a, <2>1, PipelineBound, Zenon
  <2> QED BY <2>1, <2>2 DEF QueueInv
<1>5. CASE \/ HandleSync \/ HandleCommit \/ HandleError \/ DriverReadsVersion \/ DriverNotifies
           \/ SendChunk \/ IncrementPending \/ EndOfStream \/ StreamTimeout
           \/ \E p \in Chunks : ProcessPayload(p)
  <2>1. UNCHANGED <<exec, commq, inner>>
    BY <1>5, Zenon DEF HandleSync, HandleCommit, HandleError, DriverReadsVersion,
       DriverNotifies, SendChunk, IncrementPending, EndOfStream, StreamTimeout,
       ProcessPayload, pipelineVars
  <2> QED BY <1>1, <2>1, Zenon
<1>6. CASE ExecutorStep \/ CommitterStep
  <2>1. inner # None
    <3>1. InPipeline # 0 /\ InPipeline \in Nat
      BY <1>6, <1>a, EmptyPipeline, PipelineBound, Zenon
    <3> QED BY <3>1 DEF CacheInv
  <2>2. /\ inner \in Caches /\ inner.chunks \in Seq(Executed) /\ Len(inner.chunks) \in Nat
        /\ ChunkEpochs(inner.view, inner.chunks) /\ commq \in Nat
        /\ commq + (IF exec = "send" THEN 1 ELSE 0) <= Len(inner.chunks)
    <3>1. inner \in Caches /\ ChunkEpochs(inner.view, inner.chunks)
          /\ commq + (IF exec = "send" THEN 1 ELSE 0) <= Len(inner.chunks)
      BY <2>1, Zenon DEF TypeOK, QueueInv
    <3>2. inner.chunks \in Seq(Executed)
      BY <3>1, Zenon DEF Caches
    <3> QED BY <3>1, <3>2, LenProperties, StateSyncAssumption DEF TypeOK
  <2>3. CASE ExecuteChunk
    <3> DEFINE c == Head(execq)
    <3>1. c \in Chunks /\ c = execq[1] /\ 1 \in DOMAIN execq
      BY <2>3, Dequeued DEF ExecuteChunk, TypeOK
    <3>2. exec = "idle" /\ UNCHANGED commq
      BY <2>3, Zenon DEF ExecuteChunk
    <3>3. CASE Executes(c) /\ inner' = [inner EXCEPT !.chunks = Append(@, ExecutedChunk(c))]
      <4>1. inner'.view = inner.view /\ inner'.chunks = Append(inner.chunks, ExecutedChunk(c))
        BY <2>2, <3>3, Zenon DEF Caches
      <4>2. NoEndBetween(c.first - 1, c.li)
        BY <3>1, Zenon DEF EpochInv
      <4>3. ChunkEpochs(inner'.view, inner'.chunks)
        BY <2>1, <2>2, <3>1, <3>3, <4>1, <4>2, ExecuteKeepsEpochs, Zenon
      <4>4. ExecutedChunk(c) \in Executed
        BY <3>1, Zenon DEF ExecutedChunk, Executed, Chunks
      <4>5. Len(inner'.chunks) = Len(inner.chunks) + 1
        BY <2>2, <4>1, <4>4, Appended
      <4>6. inner' # None
        BY <2>3, CacheExecuted, NoneAssumption, Zenon
      <4> QED BY <2>2, <3>2, <4>3, <4>5, <4>6 DEF QueueInv
    <3>4. CASE UNCHANGED inner /\ exec' = "decrement"
      BY <2>1, <2>2, <3>2, <3>4 DEF QueueInv
    <3> QED BY <2>1, <2>3, <3>3, <3>4, Zenon DEF ExecuteChunk
  <2>4. CASE NotifyCommitter
    <3>1. exec = "send" /\ exec' = "idle" /\ commq' = commq + 1 /\ UNCHANGED inner
      BY <2>4, Zenon DEF NotifyCommitter
    <3> QED BY <2>1, <2>2, <3>1 DEF QueueInv
  <2>5. CASE ExecutorDecrements
    <3>1. exec' = "idle" /\ UNCHANGED <<commq, inner>>
      BY <2>5, Zenon DEF ExecutorDecrements
    <3> QED BY <2>1, <2>2, <3>1 DEF QueueInv
  <2>6. CASE CommitChunk
    <3>1. commq' = commq - 1 /\ UNCHANGED exec
      BY <2>6, Zenon DEF CommitChunk
    <3>2. CASE UNCHANGED inner
      BY <2>1, <2>2, <3>1, <3>2 DEF QueueInv
    <3>3. CASE inner.chunks # <<>> /\ SaveChunk
      <4>1. inner'.view = Head(inner.chunks).last /\ inner'.chunks = Tail(inner.chunks)
        BY <3>3, Zenon DEF SaveChunk
      <4>2. ChunkEpochs(inner'.view, inner'.chunks)
        BY <2>2, <3>3, <4>1, SaveKeepsEpochs, Zenon
      <4>3. Len(inner'.chunks) = Len(inner.chunks) - 1
        BY <2>2, <3>3, <4>1, Dequeued, Zenon
      <4>4. inner' # None
        BY <2>1, <3>3, CacheSaved, NoneAssumption, Zenon
      <4> QED BY <2>2, <3>1, <4>2, <4>3, <4>4 DEF QueueInv
    <3> QED BY <2>6, <3>2, <3>3, Zenon DEF CommitChunk
  <2>7. CASE CommitterReadsVersion \/ CommitterNotifies \/ CommitterDecrements
    BY <1>1, <2>7, Zenon DEF CommitterReadsVersion, CommitterNotifies, CommitterDecrements
  <2> QED BY <1>6, <2>3, <2>4, <2>5, <2>6, <2>7, Zenon DEF ExecutorStep, CommitterStep
<1> QED BY <1>2, <1>3, <1>4, <1>5, <1>6, Zenon DEF Next, DriverStep

(***************************************************************************)
(* The theorems.                                                           *)
(***************************************************************************)
LEMMA InitInv ==
    ASSUME Init
    PROVE  IInv
<1>1. TypeOK
  <2>1. Idle \in DriverStates
    BY Zenon DEF Idle, DriverStates
  <2>2. con \in ConsensusStates
    <3>1. 0 \in Versions /\ MaxVersion \in Versions
      BY StateSyncAssumption, Zenon DEF Versions
    <3>2. 1 \in 1..NextEpoch(MaxVersion)
      BY <3>1, EpochRange
    <3> QED BY <3>1, <3>2, Zenon DEF Init, ConsensusStates
  <2>3. 0 \in Versions /\ 0 \in LedgerInfos /\ 0 \in 0..QueueBound /\ 0 \in 0..(CounterModulus - 1)
    BY StateSyncAssumption DEF Versions
  <2>4. <<>> \in Seq(BOOLEAN) /\ <<>> \in Seq(Notifications) /\ <<>> \in Seq(Chunks) /\ Len(<<>>) <= QueueBound
    BY EmptySeq, StateSyncAssumption
  <2>5. setup \in Setups /\ budget \in [EventKinds -> Nat]
    BY StateSyncAssumption, Zenon DEF Init
  <2> QED BY <2>1, <2>2, <2>3, <2>4, <2>5, Zenon DEF Init, TypeOK
<1>2. InPipeline = 0
  BY EmptySeq DEF Init, InPipeline, InExecutor, InCommitter
<1>3. DOMAIN inbox = {}
  BY DEF Init
<1>4. EpochInv /\ QueueInv
  <2>1. EpochEnds \subseteq Int /\ DOMAIN <<>> = {}
    BY StateSyncAssumption
  <2> QED BY <2>1 DEF Init, Idle, EpochInv, QueueInv, NoEndBetween
<1> QED BY <1>1, <1>2, <1>3, <1>4 DEF IInv, Init, Idle, CounterInv, RequestInv, RestInv,
           CacheInv, ViewInv, TargetInv

\* Every step keeps every part of the invariant.
LEMMA NextInv ==
    ASSUME IInv, [Next]_vars
    PROVE  IInv'
BY TypeStep, CounterStep, RequestStep, RestStep, CacheStep, ViewStep, TargetStep, EpochStep,
   QueueStep, Zenon DEF IInv

(* The inductive invariant holds in every state of every node. *)
THEOREM Inductive == Spec => []IInv
<1>1. Init => IInv
  BY InitInv, Zenon
<1>2. IInv /\ [Next]_vars => IInv'
  BY NextInv, Zenon
<1> QED BY <1>1, <1>2, PTL DEF Spec

(* While consensus of a validator may execute and commit, no chunk of      *)
(* state sync is on its way to storage: storage has one writer.            *)
THEOREM StorageHasOneWriter == Spec => []OneWriter
<1>1. IInv => OneWriter
  BY Zenon DEF IInv, RequestInv, RestInv, OneWriter
<1> QED BY <1>1, Inductive, PTL

(* Whenever a commit is due, the commit queue has a chunk that storage     *)
(* accepts: it starts at the next version, in the epoch storage is in.     *)
THEOREM StorageRefusesNothing == Spec => []NothingIsRefused
<1>1. ASSUME IInv, commq > 0
      PROVE  inner # None /\ inner.chunks # <<>> /\ StorageAccepts
  <2> DEFINE c == inner.chunks[1]
  <2>1. /\ commq \in Nat /\ InPipeline # 0 /\ InPipeline \in Nat
    <3>1. Len(execq) \in Nat /\ commq \in Nat
      BY <1>1, LenProperties, StateSyncAssumption DEF IInv, TypeOK
    <3>2. InExecutor \in Nat /\ InCommitter \in Nat
      BY Zenon DEF InExecutor, InCommitter
    <3> QED BY <1>1, <3>1, <3>2 DEF InPipeline
  <2>2. inner # None /\ driver.pc # "finish"
    BY <1>1, <2>1 DEF IInv, CacheInv, RestInv
  <2>3. inner.chunks \in Seq(Executed)
    BY <1>1, <2>2, Zenon DEF IInv, TypeOK, Caches
  <2>4. inner.chunks # <<>>
    <3>1. commq + (IF exec = "send" THEN 1 ELSE 0) <= Len(inner.chunks)
      BY <1>1, <2>2, Zenon DEF IInv, QueueInv
    <3>2. Len(inner.chunks) # 0
      BY <1>1, <2>1, <2>3, <3>1, LenProperties
    <3> QED BY <3>2, EmptySeq, Zenon
  <2>5. Head(inner.chunks) = c /\ 1 \in DOMAIN inner.chunks /\ c \in Executed
    BY <2>3, <2>4, Dequeued
  <2>6. inner.view = ledger.version /\ c.last > ledger.version /\ c.li \in {c.last, None}
    BY <1>1, <2>2, <2>5, Zenon DEF IInv, ViewInv, Extending
  <2>7. /\ NoEndBetween(ledger.version, c.last) /\ NoEndBetween(ledger.li, ledger.version + 1)
        /\ ledger.li <= ledger.version
    BY <1>1, <2>2, <2>5, <2>6, Zenon DEF IInv, QueueInv, ChunkEpochs, EpochInv, ViewInv
  <2>8. {e \in EpochEnds : e < c.last} = {e \in EpochEnds : e <= ledger.li}
    <3>1. c.last \in Int /\ ledger.version \in Int /\ ledger.li \in Int
      BY <1>1, <2>5, VersionsAreInts, Zenon DEF Executed, IInv, TypeOK
    <3>2. EpochEnds \subseteq Int
      BY StateSyncAssumption
    <3>3. \A e \in EpochEnds : e < c.last <=> e <= ledger.li
      BY <2>6, <2>7, <3>1, <3>2 DEF NoEndBetween
    <3> QED BY <3>3, Zenon
  <2>9. EpochOf(c.last) = NextEpoch(ledger.li)
    BY <2>8, Zenon DEF EpochOf, NextEpoch
  <2> QED BY <2>2, <2>4, <2>5, <2>6, <2>9, Zenon DEF StorageAccepts
<1>2. IInv => NothingIsRefused
  BY <1>1, Zenon DEF NothingIsRefused
<1> QED BY <1>2, Inductive, PTL

(* State sync never passes the target of the request it works for, so that *)
(* the request can still be answered.                                      *)
THEOREM TargetIsNotPassed == Spec => []NeverBeyondTarget
<1>1. IInv => NeverBeyondTarget
  <2>1. ASSUME IInv, request # None PROVE ledger.li <= request /\ ledger.version <= request
    <3>1. ledger.version <= request /\ ledger.li <= ledger.version
      BY <2>1, Zenon DEF IInv, ViewInv, TargetInv
    <3>2. ledger.version \in Int /\ ledger.li \in Int /\ request \in Int
      BY <2>1, VersionsAreInts, Zenon DEF IInv, TypeOK
    <3> QED BY <3>1, <3>2
  <2> QED BY <2>1, Zenon DEF NeverBeyondTarget
<1> QED BY <1>1, Inductive, PTL

(* apply_chunk and commit_chunk always find the chunk executor             *)
(* initialized.                                                            *)
THEOREM ChunkExecutorIsInitialized == Spec => []ChunkExecutorIsReset
<1>1. ASSUME IInv, commq > 0 \/ execq # <<>> PROVE inner # None
  <2>1. InPipeline # 0 /\ InPipeline \in Nat
    <3>1. Len(execq) \in Nat /\ (Len(execq) = 0 => execq = <<>>) /\ commq \in Nat
      BY <1>1, EmptySeq, LenProperties, StateSyncAssumption DEF IInv, TypeOK
    <3>2. InExecutor \in Nat /\ InCommitter \in Nat
      BY Zenon DEF InExecutor, InCommitter
    <3>3. Len(execq) # 0 \/ commq # 0
      BY <1>1, <3>1
    <3> QED BY <3>1, <3>2, <3>3 DEF InPipeline
  <2> QED BY <1>1, <2>1 DEF IInv, CacheInv
<1>2. IInv => ChunkExecutorIsReset
  BY <1>1, Zenon DEF ChunkExecutorIsReset
<1> QED BY <1>2, Inductive, PTL

(* pending_data_chunks counts the chunks between the driver and the end of *)
(* the committer whenever the driver looks at it, although it is changed   *)
(* after the chunk was sent and may wrap in between.                       *)
THEOREM PendingIsExact == Spec => []CounterIsExact
<1>1. IInv => CounterIsExact
  BY Zenon DEF IInv, CounterInv, CounterIsExact
<1> QED BY <1>1, Inductive, PTL

(* Consensus hears of a successful sync only when transactions and ledger  *)
(* info of storage are at its target and nothing more is about to be       *)
(* written.                                                                *)
THEOREM AnswersAreTrue == Spec => AnsweredAtTarget
<1>1. ASSUME IInv, Next, con.pc = "syncing", con'.pc = "ok"
      PROVE  ledger.version = con.target /\ ledger.li = con.target /\ InPipeline = 0
  <2>1. CASE HandleSync
    <3>1. Head(inbox).type = "sync" /\ Head(inbox) = inbox[1] /\ 1 \in DOMAIN inbox
      BY <1>1, <2>1, Dequeued DEF HandleSync, IInv, TypeOK
    <3>2. setup.validator /\ request = None /\ con.target = inbox[1].target
      BY <1>1, <3>1, Zenon DEF IInv, RequestInv
    <3>3. con.target = ledger.li
      <4>1. con # con'
        BY <1>1, Zenon
      <4> QED BY <1>1, <2>1, <3>1, <3>2, <4>1, Zenon
                 DEF HandleSync, Answer, IInv, TypeOK, ConsensusStates
    <3>4. ledger.version = ledger.li /\ InPipeline = 0
      BY <1>1, <3>2, Zenon DEF IInv, RestInv
    <3> QED BY <3>3, <3>4, Zenon
  <2>2. CASE Drained
    <3>1. request # None /\ ledger.li = request /\ con.target = request
      BY <1>1, <2>2, Zenon DEF Drained, IInv, RequestInv
    <3>2. InPipeline = 0
      BY <1>1, <2>2, Zenon DEF Drained, IInv, CounterInv
    <3>3. ledger.version <= request /\ ledger.li <= ledger.version
      BY <1>1, <3>1, Zenon DEF IInv, ViewInv, TargetInv
    <3>4. ledger.version \in Int /\ ledger.li \in Int
      BY <1>1, VersionsAreInts, Zenon DEF IInv, TypeOK
    <3> QED BY <3>1, <3>2, <3>3, <3>4
  <2>3. CASE \/ DriveProgress \/ FinishChunkExecutor \/ HandleCommit \/ HandleError
             \/ DriverReadsVersion \/ DriverNotifies \/ SendChunk \/ IncrementPending
             \/ EndOfStream \/ StreamTimeout \/ \E p \in Chunks : ProcessPayload(p)
    BY <1>1, <2>3, Zenon DEF DriveProgress, FinishChunkExecutor, HandleCommit, HandleError,
       DriverReadsVersion,
       DriverNotifies, SendChunk, IncrementPending, EndOfStream, StreamTimeout, ProcessPayload, consensusVars
  <2>4. CASE ExecutorStep \/ CommitterStep
    BY <1>1, <2>4, PipelineLeaves, Zenon DEF consensusVars
  <2>5. CASE ConsensusStep
    BY <1>1, <2>5, Zenon DEF ConsensusStep, ConsensusCommit, NotifyCommit, SyncTo, SyncReturns,
       StartNewEpoch
  <2> QED BY <1>1, <2>1, <2>2, <2>3, <2>4, <2>5, Zenon DEF Next, DriverStep
<1>2. IInv /\ [Next]_vars =>
        [con.pc = "syncing" /\ con'.pc = "ok" =>
            /\ ledger.version = con.target /\ ledger.li = con.target
            /\ InPipeline = 0]_vars
  BY <1>1, Zenon
<1> QED BY <1>2, Inductive, PTL DEF Spec, AnsweredAtTarget

=============================================================================
