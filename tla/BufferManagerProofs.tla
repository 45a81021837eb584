------------------------ MODULE BufferManagerProofs ------------------------
(***************************************************************************)
(* Proofs about BufferManager, for any number of blocks, any validators    *)
(* and quorums, and any epochs: first the types and that state sync has    *)
(* the pipeline to itself, then that every step keeps the inductive        *)
(* invariant.                                                              *)
(***************************************************************************)
EXTENDS BufferManagerCoreProofs

-----------------------------------------------------------------------------
(* Types, and the exclusive use of the pipeline by state sync. *)

\* a is a manager that has not just been reset.
Stepped(a) == IsBufferManager(a) /\ a.mode # "resetting"

\* The blocks of a request are blocks.
LEMMA RequestType ==
    ASSUME NEW m, IsBufferManager(m), NEW n \in DOMAIN m.buffer
    PROVE  Request(m, n) \in PersistingRequest
<1>1. m.buffer[n].batch.last \in Blocks
  BY ItemFields, BatchFields, Zenon
<1>2. \A i \in 1 .. n : BlocksOf(m.buffer[i].batch) \subseteq Blocks
  <2> TAKE i \in 1 .. n
  <2>1. i \in DOMAIN m.buffer
    <3>1. DOMAIN m.buffer = 1 .. Len(m.buffer) /\ Len(m.buffer) \in Nat
      BY QueueFields, Zenon
    <3> QED BY <3>1
  <2>2. m.buffer[i].batch \in Batches
    BY <2>1, ItemFields, Zenon
  <2> HIDE DEF Batches
  <2> DEFINE b == m.buffer[i].batch
  <2>3. b.first \in Blocks /\ b.last \in Blocks
    BY <2>2, BatchFields, Zenon
  <2> HIDE DEF b
  <2>4. NumBlocks \in Nat
    BY BufferManagerAssumption, Zenon
  <2>5. BlocksOf(b) \subseteq Blocks
    BY <2>3, <2>4 DEF BlocksOf, Blocks
  <2> QED BY <2>5, Zenon DEF b
<1>3. UNION {BlocksOf(m.buffer[i].batch) : i \in 1 .. n} \in SUBSET Blocks
  BY <1>2, Zenon
<1> DEFINE s == UNION {BlocksOf(m.buffer[i].batch) : i \in 1 .. n}
           l == m.buffer[n].batch.last
<1>4. Request(m, n) = [blocks |-> s, last |-> l] /\ s \in SUBSET Blocks /\ l \in Blocks
  BY <1>1, <1>3, Zenon DEF Request
<1> HIDE DEF s, l
<1> QED BY <1>4 DEF PersistingRequest

\* advance_head leaves a manager.
LEMMA AdvanceHeadType ==
    ASSUME NEW m, IsBufferManager(m), m.mode = "running", NEW n \in DOMAIN m.buffer
    PROVE  Stepped(AdvanceHead(m, n))
<1> DEFINE q == Request(m, n)
           popped == {m.buffer[i].batch.last : i \in 1 .. n}
           r == PopPrefix(m, n, popped)
           reset == [ResetBuffer(r) EXCEPT !.mode = "ending", !.pending = <<q>>]
           kept == [r EXCEPT !.persisting = Append(@, q)]
<1>1. AdvanceHead(m, n) = IF q.last >= Reconfig THEN reset ELSE kept
  BY Zenon DEF AdvanceHead, Request
<1>2. q \in PersistingRequest
  BY RequestType, Zenon
<1>3. IsBufferManager(r) /\ r.mode = "running"
  <2>1. Pops(m, r, n, popped)
    BY PopFields, Zenon
  <2> HIDE DEF r, popped
  <2> QED BY <2>1, Zenon DEF Pops, SameRequests
<1> HIDE DEF q, r
<1>4. DOMAIN r = {"buffer", "block_rx", "execution_root", "signing_root",
                  "end_epoch_timestamp", "execution", "signing", "persisting",
                  "pending", "mode"} /\ r.persisting \in Seq(PersistingRequest)
  BY <1>3, Zenon DEF IsBufferManager
<1>5. Stepped(reset)
  <2>1. /\ DOMAIN reset = DOMAIN r
        /\ reset.buffer = <<>> /\ reset.block_rx = <<>>
        /\ reset.execution_root = None /\ reset.signing_root = None
        /\ reset.end_epoch_timestamp = r.end_epoch_timestamp
        /\ reset.execution = r.execution /\ reset.signing = r.signing
        /\ reset.persisting = r.persisting /\ reset.pending = <<q>> /\ reset.mode = "ending"
    BY <1>4 DEF ResetBuffer
  <2> HIDE DEF reset
  <2>2. <<q>> \in Seq(PersistingRequest)
    BY <1>2
  <2>3. <<>> \in Seq(BufferItem) /\ <<>> \in Seq(Batches) /\ None \in Blocks \cup {None}
        /\ "ending" # "resetting"
    OBVIOUS
  <2> QED BY <1>3, <2>1, <2>2, <2>3, Zenon DEF IsBufferManager, Stepped
<1>6. Stepped(kept)
  <2>1. /\ DOMAIN kept = DOMAIN r
        /\ kept.buffer = r.buffer /\ kept.block_rx = r.block_rx
        /\ kept.execution_root = r.execution_root /\ kept.signing_root = r.signing_root
        /\ kept.end_epoch_timestamp = r.end_epoch_timestamp
        /\ kept.execution = r.execution /\ kept.signing = r.signing
        /\ kept.persisting = Append(r.persisting, q) /\ kept.pending = r.pending
        /\ kept.mode = r.mode
    BY <1>4
  <2> HIDE DEF kept
  <2>2. Append(r.persisting, q) \in Seq(PersistingRequest) /\ "running" # "resetting"
    BY <1>2, <1>4
  <2> QED BY <1>3, <2>1, <2>2, Zenon DEF IsBufferManager, Stepped
<1> HIDE DEF reset, kept
<1> QED BY <1>1, <1>5, <1>6, Zenon

\* Advancing the roots leaves a manager, in the same mode.
LEMMA RootsType ==
    ASSUME NEW m, IsBufferManager(m)
    PROVE  /\ IsBufferManager(AdvanceExecutionRoot(m)) /\ AdvanceExecutionRoot(m).mode = m.mode
           /\ IsBufferManager(AdvanceSigningRoot(m)) /\ AdvanceSigningRoot(m).mode = m.mode
           /\ IsBufferManager(AdvanceExecutionRootIfNone(m))
           /\ AdvanceExecutionRootIfNone(m).mode = m.mode
           /\ IsBufferManager(AdvanceSigningRootIfNone(m))
           /\ AdvanceSigningRootIfNone(m).mode = m.mode
<1> DEFINE a == AdvanceExecutionRoot(m)
           b == AdvanceSigningRoot(m)
<1>1. IsBufferManager(a) /\ SameRequests(m, a)
  BY ExecutionRootAdvances, Zenon
<1>2. IsBufferManager(b) /\ SameRequests(m, b)
  BY SigningRootAdvances, Zenon
<1> HIDE DEF a, b
<1>3. a.mode = m.mode /\ b.mode = m.mode
  BY <1>1, <1>2, Zenon DEF SameRequests
<1> QED BY <1>1, <1>2, <1>3, Zenon
        DEF AdvanceExecutionRootIfNone, AdvanceSigningRootIfNone, a, b

\* The end timestamp is a block's.
LEMMA TimestampType ==
    ASSUME NEW m, IsBufferManager(m), NEW b \in Batches
    PROVE  EndEpochTimestamp(m, b) \in Blocks \cup {None}
<1> DEFINE s == {k \in BlocksOf(b) : k >= Reconfig}
<1>1. m.end_epoch_timestamp \in Blocks \cup {None}
  BY Zenon DEF IsBufferManager
<1>2. s \subseteq Blocks /\ s \in SUBSET Nat
  <2>1. b.first \in Blocks /\ b.last \in Blocks /\ NumBlocks \in Nat
    BY BatchFields, BufferManagerAssumption, Zenon
  <2>2. BlocksOf(b) \subseteq Blocks /\ BlocksOf(b) \subseteq Nat
    BY <2>1 DEF BlocksOf, Blocks
  <2> QED BY <2>2, Zenon
<1>3. EndEpochTimestamp(m, b) = IF m.end_epoch_timestamp # None \/ s = {}
                                THEN m.end_epoch_timestamp ELSE Min(s)
  BY Zenon DEF EndEpochTimestamp
<1> HIDE DEF s
<1>4. s # {} => Min(s) \in s
  BY <1>2, LeastOf, Zenon
<1> QED BY <1>1, <1>2, <1>3, <1>4, Zenon

\* process_execution_response leaves a manager.
LEMMA ExecutionResponseType ==
    ASSUME NEW m, IsBufferManager(m), m.mode = "running", NEW r, r.batch \in Batches
    PROVE  Stepped(ProcessExecutionResponse(m, r))
<1> DEFINE found == FindElemByKey(m, m.execution_root, r.batch.last)
           n == Min(found)
           t == EndEpochTimestamp(m, r.batch)
           e == AdvanceToExecuted(m, n, t)
<1>1. "running" # "resetting" /\ "panicked" # "resetting"
  OBVIOUS
<1>2. Stepped(m)
  BY <1>1, Zenon DEF Stepped
<1>3. Stepped(Panic(m))
  <2> DEFINE p == Panic(m)
  <2>1. DOMAIN m = {"buffer", "block_rx", "execution_root", "signing_root",
                    "end_epoch_timestamp", "execution", "signing", "persisting",
                    "pending", "mode"}
    BY Zenon DEF IsBufferManager
  <2>2. /\ DOMAIN p = DOMAIN m /\ p.buffer = m.buffer /\ p.block_rx = m.block_rx
        /\ p.execution_root = m.execution_root /\ p.signing_root = m.signing_root
        /\ p.end_epoch_timestamp = m.end_epoch_timestamp
        /\ p.execution = m.execution /\ p.signing = m.signing
        /\ p.persisting = m.persisting /\ p.pending = m.pending /\ p.mode = "panicked"
    BY <2>1 DEF Panic
  <2> HIDE DEF p
  <2>3. Stepped(p)
    BY <1>1, <2>2, Zenon DEF Stepped, IsBufferManager
  <2> QED BY <2>3, Zenon DEF p
<1>4. t \in Blocks \cup {None}
  BY TimestampType, Zenon
<1>5. ASSUME found # {} PROVE Stepped(e) /\ Stepped(AdvanceHead(e, n))
  <2>1. found \subseteq DOMAIN m.buffer /\ found \in SUBSET Nat
    BY PositionsFields, Zenon DEF FindElemByKey
  <2>2. n \in DOMAIN m.buffer
    <3> HIDE DEF found
    <3> QED BY <1>5, <2>1, LeastOf, Zenon
  <2> HIDE DEF n, t
  <2>a. ExecutedItem(m, e, n, t)
    BY <1>4, <2>2, ExecutedFields, Zenon
  <2> HIDE DEF e
  <2>3. IsBufferManager(e) /\ Len(e.buffer) = Len(m.buffer) /\ e.mode = "running"
    BY <2>a, Zenon DEF ExecutedItem
  <2>4. n \in DOMAIN e.buffer
    <3>1. DOMAIN m.buffer = 1 .. Len(m.buffer)
      BY QueueFields, Zenon
    <3>2. DOMAIN e.buffer = 1 .. Len(e.buffer)
      BY <2>3, QueueFields, Zenon
    <3> QED BY <2>2, <2>3, <3>1, <3>2, Zenon
  <2> QED BY <1>1, <2>3, <2>4, AdvanceHeadType, Zenon DEF Stepped
<1> HIDE DEF found, n, t
<1>6. ProcessExecutionResponse(m, r) \in
         {m, Panic(m)} \cup (IF found = {} THEN {} ELSE {e, AdvanceHead(e, n)})
  BY Zenon DEF ProcessExecutionResponse, found, n, t
<1> HIDE DEF e
<1> QED BY <1>2, <1>3, <1>5, <1>6, Zenon

\* So do the handlers of signing responses and of commit messages.
LEMMA SigningResponseType ==
    ASSUME NEW m, IsBufferManager(m), m.mode = "running", NEW r
    PROVE  Stepped(ProcessSigningResponse(m, r))
<1> DEFINE found == {i \in FindElemByKey(m, m.signing_root, r.block) :
                        m.buffer[i].stage = "Executed"}
           n == Min(found)
           item == [m.buffer[n] EXCEPT !.stage = "Signed"]
           d == [m EXCEPT !.buffer[n] = item]
<1>1. ProcessSigningResponse(m, r) = IF found = {} \/ ~r.ok THEN m ELSE d
  BY ItemFieldUpdate, Zenon DEF ProcessSigningResponse
<1>2. "running" # "resetting"
  OBVIOUS
<1>3. ASSUME found # {} PROVE Stepped(d)
  <2>1. found \subseteq DOMAIN m.buffer /\ found \in SUBSET Nat
    BY PositionsFields, Zenon DEF FindElemByKey
  <2>2. n \in found
    <3> HIDE DEF found
    <3> QED BY <1>3, <2>1, LeastOf, Zenon
  <2>3. n \in DOMAIN m.buffer /\ m.buffer[n].stage = "Executed"
    BY <2>1, <2>2, Zenon
  <2> HIDE DEF found, n
  <2>4. m.buffer[n] \in BufferItem
    BY <2>3, ItemFields, Zenon
  <2>5. item \in BufferItem /\ item.batch = m.buffer[n].batch
        /\ (item.stage # "Ordered" <=> m.buffer[n].stage # "Ordered")
    BY <2>3, <2>4 DEF BufferItem
  <2> HIDE DEF item
  <2>6. UpdatesItem(m, d, n, item)
    BY <2>3, <2>5, Zenon DEF UpdatesItem
  <2> HIDE DEF d
  <2> QED BY <1>2, <2>6, ItemUpdateType, Zenon DEF Stepped, SameRequests
<1> HIDE DEF found, d
<1> QED BY <1>1, <1>2, <1>3, Zenon DEF Stepped

\* A commit vote leaves a well-typed manager.
LEMMA CommitVoteType ==
    ASSUME NEW m, IsBufferManager(m), m.mode = "running", NEW n \in DOMAIN m.buffer,
           NEW author \in Validators, NEW matches \in BOOLEAN
    PROVE  Stepped(ProcessCommitVote(m, n, author, matches))
<1> DEFINE sigs == IF matches THEN m.buffer[n].sigs \cup {author}
                   ELSE m.buffer[n].sigs \ {author}
           voted == [m.buffer[n] EXCEPT !.sigs = sigs]
           v == AddSignature(m, n, author, matches)
<1>1. m.buffer[n] \in BufferItem /\ m.buffer[n].sigs \in SUBSET Validators
  BY ItemFields, Zenon
<1>2. sigs \in SUBSET Validators
  BY <1>1, Zenon
<1>3. v = [m EXCEPT !.buffer[n].sigs = sigs]
  BY DEF AddSignature
<1> HIDE DEF sigs
<1>4. voted \in BufferItem /\ voted.batch = m.buffer[n].batch
      /\ voted.stage = m.buffer[n].stage
  BY <1>1, <1>2 DEF BufferItem
<1>6. v = [m EXCEPT !.buffer[n] = voted]
  BY <1>3, ItemFieldUpdate, Zenon
<1>7. ProcessCommitVote(m, n, author, matches) \in {m, v, AdvanceHead(v, n)}
  BY Zenon DEF ProcessCommitVote
<1> HIDE DEF voted
<1> HIDE DEF v
<1>10. UpdatesItem(m, v, n, voted)
  BY <1>4, <1>6, Zenon DEF UpdatesItem
<1>12. IsBufferManager(v) /\ SameQueue(m, v) /\ SameRequests(m, v) /\ DOMAIN v.buffer = DOMAIN m.buffer
  <2>1. IsBufferManager(v) /\ SameQueue(m, v) /\ SameRequests(m, v)
    BY <1>10, ItemUpdateType, Zenon
  <2>2. v.buffer = [m.buffer EXCEPT ![n] = voted]
    BY <1>6 DEF IsBufferManager
  <2> QED BY <2>1, <2>2, Zenon
<1>13. "running" # "resetting" /\ v.mode = "running"
  BY <1>12 DEF SameRequests
<1>14. Stepped(m) /\ Stepped(v)
  BY <1>12, <1>13, Zenon DEF Stepped
<1>15. Stepped(AdvanceHead(v, n))
  BY <1>12, <1>13, AdvanceHeadType, Zenon
<1> QED BY <1>7, <1>14, <1>15, Zenon

\* The same for commit decisions.
LEMMA DecisionType ==
    ASSUME NEW m, IsBufferManager(m), m.mode = "running", NEW n \in DOMAIN m.buffer
    PROVE  Stepped(ProcessCommitDecision(m, n))
<1> DEFINE proved == [m.buffer[n] EXCEPT !.commit_proof = TRUE]
           c == [m EXCEPT !.buffer[n] = proved]
<1>1. m.buffer[n] \in BufferItem
  BY ItemFields, Zenon
<1>2. proved \in BufferItem /\ proved.batch = m.buffer[n].batch
      /\ proved.stage = m.buffer[n].stage
  BY <1>1, Zenon DEF BufferItem
<1>3. ProcessCommitDecision(m, n) \in {c, AdvanceHead(m, n)}
  BY ItemFieldUpdate, Zenon DEF ProcessCommitDecision
<1> HIDE DEF proved
<1>4. UpdatesItem(m, c, n, proved)
  BY <1>2, Zenon DEF UpdatesItem
<1> HIDE DEF c
<1>5. IsBufferManager(c) /\ SameRequests(m, c)
  BY <1>4, ItemUpdateType, Zenon
<1>6. "running" # "resetting"
  OBVIOUS
<1>7. Stepped(c) /\ Stepped(AdvanceHead(m, n))
  BY <1>5, <1>6, AdvanceHeadType, Zenon DEF Stepped, SameRequests
<1> QED BY <1>3, <1>7, Zenon

\* An idle manager stays idle, whatever answers it reads.
LEMMA DrainedHandlers ==
    ASSUME NEW m, IsBufferManager(m), Drained(m), NEW r
    PROVE  ProcessExecutionResponse(m, r) = m /\ ProcessSigningResponse(m, r) = m
<1>1. /\ FindElemByKey(m, m.execution_root, r.batch.last) = {}
      /\ FindElemByKey(m, m.signing_root, r.block) = {}
  BY DrainedFinds, Zenon
<1> QED BY <1>1, Zenon DEF ProcessExecutionResponse, ProcessSigningResponse


-----------------------------------------------------------------------------
(* Every step keeps the types, and state sync alone with the pipeline. *)

\* The numbers in the state.
LEMMA TypeFacts ==
    ASSUME TypeOK
    PROVE  /\ NumBlocks \in Nat /\ root \in Nat /\ ordered_root \in Nat /\ commit_root \in Nat
           /\ Reconfig \in Nat /\ epoch.blocks \in 0 .. NumBlocks
           /\ root \in 0 .. NumBlocks /\ ordered_root \in 0 .. NumBlocks
           /\ commit_root \in 0 .. NumBlocks
           /\ sync.state \in {"idle", "requested", "syncing"}
           /\ sync.target \in 0 .. NumBlocks /\ DOMAIN sync = {"state", "target"}
           /\ \A r \in InFlight(execution_rx) : r.batch \in Batches
<1>1. NumBlocks \in Nat /\ epoch \in EpochPlan
  BY BufferManagerAssumption, Zenon DEF TypeOK
<1>2. epoch.reconfig \in Nat /\ epoch.blocks \in 0 .. NumBlocks
  BY <1>1 DEF EpochPlan
<1>3. root \in 0 .. NumBlocks /\ ordered_root \in 0 .. NumBlocks /\ commit_root \in 0 .. NumBlocks
  BY Zenon DEF TypeOK
<1>4. root \in Nat /\ ordered_root \in Nat /\ commit_root \in Nat
  BY <1>1, <1>3
<1>5. /\ sync.state \in {"idle", "requested", "syncing"}
      /\ sync.target \in 0 .. NumBlocks /\ DOMAIN sync = {"state", "target"}
  BY DEF TypeOK
<1>6. \A r \in InFlight(execution_rx) : r \in ExecutionResponse
  BY Zenon DEF TypeOK, InFlight
<1>7. \A r \in ExecutionResponse : r.batch \in Batches
  BY DEF ExecutionResponse
<1> QED BY <1>1, <1>2, <1>3, <1>4, <1>5, <1>6, <1>7, Zenon DEF Reconfig

\* A step that leaves the block store, the executor and consensus alone.
ManagerOnly ==
    UNCHANGED <<epoch, tree, root, ordered_root, commit_root, sync, errors, syncs, history>>

\* A step of the manager or of a phase that keeps a drained manager so.
LEMMA ManagerStep ==
    ASSUME ExclusiveInv, ManagerOnly, IsBufferManager(bm'),
           execution_rx' \in [ExecutionResponse -> Nat],
           signing_rx' \in [SigningResponse -> Nat],
           ResetInv(bm', sync.state)
    PROVE  ExclusiveInv'
<1>1. /\ epoch' = epoch /\ tree' = tree /\ root' = root /\ ordered_root' = ordered_root
      /\ commit_root' = commit_root /\ sync' = sync /\ errors' = errors /\ syncs' = syncs
      /\ history' = history
  BY Zenon DEF ManagerOnly
<1> QED BY <1>1, Zenon DEF ExclusiveInv, TypeOK

\* An arm of the manager's loop.
LEMMA LoopStep ==
    ASSUME ExclusiveInv, Running, ManagerOnly, Stepped(bm'),
           execution_rx' \in [ExecutionResponse -> Nat],
           signing_rx' \in [SigningResponse -> Nat],
           Drained(bm) => Drained(bm') /\ bm'.mode = "running"
    PROVE  ExclusiveInv'
<1>1. ResetInv(bm', sync.state) /\ IsBufferManager(bm')
  BY Zenon DEF ExclusiveInv, ResetInv, Stepped
<1> QED BY <1>1, ManagerStep, Zenon

\* Advancing the roots where they are None keeps a drained manager so.
LEMMA RootsIfNoneStayDrained ==
    ASSUME NEW m, IsBufferManager(m), Drained(m)
    PROVE  Drained(AdvanceExecutionRootIfNone(m)) /\ Drained(AdvanceSigningRootIfNone(m))
BY RootsStayDrained, Zenon DEF AdvanceExecutionRootIfNone, AdvanceSigningRootIfNone

\* The arm of an execution response.
LEMMA ExecutionStep ==
    ASSUME ExclusiveInv, NEW r \in ExecutionResponse, ReceiveExecutionResponse(r)
    PROVE  bm' = ExecutionArm(bm, r) /\ ExclusiveInv'
<1> DEFINE p == ProcessExecutionResponse(bm, r)
           x == AdvanceExecutionRoot(p)
           a == AdvanceSigningRootIfNone(x)
<1>1. bm' = IF p.mode = "running" THEN a ELSE p
  BY Zenon DEF ReceiveExecutionResponse
<1>2. /\ Running /\ execution_rx[r] > 0 /\ execution_rx' = Receive(execution_rx, r)
      /\ signing_rx' = signing_rx /\ ManagerOnly
  BY Zenon DEF ReceiveExecutionResponse, ManagerOnly
<1>3. /\ IsBufferManager(bm) /\ execution_rx \in [ExecutionResponse -> Nat]
      /\ signing_rx \in [SigningResponse -> Nat] /\ bm.mode = "running"
  BY <1>2, Zenon DEF ExclusiveInv, TypeOK, Running
<1>4. r.batch \in Batches
  BY DEF ExecutionResponse
<1>5. Stepped(p)
  BY <1>3, <1>4, ExecutionResponseType, Zenon
<1>6. p.mode = "running" => Stepped(a)
  <2> HIDE DEF p
  <2>1. IsBufferManager(x) /\ x.mode = p.mode
    BY <1>5, RootsType, Zenon DEF Stepped
  <2> HIDE DEF x
  <2>2. IsBufferManager(a) /\ a.mode = x.mode
    BY <2>1, RootsType, Zenon
  <2> HIDE DEF a
  <2> QED BY <1>5, <2>1, <2>2, Zenon DEF Stepped
<1>7. ASSUME Drained(bm) PROVE p = bm /\ Drained(a) /\ a.mode = "running"
  <2>1. p = bm
    BY <1>3, <1>7, DrainedHandlers, Zenon
  <2> HIDE DEF p
  <2>2. IsBufferManager(x) /\ x.mode = "running" /\ Drained(x)
    BY <1>3, <1>7, <2>1, RootsType, RootsStayDrained, Zenon
  <2> HIDE DEF x
  <2>3. Drained(a) /\ a.mode = "running"
    BY <2>2, RootsType, RootsIfNoneStayDrained, Zenon
  <2> QED BY <2>1, <2>3, Zenon
<1>8. execution_rx' \in [ExecutionResponse -> Nat]
  BY <1>2, <1>3, ReceiveFields, Zenon
<1>9. bm' = ExecutionArm(bm, r)
  BY <1>1, Zenon DEF ExecutionArm
<1> HIDE DEF a, x, p
<1>10. Stepped(bm') /\ (Drained(bm) => Drained(bm') /\ bm'.mode = "running")
  BY <1>1, <1>3, <1>5, <1>6, <1>7, Zenon
<1>11. ExclusiveInv'
  BY <1>2, <1>3, <1>8, <1>10, LoopStep, Zenon
<1> QED BY <1>9, <1>11, Zenon

\* The arm of a signing response.
LEMMA SigningStep ==
    ASSUME ExclusiveInv, NEW r \in SigningResponse, ReceiveSigningResponse(r)
    PROVE  /\ bm' = AdvanceSigningRoot(ProcessSigningResponse(bm, r))
           /\ ExclusiveInv'
<1> DEFINE p == ProcessSigningResponse(bm, r)
           a == AdvanceSigningRoot(p)
<1>1. bm' = a
  BY Zenon DEF ReceiveSigningResponse
<1>2. /\ Running /\ signing_rx[r] > 0 /\ signing_rx' = Receive(signing_rx, r)
      /\ execution_rx' = execution_rx /\ ManagerOnly
  BY Zenon DEF ReceiveSigningResponse, ManagerOnly
<1>3. /\ IsBufferManager(bm) /\ execution_rx \in [ExecutionResponse -> Nat]
      /\ signing_rx \in [SigningResponse -> Nat] /\ bm.mode = "running"
  BY <1>2, Zenon DEF ExclusiveInv, TypeOK, Running
<1>4. Stepped(p)
  BY <1>3, SigningResponseType, Zenon
<1>5. ASSUME Drained(bm) PROVE p = bm
  BY <1>3, <1>5, DrainedHandlers, Zenon
<1>6. signing_rx' \in [SigningResponse -> Nat]
  BY <1>2, <1>3, ReceiveFields, Zenon
<1> HIDE DEF p
<1>7. IsBufferManager(a) /\ a.mode = p.mode /\ (Drained(p) => Drained(a))
  BY <1>4, RootsType, RootsStayDrained, Zenon DEF Stepped
<1> HIDE DEF a
<1>8. Stepped(bm') /\ (Drained(bm) => Drained(bm') /\ bm'.mode = "running")
  BY <1>1, <1>3, <1>4, <1>5, <1>7, Zenon DEF Stepped
<1>9. ExclusiveInv'
  BY <1>2, <1>3, <1>6, <1>8, LoopStep, Zenon
<1> QED BY <1>1, <1>9, Zenon DEF a, p

\* The arms of the commit messages: both processed the item at some position.
CommitArm(m, p, a) ==
    IF p.mode = "running" /\ Len(p.buffer) < Len(m.buffer)
    THEN a = AdvanceSigningRootIfNone(AdvanceExecutionRootIfNone(p))
    ELSE a = p

\* The arm of a commit message keeps a reset and a sync to themselves.
LEMMA CommitStep ==
    ASSUME ExclusiveInv, Running, ManagerOnly, UNCHANGED <<execution_rx, signing_rx>>,
           NEW block, NEW n \in Positions(bm, block), NEW p, Stepped(p), CommitArm(bm, p, bm')
    PROVE  ExclusiveInv'
<1> DEFINE x == AdvanceExecutionRootIfNone(p)
           a == AdvanceSigningRootIfNone(x)
<1>1. /\ IsBufferManager(bm) /\ execution_rx' \in [ExecutionResponse -> Nat]
      /\ signing_rx' \in [SigningResponse -> Nat]
  BY Zenon DEF ExclusiveInv, TypeOK
<1>2. bm' = a \/ bm' = p
  BY Zenon DEF CommitArm
<1>3. IsBufferManager(x) /\ x.mode = p.mode
  BY RootsType, Zenon DEF Stepped
<1> HIDE DEF x
<1>4. IsBufferManager(a) /\ a.mode = x.mode
  BY <1>3, RootsType, Zenon
<1> HIDE DEF a
<1>5. Stepped(bm')
  BY <1>2, <1>3, <1>4, Zenon DEF Stepped
<1>6. ~Drained(bm)
  BY DrainedFinds, Zenon
<1> QED BY <1>1, <1>5, <1>6, LoopStep, Zenon

\* AfterCommitMessage takes the step CommitArm describes.
LEMMA AfterCommit ==
    ASSUME NEW p, AfterCommitMessage(p)
    PROVE  CommitArm(bm, p, bm')
BY Zenon DEF AfterCommitMessage, CommitArm

\* The arm of a commit vote.
LEMMA CommitVoteStep ==
    ASSUME ExclusiveInv, NEW author \in Validators, NEW block, ReceiveCommitVote(author, block)
    PROVE  /\ ExclusiveInv'
           /\ \E n \in Positions(bm, block), matches \in BOOLEAN :
                 CommitArm(bm, ProcessCommitVote(bm, n, author, matches), bm')
<1>1. PICK n \in Positions(bm, block), matches \in BOOLEAN :
          AfterCommitMessage(ProcessCommitVote(bm, n, author, matches))
  BY Zenon DEF ReceiveCommitVote
<1> DEFINE p == ProcessCommitVote(bm, n, author, matches)
<1>2. Running /\ ManagerOnly /\ UNCHANGED <<execution_rx, signing_rx>>
  BY Zenon DEF ReceiveCommitVote, ManagerOnly
<1>3. IsBufferManager(bm) /\ bm.mode = "running"
  BY <1>2, Zenon DEF ExclusiveInv, TypeOK, Running
<1>4. n \in DOMAIN bm.buffer
  BY Zenon DEF Positions
<1>5. Stepped(p)
  BY <1>3, <1>4, CommitVoteType, Zenon
<1>6. CommitArm(bm, p, bm')
  BY <1>1, AfterCommit, Zenon
<1> HIDE DEF p
<1>7. ExclusiveInv'
  BY <1>2, <1>5, <1>6, CommitStep, Zenon
<1> QED BY <1>6, <1>7, Zenon DEF p

\* The arm of a commit decision.
LEMMA CommitDecisionStep ==
    ASSUME ExclusiveInv, NEW block, ReceiveCommitDecision(block)
    PROVE  /\ ExclusiveInv'
           /\ \E n \in Positions(bm, block) : CommitArm(bm, ProcessCommitDecision(bm, n), bm')
<1>1. PICK n \in Positions(bm, block) : AfterCommitMessage(ProcessCommitDecision(bm, n))
  BY Zenon DEF ReceiveCommitDecision
<1> DEFINE p == ProcessCommitDecision(bm, n)
<1>2. Running /\ ManagerOnly /\ UNCHANGED <<execution_rx, signing_rx>>
  BY Zenon DEF ReceiveCommitDecision, ManagerOnly
<1>3. IsBufferManager(bm) /\ bm.mode = "running"
  BY <1>2, Zenon DEF ExclusiveInv, TypeOK, Running
<1>4. n \in DOMAIN bm.buffer
  BY Zenon DEF Positions
<1>5. Stepped(p)
  BY <1>3, <1>4, DecisionType, Zenon
<1>6. CommitArm(bm, p, bm')
  BY <1>1, AfterCommit, Zenon
<1> HIDE DEF p
<1>7. ExclusiveInv'
  BY <1>2, <1>5, <1>6, CommitStep, Zenon
<1> QED BY <1>6, <1>7, Zenon DEF p

\* The manager after it takes a batch from its channel.
Pushed(m) == [m EXCEPT !.block_rx = Tail(@),
                       !.buffer = Append(@, NewOrdered(Head(m.block_rx)))]

\* The arm of the ordered blocks.
LEMMA OrderedStep ==
    ASSUME ExclusiveInv, ReceiveOrderedBlocks
    PROVE  bm' = AdvanceExecutionRootIfNone(Pushed(bm)) /\ bm.block_rx # <<>> /\ ExclusiveInv'
<1> DEFINE p == Pushed(bm)
           a == AdvanceExecutionRootIfNone(p)
<1>1. bm' = a
  BY Zenon DEF ReceiveOrderedBlocks, Pushed
<1>2. Running /\ ManagerOnly /\ UNCHANGED <<execution_rx, signing_rx>> /\ bm.block_rx # <<>>
  BY Zenon DEF ReceiveOrderedBlocks, ManagerOnly
<1>3. /\ IsBufferManager(bm) /\ bm.mode = "running"
      /\ execution_rx' \in [ExecutionResponse -> Nat] /\ signing_rx' \in [SigningResponse -> Nat]
  BY <1>2, Zenon DEF ExclusiveInv, TypeOK, Running
<1>4. IsBufferManager(p) /\ p.mode = "running"
  BY <1>2, <1>3, PushKeepsQueue, Zenon DEF Pushed, SameRequests
<1> HIDE DEF p
<1>5. IsBufferManager(a) /\ a.mode = p.mode
  BY <1>4, RootsType, Zenon
<1> HIDE DEF a
<1>6. "running" # "resetting"
  OBVIOUS
<1>7. Stepped(bm') /\ ~Drained(bm)
  BY <1>1, <1>2, <1>4, <1>5, <1>6, Zenon DEF Stepped, Drained
<1>8. ExclusiveInv'
  BY <1>2, <1>3, <1>7, LoopStep, Zenon
<1> QED BY <1>1, <1>2, <1>8, Zenon DEF a, p

\* The manager starts a reset.
LEMMA ResetStep ==
    ASSUME ExclusiveInv, ProcessResetRequest
    PROVE  Resets(bm, bm') /\ ExclusiveInv'
<1>1. /\ IsBufferManager(bm) /\ execution_rx' \in [ExecutionResponse -> Nat]
      /\ signing_rx' \in [SigningResponse -> Nat] /\ ManagerOnly /\ sync.state = "requested"
  BY Zenon DEF ExclusiveInv, TypeOK, ProcessResetRequest, ManagerOnly
<1>2. Resets(bm, bm')
  BY <1>1, ResetFields, Zenon DEF ProcessResetRequest
<1>3. "requested" # "syncing"
  OBVIOUS
<1>4. IsBufferManager(bm') /\ ResetInv(bm', sync.state)
  BY <1>1, <1>2, <1>3, Zenon DEF Resets, ResetInv, Emptied
<1> QED BY <1>1, <1>2, <1>4, ManagerStep, Zenon

\* The manager in another mode.
LEMMA ModeFields ==
    ASSUME NEW m, IsBufferManager(m), NEW mode \in {"running", "stopped", "panicked"}
    PROVE  LET a == [m EXCEPT !.mode = mode] IN
           /\ IsBufferManager(a) /\ a.mode = mode /\ a.pending = m.pending
           /\ Drained(m) => Drained(a)
<1> DEFINE a == [m EXCEPT !.mode = mode]
<1>1. /\ DOMAIN a = DOMAIN m /\ a.buffer = m.buffer /\ a.block_rx = m.block_rx
      /\ a.execution_root = m.execution_root /\ a.signing_root = m.signing_root
      /\ a.end_epoch_timestamp = m.end_epoch_timestamp
      /\ a.execution = m.execution /\ a.signing = m.signing
      /\ a.persisting = m.persisting /\ a.pending = m.pending /\ a.mode = mode
  BY DEF IsBufferManager
<1> HIDE DEF a
<1>2. IsBufferManager(a) /\ (Drained(m) => Drained(a))
  BY <1>1, Zenon DEF IsBufferManager, Drained, Emptied
<1> QED BY <1>1, <1>2, Zenon DEF a

\* The manager ends a reset, its pipeline drained.
LEMMA AcknowledgeStep ==
    ASSUME ExclusiveInv, AcknowledgeReset
    PROVE  /\ ExclusiveInv' /\ IsBufferManager(bm) /\ bm.mode = "resetting"
           /\ sync'.target = sync.target /\ sync.state = "requested"
           /\ \/ /\ sync.target = None /\ bm' = [bm EXCEPT !.mode = "stopped"]
                 /\ sync'.state = "idle"
              \/ /\ sync.target # None /\ bm' = [bm EXCEPT !.mode = "running"]
                 /\ sync'.state = "syncing"
<1>1. /\ IsBufferManager(bm) /\ bm.mode = "resetting" /\ ~OngoingTasks(bm)
      /\ sync.state = "requested" /\ Emptied(bm) /\ bm.block_rx = <<>>
  BY Zenon DEF ExclusiveInv, TypeOK, AcknowledgeReset, ResetInv
<1>2. Drained(bm)
  BY <1>1, Zenon DEF Drained, OngoingTasks
<1>3. /\ sync' \in [state : {"idle", "requested", "syncing"}, target : 0 .. NumBlocks]
      /\ sync'.target = sync.target
      /\ \/ /\ sync.target = None /\ bm' = [bm EXCEPT !.mode = "stopped"]
            /\ sync'.state = "idle"
         \/ /\ sync.target # None /\ bm' = [bm EXCEPT !.mode = "running"]
            /\ sync'.state = "syncing"
  BY DEF ExclusiveInv, TypeOK, AcknowledgeReset
<1>4. /\ "running" # "resetting" /\ "stopped" # "resetting" /\ "idle" # "syncing"
      /\ "running" \in {"running", "stopped", "panicked"}
      /\ "stopped" \in {"running", "stopped", "panicked"}
  OBVIOUS
<1>5. IsBufferManager(bm') /\ ResetInv(bm', sync'.state)
  <2>1. CASE bm' = [bm EXCEPT !.mode = "stopped"] /\ sync'.state = "idle"
    <3>1. IsBufferManager(bm') /\ bm'.mode = "stopped"
      BY <1>1, <1>4, <2>1, ModeFields, Zenon
    <3> QED BY <1>4, <2>1, <3>1, Zenon DEF ResetInv
  <2>2. CASE bm' = [bm EXCEPT !.mode = "running"] /\ sync'.state = "syncing"
    <3>1. IsBufferManager(bm') /\ bm'.mode = "running" /\ Drained(bm')
      BY <1>1, <1>2, <1>4, <2>2, ModeFields, Zenon
    <3> QED BY <1>4, <3>1, Zenon DEF ResetInv
  <2> QED BY <1>3, <2>1, <2>2, Zenon
<1>6. UNCHANGED <<epoch, execution_rx, signing_rx, tree, root, ordered_root,
                  commit_root, errors, syncs, history>>
  BY Zenon DEF AcknowledgeReset
<1>7. ExclusiveInv'
  BY <1>3, <1>5, <1>6, Zenon DEF ExclusiveInv, TypeOK
<1> QED BY <1>1, <1>3, <1>7, Zenon

\* The manager after the wait at the end of the epoch.
EndedEpoch(m) ==
    [m EXCEPT !.mode = "running", !.persisting = @ \o m.pending, !.pending = <<>>]

\* The wait at the end of the epoch hands over the pending request only.
LEMMA EndedFields ==
    ASSUME NEW m, IsBufferManager(m), m.persisting = <<>>
    PROVE  LET a == EndedEpoch(m) IN
           /\ IsBufferManager(a) /\ SameQueue(m, a) /\ a.execution = m.execution
           /\ a.mode = "running" /\ a.pending = <<>> /\ a.buffer = m.buffer
           /\ a.execution_root = m.execution_root /\ a.persisting = m.pending
           /\ a.end_epoch_timestamp = m.end_epoch_timestamp
<1> DEFINE a == EndedEpoch(m)
           q == m.persisting \o m.pending
<1>1. /\ DOMAIN a = DOMAIN m /\ a.buffer = m.buffer /\ a.block_rx = m.block_rx
      /\ a.execution_root = m.execution_root /\ a.signing_root = m.signing_root
      /\ a.end_epoch_timestamp = m.end_epoch_timestamp
      /\ a.execution = m.execution /\ a.signing = m.signing
      /\ a.persisting = q /\ a.pending = <<>> /\ a.mode = "running"
  BY DEF IsBufferManager, EndedEpoch
<1> HIDE DEF a
<1>2. m.persisting \in Seq(PersistingRequest) /\ m.pending \in Seq(PersistingRequest)
  BY Zenon DEF IsBufferManager
<1>3. q = m.pending /\ <<>> \in Seq(PersistingRequest)
  BY <1>2
<1> HIDE DEF q
<1>4. "running" \in {"running", "resetting", "ending", "stopped", "panicked"}
  OBVIOUS
<1>5. IsBufferManager(a)
  BY <1>1, <1>2, <1>3, <1>4, Zenon DEF IsBufferManager
<1>6. SameQueue(m, a)
  BY <1>1, SameBufferSameQueue, Zenon
<1> QED BY <1>1, <1>3, <1>5, <1>6, Zenon DEF a

\* The manager ends the wait inside advance_head, its pipeline drained.
LEMMA EpochEndStep ==
    ASSUME ExclusiveInv, PersistEpochEnd
    PROVE  /\ ExclusiveInv' /\ IsBufferManager(bm) /\ bm.mode = "ending"
           /\ bm.persisting = <<>> /\ bm' = EndedEpoch(bm)
<1>1. /\ IsBufferManager(bm) /\ bm.mode = "ending" /\ bm.persisting = <<>>
      /\ execution_rx' \in [ExecutionResponse -> Nat]
      /\ signing_rx' \in [SigningResponse -> Nat] /\ ManagerOnly
  BY Zenon DEF ExclusiveInv, TypeOK, PersistEpochEnd, ManagerOnly, OngoingTasks
<1>2. bm' = EndedEpoch(bm)
  BY Zenon DEF PersistEpochEnd, EndedEpoch
<1>3. "ending" # "running" /\ "running" # "resetting"
  OBVIOUS
<1>4. sync.state # "syncing"
  BY <1>1, <1>3, Zenon DEF ExclusiveInv, ResetInv
<1>5. IsBufferManager(bm') /\ bm'.mode = "running"
  BY <1>1, <1>2, EndedFields, Zenon
<1>6. ResetInv(bm', sync.state)
  BY <1>3, <1>4, <1>5, Zenon DEF ResetInv
<1>7. ExclusiveInv'
  BY <1>1, <1>5, <1>6, ManagerStep, Zenon
<1> QED BY <1>1, <1>2, <1>7, Zenon

\* A step of a phase.
LEMMA PhaseStep ==
    ASSUME ExclusiveInv, IsBufferManager(bm'), ResetInv(bm', sync.state),
           execution_rx' \in [ExecutionResponse -> Nat],
           signing_rx' \in [SigningResponse -> Nat],
           tree' \subseteq Blocks, root' \in 0 .. NumBlocks, errors' \in Nat,
           UNCHANGED <<epoch, ordered_root, commit_root, sync, syncs, history>>
    PROVE  ExclusiveInv'
<1>1. {root', ordered_root', commit_root'} \subseteq 0 .. NumBlocks
  BY Zenon DEF ExclusiveInv, TypeOK
<1> QED BY <1>1, Zenon DEF ExclusiveInv, TypeOK

\* The numbers of a partly executed batch.
LEMMA PartBlocks ==
    ASSUME NEW b \in Batches, NEW last \in b.first - 1 .. b.last
    PROVE  b.first .. last \subseteq Blocks
<1>1. b.first \in Nat /\ b.last \in Nat /\ 1 <= b.first /\ b.last \in Blocks
  BY BatchFields, Zenon
<1>2. NumBlocks \in Nat
  BY BufferManagerAssumption, Zenon
<1> QED BY <1>1, <1>2 DEF Blocks

\* The execution phase answers a request.
LEMMA ExecuteStep ==
    ASSUME ExclusiveInv, NEW batch \in Batches, Execute(batch)
    PROVE  /\ ExclusiveInv' /\ UNCHANGED <<epoch, root, ordered_root, sync, syncs, history>>
           /\ bm.execution[batch] > 0 /\ bm' = [bm EXCEPT !.execution = Receive(@, batch)]
           /\ \E last \in batch.first - 1 .. batch.last :
                 ExecutesUpTo(bm, bm', batch, last, InFlight(execution_rx),
                              InFlight(execution_rx'), tree, tree', root)
<1>1. PICK last \in batch.first - 1 .. batch.last :
          /\ tree' = tree \cup batch.first .. last
          /\ execution_rx' = Send(execution_rx, {[batch |-> batch, ok |-> last = batch.last]})
          /\ IF IsExecutedParent(batch.first - 1)
             THEN errors' = IF last = batch.last THEN errors ELSE errors + 1
             ELSE last = batch.first - 1 /\ UNCHANGED errors
  BY Zenon DEF Execute
<1> DEFINE r == [batch |-> batch, ok |-> last = batch.last]
<1>2. /\ bm.execution[batch] > 0 /\ bm' = [bm EXCEPT !.execution = Receive(@, batch)]
      /\ UNCHANGED <<epoch, signing_rx, root, ordered_root, commit_root, sync, syncs, history>>
  BY Zenon DEF Execute
<1>3. /\ IsBufferManager(bm) /\ execution_rx \in [ExecutionResponse -> Nat]
      /\ signing_rx' \in [SigningResponse -> Nat] /\ tree \subseteq Blocks
      /\ root' \in 0 .. NumBlocks /\ errors \in Nat
  BY <1>2, Zenon DEF ExclusiveInv, TypeOK
<1>4. /\ IsBufferManager(bm') /\ SameQueue(bm, bm') /\ SameRequests(bm, bm')
      /\ batch \in InFlight(bm.execution)
      /\ bm'.buffer = bm.buffer /\ bm'.block_rx = bm.block_rx
      /\ bm'.execution_root = bm.execution_root /\ bm'.signing_root = bm.signing_root
      /\ \A c \in InFlight(bm'.execution) : c \in InFlight(bm.execution)
  BY <1>2, <1>3, AnsweredFields, Zenon
<1>5. ResetInv(bm', sync.state)
  BY <1>4, Zenon DEF ExclusiveInv, ResetInv, Emptied, Drained, SameRequests
<1>6. errors' \in Nat
  BY <1>1, <1>3
<1>7. tree' \subseteq Blocks
  BY <1>1, <1>3, PartBlocks, Zenon
<1>8. r \in ExecutionResponse /\ r.batch = batch
  BY DEF ExecutionResponse
<1>9. r.ok => last = batch.last
  BY Zenon
<1>10. execution_rx' = Send(execution_rx, {r})
  BY <1>1, Zenon
<1> HIDE DEF r
<1>11. /\ execution_rx' \in [ExecutionResponse -> Nat]
       /\ \A e \in InFlight(execution_rx') : e \in InFlight(execution_rx) \/ e = r
  <2> DEFINE T == {r}
  <2>1. T \in SUBSET ExecutionResponse /\ \A e : e \in T => e = r
    BY <1>8, Zenon
  <2>2. execution_rx' = Send(execution_rx, T)
    BY <1>10, Zenon
  <2> HIDE DEF T
  <2>3. \A e : e \in InFlight(Send(execution_rx, T)) <=> e \in InFlight(execution_rx) \/ e \in T
    BY <1>3, <2>1, SendContent, Zenon
  <2>4. execution_rx' \in [ExecutionResponse -> Nat]
    BY <1>3, <2>2, SendType, Zenon
  <2> QED BY <2>1, <2>2, <2>3, <2>4, Zenon
<1>12. batch.first - 1 \in tree \/ batch.first - 1 = root \/ last = batch.first - 1
  BY <1>1, Zenon DEF IsExecutedParent
<1>13. ExecutesUpTo(bm, bm', batch, last, InFlight(execution_rx), InFlight(execution_rx'),
                    tree, tree', root)
  BY <1>1, <1>4, <1>8, <1>9, <1>11, <1>12, Zenon DEF ExecutesUpTo
<1>14. ExclusiveInv'
  BY <1>2, <1>3, <1>4, <1>5, <1>6, <1>7, <1>11, PhaseStep, Zenon
<1> QED BY <1>2, <1>13, <1>14, Zenon

\* The signing phase answers a request.
LEMMA SignStep ==
    ASSUME ExclusiveInv, NEW block \in Blocks, Sign(block)
    PROVE  /\ ExclusiveInv' /\ UNCHANGED <<epoch, execution_rx, tree, root, ordered_root, sync, syncs, history>>
           /\ bm.signing[block] > 0 /\ bm' = [bm EXCEPT !.signing = Receive(@, block)]
<1>1. PICK ok \in BOOLEAN :
          /\ errors' = IF ok THEN errors ELSE errors + 1
          /\ signing_rx' = Send(signing_rx, {[block |-> block, ok |-> ok]})
  BY Zenon DEF Sign
<1>2. /\ bm.signing[block] > 0 /\ bm' = [bm EXCEPT !.signing = Receive(@, block)]
      /\ UNCHANGED <<epoch, execution_rx, tree, root, ordered_root, commit_root, sync, syncs, history>>
  BY Zenon DEF Sign
<1>3. /\ IsBufferManager(bm) /\ execution_rx' \in [ExecutionResponse -> Nat]
      /\ signing_rx \in [SigningResponse -> Nat] /\ tree' \subseteq Blocks
      /\ root' \in 0 .. NumBlocks /\ errors \in Nat
  BY <1>2, Zenon DEF ExclusiveInv, TypeOK
<1>4. /\ IsBufferManager(bm') /\ SameRequests(bm, bm') /\ block \in InFlight(bm.signing)
      /\ bm'.buffer = bm.buffer /\ bm'.block_rx = bm.block_rx
      /\ bm'.execution_root = bm.execution_root /\ bm'.signing_root = bm.signing_root
  BY <1>2, <1>3, AnsweredFields, Zenon
<1>5. ResetInv(bm', sync.state)
  BY <1>4, Zenon DEF ExclusiveInv, ResetInv, Emptied, Drained, SameRequests
<1>6. errors' \in Nat
  BY <1>1, <1>3
<1>7. signing_rx' \in [SigningResponse -> Nat]
  BY <1>1, <1>3, SendType, Zenon
<1>8. ExclusiveInv'
  BY <1>2, <1>3, <1>4, <1>5, <1>6, <1>7, PhaseStep, Zenon
<1> QED BY <1>2, <1>8, Zenon

\* The manager after its first persisting request is answered.
LEMMA PersistedFields ==
    ASSUME NEW m, IsBufferManager(m), m.persisting # <<>>
    PROVE  LET a == [m EXCEPT !.persisting = Tail(@)] IN
           /\ Persisted(m, a) /\ a.buffer = m.buffer /\ a.block_rx = m.block_rx
           /\ a.execution_root = m.execution_root /\ a.signing_root = m.signing_root
<1> DEFINE t == Tail(m.persisting)
           a == [m EXCEPT !.persisting = t]
<1>1. t \in Seq(PersistingRequest)
  <2>1. m.persisting \in Seq(PersistingRequest)
    BY Zenon DEF IsBufferManager
  <2> QED BY <2>1, TailFields, Zenon
<1>2. [m EXCEPT !.persisting = Tail(@)] = a
  BY DEF IsBufferManager
<1> HIDE DEF t
<1>3. /\ DOMAIN a = DOMAIN m /\ a.buffer = m.buffer /\ a.block_rx = m.block_rx
      /\ a.execution_root = m.execution_root /\ a.signing_root = m.signing_root
      /\ a.end_epoch_timestamp = m.end_epoch_timestamp
      /\ a.execution = m.execution /\ a.signing = m.signing
      /\ a.persisting = t /\ a.pending = m.pending /\ a.mode = m.mode
  BY DEF IsBufferManager
<1> HIDE DEF a
<1>4. IsBufferManager(a) /\ SameQueue(m, a)
  BY <1>1, <1>3, SameBufferSameQueue, Zenon DEF IsBufferManager
<1>5. Persisted(m, a)
  BY <1>3, <1>4, Zenon DEF Persisted, t
<1> QED BY <1>2, <1>3, <1>5, Zenon

\* The persisting phase answers a request.
LEMMA PersistStep ==
    ASSUME ExclusiveInv, Persist
    PROVE  /\ ExclusiveInv' /\ bm.persisting # <<>>
           /\ UNCHANGED <<epoch, execution_rx, ordered_root, sync, syncs, history>>
<1>1. /\ bm.persisting # <<>>
      /\ UNCHANGED <<epoch, execution_rx, signing_rx, ordered_root, commit_root,
                     sync, errors, syncs, history>>
  BY Zenon DEF Persist
<1> DEFINE q == Head(bm.persisting)
           a == [bm EXCEPT !.persisting = Tail(@)]
<1>2. /\ IsBufferManager(bm) /\ execution_rx' \in [ExecutionResponse -> Nat]
      /\ signing_rx' \in [SigningResponse -> Nat] /\ tree \subseteq Blocks
      /\ root \in 0 .. NumBlocks /\ errors' \in Nat
  BY <1>1, Zenon DEF ExclusiveInv, TypeOK
<1>3. /\ bm' = a \/ bm' = Panic(bm)
      /\ tree' = tree \/ tree' = {} \/ tree' = tree \ (1 .. q.last)
      /\ root' = root \/ root' = q.last
  BY Zenon DEF Persist
<1>4. tree' \subseteq Blocks
  BY <1>2, <1>3, Zenon
<1>5. root' \in 0 .. NumBlocks
  <2>1. bm.persisting \in Seq(PersistingRequest)
    BY <1>2, Zenon DEF IsBufferManager
  <2>2. q \in PersistingRequest
    BY <1>1, <2>1
  <2>3. q.last \in Blocks
    BY <2>2 DEF PersistingRequest
  <2>4. q.last \in 0 .. NumBlocks
    BY <2>3 DEF Blocks
  <2> QED BY <1>2, <1>3, <2>4, Zenon
<1>6. /\ Persisted(bm, a) /\ a.buffer = bm.buffer /\ a.block_rx = bm.block_rx
      /\ a.execution_root = bm.execution_root /\ a.signing_root = bm.signing_root
  BY <1>1, <1>2, PersistedFields, Zenon
<1>7. IsBufferManager(Panic(bm)) /\ Panic(bm).mode = "panicked"
  <2>1. "panicked" \in {"running", "stopped", "panicked"}
    OBVIOUS
  <2> QED BY <1>2, <2>1, ModeFields, Zenon DEF Panic
<1>8. "panicked" # "resetting"
  OBVIOUS
<1> HIDE DEF a
<1>9. ~Drained(bm)
  BY <1>1, Zenon DEF Drained
<1>10. IsBufferManager(bm') /\ ResetInv(bm', sync.state)
  BY <1>3, <1>6, <1>7, <1>8, <1>9, Zenon DEF Persisted, ExclusiveInv, ResetInv, Emptied
<1>11. ExclusiveInv'
  BY <1>1, <1>2, <1>4, <1>5, <1>10, PhaseStep, Zenon
<1> QED BY <1>1, <1>11, Zenon

\* Consensus orders a batch.
LEMMA OrderStep ==
    ASSUME ExclusiveInv, CommitOrdered
    PROVE  /\ ExclusiveInv' /\ UNCHANGED <<epoch, execution_rx, tree, root, sync, syncs, history>>
           /\ ordered_root < ordered_root' /\ ordered_root' <= epoch.blocks
           /\ Orders(bm, bm', ordered_root, ordered_root') /\ sync.state = "idle"
           /\ bm'.signing_root = bm.signing_root
<1>1. PICK last \in ordered_root + 1 .. epoch.blocks :
          /\ bm' = [bm EXCEPT !.block_rx = Append(@, [first |-> ordered_root + 1, last |-> last])]
          /\ ordered_root' = last
  BY Zenon DEF CommitOrdered
<1>2. /\ sync.state = "idle" /\ bm.mode # "stopped"
      /\ UNCHANGED <<epoch, execution_rx, signing_rx, tree, root, commit_root, sync, errors, syncs, history>>
  BY Zenon DEF CommitOrdered, ConsensusReady
<1>3. /\ NumBlocks \in Nat /\ ordered_root \in Nat /\ epoch.blocks \in 0 .. NumBlocks
      /\ root \in 0 .. NumBlocks /\ commit_root \in 0 .. NumBlocks
  BY TypeFacts, Zenon DEF ExclusiveInv
<1> DEFINE b == [first |-> ordered_root + 1, last |-> last]
           rx == Append(bm.block_rx, b)
           a == [bm EXCEPT !.block_rx = rx]
<1>4. b \in Batches /\ ordered_root < last /\ last <= epoch.blocks /\ last \in 0 .. NumBlocks
  BY <1>3 DEF Batches, Blocks
<1>5. IsBufferManager(bm) /\ bm.block_rx \in Seq(Batches)
  BY Zenon DEF ExclusiveInv, TypeOK, IsBufferManager
<1>6. bm' = a
  BY <1>1, <1>5 DEF IsBufferManager
<1> HIDE DEF b
<1>7. rx \in Seq(Batches)
  BY <1>4, <1>5
<1> HIDE DEF rx
<1>8. /\ DOMAIN a = DOMAIN bm /\ a.buffer = bm.buffer /\ a.block_rx = rx
      /\ a.execution_root = bm.execution_root /\ a.signing_root = bm.signing_root
      /\ a.end_epoch_timestamp = bm.end_epoch_timestamp
      /\ a.execution = bm.execution /\ a.signing = bm.signing
      /\ a.persisting = bm.persisting /\ a.pending = bm.pending /\ a.mode = bm.mode
  BY <1>5 DEF IsBufferManager
<1> HIDE DEF a
<1>9. IsBufferManager(a)
  BY <1>5, <1>7, <1>8, Zenon DEF IsBufferManager
<1>10. Orders(bm, a, ordered_root, last)
  BY <1>8, <1>9, Zenon DEF Orders, SameRequests, rx, b
<1>11. "idle" # "requested" /\ "idle" # "syncing"
  OBVIOUS
<1>12. ResetInv(a, sync.state)
  BY <1>2, <1>8, <1>11, Zenon DEF ExclusiveInv, ResetInv
<1>13. {root', ordered_root', commit_root'} \subseteq 0 .. NumBlocks
  BY <1>1, <1>2, <1>3, <1>4, Zenon
<1>14. ExclusiveInv'
  BY <1>2, <1>6, <1>9, <1>12, <1>13, Zenon DEF ExclusiveInv, TypeOK
<1> QED BY <1>1, <1>2, <1>4, <1>6, <1>8, <1>10, <1>14, Zenon

\* Consensus asks for a reset.
LEMMA RequestStep ==
    ASSUME ExclusiveInv, RequestSync \/ RequestStop
    PROVE  /\ ExclusiveInv' /\ UNCHANGED <<epoch, bm, execution_rx, tree, root, ordered_root>>
           /\ sync.state = "idle" /\ sync'.state = "requested"
           /\ \/ sync'.target = None
              \/ sync'.target < Reconfig /\ sync'.target <= epoch.blocks
<1>1. /\ UNCHANGED <<epoch, bm, execution_rx, signing_rx, tree, root, ordered_root,
                     commit_root, errors, history>>
      /\ sync.state = "idle"
  BY Zenon DEF RequestSync, RequestStop, ConsensusReady
<1>2. \/ sync' = [state |-> "requested", target |-> None] /\ syncs' = syncs
      \/ /\ syncs' = syncs + 1
         /\ \E t \in 1 .. epoch.blocks :
               t < Reconfig /\ sync' = [state |-> "requested", target |-> t]
  BY Zenon DEF RequestSync, RequestStop
<1>3. NumBlocks \in Nat /\ epoch.blocks \in 0 .. NumBlocks /\ syncs \in Nat
  BY TypeFacts, Zenon DEF ExclusiveInv, TypeOK
<1>4. \A t \in 1 .. epoch.blocks : t \in 0 .. NumBlocks /\ t <= epoch.blocks
  BY <1>3
<1>5. syncs' \in Nat /\ 0 \in 0 .. NumBlocks
  BY <1>2, <1>3
<1>6. /\ sync' \in [state : {"idle", "requested", "syncing"}, target : 0 .. NumBlocks]
      /\ sync'.state = "requested"
      /\ \/ sync'.target = None
         \/ sync'.target < Reconfig /\ sync'.target <= epoch.blocks
  BY <1>2, <1>4, <1>5 DEF None
<1>7. "idle" # "requested" /\ "requested" # "syncing"
  OBVIOUS
<1>8. ResetInv(bm', sync'.state)
  BY <1>1, <1>6, <1>7, Zenon DEF ExclusiveInv, ResetInv
<1>9. ExclusiveInv'
  BY <1>1, <1>5, <1>6, <1>8, Zenon DEF ExclusiveInv, TypeOK
<1> QED BY <1>1, <1>6, <1>9, Zenon

\* State sync ends.
LEMMA SyncEndStep ==
    ASSUME ExclusiveInv, FinishSync \/ FailSync
    PROVE  /\ ExclusiveInv' /\ UNCHANGED <<epoch, bm, execution_rx, syncs>>
           /\ sync.state = "syncing" /\ sync'.state = "idle" /\ tree' = {}
           /\ \/ root' = root /\ ordered_root' = ordered_root
              \/ /\ root' = sync.target /\ ordered_root' = sync.target
                 /\ LeftBehind(sync.target) => Leftover'
<1>1. /\ UNCHANGED <<epoch, bm, execution_rx, signing_rx, syncs>>
      /\ sync.state = "syncing" /\ sync' = [state |-> "idle", target |-> None] /\ tree' = {}
      /\ \/ root' = root /\ ordered_root' = ordered_root /\ commit_root' = commit_root
         \/ /\ root' = sync.target /\ ordered_root' = sync.target /\ commit_root' = sync.target
            /\ LeftBehind(sync.target) => Leftover'
  BY Zenon DEF FinishSync, FailSync, SyncError, Leftover
<1>2. errors' = errors \/ errors' = errors + 1
  BY Zenon DEF FinishSync, FailSync
<1>3. /\ NumBlocks \in Nat /\ root \in 0 .. NumBlocks /\ ordered_root \in 0 .. NumBlocks
      /\ commit_root \in 0 .. NumBlocks /\ sync.target \in 0 .. NumBlocks
  BY TypeFacts, Zenon DEF ExclusiveInv
<1>4. {root', ordered_root', commit_root'} \subseteq 0 .. NumBlocks
  BY <1>1, <1>3, Zenon
<1>5. sync' \in [state : {"idle", "requested", "syncing"}, target : 0 .. NumBlocks]
      /\ sync'.state = "idle" /\ "idle" # "syncing" /\ "running" # "resetting"
  BY <1>1, <1>3 DEF None
<1>6. errors' \in Nat
  <2>1. errors \in Nat
    BY Zenon DEF ExclusiveInv, TypeOK
  <2> QED BY <1>2, <2>1
<1>7. ResetInv(bm', sync'.state)
  BY <1>1, <1>5, Zenon DEF ExclusiveInv, ResetInv
<1>8. history' \subseteq {"leftover", "lost"}
  BY Zenon DEF FinishSync, FailSync, SyncError, ExclusiveInv, TypeOK
<1>9. ExclusiveInv'
  BY <1>1, <1>4, <1>5, <1>6, <1>7, <1>8, Zenon DEF ExclusiveInv, TypeOK
<1> QED BY <1>1, <1>5, <1>9, Zenon

\* The commit callback.
LEMMA CallbackStep ==
    ASSUME ExclusiveInv, CommitCallback
    PROVE  /\ ExclusiveInv'
           /\ UNCHANGED <<epoch, bm, execution_rx, tree, root, ordered_root, sync, syncs, history>>
<1>1. /\ UNCHANGED <<epoch, bm, execution_rx, signing_rx, tree, root, ordered_root,
                     sync, errors, syncs, history>>
      /\ commit_root' = root
  BY Zenon DEF CommitCallback
<1>2. {root', ordered_root', commit_root'} \subseteq 0 .. NumBlocks
  BY <1>1, Zenon DEF ExclusiveInv, TypeOK
<1>3. ExclusiveInv'
  BY <1>1, <1>2, Zenon DEF ExclusiveInv, TypeOK
<1> QED BY <1>1, <1>3, Zenon

\* The fields of the responses that Next names.
LEMMA ResponseTypes ==
    /\ \A batch \in Batches, ok \in BOOLEAN : [batch |-> batch, ok |-> ok] \in ExecutionResponse
    /\ \A block \in Blocks, ok \in BOOLEAN : [block |-> block, ok |-> ok] \in SigningResponse
BY DEF ExecutionResponse, SigningResponse

\* Every step keeps the types, and state sync alone with the pipeline.
LEMMA ExclusiveStep ==
    ASSUME ExclusiveInv, [Next]_vars
    PROVE  ExclusiveInv'
<1>1. CASE CommitOrdered BY <1>1, OrderStep, Zenon
<1>2. CASE RequestSync \/ RequestStop BY <1>2, RequestStep, Zenon
<1>3. CASE FinishSync \/ FailSync BY <1>3, SyncEndStep, Zenon
<1>4. CASE CommitCallback BY <1>4, CallbackStep, Zenon
<1>5. CASE Persist BY <1>5, PersistStep, Zenon
<1>6. CASE ReceiveOrderedBlocks BY <1>6, OrderedStep, Zenon
<1>7. CASE ProcessResetRequest BY <1>7, ResetStep, Zenon
<1>8. CASE AcknowledgeReset BY <1>8, AcknowledgeStep, Zenon
<1>9. CASE PersistEpochEnd BY <1>9, EpochEndStep, Zenon
<1>10. ASSUME NEW batch \in Batches, Execute(batch) PROVE ExclusiveInv'
  BY <1>10, ExecuteStep, Zenon
<1>11. ASSUME NEW r \in ExecutionResponse, ReceiveExecutionResponse(r) PROVE ExclusiveInv'
  BY <1>11, ExecutionStep, Zenon
<1>12. ASSUME NEW block \in Blocks, Sign(block) PROVE ExclusiveInv'
  BY <1>12, SignStep, Zenon
<1>13. ASSUME NEW r \in SigningResponse, ReceiveSigningResponse(r) PROVE ExclusiveInv'
  BY <1>13, SigningStep, Zenon
<1>14. ASSUME NEW author \in Validators, NEW block, ReceiveCommitVote(author, block)
       PROVE  ExclusiveInv'
  BY <1>14, CommitVoteStep, Zenon
<1>15. ASSUME NEW block, ReceiveCommitDecision(block) PROVE ExclusiveInv'
  BY <1>15, CommitDecisionStep, Zenon
<1>16. CASE UNCHANGED vars
  BY <1>16, Zenon DEF vars, ExclusiveInv, TypeOK
<1> QED
  BY <1>1, <1>2, <1>3, <1>4, <1>5, <1>6, <1>7, <1>8, <1>9, <1>10, <1>11, <1>12, <1>13,
     <1>14, <1>15, <1>16, ResponseTypes, Zenon DEF Next

\* The initial state.
LEMMA InitType == Init => ExclusiveInv
<1> SUFFICES ASSUME Init PROVE ExclusiveInv
  OBVIOUS
<1> USE DEF Init
<1>1. /\ Idle(Batches) \in [Batches -> Nat] /\ InFlight(Idle(Batches)) = {}
      /\ Idle(Blocks) \in [Blocks -> Nat] /\ InFlight(Idle(Blocks)) = {}
      /\ Idle(ExecutionResponse) \in [ExecutionResponse -> Nat]
      /\ Idle(SigningResponse) \in [SigningResponse -> Nat]
  BY IdleFields, Zenon
<1> DEFINE x == Idle(Batches)
           s == Idle(Blocks)
           m == [buffer |-> <<>>, block_rx |-> <<>>, execution_root |-> None,
                 signing_root |-> None, end_epoch_timestamp |-> None,
                 execution |-> x, signing |-> s, persisting |-> <<>>,
                 pending |-> <<>>, mode |-> "running"]
<1>2. bm = m
  BY Zenon
<1> HIDE DEF x, s
<1>3. /\ DOMAIN m = {"buffer", "block_rx", "execution_root", "signing_root",
                     "end_epoch_timestamp", "execution", "signing", "persisting",
                     "pending", "mode"}
      /\ m.buffer = <<>> /\ m.block_rx = <<>> /\ m.execution_root = None
      /\ m.signing_root = None /\ m.end_epoch_timestamp = None /\ m.execution = x
      /\ m.signing = s /\ m.persisting = <<>> /\ m.pending = <<>> /\ m.mode = "running"
  BY Zenon
<1> HIDE DEF m
<1>4. /\ <<>> \in Seq(BufferItem) /\ <<>> \in Seq(Batches) /\ <<>> \in Seq(PersistingRequest)
      /\ "running" \in {"running", "resetting", "ending", "stopped", "panicked"}
      /\ "running" # "resetting" /\ "idle" # "syncing"
  OBVIOUS
<1>5. IsBufferManager(m)
  BY <1>1, <1>3, <1>4, Zenon DEF IsBufferManager, x, s
<1>6. 0 \in 0 .. NumBlocks /\ 0 \in Nat
  BY BufferManagerAssumption
<1>7. sync \in [state : {"idle", "requested", "syncing"}, target : 0 .. NumBlocks]
      /\ sync.state = "idle"
  BY <1>6 DEF None
<1>8. TypeOK
  BY <1>1, <1>2, <1>5, <1>6, <1>7, Zenon DEF TypeOK
<1>9. ResetInv(bm, sync.state)
  BY <1>2, <1>3, <1>4, <1>7, Zenon DEF ResetInv
<1> QED BY <1>8, <1>9, Zenon DEF ExclusiveInv

\* The fields and queues of the manager, the channels and the block store's
\* roots always have the types the code gives them.
THEOREM TypeCorrect == Spec => []TypeOK
<1>1. ExclusiveInv => TypeOK
  BY Zenon DEF ExclusiveInv
<1> QED BY <1>1, InitType, ExclusiveStep, PTL DEF Spec

\* reset() acknowledges a reset only once the pipeline is idle, and it stays
\* idle until state sync is over: whatever is retried, answered late or
\* certified, no phase and no buffered block is left beside the sync.
THEOREM SyncHasPipelineAlone == Spec => []SyncIsExclusive
<1>1. ExclusiveInv => SyncIsExclusive
  BY Zenon DEF ExclusiveInv, ResetInv, Drained, Emptied, SyncIsExclusive
<1> QED BY <1>1, InitType, ExclusiveStep, PTL DEF Spec

-----------------------------------------------------------------------------
(* The inductive invariant is kept. *)

\* The parts of the invariant in the next state.
LEMMA Kept ==
    ASSUME ExclusiveInv', epoch' = epoch, RootInv(bm'), ModeInv(bm'), SyncInv',
           CoreInv(bm', InFlight(execution_rx'), tree', root', ordered_root', Reconfig, sync'.state)
    PROVE  IInv'
<1>1. Reconfig' = Reconfig
  BY Zenon DEF Reconfig
<1> QED BY <1>1, Zenon DEF IInv

\* A step that leaves the block store and state sync alone keeps SyncInv.
LEMMA SyncInvKept ==
    ASSUME SyncInv, UNCHANGED <<epoch, ordered_root, sync>>
    PROVE  SyncInv'
BY Zenon DEF SyncInv, Reconfig

\* The root's invariant depends on the buffer and the root alone.
LEMMA SameManager ==
    ASSUME NEW m, NEW a, a.buffer = m.buffer, a.execution_root = m.execution_root,
           RootInv(m)
    PROVE  /\ RootInv(a)
           /\ ModeInv(m) /\ a.signing_root = m.signing_root /\ a.mode = m.mode
                /\ a.pending = m.pending => ModeInv(a)
BY Zenon DEF RootInv, ModeInv, Done, Emptied

\* What an arm of the manager's loop starts from, and what it ends with.
LEMMA ArmStarts ==
    ASSUME IInv, Running
    PROVE  /\ Ready(bm, InFlight(execution_rx), tree, root, ordered_root, sync.state)
           /\ root \in Nat /\ ordered_root \in Nat /\ Reconfig \in Nat
<1>1. bm.mode = "running" /\ "running" # "ending"
  BY DEF Running
<1>2. Ready(bm, InFlight(execution_rx), tree, root, ordered_root, sync.state)
  BY <1>1, Zenon DEF IInv, ExclusiveInv, Ready, ModeInv, ResetInv
<1> QED BY <1>2, TypeFacts, Zenon DEF IInv, ExclusiveInv

\* An arm that ends in a good manager ends in the invariant.
LEMMA ArmEnds ==
    ASSUME IInv, ExclusiveInv', ManagerOnly,
           Arm(bm', InFlight(execution_rx'), tree, root, ordered_root, sync.state)
    PROVE  IInv'
<1>1. /\ epoch' = epoch /\ tree' = tree /\ root' = root /\ ordered_root' = ordered_root
      /\ sync' = sync /\ syncs' = syncs
  BY Zenon DEF ManagerOnly
<1>2. "running" # "ending" /\ "running" # "panicked" /\ "ending" # "panicked"
  OBVIOUS
<1>3. RootInv(bm') /\ ModeInv(bm')
  BY <1>2, Zenon DEF Arm, Settled, ModeInv
<1>4. SyncInv'
  BY <1>1, SyncInvKept, Zenon DEF IInv
<1>5. CoreInv(bm', InFlight(execution_rx'), tree', root', ordered_root', Reconfig, sync'.state)
  BY <1>1, Zenon DEF Arm
<1> QED BY <1>1, <1>3, <1>4, <1>5, Kept, Zenon

\* The arm of an execution response keeps the invariant.
LEMMA ExecutionStepKeeps ==
    ASSUME IInv, NEW r \in ExecutionResponse, ReceiveExecutionResponse(r)
    PROVE  IInv'
<1> DEFINE rx == InFlight(execution_rx)
           rx2 == InFlight(execution_rx')
<1>1. bm' = ExecutionArm(bm, r) /\ ExclusiveInv'
  BY ExecutionStep, Zenon DEF IInv
<1>2. Running /\ execution_rx[r] > 0 /\ execution_rx' = Receive(execution_rx, r) /\ ManagerOnly
  BY Zenon DEF ReceiveExecutionResponse, ManagerOnly
<1>3. /\ Ready(bm, rx, tree, root, ordered_root, sync.state)
      /\ root \in Nat /\ ordered_root \in Nat /\ Reconfig \in Nat
  BY <1>2, ArmStarts, Zenon
<1>4. execution_rx \in [ExecutionResponse -> Nat]
  BY Zenon DEF IInv, ExclusiveInv, TypeOK
<1>5. rx2 \subseteq rx /\ r \in rx
  BY <1>2, <1>4, ReceiveFields, Zenon DEF InFlight
<1>6. r.batch \in Batches
  BY DEF ExecutionResponse
<1> HIDE DEF rx, rx2
<1>7. /\ CoreInv(bm, rx, tree, root, ordered_root, Reconfig, sync.state) /\ RootInv(bm)
      /\ bm.mode = "running" /\ bm.pending = <<>>
      /\ sync.state = "syncing" => Drained(bm)
  BY <1>3, Zenon DEF Ready
<1>8. /\ CoreInv(ExecutionArm(bm, r), rx2, tree, root, ordered_root, Reconfig, sync.state)
      /\ Settled(ExecutionArm(bm, r))
  BY <1>3, <1>5, <1>6, <1>7, ExecutionArmKeeps, Zenon
<1>10. Arm(bm', rx2, tree, root, ordered_root, sync.state)
  BY <1>1, <1>8, Zenon DEF Arm
<1> QED BY <1>1, <1>2, <1>10, ArmEnds, Zenon DEF rx2

\* So does that of a signing response, ...
LEMMA SigningStepKeeps ==
    ASSUME IInv, NEW r \in SigningResponse, ReceiveSigningResponse(r)
    PROVE  IInv'
<1>1. bm' = AdvanceSigningRoot(ProcessSigningResponse(bm, r)) /\ ExclusiveInv'
  BY SigningStep, Zenon DEF IInv
<1>2. Running /\ execution_rx' = execution_rx /\ ManagerOnly
  BY Zenon DEF ReceiveSigningResponse, ManagerOnly
<1>3. /\ Ready(bm, InFlight(execution_rx), tree, root, ordered_root, sync.state)
      /\ root \in Nat /\ ordered_root \in Nat /\ Reconfig \in Nat
  BY <1>2, ArmStarts, Zenon
<1>4. Arm(bm', InFlight(execution_rx'), tree, root, ordered_root, sync.state)
  BY <1>1, <1>2, <1>3, SigningArmKeeps, Zenon
<1> QED BY <1>1, <1>2, <1>4, ArmEnds, Zenon

\* ... that of the ordered blocks, ...
LEMMA OrderedStepKeeps ==
    ASSUME IInv, ReceiveOrderedBlocks
    PROVE  IInv'
<1>1. bm' = AdvanceExecutionRootIfNone(Pushed(bm)) /\ bm.block_rx # <<>> /\ ExclusiveInv'
  BY OrderedStep, Zenon DEF IInv
<1>2. Running /\ execution_rx' = execution_rx /\ ManagerOnly
  BY Zenon DEF ReceiveOrderedBlocks, ManagerOnly
<1>3. /\ Ready(bm, InFlight(execution_rx), tree, root, ordered_root, sync.state)
      /\ root \in Nat /\ ordered_root \in Nat /\ Reconfig \in Nat
  BY <1>2, ArmStarts, Zenon
<1>4. Arm(bm', InFlight(execution_rx'), tree, root, ordered_root, sync.state)
  BY <1>1, <1>2, <1>3, OrderedArmKeeps, Zenon DEF Pushed
<1> QED BY <1>1, <1>2, <1>4, ArmEnds, Zenon

\* ... and those of commit votes and commit decisions.
LEMMA CommitStepKeeps ==
    ASSUME IInv, ExclusiveInv', ManagerOnly, execution_rx' = execution_rx,
           NEW p, CommitArm(bm, p, bm'),
           CommitProcessed(bm, p, InFlight(execution_rx), tree, root, ordered_root, sync.state)
    PROVE  IInv'
<1>1. root \in Nat /\ ordered_root \in Nat /\ Len(bm.buffer) \in Nat
  BY TypeFacts, QueueFields, Zenon DEF IInv, ExclusiveInv, TypeOK
<1>2. Arm(bm', InFlight(execution_rx), tree, root, ordered_root, sync.state)
  BY <1>1, CommitArmKeeps, Zenon DEF CommitArm
<1> QED BY <1>2, ArmEnds, Zenon

\* Receiving a commit vote keeps the invariant.
LEMMA CommitVoteStepKeeps ==
    ASSUME IInv, NEW author \in Validators, NEW block, ReceiveCommitVote(author, block)
    PROVE  IInv'
<1>1. PICK n \in Positions(bm, block), matches \in BOOLEAN :
          CommitArm(bm, ProcessCommitVote(bm, n, author, matches), bm')
  BY CommitVoteStep, Zenon DEF IInv
<1>2. Running /\ execution_rx' = execution_rx /\ ManagerOnly /\ ExclusiveInv'
  BY CommitVoteStep, Zenon DEF ReceiveCommitVote, ManagerOnly, IInv
<1>3. /\ Ready(bm, InFlight(execution_rx), tree, root, ordered_root, sync.state)
      /\ root \in Nat /\ ordered_root \in Nat /\ Reconfig \in Nat
  BY <1>2, ArmStarts, Zenon
<1>4. CommitProcessed(bm, ProcessCommitVote(bm, n, author, matches),
                      InFlight(execution_rx), tree, root, ordered_root, sync.state)
  BY <1>3, CommitVoteKeeps, Zenon
<1> QED BY <1>1, <1>2, <1>4, CommitStepKeeps, Zenon

\* Receiving a commit decision keeps the invariant.
LEMMA CommitDecisionStepKeeps ==
    ASSUME IInv, NEW block, ReceiveCommitDecision(block)
    PROVE  IInv'
<1>1. PICK n \in Positions(bm, block) : CommitArm(bm, ProcessCommitDecision(bm, n), bm')
  BY CommitDecisionStep, Zenon DEF IInv
<1>2. Running /\ execution_rx' = execution_rx /\ ManagerOnly /\ ExclusiveInv'
  BY CommitDecisionStep, Zenon DEF ReceiveCommitDecision, ManagerOnly, IInv
<1>3. /\ Ready(bm, InFlight(execution_rx), tree, root, ordered_root, sync.state)
      /\ root \in Nat /\ ordered_root \in Nat /\ Reconfig \in Nat
  BY <1>2, ArmStarts, Zenon
<1>4. CommitProcessed(bm, ProcessCommitDecision(bm, n),
                      InFlight(execution_rx), tree, root, ordered_root, sync.state)
  BY <1>3, CommitDecisionKeeps, Zenon
<1> QED BY <1>1, <1>2, <1>4, CommitStepKeeps, Zenon

\* The invariant at a step, as the lemmas about the steps use it.
LEMMA InvFacts ==
    ASSUME IInv
    PROVE  /\ ExclusiveInv /\ IsBufferManager(bm) /\ RootInv(bm) /\ ModeInv(bm) /\ SyncInv
           /\ CoreInv(bm, InFlight(execution_rx), tree, root, ordered_root, Reconfig, sync.state)
           /\ root \in Nat /\ ordered_root \in Nat /\ Reconfig \in Nat
           /\ \A r \in InFlight(execution_rx) : r.batch \in Batches
<1>1. TypeOK
  BY Zenon DEF IInv, ExclusiveInv
<1> QED BY <1>1, TypeFacts, Zenon DEF IInv, TypeOK

\* The execution phase keeps the invariant.
LEMMA ExecuteStepKeeps ==
    ASSUME IInv, NEW batch \in Batches, Execute(batch)
    PROVE  IInv'
<1>1. /\ ExclusiveInv' /\ UNCHANGED <<epoch, root, ordered_root, sync, syncs, history>>
      /\ bm.execution[batch] > 0 /\ bm' = [bm EXCEPT !.execution = Receive(@, batch)]
  BY ExecuteStep, Zenon DEF IInv
<1>2. PICK last \in batch.first - 1 .. batch.last :
          ExecutesUpTo(bm, bm', batch, last, InFlight(execution_rx), InFlight(execution_rx'),
                       tree, tree', root)
  BY ExecuteStep, Zenon DEF IInv
<1>3. CoreInv(bm', InFlight(execution_rx'), tree', root, ordered_root, Reconfig, sync.state)
  BY <1>2, InvFacts, ExecuteKeeps, Zenon
<1>4. /\ bm'.buffer = bm.buffer /\ bm'.execution_root = bm.execution_root
      /\ bm'.signing_root = bm.signing_root /\ SameRequests(bm, bm')
  BY <1>1, InvFacts, AnsweredFields, Zenon
<1>5. RootInv(bm') /\ ModeInv(bm')
  BY <1>4, InvFacts, SameManager, Zenon DEF SameRequests
<1>6. SyncInv'
  BY <1>1, InvFacts, SyncInvKept, Zenon
<1> QED BY <1>1, <1>3, <1>5, <1>6, Kept, Zenon

\* So does the signing phase, ...
LEMMA SignStepKeeps ==
    ASSUME IInv, NEW block \in Blocks, Sign(block)
    PROVE  IInv'
<1>1. /\ ExclusiveInv' /\ UNCHANGED <<epoch, execution_rx, tree, root, ordered_root, sync, syncs, history>>
      /\ bm.signing[block] > 0 /\ bm' = [bm EXCEPT !.signing = Receive(@, block)]
  BY SignStep, Zenon DEF IInv
<1>2. /\ bm'.buffer = bm.buffer /\ bm'.execution_root = bm.execution_root
      /\ bm'.signing_root = bm.signing_root /\ bm'.execution = bm.execution
      /\ IsBufferManager(bm') /\ SameQueue(bm, bm') /\ SameRequests(bm, bm')
  BY <1>1, InvFacts, AnsweredFields, Zenon
<1>3. CoreInv(bm', InFlight(execution_rx), tree, root, ordered_root, Reconfig, sync.state)
  <2> DEFINE rx == InFlight(execution_rx)
  <2>1. rx \subseteq rx
    BY Zenon
  <2>2. CoreInv(bm, rx, tree, root, ordered_root, Reconfig, sync.state)
        /\ root \in Nat /\ ordered_root \in Nat
    BY InvFacts, Zenon
  <2> HIDE DEF rx
  <2>3. CoreInv(bm', rx, tree, root, ordered_root, Reconfig, sync.state)
    BY <1>2, <2>1, <2>2, CoreTransfer, Zenon
  <2> QED BY <2>3, Zenon DEF rx
<1>4. RootInv(bm') /\ ModeInv(bm')
  BY <1>2, InvFacts, SameManager, Zenon DEF SameRequests
<1>5. SyncInv'
  BY <1>1, InvFacts, SyncInvKept, Zenon
<1> QED BY <1>1, <1>3, <1>4, <1>5, Kept, Zenon

\* ... and the persisting phase: the executor accepts the request.
LEMMA PersistStepKeeps ==
    ASSUME IInv, Persist
    PROVE  IInv'
<1> DEFINE q == Head(bm.persisting)
           a == [bm EXCEPT !.persisting = Tail(@)]
           rx == InFlight(execution_rx)
<1>1. /\ ExclusiveInv' /\ bm.persisting # <<>>
      /\ UNCHANGED <<epoch, execution_rx, ordered_root, sync, syncs, history>>
  BY InvFacts, PersistStep, Zenon
<1>2. /\ CoreInv(bm, rx, tree, root, ordered_root, Reconfig, sync.state)
      /\ root \in Nat /\ ordered_root \in Nat /\ Reconfig \in Nat
  BY InvFacts, Zenon
<1>3. /\ q.last \in Nat
      /\ root < Reconfig => /\ root < q.last /\ q.blocks \subseteq tree
                            /\ q.blocks = root + 1 .. q.last
      /\ root >= Reconfig => q.last >= Reconfig
  BY <1>1, <1>2, RequestAccepted, Zenon
<1>4. /\ Persisted(bm, a) /\ a.buffer = bm.buffer
      /\ a.execution_root = bm.execution_root /\ a.signing_root = bm.signing_root
  BY <1>1, InvFacts, PersistedFields, Zenon
<1>5. IF Version(root) = Version(q.last)
      THEN bm' = a /\ UNCHANGED <<tree, root>>
      ELSE IF q.blocks \subseteq tree /\ q.blocks = root + 1 .. q.last
      THEN bm' = a /\ root' = q.last
           /\ tree' = IF q.last >= Reconfig THEN {} ELSE tree \ (1 .. q.last)
      ELSE bm' = Panic(bm) /\ UNCHANGED <<tree, root>>
  BY Zenon DEF Persist
<1> HIDE DEF a, rx
<1>6. bm' = a /\ CoreInv(a, rx, tree', root', ordered_root, Reconfig, sync.state)
  <2>1. CASE root >= Reconfig
    <3> HIDE DEF q
    <3>1. Version(root) = Version(q.last) /\ q.last >= Reconfig
      BY <1>2, <1>3, <2>1 DEF Version
    <3>2. bm' = a /\ root' = root
      BY <1>5, <3>1, Zenon
    <3>3. PersistsEnd(bm, a, root, root', Reconfig)
      BY <1>2, <1>4, <2>1, <3>1, <3>2, Zenon DEF q, PersistsEnd
    <3>4. CoreInv(a, rx, tree', root', ordered_root, Reconfig, sync.state)
      BY <1>2, <3>3, PersistEndKeeps, Zenon
    <3> QED BY <3>2, <3>4, Zenon
  <2>2. CASE root < Reconfig
    <3>1. Version(root) # Version(q.last)
      <4> HIDE DEF q
      <4> QED BY <1>2, <1>3, <2>2 DEF Version
    <3>2. /\ bm' = a /\ root' = q.last
          /\ tree' = IF q.last >= Reconfig THEN {} ELSE tree \ (1 .. q.last)
      BY <1>3, <1>5, <2>2, <3>1, Zenon
    <3>3. CASE q.last >= Reconfig
      <4>1. PersistsEnd(bm, a, root, root', Reconfig)
        BY <1>3, <1>4, <3>2, <3>3, Zenon DEF PersistsEnd
      <4>2. CoreInv(a, rx, tree', root', ordered_root, Reconfig, sync.state)
        BY <1>2, <4>1, PersistEndKeeps, Zenon
      <4> QED BY <3>2, <4>2, Zenon
    <3>4. CASE q.last < Reconfig
      <4>1. ~ (q.last >= Reconfig)
        <5> HIDE DEF q
        <5> QED BY <1>2, <1>3, <3>4
      <4>2. tree' = tree \ (1 .. root')
        BY <3>2, <4>1, Zenon
      <4>3. PersistsOn(bm, a, tree, tree', root, root', Reconfig)
        BY <1>4, <2>2, <3>2, <3>4, <4>2, Zenon DEF PersistsOn
      <4>4. CoreInv(a, rx, tree', root', ordered_root, Reconfig, sync.state)
        BY <1>2, <4>3, PersistKeeps, Zenon
      <4> QED BY <3>2, <4>4, Zenon
    <3>5. q.last >= Reconfig \/ q.last < Reconfig
      <4> HIDE DEF q
      <4> QED BY <1>2, <1>3
    <3> QED BY <3>3, <3>4, <3>5, Zenon
  <2>3. root >= Reconfig \/ root < Reconfig
    BY <1>2
  <2> QED BY <2>1, <2>2, <2>3, Zenon
<1>7. RootInv(bm') /\ ModeInv(bm')
  BY <1>4, <1>6, InvFacts, SameManager, Zenon DEF Persisted
<1>8. SyncInv'
  BY <1>1, InvFacts, SyncInvKept, Zenon
<1> QED BY <1>1, <1>6, <1>7, <1>8, Kept, Zenon DEF rx

\* The roots in the next state.
LEMMA NextRoots ==
    ASSUME ExclusiveInv'
    PROVE  root' \in Nat /\ ordered_root' \in Nat
<1>1. root' \in 0 .. NumBlocks /\ ordered_root' \in 0 .. NumBlocks
  BY Zenon DEF ExclusiveInv, TypeOK
<1> QED BY <1>1

\* Consensus keeps the invariant: it orders a batch, ...
LEMMA OrderStepKeeps ==
    ASSUME IInv, CommitOrdered
    PROVE  IInv'
<1>1. /\ ExclusiveInv' /\ UNCHANGED <<epoch, execution_rx, tree, root, sync, syncs, history>>
      /\ ordered_root < ordered_root' /\ ordered_root' <= epoch.blocks
      /\ Orders(bm, bm', ordered_root, ordered_root') /\ sync.state = "idle"
      /\ bm'.signing_root = bm.signing_root
  BY InvFacts, OrderStep, Zenon
<1>2. ordered_root' \in Nat
  BY <1>1, NextRoots, Zenon
<1>3. CoreInv(bm', InFlight(execution_rx), tree, root, ordered_root', Reconfig, sync.state)
  BY <1>1, <1>2, InvFacts, OrderKeeps, Zenon
<1>4. RootInv(bm') /\ ModeInv(bm')
  BY <1>1, InvFacts, SameManager, Zenon DEF Orders, SameRequests
<1>5. SyncInv'
  <2>1. "idle" # "syncing"
    OBVIOUS
  <2> QED BY <1>1, <2>1, InvFacts, Zenon DEF SyncInv
<1> QED BY <1>1, <1>3, <1>4, <1>5, Kept, Zenon

\* Only whether state sync runs matters to the core of the invariant.
LEMMA SyncStateKeeps ==
    ASSUME NEW m, NEW rx, NEW tr, NEW rt, NEW ord, NEW rc, NEW syn, NEW syn2,
           CoreInv(m, rx, tr, rt, ord, rc, syn), syn # "syncing"
    PROVE  CoreInv(m, rx, tr, rt, ord, rc, syn2)
BY Zenon DEF CoreInv, AnchorInv

\* ... asks for a reset, ...
LEMMA RequestStepKeeps ==
    ASSUME IInv, RequestSync \/ RequestStop
    PROVE  IInv'
<1>1. /\ ExclusiveInv' /\ UNCHANGED <<epoch, bm, execution_rx, tree, root, ordered_root>>
      /\ sync.state = "idle" /\ sync'.state = "requested"
      /\ \/ sync'.target = None
         \/ sync'.target < Reconfig /\ sync'.target <= epoch.blocks
  BY InvFacts, RequestStep, Zenon
<1>2. "idle" # "syncing" /\ "requested" # "syncing"
  OBVIOUS
<1>3. CoreInv(bm, InFlight(execution_rx), tree, root, ordered_root, Reconfig, sync'.state)
  BY <1>1, <1>2, InvFacts, SyncStateKeeps, Zenon
<1>4. Reconfig' = Reconfig
  BY <1>1, Zenon DEF Reconfig
<1>5. SyncInv'
  BY <1>1, <1>2, <1>4, InvFacts, Zenon DEF SyncInv
<1> QED BY <1>1, <1>3, <1>5, InvFacts, Kept, Zenon

\* ... learns that state sync is over, with nothing left behind, ...
LEMMA SyncEndStepKeeps ==
    ASSUME IInv, FinishSync \/ FailSync, ~Leftover'
    PROVE  IInv'
<1> DEFINE rx == InFlight(execution_rx)
<1>1. /\ ExclusiveInv' /\ UNCHANGED <<epoch, bm, execution_rx, syncs>>
      /\ sync.state = "syncing" /\ sync'.state = "idle" /\ tree' = {}
      /\ \/ root' = root /\ ordered_root' = ordered_root
         \/ root' = sync.target /\ ordered_root' = sync.target /\ ~LeftBehind(sync.target)
  BY InvFacts, SyncEndStep, Zenon
<1>2. "running" # "ending" /\ "idle" # "syncing" /\ "syncing" # "idle"
  OBVIOUS
<1>3. Drained(bm) /\ bm.pending = <<>>
  BY <1>1, <1>2, InvFacts, Zenon DEF ExclusiveInv, ResetInv, ModeInv
<1>4. sync.target <= epoch.blocks /\ ordered_root <= epoch.blocks
  BY <1>1, <1>2, InvFacts, Zenon DEF SyncInv
<1>5. root' \in Nat /\ ordered_root' \in Nat
  BY <1>1, NextRoots, Zenon
<1>6. ASSUME ~LeftBehind(ordered_root')
      PROVE  bm.end_epoch_timestamp = None /\ \A r \in rx : r.batch.last <= ordered_root'
  <2>1. bm.end_epoch_timestamp = None /\ \A r \in rx : ~(r.batch.last > ordered_root')
    BY <1>6, Zenon DEF LeftBehind
  <2>2. \A r \in rx : r.batch.last \in Nat
    BY InvFacts, BatchFields, Zenon
  <2> HIDE DEF rx
  <2> QED BY <1>5, <2>1, <2>2
<1>7. \/ root' = root /\ ordered_root' = ordered_root
      \/ /\ root' = ordered_root' /\ \A r \in rx : r.batch.last <= ordered_root'
         /\ bm.end_epoch_timestamp = None
  BY <1>1, <1>6, Zenon
<1>8. /\ CoreInv(bm, rx, tree, root, ordered_root, Reconfig, sync.state)
      /\ root \in Nat /\ ordered_root \in Nat /\ Reconfig \in Nat
      /\ \A r \in rx : r.batch \in Batches
  BY InvFacts, Zenon
<1> HIDE DEF rx
<1>9. CoreInv(bm, rx, tree', root', ordered_root', Reconfig, sync'.state)
  <2>1. CoreInv(bm, rx, {}, root', ordered_root', Reconfig, sync'.state)
    BY <1>3, <1>5, <1>7, <1>8, SyncKeeps, Zenon
  <2> QED BY <1>1, <2>1, Zenon
<1>10. SyncInv'
  <2>1. ordered_root' <= epoch.blocks
    BY <1>1, <1>4, Zenon
  <2> QED BY <1>1, <1>2, <2>1, InvFacts, Zenon DEF SyncInv
<1> QED BY <1>1, <1>9, <1>10, InvFacts, Kept, Zenon DEF rx

\* ... and learns of a commit.
LEMMA CallbackStepKeeps ==
    ASSUME IInv, CommitCallback
    PROVE  IInv'
<1>1. /\ ExclusiveInv'
      /\ UNCHANGED <<epoch, bm, execution_rx, tree, root, ordered_root, sync, syncs, history>>
  BY InvFacts, CallbackStep, Zenon
<1>2. SyncInv'
  BY <1>1, InvFacts, SyncInvKept, Zenon
<1> QED BY <1>1, <1>2, InvFacts, Kept, Zenon

\* A reset keeps the invariant when it starts, ...
LEMMA ResetStepKeeps ==
    ASSUME IInv, ProcessResetRequest
    PROVE  IInv'
<1>1. Resets(bm, bm') /\ ExclusiveInv' /\ bm.mode = "running"
      /\ UNCHANGED <<epoch, execution_rx, tree, root, ordered_root, sync, syncs, history>>
  BY InvFacts, ResetStep, Zenon DEF ProcessResetRequest, Running
<1>2. "running" # "ending" /\ "resetting" # "ending" /\ "resetting" # "panicked"
  OBVIOUS
<1>3. bm.pending = <<>>
  BY <1>1, <1>2, InvFacts, Zenon DEF ModeInv
<1>4. /\ CoreInv(bm', InFlight(execution_rx), tree, root, ordered_root, Reconfig, sync.state)
      /\ RootInv(bm')
  BY <1>1, <1>3, InvFacts, ResetKeeps, Zenon
<1>5. ModeInv(bm')
  BY <1>1, <1>2, <1>3, Zenon DEF ModeInv, Resets
<1>6. SyncInv'
  BY <1>1, InvFacts, SyncInvKept, Zenon
<1> QED BY <1>1, <1>4, <1>5, <1>6, Kept, Zenon

\* ... and when it is acknowledged.
LEMMA AcknowledgeStepKeeps ==
    ASSUME IInv, AcknowledgeReset
    PROVE  IInv'
<1>1. /\ ExclusiveInv' /\ bm.mode = "resetting"
      /\ sync'.target = sync.target /\ sync.state = "requested"
      /\ \/ /\ sync.target = None /\ bm' = [bm EXCEPT !.mode = "stopped"]
            /\ sync'.state = "idle"
         \/ /\ sync.target # None /\ bm' = [bm EXCEPT !.mode = "running"]
            /\ sync'.state = "syncing"
  BY InvFacts, AcknowledgeStep, Zenon
<1>2. UNCHANGED <<epoch, execution_rx, tree, root, ordered_root, syncs>>
  BY Zenon DEF AcknowledgeReset
<1>3. /\ "resetting" # "ending" /\ "running" # "ending" /\ "stopped" # "ending"
      /\ "running" # "panicked" /\ "stopped" # "panicked" /\ "stopped" # "running"
      /\ "requested" # "idle" /\ "idle" # "syncing"
      /\ "running" \in {"running", "stopped"} /\ "stopped" \in {"running", "stopped"}
      /\ "running" \in {"running", "stopped", "panicked"}
      /\ "stopped" \in {"running", "stopped", "panicked"}
  OBVIOUS
<1>4. /\ CoreInv(bm', InFlight(execution_rx), tree, root, ordered_root, Reconfig, sync'.state)
      /\ RootInv(bm')
  <2>1. CASE sync.target = None
    <3>1. LET a == [bm EXCEPT !.mode = "stopped"] IN
          /\ CoreInv(a, InFlight(execution_rx), tree, root, ordered_root, Reconfig, "idle")
          /\ RootInv(a)
      BY <1>3, InvFacts, ModeKeeps, Zenon
    <3> QED BY <1>1, <2>1, <3>1, Zenon
  <2>2. CASE sync.target # None
    <3>1. LET a == [bm EXCEPT !.mode = "running"] IN
          /\ CoreInv(a, InFlight(execution_rx), tree, root, ordered_root, Reconfig, "syncing")
          /\ RootInv(a)
      BY <1>3, InvFacts, ModeKeeps, Zenon
    <3> QED BY <1>1, <2>2, <3>1, Zenon
  <2> QED BY <2>1, <2>2, Zenon
<1>5. ModeInv(bm')
  <2>1. bm.pending = <<>>
    BY <1>1, <1>3, InvFacts, Zenon DEF ModeInv
  <2>2. bm'.pending = <<>> /\ bm'.mode \in {"running", "stopped"}
    <3>1. ASSUME NEW mode \in {"running", "stopped"}, bm' = [bm EXCEPT !.mode = mode]
          PROVE  bm'.pending = bm.pending /\ bm'.mode = mode
      <4>1. mode \in {"running", "stopped", "panicked"}
        BY Zenon
      <4> QED BY <3>1, <4>1, InvFacts, ModeFields, Zenon
    <3> QED BY <1>1, <1>3, <2>1, <3>1, Zenon
  <2> QED BY <1>3, <2>2, Zenon DEF ModeInv
<1>6. SyncInv'
  BY <1>1, <1>2, <1>3, InvFacts, Zenon DEF SyncInv, Reconfig
<1> QED BY <1>1, <1>2, <1>4, <1>5, <1>6, Kept, Zenon

\* The wait at the end of the epoch keeps the invariant.
LEMMA EpochEndStepKeeps ==
    ASSUME IInv, PersistEpochEnd
    PROVE  IInv'
<1>1. /\ ExclusiveInv' /\ bm.mode = "ending" /\ bm.persisting = <<>> /\ bm' = EndedEpoch(bm)
      /\ UNCHANGED <<epoch, execution_rx, tree, root, ordered_root, sync, syncs, history>>
  BY InvFacts, EpochEndStep, Zenon DEF PersistEpochEnd
<1>2. Len(bm.pending) = 1 /\ bm.pending \in Seq(PersistingRequest)
  BY <1>1, InvFacts, Zenon DEF ModeInv, IsBufferManager
<1>3. DOMAIN bm.pending = {1} /\ bm.pending # <<>>
  <2>1. \A s \in Seq(PersistingRequest) : Len(s) = 1 => DOMAIN s = {1} /\ s # <<>>
    OBVIOUS
  <2> QED BY <1>2, <2>1, Zenon
<1>4. /\ IsBufferManager(bm') /\ SameQueue(bm, bm') /\ bm'.execution = bm.execution
      /\ bm'.mode = "running" /\ bm'.pending = <<>> /\ bm'.buffer = bm.buffer
      /\ bm'.execution_root = bm.execution_root /\ bm'.persisting = bm.pending
      /\ bm'.end_epoch_timestamp = bm.end_epoch_timestamp
  BY <1>1, InvFacts, EndedFields, Zenon
<1>5. EndsEpoch(bm, bm')
  BY <1>1, <1>2, <1>3, <1>4, Zenon DEF EndsEpoch
<1>6. CoreInv(bm', InFlight(execution_rx), tree, root, ordered_root, Reconfig, sync.state)
  BY <1>5, InvFacts, EpochEndKeeps, Zenon
<1>7. "running" # "ending" /\ "running" # "panicked"
  OBVIOUS
<1>8. RootInv(bm') /\ ModeInv(bm')
  BY <1>4, <1>7, InvFacts, SameManager, Zenon DEF ModeInv
<1>9. SyncInv'
  BY <1>1, InvFacts, SyncInvKept, Zenon
<1> QED BY <1>1, <1>6, <1>8, <1>9, Kept, Zenon

\* Every step keeps the invariant, unless state sync ends with something left
\* behind.
LEMMA InvStep ==
    ASSUME IInv, [Next]_vars, ~Leftover'
    PROVE  IInv'
<1>1. CASE CommitOrdered BY <1>1, OrderStepKeeps, Zenon
<1>2. CASE RequestSync \/ RequestStop BY <1>2, RequestStepKeeps, Zenon
<1>3. CASE FinishSync \/ FailSync BY <1>3, SyncEndStepKeeps, Zenon
<1>4. CASE CommitCallback BY <1>4, CallbackStepKeeps, Zenon
<1>5. CASE Persist BY <1>5, PersistStepKeeps, Zenon
<1>6. CASE ReceiveOrderedBlocks BY <1>6, OrderedStepKeeps, Zenon
<1>7. CASE ProcessResetRequest BY <1>7, ResetStepKeeps, Zenon
<1>8. CASE AcknowledgeReset BY <1>8, AcknowledgeStepKeeps, Zenon
<1>9. CASE PersistEpochEnd BY <1>9, EpochEndStepKeeps, Zenon
<1>10. ASSUME NEW batch \in Batches, Execute(batch) PROVE IInv'
  BY <1>10, ExecuteStepKeeps, Zenon
<1>11. ASSUME NEW r \in ExecutionResponse, ReceiveExecutionResponse(r) PROVE IInv'
  BY <1>11, ExecutionStepKeeps, Zenon
<1>12. ASSUME NEW block \in Blocks, Sign(block) PROVE IInv'
  BY <1>12, SignStepKeeps, Zenon
<1>13. ASSUME NEW r \in SigningResponse, ReceiveSigningResponse(r) PROVE IInv'
  BY <1>13, SigningStepKeeps, Zenon
<1>14. ASSUME NEW author \in Validators, NEW block, ReceiveCommitVote(author, block)
       PROVE  IInv'
  BY <1>14, CommitVoteStepKeeps, Zenon
<1>15. ASSUME NEW block, ReceiveCommitDecision(block) PROVE IInv'
  BY <1>15, CommitDecisionStepKeeps, Zenon
<1>16. CASE UNCHANGED vars
  <2>1. /\ UNCHANGED <<epoch, bm, execution_rx, tree, root, ordered_root, sync, syncs, history>>
        /\ ExclusiveInv'
    BY <1>16, InvFacts, ExclusiveStep, Zenon DEF vars
  <2>2. SyncInv'
    BY <2>1, InvFacts, SyncInvKept, Zenon
  <2> QED BY <2>1, <2>2, InvFacts, Kept, Zenon
<1> QED
  BY <1>1, <1>2, <1>3, <1>4, <1>5, <1>6, <1>7, <1>8, <1>9, <1>10, <1>11, <1>12, <1>13,
     <1>14, <1>15, <1>16, ResponseTypes, Zenon DEF Next

\* The initial state.
LEMMA InitInv == Init => IInv
<1> SUFFICES ASSUME Init PROVE IInv
  OBVIOUS
<1>1. ExclusiveInv
  BY InitType, Zenon
<1>2. /\ root = 0 /\ ordered_root = 0 /\ epoch \in Epochs
      /\ execution_rx = Idle(ExecutionResponse)
  BY Zenon DEF Init
<1>3. sync.state = "idle" /\ "idle" # "syncing" /\ "running" # "ending" /\ "running" # "panicked"
  BY DEF Init
<1>4. /\ bm.buffer = <<>> /\ bm.block_rx = <<>> /\ bm.execution_root = None
      /\ bm.end_epoch_timestamp = None /\ bm.execution = Idle(Batches)
      /\ bm.persisting = <<>> /\ bm.pending = <<>> /\ bm.mode = "running"
  <2> DEFINE x == Idle(Batches)
             s == Idle(Blocks)
  <2>1. bm = [buffer |-> <<>>, block_rx |-> <<>>, execution_root |-> None,
              signing_root |-> None, end_epoch_timestamp |-> None,
              execution |-> x, signing |-> s, persisting |-> <<>>,
              pending |-> <<>>, mode |-> "running"]
    BY Zenon DEF Init
  <2> HIDE DEF x, s
  <2>2. /\ bm.buffer = <<>> /\ bm.block_rx = <<>> /\ bm.execution_root = None
        /\ bm.end_epoch_timestamp = None /\ bm.execution = x
        /\ bm.persisting = <<>> /\ bm.pending = <<>> /\ bm.mode = "running"
    BY <2>1
  <2> QED BY <2>2, Zenon DEF x
<1>5. /\ QueueLen(bm) = 0 /\ Queue(bm) = {} /\ DOMAIN bm.buffer = {}
      /\ NextBlock(bm, ordered_root) = ordered_root + 1
  BY <1>4, EmptyQueue, Zenon
<1>6. InFlight(bm.execution) = {} /\ InFlight(execution_rx) = {}
  BY <1>2, <1>4, IdleFields, Zenon
<1> DEFINE rx == InFlight(execution_rx)
<1>7. rx = {} /\ \A b : b \notin Asked(bm, rx)
  BY <1>6, Zenon DEF Asked
<1> HIDE DEF rx
<1>8. DOMAIN <<>> = {} /\ root <= ordered_root
  BY <1>2
<1>9. DOMAIN bm.persisting = {} /\ DOMAIN bm.pending = {} /\ Certified(bm, root) = root
  BY <1>4, <1>8, Zenon DEF Certified
<1>10. NextBlock(bm, ordered_root) = Certified(bm, root) + 1
  BY <1>2, <1>5, <1>9, Zenon
<1>11. IsBufferManager(bm) /\ QueueInv(bm, ordered_root) /\ StageInv(bm)
  BY <1>1, <1>5, Zenon DEF ExclusiveInv, TypeOK, QueueInv, StageInv
<1>12. AskedInv(bm, rx, ordered_root) /\ TreeInv(bm, rx, tree, root, Reconfig)
  BY <1>5, <1>7, <1>9, Zenon DEF AskedInv, TreeInv
<1>13. /\ PersistingInv(bm, root, ordered_root, Reconfig)
       /\ PendingInv(bm, root, ordered_root, Reconfig)
  BY <1>5, <1>8, <1>9, Zenon DEF PersistingInv, PendingInv
<1>14. /\ AnchorInv(bm, rx, tree, root, ordered_root, Reconfig, sync.state)
       /\ TimestampInv(bm, ordered_root, Reconfig)
  BY <1>4, <1>10, Zenon DEF AnchorInv, TimestampInv
<1>15. CoreInv(bm, rx, tree, root, ordered_root, Reconfig, sync.state)
  BY <1>11, <1>12, <1>13, <1>14, Zenon DEF CoreInv
<1>16. RootInv(bm) /\ ModeInv(bm)
  BY <1>3, <1>4, <1>5, Zenon DEF RootInv, ModeInv
<1>17. SyncInv
  <2>1. epoch.blocks \in 0 .. NumBlocks
    BY <1>1, TypeFacts, Zenon DEF ExclusiveInv
  <2>2. 0 <= epoch.blocks
    BY <2>1
  <2> QED BY <1>2, <1>3, <2>2, Zenon DEF SyncInv
<1> QED BY <1>1, <1>15, <1>16, <1>17, Zenon DEF IInv, rx

\* What is left behind is not forgotten.
LEMMA LeftoverStays ==
    ASSUME Leftover, [Next]_vars
    PROVE  Leftover'
<1>1. CASE FinishSync \/ FailSync
  <2>1. "leftover" # "lost"
    OBVIOUS
  <2> QED BY <1>1, <2>1, Zenon DEF FinishSync, FailSync, SyncError, Leftover
<1>2. CASE UNCHANGED history
  BY <1>2, Zenon DEF Leftover
<1>3. CASE CommitOrdered \/ RequestSync \/ RequestStop \/ CommitCallback \/ Persist
  BY <1>2, <1>3, Zenon DEF CommitOrdered, RequestSync, RequestStop, CommitCallback, Persist
<1>4. CASE ReceiveOrderedBlocks \/ ProcessResetRequest \/ AcknowledgeReset \/ PersistEpochEnd
  BY <1>2, <1>4, Zenon
     DEF ReceiveOrderedBlocks, ProcessResetRequest, AcknowledgeReset, PersistEpochEnd
<1>5. ASSUME NEW batch, Execute(batch) PROVE Leftover'
  BY <1>2, <1>5, Zenon DEF Execute
<1>6. ASSUME NEW r, ReceiveExecutionResponse(r) \/ ReceiveSigningResponse(r) PROVE Leftover'
  BY <1>2, <1>6, Zenon DEF ReceiveExecutionResponse, ReceiveSigningResponse
<1>7. ASSUME NEW block, Sign(block) \/ ReceiveCommitDecision(block) PROVE Leftover'
  BY <1>2, <1>7, Zenon DEF Sign, ReceiveCommitDecision
<1>8. ASSUME NEW author, NEW block, ReceiveCommitVote(author, block) PROVE Leftover'
  BY <1>2, <1>8, Zenon DEF ReceiveCommitVote
<1>9. CASE UNCHANGED vars
  BY <1>2, <1>9, Zenon DEF vars
<1> QED BY <1>1, <1>3, <1>4, <1>5, <1>6, <1>7, <1>8, <1>9, Zenon DEF Next

\* The invariant with its exception holds always.
LEMMA FullInvHolds == Spec => []FullInv
<1>1. Init => FullInv
  BY InitType, InitInv, Zenon DEF FullInv
<1>2. ASSUME FullInv, [Next]_vars PROVE FullInv'
  <2>1. ExclusiveInv'
    BY <1>2, ExclusiveStep, Zenon DEF FullInv
  <2>2. Leftover' \/ IInv'
    BY <1>2, InvStep, LeftoverStays, Zenon DEF FullInv
  <2> QED BY <2>1, <2>2, Zenon DEF FullInv
<1> QED BY <1>1, <1>2, PTL DEF Spec

\* The pipeline can fail an assertion, an expect or a commit of the executor
\* only after state sync has succeeded over an unread execution response for
\* blocks above its target, or over an end timestamp that reset() kept:
\* ProcessExecutionResponse and Persist take their panicking branch in no other
\* behaviour, whatever retries, late answers, commit decisions, resets and
\* failed syncs come between.
THEOREM OnlyLeftoversPanic == Spec => []NoPanic
<1>1. FullInv => NoPanic
  BY Zenon DEF FullInv, IInv, ModeInv, NoPanic
<1> QED BY <1>1, FullInvHolds, PTL

\* Every buffered batch that the manager takes for executed is held by the
\* executor until its commit, so that it can be committed; the answers and the
\* timestamp that a reset leaves behind are again the only exception.
THEOREM ExecutedStaysCommittable == Spec => []ExecutedIsCommittable
<1>1. ASSUME FullInv PROVE ExecutedIsCommittable
  <2> SUFFICES ASSUME ~Leftover, root < Reconfig, NEW i \in DOMAIN bm.buffer,
                      bm.buffer[i].stage # "Ordered"
               PROVE  BlocksOf(bm.buffer[i].batch) \subseteq tree
    BY Zenon DEF ExecutedIsCommittable
  <2>1. IInv
    BY <1>1, Zenon DEF FullInv
  <2>2. i \in Queue(bm) /\ Item(bm, i) = bm.buffer[i].batch /\ Done(bm, i)
    BY <2>1, InvFacts, QueueFields, Zenon
  <2>3. TreeInv(bm, InFlight(execution_rx), tree, root, Reconfig)
    BY <2>1, InvFacts, Zenon DEF CoreInv
  <2>4. BlocksOf(Item(bm, i)) \subseteq tree
    BY <2>2, <2>3, Zenon DEF TreeInv
  <2> QED BY <2>2, <2>4, Zenon
<1> QED BY <1>1, FullInvHolds, PTL

=============================================================================
