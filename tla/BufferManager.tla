--------------------------- MODULE BufferManager ---------------------------
(***************************************************************************)
(* The decoupled execution pipeline of one ArxBFT validator within one     *)
(* epoch (src/consensus/src/experimental).  Consensus orders batches of    *)
(* blocks; the buffer manager takes each batch through execution, signing  *)
(* and aggregation of commit votes, and hands certified prefixes of its    *)
(* buffer to the persisting phase.  When the node falls behind, consensus  *)
(* resets the manager, lets state sync advance the ledger, rebuilds its    *)
(* block tree and orders the blocks above the synced one again.            *)
(*                                                                         *)
(* The processes are consensus (the round manager task), the buffer        *)
(* manager, the execution, signing and persisting phases, and the delayed  *)
(* retries, which are requests in flight like the others.  Blocks are      *)
(* numbered along the one chain consensus orders; block 0 is the root the  *)
(* epoch starts from.  Block Reconfig is the one whose execution ends the  *)
(* epoch; the blocks above it are its empty suffix.                        *)
(***************************************************************************)
EXTENDS Integers, Sequences, FiniteSets, FiniteSetsExt

CONSTANTS
    NumBlocks,    \* bound: the blocks consensus orders in any epoch
    Validators,
    Quorums,      \* the sets of validators check_voting_power accepts
    Byzantine,    \* the validators that may sign another execution result
    Gap,          \* 2 * back_pressure_limit
    Epochs        \* what may happen to the epoch: a set of EpochPlan

\* The blocks consensus orders, the reconfiguration block (above them when
\* there is none), whether the epoch manager may shut the pipeline down, and
\* the bounds on transient failures and on requests to state sync.
EpochPlan == [blocks : 0 .. NumBlocks, reconfig : Nat \ {0}, may_stop : BOOLEAN,
              errors : Nat, syncs : Nat]

ASSUME BufferManagerAssumption ==
    /\ NumBlocks \in Nat /\ Gap \in Nat
    /\ Quorums \subseteq SUBSET Validators /\ Byzantine \subseteq Validators
    /\ Epochs \subseteq EpochPlan

Blocks == 1 .. NumBlocks
None == 0

VARIABLES
    epoch,         \* the plan of this epoch, which never changes
    bm,            \* the buffer manager and the requests it has sent
    execution_rx,  \* execution responses in flight
    signing_rx,    \* signing responses in flight
    tree,          \* blocks executed but not committed (executor's BlockTree)
    root,          \* the committed block (the executor's root, the ledger)
    ordered_root,  \* BlockStore: the last block handed to the pipeline
    commit_root,   \* BlockStore: the last block the commit callback reported
    sync,          \* what consensus is doing: [state, target]
    errors,        \* transient failures so far
    syncs,         \* requests to state sync so far
    history        \* what state sync has done, read by no guard: "leftover",
                   \* the pipeline went on with what a reset had left behind;
                   \* "lost", ordered blocks were dropped and not ordered again

vars == <<epoch, bm, execution_rx, signing_rx, tree, root, ordered_root,
          commit_root, sync, errors, syncs, history>>

Reconfig == epoch.reconfig
MaxErrors == epoch.errors
MaxSyncs == epoch.syncs
MayStop == epoch.may_stop

(***************************************************************************)
(* A batch is an interval of blocks and is known by its last one.  A       *)
(* buffer item's sigs are the validators whose stored signature is on the  *)
(* result this node computes; an aggregated item never stays buffered.     *)
(***************************************************************************)
Batches == {p \in [first : Blocks, last : Blocks] : p.first <= p.last}
BlocksOf(batch) == batch.first .. batch.last

BufferItem == [batch : Batches, stage : {"Ordered", "Executed", "Signed"},
               sigs : SUBSET Validators, commit_proof : BOOLEAN]

PersistingRequest == [blocks : SUBSET Blocks, last : Blocks]

ExecutionResponse == [batch : Batches, ok : BOOLEAN]
SigningResponse == [block : Blocks, ok : BOOLEAN]

(***************************************************************************)
(* A channel whose messages may overtake one another, as a delayed retry   *)
(* does: how many copies of each message are in it.                        *)
(***************************************************************************)
Idle(messages) == [e \in messages |-> 0]
InFlight(channel) == {e \in DOMAIN channel : channel[e] > 0}
Send(channel, messages) ==
    [e \in DOMAIN channel |-> channel[e] + (IF e \in messages THEN 1 ELSE 0)]
Receive(channel, message) == [channel EXCEPT ![message] = @ - 1]
Pending(channel) == MapThenSumSet(LAMBDA e : channel[e], DOMAIN channel)

NewOrdered(batch) ==
    [batch |-> batch, stage |-> "Ordered", sigs |-> {}, commit_proof |-> FALSE]

Panic(m) == [m EXCEPT !.mode = "panicked"]

\* Mutant: a commit in progress is not waited for.
OngoingTasksNoPersisting(m) == InFlight(m.execution) # {} \/ InFlight(m.signing) # {}

\* CountedRequest: a request counts from its creation, retry delay included,
\* until the phase has sent its response.  Whether ongoing_tasks is above zero:
OngoingTasks(m) ==
    InFlight(m.execution) # {} \/ InFlight(m.signing) # {} \/ m.persisting # <<>>

(***************************************************************************)
(* The buffer.                                                             *)
(***************************************************************************)
Positions(m, block) == {i \in DOMAIN m.buffer : m.buffer[i].batch.last = block}

FindElemFrom(m, cursor, stage) ==
    LET start == IF cursor = None THEN {1} ELSE Positions(m, cursor)
        found == {j \in DOMAIN m.buffer :
                     /\ m.buffer[j].stage = stage
                     /\ \E i \in start : i <= j}
    IN  IF found = {} THEN None ELSE m.buffer[Min(found)].batch.last

FindElemByKey(m, cursor, key) ==
    {j \in Positions(m, key) : \E i \in Positions(m, cursor) : i <= j}

(***************************************************************************)
(* The roots.  Advancing a root sends a request for the item it reaches,   *)
(* delayed when that item is where the root already was.                   *)
(***************************************************************************)
\* Mutant: nothing is sent for the item the root already pointed to.
AdvanceExecutionRootNoRetry(m) ==
    LET next == FindElemFrom(m, m.execution_root, "Ordered")
        batches == {m.buffer[i].batch :
                       i \in Positions(m, next) \ Positions(m, m.execution_root)}
    IN  [m EXCEPT !.execution_root = next,
                  !.execution = Send(@, batches)]

AdvanceExecutionRoot(m) ==
    LET next == FindElemFrom(m, m.execution_root, "Ordered")
        batches == {m.buffer[i].batch : i \in Positions(m, next)}
    IN  [m EXCEPT !.execution_root = next,
                  !.execution = Send(@, batches)]

AdvanceSigningRoot(m) ==
    LET next == FindElemFrom(m, m.signing_root, "Executed")
    IN  [m EXCEPT !.signing_root = next,
                  !.signing = Send(@, {next} \ {None})]

AdvanceExecutionRootIfNone(m) ==
    IF m.execution_root = None THEN AdvanceExecutionRoot(m) ELSE m

AdvanceSigningRootIfNone(m) ==
    IF m.signing_root = None THEN AdvanceSigningRoot(m) ELSE m

\* What reset() does before it waits for the ongoing tasks.
ResetBuffer(m) ==
    [m EXCEPT !.buffer = <<>>, !.execution_root = None, !.signing_root = None,
              !.block_rx = <<>>]

\* Mutant: only the aggregated item's blocks are persisted, not its prefix.
AdvanceHeadOneItem(m, n) ==
    LET popped == {m.buffer[i].batch.last : i \in 1 .. n}
        request == [blocks |-> BlocksOf(m.buffer[n].batch),
                    last |-> m.buffer[n].batch.last]
    IN  [m EXCEPT !.buffer = SubSeq(@, n + 1, Len(@)),
                  !.execution_root = IF @ \in popped THEN None ELSE @,
                  !.signing_root = IF @ \in popped THEN None ELSE @,
                  !.persisting = Append(@, request)]

\* The first n items leave the buffer; popped are the blocks that name them.
PopPrefix(m, n, popped) ==
    [m EXCEPT !.buffer = SubSeq(@, n + 1, Len(@)),
              !.execution_root = IF @ \in popped THEN None ELSE @,
              !.signing_root = IF @ \in popped THEN None ELSE @]

\* An item aggregated at position n: the prefix up to it leaves the buffer.
\* At the end of the epoch the manager resets before it persists.
AdvanceHead(m, n) ==
    LET popped == {m.buffer[i].batch.last : i \in 1 .. n}
        request == [blocks |-> UNION {BlocksOf(m.buffer[i].batch) : i \in 1 .. n},
                    last |-> m.buffer[n].batch.last]
        rest == PopPrefix(m, n, popped)
    IN  IF request.last >= Reconfig
        THEN [ResetBuffer(rest) EXCEPT !.mode = "ending", !.pending = <<request>>]
        ELSE [rest EXCEPT !.persisting = Append(@, request)]

(***************************************************************************)
(* The handlers of the manager's loop.                                     *)
(***************************************************************************)
\* The timestamp the epoch ends with: that of the first executed block with a
\* reconfiguration.  A block's timestamp is its number.
EndEpochTimestamp(m, batch) ==
    LET reconfigs == {b \in BlocksOf(batch) : b >= Reconfig}
    IN  IF m.end_epoch_timestamp # None \/ reconfigs = {}
        THEN m.end_epoch_timestamp ELSE Min(reconfigs)

IsReconfigurationSuffix(block) == block > Reconfig

\* The assertions of advance_to_executed_or_aggregated.
CanAdvanceToExecuted(item, batch, timestamp) ==
    /\ item.stage = "Ordered"
    /\ item.batch = batch
    /\ timestamp \in {None, batch.last} \/ IsReconfigurationSuffix(batch.last)

\* Mutant: a failed execution is taken for a successful one.
ProcessExecutionResponseIgnoreError(m, response) ==
    LET found == FindElemByKey(m, m.execution_root, response.batch.last)
    IN  IF found = {} THEN m
        ELSE [m EXCEPT !.buffer[Min(found)].stage = "Executed"]

AdvanceToExecuted(m, n, timestamp) ==
    [m EXCEPT !.end_epoch_timestamp = timestamp, !.buffer[n].stage = "Executed"]

ProcessExecutionResponse(m, response) ==
    LET found == FindElemByKey(m, m.execution_root, response.batch.last)
        n == Min(found)
        timestamp == EndEpochTimestamp(m, response.batch)
        executed == AdvanceToExecuted(m, n, timestamp)
    IN  IF found = {} \/ ~response.ok THEN m
        ELSE IF ~CanAdvanceToExecuted(m.buffer[n], response.batch, timestamp)
        THEN Panic(m)
        ELSE IF m.buffer[n].commit_proof \/ m.buffer[n].sigs \in Quorums
        THEN AdvanceHead(executed, n)
        ELSE executed

ProcessSigningResponse(m, response) ==
    LET found == {i \in FindElemByKey(m, m.signing_root, response.block) :
                     m.buffer[i].stage = "Executed"}
    IN  IF found = {} \/ ~response.ok THEN m
        ELSE [m EXCEPT !.buffer[Min(found)].stage = "Signed"]

\* add_signature_if_matched.
AddSignature(m, n, author, matches) ==
    [m EXCEPT !.buffer[n].sigs = IF matches THEN @ \cup {author} ELSE @ \ {author}]

\* ... then try_advance_to_aggregated, in every stage but the first.
ProcessCommitVote(m, n, author, matches) ==
    LET item == m.buffer[n]
        added == AddSignature(m, n, author, matches)
    IN  IF item.stage = "Ordered" THEN added
        ELSE IF ~matches THEN m
        ELSE IF added.buffer[n].sigs \in Quorums THEN AdvanceHead(added, n)
        ELSE added

ProcessCommitDecision(m, n) ==
    IF m.buffer[n].stage = "Ordered"
    THEN [m EXCEPT !.buffer[n].commit_proof = TRUE]
    ELSE AdvanceHead(m, n)

(***************************************************************************)
(* Consensus: BlockStore::commit, the synchronisation started by           *)
(* add_certs, and the shutdown of the epoch.                               *)
(***************************************************************************)
Init ==
    /\ epoch \in Epochs
    /\ bm = [buffer |-> <<>>, block_rx |-> <<>>, execution_root |-> None,
             signing_root |-> None, end_epoch_timestamp |-> None,
             execution |-> Idle(Batches), signing |-> Idle(Blocks), persisting |-> <<>>,
             pending |-> <<>>, mode |-> "running"]
    /\ execution_rx = Idle(ExecutionResponse) /\ signing_rx = Idle(SigningResponse)
    /\ tree = {} /\ root = 0 /\ ordered_root = 0 /\ commit_root = 0
    /\ sync = [state |-> "idle", target |-> None]
    /\ errors = 0 /\ syncs = 0 /\ history = {}

\* The process is up: a panic in any task ends it.
Alive == bm.mode # "panicked"

\* The manager's loop waits in select!.
Running == bm.mode = "running"

\* The round manager runs and is not inside sync_to; it is closed before the
\* pipeline is stopped.
ConsensusReady == Alive /\ sync.state = "idle" /\ bm.mode # "stopped"

CommitOrdered ==
    /\ ConsensusReady
    /\ \E last \in ordered_root + 1 .. epoch.blocks :
          /\ bm' = [bm EXCEPT !.block_rx =
                       Append(@, [first |-> ordered_root + 1, last |-> last])]
          /\ ordered_root' = last
    /\ UNCHANGED <<epoch, execution_rx, signing_rx, tree, root, commit_root,
                   sync, errors, syncs, history>>

NeedSyncForLedgerInfo(target) ==
    target > ordered_root \/ commit_root + Gap < target

\* State sync stays within the epoch: a target at or above Reconfig makes the
\* epoch manager replace the pipeline.
RequestSync ==
    /\ ConsensusReady /\ syncs < MaxSyncs
    /\ \E target \in 1 .. epoch.blocks :
          /\ target < Reconfig
          /\ NeedSyncForLedgerInfo(target)
          /\ sync' = [state |-> "requested", target |-> target]
    /\ syncs' = syncs + 1
    /\ UNCHANGED <<epoch, bm, execution_rx, signing_rx, tree, root,
                   ordered_root, commit_root, errors, history>>

RequestStop ==
    /\ ConsensusReady /\ MayStop
    /\ sync' = [state |-> "requested", target |-> None]
    /\ UNCHANGED <<epoch, bm, execution_rx, signing_rx, tree, root,
                   ordered_root, commit_root, errors, syncs, history>>

\* What reset() leaves behind when state sync goes to the target: an unread
\* answer of the execution phase for blocks above it, which are ordered again,
\* and the timestamp the epoch is to end with.
LeftBehind(target) ==
    \/ \E response \in InFlight(execution_rx) : response.batch.last > target
    \/ bm.end_epoch_timestamp # None

\* sync_to ends in an error after the reset: what was in the pipeline is not
\* ordered again (the TODO in OrderingStateComputer::sync_to).
SyncError ==
    /\ history' = history \cup (IF root < ordered_root THEN {"lost"} ELSE {})
    /\ UNCHANGED <<root, ordered_root, commit_root>>

\* State sync refuses a target below the ledger; otherwise the block store is
\* rebuilt at the target and orders the blocks above it again.
FinishSync ==
    /\ Alive /\ sync.state = "syncing"
    /\ tree' = {}
    /\ sync' = [state |-> "idle", target |-> None]
    /\ IF sync.target >= root
       THEN /\ root' = sync.target
            /\ ordered_root' = sync.target
            /\ commit_root' = sync.target
            /\ history' = (history \ {"lost"}) \cup
                             (IF LeftBehind(sync.target) THEN {"leftover"} ELSE {})
       ELSE SyncError
    /\ UNCHANGED <<epoch, bm, execution_rx, signing_rx, errors, syncs>>

\* State sync fails.
FailSync ==
    /\ Alive /\ sync.state = "syncing" /\ errors < MaxErrors
    /\ tree' = {}
    /\ sync' = [state |-> "idle", target |-> None]
    /\ errors' = errors + 1
    /\ SyncError
    /\ UNCHANGED <<epoch, bm, execution_rx, signing_rx, syncs>>

CommitCallback ==
    /\ Alive /\ commit_root < root
    /\ commit_root' = root
    /\ UNCHANGED <<epoch, bm, execution_rx, signing_rx, tree, root,
                   ordered_root, sync, errors, syncs, history>>

(***************************************************************************)
(* The phases.                                                             *)
(***************************************************************************)
\* A committed block that ends the epoch is replaced by the genesis block of
\* the next epoch, which no block of this one extends.
IsExecutedParent(block) ==
    block \in tree \/ (block = root /\ root < Reconfig)

Execute(batch) ==
    /\ Alive /\ bm.execution[batch] > 0
    /\ \E last \in batch.first - 1 .. batch.last :
          LET ok == last = batch.last IN
          /\ tree' = tree \cup batch.first .. last
          /\ execution_rx' = Send(execution_rx, {[batch |-> batch, ok |-> ok]})
          /\ IF IsExecutedParent(batch.first - 1)
             THEN /\ ok \/ errors < MaxErrors
                  /\ errors' = IF ok THEN errors ELSE errors + 1
             ELSE last = batch.first - 1 /\ UNCHANGED errors
    /\ bm' = [bm EXCEPT !.execution = Receive(@, batch)]
    /\ UNCHANGED <<epoch, signing_rx, root, ordered_root, commit_root, sync,
                   syncs, history>>

Sign(block) ==
    /\ Alive /\ bm.signing[block] > 0
    /\ \E ok \in BOOLEAN :
          /\ ok \/ errors < MaxErrors
          /\ errors' = IF ok THEN errors ELSE errors + 1
          /\ signing_rx' = Send(signing_rx, {[block |-> block, ok |-> ok]})
    /\ bm' = [bm EXCEPT !.signing = Receive(@, block)]
    /\ UNCHANGED <<epoch, execution_rx, tree, root, ordered_root, commit_root,
                   sync, syncs, history>>

\* Suffix blocks carry no transaction.
Version(block) == IF block < Reconfig THEN block ELSE Reconfig

\* commit_blocks_ext: a repeated commit is accepted, any other must consist of
\* executed blocks and start at the committed one, else `expect` fails.
Persist ==
    /\ Alive /\ bm.persisting # <<>>
    /\ LET request == Head(bm.persisting)
           persisted == [bm EXCEPT !.persisting = Tail(@)] IN
       IF Version(root) = Version(request.last)
       THEN bm' = persisted /\ UNCHANGED <<tree, root>>
       ELSE IF /\ request.blocks \subseteq tree
               /\ request.blocks = root + 1 .. request.last
       THEN /\ bm' = persisted
            /\ root' = request.last
            /\ tree' = IF request.last >= Reconfig THEN {}
                       ELSE tree \ (1 .. request.last)
       ELSE bm' = Panic(bm) /\ UNCHANGED <<tree, root>>
    /\ UNCHANGED <<epoch, execution_rx, signing_rx, ordered_root, commit_root,
                   sync, errors, syncs, history>>

(***************************************************************************)
(* The manager's loop: one action per arm of select!, each the whole arm.  *)
(* The interval tick only sends commit votes again and changes nothing     *)
(* here.                                                                   *)
(***************************************************************************)
ReceiveOrderedBlocks ==
    /\ Running /\ bm.block_rx # <<>>
    /\ \E pushed \in {[bm EXCEPT !.block_rx = Tail(@),
                               !.buffer = Append(@, NewOrdered(Head(bm.block_rx)))]} :
          bm' = AdvanceExecutionRootIfNone(pushed)
    /\ UNCHANGED <<epoch, execution_rx, signing_rx, tree, root, ordered_root,
                   commit_root, sync, errors, syncs, history>>

ProcessResetRequest ==
    /\ Running /\ sync.state = "requested"
    /\ bm' = [ResetBuffer(bm) EXCEPT !.mode = "resetting"]
    /\ UNCHANGED <<epoch, execution_rx, signing_rx, tree, root, ordered_root,
                   commit_root, sync, errors, syncs, history>>

\* reset() has seen ongoing_tasks at zero: the request is acknowledged.
AcknowledgeReset ==
    /\ bm.mode = "resetting" /\ ~OngoingTasks(bm)
    /\ IF sync.target = None
       THEN /\ bm' = [bm EXCEPT !.mode = "stopped"]
            /\ sync' = [sync EXCEPT !.state = "idle"]
       ELSE /\ bm' = [bm EXCEPT !.mode = "running"]
            /\ sync' = [sync EXCEPT !.state = "syncing"]
    /\ UNCHANGED <<epoch, execution_rx, signing_rx, tree, root, ordered_root,
                   commit_root, errors, syncs, history>>

\* Mutant: the blocks that end the epoch are not sent on after the wait.
PersistEpochEndForgets ==
    /\ bm.mode = "ending" /\ ~OngoingTasks(bm)
    /\ bm' = [bm EXCEPT !.mode = "running", !.pending = <<>>]
    /\ UNCHANGED <<epoch, execution_rx, signing_rx, tree, root, ordered_root,
                   commit_root, sync, errors, syncs, history>>

\* The same wait inside advance_head, at the end of the epoch.
PersistEpochEnd ==
    /\ bm.mode = "ending" /\ ~OngoingTasks(bm)
    /\ bm' = [bm EXCEPT !.mode = "running", !.persisting = @ \o bm.pending,
                        !.pending = <<>>]
    /\ UNCHANGED <<epoch, execution_rx, signing_rx, tree, root, ordered_root,
                   commit_root, sync, errors, syncs, history>>

ReceiveExecutionResponse(response) ==
    /\ Running /\ execution_rx[response] > 0
    /\ execution_rx' = Receive(execution_rx, response)
    /\ \E processed \in {ProcessExecutionResponse(bm, response)} :
          IF processed.mode = "running"
          THEN \E advanced \in {AdvanceExecutionRoot(processed)} :
                  bm' = AdvanceSigningRootIfNone(advanced)
          ELSE bm' = processed
    /\ UNCHANGED <<epoch, signing_rx, tree, root, ordered_root, commit_root,
                   sync, errors, syncs, history>>

ReceiveSigningResponse(response) ==
    /\ Running /\ signing_rx[response] > 0
    /\ signing_rx' = Receive(signing_rx, response)
    /\ \E processed \in {ProcessSigningResponse(bm, response)} :
          bm' = AdvanceSigningRoot(processed)
    /\ UNCHANGED <<epoch, execution_rx, tree, root, ordered_root, commit_root,
                   sync, errors, syncs, history>>

\* What follows process_commit_message, which has made `processed` of the
\* manager: an aggregated item has left the buffer.
AfterCommitMessage(processed) ==
    IF processed.mode = "running" /\ Len(processed.buffer) < Len(bm.buffer)
    THEN \E advanced \in {AdvanceExecutionRootIfNone(processed)} :
            bm' = AdvanceSigningRootIfNone(advanced)
    ELSE bm' = processed

ReceiveCommitVote(author, block) ==
    /\ Running
    /\ \E n \in Positions(bm, block), matches \in BOOLEAN :
          /\ matches \/ author \in Byzantine
          /\ \E processed \in {ProcessCommitVote(bm, n, author, matches)} :
                AfterCommitMessage(processed)
    /\ UNCHANGED <<epoch, execution_rx, signing_rx, tree, root, ordered_root,
                   commit_root, sync, errors, syncs, history>>

ReceiveCommitDecision(block) ==
    /\ Running
    /\ \E n \in Positions(bm, block) :
          \E processed \in {ProcessCommitDecision(bm, n)} :
              AfterCommitMessage(processed)
    /\ UNCHANGED <<epoch, execution_rx, signing_rx, tree, root, ordered_root,
                   commit_root, sync, errors, syncs, history>>

Next ==
    \/ CommitOrdered \/ RequestSync \/ RequestStop \/ FinishSync \/ FailSync
    \/ CommitCallback \/ Persist
    \/ ReceiveOrderedBlocks \/ ProcessResetRequest \/ AcknowledgeReset
    \/ PersistEpochEnd
    \/ \E batch \in Batches :
          \/ Execute(batch)
          \/ \E ok \in BOOLEAN :
                ReceiveExecutionResponse([batch |-> batch, ok |-> ok])
    \/ \E block \in Blocks :
          \/ Sign(block)
          \/ \E ok \in BOOLEAN :
                ReceiveSigningResponse([block |-> block, ok |-> ok])
          \/ \E author \in Validators : ReceiveCommitVote(author, block)
          \/ ReceiveCommitDecision(block)

Spec == Init /\ [][Next]_vars

(***************************************************************************)
(* Some task always takes a step while one can: the runtime does not stop  *)
(* while a phase, the manager or state sync has work, consensus keeps      *)
(* ordering, and the decision on a buffered batch arrives, for which       *)
(* commit votes are sent again.  Which task runs is left open, except that *)
(* select! does not starve the reset request.                              *)
(***************************************************************************)
\* When a phase, the manager, state sync or consensus has something to do.
CanProgress ==
    \/ ConsensusReady /\ ordered_root < epoch.blocks
    \/ /\ Alive
       /\ \/ InFlight(bm.execution) # {} \/ InFlight(bm.signing) # {} \/ bm.persisting # <<>>
          \/ sync.state = "syncing"
    \/ /\ Running
       /\ \/ bm.block_rx # <<>> \/ sync.state = "requested"
          \/ InFlight(execution_rx) # {} \/ InFlight(signing_rx) # {}
          \/ \E i \in DOMAIN bm.buffer :
                bm.buffer[i].stage # "Ordered" \/ ~bm.buffer[i].commit_proof
    \/ bm.mode \in {"resetting", "ending"}

\* A commit vote that only replaces a stored signature.
OnlyStoresVote ==
    /\ UNCHANGED <<epoch, execution_rx, signing_rx, tree, root, ordered_root,
                   commit_root, sync, errors, syncs, history>>
    /\ bm' = [bm EXCEPT !.buffer = bm'.buffer]
    /\ Len(bm'.buffer) = Len(bm.buffer)
    /\ \A i \in DOMAIN bm.buffer :
          bm'.buffer[i] = [bm.buffer[i] EXCEPT !.sigs = bm'.buffer[i].sigs]

\* The first conjunct is weak fairness of those tasks together: the steps that
\* are not theirs are bounded in number, save the arrivals of votes.  The
\* second is that of ProcessResetRequest, which disables itself.
FairSpec ==
    /\ Spec
    /\ []<>~CanProgress \/ []<><<~OnlyStoresVote>>_vars
    /\ []<>~(Running /\ sync.state = "requested")

(***************************************************************************)
(* Properties.                                                             *)
(***************************************************************************)
IsBufferManager(m) ==
    /\ DOMAIN m = {"buffer", "block_rx", "execution_root", "signing_root",
                   "end_epoch_timestamp", "execution", "signing", "persisting",
                   "pending", "mode"}
    /\ m.buffer \in Seq(BufferItem) /\ m.block_rx \in Seq(Batches)
    /\ m.execution_root \in Blocks \cup {None} /\ m.signing_root \in Blocks \cup {None}
    /\ m.end_epoch_timestamp \in Blocks \cup {None}
    /\ m.execution \in [Batches -> Nat] /\ m.signing \in [Blocks -> Nat]
    /\ m.persisting \in Seq(PersistingRequest) /\ m.pending \in Seq(PersistingRequest)
    /\ m.mode \in {"running", "resetting", "ending", "stopped", "panicked"}

\* The manager, its queues and the block store's roots hold values of the
\* kinds the code gives them.
TypeOK ==
    /\ epoch \in Epochs
    /\ IsBufferManager(bm)
    /\ execution_rx \in [ExecutionResponse -> Nat]
    /\ signing_rx \in [SigningResponse -> Nat]
    /\ tree \subseteq Blocks
    /\ {root, ordered_root, commit_root} \subseteq 0 .. NumBlocks
    /\ sync \in [state : {"idle", "requested", "syncing"}, target : 0 .. NumBlocks]
    /\ errors \in Nat /\ syncs \in Nat /\ history \subseteq {"leftover", "lost"}

\* The manager goes on with what a reset had left behind.  reset() is to avoid
\* the race with state sync; section 5 of the README has what it misses.
Leftover == "leftover" \in history

\* No assertion or expect of the pipeline fails: an execution response finds
\* an ordered item of the same blocks, only suffix blocks take the epoch's end
\* timestamp, and the executor accepts every commit the persisting phase asks
\* of it.  The only exception is what a reset has left behind.
NoPanic == Leftover \/ bm.mode # "panicked"

\* An item the manager takes for executed is one whose blocks the executor
\* holds, so that it can be committed: the buffer and the executor's block
\* tree agree across resets, retries and state sync, unless a reset has left
\* an answer behind.
ExecutedIsCommittable ==
    ~Leftover /\ root < Reconfig =>
        \A i \in DOMAIN bm.buffer :
            bm.buffer[i].stage # "Ordered" => BlocksOf(bm.buffer[i].batch) \subseteq tree

\* The roots point to the first item not executed and to the first item not
\* signed, and are None only when there is no such item.
RootsAreFirst ==
    /\ bm.execution_root = FindElemFrom(bm, None, "Ordered")
    /\ bm.signing_root = FindElemFrom(bm, None, "Executed")

\* No wake-up is lost: while a root points to an item, a request for it is
\* with its phase or the phase's answer is on its way.
RootIsRequested ==
    /\ bm.execution_root # None =>
          \/ \E b \in InFlight(bm.execution) : b.last = bm.execution_root
          \/ \E r \in InFlight(execution_rx) : r.batch.last = bm.execution_root
    /\ bm.signing_root # None =>
          \/ bm.signing_root \in InFlight(bm.signing)
          \/ \E r \in InFlight(signing_rx) : r.block = bm.signing_root

\* Retries do not pile up.  Execution has at most one request or unread
\* response, and one more for each reset, which an answer may outlive.
\* Signing also has one for each batch a decision committed before this
\* node's own signature came back: that response, when it is read, asks again
\* for the item the root is at.
RequestsDoNotPileUp ==
    LET committed == IF bm.buffer = <<>> THEN ordered_root
                     ELSE Head(bm.buffer).batch.first - 1
    IN  /\ Pending(bm.execution) + Pending(execution_rx) <= 1 + syncs
        /\ Pending(bm.signing) + Pending(signing_rx)
              <= 1 + syncs + committed

\* Every root is the first item of its stage, is worked on, and is not asked
\* for again and again: responses, retries, decisions and resets in any order
\* leave no item without a request, and no heap of requests.  An answer that a
\* reset has left behind may execute the batches out of order.
RequestsMatchRoots == Leftover \/ (RootsAreFirst /\ RootIsRequested /\ RequestsDoNotPileUp)

\* The reset is acknowledged only to an idle pipeline: while state sync owns
\* the executor and the ledger, no phase has a request and the manager has no
\* block it could send one for.
SyncIsExclusive ==
    sync.state = "syncing" =>
        /\ InFlight(bm.execution) = {} /\ InFlight(bm.signing) = {}
        /\ bm.persisting = <<>>
        /\ bm.buffer = <<>> /\ bm.block_rx = <<>>

\* Every block the epoch can commit is eventually in the ledger, whatever
\* transient failures its execution, its signing and state sync meet.
\* Exceptions: the epoch is stopped, a reset has left something behind, or a
\* sync in error has dropped ordered blocks and no later one succeeds.
EventuallyCommitted ==
    \/ <>(\/ root >= Min({epoch.blocks, Reconfig})
          \/ sync.state = "requested" /\ sync.target = None
          \/ Leftover)
    \/ <>[]("lost" \in history)

\* A reset request is always acknowledged and the synchronisation it is for
\* ends, unless a panic ends the process: waiting for the ongoing tasks cannot
\* block.
SyncCompletes == sync.state = "requested" ~> (sync.state = "idle" \/ ~Alive)

\* The pipeline neither stops with blocks in it nor hangs in a reset.
PipelineProgress == EventuallyCommitted /\ SyncCompletes

=============================================================================
