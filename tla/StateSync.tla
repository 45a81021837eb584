----------------------------- MODULE StateSync -----------------------------
(***************************************************************************)
(* The hand-over of the ledger between consensus and state sync once the   *)
(* node is bootstrapped: the state sync driver with its continuous syncer, *)
(* the storage synchronizer (executor and committer tasks), the chunk      *)
(* executor with its commit queue, and the two callers in consensus, the   *)
(* ExecutionProxy (commit, sync_to) and the EpochManager (new epochs).     *)
(*                                                                         *)
(* Every task is a process: `con' is the holder of ExecutionProxy's        *)
(* write_mutex, `driver' the select! loop of the driver, `exec' and `comm' *)
(* the executor and the committer.  A task that is inside an await is at a *)
(* pc of its own.  A full node has no consensus (setup.validator is FALSE) *)
(* and syncs without a target.                                             *)
(***************************************************************************)
EXTENDS Integers, Sequences, FiniteSets

CONSTANTS
    MaxVersion,     \* the last version of the chain the peers hold
    LedgerInfos,    \* versions with a certified ledger info
    EpochEnds,      \* versions whose ledger info ends an epoch
    None,
    QueueBound,     \* max_pending_data_chunks: room in each task's channel
    MaxNotifications,  \* max_consecutive_stream_notifications
    MaxTimeouts,    \* max_num_stream_timeouts
    CounterModulus, \* the width of the AtomicU64, scaled down
    Setups          \* the nodes to look at: [validator, budget], whether the
                    \* node is a validator and how often each kind of external
                    \* event happens

EventKinds == {"stream", "payload", "execute", "save", "mempool", "commit", "sync"}

ASSUME StateSyncAssumption ==
    /\ Setups \subseteq [validator : BOOLEAN, budget : [EventKinds -> Nat]]
    /\ MaxVersion \in Nat
    /\ {0, MaxVersion} \subseteq LedgerInfos
    /\ LedgerInfos \subseteq 0..MaxVersion
    /\ EpochEnds \subseteq LedgerInfos \ {0}
    /\ QueueBound \in Nat \ {0} /\ MaxNotifications \in Nat \ {0}
    /\ MaxTimeouts \in Nat \ {0}
    /\ CounterModulus \in Nat /\ CounterModulus > 2 * QueueBound + 3

VARIABLES
    setup,     \* the node, one of Setups
    ledger,    \* storage: [version, li], latest transaction and ledger info
    con,       \* consensus: [pc, epoch, target, purpose], and `overtaken', a
               \* history flag that no action reads
    asyncq,    \* ExecutionProxy's async_state_sync_notifier queue
    inbox,     \* consensus notifications sent to the driver
    driver,    \* the driver task
    request,   \* consensus_sync_request: a target version, or None
    stream,    \* active_data_stream with its speculative_stream_state
    fallback,  \* the output fallback handler is in fallback mode
    execq, exec,   \* the executor's channel and the executor task
    commq, comm,   \* the committer's channel and the committer task
    errors,    \* error notifications not yet handled by the driver
    pending,   \* pending_data_chunks, wraps like the AtomicU64
    inner,     \* the chunk executor's cache: [view, chunks], or None
    reconfig,  \* the reconfiguration channel of consensus, of size one
    budget     \* what may still happen of each kind of external event

vars == <<setup, ledger, con, asyncq, inbox, driver, request, stream, fallback,
          execq, exec, commq, comm, errors, pending, inner, reconfig, budget>>
consensusVars == <<con, asyncq>>
pipelineVars == <<execq, exec, commq, comm, pending, inner>>

Versions == 0..MaxVersion
\* The epoch a ledger info at version v belongs to, and the epoch that
\* storage is in once that version is the latest one.
EpochOf(v) == 1 + Cardinality({e \in EpochEnds : e < v})
NextEpoch(v) == 1 + Cardinality({e \in EpochEnds : e <= v})
Kinds == {"transactions", "outputs"}
Spend(kind) == budget[kind] > 0 /\ budget' = [budget EXCEPT ![kind] = @ - 1]

Chunks == [first : Versions, last : Versions, li : LedgerInfos, kind : Kinds]
Executed == [last : Versions, li : LedgerInfos \cup {None}]
Idle == [pc |-> "select"]
ConsensusStates ==
    [pc : {"running", "syncing", "ok", "error", "awaiting"},
     epoch : 1..NextEpoch(MaxVersion), target : Versions, purpose : {"block", "epoch"},
     overtaken : BOOLEAN]
NotifyStates ==
    [pc : {"read"}, reconfig : BOOLEAN]
    \cup [pc : {"notify"}, reconfig : BOOLEAN, version : Versions]
DriverStates ==
    [pc : {"select", "finish"}] \cup [pc : {"drain"}, drive : BOOLEAN]
    \cup [pc : {"fetch"}, left : 1..MaxNotifications]
    \cup [pc : {"send", "increment"}, left : 1..MaxNotifications, chunk : Chunks]
    \cup NotifyStates
Notifications == [type : {"commit"}, reconfig : BOOLEAN] \cup [type : {"sync"}, target : Versions]
StreamStates == [synced : Versions, epoch : Nat, timeouts : 0..MaxTimeouts,
                 target : Versions \cup {None}]
Caches == [view : Versions, chunks : Seq(Executed)]

ASSUME NoneAssumption == None \notin Versions /\ None \notin StreamStates /\ None \notin Caches

TypeOK ==
    /\ ledger \in [version : Versions, li : LedgerInfos]
    /\ con \in ConsensusStates
    /\ asyncq \in Seq(BOOLEAN)
    /\ inbox \in Seq(Notifications)
    /\ driver \in DriverStates
    /\ request \in Versions \cup {None}
    /\ stream \in {None} \cup StreamStates
    /\ fallback \in BOOLEAN
    /\ execq \in Seq(Chunks) /\ Len(execq) <= QueueBound
    /\ exec \in {"idle", "send", "decrement"}
    /\ commq \in 0..QueueBound
    /\ comm \in [pc : {"idle", "decrement"}] \cup NotifyStates
    /\ errors \in Nat
    /\ pending \in 0..(CounterModulus - 1)
    /\ inner \in {None} \cup Caches
    /\ reconfig \in 1..NextEpoch(MaxVersion) \cup {None}
    /\ setup \in Setups /\ budget \in [EventKinds -> Nat]

Init ==
    /\ ledger = [version |-> 0, li |-> 0]
    /\ con = [pc |-> "running", epoch |-> 1, target |-> 0, purpose |-> "block",
              overtaken |-> FALSE]
    /\ asyncq = <<>> /\ inbox = <<>>
    /\ driver = Idle /\ request = None /\ stream = None /\ fallback = FALSE
    /\ execq = <<>> /\ exec = "idle" /\ commq = 0 /\ comm = [pc |-> "idle"]
    /\ errors = 0 /\ pending = 0 /\ inner = None /\ reconfig = None
    /\ setup \in Setups /\ budget = setup.budget
-----------------------------------------------------------------------------
(***************************************************************************)
(* Consensus.  ExecutionProxy holds write_mutex during commit and during   *)
(* the whole of sync_to.  The commit notification goes through a queue of  *)
(* its own, so a later sync request can reach the driver first.            *)
(***************************************************************************)

\* commit: blocks up to a ledger info of the epoch consensus runs in.
ConsensusCommit(v) ==
    /\ setup.validator /\ con.pc = "running"
    /\ v \in LedgerInfos /\ v > ledger.version
    /\ con.epoch = NextEpoch(ledger.li) /\ EpochOf(v) = con.epoch
    /\ Spend("commit")
    /\ ledger' = [version |-> v, li |-> v]
    /\ asyncq' = Append(asyncq, v \in EpochEnds)
    /\ UNCHANGED <<setup, con, inbox, driver, request, stream, fallback, errors,
                   reconfig, pipelineVars>>

\* The notifier task of ExecutionProxy; a response that times out lets it
\* send the next notification, so the response is no guard.
NotifyCommit ==
    /\ asyncq # <<>>
    /\ inbox' = Append(inbox, [type |-> "commit", reconfig |-> Head(asyncq)])
    /\ asyncq' = Tail(asyncq)
    /\ UNCHANGED <<setup, ledger, con, driver, request, stream, fallback, errors,
                   reconfig, budget, pipelineVars>>

\* The driver has not sent out yet that consensus committed the end of an epoch.
NoticeOutstanding ==
    \/ \E i \in DOMAIN asyncq : asyncq[i]
    \/ \E i \in DOMAIN inbox : inbox[i].type = "commit" /\ inbox[i].reconfig
    \/ driver.pc \in {"read", "notify"} /\ driver.reconfig

\* sync_to: for a block that is ahead of storage, or for the last ledger info
\* of an EpochChangeProof that starts in the current epoch.
SyncTo(v, purpose) ==
    /\ setup.validator /\ con.pc = "running"
    /\ \/ purpose = "block" /\ v \in LedgerInfos /\ v > ledger.li
          /\ EpochOf(v) = con.epoch
       \/ purpose = "epoch" /\ v \in EpochEnds /\ EpochOf(v) >= con.epoch
    /\ Spend("sync")
    /\ con' = [con EXCEPT !.pc = "syncing", !.target = v, !.purpose = purpose,
                          !.overtaken = @ \/ (v > ledger.li /\ NoticeOutstanding)]
    /\ inbox' = Append(inbox, [type |-> "sync", target |-> v])
    /\ UNCHANGED <<setup, ledger, asyncq, driver, request, stream, fallback, errors,
                   reconfig, pipelineVars>>

\* The answer arrives: sync_to returns, and a new epoch is awaited.  A failed
\* sync to a new epoch is an expect, and ends the process.
SyncReturns ==
    /\ con.pc \in (IF con.purpose = "epoch" THEN {"ok"} ELSE {"ok", "error"})
    /\ con' = [con EXCEPT !.pc = IF con.purpose = "epoch" THEN "awaiting"
                                 ELSE "running"]
    /\ UNCHANGED <<setup, ledger, asyncq, inbox, driver, request, stream, fallback,
                   errors, reconfig, budget, pipelineVars>>

\* await_reconfig_notification and start_new_epoch.
StartNewEpoch ==
    /\ con.pc = "awaiting" /\ reconfig # None
    /\ con' = [con EXCEPT !.pc = "running", !.epoch = reconfig]
    /\ reconfig' = None
    /\ UNCHANGED <<setup, ledger, asyncq, inbox, driver, request, stream, fallback,
                   errors, budget, pipelineVars>>
-----------------------------------------------------------------------------
(***************************************************************************)
(* The driver.  check_sync_request_progress waits for the storage          *)
(* synchronizer to drain before it answers; the loop of the continuous     *)
(* syncer handles up to MaxNotifications stream notifications per tick.    *)
(***************************************************************************)
ResetStream == stream' = None

\* The answer to the oneshot callback of sync_to_target.
Answer(result) == con' = [con EXCEPT !.pc = result]

\* initialize_active_data_stream, with the chunk executor reset and the
\* speculative state read from storage; or the streaming client fails.
InitializeStream ==
    /\ inner' = [view |-> ledger.version, chunks |-> <<>>]
    /\ \/ /\ stream' = [synced |-> ledger.version,
                        epoch |-> NextEpoch(ledger.li),
                        timeouts |-> 0, target |-> request]
          /\ fallback' \in IF fallback THEN BOOLEAN ELSE {FALSE}
          /\ UNCHANGED budget
       \/ Spend("stream") /\ UNCHANGED <<stream, fallback>>
    /\ driver' = Idle

\* The tail of drive_progress: nothing while consensus is executing.
DriveSyncer ==
    IF (setup.validator /\ request = None) \/ (stream = None /\ pending > 0)
    THEN driver' = Idle /\ UNCHANGED <<stream, fallback, inner, budget>>
    ELSE IF stream # None
    THEN /\ driver' = [pc |-> "fetch", left |-> MaxNotifications]
         /\ UNCHANGED <<stream, fallback, inner, budget>>
    ELSE InitializeStream

\* Mutant: the target has to be passed.
BeyondTarget == request # None /\ ledger.li > request

AtTarget == request # None /\ ledger.li >= request

DriveProgress ==
    /\ driver.pc = "select"
    /\ IF AtTarget
       THEN /\ driver' = [pc |-> "drain", drive |-> TRUE]
            /\ UNCHANGED <<stream, fallback, inner, budget>>
       ELSE DriveSyncer
    /\ UNCHANGED <<setup, ledger, consensusVars, inbox, request, execq, exec, commq,
                   comm, errors, pending, reconfig>>

\* Mutant: the storage synchronizer is not drained before the answer.
DrainedAtOnce ==
    /\ driver.pc = "drain"
    /\ IF request # None /\ ledger.li = request
       THEN /\ request' = None /\ Answer("ok")
            /\ driver' = [pc |-> "finish"]
            /\ UNCHANGED <<stream, fallback, inner, budget>>
       ELSE /\ UNCHANGED <<request, con>>
            /\ driver' = Idle /\ UNCHANGED <<stream, fallback, inner, budget>>
    /\ UNCHANGED <<setup, ledger, asyncq, inbox, execq, exec, commq, comm, errors,
                   pending, reconfig>>

\* The storage synchronizer has drained: the handler compares the refreshed
\* ledger info with the target, takes the request and answers consensus.
Drained ==
    /\ driver.pc = "drain" /\ pending = 0
    /\ IF request # None /\ ledger.li = request
       THEN /\ request' = None /\ Answer("ok")
            /\ driver' = [pc |-> "finish"]
            /\ UNCHANGED <<stream, fallback, inner, budget>>
       ELSE /\ UNCHANGED <<request, con>>
            /\ IF driver.drive THEN DriveSyncer
               ELSE driver' = Idle /\ UNCHANGED <<stream, fallback, inner, budget>>
    /\ UNCHANGED <<setup, ledger, asyncq, inbox, execq, exec, commq, comm, errors,
                   pending, reconfig>>

\* After the answer: "Consensus is now in control".
FinishChunkExecutor ==
    /\ driver.pc = "finish"
    /\ ResetStream /\ inner' = None /\ driver' = Idle
    /\ UNCHANGED <<setup, ledger, consensusVars, inbox, request, fallback, execq,
                   exec, commq, comm, errors, pending, reconfig, budget>>

\* handle_consensus_sync_notification and initialize_sync_request.
HandleSync ==
    /\ driver.pc = "select" /\ inbox # <<>> /\ Head(inbox).type = "sync"
    /\ LET target == Head(inbox).target IN
       /\ request' = IF target > ledger.li THEN target ELSE request
       /\ IF target > ledger.li THEN UNCHANGED con
          ELSE Answer(IF target = ledger.li THEN "ok" ELSE "error")
    /\ inbox' = Tail(inbox)
    /\ UNCHANGED <<setup, ledger, asyncq, driver, stream, fallback, errors, reconfig,
                   budget, pipelineVars>>

HandleCommit ==
    /\ driver.pc = "select" /\ inbox # <<>> /\ Head(inbox).type = "commit"
    /\ driver' = [pc |-> "read", reconfig |-> Head(inbox).reconfig]
    /\ inbox' = Tail(inbox)
    /\ UNCHANGED <<setup, ledger, consensusVars, request, stream, fallback, errors,
                   reconfig, budget, pipelineVars>>

\* handle_committed_transactions: the version is read, mempool is notified
\* (an await with a timeout), and the events are sent for the version read.
ReadVersion(task) ==
    [pc |-> "notify", reconfig |-> task.reconfig, version |-> ledger.version]

NotifyEvents(task) ==
    \/ /\ reconfig' = IF task.reconfig THEN NextEpoch(task.version) ELSE reconfig
       /\ UNCHANGED budget
    \/ Spend("mempool") /\ UNCHANGED reconfig

DriverReadsVersion ==
    /\ driver.pc = "read" /\ driver' = ReadVersion(driver)
    /\ UNCHANGED <<setup, ledger, consensusVars, inbox, request, stream, fallback,
                   errors, reconfig, budget, pipelineVars>>

\* The rest of handle_consensus_commit_notification.
DriverNotifies ==
    /\ driver.pc = "notify" /\ NotifyEvents(driver)
    /\ driver' = IF AtTarget THEN [pc |-> "drain", drive |-> FALSE] ELSE Idle
    /\ UNCHANGED <<setup, ledger, consensusVars, inbox, request, stream, fallback,
                   errors, pipelineVars>>

\* handle_error_notification: whichever stream is active is terminated.
HandleError ==
    /\ driver.pc = "select" /\ errors > 0
    /\ errors' = errors - 1
    /\ ResetStream /\ fallback' = TRUE
    /\ UNCHANGED <<setup, ledger, consensusVars, inbox, driver, request, reconfig,
                   budget, pipelineVars>>
-----------------------------------------------------------------------------
(***************************************************************************)
(* Stream notifications.  What the streaming service delivers to an active *)
(* stream is a payload, the end of the stream, or nothing in time.         *)
(***************************************************************************)
NextLeft(left) ==
    IF left = 1 THEN Idle ELSE [pc |-> "fetch", left |-> left - 1]

\* What the driver itself verifies of a payload.
Verified(p) ==
    /\ p.first = stream.synced + 1
    /\ request = None \/ p.li <= request
    /\ EpochOf(p.li) = stream.epoch

\* A payload that honest peers would answer the stream's requests with.
Honest(p) ==
    /\ Verified(p) /\ p.last <= p.li
    /\ fallback => p.kind = "outputs"

ProcessPayload(p) ==
    /\ driver.pc = "fetch" /\ p.first <= p.last
    /\ IF Honest(p) THEN UNCHANGED budget ELSE Spend("payload")
    /\ IF Verified(p)
       THEN /\ driver' = [pc |-> "send", left |-> driver.left, chunk |-> p]
            /\ stream' = [stream EXCEPT !.timeouts = 0]
       ELSE driver' = Idle /\ ResetStream
    /\ UNCHANGED <<setup, ledger, consensusVars, inbox, request, fallback, errors,
                   reconfig, pipelineVars>>

\* notify_executor: the chunk is in the channel before it is counted.
SendChunk ==
    /\ driver.pc = "send" /\ Len(execq) < QueueBound
    /\ execq' = Append(execq, driver.chunk)
    /\ driver' = [driver EXCEPT !.pc = "increment"]
    /\ UNCHANGED <<setup, ledger, consensusVars, inbox, request, stream, fallback,
                   exec, commq, comm, errors, pending, inner, reconfig, budget>>

IncrementPending ==
    /\ driver.pc = "increment"
    /\ pending' = (pending + 1) % CounterModulus
    /\ stream' = [stream EXCEPT
           !.synced = driver.chunk.last,
           !.epoch = IF driver.chunk.li \in EpochEnds
                        /\ driver.chunk.li = driver.chunk.last
                     THEN NextEpoch(driver.chunk.li) ELSE @]
    /\ driver' = NextLeft(driver.left)
    /\ UNCHANGED <<setup, ledger, consensusVars, inbox, request, fallback, execq,
                   exec, commq, comm, errors, inner, reconfig, budget>>

\* The end of a stream: with a target once everything up to it was sent; any
\* other end, or a payload of the wrong type, is a fault of the service.
EndOfStream ==
    /\ driver.pc = "fetch"
    /\ IF stream.target # None /\ stream.synced >= stream.target
       THEN UNCHANGED budget ELSE Spend("stream")
    /\ ResetStream /\ driver' = Idle
    /\ UNCHANGED <<setup, ledger, consensusVars, inbox, request, fallback, errors,
                   reconfig, pipelineVars>>

\* A timeout is a fault only when the peers have something to send.
StreamTimeout ==
    /\ driver.pc = "fetch"
    /\ IF \E p \in Chunks : p.first <= p.last /\ Honest(p)
       THEN Spend("stream") ELSE UNCHANGED budget
    /\ stream' = IF stream.timeouts + 1 >= MaxTimeouts THEN None
                 ELSE [stream EXCEPT !.timeouts = @ + 1]
    /\ driver' = Idle
    /\ UNCHANGED <<setup, ledger, consensusVars, inbox, request, fallback, errors,
                   reconfig, pipelineVars>>
-----------------------------------------------------------------------------
(***************************************************************************)
(* The storage synchronizer's executor and committer.                      *)
(***************************************************************************)
LatestView == IF inner.chunks = <<>> THEN inner.view
              ELSE inner.chunks[Len(inner.chunks)].last

\* verify_chunk, the execution itself and the choice of the ledger info that
\* is stored with the chunk.
Executes(c) ==
    /\ c.last <= c.li
    /\ c.first <= LatestView + 1 /\ c.last > LatestView
    /\ c.last \in EpochEnds => c.li = c.last
ExecutedChunk(c) ==
    [last |-> c.last, li |-> IF c.li = c.last THEN c.li ELSE None]

\* execute_chunk initializes the cache when it has to; apply_chunk expects it.
CacheFor(c) ==
    IF inner = None /\ c.kind = "transactions"
    THEN [view |-> ledger.version, chunks |-> <<>>] ELSE inner

\* The chunk in the channel is executed or applied.  On an error the driver
\* is notified, and the counter decremented after that.
ExecuteChunk ==
    /\ exec = "idle" /\ execq # <<>>
    /\ LET c == Head(execq) IN
       /\ CacheFor(c) # None
       /\ IF inner = None
          THEN /\ inner' = [CacheFor(c) EXCEPT !.chunks = <<ExecutedChunk(c)>>]
               /\ exec' = "send" /\ UNCHANGED <<errors, budget>>
          ELSE \/ /\ Executes(c)
                  /\ inner' = [inner EXCEPT !.chunks = Append(@, ExecutedChunk(c))]
                  /\ exec' = "send" /\ UNCHANGED <<errors, budget>>
               \/ /\ IF Executes(c) THEN Spend("execute") ELSE UNCHANGED budget
                  /\ exec' = "decrement" /\ errors' = errors + 1
                  /\ UNCHANGED inner
    /\ execq' = Tail(execq)
    /\ UNCHANGED <<setup, ledger, consensusVars, inbox, driver, request, stream,
                   fallback, commq, comm, pending, reconfig>>

NotifyCommitter ==
    /\ exec = "send" /\ commq < QueueBound
    /\ commq' = commq + 1 /\ exec' = "idle"
    /\ UNCHANGED <<setup, ledger, consensusVars, inbox, driver, request, stream,
                   fallback, execq, comm, errors, pending, inner, reconfig, budget>>

Decrement == pending' = (pending - 1) % CounterModulus

ExecutorDecrements ==
    /\ exec = "decrement" /\ exec' = "idle" /\ Decrement
    /\ UNCHANGED <<setup, ledger, consensusVars, inbox, driver, request, stream,
                   fallback, execq, commq, comm, errors, inner, reconfig, budget>>

\* Mutant: dequeue leaves the persisted view behind.
SaveChunkOldView ==
    LET c == Head(inner.chunks) IN
    /\ ledger' = [version |-> c.last,
                  li |-> IF c.li = None THEN ledger.li ELSE c.li]
    /\ inner' = [view |-> inner.view, chunks |-> Tail(inner.chunks)]
    /\ comm' = [pc |-> "read", reconfig |-> c.last \in EpochEnds]
    /\ UNCHANGED <<errors, budget>>

\* Mutant: the events of a chunk are not passed on.
SaveChunkWithoutEvents ==
    LET c == Head(inner.chunks) IN
    /\ ledger' = [version |-> c.last,
                  li |-> IF c.li = None THEN ledger.li ELSE c.li]
    /\ inner' = [view |-> c.last, chunks |-> Tail(inner.chunks)]
    /\ comm' = [pc |-> "read", reconfig |-> FALSE]
    /\ UNCHANGED <<errors, budget>>

\* What save_transactions ensures of the front of the commit queue, besides
\* hashes: that it starts at the next version of storage, and that its ledger
\* info is of the epoch storage is in.
StorageAccepts ==
    LET c == Head(inner.chunks) IN
    /\ inner.view = ledger.version
    /\ c.li # None => EpochOf(c.li) = NextEpoch(ledger.li)

\* commit_chunk: the front of the commit queue is saved and then dequeued.
SaveChunk ==
    LET c == Head(inner.chunks) IN
    /\ ledger' = [version |-> c.last,
                  li |-> IF c.li = None THEN ledger.li ELSE c.li]
    /\ inner' = [view |-> c.last, chunks |-> Tail(inner.chunks)]
    /\ comm' = [pc |-> "read", reconfig |-> c.last \in EpochEnds]
    /\ UNCHANGED <<errors, budget>>

\* A chunk that storage refuses, or fails to write, stays at the front.
CommitChunk ==
    /\ comm.pc = "idle" /\ commq > 0 /\ inner # None
    /\ commq' = commq - 1
    /\ \/ inner.chunks # <<>> /\ StorageAccepts /\ SaveChunk
       \/ /\ IF inner.chunks # <<>> /\ StorageAccepts
             THEN Spend("save") ELSE UNCHANGED budget
          /\ comm' = [pc |-> "decrement"] /\ errors' = errors + 1
          /\ UNCHANGED <<setup, ledger, inner>>
    /\ UNCHANGED <<setup, consensusVars, inbox, driver, request, stream, fallback,
                   execq, exec, pending, reconfig>>

CommitterReadsVersion ==
    /\ comm.pc = "read" /\ comm' = ReadVersion(comm)
    /\ UNCHANGED <<setup, ledger, consensusVars, inbox, driver, request, stream,
                   fallback, execq, exec, commq, errors, pending, inner,
                   reconfig, budget>>

CommitterNotifies ==
    /\ comm.pc = "notify" /\ NotifyEvents(comm)
    /\ comm' = [pc |-> "decrement"]
    /\ UNCHANGED <<setup, ledger, consensusVars, inbox, driver, request, stream,
                   fallback, execq, exec, commq, errors, pending, inner>>

CommitterDecrements ==
    /\ comm.pc = "decrement" /\ comm' = [pc |-> "idle"] /\ Decrement
    /\ UNCHANGED <<setup, ledger, consensusVars, inbox, driver, request, stream,
                   fallback, execq, exec, commq, errors, inner, reconfig, budget>>
-----------------------------------------------------------------------------
DriverStep ==
    \/ DriveProgress \/ Drained \/ FinishChunkExecutor
    \/ HandleSync \/ HandleCommit \/ HandleError
    \/ DriverReadsVersion \/ DriverNotifies
    \/ SendChunk \/ IncrementPending
    \/ EndOfStream \/ StreamTimeout
    \/ \E p \in Chunks : ProcessPayload(p)
ExecutorStep == ExecuteChunk \/ NotifyCommitter \/ ExecutorDecrements
CommitterStep ==
    CommitChunk \/ CommitterReadsVersion \/ CommitterNotifies \/ CommitterDecrements
ConsensusStep ==
    \/ NotifyCommit \/ SyncReturns \/ StartNewEpoch
    \/ \E v \in Versions : ConsensusCommit(v)
    \/ \E v \in Versions, purpose \in {"block", "epoch"} : SyncTo(v, purpose)

Next == DriverStep \/ ExecutorStep \/ CommitterStep \/ ConsensusStep

Spec == Init /\ [][Next]_vars
-----------------------------------------------------------------------------
\* The chunks between the continuous syncer and the end of the committer.
InExecutor == IF exec = "idle" THEN 0 ELSE 1
InCommitter == IF comm.pc = "idle" THEN 0 ELSE 1
InPipeline == Len(execq) + InExecutor + commq + InCommitter

\* While consensus may execute and commit, no chunk is on its way to storage:
\* "consensus and state sync must hand over to each other after all pending
\* execution and committing complete", and save_transactions panics when two
\* threads are in it ("Concurrent committing detected").
OneWriter ==
    setup.validator /\ con.pc \in {"running", "ok", "awaiting"} => InPipeline = 0

\* commit_chunk never asks storage for what it refuses: whenever a commit is
\* due the queue has a chunk at its front ("No chunk to commit" is out of
\* reach), it starts at the next version of storage, and its ledger info is of
\* the epoch storage is in.  A refused chunk would stay at the front, and every
\* commit after it would be refused as well until the stream is restarted.
NothingIsRefused ==
    commq > 0 => inner # None /\ inner.chunks # <<>> /\ StorageAccepts

\* Consensus hears that a sync succeeded only when transactions and ledger
\* info are at the target, and nothing else is about to be written.
AnsweredAtTarget ==
    [][con.pc = "syncing" /\ con'.pc = "ok" =>
           /\ ledger.version = con.target /\ ledger.li = con.target
           /\ InPipeline = 0]_vars

\* State sync never passes the target of an active request: the request
\* could not be answered any more (SyncedBeyondTarget), and consensus, which
\* waits without a timeout, would stop for good.
NeverBeyondTarget ==
    request # None => ledger.li <= request /\ ledger.version <= request

\* apply_chunk and commit_chunk find the chunk executor initialized: their
\* expect("not reset") is out of reach.
ChunkExecutorIsReset ==
    (commq > 0 \/ execq # <<>>) => inner # None

\* pending_data_chunks is exact whenever the driver looks at it, although a
\* fast committer can decrement it before the driver has incremented it.
CounterIsExact ==
    driver.pc # "increment" => pending = InPipeline

\* Nobody is left that could still send a reconfiguration notification.
Quiet ==
    /\ asyncq = <<>> /\ inbox = <<>> /\ driver.pc = "select"
    /\ InPipeline = 0 /\ errors = 0

\* When consensus waits for the notification of the epoch it has synced to,
\* there is one, or one is on its way.  It does not hold when mempool misses an
\* acknowledgement; see section 5 of the README.
ReconfigIsSent == con.pc = "awaiting" /\ Quiet => reconfig # None

\* The notification it finds is the one of the newest epoch in storage
\* ("Subscribers will be sent a notification containing all new on-chain
\* configuration values whenever a new epoch begins").  Two things can go
\* wrong, and nothing else: mempool misses an acknowledgement, or a sync to a
\* later epoch is requested before the driver has sent out the end of the epoch
\* that consensus committed itself (handle_committed_transactions reads the
\* version before it waits for mempool, and can overwrite a newer notice).
ReconfigIsNewest ==
    /\ con.pc = "awaiting" /\ Quiet
    /\ budget.mempool = setup.budget.mempool /\ ~con.overtaken
    => reconfig = NextEpoch(ledger.li)

\* Every task keeps running, timers included; the peers keep answering, the
\* faults are those the budget allows.
FairSpec ==
    /\ Spec
    /\ WF_vars(DriveProgress) /\ SF_vars(HandleSync) /\ SF_vars(HandleCommit)
    /\ SF_vars(HandleError)
    /\ WF_vars(Drained \/ FinishChunkExecutor \/ DriverReadsVersion
               \/ DriverNotifies \/ SendChunk \/ IncrementPending)
    /\ WF_vars(driver.pc = "fetch" /\ (EndOfStream \/ StreamTimeout
               \/ \E p \in Chunks : ProcessPayload(p)))
    /\ WF_vars(ExecutorStep) /\ WF_vars(CommitterStep)
    /\ WF_vars(NotifyCommit) /\ WF_vars(SyncReturns)

\* Every sync request of consensus is answered.
SyncIsAnswered == con.pc = "syncing" ~> con.pc # "syncing"

\* A full node reaches the newest version its peers hold.
CatchesUp == <>(setup.validator \/ ledger.version = MaxVersion)

\* State sync comes to an end on both kinds of node.
SyncProgress == SyncIsAnswered /\ CatchesUp
-----------------------------------------------------------------------------
(* The inductive invariant behind the safety properties above *)

\* The counter lags behind the pipeline by the chunk that has been sent and
\* not been counted yet, and wraps when the committer is faster than that.
CounterInv ==
    pending = (IF driver.pc # "increment" THEN InPipeline
               ELSE IF InPipeline = 0 THEN CounterModulus - 1
               ELSE InPipeline - 1)

\* A sync request of consensus is a message, then the active request, then an
\* answer; consensus waits for as long as it is one of the first two.
RequestInv ==
    /\ con.pc # "running" => setup.validator
    /\ request # None => con.pc = "syncing" /\ con.target = request
    /\ \A i \in DOMAIN inbox : inbox[i].type = "sync" =>
          /\ con.pc = "syncing" /\ con.target = inbox[i].target
          /\ request = None
          /\ \A j \in DOMAIN inbox : inbox[j].type = "sync" => j = i

\* Without a request a validator's state sync is at rest: the pipeline is
\* empty, the chunk executor finished or about to be, and the transactions in
\* storage end with its ledger info.
RestInv ==
    /\ driver.pc = "drain" => request # None
    /\ driver.pc = "finish" => request = None /\ InPipeline = 0
    /\ setup.validator /\ request = None =>
          /\ InPipeline = 0
          /\ driver.pc \notin {"fetch", "send", "increment"}
          /\ driver.pc # "finish" => stream = None /\ inner = None
          /\ ledger.version = ledger.li

\* The chunk executor is initialized whenever a stream is open or a chunk is
\* on its way.
CacheInv ==
    /\ driver.pc \in {"fetch", "send", "increment"} => stream # None
    /\ stream # None \/ InPipeline > 0 => inner # None

\* Chunks that wait to be committed extend the view and one another.
Extending(view, chunks) ==
    \A i \in DOMAIN chunks :
        /\ chunks[i].last > (IF i = 1 THEN view ELSE chunks[i - 1].last)
        /\ chunks[i].li \in {chunks[i].last, None}

\* The cache of the chunk executor extends the ledger, except between an
\* answer to consensus and the reset of the cache.
ViewInv ==
    /\ ledger.li <= ledger.version
    /\ inner # None /\ driver.pc # "finish" =>
          inner.view = ledger.version /\ Extending(inner.view, inner.chunks)

\* Whatever is on its way to storage stays within the target.
TargetInv ==
    request # None =>
        /\ ledger.version <= request
        /\ driver.pc \in {"send", "increment"} => driver.chunk.li <= request
        /\ \A i \in DOMAIN execq : execq[i].li <= request
        /\ inner # None => \A i \in DOMAIN inner.chunks : inner.chunks[i].last <= request

\* No epoch ends after a and before b.
NoEndBetween(a, b) == \A e \in EpochEnds : ~(a < e /\ e < b)

\* Storage, the chunks on their way and the executed chunks each stay within an
\* epoch, and the stream does not believe in an epoch it has not reached.
EpochInv ==
    /\ NoEndBetween(ledger.li, ledger.version + 1)
    /\ stream # None => stream.epoch <= NextEpoch(stream.synced)
    /\ driver.pc \in {"send", "increment"} =>
          /\ stream.synced <= driver.chunk.last
          /\ NoEndBetween(driver.chunk.first - 1, driver.chunk.li)
    /\ \A i \in DOMAIN execq : NoEndBetween(execq[i].first - 1, execq[i].li)

ChunkEpochs(view, chunks) ==
    \A i \in DOMAIN chunks :
        /\ NoEndBetween(IF i = 1 THEN view ELSE chunks[i - 1].last, chunks[i].last)
        /\ chunks[i].last \in EpochEnds => chunks[i].li = chunks[i].last

\* The commit queue has a chunk for every commit that is due.
QueueInv ==
    /\ inner # None => ChunkEpochs(inner.view, inner.chunks)
    /\ commq + (IF exec = "send" THEN 1 ELSE 0)
          <= (IF inner = None THEN 0 ELSE Len(inner.chunks))

IInv == /\ TypeOK /\ CounterInv /\ RequestInv /\ RestInv /\ CacheInv /\ ViewInv
        /\ TargetInv /\ EpochInv /\ QueueInv
=============================================================================
