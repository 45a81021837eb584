-------------------------- MODULE BufferManagerInv --------------------------
(***************************************************************************)
(* The inductive invariant of BufferManager.  It is about the manager's    *)
(* queue: the batches in the buffer followed by those still in its         *)
(* channel.  The queue is a contiguous interval of blocks up to            *)
(* ordered_root, its executed batches come first, and they continue what   *)
(* the persisting phase was asked for.                                     *)
(***************************************************************************)
EXTENDS BufferManager

\* The manager's queue: the buffered batches, then those in its channel.
QueueLen(m) == Len(m.buffer) + Len(m.block_rx)
Queue(m) == 1 .. QueueLen(m)
Item(m, i) == IF i <= Len(m.buffer) THEN m.buffer[i].batch
              ELSE m.block_rx[i - Len(m.buffer)]

\* The batch at position i has been executed.
Done(m, i) == i <= Len(m.buffer) /\ m.buffer[i].stage # "Ordered"

\* The first block that is not yet asked to be persisted, and the last that is.
NextBlock(m, ord) == IF QueueLen(m) = 0 THEN ord + 1 ELSE Item(m, 1).first
Certified(m, rt) ==
    IF m.persisting = <<>> THEN rt ELSE m.persisting[Len(m.persisting)].last

\* The batches that the execution phase has or has answered.
Asked(m, rx) == InFlight(m.execution) \cup {r.batch : r \in rx}

\* The queue is an interval of blocks that ends with ordered_root.
QueueInv(m, ord) ==
    /\ \A i, j \in Queue(m) : i < j => Item(m, i).last < Item(m, j).first
    /\ \A i \in Queue(m) :
          /\ Item(m, i).last <= ord
          /\ i = QueueLen(m) => Item(m, i).last = ord
          /\ i < QueueLen(m) => Item(m, i + 1).first = Item(m, i).last + 1

\* Batches are executed in order.
StageInv(m) == \A i, j \in Queue(m) : i < j /\ Done(m, j) => Done(m, i)

\* The execution root is the first batch that is not executed.
RootInv(m) ==
    /\ m.execution_root = None => \A i \in DOMAIN m.buffer : Done(m, i)
    /\ m.execution_root # None =>
          \E i \in DOMAIN m.buffer :
              /\ m.buffer[i].batch.last = m.execution_root /\ ~Done(m, i)
              /\ \A j \in DOMAIN m.buffer : j < i => Done(m, j)

\* An execution request, or an answer, that concerns a batch of the queue is
\* for that very batch, and none is for a batch above the first to execute.
AskedInv(m, rx, ord) ==
    \A b \in Asked(m, rx) :
        /\ b.last <= ord
        /\ \A i \in Queue(m) :
              /\ Item(m, i).last = b.last => Item(m, i) = b
              /\ ~Done(m, i) => b.last <= Item(m, i).last

\* Until the epoch ends, the executor holds the blocks that are executed, those
\* reported as executed, and those that the persisting phase is to commit.
TreeInv(m, rx, tr, rt, rc) ==
    rt < rc =>
        /\ \A i \in Queue(m) : Done(m, i) => BlocksOf(Item(m, i)) \subseteq tr
        /\ \A i \in Queue(m), r \in rx :
              r.ok /\ r.batch.last = Item(m, i).last => BlocksOf(Item(m, i)) \subseteq tr
        /\ \A k \in DOMAIN m.persisting : m.persisting[k].blocks \subseteq tr
        /\ Certified(m, rt) < rc =>
              \A k \in DOMAIN m.pending : m.pending[k].blocks \subseteq tr

\* The requests of the persisting phase follow the ledger and one another, and
\* one that ends the epoch is alone.
PersistingInv(m, rt, ord, rc) ==
    /\ rt <= ord /\ \A i \in Queue(m) : rt < Item(m, i).first
    /\ \A k \in DOMAIN m.persisting :
          /\ m.persisting[k].last <= ord
          /\ \A i \in Queue(m) : m.persisting[k].last < Item(m, i).first
          /\ rt < rc => rt < m.persisting[k].last
          /\ rt < rc /\ k = 1 => m.persisting[k].blocks = rt + 1 .. m.persisting[k].last
          /\ rt < rc /\ k > 1 =>
                m.persisting[k].blocks = m.persisting[k - 1].last + 1 .. m.persisting[k].last
          /\ rt >= rc => m.persisting[k].last >= rc
          /\ m.persisting[k].last >= rc => Len(m.persisting) = 1
          /\ \A l \in DOMAIN m.persisting :
                k < l => m.persisting[k].last < m.persisting[l].last

\* The request that waits for the pipeline to drain at the end of the epoch.
PendingInv(m, rt, ord, rc) ==
    \A k \in DOMAIN m.pending :
        /\ rc <= m.pending[k].last /\ m.pending[k].last <= ord
        /\ \A i \in Queue(m) : m.pending[k].last < Item(m, i).first
        /\ Certified(m, rt) < rc =>
              m.pending[k].blocks = Certified(m, rt) + 1 .. m.pending[k].last

\* A failed state sync has left a gap below the queue: nothing can be executed.
Stuck(m, rx, tr, rt, ord) ==
    /\ m.persisting = <<>> /\ tr = {}
    /\ \A i \in Queue(m) : ~Done(m, i)
    /\ NextBlock(m, ord) > rt + 1
    /\ \A b \in InFlight(m.execution) : b.first > rt + 1
    /\ \A r \in rx : r.ok => r.batch.last < NextBlock(m, ord)

\* The queue continues what the persisting phase was asked for.
AnchorInv(m, rx, tr, rt, ord, rc, syn) ==
    m.mode = "running" /\ syn # "syncing" /\ Certified(m, rt) < rc =>
        NextBlock(m, ord) = Certified(m, rt) + 1 \/ Stuck(m, rx, tr, rt, ord)

\* Once the end timestamp is set, only suffix blocks remain to be executed.
TimestampInv(m, ord, rc) ==
    m.end_epoch_timestamp # None =>
        rc <= ord /\ \A i \in Queue(m) : ~Done(m, i) => rc < Item(m, i).first

CoreInv(m, rx, tr, rt, ord, rc, syn) ==
    /\ IsBufferManager(m) /\ QueueInv(m, ord) /\ StageInv(m)
    /\ AskedInv(m, rx, ord) /\ TreeInv(m, rx, tr, rt, rc)
    /\ PersistingInv(m, rt, ord, rc) /\ PendingInv(m, rt, ord, rc)
    /\ AnchorInv(m, rx, tr, rt, ord, rc, syn) /\ TimestampInv(m, ord, rc)

\* Nothing is buffered; nothing is with any phase either.
Emptied(m) == m.buffer = <<>> /\ m.execution_root = None /\ m.signing_root = None
Drained(m) ==
    /\ Emptied(m) /\ m.block_rx = <<>> /\ m.persisting = <<>>
    /\ InFlight(m.execution) = {} /\ InFlight(m.signing) = {}

\* A reset empties the manager first, and state sync has the pipeline to itself.
ResetInv(m, syn) ==
    /\ m.mode = "resetting" => syn = "requested" /\ Emptied(m) /\ m.block_rx = <<>>
    /\ syn = "syncing" => m.mode = "running" /\ Drained(m)

\* What the other modes mean.
ModeInv(m) ==
    /\ m.mode # "panicked"
    /\ m.mode = "ending" => Emptied(m) /\ Len(m.pending) = 1
    /\ m.mode # "ending" => m.pending = <<>>

\* A target of state sync is within the epoch.
SyncInv ==
    /\ ordered_root <= epoch.blocks
    /\ sync.state = "syncing" => sync.target # None
    /\ sync.state # "idle" /\ sync.target # None =>
          sync.target < Reconfig /\ sync.target <= epoch.blocks

ExclusiveInv == TypeOK /\ ResetInv(bm, sync.state)

IInv ==
    /\ ExclusiveInv
    /\ CoreInv(bm, InFlight(execution_rx), tree, root, ordered_root, Reconfig, sync.state)
    /\ RootInv(bm) /\ ModeInv(bm) /\ SyncInv

\* The invariant holds until the pipeline goes on with what a reset left behind.
FullInv == ExclusiveInv /\ (Leftover \/ IInv)

=============================================================================
