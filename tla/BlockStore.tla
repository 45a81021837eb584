---------------------------- MODULE BlockStore ----------------------------
(***************************************************************************)
(* The block store of one validator (consensus/src/block_storage): the     *)
(* in-memory block tree with its ordered root and its commit root, the     *)
(* ConsensusDB behind it, the ordered batches handed to the execution      *)
(* pipeline, the commit callbacks that prune the tree, fast-forward sync,  *)
(* and the recovery of all this after a crash                              *)
(* (persistent_liveness_storage.rs, recovery_manager.rs).                  *)
(*                                                                         *)
(* The blocks of the epoch are a constant tree.  Certified are the blocks  *)
(* that some quorum votes for; as there is one quorum certificate for      *)
(* such a block, a certificate is named by its block.  That certified      *)
(* blocks respect the two-chain rule is what TwoChainCommit proves of      *)
(* SafetyRules; here it is the assumption TwoChainFinality.                *)
(*                                                                         *)
(* The pipeline is abstract (BufferManager has the detail): it keeps the   *)
(* ordered batches, writes the ledger of a prefix of them to ArxDB and     *)
(* then leaves a callback in the channel of ExecutionProxy's notifier      *)
(* task, which runs the callbacks one by one.                              *)
(***************************************************************************)
EXTENDS Naturals, Sequences, FiniteSets, SequencesExt

CONSTANTS
  ByRound,            \* the blocks of the epoch, in the order of their rounds
  Genesis,
  Round,              \* Round[b], Parent[b]; the genesis block is its own parent
  Parent,
  Certified,
  MaxPrunedBlocks,    \* max_pruned_blocks_in_mem
  BackPressureLimit,  \* back_pressure_limit
  Budgets             \* bounds: how many crashes, restarts at which state sync moves the
                      \* ledger first (bootstraps), fast-forward syncs of the running
                      \* store and failing calls of state sync an execution may have

None == "none"
NoSync == [phase |-> "none"]

Blocks == Range(ByRound)
InRoundOrder(S) == SelectSeq(ByRound, LAMBDA b : b \in S)
Ancestors[b \in Blocks] == IF b = Genesis THEN {b} ELSE {b} \cup Ancestors[Parent[b]]

(***************************************************************************)
(* The commit_info of the certificate of b: a block commits its parent     *)
(* when their rounds are consecutive.                                      *)
(***************************************************************************)
CommitInfo(b) ==
  IF b = Genesis THEN Genesis
  ELSE IF Round[b] = Round[Parent[b]] + 1 THEN Parent[b] ELSE None
CommitRound(b) == IF CommitInfo(b) = None THEN 0 ELSE Round[CommitInfo(b)]

ASSUME BlockStoreAssumption ==
  /\ Genesis \in Certified /\ Certified \subseteq Blocks
  /\ \A i \in 2..Len(ByRound) : Round[ByRound[i - 1]] <= Round[ByRound[i]]
  /\ Round[Genesis] = 0 /\ Parent[Genesis] = Genesis
  /\ \A b \in Blocks \ {Genesis} : Parent[b] \in Certified /\ Round[b] > Round[Parent[b]]
  /\ BackPressureLimit \in Nat /\ MaxPrunedBlocks \in Nat

(***************************************************************************)
(* One certified block per round, and none of a later round that does not  *)
(* extend a committed block.                                               *)
(***************************************************************************)
ASSUME TwoChainFinality ==
  \A b, c \in Certified :
    /\ Round[b] = Round[c] => b = c
    /\ CommitInfo(b) # None /\ Round[c] >= CommitRound(b) => CommitInfo(b) \in Ancestors[c]

(***************************************************************************)
(* A leader that proposes after a block has committed its parent extends   *)
(* that parent or a later block: it starts from a quorum certificate or a  *)
(* timeout certificate of the round before, and a voter of the committing  *)
(* block is among the signers.                                             *)
(***************************************************************************)
ASSUME ProposalsFollowCommits ==
  \A b \in Blocks, c \in Certified : Round[b] > Round[c] => Round[Parent[b]] >= CommitRound(c)

VARIABLES
  status,     \* "up", "partial" (only RecoveryManager runs) or "down"
  tree,       \* the BlockTree (a new one, unused, while the store is down)
  db,         \* ConsensusDB: the ids of the stored blocks and certificates
  ledger,     \* the block of the latest ledger info in ArxDB
  buffer,     \* the ordered batches in the pipeline
  callbacks,  \* queued commit callbacks, each given by its last block
  sync,       \* the fast-forward sync under way, or NoSync
  panicked,   \* an assertion or expect of the code has failed
  history,    \* what happened, read by no guard: the blocks ordered so far, the last
              \* blocks of their batches, whether a sync that ended in an error took
              \* ordered blocks from the pipeline (lost), and whether a callback ran
              \* for a block below the commit root (late)
  budget      \* what is left of the bounds

vars == <<status, tree, db, ledger, buffer, callbacks, sync, panicked, history, budget>>

-----------------------------------------------------------------------------
(* ConsensusDB: one schema batch per call, written atomically *)

SaveBlocksAndQuorumCertificates(d, bs, certs) ==
  [blocks |-> d.blocks \cup bs, qcs |-> d.qcs \cup certs]
DeleteBlocksAndQuorumCertificates(d, ids) == [blocks |-> d.blocks \ ids, qcs |-> d.qcs \ ids]

-----------------------------------------------------------------------------
(* BlockTree *)

NewTree(root, ordered_cert) ==
  [id_to_block |-> {root}, children |-> {}, id_to_quorum_cert |-> {root},
   ordered_root |-> root, commit_root |-> root, highest_certified |-> root,
   highest_ordered |-> ordered_cert, highest_commit |-> root, pruned |-> <<>>]

(***************************************************************************)
(* path_from_root_to_block: the blocks above the root up to b, oldest      *)
(* first, and <<>> where the code returns None.                            *)
(***************************************************************************)
PathFrom(t, root, b) ==
  LET above == {a \in Ancestors[b] : Round[a] > Round[root]}
      path == InRoundOrder(above)
  IN IF above # {} /\ above \subseteq t.id_to_block /\ Parent[path[1]] = root
     THEN path ELSE <<>>

(* Mutant: the walk does not stop at the new root. *)
PruneWholeTree(t, next_root) ==
  IF next_root = t.commit_root THEN {}
  ELSE {b \in Blocks :
          /\ t.commit_root \in Ancestors[b]
          /\ \A a \in Ancestors[b] : Round[a] > Round[t.commit_root] =>
               <<Parent[a], a>> \in t.children}

(***************************************************************************)
(* find_blocks_to_prune: what is reached from the commit root over child   *)
(* links without entering next_root, nothing if next_root is the commit    *)
(* root already.                                                           *)
(***************************************************************************)
FindBlocksToPrune(t, next_root) ==
  IF next_root = t.commit_root THEN {}
  ELSE {b \in Blocks :
          /\ t.commit_root \in Ancestors[b]
          /\ \A a \in Ancestors[b] : Round[a] > Round[t.commit_root] =>
               a # next_root /\ <<Parent[a], a>> \in t.children}

(***************************************************************************)
(* process_pruned_blocks: pruned blocks stay in memory for the requests of *)
(* other nodes until more than MaxPrunedBlocks are newer.                  *)
(***************************************************************************)
ProcessPrunedBlocks(t, ids) ==
  LET all == t.pruned \o InRoundOrder(ids)
      n == IF Len(all) > MaxPrunedBlocks THEN Len(all) - MaxPrunedBlocks ELSE 0
      removed == {all[i] : i \in 1..n}
  IN [t EXCEPT !.pruned = SubSeq(all, n + 1, Len(all)),
               !.id_to_block = @ \ removed,
               !.id_to_quorum_cert = @ \ removed,
               !.children = {l \in @ : l[1] \notin removed}]

(* Mutant: only a certificate that skips a round moves the commit root. *)
UpdateCommitCertLate(t, b) ==
  IF Round[b] > Round[t.highest_commit] + 1
  THEN [t EXCEPT !.highest_commit = b, !.commit_root = b]
  ELSE t

UpdateHighestCommitCert(t, b) ==
  IF Round[b] > Round[t.highest_commit]
  THEN [t EXCEPT !.highest_commit = b, !.commit_root = b]
  ELSE t

-----------------------------------------------------------------------------
(* BlockStore.  The operations work on a record of the tree, the database, *)
(* the batches sent and the error they may end with.                       *)

Store == [tree |-> tree, db |-> db, buffer |-> buffer, ok |-> TRUE, panicked |-> FALSE]
Err(s) == [s EXCEPT !.ok = FALSE]
Panic(s) == [s EXCEPT !.ok = FALSE, !.panicked = TRUE]
Exists(s, b) == b \in s.tree.id_to_block

(***************************************************************************)
(* execute_and_insert_block: the block is saved before it is inserted.     *)
(***************************************************************************)
ExecuteAndInsertBlock(s, b) ==
  IF Exists(s, b) THEN s
  ELSE IF Round[b] <= Round[s.tree.ordered_root] THEN Err(s)
  ELSE LET saved == [s EXCEPT !.db = SaveBlocksAndQuorumCertificates(@, {b}, {})]
       IN IF ~Exists(s, Parent[b]) THEN Err(saved)
          ELSE [saved EXCEPT !.tree.id_to_block = @ \cup {b},
                             !.tree.children = @ \cup {<<Parent[b], b>>}]


(***************************************************************************)
(* insert_single_quorum_cert: the certificate is saved, then inserted.     *)
(***************************************************************************)
InsertSingleQuorumCert(s, b) ==
  IF ~Exists(s, b) THEN Err(s)
  ELSE IF ~Exists(s, s.tree.highest_certified) THEN Panic(s)
  ELSE [s EXCEPT
         !.db = SaveBlocksAndQuorumCertificates(@, {}, {b}),
         !.tree.id_to_quorum_cert = @ \cup {b},
         !.tree.highest_certified = IF Round[b] > Round[@] THEN b ELSE @,
         !.tree.highest_ordered = IF CommitRound(b) > CommitRound(@) THEN b ELSE @]

(* Mutant: the path starts at the commit root. *)
CommitFromCommitRoot(s, cert) ==
  LET b == CommitInfo(cert)
      batch == PathFrom(s.tree, s.tree.commit_root, b)
  IN IF ~Exists(s, b) \/ Round[b] <= Round[s.tree.ordered_root] THEN Err(s)
     ELSE IF batch = <<>> THEN Panic(s)
     ELSE [s EXCEPT !.buffer = Append(@, batch), !.tree.ordered_root = b]

(***************************************************************************)
(* commit: the path from the ordered root is sent to the pipeline as one   *)
(* batch.  The send and update_ordered_root are one step: only this task   *)
(* reads and moves the ordered root, and the pipeline and the callbacks    *)
(* work on the batch and on the commit root.                               *)
(***************************************************************************)
Commit(s, cert) ==
  LET b == CommitInfo(cert)
      batch == PathFrom(s.tree, s.tree.ordered_root, b)
  IN IF ~Exists(s, b) \/ Round[b] <= Round[s.tree.ordered_root] THEN Err(s)
     ELSE IF batch = <<>> THEN Panic(s)
     ELSE [s EXCEPT !.buffer = Append(@, batch), !.tree.ordered_root = b]

(***************************************************************************)
(* fetch_quorum_cert: the missing ancestors are retrieved, then inserted   *)
(* oldest first, each after the certificate it carries.                    *)
(***************************************************************************)
FetchQuorumCert(s, cert) ==
  LET present == {a \in Ancestors[cert] : Exists(s, a)}
      missing == {a \in Ancestors[cert] : \A p \in present : Round[p] < Round[a]}
      insert(r, b) == IF ~r.ok THEN r
                      ELSE LET q == InsertSingleQuorumCert(r, Parent[b])
                           IN IF q.ok THEN ExecuteAndInsertBlock(q, b) ELSE q
      inserted == FoldLeft(insert, s, InRoundOrder(missing))
  IN IF present = {} THEN Err(s)
     ELSE IF inserted.ok THEN InsertSingleQuorumCert(inserted, cert) ELSE inserted

(***************************************************************************)
(* insert_quorum_cert, with need_fetch_for_quorum_cert.                    *)
(***************************************************************************)
InsertQuorumCert(s, cert) ==
  LET before_root == Round[cert] < Round[s.tree.ordered_root]
      r == IF before_root THEN s
           ELSE IF Exists(s, cert) THEN InsertSingleQuorumCert(s, cert)
           ELSE FetchQuorumCert(s, cert)
  IN IF ~s.ok \/ (~before_root /\ cert \in s.tree.id_to_quorum_cert) THEN s
     ELSE IF r.ok /\ CommitRound(cert) > Round[r.tree.ordered_root] THEN Commit(r, cert)
     ELSE r

(***************************************************************************)
(* try_commit: after the tree is built, every certificate in the order of  *)
(* the blocks they commit; errors are only logged.                         *)
(***************************************************************************)
TryCommit(s) ==
  LET certs == {c \in s.tree.id_to_quorum_cert : CommitRound(c) > Round[s.tree.commit_root]}
      try(r, c) == [Commit(r, c) EXCEPT !.ok = TRUE]
  IN FoldLeft(try, s, InRoundOrder(certs))

(***************************************************************************)
(* need_sync_for_ledger_info                                               *)
(***************************************************************************)
NeedSync(t, b) ==
  \/ Round[t.ordered_root] < Round[b] /\ b \notin t.id_to_block
  \/ Round[t.commit_root] + 2 * BackPressureLimit < Round[b]

-----------------------------------------------------------------------------
(* Recovery *)

(***************************************************************************)
(* find_root: the block of the ledger, its certificate, and a certificate  *)
(* that commits it.  At genesis the ledger info ends an epoch and all      *)
(* three are made up from it.                                              *)
(***************************************************************************)
FindRoot(d, root) ==
  \/ root = Genesis
  \/ /\ root \in d.blocks /\ root \in d.qcs
     /\ \E c \in d.qcs : CommitInfo(c) = root
RootOrderedCert(d, root) ==
  IF root = Genesis THEN Genesis ELSE CHOOSE c \in d.qcs : CommitInfo(c) = root

(***************************************************************************)
(* find_blocks_to_prune of RecoveryData: the blocks connected to the root  *)
(* within the database are kept, and their certificates.                   *)
(***************************************************************************)
Retained(d, root) ==
  {root} \cup {b \in d.blocks : /\ root \in Ancestors[b]
                                /\ \A a \in Ancestors[b] : Round[a] > Round[root] => a \in d.blocks}
Pruned(d, root) == [blocks |-> d.blocks \cap Retained(d, root), qcs |-> d.qcs \cap Retained(d, root)]

(***************************************************************************)
(* build and try_commit, from the data start() returns.                    *)
(***************************************************************************)
Build(d, root) ==
  LET kept == Pruned(d, root)
      empty == [tree |-> NewTree(root, RootOrderedCert(d, root)), db |-> kept,
                buffer |-> <<>>, ok |-> TRUE, panicked |-> FALSE]
      expect(r) == IF r.ok THEN r ELSE Panic(r)
      block(r, b) == expect(ExecuteAndInsertBlock(r, b))
      cert(r, c) == expect(InsertSingleQuorumCert(r, c))
      built == FoldLeft(cert, FoldLeft(block, empty, InRoundOrder(kept.blocks \ {root})), InRoundOrder(kept.qcs))
  IN TryCommit(built)

-----------------------------------------------------------------------------
(* Steps *)

Init ==
  /\ status = "up"
  /\ tree = NewTree(Genesis, Genesis)
  /\ db = [blocks |-> {}, qcs |-> {}]
  /\ ledger = Genesis
  /\ buffer = <<>> /\ callbacks = <<>> /\ sync = NoSync
  /\ panicked = FALSE
  /\ history = [ordered |-> {Genesis}, batches |-> {Genesis}, lost |-> FALSE, late |-> FALSE]
  /\ budget \in Budgets

Apply(s) ==
  /\ tree' = s.tree /\ db' = s.db /\ buffer' = s.buffer
  /\ panicked' = (panicked \/ s.panicked)
  /\ history' = [history EXCEPT
                   !.ordered = @ \cup UNION {Range(s.buffer[i]) : i \in DOMAIN s.buffer},
                   !.batches = @ \cup {Last(s.buffer[i]) : i \in DOMAIN s.buffer}]

(***************************************************************************)
(* RoundManager awaits each call of the block store: none starts while a   *)
(* fast-forward sync is under way.                                         *)
(***************************************************************************)
Idle == status = "up" /\ sync = NoSync /\ ~panicked

(***************************************************************************)
(* A verified proposal.  Its sync info came first, so the certificate of   *)
(* its parent has been inserted or is older than the ordered root.         *)
(***************************************************************************)
InsertBlock(b) ==
  /\ Idle
  /\ b \notin tree.id_to_block
  /\ \/ Parent[b] \in tree.id_to_quorum_cert
     \/ Round[Parent[b]] < Round[tree.ordered_root]
  /\ Apply(ExecuteAndInsertBlock(Store, b))
  /\ UNCHANGED <<status, ledger, callbacks, sync, budget>>

(***************************************************************************)
(* The certificates of a sync info of a peer: that of a block whose commit  *)
(* is proved (highest_commit_cert), the highest ordered and the highest    *)
(* quorum certificate.                                                     *)
(***************************************************************************)
SyncInfo ==
  {info \in [commit : Certified, ordered : Certified, highest : Certified] :
     /\ CommitInfo(info.commit) # None /\ CommitInfo(info.ordered) # None
     /\ CommitRound(info.commit) <= CommitRound(info.ordered)
     /\ Round[info.ordered] <= Round[info.highest]}

(***************************************************************************)
(* add_certs without the need to sync: both certificates are inserted.     *)
(* The need to sync depends on the commit certificate alone, and a peer    *)
(* that is behind with its commits sends an old one with any ordered and   *)
(* highest certificate (NeedSync is false of the genesis block).           *)
(***************************************************************************)
AddCerts(ordered, highest) ==
  /\ Idle
  /\ CommitInfo(ordered) # None /\ Round[ordered] <= Round[highest]
  /\ Apply(InsertQuorumCert(InsertQuorumCert(Store, ordered), highest))
  /\ UNCHANGED <<status, ledger, callbacks, sync, budget>>

(***************************************************************************)
(* A certificate that the node has aggregated itself.                      *)
(***************************************************************************)
NewQcAggregated(b) ==
  /\ Idle
  /\ Apply(InsertQuorumCert(Store, b))
  /\ UNCHANGED <<status, ledger, callbacks, sync, budget>>

(***************************************************************************)
(* fast_forward_sync, up to save_tree: the blocks from the ordered         *)
(* certificate down to the committed block are retrieved with their        *)
(* certificates, and the block of the commit certificate if it is on a     *)
(* fork.  RecoveryManager does the same.                                   *)
(***************************************************************************)
FastForwardSync(info) ==
  LET root == CommitInfo(info.commit)
      gap == {b \in Ancestors[info.ordered] : Round[b] >= Round[root]} \cup {info.commit}
  IN /\ sync = NoSync /\ ~panicked
     /\ \/ /\ status = "up" /\ budget.syncs > 0 /\ NeedSync(tree, root)
           /\ budget' = [budget EXCEPT !.syncs = @ - 1]
        \/ status = "partial" /\ Round[info.highest] > Round[ledger] /\ UNCHANGED budget
     /\ FindRoot([blocks |-> gap, qcs |-> gap], root)
     /\ db' = SaveBlocksAndQuorumCertificates(db, gap, gap)
     /\ sync' = [phase |-> "saved", root |-> root, ordered |-> info.ordered, highest |-> info.highest]
     /\ UNCHANGED <<status, tree, ledger, buffer, callbacks, panicked, history>>

(***************************************************************************)
(* OrderingStateComputer::sync_to: the buffer manager is reset first.      *)
(***************************************************************************)
ResetPipeline ==
  /\ sync.phase = "saved"
  /\ buffer' = <<>>
  /\ sync' = [sync EXCEPT !.phase = "reset"]
  /\ UNCHANGED <<status, tree, db, ledger, callbacks, panicked, history, budget>>

(***************************************************************************)
(* sync_to ends in an error: add_certs returns it, and the ordered blocks  *)
(* that the reset took from the pipeline are not sent again (the TODO of   *)
(* OrderingStateComputer::sync_to).                                        *)
(***************************************************************************)
SyncError ==
  /\ sync' = NoSync
  /\ history' = [history EXCEPT !.lost = @ \/ (status = "up" /\ tree.ordered_root # ledger)]
  /\ UNCHANGED ledger

(***************************************************************************)
(* ExecutionProxy::sync_to: state sync brings ArxDB to the target, and     *)
(* refuses a target below what is committed (OldSyncRequest).              *)
(***************************************************************************)
SyncToTarget ==
  /\ sync.phase = "reset"
  /\ IF Round[sync.root] < Round[ledger]
     THEN SyncError
     ELSE /\ sync' = [sync EXCEPT !.phase = "synced"] /\ ledger' = sync.root
          /\ UNCHANGED history
  /\ UNCHANGED <<status, tree, db, buffer, callbacks, panicked, budget>>

SyncFails ==
  /\ sync.phase = "reset"
  /\ budget.failures > 0
  /\ SyncError
  /\ budget' = [budget EXCEPT !.failures = @ - 1]
  /\ UNCHANGED <<status, tree, db, buffer, callbacks, panicked>>

(***************************************************************************)
(* The end of fast_forward_sync (start() must find the root), rebuild, and *)
(* the rest of add_certs.                                                  *)
(***************************************************************************)
Rebuild ==
  /\ status = "up" /\ sync.phase = "synced"
  /\ IF FindRoot(db, ledger)
     THEN Apply(InsertQuorumCert(InsertQuorumCert(Build(db, ledger), sync.ordered), sync.highest))
     ELSE panicked' = TRUE /\ UNCHANGED <<tree, db, buffer, history>>
  /\ sync' = NoSync
  /\ UNCHANGED <<status, ledger, callbacks, budget>>

(***************************************************************************)
(* RecoveryManager ends the process when it has synced.                    *)
(***************************************************************************)
RecoveryExits ==
  /\ status = "partial" /\ sync.phase = "synced"
  /\ status' = "down" /\ sync' = NoSync
  /\ UNCHANGED <<tree, db, ledger, buffer, callbacks, panicked, history, budget>>

(***************************************************************************)
(* The persisting phase commits a prefix of the batches to ArxDB; the      *)
(* callback of the last one is queued.                                     *)
(***************************************************************************)
Persist(n) ==
  /\ status = "up"
  /\ n <= Len(buffer)
  /\ ledger' = Last(buffer[n])
  /\ callbacks' = Append(callbacks, Last(buffer[n]))
  /\ buffer' = SubSeq(buffer, n + 1, Len(buffer))
  /\ UNCHANGED <<status, tree, db, sync, panicked, history, budget>>

(***************************************************************************)
(* commit_callback: prune the database, prune the tree, move the commit    *)
(* root.                                                                   *)
(***************************************************************************)
CommitCallback ==
  /\ callbacks # <<>> /\ ~panicked
  /\ LET b == Head(callbacks)
         ids == FindBlocksToPrune(tree, b)
         pruned == UpdateHighestCommitCert(ProcessPrunedBlocks(tree, ids), b)
     IN /\ db' = DeleteBlocksAndQuorumCertificates(db, ids)
        /\ tree' = pruned
        /\ panicked' = \/ tree.commit_root \notin tree.id_to_block
                       \/ ~(ids \subseteq tree.id_to_block)
                       \/ pruned.commit_root \notin pruned.id_to_block
        /\ history' = [history EXCEPT !.late = @ \/ Round[b] < Round[tree.commit_root]]
  /\ callbacks' = Tail(callbacks)
  /\ UNCHANGED <<status, ledger, buffer, sync, budget>>

(***************************************************************************)
(* The process stops, a panic included (the crash handler exits); what is  *)
(* on disk stays.                                                          *)
(***************************************************************************)
Crash ==
  /\ budget.crashes > 0 /\ status # "down"
  /\ status' = "down" /\ panicked' = FALSE
  /\ tree' = NewTree(Genesis, Genesis) /\ buffer' = <<>> /\ callbacks' = <<>> /\ sync' = NoSync
  /\ history' = [history EXCEPT !.lost = FALSE]
  /\ budget' = [budget EXCEPT !.crashes = @ - 1]
  /\ UNCHANGED <<db, ledger>>

(***************************************************************************)
(* start(): with full recovery data the tree is built again; otherwise     *)
(* only RecoveryManager runs.                                              *)
(***************************************************************************)
Start(root) ==
  /\ ledger' = root
  /\ IF FindRoot(db, root)
     THEN status' = "up" /\ Apply(Build(db, root))
     ELSE status' = "partial" /\ UNCHANGED <<tree, db, buffer, panicked, history>>
  /\ UNCHANGED <<callbacks, sync>>

Restart == status = "down" /\ Start(ledger) /\ UNCHANGED budget

(***************************************************************************)
(* State sync bootstraps before consensus starts and may commit further    *)
(* blocks of the network.                                                  *)
(***************************************************************************)
RestartBootstrapped(cert) ==
  /\ status = "down" /\ budget.bootstraps > 0
  /\ CommitRound(cert) > Round[ledger]
  /\ Start(CommitInfo(cert))
  /\ budget' = [budget EXCEPT !.bootstraps = @ - 1]

PersistStep == \E n \in 1..Cardinality(Blocks) : Persist(n)

Next ==
  \/ \E b \in Blocks : InsertBlock(b)
  \/ \E o, h \in Certified : AddCerts(o, h)
  \/ \E b \in Certified : NewQcAggregated(b)
  \/ \E info \in SyncInfo : FastForwardSync(info)
  \/ ResetPipeline
  \/ SyncToTarget
  \/ SyncFails
  \/ Rebuild
  \/ RecoveryExits
  \/ PersistStep
  \/ CommitCallback
  \/ Crash
  \/ Restart
  \/ \E c \in Certified : RestartBootstrapped(c)

Spec == Init /\ [][Next]_vars

-----------------------------------------------------------------------------
(* Properties *)

TypeOK ==
  /\ status \in {"up", "partial", "down"} /\ panicked \in BOOLEAN
  /\ status = "up" =>
       /\ tree.id_to_block \subseteq Blocks /\ tree.id_to_quorum_cert \subseteq Certified
       /\ {tree.ordered_root, tree.commit_root, tree.highest_certified,
           tree.highest_ordered, tree.highest_commit} \subseteq Certified
       /\ Len(tree.pruned) <= MaxPrunedBlocks
  /\ db.blocks \subseteq Blocks /\ db.qcs \subseteq Certified
  /\ ledger \in Certified
  /\ \A i \in DOMAIN buffer : buffer[i] \in Seq(Blocks) \ {<<>>}
  /\ Range(callbacks) \subseteq Blocks
  /\ sync.phase \in {"none", "saved", "reset", "synced"}

(***************************************************************************)
(* No expect, unwrap or assertion of the block tree, the block store or    *)
(* fast_forward_sync fails, before and after a rebuild, unless a callback  *)
(* of before the rebuild runs after it (late): the roots and the highest   *)
(* certified block are in memory whenever they are looked up, child links  *)
(* do not dangle, a block to commit extends the ordered root, and start()  *)
(* finds the root after a sync.  Section 5 of the README has what a late   *)
(* callback does.                                                          *)
(***************************************************************************)
NoPanic ==
  ~history.late =>
    /\ ~panicked
    /\ status = "up" => {tree.ordered_root, tree.commit_root, tree.highest_certified}
                          \subseteq tree.id_to_block

(***************************************************************************)
(* The block of the latest ledger info always exists (find_root): whenever *)
(* the store is up, ConsensusDB has the block that ArxDB committed last,   *)
(* and a certificate that commits it, although the pipeline moves the      *)
(* ledger and the callbacks delete blocks on their own.                    *)
(***************************************************************************)
LedgerBlockExists ==
  status = "up" /\ ledger # Genesis =>
    ledger \in db.blocks /\ \E c \in db.qcs : CommitInfo(c) = ledger

(***************************************************************************)
(* The gap blocks that fast_forward_sync saves before it starts make sure  *)
(* that the node can restart: whenever the store is up, a crash is         *)
(* followed by a full recovery.  It does not hold; see section 5 of the    *)
(* README.                                                                 *)
(***************************************************************************)
RecoveryFindsRoot == status = "up" => FindRoot(db, ledger)

(***************************************************************************)
(* A crash loses no certificate that matters: what start() would keep now  *)
(* has a certificate of no lower round than the highest one in memory, so  *)
(* a node never comes back in an earlier round.                            *)
(***************************************************************************)
HighestCertIsDurable ==
  status = "up" =>
    \E c \in Pruned(db, ledger).qcs \cup {Genesis} : Round[c] >= Round[tree.highest_certified]

(***************************************************************************)
(* What the pipeline is given can be executed: the first batch extends the *)
(* block in ArxDB, every further batch the one before it, also after       *)
(* try_commit has sent the batches again.  The only exception: a sync that *)
(* ended in an error, a refused target included, has taken ordered blocks  *)
(* from the pipeline (lost, until the next restart).                       *)
(***************************************************************************)
BatchesExtendLedger ==
  ~history.lost => \A i \in DOMAIN buffer :
    /\ Parent[buffer[i][1]] = IF i = 1 THEN ledger ELSE Last(buffer[i - 1])
    /\ \A j \in 2..Len(buffer[i]) : Parent[buffer[i][j]] = buffer[i][j - 1]

(***************************************************************************)
(* What was ordered stays ordered: neither a restart nor a rebuild brings  *)
(* back a tree whose ordered root is behind a block that had been sent to  *)
(* the pipeline.                                                           *)
(***************************************************************************)
OrderedStaysOrdered ==
  status = "up" /\ sync.phase # "synced" =>
    \A b \in history.ordered : b \in Ancestors[tree.ordered_root]


(***************************************************************************)
(* try_commit reproduces the same batches: after a restart no batch ends   *)
(* at a block that had been ordered as an inner block of a batch.  It does *)
(* not hold; see section 5 of the README.                                  *)
(***************************************************************************)
SameBatches ==
  [][status = "down" /\ status' = "up" =>
       \A i \in DOMAIN buffer' :
         Last(buffer'[i]) \in history.ordered => Last(buffer'[i]) \in history.batches]_vars

(***************************************************************************)
(* The pipeline, the notifier task and a started sync make progress, and a *)
(* stopped process is started again: weak fairness of these actions, with  *)
(* the condition under which each is enabled written out.  ResetPipeline,  *)
(* SyncToTarget, Rebuild and Restart end the condition that enables them,  *)
(* so that for them the condition is infinitely often false.               *)
(***************************************************************************)
FairSpec ==
  /\ Spec
  /\ []<>(~(status = "up" /\ buffer # <<>>)) \/ []<><<PersistStep>>_vars
  /\ []<>(callbacks = <<>> \/ panicked) \/ []<><<CommitCallback>>_vars
  /\ []<>(sync.phase # "saved")
  /\ []<>(sync.phase # "reset")
  /\ []<>(~(sync.phase = "synced" /\ status = "up"))
  /\ []<>(status # "down")

(***************************************************************************)
(* Every ordered block is eventually covered by the commit root, over a    *)
(* crash and a fast-forward sync: nothing between the ordered root, the    *)
(* pipeline, ArxDB and the callbacks gets lost.  Only when a sync that     *)
(* ended in an error has taken ordered blocks from the pipeline, when      *)
(* RecoveryManager runs or after a late callback, it depends on the next   *)
(* message of a peer.                                                      *)
(***************************************************************************)
OrderedIsCommitted ==
  \A b \in Certified :
    (status = "up" /\ tree.ordered_root = b)
      ~> \/ status = "up" /\ Round[tree.commit_root] >= Round[b]
         \/ status = "partial" \/ history.lost \/ history.late
=============================================================================
