---------------------------- MODULE SafetyRules ----------------------------
(***************************************************************************)
(* The 2-chain voting rules of a validator (consensus/safety-rules), its   *)
(* persistent safety storage, and the validators of an epoch running them  *)
(* against each other.                                                     *)
(*                                                                         *)
(* Every honest validator owns a SafetyRules instance: the SafetyData in   *)
(* secure storage, an in-memory copy of it, the waypoint in storage, and   *)
(* the epoch state and signer that initialize() puts in memory.  What an   *)
(* instance signs is added to votes, timeouts, proposals or commit_votes;  *)
(* a quorum certificate or a timeout certificate exists when a quorum has  *)
(* signed.  Nothing is ever removed from these sets and any certificate    *)
(* may be presented to any validator at any time, which covers messages    *)
(* lost, delayed, duplicated and reordered.  A Byzantine validator's       *)
(* signature is available on everything.                                   *)
(*                                                                         *)
(* A block is identified with its id, a hash of its content, so its round, *)
(* epoch, author and the block its quorum certificate certifies (its       *)
(* parent) are constant functions of it.                                   *)
(***************************************************************************)
EXTENDS Integers, FiniteSets

CONSTANTS
  Validators,      \* account addresses
  Byzantine,       \* the validators that may sign anything
  Epochs,          \* epoch numbers
  Members,         \* Members[e]: the validators of the verifier of epoch e
  Quorum,          \* Quorum[e]: the sets of validators with a quorum of voting power
  MaxRound,        \* largest round number
  Blocks,          \* block ids
  BlockRound,      \* the content of a block: its round,
  BlockEpoch,      \* its epoch,
  BlockParent,     \* the block certified by its quorum certificate,
  BlockAuthor,     \* and its author (None for a NIL block)
  TimeoutRounds,   \* the rounds in which a local timeout may be signed
  ExecResults,     \* execution results a commit vote may carry
  MaxFaults,       \* bound: crashes and failed storage writes in a behaviour
  None

Honest == Validators \ Byzantine
Rounds == 0..MaxRound
IO == {"ok", "lost", "applied"}

ASSUME ConstantsAssumption ==
  /\ Byzantine \subseteq Validators
  /\ Epochs \subseteq Nat \ {0} /\ 1 \in Epochs
  /\ Members \in [Epochs -> SUBSET Validators]
  /\ \A e \in Epochs : Quorum[e] \subseteq SUBSET Members[e]
  /\ \A e \in Epochs : \A Q \in Quorum[e], S \in SUBSET Members[e] :
       Q \subseteq S => S \in Quorum[e]
  /\ MaxRound \in Nat /\ MaxFaults \in Nat
  /\ TimeoutRounds \subseteq 0..MaxRound

ASSUME BlocksAssumption ==
  /\ BlockRound \in [Blocks -> 0..MaxRound]
  /\ BlockEpoch \in [Blocks -> Epochs]
  /\ BlockParent \in [Blocks -> Blocks]
  /\ BlockAuthor \in [Blocks -> Validators \cup {None}]
  /\ None \notin Validators /\ None \notin Blocks

(***************************************************************************)
(* The genesis block of an epoch is the only block of round 0 that a       *)
(* block store holds, its certificate names itself as parent.              *)
(***************************************************************************)
ASSUME GenesisAssumption ==
  \A b \in Blocks : BlockRound[b] = 0 =>
    /\ BlockParent[b] = b
    /\ \A c \in Blocks : BlockRound[c] = 0 /\ BlockEpoch[c] = BlockEpoch[b] => c = b

VARIABLES
  store,           \* store[v]: SafetyData in the internal store
  cached,          \* cached[v]: cached_safety_data, None when absent
  waypoint,        \* waypoint[v]: the stored waypoint, as the epoch it opens
  epoch_state,     \* epoch_state[v]: epoch of the verifier in memory, or None
  signer,          \* signer[v]: validator_signer is present
  last_round_generated, \* [v]: in the proposal generator's memory
  votes,           \* votes returned by SafetyRules
  timeouts,        \* timeout signatures returned by SafetyRules
  proposals,       \* blocks whose author's signature was returned
  commit_votes,    \* commit votes returned by SafetyRules
  faults           \* crashes and failed writes so far

durable == <<store, waypoint>>
volatile == <<cached, epoch_state, signer, last_round_generated>>
signed == <<votes, timeouts, proposals, commit_votes>>
vars == <<store, cached, waypoint, epoch_state, signer, last_round_generated,
          votes, timeouts, proposals, commit_votes, faults>>

Vote == [author : Honest, block : Blocks, commit : Blocks \cup {None}]
Timeout == [author : Honest, epoch : Epochs, round : Rounds, hqc : Rounds]
CommitVote == [author : Honest, block : Blocks, result : ExecResults]
TwoChainTimeoutCertificate == [epoch : Epochs, round : Rounds, hqc : Rounds]
OptionalTC == TwoChainTimeoutCertificate \cup {None}
SafetyDataType ==
  [epoch : Epochs, last_voted_round : Rounds, preferred_round : Rounds,
   one_chain_round : Rounds, last_vote : Vote \cup {None}]

ASSUME NoneAssumption == None \notin Vote

TypeOK ==
  /\ store \in [Honest -> SafetyDataType]
  /\ cached \in [Honest -> SafetyDataType \cup {None}]
  /\ waypoint \in [Honest -> Epochs]
  /\ epoch_state \in [Honest -> Epochs \cup {None}]
  /\ signer \in [Honest -> BOOLEAN]
  /\ last_round_generated \in [Honest -> Rounds]
  /\ votes \subseteq Vote
  /\ timeouts \subseteq Timeout
  /\ proposals \subseteq Blocks
  /\ commit_votes \subseteq CommitVote
  /\ faults \in 0..MaxFaults

-----------------------------------------------------------------------------
(* Certificates *)

(* Mutant: half of the members suffice. *)
CheckHalfThePower(e, signers) ==
  2 * Cardinality(signers \cap Members[e]) >= Cardinality(Members[e])

(***************************************************************************)
(* verify_multi_signatures: the signers that are members of epoch e have   *)
(* a quorum of its voting power.                                           *)
(***************************************************************************)
CheckVotingPower(e, signers) == (signers \cap Members[e]) \in Quorum[e]

(***************************************************************************)
(* A quorum of epoch e signed a vote for block b carrying the commit info  *)
(* c (a block, or None for an empty ledger info).                          *)
(***************************************************************************)
QuorumCert(e, b, c) ==
  CheckVotingPower(e, Byzantine \cup
    {v \in Honest : [author |-> v, block |-> b, commit |-> c] \in votes})

(* QuorumCert::verify: a genesis certificate carries no signatures. *)
VerifyQC(e, b) ==
  BlockRound[b] = 0 \/ {c \in Blocks \cup {None} : QuorumCert(e, b, c)} # {}

(***************************************************************************)
(* TwoChainTimeoutCertificate::verify: the highest certificate is valid    *)
(* and older than the timeout, a quorum signed (epoch, round, hqc), and    *)
(* the highest certificate has the highest of the signed rounds.           *)
(***************************************************************************)
VerifyTC(e, tc) ==
  LET signed_by(v, h) ==
        [author |-> v, epoch |-> tc.epoch, round |-> tc.round, hqc |-> h] \in timeouts
      signers == Byzantine \cup {v \in Honest : \E h \in 0..tc.hqc : signed_by(v, h)}
  IN /\ tc.hqc < tc.round
     /\ CheckVotingPower(e, signers)
     /\ \E v \in signers \cap Members[e] : v \in Byzantine \/ signed_by(v, tc.hqc)
     /\ \E b \in Blocks : BlockRound[b] = tc.hqc /\ VerifyQC(e, b)

(* map_or(0, ...) on the optional certificate *)
TCRound(tc) == IF tc = None THEN 0 ELSE tc.round
TCHighestHQC(tc) == IF tc = None THEN 0 ELSE tc.hqc

-----------------------------------------------------------------------------
(* The rules *)

(* 1. block.round == block.qc.round + 1
   2. block.round == tc.round + 1 && block.qc.round >= tc.highest_hqc.round *)
SafeToVote(b, tc) ==
  LET round == BlockRound[b]
      qc_round == BlockRound[BlockParent[b]]
  IN \/ round = qc_round + 1
     \/ round = TCRound(tc) + 1 /\ qc_round >= TCHighestHQC(tc)

(* 1. round == timeout.qc.round + 1 || round == tc.round + 1
   2. timeout.qc.round >= one_chain_round *)
SafeToTimeout(round, qc_round, tc, sd) ==
  /\ round = qc_round + 1 \/ round = TCRound(tc) + 1
  /\ qc_round >= sd.one_chain_round

Larger(a, b) == IF a > b THEN a ELSE b

(* Mutant: only the 2-chain is recorded. *)
ObservePreferredRound(sd, qc) ==
  [sd EXCEPT !.preferred_round = Larger(@, BlockRound[BlockParent[qc]])]

(* The block certified by qc is the 1-chain, its parent the 2-chain. *)
ObserveQC(sd, qc) ==
  [sd EXCEPT !.one_chain_round = Larger(@, BlockRound[qc]),
             !.preferred_round = Larger(@, BlockRound[BlockParent[qc]])]

(* Mutant: the record is rebuilt and the vote in it forgotten. *)
RestartAtRound(sd, round) == [sd EXCEPT !.last_voted_round = round, !.last_vote = None]

(* verify_and_update_last_vote_round, once the round is seen to be newer *)
UpdateLastVoteRound(sd, round) == [sd EXCEPT !.last_voted_round = round]

(* The 2-chain commit rule: B0 <- B1 with consecutive rounds commits B0. *)
ConstructLedgerInfo2Chain(b) ==
  IF BlockRound[BlockParent[b]] + 1 = BlockRound[b] THEN BlockParent[b] ELSE None

VerifyWellFormed(b) ==
  /\ BlockRound[b] # 0
  /\ BlockRound[BlockParent[b]] < BlockRound[b]
  /\ BlockEpoch[BlockParent[b]] = BlockEpoch[b]

-----------------------------------------------------------------------------
(* PersistentSafetyStorage *)

NewSafetyData(e) ==
  [epoch |-> e, last_voted_round |-> 0, preferred_round |-> 0,
   one_chain_round |-> 0, last_vote |-> None]

SafetyData(v) == IF cached[v] = None THEN store[v] ELSE cached[v]

(* safety_data() leaves a copy in memory. *)
ReadSafetyData(v) == cached' = [cached EXCEPT ![v] = SafetyData(v)]

(* Mutant: storage is written lazily. *)
SetSafetyDataInMemory(v, data, io) ==
  /\ store' = [store EXCEPT ![v] = IF data.epoch > @.epoch THEN data ELSE @]
  /\ cached' = [cached EXCEPT ![v] = IF io = "ok" THEN data ELSE None]

(***************************************************************************)
(* set_safety_data: a write that reports an error may have been lost or    *)
(* applied; the copy in memory is then dropped.                            *)
(***************************************************************************)
SetSafetyData(v, data, io) ==
  /\ store' = [store EXCEPT ![v] = IF io = "lost" THEN @ ELSE data]
  /\ cached' = [cached EXCEPT ![v] = IF io = "ok" THEN data ELSE None]

(* set_waypoint, the first write of initialize *)
SetWaypoint(v, e, failed, io) ==
  waypoint' = [waypoint EXCEPT ![v] =
    IF e > waypoint[v] /\ ~(failed = "waypoint" /\ io = "lost") THEN e ELSE @]

Fault(happened) ==
  /\ happened => faults < MaxFaults
  /\ faults' = IF happened THEN faults + 1 ELSE faults

-----------------------------------------------------------------------------
(* The handlers of validator v *)

(* A process start: only what is in storage survives. *)
Crash(v) ==
  /\ Fault(TRUE)
  /\ cached' = [cached EXCEPT ![v] = None]
  /\ epoch_state' = [epoch_state EXCEPT ![v] = None]
  /\ signer' = [signer EXCEPT ![v] = FALSE]
  /\ last_round_generated' = [last_round_generated EXCEPT ![v] = 0]
  /\ UNCHANGED <<durable, signed>>

(* consensus_state(), and every handler that fails after reading SafetyData *)
ConsensusState(v) ==
  /\ ReadSafetyData(v)
  /\ UNCHANGED <<durable, epoch_state, signer, last_round_generated, signed, faults>>

(***************************************************************************)
(* initialize() with a proof that ends by opening epoch e.  The waypoint   *)
(* is written first, then the SafetyData of a new epoch, and the memory    *)
(* changes last; failed names the step that reports an error, "none" when  *)
(* all succeed.  (A failed read of the SafetyData has the effect of a lost *)
(* write of it, or none.)  A new epoch comes with a new ProposalGenerator. *)
(***************************************************************************)
InitSteps == {"none", "waypoint", "safety_data", "author", "key"}

Initialize(v, e, failed, io) ==
  LET current == SafetyData(v).epoch
      reaches_memory == failed \in {"none", "author", "key"} /\ current <= e
  IN
  /\ e >= waypoint[v]
  /\ failed = "waypoint" => e > waypoint[v]
  /\ failed = "safety_data" => current < e
  /\ failed = "author" => reaches_memory
  /\ failed = "key" => reaches_memory /\ v \in Members[e] /\ ~signer[v]
  /\ (io = "ok") <=> (failed \notin {"waypoint", "safety_data"})
  /\ Fault(failed # "none")
  /\ SetWaypoint(v, e, failed, io)
  /\ \/ failed = "waypoint" /\ UNCHANGED <<store, cached>>
     \/ failed # "waypoint" /\ current < e /\ SetSafetyData(v, NewSafetyData(e), io)
     \/ failed # "waypoint" /\ current >= e /\ ReadSafetyData(v) /\ UNCHANGED store
  /\ epoch_state' = [epoch_state EXCEPT ![v] = IF reaches_memory THEN e ELSE @]
  /\ signer' = [signer EXCEPT ![v] =
       IF reaches_memory /\ failed # "author" THEN v \in Members[e] /\ failed # "key" ELSE @]
  /\ last_round_generated' = [last_round_generated EXCEPT ![v] =
       IF epoch_state'[v] # epoch_state[v] THEN 0 ELSE @]
  /\ UNCHANGED signed

(***************************************************************************)
(* The RoundManager hands over blocks and certificates only after it has   *)
(* verified them with the verifier of their epoch.                         *)
(***************************************************************************)
Certified(b) == VerifyQC(BlockEpoch[b], b)

(* verify_tc on the optional timeout certificate of a call for epoch e *)
AcceptTC(v, e, tc) ==
  tc # None => tc.epoch = e /\ VerifyTC(e, tc) /\ VerifyTC(epoch_state[v], tc)

VerifyProposal(v, b) ==
  /\ BlockEpoch[b] = SafetyData(v).epoch
  /\ VerifyWellFormed(b)
  /\ VerifyQC(epoch_state[v], BlockParent[b])
  /\ BlockAuthor[b] \in Honest => b \in proposals

(* construct_and_sign_vote_two_chain *)
ConstructAndSignVote(v, b, io) ==
  LET sd == SafetyData(v)
      vote == [author |-> v, block |-> b, commit |-> ConstructLedgerInfo2Chain(b)]
      voted_this_round ==
        sd.last_vote # None /\ BlockRound[sd.last_vote.block] = BlockRound[b]
  IN
  /\ Fault(io # "ok")
  /\ signer[v]
  /\ VerifyProposal(v, b) /\ Certified(BlockParent[b])
  /\ \/ /\ voted_this_round /\ io = "ok"
        /\ votes' = votes \cup {sd.last_vote}
        /\ ReadSafetyData(v)
        /\ UNCHANGED store
     \/ /\ ~voted_this_round
        /\ BlockRound[b] > sd.last_voted_round
        /\ {tc \in OptionalTC : SafeToVote(b, tc) /\ AcceptTC(v, sd.epoch, tc)} # {}
        /\ SetSafetyData(v, [ObserveQC(UpdateLastVoteRound(sd, BlockRound[b]), BlockParent[b])
                               EXCEPT !.last_vote = vote], io)
        /\ votes' = IF io = "ok" THEN votes \cup {vote} ELSE votes
  /\ UNCHANGED <<waypoint, epoch_state, signer, last_round_generated,
                 timeouts, proposals, commit_votes>>

(* sign_timeout_with_qc, for round and the certificate of block qc *)
SignTimeoutWithQC(v, round, qc, io) ==
  LET sd == SafetyData(v)
      timeout == [author |-> v, epoch |-> BlockEpoch[qc], round |-> round,
                  hqc |-> BlockRound[qc]]
  IN
  /\ Fault(io # "ok")
  /\ signer[v]
  /\ BlockEpoch[qc] = sd.epoch
  /\ BlockRound[qc] < round /\ round >= sd.last_voted_round
  /\ Certified(qc) /\ VerifyQC(epoch_state[v], qc)
  /\ {tc \in OptionalTC :
         SafeToTimeout(round, BlockRound[qc], tc, sd) /\ AcceptTC(v, sd.epoch, tc)} # {}
  /\ IF round > sd.last_voted_round
       THEN SetSafetyData(v, UpdateLastVoteRound(sd, round), io)
       ELSE io = "ok" /\ ReadSafetyData(v) /\ UNCHANGED store
  /\ timeouts' = IF io = "ok" THEN timeouts \cup {timeout} ELSE timeouts
  /\ UNCHANGED <<waypoint, epoch_state, signer, last_round_generated,
                 votes, proposals, commit_votes>>

(* sign_proposal: the preferred round it observes is not persisted *)
SafeToPropose(v, b) ==
  LET sd == SafetyData(v) IN
  /\ signer[v]
  /\ BlockEpoch[b] = sd.epoch
  /\ BlockRound[b] > sd.last_voted_round
  /\ VerifyQC(epoch_state[v], BlockParent[b])
  /\ BlockRound[BlockParent[b]] >= sd.preferred_round

(* generate_proposal for the block b on a received certificate, then sign_proposal *)
GenerateProposal(v, b) ==
  /\ BlockAuthor[b] = v
  /\ Certified(BlockParent[b])
  /\ BlockRound[BlockParent[b]] < BlockRound[b]
  /\ last_round_generated[v] < BlockRound[b]
  /\ last_round_generated' = [last_round_generated EXCEPT ![v] = BlockRound[b]]
  /\ proposals' = IF SafeToPropose(v, b) THEN proposals \cup {b} ELSE proposals
  /\ IF signer[v] THEN ReadSafetyData(v) ELSE UNCHANGED cached
  /\ UNCHANGED <<durable, epoch_state, signer, votes, timeouts, commit_votes, faults>>

(* Mutant: any certified block counts as ordered. *)
CertifiedBy(e) == {b \in Blocks : VerifyQC(e, b)}

(***************************************************************************)
(* A ledger info that commits b and is signed by a quorum of epoch e, as   *)
(* produced by the votes on some child of b.                               *)
(***************************************************************************)
OrderedBy(e) == {b \in Blocks : \E child \in Blocks : QuorumCert(e, child, b)}

(* Mutant: a certificate of the block itself is taken for its order. *)
SignCommitVoteForCertified(v, b, result) ==
  /\ signer[v]
  /\ b \in CertifiedBy(BlockEpoch[b]) /\ b \in CertifiedBy(epoch_state[v])
  /\ commit_votes' = commit_votes \cup {[author |-> v, block |-> b, result |-> result]}
  /\ UNCHANGED <<durable, volatile, votes, timeouts, proposals, faults>>

(* sign_commit_vote: the ordered block with its execution result *)
SignCommitVote(v, b, result) ==
  /\ signer[v]
  /\ b \in OrderedBy(BlockEpoch[b]) /\ b \in OrderedBy(epoch_state[v])
  /\ commit_votes' = commit_votes \cup {[author |-> v, block |-> b, result |-> result]}
  /\ UNCHANGED <<durable, volatile, votes, timeouts, proposals, faults>>

-----------------------------------------------------------------------------
Init ==
  /\ store = [v \in Honest |-> NewSafetyData(1)]
  /\ cached = [v \in Honest |-> None]
  /\ waypoint = [v \in Honest |-> 1]
  /\ epoch_state = [v \in Honest |-> None]
  /\ signer = [v \in Honest |-> FALSE]
  /\ last_round_generated = [v \in Honest |-> 0]
  /\ votes = {} /\ timeouts = {} /\ proposals = {} /\ commit_votes = {}
  /\ faults = 0

Next ==
  \E v \in Honest :
    \/ Crash(v)
    \/ ConsensusState(v)
    \/ \E e \in Epochs, failed \in InitSteps, io \in IO : Initialize(v, e, failed, io)
    \/ \E b \in Blocks, io \in IO : ConstructAndSignVote(v, b, io)
    \/ \E qc \in Blocks, round \in TimeoutRounds, io \in IO : SignTimeoutWithQC(v, round, qc, io)
    \/ \E b \in Blocks : GenerateProposal(v, b)
    \/ \E b \in Blocks, result \in ExecResults : SignCommitVote(v, b, result)

Spec == Init /\ [][Next]_vars

-----------------------------------------------------------------------------
(* Properties *)

(* The epoch and the round of the block of a vote, and the round of the block
   it extends *)
EpochOf(x) == BlockEpoch[x.block]
RoundOf(x) == BlockRound[x.block]
ParentRoundOf(x) == BlockRound[BlockParent[x.block]]

(***************************************************************************)
(* The copy of SafetyData in memory, when there is one, is what storage    *)
(* holds: a failed write never leaves safety_data() answering with rounds  *)
(* that a restart would forget, or forgetting rounds a restart would see.  *)
(***************************************************************************)
CacheCoherent == \A v \in Honest : cached[v] # None => cached[v] = store[v]

(***************************************************************************)
(* initialize() never lets the stored waypoint fall behind the epoch of    *)
(* the stored SafetyData, so a validator is never answered                 *)
(* WaypointOutOfDate by a proof its own waypoint accepts.                  *)
(***************************************************************************)
WaypointCoversEpoch == \A v \in Honest : store[v].epoch <= waypoint[v]

(***************************************************************************)
(* A validator returns one vote in a round of an epoch, across crashes,    *)
(* failed writes and repeated calls of construct_and_sign_vote_two_chain.  *)
(***************************************************************************)
OneVotePerRound ==
  \A x, y \in votes :
    /\ x.author = y.author
    /\ EpochOf(x) = EpochOf(y)
    /\ RoundOf(x) = RoundOf(y)
    => x = y

(***************************************************************************)
(* A validator that voted for a block and also timed out in that round or  *)
(* a later one has put into the timeout a certificate at least as high as  *)
(* the one the block carried.                                              *)
(***************************************************************************)
VoteTimeoutLock ==
  \A x \in votes, t \in timeouts :
    /\ x.author = t.author
    /\ EpochOf(x) = t.epoch
    /\ RoundOf(x) <= t.round
    => t.hqc >= ParentRoundOf(x)

(***************************************************************************)
(* What storage promises never regresses: no handler, failed write or      *)
(* restart lowers the epoch of the SafetyData or the waypoint, or, within  *)
(* an epoch, any of the three rounds; a vote is replaced only by a vote of *)
(* a later round.                                                          *)
(***************************************************************************)
NotBefore(old, new) ==
  \/ old.epoch < new.epoch
  \/ /\ old.epoch = new.epoch
     /\ old.last_voted_round <= new.last_voted_round
     /\ old.preferred_round <= new.preferred_round
     /\ old.one_chain_round <= new.one_chain_round
     /\ \/ old.last_vote \in {None, new.last_vote}
        \/ /\ new.last_vote # None
           /\ RoundOf(old.last_vote) < RoundOf(new.last_vote)

StorageMonotone ==
  [][\A v \in Honest : NotBefore(store[v], store'[v]) /\ waypoint[v] <= waypoint'[v]]_vars

(***************************************************************************)
(* A proposer signs one proposal for a round ("at most one proposal can be *)
(* generated per round", generate_proposal).  A restart breaks it; see     *)
(* section 5 of the README.                                                *)
(***************************************************************************)
NoProposalEquivocation ==
  \A b, c \in proposals :
    /\ BlockAuthor[b] = BlockAuthor[c]
    /\ BlockEpoch[b] = BlockEpoch[c]
    /\ BlockRound[b] = BlockRound[c]
    => b = c

-----------------------------------------------------------------------------
(* The inductive invariant behind the properties above *)

(* What the SafetyData sd remembers about a vote x of its own epoch *)
Remembers(sd, x) ==
  /\ sd.last_vote # None
  /\ RoundOf(x) <= RoundOf(sd.last_vote)
  /\ RoundOf(x) = RoundOf(sd.last_vote) => x = sd.last_vote
  /\ ParentRoundOf(x) <= sd.one_chain_round

LastVoteInv ==
  \A v \in Honest : store[v].last_vote # None =>
    /\ store[v].last_vote.author = v
    /\ EpochOf(store[v].last_vote) = store[v].epoch
    /\ RoundOf(store[v].last_vote) <= store[v].last_voted_round
    /\ ParentRoundOf(store[v].last_vote) <= store[v].one_chain_round

VotesInv ==
  \A x \in votes :
    /\ EpochOf(x) <= store[x.author].epoch
    /\ EpochOf(x) = store[x.author].epoch => Remembers(store[x.author], x)

TimeoutsInv ==
  \A t \in timeouts :
    /\ t.epoch <= store[t.author].epoch
    /\ t.epoch = store[t.author].epoch => t.round <= store[t.author].last_voted_round

(* The vote in storage may still be returned: it is locked like those that were. *)
LastVoteLock ==
  \A t \in timeouts :
    LET x == store[t.author].last_vote IN
    /\ x # None
    /\ t.epoch = store[t.author].epoch
    /\ RoundOf(x) <= t.round
    => t.hqc >= ParentRoundOf(x)

SafetyInv ==
  /\ TypeOK /\ CacheCoherent /\ LastVoteInv /\ VotesInv /\ TimeoutsInv /\ LastVoteLock
  /\ OneVotePerRound /\ VoteTimeoutLock

=============================================================================
