------------------------ MODULE TwoChainCommitProofs ------------------------
(***************************************************************************)
(* Proofs about SafetyRules and TwoChainCommit, for every validator set    *)
(* with intersecting quorums, every block tree and any number of crashes   *)
(* and failed writes.  First what SafetyRules promises for one validator,  *)
(* then agreement, which rests on it.                                      *)
(***************************************************************************)
EXTENDS TwoChainCommit, WellFoundedInduction, TLAPS

-----------------------------------------------------------------------------
(* SafetyRules. *)

(* Integer-valued fields *)
LEMMA EpochType == \A e \in Epochs : e \in Int
BY ConstantsAssumption

(* Rounds are natural numbers. *)
LEMMA RoundType == \A r \in Rounds : r \in Int /\ r >= 0
BY ConstantsAssumption DEF Rounds

(* The content of a block has its types. *)
LEMMA BlockType ==
  ASSUME NEW b \in Blocks
  PROVE  /\ BlockParent[b] \in Blocks
         /\ BlockRound[b] \in Int /\ BlockRound[b] >= 0
         /\ BlockEpoch[b] \in Epochs /\ BlockEpoch[b] \in Int
<1>1. BlockParent[b] \in Blocks /\ BlockRound[b] \in 0..MaxRound /\ BlockEpoch[b] \in Epochs
  BY BlocksAssumption, Zenon
<1> QED BY <1>1, EpochType

(* A vote names an honest author and a block. *)
LEMMA VoteType ==
  ASSUME NEW x \in Vote
  PROVE  /\ x.author \in Honest /\ x.block \in Blocks
         /\ RoundOf(x) \in Int
         /\ ParentRoundOf(x) \in Int
         /\ EpochOf(x) \in Int
BY BlockType, Zenon DEF Vote, RoundOf, ParentRoundOf, EpochOf

(* A timeout has an honest author and integer rounds. *)
LEMMA TimeoutType ==
  ASSUME NEW t \in Timeout
  PROVE  t.author \in Honest /\ t.epoch \in Int /\ t.round \in Int /\ t.hqc \in Int
BY EpochType, RoundType, Zenon DEF Timeout

(* The fields of a SafetyData have their types. *)
LEMMA SafetyDataFields ==
  ASSUME NEW sd \in SafetyDataType
  PROVE  /\ sd.epoch \in Epochs /\ sd.epoch \in Int
         /\ sd.last_voted_round \in Int /\ sd.one_chain_round \in Int
         /\ sd.preferred_round \in Int
         /\ sd.last_vote # None => sd.last_vote \in Vote
BY EpochType, RoundType, Zenon DEF SafetyDataType

(* SafetyData::new returns a SafetyData. *)
LEMMA NewSafetyDataType ==
  ASSUME NEW e \in Epochs
  PROVE  NewSafetyData(e) \in SafetyDataType
BY ConstantsAssumption DEF NewSafetyData, SafetyDataType, Rounds

(* safety_data() returns a SafetyData *)
LEMMA SafetyDataTyped ==
  ASSUME TypeOK, NEW v \in Honest
  PROVE  SafetyData(v) \in SafetyDataType
BY Zenon DEF TypeOK, SafetyData

(* observe_qc returns a SafetyData. *)
LEMMA ObserveQCType ==
  ASSUME NEW sd \in SafetyDataType, NEW qc \in Blocks
  PROVE  ObserveQC(sd, qc) \in SafetyDataType
BY BlocksAssumption, Zenon DEF ObserveQC, Larger, SafetyDataType, Rounds

(* verify_and_update_last_vote_round returns a SafetyData. *)
LEMMA UpdateLastVoteRoundType ==
  ASSUME NEW sd \in SafetyDataType, NEW r \in Rounds
  PROVE  UpdateLastVoteRound(sd, r) \in SafetyDataType
BY Zenon DEF UpdateLastVoteRound, SafetyDataType

(* The fault counter stays within its bound. *)
LEMMA FaultType ==
  ASSUME faults \in 0..MaxFaults, NEW h \in BOOLEAN, Fault(h)
  PROVE  faults' \in 0..MaxFaults
BY ConstantsAssumption DEF Fault

(* set_safety_data leaves SafetyData in storage and in memory. *)
LEMMA SetSafetyDataType ==
  ASSUME TypeOK, NEW v \in Honest, NEW data \in SafetyDataType, NEW io \in IO,
         SetSafetyData(v, data, io)
  PROVE  /\ store' \in [Honest -> SafetyDataType]
         /\ cached' \in [Honest -> SafetyDataType \cup {None}]
BY Zenon DEF TypeOK, SetSafetyData

(* safety_data leaves a SafetyData in memory. *)
LEMMA ReadSafetyDataType ==
  ASSUME TypeOK, NEW v \in Honest, ReadSafetyData(v)
  PROVE  cached' \in [Honest -> SafetyDataType \cup {None}]
BY SafetyDataTyped, Zenon DEF TypeOK, ReadSafetyData

(* Types hold initially. *)
LEMMA TypeOKInit == Init => TypeOK
BY NewSafetyDataType, ConstantsAssumption DEF Init, TypeOK, Rounds

(* initialize keeps the types. *)
LEMMA TypeOKInitialize ==
  ASSUME TypeOK, NEW v \in Honest, NEW e \in Epochs, NEW failed \in InitSteps,
         NEW io \in IO, Initialize(v, e, failed, io)
  PROVE  TypeOK'
<1>1. store' \in [Honest -> SafetyDataType] /\ cached' \in [Honest -> SafetyDataType \cup {None}]
  <2>1. CASE UNCHANGED <<store, cached>>
    BY <2>1, Zenon DEF TypeOK
  <2>2. CASE SetSafetyData(v, NewSafetyData(e), io)
    BY <2>2, NewSafetyDataType, SetSafetyDataType, Zenon
  <2>3. CASE ReadSafetyData(v) /\ UNCHANGED store
    BY <2>3, ReadSafetyDataType, Zenon DEF TypeOK
  <2> QED BY <2>1, <2>2, <2>3, Zenon DEF Initialize
<1>2. waypoint' \in [Honest -> Epochs]
  BY Zenon DEF Initialize, SetWaypoint, TypeOK
<1>3. epoch_state' \in [Honest -> Epochs \cup {None}]
  BY Zenon DEF Initialize, TypeOK
<1>4. signer' \in [Honest -> BOOLEAN]
  BY Zenon DEF Initialize, TypeOK
<1>5. last_round_generated' \in [Honest -> Rounds]
  BY ConstantsAssumption DEF Initialize, TypeOK, Rounds
<1>6. faults' \in 0..MaxFaults
  BY FaultType, Zenon DEF Initialize, TypeOK
<1> QED BY <1>1, <1>2, <1>3, <1>4, <1>5, <1>6, Zenon DEF Initialize, TypeOK, signed

(* construct_and_sign_vote_two_chain keeps the types. *)
LEMMA TypeOKVote ==
  ASSUME TypeOK, NEW v \in Honest, NEW b \in Blocks, NEW io \in IO,
         ConstructAndSignVote(v, b, io)
  PROVE  TypeOK'
<1> DEFINE sd == SafetyData(v)
           vote == [author |-> v, block |-> b, commit |-> ConstructLedgerInfo2Chain(b)]
           new == [ObserveQC(UpdateLastVoteRound(sd, BlockRound[b]), BlockParent[b])
                    EXCEPT !.last_vote = vote]
<1>1. sd \in SafetyDataType
  BY SafetyDataTyped, Zenon
<1>2. vote \in Vote
  BY BlocksAssumption, Zenon DEF Vote, ConstructLedgerInfo2Chain
<1>3. new \in SafetyDataType
  <2>1. ObserveQC(UpdateLastVoteRound(sd, BlockRound[b]), BlockParent[b]) \in SafetyDataType
    BY <1>1, BlocksAssumption, ObserveQCType, UpdateLastVoteRoundType, Zenon DEF Rounds
  <2> HIDE DEF vote, sd
  <2> QED BY <1>2, <2>1, Zenon DEF SafetyDataType
<1>4. faults' \in 0..MaxFaults
  BY FaultType, Zenon DEF ConstructAndSignVote, TypeOK
<1>5. CASE sd.last_vote # None /\ votes' = votes \cup {sd.last_vote} /\ ReadSafetyData(v)
           /\ UNCHANGED store
  <2>1. sd.last_vote \in Vote
    BY <1>1, <1>5, Zenon DEF SafetyDataType
  <2> QED BY <1>4, <1>5, <2>1, ReadSafetyDataType, Zenon DEF ConstructAndSignVote, TypeOK
<1>6. CASE SetSafetyData(v, new, io) /\ votes' = IF io = "ok" THEN votes \cup {vote} ELSE votes
  <2>1. store' \in [Honest -> SafetyDataType] /\ cached' \in [Honest -> SafetyDataType \cup {None}]
    BY <1>3, <1>6, SetSafetyDataType, Zenon
  <2>2. votes' \subseteq Vote
    BY <1>2, <1>6, Zenon DEF TypeOK
  <2> QED BY <1>4, <2>1, <2>2, Zenon DEF ConstructAndSignVote, TypeOK
<1> QED BY <1>5, <1>6, Zenon DEF ConstructAndSignVote

(* sign_timeout_with_qc keeps the types. *)
LEMMA TypeOKTimeout ==
  ASSUME TypeOK, NEW v \in Honest, NEW qc \in Blocks, NEW round \in TimeoutRounds,
         NEW io \in IO, SignTimeoutWithQC(v, round, qc, io)
  PROVE  TypeOK'
<1> DEFINE sd == SafetyData(v)
           timeout == [author |-> v, epoch |-> BlockEpoch[qc], round |-> round,
                       hqc |-> BlockRound[qc]]
<1>1. sd \in SafetyDataType
  BY SafetyDataTyped, Zenon
<1>2. timeout \in Timeout /\ round \in Rounds
  BY BlocksAssumption, ConstantsAssumption, Zenon DEF Timeout, Rounds
<1>3. faults' \in 0..MaxFaults
  BY FaultType, Zenon DEF SignTimeoutWithQC, TypeOK
<1>4. timeouts' \subseteq Timeout
  BY <1>2, Zenon DEF SignTimeoutWithQC, TypeOK
<1>5. store' \in [Honest -> SafetyDataType] /\ cached' \in [Honest -> SafetyDataType \cup {None}]
  <2>1. CASE round > sd.last_voted_round
    <3>1. UpdateLastVoteRound(sd, round) \in SafetyDataType
      BY <1>1, <1>2, UpdateLastVoteRoundType, Zenon
    <3> QED BY <2>1, <3>1, SetSafetyDataType, Zenon DEF SignTimeoutWithQC
  <2>2. CASE ~(round > sd.last_voted_round)
    BY <2>2, ReadSafetyDataType, Zenon DEF SignTimeoutWithQC, TypeOK
  <2> QED BY <2>1, <2>2, Zenon
<1> QED BY <1>3, <1>4, <1>5, Zenon DEF SignTimeoutWithQC, TypeOK

(* A proposal, a commit vote, a crash and a read change few variables. *)
LEMMA TypeOKOther ==
  ASSUME TypeOK, NEW v \in Honest,
         \/ Crash(v)
         \/ ConsensusState(v)
         \/ \E b \in Blocks : GenerateProposal(v, b)
         \/ \E b \in Blocks, result \in ExecResults : SignCommitVote(v, b, result)
  PROVE  TypeOK'
<1>1. CASE Crash(v)
  <2>1. faults' \in 0..MaxFaults
    BY <1>1, FaultType, Zenon DEF Crash, TypeOK
  <2> QED BY <1>1, <2>1, ConstantsAssumption DEF Crash, TypeOK, Rounds, durable, signed
<1>2. CASE ConsensusState(v)
  BY <1>2, ReadSafetyDataType, Zenon DEF ConsensusState, TypeOK, durable, signed
<1>3. ASSUME NEW b \in Blocks, GenerateProposal(v, b) PROVE TypeOK'
  <2>1. cached' \in [Honest -> SafetyDataType \cup {None}]
    BY <1>3, ReadSafetyDataType, Zenon DEF GenerateProposal, TypeOK
  <2>2. last_round_generated' \in [Honest -> Rounds]
    BY <1>3, BlocksAssumption, Zenon DEF GenerateProposal, TypeOK, Rounds
  <2> QED BY <1>3, <2>1, <2>2, Zenon DEF GenerateProposal, TypeOK, durable
<1>4. ASSUME NEW b \in Blocks, NEW result \in ExecResults, SignCommitVote(v, b, result)
      PROVE  TypeOK'
  BY <1>4 DEF SignCommitVote, TypeOK, CommitVote, durable, volatile
<1> QED BY <1>1, <1>2, <1>3, <1>4, Zenon

(* Every step keeps the types. *)
LEMMA TypeOKNext == TypeOK /\ [Next]_vars => TypeOK'
<1> SUFFICES ASSUME TypeOK, [Next]_vars PROVE TypeOK'
  BY Zenon
<1>1. CASE UNCHANGED vars
  BY <1>1, Zenon DEF TypeOK, vars
<1>2. CASE Next
  BY <1>2, TypeOKInitialize, TypeOKVote, TypeOKTimeout, TypeOKOther, Zenon DEF Next
<1> QED BY <1>1, <1>2, Zenon

(***************************************************************************)
(* The handlers keep every record of SafetyRules well-typed: rounds,       *)
(* epochs and the vote in storage stay in their ranges.                    *)
(***************************************************************************)
THEOREM TypeCorrect == Spec => []TypeOK
<1>1. Init => TypeOK
  BY TypeOKInit, Zenon
<1>2. TypeOK /\ [Next]_vars => TypeOK'
  BY TypeOKNext, Zenon
<1> QED BY <1>1, <1>2, PTL DEF Spec

-----------------------------------------------------------------------------
(* The copy in memory *)

(* safety_data answers what is stored. *)
LEMMA SafetyDataIsStore ==
  ASSUME CacheCoherent, NEW v \in Honest
  PROVE  SafetyData(v) = store[v]
BY Zenon DEF CacheCoherent, SafetyData

(* safety_data keeps memory and storage equal. *)
LEMMA ReadCoherent ==
  ASSUME TypeOK, CacheCoherent, NEW v \in Honest, ReadSafetyData(v), UNCHANGED store
  PROVE  CacheCoherent'
BY SafetyDataIsStore, Zenon DEF CacheCoherent, ReadSafetyData, TypeOK

(* set_safety_data keeps memory and storage equal, or drops the copy. *)
LEMMA SetCoherent ==
  ASSUME TypeOK, CacheCoherent, NEW v \in Honest, NEW data, NEW io \in IO,
         SetSafetyData(v, data, io)
  PROVE  CacheCoherent'
BY Zenon DEF CacheCoherent, SetSafetyData, TypeOK, IO

(* Whatever a write of SafetyData reports, storage holds the old or the new record. *)
LEMMA SetEffect ==
  ASSUME TypeOK, NEW v \in Honest, NEW data, NEW io \in IO, SetSafetyData(v, data, io)
  PROVE  /\ store'[v] \in {store[v], data}
         /\ io = "ok" => store'[v] = data
         /\ \A u \in Honest : u # v => store'[u] = store[u]
BY Zenon DEF SetSafetyData, TypeOK

(* A step that changes neither storage nor votes nor timeouts keeps SafetyInv. *)
LEMMA KeepInv ==
  ASSUME SafetyInv, TypeOK', CacheCoherent', UNCHANGED <<store, votes, timeouts>>
  PROVE  SafetyInv'
BY Zenon DEF SafetyInv, LastVoteInv, VotesInv, TimeoutsInv, LastVoteLock, OneVotePerRound,
       VoteTimeoutLock, Remembers

(* SafetyInv holds initially. *)
LEMMA SafetyInvInit == Init => SafetyInv
BY TypeOKInit DEF Init, SafetyInv, CacheCoherent, LastVoteInv, VotesInv, TimeoutsInv,
       LastVoteLock, OneVotePerRound, VoteTimeoutLock, NewSafetyData

(* Crashes, reads, proposals and commit votes keep SafetyInv. *)
LEMMA SafetyInvOther ==
  ASSUME SafetyInv, TypeOK', NEW v \in Honest,
         \/ Crash(v)
         \/ ConsensusState(v)
         \/ \E b \in Blocks : GenerateProposal(v, b)
         \/ \E b \in Blocks, result \in ExecResults : SignCommitVote(v, b, result)
  PROVE  SafetyInv'
<1> USE DEF SafetyInv
<1>1. UNCHANGED <<store, votes, timeouts>>
  BY Zenon DEF Crash, ConsensusState, GenerateProposal, SignCommitVote, durable, signed
<1>2. CacheCoherent'
  <2>1. CASE ReadSafetyData(v)
    BY <1>1, <2>1, ReadCoherent, Zenon
  <2>2. CASE UNCHANGED cached
    BY <1>1, <2>2, Zenon DEF CacheCoherent
  <2>3. CASE Crash(v)
    BY <1>1, <2>3, Zenon DEF CacheCoherent, Crash, TypeOK
  <2> QED BY <2>1, <2>2, <2>3, Zenon DEF ConsensusState, GenerateProposal, SignCommitVote,
             volatile
<1> QED BY <1>1, <1>2, KeepInv, Zenon

(***************************************************************************)
(* A new epoch starts with an empty record, and everything signed before   *)
(* belongs to an older epoch.                                              *)
(***************************************************************************)
LEMMA SafetyInvNewEpoch ==
  ASSUME SafetyInv, TypeOK', CacheCoherent', NEW v \in Honest, NEW e \in Epochs,
         store[v].epoch < e, store'[v] = NewSafetyData(e),
         \A u \in Honest : u # v => store'[u] = store[u],
         UNCHANGED <<votes, timeouts>>
  PROVE  SafetyInv'
<1>0. TypeOK /\ votes \subseteq Vote /\ timeouts \subseteq Timeout
  BY Zenon DEF SafetyInv, TypeOK
<1>1. LastVoteInv'
  BY DEF SafetyInv, LastVoteInv, NewSafetyData
<1>2. \A u \in Honest : store[u].epoch \in Int /\ store'[u].epoch \in Int
  BY SafetyDataFields, Zenon DEF SafetyInv, TypeOK
<1>a. store'[v].epoch = e /\ store'[v].last_vote = None /\ e \in Int
  BY EpochType DEF NewSafetyData
<1>3. VotesInv'
  <2> SUFFICES ASSUME NEW x \in votes
               PROVE  /\ EpochOf(x) <= store'[x.author].epoch
                      /\ EpochOf(x) = store'[x.author].epoch
                           => Remembers(store'[x.author], x)
    BY Zenon DEF VotesInv, Remembers
  <2>1. x.author \in Honest /\ EpochOf(x) \in Int
    BY <1>0, VoteType, Zenon
  <2>2. EpochOf(x) <= store[x.author].epoch
    BY Zenon DEF SafetyInv, VotesInv
  <2>3. CASE x.author = v
    <3>1. EpochOf(x) < store'[x.author].epoch
      BY <1>2, <1>a, <2>1, <2>2, <2>3
    <3> QED BY <1>2, <2>1, <3>1
  <2>4. CASE x.author # v
    BY <2>1, <2>4, Zenon DEF SafetyInv, VotesInv
  <2> QED BY <2>3, <2>4, Zenon
<1>4. TimeoutsInv' /\ LastVoteLock'
  <2> SUFFICES ASSUME NEW t \in timeouts
               PROVE  /\ t.epoch <= store'[t.author].epoch
                      /\ t.epoch = store'[t.author].epoch
                           => t.round <= store'[t.author].last_voted_round
                      /\ store'[t.author].last_vote # None
                           /\ t.epoch = store'[t.author].epoch
                           /\ RoundOf(store'[t.author].last_vote) <= t.round
                         => t.hqc >= ParentRoundOf(store'[t.author].last_vote)
    BY Zenon DEF TimeoutsInv, LastVoteLock
  <2>1. t.author \in Honest /\ t.epoch \in Int
    BY <1>0, TimeoutType, Zenon
  <2>2. t.epoch <= store[t.author].epoch
    BY Zenon DEF SafetyInv, TimeoutsInv
  <2>3. CASE t.author = v
    <3>1. t.epoch < store'[t.author].epoch
      BY <1>2, <1>a, <2>1, <2>2, <2>3
    <3> QED BY <1>2, <2>1, <3>1
  <2>4. CASE t.author # v
    BY <2>1, <2>4, Zenon DEF SafetyInv, TimeoutsInv, LastVoteLock
  <2> QED BY <2>3, <2>4, Zenon
<1>5. OneVotePerRound' /\ VoteTimeoutLock'
  BY Zenon DEF SafetyInv, OneVotePerRound, VoteTimeoutLock
<1> QED BY <1>1, <1>3, <1>4, <1>5, Zenon DEF SafetyInv

(* initialize keeps SafetyInv, wherever it fails. *)
LEMMA SafetyInvInitialize ==
  ASSUME SafetyInv, TypeOK', NEW v \in Honest, NEW e \in Epochs, NEW failed \in InitSteps,
         NEW io \in IO, Initialize(v, e, failed, io)
  PROVE  SafetyInv'
<1>1. TypeOK /\ CacheCoherent /\ UNCHANGED <<votes, timeouts>>
  BY Zenon DEF SafetyInv, Initialize, signed
<1>2. CASE UNCHANGED <<store, cached>>
  BY <1>1, <1>2, KeepInv, Zenon DEF CacheCoherent
<1>3. CASE SafetyData(v).epoch < e /\ SetSafetyData(v, NewSafetyData(e), io)
  <2>1. CacheCoherent'
    BY <1>1, <1>3, SetCoherent, Zenon
  <2>2. store[v].epoch < e
    BY <1>1, <1>3, SafetyDataIsStore, Zenon
  <2>3. /\ store'[v] \in {store[v], NewSafetyData(e)}
        /\ \A u \in Honest : u # v => store'[u] = store[u]
    BY <1>1, <1>3, SetEffect, Zenon
  <2>4. CASE store'[v] = store[v]
    <3>1. store' = store
      BY <1>1, <2>3, <2>4 DEF TypeOK
    <3> QED BY <1>1, <2>1, <3>1, KeepInv, Zenon
  <2>5. CASE store'[v] = NewSafetyData(e)
    BY <1>1, <2>1, <2>2, <2>3, <2>5, SafetyInvNewEpoch, Zenon
  <2> QED BY <2>3, <2>4, <2>5, Zenon
<1>4. CASE ReadSafetyData(v) /\ UNCHANGED store
  BY <1>1, <1>4, ReadCoherent, KeepInv, Zenon
<1> QED BY <1>2, <1>3, <1>4, Zenon DEF Initialize

(* The vote of a round already voted in is returned again. *)
LEMMA SafetyInvRevote ==
  ASSUME SafetyInv, TypeOK', CacheCoherent', NEW v \in Honest,
         store[v].last_vote # None, votes' = votes \cup {store[v].last_vote},
         UNCHANGED <<store, timeouts>>
  PROVE  SafetyInv'
<1> DEFINE x == store[v].last_vote
<1>1. votes \subseteq Vote /\ timeouts \subseteq Timeout /\ store[v] \in SafetyDataType
  BY Zenon DEF SafetyInv, TypeOK
<1>2. /\ x \in Vote /\ x.author = v /\ EpochOf(x) = store[v].epoch
      /\ ParentRoundOf(x) <= store[v].one_chain_round
  BY <1>1, SafetyDataFields, Zenon DEF SafetyInv, LastVoteInv
<1>3. RoundOf(x) \in Int /\ store[v].epoch \in Int
  BY <1>1, <1>2, VoteType, SafetyDataFields, Zenon
<1>4. Remembers(store[v], x)
  BY <1>2, <1>3 DEF Remembers
<1>5. VotesInv'
  <2> SUFFICES ASSUME NEW y \in votes \cup {x}
               PROVE  /\ EpochOf(y) <= store[y.author].epoch
                      /\ EpochOf(y) = store[y.author].epoch
                           => Remembers(store[y.author], y)
    BY Zenon DEF VotesInv, Remembers
  <2>1. CASE y = x
    BY <1>2, <1>3, <1>4, <2>1
  <2>2. CASE y \in votes
    BY <2>2, Zenon DEF SafetyInv, VotesInv
  <2> QED BY <2>1, <2>2, Zenon
<1>6. OneVotePerRound'
  <2>1. ASSUME NEW y \in votes, y.author = v, EpochOf(y) = EpochOf(x),
               RoundOf(y) = RoundOf(x)
        PROVE  y = x
    BY <1>2, <2>1, Zenon DEF SafetyInv, VotesInv, Remembers
  <2> QED BY <1>2, <2>1, Zenon DEF SafetyInv, OneVotePerRound
<1>7. VoteTimeoutLock'
  <2>1. ASSUME NEW t \in timeouts, t.author = v, EpochOf(x) = t.epoch,
               RoundOf(x) <= t.round
        PROVE  t.hqc >= ParentRoundOf(x)
    BY <1>2, <2>1, Zenon DEF SafetyInv, LastVoteLock
  <2> QED BY <1>2, <2>1 DEF SafetyInv, VoteTimeoutLock
<1>8. LastVoteInv' /\ TimeoutsInv' /\ LastVoteLock'
  BY Zenon DEF SafetyInv, LastVoteInv, TimeoutsInv, LastVoteLock
<1> QED BY <1>5, <1>6, <1>7, <1>8, Zenon DEF SafetyInv

(***************************************************************************)
(* A new vote is in a round above everything signed before in the epoch;   *)
(* it may have been returned or only stored.                               *)
(***************************************************************************)
LEMMA SafetyInvNewVote ==
  ASSUME SafetyInv, TypeOK', CacheCoherent', NEW v \in Honest, NEW x \in Vote,
         x.author = v, EpochOf(x) = store[v].epoch,
         RoundOf(x) > store[v].last_voted_round,
         store'[v].epoch = store[v].epoch, store'[v].last_vote = x,
         store'[v].last_voted_round = RoundOf(x),
         store'[v].one_chain_round >= store[v].one_chain_round,
         store'[v].one_chain_round >= ParentRoundOf(x),
         \A u \in Honest : u # v => store'[u] = store[u],
         votes' \in {votes, votes \cup {x}}, UNCHANGED timeouts
  PROVE  SafetyInv'
<1> DEFINE old == store[v]
           new == store'[v]
<1>1. /\ votes \subseteq Vote /\ timeouts \subseteq Timeout
      /\ old \in SafetyDataType /\ new \in SafetyDataType
  BY Zenon DEF SafetyInv, TypeOK
<1>2. /\ RoundOf(x) \in Int /\ ParentRoundOf(x) \in Int
      /\ EpochOf(x) \in Int
      /\ old.last_voted_round \in Int /\ old.one_chain_round \in Int
      /\ new.one_chain_round \in Int /\ new.last_voted_round \in Int
  BY <1>1, VoteType, SafetyDataFields, Zenon
<1>3. x # None
  BY NoneAssumption, Zenon
<1>4. Remembers(new, x)
  BY <1>2, <1>3 DEF Remembers
<1>5. ASSUME NEW y \in votes, y.author = v, EpochOf(y) = old.epoch
      PROVE  /\ RoundOf(y) < RoundOf(x)
             /\ ParentRoundOf(y) <= new.one_chain_round
  <2>1. Remembers(old, y) /\ old.last_vote # None
    BY <1>5, Zenon DEF SafetyInv, VotesInv, Remembers
  <2>2. RoundOf(old.last_vote) <= old.last_voted_round
    BY <2>1, Zenon DEF SafetyInv, LastVoteInv
  <2>3. old.last_vote \in Vote
    BY <1>1, <2>1, SafetyDataFields, Zenon
  <2>4. /\ RoundOf(old.last_vote) \in Int /\ RoundOf(y) \in Int
        /\ ParentRoundOf(y) \in Int
    BY <1>1, <2>3, VoteType, Zenon
  <2> QED BY <1>2, <2>1, <2>2, <2>4 DEF Remembers
<1>6. LastVoteInv'
  <2> SUFFICES ASSUME NEW u \in Honest, store'[u].last_vote # None
               PROVE  /\ store'[u].last_vote.author = u
                      /\ EpochOf(store'[u].last_vote) = store'[u].epoch
                      /\ RoundOf(store'[u].last_vote) <= store'[u].last_voted_round
                      /\ ParentRoundOf(store'[u].last_vote)
                           <= store'[u].one_chain_round
    BY Zenon DEF LastVoteInv
  <2>1. CASE u = v
    BY <1>2, <2>1
  <2>2. CASE u # v
    BY <2>2, Zenon DEF SafetyInv, LastVoteInv
  <2> QED BY <2>1, <2>2, Zenon
<1>7. VotesInv'
  <2> SUFFICES ASSUME NEW y \in votes \cup {x}
               PROVE  /\ EpochOf(y) <= store'[y.author].epoch
                      /\ EpochOf(y) = store'[y.author].epoch
                           => Remembers(store'[y.author], y)
    BY Zenon DEF VotesInv, Remembers
  <2>1. CASE y = x
    BY <1>2, <1>4, <2>1
  <2>2. CASE y \in votes /\ y.author # v
    BY <1>1, <2>2, VoteType, Zenon DEF SafetyInv, VotesInv
  <2>3. CASE y \in votes /\ y.author = v
    <3>1. EpochOf(y) <= new.epoch
      BY <2>3, Zenon DEF SafetyInv, VotesInv
    <3>2. ASSUME EpochOf(y) = new.epoch PROVE Remembers(new, y)
      <4>1. /\ RoundOf(y) < RoundOf(x)
            /\ ParentRoundOf(y) <= new.one_chain_round
        BY <1>5, <2>3, <3>2, Zenon
      <4>2. RoundOf(y) \in Int
        BY <1>1, <2>3, VoteType, Zenon
      <4> QED BY <1>2, <1>3, <4>1, <4>2 DEF Remembers
    <3> QED BY <2>3, <3>1, <3>2, Zenon
  <2> QED BY <2>1, <2>2, <2>3, Zenon
<1>8. TimeoutsInv' /\ LastVoteLock'
  <2> SUFFICES ASSUME NEW t \in timeouts
               PROVE  /\ t.epoch <= store'[t.author].epoch
                      /\ t.epoch = store'[t.author].epoch
                           => t.round <= store'[t.author].last_voted_round
                      /\ store'[t.author].last_vote # None
                           /\ t.epoch = store'[t.author].epoch
                           /\ RoundOf(store'[t.author].last_vote) <= t.round
                         => t.hqc >= ParentRoundOf(store'[t.author].last_vote)
    BY Zenon DEF TimeoutsInv, LastVoteLock
  <2>1. t.author \in Honest /\ t.round \in Int
    BY <1>1, TimeoutType, Zenon
  <2>2. CASE t.author = v
    BY <1>2, <2>1, <2>2 DEF SafetyInv, TimeoutsInv
  <2>3. CASE t.author # v
    BY <2>1, <2>3, Zenon DEF SafetyInv, TimeoutsInv, LastVoteLock
  <2> QED BY <2>2, <2>3, Zenon
<1>9. OneVotePerRound'
  <2>1. ASSUME NEW y \in votes, y.author = v, EpochOf(y) = EpochOf(x)
        PROVE  RoundOf(y) # RoundOf(x)
    <3>1. RoundOf(y) < RoundOf(x) /\ RoundOf(y) \in Int
      BY <1>1, <1>5, <2>1, VoteType, Zenon
    <3> QED BY <1>2, <3>1
  <2> QED BY <2>1 DEF SafetyInv, OneVotePerRound
<1>10. VoteTimeoutLock'
  <2>1. ASSUME NEW t \in timeouts, t.author = v, t.epoch = EpochOf(x)
        PROVE  ~(RoundOf(x) <= t.round)
    <3>1. t.round <= old.last_voted_round /\ t.round \in Int
      BY <1>1, <2>1, TimeoutType, Zenon DEF SafetyInv, TimeoutsInv
    <3> QED BY <1>2, <3>1
  <2> QED BY <2>1, Zenon DEF SafetyInv, VoteTimeoutLock
<1> QED BY <1>6, <1>7, <1>8, <1>9, <1>10, Zenon DEF SafetyInv

(* construct_and_sign_vote_two_chain keeps SafetyInv. *)
LEMMA SafetyInvVote ==
  ASSUME SafetyInv, TypeOK', NEW v \in Honest, NEW b \in Blocks, NEW io \in IO,
         ConstructAndSignVote(v, b, io)
  PROVE  SafetyInv'
<1> DEFINE sd == store[v]
           vote == [author |-> v, block |-> b, commit |-> ConstructLedgerInfo2Chain(b)]
           new == [ObserveQC(UpdateLastVoteRound(sd, BlockRound[b]), BlockParent[b])
                    EXCEPT !.last_vote = vote]
<1>1. /\ TypeOK /\ CacheCoherent /\ sd \in SafetyDataType /\ SafetyData(v) = sd
      /\ UNCHANGED timeouts
  BY SafetyDataIsStore, Zenon DEF SafetyInv, TypeOK, ConstructAndSignVote
<1>2. BlockEpoch[b] = sd.epoch
  BY <1>1, Zenon DEF ConstructAndSignVote, VerifyProposal
<1>3. CASE /\ sd.last_vote # None /\ votes' = votes \cup {sd.last_vote}
           /\ ReadSafetyData(v) /\ UNCHANGED store
  BY <1>1, <1>3, ReadCoherent, SafetyInvRevote, Zenon
<1>4. CASE /\ BlockRound[b] > sd.last_voted_round
           /\ SetSafetyData(v, new, io)
           /\ votes' = IF io = "ok" THEN votes \cup {vote} ELSE votes
  <2>1. CacheCoherent'
    BY <1>1, <1>4, SetCoherent, Zenon
  <2>2. /\ store'[v] \in {sd, new} /\ (io = "ok" => store'[v] = new)
        /\ \A u \in Honest : u # v => store'[u] = store[u]
    BY <1>1, <1>4, SetEffect, Zenon
  <2>3. CASE store'[v] = sd /\ io # "ok"
    <3>1. store' = store
      BY <1>1, <2>2, <2>3 DEF TypeOK
    <3> QED BY <1>1, <1>4, <2>1, <2>3, <3>1, KeepInv, Zenon
  <2>4. CASE store'[v] = new
    <3>1. vote \in Vote /\ vote.author = v /\ vote.block = b
      BY BlocksAssumption, Zenon DEF Vote, ConstructLedgerInfo2Chain
    <3>2. /\ BlockRound[b] \in Int /\ BlockRound[BlockParent[b]] \in Int
          /\ sd.one_chain_round \in Int
      BY <1>1, BlockType, SafetyDataFields, Zenon
    <3>3. /\ new.epoch = sd.epoch /\ new.last_vote = vote
          /\ new.last_voted_round = BlockRound[b]
          /\ new.one_chain_round = Larger(sd.one_chain_round, BlockRound[BlockParent[b]])
      BY <1>1, Zenon DEF ObserveQC, UpdateLastVoteRound, SafetyDataType
    <3>4. /\ new.one_chain_round >= sd.one_chain_round
          /\ new.one_chain_round >= BlockRound[BlockParent[b]]
      BY <3>2, <3>3 DEF Larger
    <3>5. votes' \in {votes, votes \cup {vote}}
      BY <1>4, Zenon
    <3> HIDE DEF vote, new
    <3>6. /\ EpochOf(vote) = BlockEpoch[b] /\ RoundOf(vote) = BlockRound[b]
          /\ ParentRoundOf(vote) = BlockRound[BlockParent[b]]
      BY <3>1, Zenon DEF EpochOf, RoundOf, ParentRoundOf
    <3> QED BY <1>1, <1>2, <1>4, <2>1, <2>2, <2>4, <3>1, <3>3, <3>4, <3>5, <3>6,
               SafetyInvNewVote, Zenon
  <2> QED BY <2>2, <2>3, <2>4, Zenon
<1> QED BY <1>1, <1>3, <1>4, Zenon DEF ConstructAndSignVote

(***************************************************************************)
(* A timeout of the round last voted in or a later one carries the highest *)
(* certificate voted on in the epoch, or a higher one.                     *)
(***************************************************************************)
LEMMA SafetyInvNewTimeout ==
  ASSUME SafetyInv, TypeOK', CacheCoherent', NEW v \in Honest, NEW t \in Timeout,
         t.author = v, t.epoch = store[v].epoch,
         t.hqc >= store[v].one_chain_round,
         t.round >= store[v].last_voted_round,
         store'[v].epoch = store[v].epoch,
         store'[v].last_vote = store[v].last_vote,
         store'[v].one_chain_round = store[v].one_chain_round,
         store'[v].last_voted_round = t.round,
         \A u \in Honest : u # v => store'[u] = store[u],
         timeouts' \in {timeouts, timeouts \cup {t}}, UNCHANGED votes
  PROVE  SafetyInv'
<1> DEFINE old == store[v]
           new == store'[v]
<1>1. /\ votes \subseteq Vote /\ timeouts \subseteq Timeout /\ old \in SafetyDataType
  BY Zenon DEF SafetyInv, TypeOK
<1>2. /\ old.last_voted_round \in Int /\ old.one_chain_round \in Int /\ old.epoch \in Int
      /\ t.round \in Int /\ t.hqc \in Int
      /\ old.last_vote # None => old.last_vote \in Vote
  BY <1>1, SafetyDataFields, TimeoutType, Zenon
<1>3. ASSUME old.last_vote # None
      PROVE  /\ RoundOf(old.last_vote) <= new.last_voted_round
             /\ t.hqc >= ParentRoundOf(old.last_vote)
  <2>1. /\ RoundOf(old.last_vote) <= old.last_voted_round
        /\ ParentRoundOf(old.last_vote) <= old.one_chain_round
    BY <1>3, Zenon DEF SafetyInv, LastVoteInv
  <2>2. /\ RoundOf(old.last_vote) \in Int
        /\ ParentRoundOf(old.last_vote) \in Int
    BY <1>2, <1>3, VoteType, Zenon
  <2> QED BY <1>2, <2>1, <2>2
<1>4. LastVoteInv'
  <2> SUFFICES ASSUME NEW u \in Honest, store'[u].last_vote # None
               PROVE  /\ store'[u].last_vote.author = u
                      /\ EpochOf(store'[u].last_vote) = store'[u].epoch
                      /\ RoundOf(store'[u].last_vote) <= store'[u].last_voted_round
                      /\ ParentRoundOf(store'[u].last_vote)
                           <= store'[u].one_chain_round
    BY Zenon DEF LastVoteInv
  <2>1. CASE u = v
    BY <1>3, <2>1, Zenon DEF SafetyInv, LastVoteInv
  <2>2. CASE u # v
    BY <2>2, Zenon DEF SafetyInv, LastVoteInv
  <2> QED BY <2>1, <2>2, Zenon
<1>5. VotesInv'
  <2> SUFFICES ASSUME NEW y \in votes
               PROVE  /\ EpochOf(y) <= store'[y.author].epoch
                      /\ EpochOf(y) = store'[y.author].epoch
                           => Remembers(store'[y.author], y)
    BY Zenon DEF VotesInv, Remembers
  <2>1. y.author \in Honest
    BY <1>1, VoteType, Zenon
  <2>2. CASE y.author = v
    BY <2>2 DEF SafetyInv, VotesInv, Remembers
  <2>3. CASE y.author # v
    BY <2>1, <2>3, Zenon DEF SafetyInv, VotesInv
  <2> QED BY <2>2, <2>3, Zenon
<1>6. TimeoutsInv' /\ LastVoteLock'
  <2> SUFFICES ASSUME NEW s \in timeouts \cup {t}
               PROVE  /\ s.epoch <= store'[s.author].epoch
                      /\ s.epoch = store'[s.author].epoch
                           => s.round <= store'[s.author].last_voted_round
                      /\ store'[s.author].last_vote # None
                           /\ s.epoch = store'[s.author].epoch
                           /\ RoundOf(store'[s.author].last_vote) <= s.round
                         => s.hqc >= ParentRoundOf(store'[s.author].last_vote)
    BY Zenon DEF TimeoutsInv, LastVoteLock
  <2>1. s.author \in Honest /\ s.round \in Int
    BY <1>1, TimeoutType, Zenon
  <2>2. CASE s = t
    BY <1>2, <1>3, <2>2
  <2>3. CASE s \in timeouts /\ s.author = v
    BY <1>2, <2>1, <2>3 DEF SafetyInv, TimeoutsInv, LastVoteLock
  <2>4. CASE s \in timeouts /\ s.author # v
    BY <2>1, <2>4, Zenon DEF SafetyInv, TimeoutsInv, LastVoteLock
  <2> QED BY <2>2, <2>3, <2>4, Zenon
<1>7. VoteTimeoutLock'
  <2>1. ASSUME NEW y \in votes, y.author = v, EpochOf(y) = t.epoch
        PROVE  t.hqc >= ParentRoundOf(y)
    <3>1. ParentRoundOf(y) <= old.one_chain_round
      BY <2>1, Zenon DEF SafetyInv, VotesInv, Remembers
    <3>2. ParentRoundOf(y) \in Int
      BY <1>1, VoteType, Zenon
    <3> QED BY <1>2, <3>1, <3>2
  <2> QED BY <2>1, Zenon DEF SafetyInv, VoteTimeoutLock
<1>8. OneVotePerRound'
  BY Zenon DEF SafetyInv, OneVotePerRound
<1> QED BY <1>4, <1>5, <1>6, <1>7, <1>8, Zenon DEF SafetyInv

(* sign_timeout_with_qc keeps SafetyInv. *)
LEMMA SafetyInvTimeout ==
  ASSUME SafetyInv, TypeOK', NEW v \in Honest, NEW round \in TimeoutRounds,
         NEW qc \in Blocks, NEW io \in IO, SignTimeoutWithQC(v, round, qc, io)
  PROVE  SafetyInv'
<1> DEFINE sd == store[v]
           t == [author |-> v, epoch |-> BlockEpoch[qc], round |-> round,
                 hqc |-> BlockRound[qc]]
           new == UpdateLastVoteRound(sd, round)
<1>1. /\ TypeOK /\ CacheCoherent /\ sd \in SafetyDataType /\ SafetyData(v) = sd
      /\ UNCHANGED votes
  BY SafetyDataIsStore, Zenon DEF SafetyInv, TypeOK, SignTimeoutWithQC
<1>2. /\ BlockEpoch[qc] = sd.epoch /\ round >= sd.last_voted_round
      /\ BlockRound[qc] >= sd.one_chain_round
  BY <1>1, Zenon DEF SignTimeoutWithQC, SafeToTimeout
<1>3. t \in Timeout /\ t.author = v /\ t.epoch = sd.epoch /\ t.round = round
      /\ t.hqc = BlockRound[qc]
  BY <1>2, BlocksAssumption, ConstantsAssumption, Zenon DEF Timeout, Rounds
<1>4. /\ new.epoch = sd.epoch /\ new.last_vote = sd.last_vote
      /\ new.one_chain_round = sd.one_chain_round /\ new.last_voted_round = round
  BY <1>1, Zenon DEF UpdateLastVoteRound, SafetyDataType
<1>5. timeouts' = IF io = "ok" THEN timeouts \cup {t} ELSE timeouts
  BY Zenon DEF SignTimeoutWithQC
<1>6. \/ round > sd.last_voted_round /\ SetSafetyData(v, new, io)
      \/ ~(round > sd.last_voted_round) /\ ReadSafetyData(v) /\ UNCHANGED store
  BY <1>1, Zenon DEF SignTimeoutWithQC
<1> HIDE DEF t, new
<1>7. CASE ~(round > sd.last_voted_round) /\ ReadSafetyData(v) /\ UNCHANGED store
  <2>1. CacheCoherent'
    BY <1>1, <1>7, ReadCoherent, Zenon
  <2>2. sd.last_voted_round = round
    BY <1>1, <1>2, <1>7, SafetyDataFields, RoundType, ConstantsAssumption DEF Rounds
  <2> QED BY <1>1, <1>2, <1>3, <1>5, <1>7, <2>1, <2>2, SafetyInvNewTimeout, Zenon
<1>8. CASE SetSafetyData(v, new, io)
  <2>1. CacheCoherent'
    BY <1>1, <1>8, SetCoherent, Zenon
  <2>2. /\ store'[v] \in {sd, new} /\ (io = "ok" => store'[v] = new)
        /\ \A u \in Honest : u # v => store'[u] = store[u]
    BY <1>1, <1>8, SetEffect, Zenon
  <2>3. CASE store'[v] = new
    BY <1>1, <1>2, <1>3, <1>4, <1>5, <2>1, <2>2, <2>3, SafetyInvNewTimeout, Zenon
  <2>4. CASE store'[v] = sd /\ io # "ok"
    <3>1. store' = store
      BY <1>1, <2>2, <2>4 DEF TypeOK
    <3> QED BY <1>1, <1>5, <2>1, <2>4, <3>1, KeepInv, Zenon
  <2> QED BY <2>2, <2>3, <2>4, Zenon
<1> QED BY <1>6, <1>7, <1>8, Zenon

(* Every step keeps SafetyInv. *)
LEMMA SafetyInvNext ==
  ASSUME SafetyInv, [Next]_vars
  PROVE  SafetyInv'
<1>1. TypeOK'
  BY TypeOKNext, Zenon DEF SafetyInv
<1>2. CASE UNCHANGED vars
  <2>1. CacheCoherent'
    BY <1>2, Zenon DEF SafetyInv, CacheCoherent, vars
  <2> QED BY <1>1, <1>2, <2>1, KeepInv, Zenon DEF vars, SafetyInv
<1>3. ASSUME NEW v \in Honest,
             \/ Crash(v)
             \/ ConsensusState(v)
             \/ \E b \in Blocks : GenerateProposal(v, b)
             \/ \E b \in Blocks, result \in ExecResults : SignCommitVote(v, b, result)
      PROVE  SafetyInv'
  BY <1>1, <1>3, SafetyInvOther, Zenon
<1>4. ASSUME NEW v \in Honest, NEW e \in Epochs, NEW failed \in InitSteps, NEW io \in IO,
             Initialize(v, e, failed, io)
      PROVE  SafetyInv'
  BY <1>1, <1>4, SafetyInvInitialize, Zenon
<1>5. ASSUME NEW v \in Honest, NEW b \in Blocks, NEW io \in IO,
             ConstructAndSignVote(v, b, io)
      PROVE  SafetyInv'
  BY <1>1, <1>5, SafetyInvVote, Zenon
<1>6. ASSUME NEW v \in Honest, NEW qc \in Blocks, NEW round \in TimeoutRounds, NEW io \in IO,
             SignTimeoutWithQC(v, round, qc, io)
      PROVE  SafetyInv'
  BY <1>1, <1>6, SafetyInvTimeout, Zenon
<1> QED BY <1>2, <1>3, <1>4, <1>5, <1>6, Zenon DEF Next

(***************************************************************************)
(* SafetyInv holds throughout every run of the validators.                 *)
(***************************************************************************)
THEOREM SafetyInvariant == Spec => []SafetyInv
<1>1. Init => SafetyInv
  BY SafetyInvInit, Zenon
<1>2. SafetyInv /\ [Next]_vars => SafetyInv'
  BY SafetyInvNext, Zenon
<1> QED BY <1>1, <1>2, PTL DEF Spec

(***************************************************************************)
(* construct_and_sign_vote_two_chain never returns two different votes for *)
(* one round of an epoch, whatever crashes and failed writes intervene.    *)
(***************************************************************************)
THEOREM VotesOncePerRound == Spec => []OneVotePerRound
<1>1. SafetyInv => OneVotePerRound
  BY Zenon DEF SafetyInv
<1> QED BY <1>1, SafetyInvariant, PTL

(***************************************************************************)
(* sign_timeout_with_qc never understates the certificate of a block that  *)
(* the validator voted for in that round or an earlier one.                *)
(***************************************************************************)
THEOREM TimeoutsRespectVotes == Spec => []VoteTimeoutLock
<1>1. SafetyInv => VoteTimeoutLock
  BY Zenon DEF SafetyInv
<1> QED BY <1>1, SafetyInvariant, PTL

(***************************************************************************)
(* PersistentSafetyStorage never answers from memory what is not stored.   *)
(***************************************************************************)
THEOREM CacheIsCoherent == Spec => []CacheCoherent
<1>1. SafetyInv => CacheCoherent
  BY Zenon DEF SafetyInv
<1> QED BY <1>1, SafetyInvariant, PTL

(***************************************************************************)
(* What a step may do to the storage of a validator: only move it forward. *)
(***************************************************************************)

(* What a step may do to the storage of a validator u *)
StorageStep(u) ==
  /\ NotBefore(store[u], store'[u])
  /\ waypoint[u] <= waypoint'[u]
  /\ store'[u].epoch = store[u].epoch \/ store'[u].epoch <= waypoint'[u]

(* A step that leaves the storage of u alone *)
LEMMA StorageKept ==
  ASSUME TypeOK, NEW u \in Honest, store'[u] = store[u], waypoint'[u] = waypoint[u]
  PROVE  StorageStep(u)
<1>1. store[u] \in SafetyDataType /\ waypoint[u] \in Int
  BY EpochType, Zenon DEF TypeOK
<1>2. /\ store[u].epoch \in Int /\ store[u].last_voted_round \in Int
      /\ store[u].preferred_round \in Int /\ store[u].one_chain_round \in Int
  BY <1>1, SafetyDataFields, Zenon
<1> QED BY <1>1, <1>2 DEF StorageStep, NotBefore

(* initialize moves storage forward, wherever it fails. *)
LEMMA StorageInitialize ==
  ASSUME SafetyInv, NEW v \in Honest, NEW e \in Epochs, NEW failed \in InitSteps,
         NEW io \in IO, Initialize(v, e, failed, io), NEW u \in Honest
  PROVE  StorageStep(u)
<1>1. TypeOK /\ CacheCoherent /\ SafetyData(v) = store[v]
  BY SafetyDataIsStore, Zenon DEF SafetyInv
<1>2. /\ store[v] \in SafetyDataType /\ waypoint[v] \in Int /\ e \in Int
      /\ store[v].epoch \in Int
  BY <1>1, EpochType, SafetyDataFields, Zenon DEF TypeOK
<1>3. /\ waypoint' = [waypoint EXCEPT ![v] =
            IF e > waypoint[v] /\ ~(failed = "waypoint" /\ io = "lost") THEN e ELSE @]
      /\ e >= waypoint[v]
  BY Zenon DEF Initialize, SetWaypoint
<1>4. /\ waypoint[v] <= waypoint'[v]
      /\ failed # "waypoint" => waypoint'[v] = e
      /\ u # v => waypoint'[u] = waypoint[u]
  BY <1>1, <1>2, <1>3 DEF TypeOK
<1>5. \/ UNCHANGED store
      \/ failed # "waypoint" /\ store[v].epoch < e /\ SetSafetyData(v, NewSafetyData(e), io)
  BY <1>1, Zenon DEF Initialize
<1>6. /\ \/ store'[v] = store[v]
         \/ failed # "waypoint" /\ store[v].epoch < e /\ store'[v] = NewSafetyData(e)
      /\ u # v => store'[u] = store[u]
  BY <1>1, <1>5, SetEffect, Zenon
<1>7. NewSafetyData(e).epoch = e
  BY Zenon DEF NewSafetyData
<1>8. CASE u # v
  BY <1>1, <1>4, <1>6, <1>8, StorageKept, Zenon
<1>9. CASE u = v /\ store'[v] = store[v]
  <2>1. /\ store[v].epoch \in Int /\ store[v].last_voted_round \in Int
        /\ store[v].preferred_round \in Int /\ store[v].one_chain_round \in Int
    BY <1>2, SafetyDataFields, Zenon
  <2>2. NotBefore(store[u], store'[u])
    BY <1>9, <2>1 DEF NotBefore
  <2> QED BY <1>4, <1>9, <2>2, Zenon DEF StorageStep
<1>10. CASE u = v /\ failed # "waypoint" /\ store[v].epoch < e /\ store'[v] = NewSafetyData(e)
  <2>1. store'[u].epoch = e /\ store[u].epoch < e
    BY <1>7, <1>10, Zenon
  <2>2. NotBefore(store[u], store'[u])
    BY <2>1, Zenon DEF NotBefore
  <2>3. waypoint[u] <= waypoint'[u] /\ store'[u].epoch <= waypoint'[u]
    BY <1>2, <1>4, <1>10, <2>1
  <2> QED BY <2>2, <2>3, Zenon DEF StorageStep
<1> QED BY <1>6, <1>8, <1>9, <1>10, Zenon

(* construct_and_sign_vote_two_chain moves storage forward. *)
LEMMA StorageVote ==
  ASSUME SafetyInv, NEW v \in Honest, NEW b \in Blocks, NEW io \in IO,
         ConstructAndSignVote(v, b, io), NEW u \in Honest
  PROVE  StorageStep(u)
<1> DEFINE sd == store[v]
           vote == [author |-> v, block |-> b, commit |-> ConstructLedgerInfo2Chain(b)]
           new == [ObserveQC(UpdateLastVoteRound(sd, BlockRound[b]), BlockParent[b])
                    EXCEPT !.last_vote = vote]
<1>1. TypeOK /\ CacheCoherent /\ sd \in SafetyDataType /\ SafetyData(v) = sd
  BY SafetyDataIsStore, Zenon DEF SafetyInv, TypeOK
<1>2. /\ UNCHANGED waypoint
      /\ \/ UNCHANGED store
         \/ BlockRound[b] > sd.last_voted_round /\ SetSafetyData(v, new, io)
  BY <1>1, Zenon DEF ConstructAndSignVote
<1>3. /\ BlockRound[b] \in Int /\ BlockRound[BlockParent[b]] \in Int
      /\ BlockRound[BlockParent[BlockParent[b]]] \in Int
      /\ sd.one_chain_round \in Int /\ sd.preferred_round \in Int
      /\ sd.last_voted_round \in Int /\ sd.epoch \in Int
  BY <1>1, BlockType, SafetyDataFields, Zenon
<1>4. /\ new.epoch = sd.epoch /\ new.last_vote = vote
      /\ new.last_voted_round = BlockRound[b]
      /\ new.one_chain_round = Larger(sd.one_chain_round, BlockRound[BlockParent[b]])
      /\ new.preferred_round
           = Larger(sd.preferred_round, BlockRound[BlockParent[BlockParent[b]]])
  BY <1>1, Zenon DEF ObserveQC, UpdateLastVoteRound, SafetyDataType
<1>5. RoundOf(vote) = BlockRound[b] /\ vote # None
  <2>1. vote \in Vote
    BY BlocksAssumption, Zenon DEF Vote, ConstructLedgerInfo2Chain
  <2> QED BY <2>1, NoneAssumption, Zenon DEF RoundOf
<1> HIDE DEF vote, new
<1>6. ASSUME BlockRound[b] > sd.last_voted_round, sd.last_vote # None
      PROVE  RoundOf(sd.last_vote) < BlockRound[b]
  <2>1. RoundOf(sd.last_vote) <= sd.last_voted_round
    BY <1>6, Zenon DEF SafetyInv, LastVoteInv
  <2>2. RoundOf(sd.last_vote) \in Int
    BY <1>1, <1>6, SafetyDataFields, VoteType, Zenon
  <2> QED BY <1>3, <1>6, <2>1, <2>2
<1>7. CASE UNCHANGED store
  BY <1>1, <1>2, <1>7, StorageKept, Zenon
<1>8. CASE BlockRound[b] > sd.last_voted_round /\ SetSafetyData(v, new, io)
  <2>1. /\ store'[v] \in {sd, new}
        /\ u # v => store'[u] = store[u]
    BY <1>1, <1>8, SetEffect, Zenon
  <2>2. CASE u = v /\ store'[v] = new
    <3>1. /\ sd.last_voted_round <= new.last_voted_round
          /\ sd.one_chain_round <= new.one_chain_round
          /\ sd.preferred_round <= new.preferred_round
      BY <1>3, <1>4, <1>8 DEF Larger
    <3>2. \/ sd.last_vote = None
          \/ new.last_vote # None /\ RoundOf(sd.last_vote) < RoundOf(new.last_vote)
      BY <1>4, <1>5, <1>6, <1>8, Zenon
    <3>3. NotBefore(sd, new)
      BY <1>4, <3>1, <3>2, Zenon DEF NotBefore
    <3>4. waypoint[u] \in Int
      BY <1>1, EpochType, Zenon DEF TypeOK
    <3> QED BY <1>2, <1>4, <2>2, <3>3, <3>4 DEF StorageStep
  <2> QED BY <1>1, <1>2, <2>1, <2>2, StorageKept, Zenon
<1> QED BY <1>2, <1>7, <1>8, Zenon

(* sign_timeout_with_qc moves storage forward. *)
LEMMA StorageTimeout ==
  ASSUME SafetyInv, NEW v \in Honest, NEW qc \in Blocks, NEW round \in TimeoutRounds,
         NEW io \in IO, SignTimeoutWithQC(v, round, qc, io), NEW u \in Honest
  PROVE  StorageStep(u)
<1> DEFINE sd == store[v]
           new == UpdateLastVoteRound(sd, round)
<1>1. TypeOK /\ CacheCoherent /\ sd \in SafetyDataType /\ SafetyData(v) = sd
  BY SafetyDataIsStore, Zenon DEF SafetyInv, TypeOK
<1>2. /\ UNCHANGED waypoint
      /\ \/ UNCHANGED store
         \/ round > sd.last_voted_round /\ SetSafetyData(v, new, io)
  BY <1>1, Zenon DEF SignTimeoutWithQC
<1>3. /\ round \in Int /\ waypoint[u] \in Int
      /\ sd.one_chain_round \in Int /\ sd.preferred_round \in Int
      /\ sd.last_voted_round \in Int /\ sd.epoch \in Int
  <2>1. round \in Int
    BY ConstantsAssumption
  <2>2. waypoint[u] \in Int
    BY <1>1, EpochType, Zenon DEF TypeOK
  <2> QED BY <1>1, <2>1, <2>2, SafetyDataFields, Zenon
<1>4. /\ new.epoch = sd.epoch /\ new.last_vote = sd.last_vote
      /\ new.last_voted_round = round
      /\ new.one_chain_round = sd.one_chain_round /\ new.preferred_round = sd.preferred_round
  BY <1>1, Zenon DEF UpdateLastVoteRound, SafetyDataType
<1> HIDE DEF new
<1>5. CASE UNCHANGED store
  BY <1>1, <1>2, <1>5, StorageKept, Zenon
<1>6. CASE round > sd.last_voted_round /\ SetSafetyData(v, new, io)
  <2>1. /\ store'[v] \in {sd, new}
        /\ u # v => store'[u] = store[u]
    BY <1>1, <1>6, SetEffect, Zenon
  <2>2. CASE u = v /\ store'[v] = new
    <3>1. NotBefore(sd, new)
      BY <1>3, <1>4, <1>6 DEF NotBefore
    <3> QED BY <1>2, <1>3, <1>4, <2>2, <3>1 DEF StorageStep
  <2> QED BY <1>1, <1>2, <2>1, <2>2, StorageKept, Zenon
<1> QED BY <1>2, <1>5, <1>6, Zenon

(* Every step moves the storage of every validator forward. *)
LEMMA StorageNext ==
  ASSUME SafetyInv, [Next]_vars, NEW u \in Honest
  PROVE  StorageStep(u)
<1>1. TypeOK
  BY Zenon DEF SafetyInv
<1>2. CASE UNCHANGED durable
  BY <1>1, <1>2, StorageKept, Zenon DEF durable
<1>3. ASSUME NEW v \in Honest,
             \/ Crash(v)
             \/ ConsensusState(v)
             \/ \E b \in Blocks : GenerateProposal(v, b)
             \/ \E b \in Blocks, result \in ExecResults : SignCommitVote(v, b, result)
      PROVE  UNCHANGED durable
  BY <1>3, Zenon DEF Crash, ConsensusState, GenerateProposal, SignCommitVote
<1>4. UNCHANGED vars => UNCHANGED durable
  BY Zenon DEF vars, durable
<1> QED BY <1>2, <1>3, <1>4, StorageInitialize, StorageVote, StorageTimeout, Zenon DEF Next

(***************************************************************************)
(* The stored waypoint never falls behind the stored epoch: every way of   *)
(* failing in the middle of initialize() leaves the waypoint ahead.        *)
(***************************************************************************)
THEOREM WaypointAhead == Spec => []WaypointCoversEpoch
<1>1. Init => WaypointCoversEpoch
  BY DEF Init, WaypointCoversEpoch, NewSafetyData
<1>2. SafetyInv /\ WaypointCoversEpoch /\ [Next]_vars => WaypointCoversEpoch'
  <2> SUFFICES ASSUME SafetyInv, WaypointCoversEpoch, [Next]_vars, NEW u \in Honest
               PROVE  store'[u].epoch <= waypoint'[u]
    BY Zenon DEF WaypointCoversEpoch
  <2>1. /\ waypoint[u] <= waypoint'[u]
        /\ store'[u].epoch = store[u].epoch \/ store'[u].epoch <= waypoint'[u]
    BY StorageNext, Zenon DEF StorageStep
  <2>2. store[u].epoch <= waypoint[u]
    BY Zenon DEF WaypointCoversEpoch
  <2>3. store[u].epoch \in Int /\ waypoint[u] \in Int /\ waypoint'[u] \in Int
    BY TypeOKNext, EpochType, SafetyDataFields, Zenon DEF SafetyInv, TypeOK
  <2> QED BY <2>1, <2>2, <2>3
<1> QED BY <1>1, <1>2, SafetyInvariant, PTL DEF Spec

(***************************************************************************)
(* No step of any handler, crash or failed write takes back an epoch, a    *)
(* round, a vote or a waypoint that storage held.                          *)
(***************************************************************************)
THEOREM StorageNeverRegresses == Spec => StorageMonotone
<1>1. SafetyInv /\ [Next]_vars =>
        [\A v \in Honest : NotBefore(store[v], store'[v]) /\ waypoint[v] <= waypoint'[v]]_vars
  BY StorageNext, Zenon DEF StorageStep
<1> QED BY <1>1, SafetyInvariant, PTL DEF Spec, StorageMonotone

-----------------------------------------------------------------------------
(* The two-chain commit rule. *)

(* Every non-empty set of naturals has a smallest element. *)
LEMMA SmallestNat ==
  ASSUME NEW T \in SUBSET Nat, T # {}
  PROVE  \E n \in T : \A m \in T : n <= m
<1> DEFINE R == OpToRel(<, Nat)
<1>1. PICK n \in T : \A m \in T : ~ (<<m, n>> \in R)
  BY NatLessThanWellFounded, WFMin, Zenon
<1>a. \A m, k \in Nat : m < k => <<m, k>> \in R
  BY Zenon DEF OpToRel
<1> HIDE DEF R
<1>2. ASSUME NEW m \in T, ~(n <= m) PROVE FALSE
  <2>1. m \in Nat /\ n \in Nat
    BY Zenon
  <2>2. m < n
    BY <1>2, <2>1, SMT
  <2>3. <<m, n>> \in R
    BY <1>a, <2>1, <2>2, Zenon
  <2> QED BY <1>1, <2>3, Zenon
<1> QED BY <1>2, Zenon

(* A block is its own ancestor, and has the ancestors of its parent. *)
LEMMA AncestorsStep ==
  ASSUME NEW b \in Blocks
  PROVE  /\ b \in Ancestors[b]
         /\ \A a \in Ancestors[BlockParent[b]] : a \in Ancestors[b]
<1>1. BlockParent[b] \in Blocks
  BY BlockType, Zenon
<1> QED BY <1>1, Zenon DEF Ancestors

(* More signers never lose a quorum. *)
LEMMA CheckVotingPowerMonotone ==
  ASSUME NEW e \in Epochs, NEW P, NEW Q, P \subseteq Q, CheckVotingPower(e, P)
  PROVE  CheckVotingPower(e, Q)
<1>1. /\ P \cap Members[e] \in Quorum[e] /\ P \cap Members[e] \subseteq Q \cap Members[e]
      /\ Q \cap Members[e] \in SUBSET Members[e]
  BY Zenon DEF CheckVotingPower
<1>2. Q \cap Members[e] \in Quorum[e]
  BY <1>1, ConstantsAssumption
<1> QED BY <1>2, Zenon DEF CheckVotingPower

(* A certificate, once it exists, exists for ever. *)
LEMMA QuorumCertMonotone ==
  ASSUME NEW e \in Epochs, NEW b, NEW c, votes \subseteq votes', QuorumCert(e, b, c)
  PROVE  QuorumCert(e, b, c)'
<1> DEFINE S == Byzantine \cup {v \in Honest : [author |-> v, block |-> b, commit |-> c] \in votes}
           T == Byzantine \cup {v \in Honest : [author |-> v, block |-> b, commit |-> c] \in votes'}
<1>1. S \subseteq T
  BY Zenon
<1>2. CheckVotingPower(e, S)
  BY Zenon DEF QuorumCert
<1>3. CheckVotingPower(e, T)
  <2> HIDE DEF S, T
  <2> QED BY <1>1, <1>2, CheckVotingPowerMonotone, Zenon
<1> QED BY <1>3, Zenon DEF QuorumCert, CheckVotingPower

(* A quorum certificate that verifies does so for ever. *)
LEMMA VerifyQCMonotone ==
  ASSUME NEW e \in Epochs, NEW b, votes \subseteq votes', VerifyQC(e, b)
  PROVE  VerifyQC(e, b)'
BY QuorumCertMonotone, Zenon DEF VerifyQC

(* A timeout certificate that verifies does so for ever. *)
LEMMA VerifyTCMonotone ==
  ASSUME NEW e \in Epochs, NEW tc, votes \subseteq votes', timeouts \subseteq timeouts',
         VerifyTC(e, tc)
  PROVE  VerifyTC(e, tc)'
<1> DEFINE by(v, h) == [author |-> v, epoch |-> tc.epoch, round |-> tc.round, hqc |-> h]
           S == Byzantine \cup {v \in Honest : \E h \in 0..tc.hqc : by(v, h) \in timeouts}
           T == Byzantine \cup {v \in Honest : \E h \in 0..tc.hqc : by(v, h) \in timeouts'}
<1>1. /\ tc.hqc < tc.round /\ CheckVotingPower(e, S)
      /\ \E v \in S \cap Members[e] : v \in Byzantine \/ by(v, tc.hqc) \in timeouts
      /\ \E b \in Blocks : BlockRound[b] = tc.hqc /\ VerifyQC(e, b)
  BY Zenon DEF VerifyTC
<1>2. S \subseteq T
  BY Zenon
<1>3. \E v \in T \cap Members[e] : v \in Byzantine \/ by(v, tc.hqc) \in timeouts'
  BY <1>1, <1>2, Zenon
<1>4. CheckVotingPower(e, T)
  <2> HIDE DEF S, T
  <2> QED BY <1>1, <1>2, CheckVotingPowerMonotone, Zenon
<1>5. \E b \in Blocks : BlockRound[b] = tc.hqc /\ VerifyQC(e, b)'
  BY <1>1, VerifyQCMonotone, Zenon
<1> QED BY <1>1, <1>3, <1>4, <1>5, Zenon DEF VerifyTC, CheckVotingPower

(* A justified vote stays justified. *)
LEMMA JustifiedMonotone ==
  ASSUME NEW x \in Vote, votes \subseteq votes', timeouts \subseteq timeouts', Justified(x)
  PROVE  Justified(x)'
<1>1. /\ x.block \in Blocks /\ BlockParent[x.block] \in Blocks
      /\ BlockEpoch[x.block] \in Epochs /\ BlockEpoch[BlockParent[x.block]] \in Epochs
  BY VoteType, BlockType, Zenon
<1>2. Certified(BlockParent[x.block])'
  BY <1>1, VerifyQCMonotone, Zenon DEF Justified, Certified
<1>3. ASSUME NEW tc \in TwoChainTimeoutCertificate, tc.epoch = BlockEpoch[x.block],
             VerifyTC(tc.epoch, tc)
      PROVE  VerifyTC(tc.epoch, tc)'
  BY <1>1, <1>3, VerifyTCMonotone, Zenon
<1> QED BY <1>2, <1>3, Zenon DEF Justified, VerifyWellFormed, ConstructLedgerInfo2Chain

(* The vote that construct_and_sign_vote_two_chain makes is justified. *)
LEMMA NewVoteJustified ==
  ASSUME TypeOK, NEW v \in Honest, NEW b \in Blocks, VerifyProposal(v, b),
         Certified(BlockParent[b]),
         {tc \in OptionalTC : SafeToVote(b, tc) /\ AcceptTC(v, SafetyData(v).epoch, tc)} # {}
  PROVE  Justified([author |-> v, block |-> b, commit |-> ConstructLedgerInfo2Chain(b)])
<1> DEFINE x == [author |-> v, block |-> b, commit |-> ConstructLedgerInfo2Chain(b)]
<1>1. x.block = b /\ x.commit = ConstructLedgerInfo2Chain(b)
  BY Zenon
<1>2. VerifyWellFormed(b) /\ BlockEpoch[b] = SafetyData(v).epoch
  BY Zenon DEF VerifyProposal
<1>3. BlockRound[b] \in Int /\ BlockRound[BlockParent[b]] \in Int /\ BlockRound[BlockParent[b]] >= 0
  BY BlockType, Zenon
<1>4. PICK tc \in OptionalTC : SafeToVote(b, tc) /\ AcceptTC(v, SafetyData(v).epoch, tc)
  BY Zenon
<1> HIDE DEF x
<1>5. CASE BlockRound[b] = BlockRound[BlockParent[b]] + 1
  BY <1>1, <1>2, <1>5, Zenon DEF Justified
<1>6. CASE BlockRound[b] # BlockRound[BlockParent[b]] + 1 /\ tc = None
  BY <1>2, <1>3, <1>4, <1>6 DEF SafeToVote, TCRound, TCHighestHQC, VerifyWellFormed
<1>7. CASE BlockRound[b] # BlockRound[BlockParent[b]] + 1 /\ tc # None
  <2>1. /\ BlockRound[b] = tc.round + 1 /\ BlockRound[BlockParent[b]] >= tc.hqc
        /\ tc \in TwoChainTimeoutCertificate
    BY <1>4, <1>7, Zenon DEF SafeToVote, TCRound, TCHighestHQC, OptionalTC
  <2>2. tc.epoch = BlockEpoch[b] /\ VerifyTC(tc.epoch, tc)
    BY <1>2, <1>4, <1>7, Zenon DEF AcceptTC
  <2> QED BY <1>1, <1>2, <2>1, <2>2, Zenon DEF Justified
<1> QED BY <1>5, <1>6, <1>7, Zenon DEF x

(* Nothing signed is ever taken back. *)
LEMMA SignedGrows ==
  ASSUME [Next]_vars
  PROVE  votes \subseteq votes' /\ timeouts \subseteq timeouts'
<1>1. CASE UNCHANGED vars
  BY <1>1, Zenon DEF vars
<1>2. ASSUME NEW v \in Honest, Crash(v) PROVE UNCHANGED <<votes, timeouts>>
  BY <1>2, Zenon DEF Crash, signed
<1>3. ASSUME NEW v \in Honest, ConsensusState(v) PROVE UNCHANGED <<votes, timeouts>>
  BY <1>3, Zenon DEF ConsensusState, signed
<1>4. ASSUME NEW v \in Honest, NEW e \in Epochs, NEW failed \in InitSteps, NEW io \in IO,
             Initialize(v, e, failed, io)
      PROVE  UNCHANGED <<votes, timeouts>>
  BY <1>4, Zenon DEF Initialize, signed
<1>5. ASSUME NEW v \in Honest, NEW b \in Blocks, NEW io \in IO, ConstructAndSignVote(v, b, io)
      PROVE  votes \subseteq votes' /\ UNCHANGED timeouts
  <2> DEFINE y == SafetyData(v).last_vote
             z == [author |-> v, block |-> b, commit |-> ConstructLedgerInfo2Chain(b)]
  <2>1. votes' \in {votes \cup {y}, votes \cup {z}, votes} /\ UNCHANGED timeouts
    BY <1>5, Zenon DEF ConstructAndSignVote
  <2> HIDE DEF y, z
  <2> QED BY <2>1, Zenon
<1>6. ASSUME NEW v \in Honest, NEW qc \in Blocks, NEW round \in TimeoutRounds, NEW io \in IO,
             SignTimeoutWithQC(v, round, qc, io)
      PROVE  timeouts \subseteq timeouts' /\ UNCHANGED votes
  <2> DEFINE t == [author |-> v, epoch |-> BlockEpoch[qc], round |-> round, hqc |-> BlockRound[qc]]
  <2>1. timeouts' = (IF io = "ok" THEN timeouts \cup {t} ELSE timeouts) /\ UNCHANGED votes
    BY <1>6, Zenon DEF SignTimeoutWithQC
  <2> HIDE DEF t
  <2> QED BY <2>1, Zenon
<1>7. ASSUME NEW v \in Honest, NEW b \in Blocks, GenerateProposal(v, b)
      PROVE  UNCHANGED <<votes, timeouts>>
  BY <1>7, Zenon DEF GenerateProposal
<1>8. ASSUME NEW v \in Honest, NEW b \in Blocks, NEW result \in ExecResults,
             SignCommitVote(v, b, result)
      PROVE  UNCHANGED <<votes, timeouts>>
  BY <1>8, Zenon DEF SignCommitVote
<1> QED BY <1>1, <1>2, <1>3, <1>4, <1>5, <1>6, <1>7, <1>8, Zenon DEF Next

(***************************************************************************)
(* What a step adds to votes or puts into storage is justified by what was *)
(* signed before the step.                                                 *)
(***************************************************************************)
LEMMA VoteStepJustified ==
  ASSUME SafetyInv, JustifiedInv, NEW v \in Honest, NEW b \in Blocks, NEW io \in IO,
         ConstructAndSignVote(v, b, io)
  PROVE  /\ \A x \in votes' : Justified(x)
         /\ \A u \in Honest : store'[u].last_vote # None => Justified(store'[u].last_vote)
<1> DEFINE sd == store[v]
           vote == [author |-> v, block |-> b, commit |-> ConstructLedgerInfo2Chain(b)]
           new == [ObserveQC(UpdateLastVoteRound(sd, BlockRound[b]), BlockParent[b])
                    EXCEPT !.last_vote = vote]
<1>1. TypeOK /\ CacheCoherent /\ sd \in SafetyDataType /\ SafetyData(v) = sd
  BY SafetyDataIsStore, Zenon DEF SafetyInv, TypeOK
<1>2. CASE sd.last_vote # None /\ votes' = votes \cup {sd.last_vote} /\ UNCHANGED store
  BY <1>2, Zenon DEF JustifiedInv
<1>3. CASE /\ {tc \in OptionalTC : SafeToVote(b, tc) /\ AcceptTC(v, sd.epoch, tc)} # {}
           /\ SetSafetyData(v, new, io)
           /\ votes' = IF io = "ok" THEN votes \cup {vote} ELSE votes
  <2>1. VerifyProposal(v, b) /\ Certified(BlockParent[b])
    BY Zenon DEF ConstructAndSignVote
  <2>2. Justified(vote)
    BY <1>1, <1>3, <2>1, NewVoteJustified, Zenon
  <2>3. new.last_vote = vote
    BY <1>1, Zenon DEF ObserveQC, UpdateLastVoteRound, SafetyDataType
  <2>4. /\ store'[v] \in {sd, new}
        /\ \A u \in Honest : u # v => store'[u] = store[u]
    BY <1>1, <1>3, SetEffect, Zenon
  <2> HIDE DEF vote, new
  <2> QED BY <1>3, <2>2, <2>3, <2>4, Zenon DEF JustifiedInv
<1> QED BY <1>1, <1>2, <1>3, Zenon DEF ConstructAndSignVote

(* The other handlers store and return no new vote. *)
LEMMA OtherStepJustified ==
  ASSUME SafetyInv, JustifiedInv, [Next]_vars,
         ~ \E v \in Honest, b \in Blocks, io \in IO : ConstructAndSignVote(v, b, io)
  PROVE  /\ \A x \in votes' : Justified(x)
         /\ \A u \in Honest : store'[u].last_vote # None => Justified(store'[u].last_vote)
<1>1. TypeOK /\ CacheCoherent
  BY Zenon DEF SafetyInv
<1>2. CASE UNCHANGED <<store, votes>>
  BY <1>2, Zenon DEF JustifiedInv
<1>3. ASSUME NEW v \in Honest, NEW e \in Epochs, NEW failed \in InitSteps, NEW io \in IO,
             Initialize(v, e, failed, io)
      PROVE  /\ UNCHANGED votes
             /\ \A u \in Honest : store'[u].last_vote \in {None, store[u].last_vote}
  <2>1. UNCHANGED store \/ SetSafetyData(v, NewSafetyData(e), io)
    BY <1>3, Zenon DEF Initialize
  <2>2. UNCHANGED votes
    BY <1>3, Zenon DEF Initialize, signed
  <2>3. CASE SetSafetyData(v, NewSafetyData(e), io)
    <3>1. /\ store'[v] \in {store[v], NewSafetyData(e)}
          /\ \A u \in Honest : u # v => store'[u] = store[u]
      BY <1>1, <2>3, SetEffect, Zenon
    <3>2. NewSafetyData(e).last_vote = None
      BY Zenon DEF NewSafetyData
    <3> QED BY <2>2, <3>1, <3>2, Zenon
  <2> QED BY <2>1, <2>2, <2>3, Zenon
<1>4. ASSUME NEW v \in Honest, NEW qc \in Blocks, NEW round \in TimeoutRounds, NEW io \in IO,
             SignTimeoutWithQC(v, round, qc, io)
      PROVE  /\ UNCHANGED votes
             /\ \A u \in Honest : store'[u].last_vote = store[u].last_vote
  <2> DEFINE new == UpdateLastVoteRound(store[v], round)
  <2>1. SafetyData(v) = store[v] /\ store[v] \in SafetyDataType
    BY <1>1, SafetyDataIsStore, Zenon DEF TypeOK
  <2>2. /\ UNCHANGED store \/ SetSafetyData(v, new, io)
        /\ UNCHANGED votes
    BY <1>4, <2>1, Zenon DEF SignTimeoutWithQC
  <2>3. new.last_vote = store[v].last_vote
    BY <2>1, Zenon DEF UpdateLastVoteRound, SafetyDataType
  <2> HIDE DEF new
  <2>4. CASE SetSafetyData(v, new, io)
    <3>1. /\ store'[v] \in {store[v], new}
          /\ \A u \in Honest : u # v => store'[u] = store[u]
      BY <1>1, <2>4, SetEffect, Zenon
    <3> QED BY <2>2, <2>3, <3>1, Zenon
  <2> QED BY <2>2, <2>4, Zenon
<1>5. ASSUME NEW v \in Honest,
             \/ Crash(v)
             \/ ConsensusState(v)
             \/ \E b \in Blocks : GenerateProposal(v, b)
             \/ \E b \in Blocks, result \in ExecResults : SignCommitVote(v, b, result)
      PROVE  UNCHANGED <<store, votes>>
  BY <1>5, Zenon DEF Crash, ConsensusState, GenerateProposal, SignCommitVote, durable, signed
<1>6. \/ UNCHANGED <<store, votes>>
      \/ UNCHANGED votes /\ \A u \in Honest : store'[u].last_vote \in {None, store[u].last_vote}
  BY <1>3, <1>4, <1>5, Zenon DEF Next, vars
<1> QED BY <1>2, <1>6, Zenon DEF JustifiedInv

(* Every step keeps JustifiedInv. *)
LEMMA JustifiedNext ==
  ASSUME SafetyInv, JustifiedInv, [Next]_vars
  PROVE  JustifiedInv'
<1>1. votes \subseteq votes' /\ timeouts \subseteq timeouts'
  BY SignedGrows, Zenon
<1>2. SafetyInv'
  BY SafetyInvNext, Zenon
<1>3. /\ \A x \in votes' : Justified(x)
      /\ \A u \in Honest : store'[u].last_vote # None => Justified(store'[u].last_vote)
  BY VoteStepJustified, OtherStepJustified, Zenon
<1>4. /\ votes' \subseteq Vote
      /\ \A u \in Honest : store'[u].last_vote # None => store'[u].last_vote \in Vote
  BY <1>2, SafetyDataFields, Zenon DEF SafetyInv, TypeOK
<1>5. \A x \in Vote : Justified(x) => Justified(x)'
  BY <1>1, JustifiedMonotone, Zenon
<1> QED BY <1>3, <1>4, <1>5, Zenon DEF JustifiedInv

(***************************************************************************)
(* JustifiedInv holds throughout every run of the validators.              *)
(***************************************************************************)
THEOREM VotesJustified == Spec => []JustifiedInv
<1>1. Init => JustifiedInv
  BY DEF Init, JustifiedInv, NewSafetyData
<1>2. SafetyInv /\ JustifiedInv /\ [Next]_vars => JustifiedInv'
  BY JustifiedNext, Zenon
<1> QED BY <1>1, <1>2, SafetyInvariant, PTL DEF Spec

(* Two quorums of an epoch have an honest signer in common. *)
LEMMA HonestInBoth ==
  ASSUME NEW e \in Epochs, NEW P \in SUBSET Honest, NEW Q \in SUBSET Honest,
         CheckVotingPower(e, Byzantine \cup P), CheckVotingPower(e, Byzantine \cup Q)
  PROVE  \E w \in Honest : w \in P /\ w \in Q
<1>1. ((Byzantine \cup P) \cap Members[e]) \cap ((Byzantine \cup Q) \cap Members[e]) \cap Honest # {}
  BY QuorumAssumption, Zenon DEF CheckVotingPower
<1> QED BY <1>1, Zenon DEF Honest

(* Two certificates of an epoch, and a certificate and a timeout certificate *)
LEMMA VoterInBoth ==
  ASSUME NEW e \in Epochs, NEW b, NEW k, NEW c, NEW l, QuorumCert(e, b, k), QuorumCert(e, c, l)
  PROVE  \E w \in Honest : /\ [author |-> w, block |-> b, commit |-> k] \in votes
                           /\ [author |-> w, block |-> c, commit |-> l] \in votes
<1> DEFINE P == {v \in Honest : [author |-> v, block |-> b, commit |-> k] \in votes}
           Q == {v \in Honest : [author |-> v, block |-> c, commit |-> l] \in votes}
<1>1. CheckVotingPower(e, Byzantine \cup P) /\ CheckVotingPower(e, Byzantine \cup Q)
  BY Zenon DEF QuorumCert
<1>2. P \in SUBSET Honest /\ Q \in SUBSET Honest
  BY Zenon
<1>3. PICK w \in Honest : w \in P /\ w \in Q
  <2> HIDE DEF P, Q
  <2> QED BY <1>1, <1>2, HonestInBoth, Zenon
<1> QED BY <1>3, Zenon

(* An honest voter for b also signed the timeout certificate. *)
LEMMA VoterTimedOut ==
  ASSUME NEW e \in Epochs, NEW b, NEW k, NEW tc, QuorumCert(e, b, k), VerifyTC(e, tc)
  PROVE  \E w \in Honest, h \in 0..tc.hqc :
           /\ [author |-> w, block |-> b, commit |-> k] \in votes
           /\ [author |-> w, epoch |-> tc.epoch, round |-> tc.round, hqc |-> h] \in timeouts
<1> DEFINE by(v, h) == [author |-> v, epoch |-> tc.epoch, round |-> tc.round, hqc |-> h]
           P == {v \in Honest : [author |-> v, block |-> b, commit |-> k] \in votes}
           Q == {v \in Honest : \E h \in 0..tc.hqc : by(v, h) \in timeouts}
<1>1. CheckVotingPower(e, Byzantine \cup P) /\ CheckVotingPower(e, Byzantine \cup Q)
  BY Zenon DEF QuorumCert, VerifyTC
<1>2. P \in SUBSET Honest /\ Q \in SUBSET Honest
  BY Zenon
<1>3. PICK w \in Honest : w \in P /\ w \in Q
  <2> HIDE DEF P, Q
  <2> QED BY <1>1, <1>2, HonestInBoth, Zenon
<1> QED BY <1>3, Zenon

(* A certified block above genesis has an honest vote in its epoch. *)
LEMMA CertifiedHasVote ==
  ASSUME NEW c \in Blocks, Certified(c), BlockRound[c] # 0
  PROVE  \E k \in Blocks \cup {None} : QuorumCert(BlockEpoch[c], c, k)
BY Zenon DEF Certified, VerifyQC

(* The child whose certificate commits b is the next round on top of b. *)
LEMMA CommitChild ==
  ASSUME JustifiedInv, TypeOK, NEW e \in Epochs, NEW b \in Blocks, NEW child \in Blocks,
         QuorumCert(e, child, b)
  PROVE  /\ BlockParent[child] = b /\ BlockRound[child] = BlockRound[b] + 1
         /\ BlockEpoch[child] = BlockEpoch[b] /\ Certified(b)
<1>1. PICK w \in Honest : [author |-> w, block |-> child, commit |-> b] \in votes
  BY VoterInBoth, Zenon
<1> DEFINE x == [author |-> w, block |-> child, commit |-> b]
<1>2. Justified(x) /\ x.block = child /\ x.commit = b
  BY <1>1, Zenon DEF JustifiedInv
<1> HIDE DEF x
<1>3. /\ VerifyWellFormed(child) /\ b = ConstructLedgerInfo2Chain(child)
      /\ Certified(BlockParent[child])
  BY <1>2, Zenon DEF Justified
<1>4. BlockParent[child] = b /\ BlockRound[child] = BlockRound[b] + 1
  BY <1>3, BlocksAssumption, Zenon DEF ConstructLedgerInfo2Chain
<1> QED BY <1>3, <1>4, Zenon DEF VerifyWellFormed

(* One certified block per round of an epoch *)
LEMMA OneBlockPerRound ==
  ASSUME OneVotePerRound, NEW e \in Epochs, NEW b \in Blocks, NEW c \in Blocks, NEW k, NEW l,
         QuorumCert(e, b, k), QuorumCert(e, c, l),
         BlockEpoch[b] = BlockEpoch[c], BlockRound[b] = BlockRound[c]
  PROVE  b = c
<1>1. PICK w \in Honest : /\ [author |-> w, block |-> b, commit |-> k] \in votes
                         /\ [author |-> w, block |-> c, commit |-> l] \in votes
  BY VoterInBoth, Zenon
<1>2. [author |-> w, block |-> b, commit |-> k] = [author |-> w, block |-> c, commit |-> l]
  BY <1>1, Zenon DEF OneVotePerRound, EpochOf, RoundOf
<1> QED BY <1>2, Zenon

(***************************************************************************)
(* The step of the main argument: c is certified above the committed b,    *)
(* then c is b or its parent is certified and not below b.                 *)
(***************************************************************************)
LEMMA CertifiedAbove ==
  ASSUME SafetyInv, JustifiedInv, NEW e \in Epochs, NEW b \in CommittedIn(e), NEW c \in Blocks,
         BlockEpoch[c] = e, BlockRound[c] >= BlockRound[b], Certified(c), c # b
  PROVE  /\ BlockEpoch[BlockParent[c]] = e /\ Certified(BlockParent[c])
         /\ BlockRound[BlockParent[c]] >= BlockRound[b]
         /\ BlockRound[BlockParent[c]] < BlockRound[c]
<1> DEFINE p == BlockParent[c]
<1>1. /\ b \in Blocks /\ BlockEpoch[b] = e /\ \E child \in Blocks : QuorumCert(e, child, b)
      /\ TypeOK /\ OneVotePerRound /\ VoteTimeoutLock
  BY Zenon DEF CommittedIn, OrderedBy, SafetyInv
<1>2. PICK child \in Blocks : QuorumCert(e, child, b)
  BY <1>1, Zenon
<1>3. /\ BlockParent[child] = b /\ BlockRound[child] = BlockRound[b] + 1
      /\ BlockEpoch[child] = e /\ Certified(b)
  BY <1>1, <1>2, CommitChild
<1>4. /\ p \in Blocks /\ BlockRound[b] \in Int /\ BlockRound[c] \in Int
      /\ BlockRound[p] \in Int /\ BlockRound[b] >= 0 /\ BlockRound[p] >= 0
  BY <1>1, BlockType, Zenon
<1>5. BlockRound[c] # 0
  BY <1>1, <1>4, GenesisAssumption
<1>6. PICK k \in Blocks \cup {None} : QuorumCert(e, c, k)
  BY <1>5, CertifiedHasVote, Zenon
<1>7. PICK w \in Honest : [author |-> w, block |-> c, commit |-> k] \in votes
  BY <1>6, VoterInBoth, Zenon
<1>8. Justified([author |-> w, block |-> c, commit |-> k])
  BY <1>7, Zenon DEF JustifiedInv
<1>9. /\ BlockEpoch[p] = e /\ BlockRound[p] < BlockRound[c] /\ Certified(p)
      /\ \/ BlockRound[c] = BlockRound[p] + 1
         \/ \E tc \in TwoChainTimeoutCertificate :
              /\ tc.epoch = e /\ BlockRound[c] = tc.round + 1
              /\ BlockRound[p] >= tc.hqc /\ VerifyTC(tc.epoch, tc)
  BY <1>8, Zenon DEF Justified, VerifyWellFormed
<1>10. ASSUME BlockRound[p] < BlockRound[b] PROVE FALSE
  <2>1. CASE BlockRound[c] = BlockRound[b]
    <3>1. PICK l \in Blocks \cup {None} : QuorumCert(e, b, l)
      BY <1>1, <1>3, <1>5, <2>1, CertifiedHasVote, Zenon
    <3> QED BY <1>1, <1>6, <2>1, <3>1, OneBlockPerRound, Zenon
  <2>2. CASE BlockRound[c] = BlockRound[b] + 1
    <3>1. c = child
      BY <1>1, <1>2, <1>3, <1>6, <2>2, OneBlockPerRound, Zenon
    <3> QED BY <1>3, <1>4, <1>10, <3>1
  <2>3. CASE BlockRound[c] > BlockRound[b] + 1
    <3>1. PICK tc \in TwoChainTimeoutCertificate :
              /\ tc.epoch = e /\ BlockRound[c] = tc.round + 1
              /\ BlockRound[p] >= tc.hqc /\ VerifyTC(tc.epoch, tc)
      BY <1>4, <1>9, <1>10, <2>3
    <3>2. tc.round \in Int /\ tc.hqc \in Int
      BY RoundType, Zenon DEF TwoChainTimeoutCertificate
    <3>3. PICK u \in Honest, h \in 0..tc.hqc :
              /\ [author |-> u, block |-> child, commit |-> b] \in votes
              /\ [author |-> u, epoch |-> tc.epoch, round |-> tc.round, hqc |-> h] \in timeouts
      <4>1. VerifyTC(e, tc)
        BY <3>1, Zenon
      <4> QED BY <1>2, <4>1, VoterTimedOut, Zenon
    <3>4. BlockRound[child] <= tc.round
      BY <1>3, <1>4, <2>3, <3>1, <3>2
    <3>5. h >= BlockRound[BlockParent[child]]
      BY <1>1, <1>3, <3>1, <3>3, <3>4, Zenon
         DEF VoteTimeoutLock, EpochOf, RoundOf, ParentRoundOf
    <3> QED BY <1>3, <1>4, <1>10, <3>1, <3>2, <3>5
  <2> QED BY <1>4, <2>1, <2>2, <2>3
<1> QED BY <1>4, <1>9, <1>10

(* No certified block of smallest round avoids the committed one. *)
LEMMA FinalityStep ==
  ASSUME SafetyInv, JustifiedInv
  PROVE  CommittedIsFinal
<1> SUFFICES ASSUME NEW e \in Epochs, NEW b \in CommittedIn(e)
             PROVE  \A c \in Blocks : BlockEpoch[c] = e /\ BlockRound[c] >= BlockRound[b]
                      /\ Certified(c) => b \in Ancestors[c]
  BY Zenon DEF CommittedIsFinal
<1> DEFINE bad(c) == /\ BlockEpoch[c] = e /\ BlockRound[c] >= BlockRound[b] /\ Certified(c)
                     /\ b \notin Ancestors[c]
           T == {BlockRound[c] : c \in {x \in Blocks : bad(x)}}
<1>1. b \in Blocks
  BY Zenon DEF CommittedIn, OrderedBy
<1>2. T \in SUBSET Nat
  BY BlockType
<1>3. ASSUME T # {} PROVE FALSE
  <2>1. PICK n \in T : \A m \in T : n <= m
    BY <1>2, <1>3, SmallestNat, Zenon
  <2>2. PICK c \in Blocks : bad(c) /\ BlockRound[c] = n
    BY <2>1, Zenon
  <2> DEFINE p == BlockParent[c]
  <2>3. c # b
    BY <1>1, <2>2, AncestorsStep, Zenon
  <2>4. /\ p \in Blocks /\ BlockEpoch[p] = e /\ Certified(p)
        /\ BlockRound[p] >= BlockRound[b] /\ BlockRound[p] < BlockRound[c]
    BY <2>2, <2>3, CertifiedAbove, BlockType, Zenon
  <2>5. b \notin Ancestors[p]
    BY <2>2, AncestorsStep, Zenon
  <2>6. BlockRound[p] \in T
    BY <2>4, <2>5, Zenon
  <2>7. BlockRound[p] \in Int /\ BlockRound[c] \in Int
    BY <2>4, BlockType, Zenon
  <2>8. BlockRound[c] <= BlockRound[p]
    BY <2>1, <2>2, <2>6, Zenon
  <2> QED BY <2>4, <2>7, <2>8
<1> QED BY <1>3, Zenon

(***************************************************************************)
(* Once a block is committed by the 2-chain rule, every block certified in *)
(* its round or later extends it, for any number of validators, Byzantine  *)
(* ones, blocks, crashes and failed writes.                                *)
(***************************************************************************)
THEOREM Finality == Spec => []CommittedIsFinal
<1>1. SafetyInv /\ JustifiedInv => CommittedIsFinal
  BY FinalityStep, Zenon
<1> QED BY <1>1, SafetyInvariant, VotesJustified, PTL

(* Two committed blocks of an epoch lie on one chain. *)
LEMMA CommittedComparable ==
  ASSUME SafetyInv, JustifiedInv, NEW e \in Epochs, NEW b \in CommittedIn(e), NEW c \in CommittedIn(e)
  PROVE  b \in Ancestors[c] \/ c \in Ancestors[b]
<1>1. /\ b \in Blocks /\ c \in Blocks /\ BlockEpoch[b] = e /\ BlockEpoch[c] = e
      /\ \E child \in Blocks : QuorumCert(e, child, b)
      /\ \E child \in Blocks : QuorumCert(e, child, c)
      /\ TypeOK
  BY Zenon DEF CommittedIn, OrderedBy, SafetyInv
<1>2. Certified(b) /\ Certified(c)
  BY <1>1, CommitChild, Zenon
<1>3. BlockRound[b] \in Int /\ BlockRound[c] \in Int
  BY <1>1, BlockType, Zenon
<1>4. BlockRound[b] <= BlockRound[c] \/ BlockRound[c] <= BlockRound[b]
  BY <1>3
<1> QED BY <1>1, <1>2, <1>3, <1>4, FinalityStep, Zenon DEF CommittedIsFinal

(***************************************************************************)
(* Two blocks committed in an epoch by the 2-chain rule lie on one chain.  *)
(***************************************************************************)
THEOREM CommitsAgree == Spec => []Agreement
<1>1. SafetyInv /\ JustifiedInv => Agreement
  BY CommittedComparable, Zenon DEF Agreement
<1> QED BY <1>1, SafetyInvariant, VotesJustified, PTL

(* A commit vote is for a block that a quorum ordered, then and ever after. *)
LEMMA CommitVotesNext ==
  ASSUME TypeOK, CommitVotesInv, [Next]_vars
  PROVE  CommitVotesInv'
<1>1. votes \subseteq votes'
  BY SignedGrows, Zenon
<1>2. ASSUME NEW b \in Blocks, NEW e \in Epochs, b \in OrderedBy(e)
      PROVE  b \in OrderedBy(e)'
  BY <1>1, <1>2, QuorumCertMonotone, Zenon DEF OrderedBy
<1>3. ASSUME NEW v \in Honest, NEW b \in Blocks, NEW result \in ExecResults,
             SignCommitVote(v, b, result)
      PROVE  \A x \in commit_votes' : x.block \in OrderedBy(BlockEpoch[x.block])
  BY <1>3 DEF SignCommitVote, CommitVotesInv
<1>4. \/ UNCHANGED commit_votes
      \/ \E v \in Honest, b \in Blocks, result \in ExecResults : SignCommitVote(v, b, result)
  <2>1. ASSUME NEW v \in Honest, Crash(v) \/ ConsensusState(v)
        PROVE  UNCHANGED commit_votes
    BY <2>1, Zenon DEF Crash, ConsensusState, signed
  <2>2. ASSUME NEW v \in Honest, NEW e \in Epochs, NEW failed \in InitSteps, NEW io \in IO,
               Initialize(v, e, failed, io)
        PROVE  UNCHANGED commit_votes
    BY <2>2, Zenon DEF Initialize, signed
  <2>3. ASSUME NEW v \in Honest, NEW b \in Blocks, NEW io \in IO, ConstructAndSignVote(v, b, io)
        PROVE  UNCHANGED commit_votes
    BY <2>3, Zenon DEF ConstructAndSignVote
  <2>4. ASSUME NEW v \in Honest, NEW qc \in Blocks, NEW round \in TimeoutRounds, NEW io \in IO,
               SignTimeoutWithQC(v, round, qc, io)
        PROVE  UNCHANGED commit_votes
    BY <2>4, Zenon DEF SignTimeoutWithQC
  <2>5. ASSUME NEW v \in Honest, NEW b \in Blocks, GenerateProposal(v, b)
        PROVE  UNCHANGED commit_votes
    BY <2>5, Zenon DEF GenerateProposal
  <2> QED BY <2>1, <2>2, <2>3, <2>4, <2>5, Zenon DEF Next, vars
<1>5. \A x \in commit_votes' : x.block \in OrderedBy(BlockEpoch[x.block])
  BY <1>3, <1>4, Zenon DEF CommitVotesInv
<1>6. commit_votes' \subseteq CommitVote
  BY TypeOKNext, Zenon DEF TypeOK
<1>7. \A x \in CommitVote : x.block \in Blocks /\ BlockEpoch[x.block] \in Epochs
  BY BlockType, Zenon DEF CommitVote
<1> QED BY <1>2, <1>5, <1>6, <1>7, Zenon DEF CommitVotesInv

(***************************************************************************)
(* The blocks honest validators sign commit votes for lie on one chain.    *)
(***************************************************************************)
THEOREM CommitVotesAgree == Spec => []CommitVotesOnOneChain
<1>1. Init => CommitVotesInv
  BY Zenon DEF Init, CommitVotesInv
<1>2. SafetyInv => TypeOK
  BY Zenon DEF SafetyInv
<1>3. TypeOK /\ CommitVotesInv /\ [Next]_vars => CommitVotesInv'
  BY CommitVotesNext, Zenon
<1>4. SafetyInv /\ JustifiedInv /\ CommitVotesInv => CommitVotesOnOneChain
  <2> SUFFICES ASSUME SafetyInv, JustifiedInv, CommitVotesInv,
                      NEW x \in commit_votes, NEW y \in commit_votes,
                      BlockEpoch[x.block] = BlockEpoch[y.block]
               PROVE  x.block \in Ancestors[y.block] \/ y.block \in Ancestors[x.block]
    BY Zenon DEF CommitVotesOnOneChain
  <2>1. x \in CommitVote /\ y \in CommitVote
    BY Zenon DEF SafetyInv, TypeOK
  <2>2. x.block \in Blocks /\ y.block \in Blocks /\ BlockEpoch[x.block] \in Epochs
    BY <2>1, BlockType, Zenon DEF CommitVote
  <2>3. /\ x.block \in CommittedIn(BlockEpoch[x.block])
        /\ y.block \in CommittedIn(BlockEpoch[x.block])
    BY Zenon DEF CommitVotesInv, CommittedIn
  <2> QED BY <2>2, <2>3, CommittedComparable, Zenon
<1> QED BY <1>1, <1>2, <1>3, <1>4, SafetyInvariant, VotesJustified, PTL DEF Spec

=============================================================================
