---------------------------- MODULE RoundManager ----------------------------
(***************************************************************************)
(* The round protocol of the validators of one epoch: RoundManager         *)
(* (consensus/src/round_manager.rs), RoundState                            *)
(* (consensus/src/liveness/round_state.rs), the vote and timeout rules of  *)
(* SafetyRules and the certificates of the block store, over a network     *)
(* that may lose, duplicate, delay and reorder every message.  A node can  *)
(* restart at any moment: it keeps the certificates and the last vote of   *)
(* its ConsensusDB and the SafetyData, and nothing else.                   *)
(*                                                                         *)
(* A block is [round, nil, parent, gen]: parent is the round of the quorum *)
(* certificate it carries, gen tells apart what a proposer proposes before *)
(* and after a restart.  A quorum certificate is the round of the block it *)
(* certifies and a timeout certificate is [round, hqc], the highest        *)
(* certificate its signers had.                                            *)
(***************************************************************************)
EXTENDS PendingVotes

CONSTANTS Leader(_),    \* get_valid_proposer
          Steady,       \* validators whose timers and repeated messages work
          Scenarios     \* what an execution starts from and may meet

VARIABLES scenario,  \* the one of this execution
          node,      \* what each validator holds in memory and on disk
          msgs,      \* every message sent so far
          faults,    \* faults so far
          pressed    \* times that a node went under back pressure so far

vars == <<scenario, node, msgs, faults, pressed>>

\* A scenario gives
Running == scenario.running           \* the validators that are up; the others never act
Unreliable == scenario.unreliable     \* those that may restart or see an operation fail
Recovered(n) == scenario.recovered[n] \* the certificates and the last vote n starts from
MaxRound == scenario.max_round        \* the last round a node may leave
LastTimeout == scenario.last_timeout  \* the last round whose timer may fire
MaxFaults == scenario.max_faults      \* restarts and failed operations, over all nodes
MaxPressure == scenario.max_pressure  \* how often execution may fall behind

\* What may go wrong in a handler: a block cannot be executed or came too late,
\* a new certificate cannot be inserted because a block of it is missing, the
\* vote cannot be saved, the payload of a proposal cannot be pulled.
Failures == {"none", "execute", "insert", "save", "payload"}

Max(a, b) == IF a > b THEN a ELSE b

NoVote == [author |-> "none"]
NoBlock == [round |-> 0, nil |-> TRUE, parent |-> 0, gen |-> 0]
NoTc == [round |-> 0, hqc |-> 0]

-----------------------------------------------------------------------------
(* The types of the state. *)

TcType == [round : Nat, hqc : Nat]

BlockType == [round : Nat, nil : BOOLEAN, parent : Nat, gen : Nat]

VoteType == [author : Validators, digest : BlockType, hqc : Nat \cup {NoTimeout}]

PendingVotesType ==
    [author_to_vote : SUBSET VoteType,
     li_digest_to_votes : SUBSET (BlockType \X Validators),
     tc : [hqc : Nat \cup {NoTimeout}, signed : SUBSET (Validators \X Nat)],
     echo_timeout : BOOLEAN]

NodeType ==
    [round : Nat, hqc : Nat, htc : TcType, vote_sent : VoteType \cup {NoVote},
     pending_votes : PendingVotesType, already_proposed : BlockType,
     delayed : SUBSET BlockType, back_pressure : BOOLEAN, starts : Nat,
     last_voted_round : Nat, one_chain_round : Nat,
     last_vote : VoteType \cup {NoVote}, saved_vote : VoteType \cup {NoVote}]

SyncInfoType == [hqc : Nat, htc : TcType]

\* The fields of a message but its recipients.
IsMessage(m) ==
    /\ m.sync \in SyncInfoType
    /\ m.type = "vote" => m.vote \in VoteType
    /\ m.type = "proposal" => m.block \in BlockType

\* What a node starts from is what a node can leave on disk: the certificate a
\* timeout certificate rests on is there, and so is the one that the block last
\* voted for extends.
ASSUME ScenariosAssumption ==
    \A s \in Scenarios :
        /\ s.running \subseteq Validators
        /\ s.max_faults \in Nat /\ s.max_pressure \in Nat
        /\ \A n \in Validators :
              LET r == s.recovered[n]
              IN  /\ r.hqc \in Nat /\ r.htc \in TcType /\ r.vote \in VoteType \cup {NoVote}
                  /\ r.htc.hqc <= r.hqc
                  /\ r.vote # NoVote =>
                        /\ r.vote.author = n
                        /\ r.vote.hqc <= r.hqc
                        /\ r.vote.digest.round <= Max(r.hqc, r.htc.round) + 1
                        /\ r.vote.digest.parent <= r.hqc

-----------------------------------------------------------------------------
(* Messages and certificates. *)

\* A timeout certificate below the quorum certificate is left out.
SyncInfo(st) ==
    [hqc |-> st.hqc, htc |-> IF st.htc.round > st.hqc THEN st.htc ELSE NoTc]

HighestRound(sync) == Max(sync.hqc, sync.htc.round)

HasNewerCertificates(sync, local) ==
    sync.hqc > local.hqc \/ sync.htc.round > local.htc.round

VoteMsg(st, vote, recipients) ==
    [type |-> "vote", vote |-> vote, sync |-> SyncInfo(st), to |-> recipients]

SyncInfoMsg(st) == [type |-> "sync", sync |-> SyncInfo(st), to |-> Validators]

ProposalMsg(st) ==
    [type |-> "proposal", sync |-> SyncInfo(st), to |-> Validators,
     block |-> [round |-> st.round, nil |-> FALSE, parent |-> st.hqc, gen |-> st.starts]]

\* A timeout certificate replaces one of a lower round only.
InsertTc(st, tc) == [st EXCEPT !.htc = IF tc.round > @.round THEN tc ELSE @]

InsertQc(st, qc) == [st EXCEPT !.hqc = Max(@, qc)]

\* The timeout certificate is taken without the quorum certificate.
AddTcOnly(st, sync) == InsertTc(st, sync.htc)

AddCerts(st, sync) == InsertTc(InsertQc(st, sync.hqc), sync.htc)

-----------------------------------------------------------------------------
(* SafetyRules. *)

SafeToVote(st, block) ==
    \/ block.round = block.parent + 1
    \/ block.round = st.htc.round + 1 /\ block.parent >= st.htc.hqc

SafeToTimeout(st) ==
    /\ st.round = st.hqc + 1 \/ st.round = st.htc.round + 1
    /\ st.hqc >= st.one_chain_round

\* construct_and_sign_vote_two_chain: the vote of a round is signed once.
SignVote(n, st, block) ==
    IF st.last_vote # NoVote /\ st.last_vote.digest.round = block.round
    THEN [st |-> st, vote |-> st.last_vote]
    ELSE IF block.round <= st.last_voted_round \/ ~ SafeToVote(st, block)
    THEN [st |-> st, vote |-> NoVote]
    ELSE LET vote == [author |-> n, digest |-> block, hqc |-> NoTimeout]
         IN  [st |-> [st EXCEPT !.last_voted_round = block.round,
                                !.one_chain_round = Max(@, block.parent),
                                !.last_vote = vote],
              vote |-> vote]

\* sign_timeout_with_qc for the round and the highest certificate of st.
SignTimeout(st, vote) ==
    IF SafeToTimeout(st) /\ st.round >= st.last_voted_round
    THEN [st |-> [st EXCEPT !.last_voted_round = st.round],
          vote |-> [vote EXCEPT !.hqc = st.hqc]]
    ELSE [st |-> st, vote |-> NoVote]

-----------------------------------------------------------------------------
(***************************************************************************)
(* The steps of a handler.  Each takes the node as the step before left it *)
(* and returns [st, out, ok]: the node after it, the messages it sends and *)
(* whether the handler goes on.                                            *)
(***************************************************************************)

Done(st) == [st |-> st, out |-> {}, ok |-> TRUE]

Stop(st) == [st |-> st, out |-> {}, ok |-> FALSE]

\* RoundState::record_vote.
RecordVote(st, vote) ==
    IF vote # NoVote /\ vote.digest.round = st.round
    THEN [st EXCEPT !.vote_sent = vote]
    ELSE st

\* RoundState::process_certificates and process_new_round_event: a new round
\* forgets the votes of the old one, and its leader proposes.  While the leader
\* waits for a payload it tells the others of its certificates.
ProcessCertificates(n, st, failure) ==
    LET new_round == HighestRound(SyncInfo(st)) + 1
        started == [st EXCEPT !.round = new_round, !.vote_sent = NoVote,
                              !.pending_votes = EmptyPendingVotes]
    IN  IF new_round <= st.round THEN Done(st)
        ELSE IF Leader(new_round) # n THEN Done(started)
        ELSE IF failure = "payload" THEN Stop(started)
        ELSE [st |-> started, ok |-> TRUE,
              out |-> {ProposalMsg(started), SyncInfoMsg(started)}]

\* The certificates of the sender come first, then only a message of the round
\* they lead to goes on.
EnsureRoundAndSyncUp(n, st, message_round, sync, failure) ==
    IF message_round < st.round THEN Stop(st)
    ELSE LET up == IF HasNewerCertificates(sync, SyncInfo(st))
                   THEN ProcessCertificates(n, AddCerts(st, sync), failure)
                   ELSE Done(st)
         IN  [up EXCEPT !.ok = @ /\ message_round = up.st.round]

\* execute_and_vote: the vote is signed, then saved, and only then returned.
ExecuteAndVote(n, st, block, failure) ==
    IF failure = "execute" \/ st.vote_sent # NoVote \/ st.back_pressure
    THEN [st |-> st, vote |-> NoVote]
    ELSE LET signed == SignVote(n, st, block)
         IN  IF signed.vote = NoVote \/ failure = "save"
             THEN [st |-> signed.st, vote |-> NoVote]
             ELSE [signed EXCEPT !.st.saved_vote = signed.vote]

ProcessVerifiedProposal(n, st, block, failure) ==
    LET voted == ExecuteAndVote(n, st, block, failure)
        sent == RecordVote(voted.st, voted.vote)
    IN  IF voted.vote = NoVote THEN Stop(voted.st)
        ELSE [st |-> sent, ok |-> TRUE,
              out |-> {VoteMsg(sent, voted.vote, {Leader(block.round + 1)})}]

\* process_proposal: a second proposal of the round is refused, and under back
\* pressure a proposal waits.
ProcessProposal(n, st, block, failure) ==
    LET seen == [st EXCEPT !.already_proposed = block]
    IN  IF block.round <= st.already_proposed.round /\ block # st.already_proposed
        THEN Stop(st)
        ELSE IF failure # "execute" /\ st.back_pressure
        THEN Done([seen EXCEPT !.delayed = @ \cup {block}])
        ELSE ProcessVerifiedProposal(n, seen, block, failure)

\* process_local_timeout for the current round: the vote of the round, or one
\* for a NIL block, is sent to everyone with a signed timeout.
ProcessLocalTimeout(n, st, failure) ==
    LET nil_block == [round |-> st.round, nil |-> TRUE, parent |-> st.hqc, gen |-> 0]
        voted == IF st.vote_sent # NoVote
                 THEN [st |-> st, vote |-> st.vote_sent]
                 ELSE ExecuteAndVote(n, st, nil_block, failure)
        timeout == IF voted.vote = NoVote \/ IsTimeout(voted.vote)
                   THEN voted
                   ELSE SignTimeout(voted.st, voted.vote)
        sent == RecordVote(timeout.st, timeout.vote)
    IN  IF st.back_pressure
        THEN [st |-> st, out |-> {SyncInfoMsg(st)}, ok |-> TRUE]
        ELSE IF timeout.vote = NoVote
        THEN Stop(timeout.st)
        ELSE [st |-> sent, out |-> {VoteMsg(sent, timeout.vote, Validators)}, ok |-> TRUE]

\* Timeouts, too, are left to the next leader.
ProcessVoteAsLeader(n, st, vote, failure) ==
    LET inserted == InsertVote(st.pending_votes, vote)
        result == inserted.result
        counted == [st EXCEPT !.pending_votes = inserted.pv]
    IN  IF Leader(vote.digest.round + 1) # n \/ vote.digest.round <= st.hqc
        THEN Stop(st)
        ELSE IF result.kind = "qc"
        THEN ProcessCertificates(n, InsertQc(counted, st.round), failure)
        ELSE IF result.kind = "tc"
        THEN ProcessCertificates(
                n, InsertTc(counted, [round |-> st.round, hqc |-> result.hqc]), failure)
        ELSE Done(counted)

\* process_vote: plain votes are for the next leader, and a certificate of the
\* round starts the next one.
ProcessVote(n, st, vote, failure) ==
    LET inserted == InsertVote(st.pending_votes, vote)
        result == inserted.result
        counted == [st EXCEPT !.pending_votes = inserted.pv]
        is_vote_timeout == st.vote_sent # NoVote /\ IsTimeout(st.vote_sent)
    IN  IF \/ ~ IsTimeout(vote) /\ Leader(vote.digest.round + 1) # n
           \/ vote.digest.round <= st.hqc
        THEN Stop(st)
        ELSE IF result.kind = "qc" /\ failure # "insert"
        THEN ProcessCertificates(n, InsertQc(counted, st.round), failure)
        ELSE IF result.kind = "tc"
        THEN ProcessCertificates(
                n, InsertTc(counted, [round |-> st.round, hqc |-> result.hqc]), failure)
        ELSE IF result.kind = "echo_timeout" /\ ~ is_vote_timeout
        THEN ProcessLocalTimeout(n, counted, failure)
        ELSE Done(counted)

ProcessDelayedProposal(n, block, failure) ==
    LET st == [node[n] EXCEPT !.delayed = @ \ {block}]
    IN  IF block.round # st.round THEN Stop(st)
        ELSE ProcessVerifiedProposal(n, st, block, failure)

-----------------------------------------------------------------------------
(* The events a node handles. *)

MessageRound(m) ==
    CASE m.type = "proposal" -> m.block.round
      [] m.type = "vote" -> m.vote.digest.round
      [] m.type = "sync" -> HighestRound(m.sync) + 1

\* A message that every node would drop as stale, now and later, is forgotten.
Send(out) ==
    msgs' = {m \in msgs \cup out : \E n \in m.to : node'[n].round <= MessageRound(m)}

MayFail(n) == n \in Unreliable /\ faults < MaxFaults

\* The outcome of a handler takes effect.
Handled(n, r, failure) ==
    /\ node' = [node EXCEPT ![n] = r.st]
    /\ Send(r.out)
    /\ faults' = IF failure = "none" THEN faults ELSE faults + 1
    /\ UNCHANGED <<scenario, pressed>>

\* The certificates of a message come before what it is about.
SyncedUp(n, m, failure) == EnsureRoundAndSyncUp(n, node[n], MessageRound(m), m.sync, failure)

Then(first, second) ==
    IF first.ok THEN [second EXCEPT !.out = @ \cup first.out] ELSE first

ProposalMsgOutcome(n, m, failure) ==
    LET up == SyncedUp(n, m, failure)
    IN  Then(up, ProcessProposal(n, up.st, m.block, failure))

VoteMsgOutcome(n, m, failure) ==
    LET up == SyncedUp(n, m, failure)
    IN  Then(up, ProcessVote(n, up.st, m.vote, failure))

ProcessProposalMsg(n, m, failure) ==
    /\ m.type = "proposal"
    /\ \E r \in {ProposalMsgOutcome(n, m, failure)} : Handled(n, r, failure)

ProcessVoteMsg(n, m, failure) ==
    /\ m.type = "vote"
    /\ \E r \in {VoteMsgOutcome(n, m, failure)} : Handled(n, r, failure)

ProcessSyncInfoMsg(n, m, failure) ==
    /\ m.type = "sync"
    /\ \E r \in {SyncedUp(n, m, failure)} : Handled(n, r, failure)

\* A node that has left the last round stops listening.
Receive(n, m, failure) ==
    /\ n \in m.to
    /\ node[n].round <= MaxRound
    /\ \/ ProcessProposalMsg(n, m, failure)
       \/ ProcessVoteMsg(n, m, failure)
       \/ ProcessSyncInfoMsg(n, m, failure)

\* The timer of a round is set again whenever it fires.
LocalTimeout(n, failure) ==
    /\ node[n].round <= LastTimeout
    /\ \E r \in {ProcessLocalTimeout(n, node[n], failure)} : Handled(n, r, failure)

\* A proposal that waited is handed back once there is no back pressure.
DelayedProposal(n, failure) ==
    /\ ~ node[n].back_pressure
    /\ \E block \in node[n].delayed :
          \E r \in {ProcessDelayedProposal(n, block, failure)} : Handled(n, r, failure)

\* A node with what its storage and its SafetyData hold.
NewNode(n) ==
    LET vote == Recovered(n).vote
        voted == IF vote = NoVote THEN NoBlock ELSE vote.digest
    IN  [round |-> 0, hqc |-> Recovered(n).hqc, htc |-> Recovered(n).htc,
         vote_sent |-> NoVote, pending_votes |-> EmptyPendingVotes,
         already_proposed |-> NoBlock, delayed |-> {}, back_pressure |-> FALSE,
         starts |-> 0, last_voted_round |-> voted.round,
         one_chain_round |-> voted.parent, last_vote |-> vote, saved_vote |-> vote]

\* RoundManager::init.
Started(n, st, failure) ==
    LET up == ProcessCertificates(n, st, failure)
    IN  [up EXCEPT !.st = RecordVote(@, st.saved_vote)]

\* What a crash leaves of a node.
Kept(st) ==
    [st EXCEPT !.round = 0, !.already_proposed = NoBlock, !.delayed = {},
               !.back_pressure = FALSE, !.starts = @ + 1]

\* EpochManager starts a RoundManager from what a crash leaves.
Restart(n, failure) ==
    \E r \in {Started(n, Kept(node[n]), failure)} :
       /\ MayFail(n)
       /\ node' = [node EXCEPT ![n] = r.st]
       /\ Send(r.out)
       /\ faults' = faults + 1
       /\ UNCHANGED <<scenario, pressed>>

\* Execution falls behind, and catches up.
FallBehind(n) ==
    /\ pressed < MaxPressure
    /\ ~ node[n].back_pressure
    /\ node' = [node EXCEPT ![n].back_pressure = TRUE]
    /\ pressed' = pressed + 1
    /\ UNCHANGED <<scenario, msgs, faults>>

CatchUp(n) ==
    /\ node[n].back_pressure
    /\ node' = [node EXCEPT ![n].back_pressure = FALSE]
    /\ UNCHANGED <<scenario, msgs, faults, pressed>>

\* Every node has left the last round of the model.
Finished ==
    /\ \A n \in Running : node[n].round > MaxRound
    /\ UNCHANGED vars

Next ==
    \/ \E n \in Running :
          \/ \E failure \in IF MayFail(n) THEN Failures ELSE {"none"} :
                \/ \E m \in msgs : Receive(n, m, failure)
                \/ LocalTimeout(n, failure)
                \/ DelayedProposal(n, failure)
                \/ Restart(n, failure)
          \/ FallBehind(n)
          \/ CatchUp(n)
    \/ Finished

Init ==
    /\ scenario \in Scenarios
    /\ node = [n \in Validators |-> Started(n, NewNode(n), "none").st]
    /\ msgs = UNION {Started(n, NewNode(n), "none").out : n \in Running}
    /\ faults = 0
    /\ pressed = 0

Spec == Init /\ [][Next]_vars

-----------------------------------------------------------------------------
(***************************************************************************)
(* Fairness.  The timer of a steady node keeps firing, and every firing    *)
(* sends the timeout vote of the round again with the certificates the     *)
(* node has, so one of these sendings gets through.  No other message is   *)
(* assumed to arrive.  Execution catches up.  A handler does not fail      *)
(* forever, because failures are bounded by MaxFaults.                     *)
(***************************************************************************)

Repeated(sender) == VoteMsg(node[sender], node[sender].vote_sent, Validators)

HasEffect(n, r) == r.st # node[n] \/ ~ r.out \subseteq msgs

TimerHasEffect(n) ==
    /\ node[n].round <= LastTimeout
    /\ HasEffect(n, ProcessLocalTimeout(n, node[n], "none"))

DeliveryHasEffect(n, m) ==
    /\ node[n].round <= MaxRound
    /\ HasEffect(n, VoteMsgOutcome(n, m, "none"))

CanProgress ==
    \E n \in Steady :
        \/ node[n].back_pressure
        \/ TimerHasEffect(n)
        \/ \E m \in {Repeated(sender) : sender \in Steady} \cap msgs : DeliveryHasEffect(n, m)

\* Weaker than fairness of each of these steps: no execution stops for good
\* while one of them would change something.
Fairness == []<>(~ CanProgress) \/ []<><<TRUE>>_vars

FairSpec == Spec /\ Fairness

-----------------------------------------------------------------------------
(* Properties. *)

\* The shape of what a node holds and of the messages it sends.
TypeOK ==
    /\ scenario \in Scenarios
    /\ node \in [Validators -> NodeType]
    /\ \A m \in msgs : IsMessage(m)
    /\ faults \in 0..MaxFaults
    /\ pressed \in 0..MaxPressure

\* The validators whose vote for a block was ever sent.
Voters(block) ==
    {v \in Validators :
        \E m \in msgs : m.type = "vote" /\ m.vote.digest = block /\ m.vote.author = v}

\* A round has a quorum for at most one block, NIL blocks included, although
\* nodes time out at different moments, vote for what they saw first, restart
\* and fail to save their votes.
OneQuorumPerRound ==
    LET blocks == {m.vote.digest : m \in {v \in msgs : v.type = "vote"}}
        certified == {block \in blocks : CheckVotingPower(Voters(block))}
    IN  \A b1, b2 \in certified : b1.round = b2.round => b1 = b2

\* The timer of a node never fires in vain: SafetyRules sign the NIL vote and
\* the timeout of the current round with the certificates the node holds, so
\* that the round can be left without its leader.
NodesCanTimeOut ==
    \A n \in Running : ProcessLocalTimeout(n, node[n], "none").ok

\* "it is ready to propose and guarantee that it can create a proposal that all
\* honest replicas can vote for" (round_manager.rs): SafetyRules of a node in
\* the round of a proposal accept it.  It does not hold; see section 5 of the
\* README.
ProposalsAreVotable ==
    \A m \in msgs, n \in Running :
        m.type = "proposal" /\ m.block.round = node[n].round
        => SafeToVote(AddCerts(node[n], m.sync), m.block)

\* Every steady node leaves every round: with certificates or with timeouts,
\* however many other messages are lost.  (A node that is behind learns of the
\* last round's certificate from a timeout of the next round, so the timers of
\* that round must fire too.)
EveryRoundEnds ==
    \A n \in Steady : <>(LastTimeout > MaxRound => node[n].round > MaxRound)

-----------------------------------------------------------------------------
(***************************************************************************)
(* The inductive invariant behind OneQuorumPerRound and NodesCanTimeOut.   *)
(***************************************************************************)

\* The round that the certificates of a node lead to.
CertifiedRound(st) == Max(st.hqc, st.htc.round) + 1

\* The vote is the last one signed by SafetyRules of st, or of an earlier round.
NotAfterLast(vote, st) ==
    /\ st.last_vote # NoVote
    /\ \/ vote.digest = st.last_vote.digest
       \/ vote.digest.round < st.last_vote.digest.round

\* SafetyRules and storage remember what was signed, and lag behind no
\* certificate.
VotesInv(n, st) ==
    /\ st.last_vote = NoVote => st.last_voted_round = 0
    /\ st.last_vote # NoVote => /\ st.last_vote.author = n
                               /\ st.last_vote.hqc <= st.hqc
                               /\ st.last_vote.digest.round = st.last_voted_round
    /\ st.saved_vote # NoVote => /\ st.saved_vote.author = n
                                /\ st.saved_vote.hqc <= st.hqc
                                /\ NotAfterLast(st.saved_vote, st)
    /\ st.last_voted_round <= CertifiedRound(st)

CertificatesInv(st) ==
    /\ st.htc.hqc <= st.hqc
    /\ st.one_chain_round <= st.hqc
    /\ st.pending_votes.tc.hqc <= st.hqc
    /\ \A block \in st.delayed : block.parent <= st.hqc

\* A node in the round of its certificates remembers a vote of that round.
SentInv(n, st) ==
    st.vote_sent # NoVote =>
        /\ st.vote_sent.author = n
        /\ st.vote_sent.hqc <= st.hqc
        /\ st.vote_sent.digest.round = st.round
        /\ st.last_vote # NoVote
        /\ st.vote_sent.digest = st.last_vote.digest

NodeInv(n, st) ==
    /\ VotesInv(n, st)
    /\ CertificatesInv(st)
    /\ SentInv(n, st)
    /\ st.round = CertifiedRound(st)

\* A message carries the certificates that what it is about rests on.
MessageInv(m) ==
    /\ m.sync.htc.hqc <= m.sync.hqc
    /\ m.type = "vote" => m.vote.hqc <= m.sync.hqc
    /\ m.type = "proposal" => m.block.parent <= m.sync.hqc

VoteMsgs == {m \in msgs : m.type = "vote"}

\* A node sends votes for one block in a round.
OneVotePerRound ==
    \A m1, m2 \in VoteMsgs :
        /\ m1.vote.author = m2.vote.author
        /\ m1.vote.digest.round = m2.vote.digest.round
        => m1.vote.digest = m2.vote.digest

IInv ==
    /\ TypeOK
    /\ \A n \in Validators : NodeInv(n, node[n])
    /\ \A m \in msgs : MessageInv(m)
    /\ \A m \in VoteMsgs : NotAfterLast(m.vote, node[m.vote.author])
    /\ OneVotePerRound

=============================================================================
