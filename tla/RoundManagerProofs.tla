------------------------- MODULE RoundManagerProofs -------------------------
(***************************************************************************)
(* Proofs about RoundManager, for every validator set, every distribution  *)
(* of voting power, every proposer election and every scenario: any number *)
(* of rounds, faults and back pressure.                                    *)
(*                                                                         *)
(* A handler is a composition of steps on one node.  Each step keeps       *)
(* NodeInv; what a whole handler guarantees is Outcome.                    *)
(***************************************************************************)
EXTENDS RoundManager, TLAPS

-----------------------------------------------------------------------------
(* Types. *)

\* The larger of two numbers.
LEMMA MaxBounds ==
    ASSUME NEW a \in Nat, NEW b \in Nat
    PROVE  /\ Max(a, b) \in Nat /\ a <= Max(a, b) /\ b <= Max(a, b)
           /\ Max(a, b) = a \/ Max(a, b) = b
BY DEF Max

\* No vote is a vote.
LEMMA NoVoteIsNone == NoVote \notin VoteType
<1>1. SUFFICES ASSUME NoVote \in VoteType PROVE FALSE
  BY Zenon
<1>2. DOMAIN NoVote = {"author"}
  BY Zenon DEF NoVote
<1>3. DOMAIN NoVote = {"author", "digest", "hqc"}
  BY <1>1, Zenon DEF VoteType
<1> QED BY <1>2, <1>3

\* The fields of a vote.
LEMMA VoteFields ==
    ASSUME NEW vote \in VoteType
    PROVE  /\ vote.author \in Validators /\ vote.digest \in BlockType
           /\ vote.hqc \in Int
           /\ vote.digest.round \in Nat /\ vote.digest.parent \in Nat
BY DEF VoteType, BlockType, NoTimeout

\* The fields of a node, and those of its certificates.
LEMMA NodeFields ==
    ASSUME NEW st \in NodeType
    PROVE  /\ st.round \in Nat /\ st.hqc \in Nat /\ st.htc \in TcType
           /\ st.htc.round \in Nat /\ st.htc.hqc \in Nat
           /\ st.vote_sent \in VoteType \cup {NoVote}
           /\ st.pending_votes \in PendingVotesType
           /\ st.pending_votes.tc.hqc \in Int
           /\ st.already_proposed \in BlockType /\ st.delayed \in SUBSET BlockType
           /\ st.back_pressure \in BOOLEAN /\ st.starts \in Nat
           /\ st.last_voted_round \in Nat /\ st.one_chain_round \in Nat
           /\ st.last_vote \in VoteType \cup {NoVote}
           /\ st.saved_vote \in VoteType \cup {NoVote}
<1>1. st.htc \in TcType /\ st.pending_votes \in PendingVotesType
  BY Zenon DEF NodeType
<1>2. st.htc.round \in Nat /\ st.htc.hqc \in Nat
  BY <1>1, Zenon DEF TcType
<1>3. st.pending_votes.tc.hqc \in Int
  BY <1>1 DEF PendingVotesType, NoTimeout
<1> QED BY <1>1, <1>2, <1>3, Zenon DEF NodeType

\* The round that the certificates lead to comes right after one of them.
LEMMA CertifiedRoundBounds ==
    ASSUME NEW st \in NodeType
    PROVE  /\ CertifiedRound(st) \in Nat /\ CertifiedRound(st) > 0
           /\ st.hqc < CertifiedRound(st) /\ st.htc.round < CertifiedRound(st)
           /\ \/ CertifiedRound(st) = st.hqc + 1
              \/ CertifiedRound(st) = st.htc.round + 1
<1> DEFINE m == Max(st.hqc, st.htc.round)
<1>1. st.hqc \in Nat /\ st.htc.round \in Nat
  BY NodeFields, Zenon
<1>2. m \in Nat /\ st.hqc <= m /\ st.htc.round <= m /\ (m = st.hqc \/ m = st.htc.round)
  BY <1>1, MaxBounds, Zenon
<1> HIDE DEF m
<1>3. CertifiedRound(st) = m + 1
  BY Zenon DEF CertifiedRound, m
<1> QED BY <1>1, <1>2, <1>3

\* Leaving out a timeout certificate that is too low loses no round.
LEMMA SyncInfoFields ==
    ASSUME NEW st \in NodeType
    PROVE  /\ SyncInfo(st) \in SyncInfoType
           /\ SyncInfo(st).hqc = st.hqc
           /\ SyncInfo(st).htc.hqc <= st.htc.hqc
           /\ HighestRound(SyncInfo(st)) + 1 = CertifiedRound(st)
<1>1. st.hqc \in Nat /\ st.htc.round \in Nat /\ st.htc.hqc \in Nat /\ st.htc \in TcType
  BY NodeFields, Zenon
<1>2. NoTc \in TcType /\ NoTc.round = 0 /\ NoTc.hqc = 0
  BY Zenon DEF NoTc, TcType
<1>3. SyncInfo(st).hqc = st.hqc /\ SyncInfo(st).htc \in {st.htc, NoTc}
      /\ SyncInfo(st).htc = IF st.htc.round > st.hqc THEN st.htc ELSE NoTc
  BY Zenon DEF SyncInfo
<1>4. SyncInfo(st) \in SyncInfoType
  BY <1>1, <1>2, Zenon DEF SyncInfo, SyncInfoType
<1>5. CASE st.htc.round > st.hqc
  <2>1. SyncInfo(st).htc = st.htc
    BY <1>3, <1>5, Zenon
  <2> QED BY <1>1, <1>3, <1>4, <2>1 DEF HighestRound, CertifiedRound
<1>6. CASE ~ (st.htc.round > st.hqc)
  <2>1. SyncInfo(st).htc = NoTc
    BY <1>3, <1>6, Zenon
  <2> QED BY <1>1, <1>2, <1>3, <1>4, <1>6, <2>1 DEF HighestRound, CertifiedRound, Max
<1> QED BY <1>5, <1>6, Zenon

-----------------------------------------------------------------------------
(* What the steps of a handler guarantee. *)

\* SafetyRules and the saved vote are as before.
SafetyKept(st, after) ==
    /\ after.last_vote = st.last_vote /\ after.saved_vote = st.saved_vote
    /\ after.last_voted_round = st.last_voted_round
    /\ after.one_chain_round = st.one_chain_round

\* What was signed stays signed.
Remembers(st, after) ==
    \A vote \in VoteType : NotAfterLast(vote, st) => NotAfterLast(vote, after)

\* A vote that node n in state st may send.
IsCast(n, st, vote) ==
    /\ vote \in VoteType
    /\ vote.author = n
    /\ vote.hqc <= st.hqc
    /\ vote.digest.round = st.round
    /\ st.last_vote # NoVote
    /\ vote.digest = st.last_vote.digest

\* A message that node n in state st may send.
IsSent(n, st, m) ==
    /\ IsMessage(m) /\ MessageInv(m)
    /\ m.type = "vote" => /\ m.vote.author = n
                         /\ st.last_vote # NoVote
                         /\ m.vote.digest = st.last_vote.digest

Outcome(n, st, r) ==
    /\ r = [st |-> r.st, out |-> r.out, ok |-> r.ok] /\ r.ok \in BOOLEAN
    /\ r.st \in NodeType /\ NodeInv(n, r.st)
    /\ st.hqc <= r.st.hqc
    /\ Remembers(st, r.st)
    /\ \A m \in r.out : IsSent(n, r.st, m)

\* SafetyRules that are as before have forgotten nothing.
LEMMA SafetyKeptRemembers ==
    ASSUME NEW st, NEW after, SafetyKept(st, after)
    PROVE  Remembers(st, after)
BY Zenon DEF SafetyKept, Remembers, NotAfterLast

\* Newer certificates do not disturb what SafetyRules remember.
LEMMA VotesInvKept ==
    ASSUME NEW n \in Validators, NEW st \in NodeType, NEW after \in NodeType,
           VotesInv(n, st), SafetyKept(st, after), st.hqc <= after.hqc,
           CertifiedRound(st) <= CertifiedRound(after)
    PROVE  VotesInv(n, after)
<1>1. /\ st.hqc \in Nat /\ after.hqc \in Nat /\ st.last_voted_round \in Nat
      /\ CertifiedRound(st) \in Nat /\ CertifiedRound(after) \in Nat
  BY NodeFields, CertifiedRoundBounds, Zenon
<1>2. st.last_voted_round <= CertifiedRound(after)
  BY <1>1 DEF VotesInv
<1>3. \A vote \in VoteType : vote.hqc <= st.hqc => vote.hqc <= after.hqc
  BY <1>1, VoteFields
<1>4. st.last_vote # NoVote => st.last_vote.hqc <= after.hqc
  BY <1>3, NodeFields, Zenon DEF VotesInv
<1>5. st.saved_vote # NoVote => st.saved_vote.hqc <= after.hqc
  BY <1>3, NodeFields, Zenon DEF VotesInv
<1>6. after.last_voted_round <= CertifiedRound(after)
  BY <1>2, Zenon DEF SafetyKept
<1> QED BY <1>4, <1>5, <1>6, Zenon DEF VotesInv, SafetyKept, NotAfterLast

\* A round starts without votes and without a timeout certificate.
LEMMA EmptyPendingVotesType ==
    EmptyPendingVotes \in PendingVotesType /\ EmptyPendingVotes.tc.hqc = -1
BY Zenon DEF EmptyPendingVotes, PendingVotesType, NoTimeout

\* RoundState::process_certificates and process_new_round_event bring a node
\* whose certificates are ahead of its round into the round they lead to.
LEMMA CertificatesProcessed ==
    ASSUME NEW n \in Validators, NEW st \in NodeType, NEW failure,
           VotesInv(n, st), CertificatesInv(st), st.round <= CertifiedRound(st),
           st.round = CertifiedRound(st) => SentInv(n, st)
    PROVE  LET r == ProcessCertificates(n, st, failure)
           IN  /\ Outcome(n, st, r)
               /\ SafetyKept(st, r.st)
               /\ \A m \in r.out : m.type # "vote"
               /\ r.st.hqc = st.hqc
               /\ st.round < CertifiedRound(st) => r.st.vote_sent = NoVote
<1> DEFINE new_round == HighestRound(SyncInfo(st)) + 1
           started == [st EXCEPT !.round = new_round, !.vote_sent = NoVote,
                                 !.pending_votes = EmptyPendingVotes]
           r == ProcessCertificates(n, st, failure)
<1>1. new_round = CertifiedRound(st) /\ new_round \in Nat /\ st.round \in Nat /\ st.hqc \in Nat
  BY SyncInfoFields, CertifiedRoundBounds, NodeFields, Zenon
<1> HIDE DEF new_round
<1>2. /\ started \in NodeType
      /\ started.round = new_round /\ started.vote_sent = NoVote
      /\ started.pending_votes = EmptyPendingVotes
      /\ started.hqc = st.hqc /\ started.htc = st.htc /\ started.delayed = st.delayed
      /\ started.starts = st.starts /\ SafetyKept(st, started)
  BY <1>1, EmptyPendingVotesType, Zenon DEF NodeType, SafetyKept
<1> HIDE DEF started
<1>3. CertifiedRound(started) = CertifiedRound(st)
  BY <1>2, Zenon DEF CertifiedRound
<1>4. NodeInv(n, started)
  <2>1. VotesInv(n, started)
    BY <1>1, <1>2, <1>3, VotesInvKept, CertifiedRoundBounds
  <2>2. CertificatesInv(started)
    BY <1>1, <1>2, EmptyPendingVotesType DEF CertificatesInv, SafetyKept
  <2>3. SentInv(n, started)
    BY <1>2, Zenon DEF SentInv
  <2> QED BY <1>1, <1>2, <1>3, <2>1, <2>2, <2>3, Zenon DEF NodeInv
<1>5. CASE new_round <= st.round
  <2>1. r = [st |-> st, out |-> {}, ok |-> TRUE]
    BY <1>5, Zenon DEF ProcessCertificates, Done, new_round
  <2>2. st.round = CertifiedRound(st)
    BY <1>1, <1>5
  <2>3. NodeInv(n, st)
    BY <2>2, Zenon DEF NodeInv
  <2>4. SafetyKept(st, st) /\ Remembers(st, st)
    BY Zenon DEF SafetyKept, Remembers
  <2> QED BY <1>1, <2>1, <2>2, <2>3, <2>4 DEF Outcome
<1>6. CASE ~ (new_round <= st.round)
  <2>1. Remembers(st, started)
    BY <1>2, SafetyKeptRemembers, Zenon
  <2>2. /\ SyncInfo(started) \in SyncInfoType /\ SyncInfo(started).hqc = started.hqc
        /\ SyncInfo(started).htc.hqc <= started.hqc
    <3>1. SyncInfo(started).htc.hqc \in Nat
      BY <1>2, SyncInfoFields, Zenon DEF SyncInfoType, TcType
    <3>2. started.htc.hqc <= started.hqc /\ started.htc.hqc \in Nat /\ started.hqc \in Nat
      BY <1>2, <1>4, NodeFields, Zenon DEF NodeInv, CertificatesInv
    <3> QED BY <1>2, <3>1, <3>2, SyncInfoFields
  <2>3. /\ IsSent(n, started, SyncInfoMsg(started)) /\ SyncInfoMsg(started).type # "vote"
    BY <2>2, Zenon DEF IsSent, IsMessage, MessageInv, SyncInfoMsg
  <2>4. /\ IsSent(n, started, ProposalMsg(started)) /\ ProposalMsg(started).type # "vote"
    <3>1. started.hqc \in Nat /\ started.round \in Nat /\ started.starts \in Nat
      BY <1>2, NodeFields, Zenon
    <3> QED BY <2>2, <3>1 DEF IsSent, IsMessage, MessageInv, ProposalMsg, BlockType
  <2>5. r \in {[st |-> started, out |-> {}, ok |-> TRUE],
               [st |-> started, out |-> {}, ok |-> FALSE],
               [st |-> started, ok |-> TRUE,
                out |-> {ProposalMsg(started), SyncInfoMsg(started)}]}
    BY <1>6, Zenon DEF ProcessCertificates, Done, Stop, started, new_round
  <2> HIDE DEF r
  <2>6. r.st = started /\ r.out \subseteq {ProposalMsg(started), SyncInfoMsg(started)}
        /\ r.ok \in BOOLEAN /\ r = [st |-> r.st, out |-> r.out, ok |-> r.ok]
    <3>1. CASE r = [st |-> started, out |-> {}, ok |-> TRUE]
      BY <3>1, Zenon
    <3>2. CASE r = [st |-> started, out |-> {}, ok |-> FALSE]
      BY <3>2, Zenon
    <3>3. CASE r = [st |-> started, ok |-> TRUE,
                    out |-> {ProposalMsg(started), SyncInfoMsg(started)}]
      BY <3>3, Zenon
    <3> QED BY <2>5, <3>1, <3>2, <3>3, Zenon
  <2>7. \A m \in r.out : IsSent(n, r.st, m) /\ m.type # "vote"
    BY <2>3, <2>4, <2>6, Zenon
  <2>8. st.hqc <= r.st.hqc /\ r.st.hqc = st.hqc /\ r.st.vote_sent = NoVote
    BY <1>1, <1>2, <2>6
  <2> QED BY <1>2, <1>4, <2>1, <2>6, <2>7, <2>8, Zenon DEF Outcome, r
<1> QED BY <1>5, <1>6, Zenon

-----------------------------------------------------------------------------
(* Certificates and votes that come in. *)

\* The node has taken certificates or counted votes, and nothing else.
Ahead(n, st, after) ==
    /\ after \in NodeType /\ SafetyKept(st, after)
    /\ st.hqc <= after.hqc
    /\ VotesInv(n, after) /\ CertificatesInv(after)
    /\ after.round = st.round /\ after.round <= CertifiedRound(after)
    /\ after.vote_sent = st.vote_sent

\* A node that took nothing.
LEMMA NodeIsAhead ==
    ASSUME NEW n \in Validators, NEW st \in NodeType, NodeInv(n, st)
    PROVE  Ahead(n, st, st)
<1>1. st.hqc <= st.hqc /\ st.round <= CertifiedRound(st)
  BY NodeFields, CertifiedRoundBounds DEF NodeInv
<1> QED BY <1>1, Zenon DEF Ahead, NodeInv, SafetyKept

\* insert_single_quorum_cert keeps what was signed and loses no certificate.
LEMMA InsertQcAhead ==
    ASSUME NEW n \in Validators, NEW st \in NodeType, NEW mid, Ahead(n, st, mid), NEW qc \in Nat
    PROVE  /\ Ahead(n, st, InsertQc(mid, qc))
           /\ qc <= InsertQc(mid, qc).hqc
<1> DEFINE after == InsertQc(mid, qc)
<1>1. mid \in NodeType /\ mid.hqc \in Nat /\ st.hqc \in Nat
  BY NodeFields, Zenon DEF Ahead
<1>2. /\ Max(mid.hqc, qc) \in Nat /\ mid.hqc <= Max(mid.hqc, qc) /\ qc <= Max(mid.hqc, qc)
  BY <1>1, MaxBounds, Zenon
<1>3. /\ after \in NodeType /\ after.hqc = Max(mid.hqc, qc) /\ SafetyKept(mid, after)
      /\ after.htc = mid.htc /\ after.round = mid.round /\ after.vote_sent = mid.vote_sent
      /\ after.pending_votes = mid.pending_votes /\ after.delayed = mid.delayed
  BY <1>1, <1>2, Zenon DEF InsertQc, NodeType, SafetyKept
<1> HIDE DEF after
<1>4. CertifiedRound(mid) <= CertifiedRound(after)
  <2>1. mid.htc.round \in Nat
    BY <1>1, NodeFields, Zenon
  <2> QED BY <1>1, <1>2, <1>3, <2>1 DEF CertifiedRound, Max
<1>5. mid.hqc <= after.hqc /\ after.hqc \in Nat
  BY <1>2, <1>3, Zenon
<1>6. VotesInv(n, after)
  BY <1>1, <1>3, <1>4, <1>5, VotesInvKept, Zenon DEF Ahead
<1>7. CertificatesInv(after)
  <2>1. /\ mid.htc.hqc \in Nat /\ mid.one_chain_round \in Nat
        /\ mid.pending_votes.tc.hqc \in Int /\ mid.delayed \subseteq BlockType
    BY <1>1, NodeFields, Zenon
  <2>2. /\ mid.htc.hqc <= mid.hqc /\ mid.one_chain_round <= mid.hqc
        /\ mid.pending_votes.tc.hqc <= mid.hqc
        /\ \A block \in mid.delayed : block.parent <= mid.hqc
    BY Zenon DEF Ahead, CertificatesInv
  <2>3. \A block \in mid.delayed : block.parent <= after.hqc
    <3>1. \A block \in mid.delayed : block.parent \in Nat
      BY <2>1, Zenon DEF BlockType
    <3> QED BY <1>1, <1>5, <2>2, <3>1
  <2>4. /\ mid.htc.hqc <= after.hqc /\ mid.one_chain_round <= after.hqc
        /\ mid.pending_votes.tc.hqc <= after.hqc
    BY <1>1, <1>5, <2>1, <2>2
  <2> QED BY <1>3, <2>3, <2>4, Zenon DEF CertificatesInv, SafetyKept
<1>8. after.round <= CertifiedRound(after) /\ st.hqc <= after.hqc
  <2>1. /\ mid.round \in Nat /\ CertifiedRound(mid) \in Nat /\ CertifiedRound(after) \in Nat
        /\ mid.round <= CertifiedRound(mid) /\ st.hqc <= mid.hqc
    BY <1>1, <1>3, NodeFields, CertifiedRoundBounds, Zenon DEF Ahead
  <2> QED BY <1>1, <1>3, <1>4, <1>5, <2>1
<1>9. SafetyKept(st, after) /\ after.round = st.round /\ after.vote_sent = st.vote_sent
  BY <1>3, Zenon DEF Ahead, SafetyKept
<1> QED BY <1>2, <1>3, <1>6, <1>7, <1>8, <1>9, Zenon DEF Ahead, after

\* insert_2chain_timeout_certificate, for one that rests on a known certificate.
LEMMA InsertTcAhead ==
    ASSUME NEW n \in Validators, NEW st \in NodeType, NEW mid, Ahead(n, st, mid),
           NEW tc \in TcType, tc.hqc <= mid.hqc
    PROVE  /\ Ahead(n, st, InsertTc(mid, tc))
           /\ InsertTc(mid, tc).hqc = mid.hqc
<1> DEFINE after == InsertTc(mid, tc)
           htc == IF tc.round > mid.htc.round THEN tc ELSE mid.htc
<1>1. /\ mid \in NodeType /\ mid.hqc \in Nat /\ st.hqc \in Nat /\ mid.htc \in TcType
      /\ mid.htc.round \in Nat /\ tc.round \in Nat /\ st.hqc <= mid.hqc
  BY NodeFields, Zenon DEF Ahead, TcType
<1>2. htc \in TcType /\ htc.round \in Nat /\ mid.htc.round <= htc.round /\ htc.hqc <= mid.hqc
  <2>1. mid.htc.hqc <= mid.hqc
    BY Zenon DEF Ahead, CertificatesInv
  <2>2. CASE tc.round > mid.htc.round
    BY <1>1, <2>2
  <2>3. CASE ~ (tc.round > mid.htc.round)
    BY <1>1, <2>1, <2>3
  <2> QED BY <2>2, <2>3, Zenon
<1> HIDE DEF htc
<1>3. /\ after \in NodeType /\ after.htc = htc /\ SafetyKept(mid, after)
      /\ after.hqc = mid.hqc /\ after.round = mid.round /\ after.vote_sent = mid.vote_sent
      /\ after.pending_votes = mid.pending_votes /\ after.delayed = mid.delayed
  <2>1. after = [mid EXCEPT !.htc = htc]
    BY Zenon DEF InsertTc, htc
  <2> HIDE DEF after
  <2> QED BY <1>1, <1>2, <2>1, Zenon DEF NodeType, SafetyKept
<1> HIDE DEF after
<1>4. CertifiedRound(mid) <= CertifiedRound(after)
  BY <1>1, <1>2, <1>3 DEF CertifiedRound, Max
<1>5. VotesInv(n, after)
  BY <1>1, <1>3, <1>4, VotesInvKept DEF Ahead
<1>6. CertificatesInv(after)
  BY <1>2, <1>3, Zenon DEF CertificatesInv, SafetyKept, Ahead
<1>7. after.round <= CertifiedRound(after)
  <2>1. /\ mid.round \in Nat /\ CertifiedRound(mid) \in Nat /\ CertifiedRound(after) \in Nat
        /\ mid.round <= CertifiedRound(mid)
    BY <1>1, <1>3, NodeFields, CertifiedRoundBounds, Zenon DEF Ahead
  <2> QED BY <1>3, <1>4, <2>1
<1>8. /\ SafetyKept(st, after) /\ after.round = st.round /\ after.vote_sent = st.vote_sent
      /\ st.hqc <= after.hqc
  BY <1>1, <1>3, Zenon DEF Ahead, SafetyKept
<1> QED BY <1>3, <1>5, <1>6, <1>7, <1>8, Zenon DEF Ahead, after

\* The certificates of a message are taken, then the round they lead to starts.
LEMMA AheadProcessed ==
    ASSUME NEW n \in Validators, NEW st \in NodeType, NodeInv(n, st),
           NEW after, Ahead(n, st, after), NEW failure
    PROVE  LET r == ProcessCertificates(n, after, failure)
           IN  /\ Outcome(n, st, r)
               /\ \A m \in r.out : m.type # "vote"
               /\ r.st.hqc = after.hqc
<1> DEFINE r == ProcessCertificates(n, after, failure)
<1>1. after \in NodeType /\ after.hqc \in Nat /\ st.hqc \in Nat /\ st.hqc <= after.hqc
  BY NodeFields, Zenon DEF Ahead
<1>2. SentInv(n, after)
  <2>1. ASSUME st.vote_sent # NoVote PROVE st.vote_sent.hqc <= after.hqc
    <3>1. st.vote_sent.hqc <= st.hqc /\ st.vote_sent.hqc \in Int
      BY <2>1, NodeFields, VoteFields, Zenon DEF NodeInv, SentInv
    <3> QED BY <1>1, <3>1
  <2> QED BY <2>1, Zenon DEF NodeInv, SentInv, Ahead, SafetyKept
<1>3. /\ Outcome(n, after, r) /\ SafetyKept(after, r.st) /\ r.st.hqc = after.hqc
      /\ \A m \in r.out : m.type # "vote"
  BY <1>1, <1>2, CertificatesProcessed, Zenon DEF Ahead
<1> HIDE DEF r
<1>4. Remembers(st, r.st)
  <2>1. SafetyKept(st, r.st)
    BY <1>3, Zenon DEF Ahead, SafetyKept
  <2> QED BY <2>1, SafetyKeptRemembers, Zenon
<1> QED BY <1>1, <1>3, <1>4, Zenon DEF Outcome, r

\* The certificate of a partial or complete timeout certificate is one that
\* somebody signed.
LEMMA TimeoutInserted ==
    ASSUME NEW pv \in PendingVotesType, NEW vote \in VoteType, IsTimeout(vote),
           NEW bound \in Nat, pv.tc.hqc <= bound, vote.hqc <= bound
    PROVE  LET inserted == InsertTimeout(pv, vote)
           IN  /\ inserted.pv \in PendingVotesType /\ inserted.pv.tc.hqc <= bound
               /\ inserted.result.kind = "tc" =>
                     inserted.result.hqc \in Nat /\ inserted.result.hqc <= bound
<1> DEFINE tc == AddTimeout(pv.tc, vote)
           added == [pv EXCEPT !.tc = tc]
           echoed == [added EXCEPT !.echo_timeout = TRUE]
           inserted == InsertTimeout(pv, vote)
<1>1. /\ vote.hqc \in Nat /\ vote.author \in Validators
      /\ pv.tc.hqc \in Nat \cup {-1} /\ pv.tc.signed \subseteq (Validators \X Nat)
  BY Zenon DEF VoteType, IsTimeout, PendingVotesType, NoTimeout
<1>2. tc.hqc \in Nat /\ tc.hqc <= bound
  <2>1. tc.hqc = IF vote.hqc > pv.tc.hqc THEN vote.hqc ELSE pv.tc.hqc
    BY Zenon DEF AddTimeout
  <2> HIDE DEF tc
  <2> QED BY <1>1, <2>1
<1>3. tc \in [hqc : Nat \cup {NoTimeout}, signed : SUBSET (Validators \X Nat)]
  <2>1. tc.signed \in SUBSET (Validators \X Nat)
    BY <1>1 DEF AddTimeout
  <2>2. tc = [hqc |-> tc.hqc, signed |-> tc.signed]
    BY Zenon DEF AddTimeout
  <2> HIDE DEF tc
  <2> QED BY <1>2, <2>1, <2>2, Zenon
<1> HIDE DEF tc
<1>4. added \in PendingVotesType /\ added.tc = tc
  BY <1>3, Zenon DEF PendingVotesType
<1>5. echoed \in PendingVotesType /\ echoed.tc = tc
  BY <1>3, Zenon DEF PendingVotesType
<1> HIDE DEF added, echoed
<1>6. NewTc(tc).hqc = tc.hqc
  BY Zenon DEF NewTc
<1>7. \/ inserted = [pv |-> added, result |-> NewTc(tc)]
      \/ inserted = [pv |-> echoed, result |-> [kind |-> "echo_timeout"]]
      \/ inserted = [pv |-> added, result |-> [kind |-> "vote_added"]]
  BY Zenon DEF InsertTimeout, tc, added, echoed
<1> HIDE DEF inserted
<1>8. CASE inserted = [pv |-> added, result |-> NewTc(tc)]
  BY <1>2, <1>4, <1>6, <1>8 DEF inserted
<1>9. CASE inserted = [pv |-> echoed, result |-> [kind |-> "echo_timeout"]]
  BY <1>2, <1>5, <1>9 DEF inserted
<1>10. CASE inserted = [pv |-> added, result |-> [kind |-> "vote_added"]]
  BY <1>2, <1>4, <1>10 DEF inserted
<1> QED BY <1>7, <1>8, <1>9, <1>10, Zenon

\* insert_vote: no timeout certificate rests on a certificate that nobody signed.
LEMMA VoteInserted ==
    ASSUME NEW pv \in PendingVotesType, NEW vote \in VoteType,
           NEW bound \in Nat, pv.tc.hqc <= bound, vote.hqc <= bound
    PROVE  LET inserted == InsertVote(pv, vote)
           IN  /\ inserted.pv \in PendingVotesType /\ inserted.pv.tc.hqc <= bound
               /\ inserted.result.kind = "tc" =>
                     inserted.result.hqc \in Nat /\ inserted.result.hqc <= bound
<1> DEFINE stored == StoreVote(pv, vote)
           inserted == InsertVote(pv, vote)
<1>1. stored \in PendingVotesType /\ stored.tc = pv.tc
  <2> DEFINE votes == {v \in pv.author_to_vote : v.author # vote.author} \cup {vote}
             signatures == pv.li_digest_to_votes \cup {<<vote.digest, vote.author>>}
  <2>1. votes \in SUBSET VoteType
    BY Zenon DEF PendingVotesType
  <2>2. signatures \in SUBSET (BlockType \X Validators)
    BY VoteFields DEF PendingVotesType
  <2>3. stored = [pv EXCEPT !.author_to_vote = votes, !.li_digest_to_votes = signatures]
    BY Zenon DEF StoreVote
  <2> HIDE DEF votes, signatures, stored
  <2> QED BY <2>1, <2>2, <2>3, Zenon DEF PendingVotesType
<1> HIDE DEF stored
<1>2. NewQc(stored, vote.digest).kind = "qc"
  BY Zenon DEF NewQc
<1>3. \/ inserted = [pv |-> pv, result |-> [kind |-> "rejected"]]
      \/ inserted = [pv |-> stored, result |-> NewQc(stored, vote.digest)]
      \/ IsTimeout(vote) /\ inserted = InsertTimeout(stored, vote)
      \/ inserted = [pv |-> stored, result |-> [kind |-> "vote_added"]]
  BY Zenon DEF InsertVote, stored
<1> HIDE DEF inserted
<1>4. CASE inserted = [pv |-> pv, result |-> [kind |-> "rejected"]]
  BY <1>4 DEF inserted
<1>5. CASE inserted = [pv |-> stored, result |-> NewQc(stored, vote.digest)]
  BY <1>1, <1>2, <1>5 DEF inserted
<1>6. CASE IsTimeout(vote) /\ inserted = InsertTimeout(stored, vote)
  BY <1>1, <1>6, TimeoutInserted, Zenon DEF inserted
<1>7. CASE inserted = [pv |-> stored, result |-> [kind |-> "vote_added"]]
  BY <1>1, <1>7 DEF inserted
<1> QED BY <1>3, <1>4, <1>5, <1>6, <1>7, Zenon

\* A node in the round of its certificates counts a vote.
LEMMA CountedAhead ==
    ASSUME NEW n \in Validators, NEW st \in NodeType, NodeInv(n, st),
           NEW pv \in PendingVotesType, pv.tc.hqc <= st.hqc
    PROVE  Ahead(n, st, [st EXCEPT !.pending_votes = pv])
<1> DEFINE after == [st EXCEPT !.pending_votes = pv]
<1>1. /\ after \in NodeType /\ after.pending_votes = pv /\ SafetyKept(st, after)
      /\ after.hqc = st.hqc /\ after.htc = st.htc /\ after.round = st.round
      /\ after.vote_sent = st.vote_sent /\ after.delayed = st.delayed
  BY Zenon DEF NodeType, SafetyKept
<1> HIDE DEF after
<1>2. CertifiedRound(after) = CertifiedRound(st)
  BY <1>1, Zenon DEF CertifiedRound
<1>3. st.hqc <= after.hqc /\ CertifiedRound(st) <= CertifiedRound(after)
  BY <1>1, <1>2, NodeFields, CertifiedRoundBounds
<1>4. VotesInv(n, after)
  BY <1>1, <1>3, VotesInvKept, Zenon DEF NodeInv
<1>5. CertificatesInv(after)
  BY <1>1, Zenon DEF NodeInv, CertificatesInv, SafetyKept
<1>6. after.round <= CertifiedRound(after)
  BY <1>1, <1>2, CertifiedRoundBounds DEF NodeInv
<1> QED BY <1>1, <1>3, <1>4, <1>5, <1>6, Zenon DEF Ahead, after

\* What goes before the handling of a message itself.
LEMMA SyncedUpOutcome ==
    ASSUME NEW n \in Validators, NEW st \in NodeType, NodeInv(n, st),
           NEW sync \in SyncInfoType, sync.htc.hqc <= sync.hqc,
           NEW message_round \in Nat, NEW failure
    PROVE  LET up == EnsureRoundAndSyncUp(n, st, message_round, sync, failure)
           IN  /\ Outcome(n, st, up)
               /\ \A m \in up.out : m.type # "vote"
               /\ up.ok => message_round = up.st.round /\ sync.hqc <= up.st.hqc
<1> DEFINE certs == AddCerts(st, sync)
           newer == HasNewerCertificates(sync, SyncInfo(st))
           got == IF newer THEN ProcessCertificates(n, certs, failure) ELSE Done(st)
           up == EnsureRoundAndSyncUp(n, st, message_round, sync, failure)
<1>1. /\ sync.hqc \in Nat /\ sync.htc \in TcType /\ sync.htc.hqc \in Nat
      /\ st.hqc \in Nat /\ st.round \in Nat
  BY NodeFields, Zenon DEF SyncInfoType, TcType
<1>2. Outcome(n, st, Done(st)) /\ Done(st).st = st /\ Done(st).out = {}
      /\ Outcome(n, st, Stop(st)) /\ Stop(st).out = {} /\ Stop(st).ok = FALSE
  <2>1. Remembers(st, st) /\ st.hqc <= st.hqc
    BY <1>1 DEF Remembers
  <2> QED BY <2>1, Zenon DEF Outcome, Done, Stop
<1>3. /\ Outcome(n, st, got)
      /\ \A m \in got.out : m.type # "vote"
      /\ sync.hqc <= got.st.hqc
  <2>1. CASE newer
    <3> DEFINE mid == InsertQc(st, sync.hqc)
    <3>1. Ahead(n, st, mid) /\ sync.hqc <= mid.hqc
      BY <1>1, NodeIsAhead, InsertQcAhead, Zenon
    <3> HIDE DEF mid
    <3>2. mid.hqc \in Nat
      BY <3>1, NodeFields, Zenon DEF Ahead
    <3>3. sync.htc.hqc <= mid.hqc
      BY <1>1, <3>1, <3>2
    <3>4. Ahead(n, st, certs) /\ certs.hqc = mid.hqc
      BY <1>1, <3>1, <3>3, InsertTcAhead, Zenon DEF AddCerts, mid
    <3> HIDE DEF certs
    <3>5. got = ProcessCertificates(n, certs, failure)
      BY <2>1, Zenon
    <3> QED BY <3>1, <3>4, <3>5, AheadProcessed
  <2>2. CASE ~ newer
    <3>1. sync.hqc <= st.hqc
      BY <1>1, <2>2, SyncInfoFields DEF HasNewerCertificates
    <3>2. got = Done(st)
      BY <2>2, Zenon
    <3> HIDE DEF got
    <3> QED BY <1>2, <3>1, <3>2, Zenon
  <2> QED BY <2>1, <2>2, Zenon
<1> HIDE DEF newer, certs
<1>4. CASE message_round < st.round
  <2>1. up = Stop(st)
    BY <1>4, Zenon DEF EnsureRoundAndSyncUp
  <2> HIDE DEF up
  <2> QED BY <1>2, <2>1, Zenon DEF up
<1>5. CASE ~ (message_round < st.round)
  <2>1. up = [got EXCEPT !.ok = @ /\ message_round = got.st.round]
    BY <1>5, Zenon DEF EnsureRoundAndSyncUp, newer, certs
  <2> HIDE DEF got, up
  <2>2. got = [st |-> got.st, out |-> got.out, ok |-> got.ok] /\ got.ok \in BOOLEAN
    BY <1>3, Zenon DEF Outcome
  <2>3. /\ up.st = got.st /\ up.out = got.out
        /\ up.ok = (got.ok /\ message_round = got.st.round)
        /\ up = [st |-> up.st, out |-> up.out, ok |-> up.ok]
    BY <2>1, <2>2, Zenon
  <2>4. up.ok \in BOOLEAN
    BY <2>3, Zenon
  <2> QED BY <1>3, <2>3, <2>4, Zenon DEF Outcome, up
<1> QED BY <1>4, <1>5, Zenon

-----------------------------------------------------------------------------
(* Votes that go out. *)

\* A vote is asked of SafetyRules, with the certificates as they are.
VoteResult(n, st, v) ==
    /\ v.st \in NodeType /\ NodeInv(n, v.st)
    /\ v.st.hqc = st.hqc /\ v.st.round = st.round
    /\ Remembers(st, v.st)
    /\ v.vote # NoVote => IsCast(n, v.st, v.vote)

\* What the vote of a round says of the state of SafetyRules.
LEMMA LastVoteFields ==
    ASSUME NEW n \in Validators, NEW st \in NodeType, NodeInv(n, st), st.last_vote # NoVote
    PROVE  /\ st.last_vote \in VoteType /\ st.last_vote.author = n
           /\ st.last_vote.hqc <= st.hqc
           /\ st.last_vote.digest.round = st.last_voted_round
           /\ st.last_voted_round <= st.round
BY NodeFields, Zenon DEF NodeInv, VotesInv

\* Nothing was signed after the last voted round.
LEMMA NotAfterLastRound ==
    ASSUME NEW n \in Validators, NEW st \in NodeType, NodeInv(n, st),
           NEW vote \in VoteType, NotAfterLast(vote, st)
    PROVE  vote.digest.round <= st.last_voted_round
<1>1. st.last_vote # NoVote /\ st.last_voted_round \in Nat /\ vote.digest.round \in Nat
  BY NodeFields, VoteFields, Zenon DEF NotAfterLast
<1>2. st.last_vote.digest.round = st.last_voted_round
  BY <1>1, LastVoteFields, Zenon
<1>3. vote.digest.round = st.last_voted_round \/ vote.digest.round < st.last_voted_round
  BY <1>2, Zenon DEF NotAfterLast
<1> QED BY <1>1, <1>3

\* construct_and_sign_vote_two_chain for a block of the current round.
LEMMA VoteSigned ==
    ASSUME NEW n \in Validators, NEW st \in NodeType, NodeInv(n, st),
           NEW block \in BlockType, block.round = st.round, block.parent <= st.hqc,
           st.vote_sent = NoVote
    PROVE  VoteResult(n, st, SignVote(n, st, block))
<1> DEFINE v == SignVote(n, st, block)
           vote == [author |-> n, digest |-> block, hqc |-> NoTimeout]
           after == [st EXCEPT !.last_voted_round = block.round,
                               !.one_chain_round = Max(@, block.parent),
                               !.last_vote = vote]
<1>1. /\ st.hqc \in Nat /\ st.round \in Nat /\ st.one_chain_round \in Nat
      /\ st.last_voted_round \in Nat /\ block.round \in Nat /\ block.parent \in Nat
  BY NodeFields, Zenon DEF BlockType
<1>2. Remembers(st, st)
  BY Zenon DEF Remembers
<1>3. CASE st.last_vote # NoVote /\ st.last_vote.digest.round = block.round
  <2>1. v.st = st /\ v.vote = st.last_vote
    BY <1>3, Zenon DEF SignVote
  <2> HIDE DEF v
  <2>2. IsCast(n, st, st.last_vote)
    BY <1>3, LastVoteFields, Zenon DEF IsCast
  <2> QED BY <1>2, <2>1, <2>2, Zenon DEF VoteResult, v
<1>4. CASE /\ ~ (st.last_vote # NoVote /\ st.last_vote.digest.round = block.round)
           /\ block.round <= st.last_voted_round \/ ~ SafeToVote(st, block)
  <2>1. v.st = st /\ v.vote = NoVote
    BY <1>4, Zenon DEF SignVote
  <2> HIDE DEF v
  <2> QED BY <1>2, <2>1, Zenon DEF VoteResult, v
<1>5. CASE /\ ~ (st.last_vote # NoVote /\ st.last_vote.digest.round = block.round)
           /\ ~ (block.round <= st.last_voted_round \/ ~ SafeToVote(st, block))
  <2>1. v = [st |-> after, vote |-> vote]
    BY <1>5, Zenon DEF SignVote
  <2>2. v.st = after /\ v.vote = vote
    BY <2>1
  <2> HIDE DEF v
  <2>3. /\ vote \in VoteType /\ vote.author = n /\ vote.digest = block /\ vote.hqc = -1
        /\ vote # NoVote
    <3>1. vote \in VoteType /\ vote.author = n /\ vote.digest = block /\ vote.hqc = -1
      BY Zenon DEF VoteType, NoTimeout
    <3> HIDE DEF vote
    <3> QED BY <3>1, NoVoteIsNone, Zenon
  <2> HIDE DEF vote
  <2>4. /\ Max(st.one_chain_round, block.parent) \in Nat
        /\ Max(st.one_chain_round, block.parent) <= st.hqc
    <3>1. st.one_chain_round <= st.hqc
      BY Zenon DEF NodeInv, CertificatesInv
    <3> QED BY <1>1, <3>1, Zenon DEF Max
  <2>5. /\ after \in NodeType /\ after.last_vote = vote
        /\ after.last_voted_round = block.round /\ after.one_chain_round <= st.hqc
        /\ after.hqc = st.hqc /\ after.htc = st.htc /\ after.round = st.round
        /\ after.vote_sent = NoVote /\ after.saved_vote = st.saved_vote
        /\ after.pending_votes = st.pending_votes /\ after.delayed = st.delayed
    <3> DEFINE locked == Max(st.one_chain_round, block.parent)
    <3>1. after = [st EXCEPT !.last_voted_round = block.round,
                             !.one_chain_round = locked, !.last_vote = vote]
      BY Zenon
    <3>2. locked \in Nat /\ locked <= st.hqc
      BY <2>4, Zenon
    <3> HIDE DEF after, locked
    <3>3. after \in NodeType
      BY <1>1, <2>3, <3>1, <3>2 DEF NodeType
    <3> QED BY <3>1, <3>2, <3>3 DEF NodeType
  <2> HIDE DEF after
  <2>6. CertifiedRound(after) = CertifiedRound(st)
    BY <2>5, Zenon DEF CertifiedRound
  <2>7. \A x \in VoteType : NotAfterLast(x, st) => NotAfterLast(x, after)
    <3>1. SUFFICES ASSUME NEW x \in VoteType, NotAfterLast(x, st)
                   PROVE  NotAfterLast(x, after)
      BY Zenon
    <3>2. x.digest.round <= st.last_voted_round /\ x.digest.round \in Nat
      BY <3>1, NotAfterLastRound, VoteFields, Zenon
    <3>3. x.digest.round < block.round
      BY <1>1, <1>5, <3>2
    <3> QED BY <2>3, <2>5, <3>3, Zenon DEF NotAfterLast
  <2>8. VotesInv(n, after)
    <3>1. vote.hqc <= after.hqc
      BY <1>1, <2>3, <2>5
    <3>2. block.round <= CertifiedRound(after)
      BY <1>1, <2>6 DEF NodeInv
    <3>3. st.saved_vote # NoVote => NotAfterLast(st.saved_vote, after)
      BY <2>7, NodeFields, Zenon DEF NodeInv, VotesInv
    <3>4. st.saved_vote # NoVote => st.saved_vote.author = n /\ st.saved_vote.hqc <= st.hqc
      BY Zenon DEF NodeInv, VotesInv
    <3> QED BY <2>3, <2>5, <3>1, <3>2, <3>3, <3>4, Zenon DEF VotesInv
  <2>9. CertificatesInv(after)
    BY <2>5, Zenon DEF NodeInv, CertificatesInv
  <2>10. NodeInv(n, after)
    BY <2>5, <2>6, <2>8, <2>9, Zenon DEF NodeInv, SentInv
  <2>11. IsCast(n, after, vote)
    <3>1. vote.hqc <= after.hqc
      BY <1>1, <2>3, <2>5
    <3> QED BY <2>3, <2>5, <3>1, Zenon DEF IsCast
  <2> QED BY <2>2, <2>5, <2>7, <2>10, <2>11, Zenon DEF VoteResult, Remembers, v
<1> QED BY <1>3, <1>4, <1>5, Zenon

\* execute_and_vote saves what it returns.
LEMMA VoteExecuted ==
    ASSUME NEW n \in Validators, NEW st \in NodeType, NodeInv(n, st),
           NEW block \in BlockType, block.round = st.round, block.parent <= st.hqc,
           NEW failure
    PROVE  VoteResult(n, st, ExecuteAndVote(n, st, block, failure))
<1> DEFINE v == ExecuteAndVote(n, st, block, failure)
           signed == SignVote(n, st, block)
<1>1. CASE failure = "execute" \/ st.vote_sent # NoVote \/ st.back_pressure
  <2>1. v.st = st /\ v.vote = NoVote
    BY <1>1, Zenon DEF ExecuteAndVote
  <2> HIDE DEF v
  <2> QED BY <2>1, Zenon DEF VoteResult, Remembers, v
<1>2. CASE ~ (failure = "execute" \/ st.vote_sent # NoVote \/ st.back_pressure)
  <2>1. VoteResult(n, st, signed)
    BY <1>2, VoteSigned, Zenon
  <2>2. CASE signed.vote = NoVote \/ failure = "save"
    <3>1. v.st = signed.st /\ v.vote = NoVote
      BY <1>2, <2>2, Zenon DEF ExecuteAndVote
    <3> HIDE DEF v, signed
    <3> QED BY <2>1, <3>1, Zenon DEF VoteResult, v
  <2>3. CASE ~ (signed.vote = NoVote \/ failure = "save")
    <3>1. v = [signed EXCEPT !.st.saved_vote = signed.vote]
      BY <1>2, <2>3, Zenon DEF ExecuteAndVote
    <3>2. signed = [st |-> signed.st, vote |-> signed.vote]
      BY Zenon DEF SignVote
    <3> DEFINE before == signed.st
               vote == signed.vote
               after == [before EXCEPT !.saved_vote = vote]
    <3>3. v.st = after /\ v.vote = vote
      <4> HIDE DEF signed, v
      <4> QED BY <3>1, <3>2, Zenon
    <3>4. /\ before \in NodeType /\ NodeInv(n, before) /\ IsCast(n, before, vote)
          /\ before.hqc = st.hqc /\ before.round = st.round /\ Remembers(st, before)
      BY <2>1, <2>3, Zenon DEF VoteResult
    <3> HIDE DEF v, signed, before, vote
    <3>5. /\ after \in NodeType /\ after.saved_vote = vote
          /\ after.last_vote = before.last_vote
          /\ after.last_voted_round = before.last_voted_round
          /\ after.one_chain_round = before.one_chain_round
          /\ after.hqc = before.hqc /\ after.htc = before.htc /\ after.round = before.round
          /\ after.vote_sent = before.vote_sent /\ after.delayed = before.delayed
          /\ after.pending_votes = before.pending_votes
      BY <3>4, Zenon DEF NodeType, IsCast
    <3> HIDE DEF after
    <3>6. CertifiedRound(after) = CertifiedRound(before)
      BY <3>5, Zenon DEF CertifiedRound
    <3>7. NotAfterLast(vote, after) /\ vote.author = n /\ vote.hqc <= after.hqc
      BY <3>4, <3>5, Zenon DEF NotAfterLast, IsCast
    <3>8. VotesInv(n, after)
      BY <3>4, <3>5, <3>6, <3>7, Zenon DEF NodeInv, VotesInv
    <3>9. CertificatesInv(after) /\ SentInv(n, after)
      BY <3>4, <3>5, Zenon DEF NodeInv, CertificatesInv, SentInv
    <3>10. NodeInv(n, after)
      BY <3>4, <3>5, <3>6, <3>8, <3>9, Zenon DEF NodeInv
    <3>11. Remembers(st, after) /\ IsCast(n, after, vote)
      BY <3>4, <3>5, Zenon DEF Remembers, NotAfterLast, IsCast
    <3> QED BY <3>3, <3>4, <3>5, <3>10, <3>11, Zenon DEF VoteResult, v
  <2> QED BY <2>2, <2>3, Zenon
<1> QED BY <1>1, <1>2, Zenon

\* sign_timeout_with_qc never refuses the timeout of a vote of the round.
LEMMA TimeoutSigned ==
    ASSUME NEW n \in Validators, NEW st \in NodeType, NodeInv(n, st),
           NEW vote, IsCast(n, st, vote)
    PROVE  VoteResult(n, st, SignTimeout(st, vote)) /\ SignTimeout(st, vote).vote # NoVote
<1> DEFINE v == SignTimeout(st, vote)
           after == [st EXCEPT !.last_voted_round = st.round]
           timeout == [vote EXCEPT !.hqc = st.hqc]
<1>1. /\ st.hqc \in Nat /\ st.round \in Nat /\ st.one_chain_round \in Nat
      /\ st.last_voted_round \in Nat
  BY NodeFields, Zenon
<1>2. /\ vote \in VoteType /\ vote.author = n /\ vote.digest.round = st.round
      /\ st.last_vote # NoVote /\ vote.digest = st.last_vote.digest
  BY Zenon DEF IsCast
<1>3. st.last_voted_round = st.round
  BY <1>2, LastVoteFields, Zenon
<1>4. SafeToTimeout(st) /\ st.round >= st.last_voted_round
  <2>1. st.one_chain_round <= st.hqc /\ st.round = CertifiedRound(st)
    BY Zenon DEF NodeInv, CertificatesInv
  <2>2. st.round = st.hqc + 1 \/ st.round = st.htc.round + 1
    BY <2>1, CertifiedRoundBounds, Zenon
  <2>3. st.hqc >= st.one_chain_round /\ st.round >= st.last_voted_round
    BY <1>1, <1>3, <2>1
  <2> QED BY <2>2, <2>3, Zenon DEF SafeToTimeout
<1>5. v = [st |-> after, vote |-> timeout]
  BY <1>4, Zenon DEF SignTimeout
<1>6. v.st = after /\ v.vote = timeout
  BY <1>5
<1> HIDE DEF v
<1>7. after = st
  BY <1>3, Zenon DEF NodeType
<1> HIDE DEF after
<1>8. /\ timeout \in VoteType /\ timeout.author = n /\ timeout.hqc = st.hqc
      /\ timeout.digest = vote.digest
  BY <1>1, <1>2, Zenon DEF VoteType
<1> HIDE DEF timeout
<1>9. timeout # NoVote /\ timeout.hqc <= st.hqc
  BY <1>1, <1>8, NoVoteIsNone
<1>10. IsCast(n, st, timeout)
  BY <1>2, <1>8, <1>9, Zenon DEF IsCast
<1> QED BY <1>6, <1>7, <1>9, <1>10, Zenon DEF VoteResult, Remembers, v

\* record_vote takes a vote of the round only if it is the last one signed.
LEMMA VoteRecorded ==
    ASSUME NEW n \in Validators, NEW st \in NodeType, NodeInv(n, st),
           NEW vote \in VoteType \cup {NoVote},
           vote # NoVote =>
              vote.author = n /\ vote.hqc <= st.hqc /\ NotAfterLast(vote, st)
    PROVE  LET after == RecordVote(st, vote)
           IN  /\ after \in NodeType /\ NodeInv(n, after) /\ SafetyKept(st, after)
               /\ after.hqc = st.hqc /\ after.round = st.round
<1> DEFINE after == RecordVote(st, vote)
<1>1. CASE ~ (vote # NoVote /\ vote.digest.round = st.round)
  <2>1. after = st
    BY <1>1, Zenon DEF RecordVote
  <2> HIDE DEF after
  <2> QED BY <2>1, Zenon DEF SafetyKept, after
<1>2. CASE vote # NoVote /\ vote.digest.round = st.round
  <2>1. after = [st EXCEPT !.vote_sent = vote]
    BY <1>2, Zenon DEF RecordVote
  <2> HIDE DEF after
  <2>2. /\ after \in NodeType /\ after.vote_sent = vote
        /\ after.hqc = st.hqc /\ after.htc = st.htc /\ after.round = st.round
        /\ after.delayed = st.delayed /\ after.pending_votes = st.pending_votes
        /\ SafetyKept(st, after)
    BY <1>2, <2>1, Zenon DEF NodeType, SafetyKept
  <2>3. CertifiedRound(after) = CertifiedRound(st)
    BY <2>2, Zenon DEF CertifiedRound
  <2>4. st.last_vote # NoVote /\ vote.digest = st.last_vote.digest
    <3>1. st.last_vote # NoVote /\ st.last_vote \in VoteType
      BY <1>2, NodeFields, Zenon DEF NotAfterLast
    <3>2. st.last_vote.digest.round \in Nat /\ st.round \in Nat
      BY <3>1, NodeFields, VoteFields, Zenon
    <3>3. st.last_vote.digest.round <= st.round
      BY <3>1, LastVoteFields, Zenon
    <3>4. ~ (vote.digest.round < st.last_vote.digest.round)
      BY <1>2, <3>2, <3>3
    <3> QED BY <1>2, <3>1, <3>4, Zenon DEF NotAfterLast
  <2>5. SentInv(n, after)
    BY <1>2, <2>2, <2>4, Zenon DEF SentInv, SafetyKept
  <2>6. VotesInv(n, after) /\ CertificatesInv(after)
    BY <2>2, <2>3, Zenon DEF NodeInv, VotesInv, CertificatesInv, NotAfterLast, SafetyKept
  <2> QED BY <2>2, <2>3, <2>5, <2>6, Zenon DEF NodeInv, after
<1> QED BY <1>1, <1>2, Zenon

\* The certificates a node tells of.
LEMMA SyncInfoSent ==
    ASSUME NEW n \in Validators, NEW st \in NodeType, NodeInv(n, st)
    PROVE  /\ SyncInfo(st) \in SyncInfoType /\ SyncInfo(st).hqc = st.hqc
           /\ SyncInfo(st).htc.hqc <= SyncInfo(st).hqc
           /\ IsSent(n, st, SyncInfoMsg(st)) /\ SyncInfoMsg(st).type # "vote"
<1>1. /\ SyncInfo(st) \in SyncInfoType /\ SyncInfo(st).hqc = st.hqc
      /\ SyncInfo(st).htc.hqc <= st.htc.hqc
  BY SyncInfoFields, Zenon
<1>2. SyncInfo(st).htc.hqc \in Nat /\ st.htc.hqc \in Nat /\ st.hqc \in Nat
  BY <1>1, NodeFields, Zenon DEF SyncInfoType, TcType
<1>3. st.htc.hqc <= st.hqc
  BY Zenon DEF NodeInv, CertificatesInv
<1>4. SyncInfo(st).htc.hqc <= SyncInfo(st).hqc
  BY <1>1, <1>2, <1>3
<1>5. SyncInfoMsg(st).type = "sync" /\ SyncInfoMsg(st).sync = SyncInfo(st)
  BY Zenon DEF SyncInfoMsg
<1>6. IsSent(n, st, SyncInfoMsg(st))
  BY <1>1, <1>4, <1>5, Zenon DEF IsSent, IsMessage, MessageInv
<1> QED BY <1>1, <1>4, <1>5, <1>6, Zenon

\* The end of a handler that asked for a vote and got none.
LEMMA VoteRefused ==
    ASSUME NEW n \in Validators, NEW st \in NodeType, NEW v, VoteResult(n, st, v)
    PROVE  Outcome(n, st, Stop(v.st))
<1>1. st.hqc <= v.st.hqc
  BY NodeFields DEF VoteResult
<1>2. /\ Stop(v.st).st = v.st /\ Stop(v.st).out = {} /\ Stop(v.st).ok = FALSE
      /\ Stop(v.st) = [st |-> v.st, out |-> {}, ok |-> FALSE]
  BY Zenon DEF Stop
<1> QED BY <1>1, <1>2, Zenon DEF Outcome, VoteResult

\* The end of a handler that got a vote and sends it.
LEMMA VoteSent ==
    ASSUME NEW n \in Validators, NEW st \in NodeType, NEW v, VoteResult(n, st, v),
           v.vote # NoVote, NEW recipients, NEW r,
           r = [st |-> RecordVote(v.st, v.vote), ok |-> TRUE,
                out |-> {VoteMsg(RecordVote(v.st, v.vote), v.vote, recipients)}]
    PROVE  Outcome(n, st, r)
<1> DEFINE vote == v.vote
           sent == RecordVote(v.st, vote)
           m == VoteMsg(sent, vote, recipients)
<1>1. /\ v.st \in NodeType /\ NodeInv(n, v.st) /\ IsCast(n, v.st, vote)
      /\ v.st.hqc = st.hqc /\ Remembers(st, v.st)
  BY Zenon DEF VoteResult
<1>2. /\ vote \in VoteType /\ vote.author = n /\ vote.hqc <= v.st.hqc
      /\ v.st.last_vote # NoVote /\ vote.digest = v.st.last_vote.digest
      /\ NotAfterLast(vote, v.st)
  BY <1>1, Zenon DEF IsCast, NotAfterLast
<1>3. /\ sent \in NodeType /\ NodeInv(n, sent) /\ SafetyKept(v.st, sent) /\ sent.hqc = v.st.hqc
  BY <1>1, <1>2, VoteRecorded, Zenon
<1> HIDE DEF vote, sent
<1>4. m.type = "vote" /\ m.vote = vote /\ m.sync = SyncInfo(sent)
  BY Zenon DEF VoteMsg
<1> HIDE DEF m
<1>5. IsSent(n, sent, m)
  <2>1. sent.last_vote = v.st.last_vote
    BY <1>3, Zenon DEF SafetyKept
  <2>2. m.sync \in SyncInfoType /\ m.sync.htc.hqc <= m.sync.hqc /\ m.sync.hqc = sent.hqc
    BY <1>3, <1>4, SyncInfoSent, Zenon
  <2>3. IsMessage(m) /\ MessageInv(m)
    BY <1>2, <1>3, <1>4, <2>2, Zenon DEF IsMessage, MessageInv
  <2> QED BY <1>2, <1>4, <2>1, <2>3, Zenon DEF IsSent
<1>6. Remembers(st, sent)
  BY <1>1, <1>3, SafetyKeptRemembers, Zenon DEF Remembers
<1>7. r.st = sent /\ r.out = {m} /\ r.ok = TRUE /\ r = [st |-> r.st, out |-> r.out, ok |-> r.ok]
  BY Zenon DEF sent, vote, m
<1>8. st.hqc <= r.st.hqc
  BY <1>1, <1>3, <1>7, NodeFields
<1> QED BY <1>3, <1>5, <1>6, <1>7, <1>8, Zenon DEF Outcome

-----------------------------------------------------------------------------
(* The handlers. *)

\* What SafetyRules and the certificates are about is as before, and no
\* proposal is kept whose certificate is unknown.
Untouched(st, after) ==
    /\ SafetyKept(st, after)
    /\ after.hqc = st.hqc /\ after.htc = st.htc /\ after.round = st.round
    /\ after.vote_sent = st.vote_sent /\ after.pending_votes = st.pending_votes
    /\ \A block \in after.delayed : block.parent <= st.hqc

\* A step that touches neither votes nor certificates keeps the invariant.
LEMMA UntouchedKeeps ==
    ASSUME NEW n \in Validators, NEW st \in NodeType, NodeInv(n, st),
           NEW after \in NodeType, Untouched(st, after)
    PROVE  NodeInv(n, after) /\ Remembers(st, after) /\ st.hqc <= after.hqc
<1>1. CertifiedRound(after) = CertifiedRound(st)
  BY Zenon DEF Untouched, CertifiedRound
<1>2. VotesInv(n, after)
  BY <1>1, Zenon DEF Untouched, SafetyKept, NodeInv, VotesInv, NotAfterLast
<1>3. CertificatesInv(after) /\ SentInv(n, after)
  BY Zenon DEF Untouched, SafetyKept, NodeInv, CertificatesInv, SentInv
<1>4. st.hqc <= after.hqc
  BY NodeFields DEF Untouched
<1>5. Remembers(st, after)
  BY SafetyKeptRemembers, Zenon DEF Untouched
<1>6. NodeInv(n, after)
  BY <1>1, <1>2, <1>3, Zenon DEF NodeInv, Untouched
<1> QED BY <1>4, <1>5, <1>6, Zenon

\* A handler that starts with such a step.
LEMMA OutcomeFrom ==
    ASSUME NEW n \in Validators, NEW st \in NodeType, NEW after \in NodeType,
           Remembers(st, after), st.hqc <= after.hqc, NEW r, Outcome(n, after, r)
    PROVE  Outcome(n, st, r)
<1>1. r.st \in NodeType /\ after.hqc <= r.st.hqc
  BY Zenon DEF Outcome
<1>2. st.hqc <= r.st.hqc
  BY <1>1, NodeFields
<1>3. Remembers(st, r.st)
  BY Zenon DEF Outcome, Remembers
<1> QED BY <1>2, <1>3, Zenon DEF Outcome

\* The node as it is, and nothing sent.
LEMMA QuietOutcome ==
    ASSUME NEW n \in Validators, NEW st \in NodeType,
           NEW after \in NodeType, NodeInv(n, after), Remembers(st, after), st.hqc <= after.hqc
    PROVE  Outcome(n, st, Done(after)) /\ Outcome(n, st, Stop(after))
<1>1. /\ Done(after) = [st |-> after, out |-> {}, ok |-> TRUE]
      /\ Done(after).st = after /\ Done(after).out = {} /\ Done(after).ok = TRUE
  BY Zenon DEF Done
<1>2. /\ Stop(after) = [st |-> after, out |-> {}, ok |-> FALSE]
      /\ Stop(after).st = after /\ Stop(after).out = {} /\ Stop(after).ok = FALSE
  BY Zenon DEF Stop
<1>3. Outcome(n, st, Done(after))
  BY <1>1, Zenon DEF Outcome
<1>4. Outcome(n, st, Stop(after))
  BY <1>2, Zenon DEF Outcome
<1> QED BY <1>3, <1>4, Zenon

\* process_verified_proposal for a block of the current round.
LEMMA VerifiedProposalOutcome ==
    ASSUME NEW n \in Validators, NEW st \in NodeType, NodeInv(n, st),
           NEW block \in BlockType, block.round = st.round, block.parent <= st.hqc,
           NEW failure
    PROVE  Outcome(n, st, ProcessVerifiedProposal(n, st, block, failure))
<1> DEFINE r == ProcessVerifiedProposal(n, st, block, failure)
           voted == ExecuteAndVote(n, st, block, failure)
           sent == RecordVote(voted.st, voted.vote)
<1>1. VoteResult(n, st, voted)
  BY VoteExecuted, Zenon
<1>2. CASE voted.vote = NoVote
  <2>1. r = Stop(voted.st)
    BY <1>2, Zenon DEF ProcessVerifiedProposal
  <2> HIDE DEF voted, r
  <2> QED BY <1>1, <2>1, VoteRefused, Zenon DEF r
<1>3. CASE voted.vote # NoVote
  <2>1. r = [st |-> sent, ok |-> TRUE,
             out |-> {VoteMsg(sent, voted.vote, {Leader(block.round + 1)})}]
    BY <1>3, Zenon DEF ProcessVerifiedProposal
  <2> HIDE DEF voted, r
  <2> QED BY <1>1, <1>3, <2>1, VoteSent, Zenon DEF r
<1> QED BY <1>2, <1>3, Zenon

\* process_proposal, where a proposal is voted for, refused or made to wait.
LEMMA ProposalOutcome ==
    ASSUME NEW n \in Validators, NEW st \in NodeType, NodeInv(n, st),
           NEW block \in BlockType, block.round = st.round, block.parent <= st.hqc,
           NEW failure
    PROVE  Outcome(n, st, ProcessProposal(n, st, block, failure))
<1> DEFINE r == ProcessProposal(n, st, block, failure)
           seen == [st EXCEPT !.already_proposed = block]
           late == [seen EXCEPT !.delayed = @ \cup {block}]
<1>1. \A b \in st.delayed : b.parent <= st.hqc
  BY Zenon DEF NodeInv, CertificatesInv
<1>2. seen \in NodeType /\ Untouched(st, seen) /\ seen.delayed = st.delayed
  BY <1>1, Zenon DEF NodeType, Untouched, SafetyKept
<1>3. late \in NodeType /\ Untouched(st, late)
  <2> HIDE DEF seen
  <2>1. /\ late \in NodeType /\ late.delayed = st.delayed \cup {block}
        /\ late.hqc = seen.hqc /\ late.htc = seen.htc /\ late.round = seen.round
        /\ late.vote_sent = seen.vote_sent /\ late.pending_votes = seen.pending_votes
        /\ SafetyKept(seen, late)
    BY <1>2, Zenon DEF NodeType, SafetyKept
  <2> HIDE DEF late
  <2>2. \A b \in late.delayed : b.parent <= st.hqc
    BY <1>1, <2>1, Zenon
  <2> QED BY <1>2, <2>1, <2>2, Zenon DEF Untouched, SafetyKept
<1>4. /\ r = Stop(st) \/ r = Done(late)
         \/ r = ProcessVerifiedProposal(n, seen, block, failure)
  BY Zenon DEF ProcessProposal
<1> HIDE DEF r, seen, late
<1>5. /\ NodeInv(n, seen) /\ Remembers(st, seen) /\ st.hqc <= seen.hqc
      /\ NodeInv(n, late) /\ Remembers(st, late) /\ st.hqc <= late.hqc
      /\ Remembers(st, st) /\ st.hqc <= st.hqc
  BY <1>2, <1>3, UntouchedKeeps, NodeFields DEF Remembers
<1>6. CASE r = Stop(st)
  BY <1>5, <1>6, QuietOutcome, Zenon DEF r
<1>7. CASE r = Done(late)
  BY <1>3, <1>5, <1>7, QuietOutcome, Zenon DEF r
<1>8. CASE r = ProcessVerifiedProposal(n, seen, block, failure)
  <2>1. block.round = seen.round /\ block.parent <= seen.hqc
    BY <1>2, Zenon DEF Untouched
  <2>2. Outcome(n, seen, r)
    BY <1>2, <1>5, <1>8, <2>1, VerifiedProposalOutcome, Zenon
  <2> QED BY <1>2, <1>5, <2>2, OutcomeFrom, Zenon DEF r
<1> QED BY <1>4, <1>6, <1>7, <1>8, Zenon

\* SafetyRules sign the vote for the NIL block of the round, or one is signed.
LEMMA NilVoteSigned ==
    ASSUME NEW n \in Validators, NEW st \in NodeType, NodeInv(n, st), st.vote_sent = NoVote,
           NEW block \in BlockType, block.round = st.round, block.parent = st.hqc
    PROVE  SignVote(n, st, block).vote # NoVote
<1>1. /\ st.round \in Nat /\ st.hqc \in Nat /\ st.htc.hqc \in Nat
      /\ st.last_voted_round \in Nat
  BY NodeFields, Zenon
<1>2. /\ st.round = CertifiedRound(st) /\ st.last_voted_round <= st.round
      /\ st.htc.hqc <= st.hqc
      /\ st.last_vote = NoVote => st.last_voted_round = 0
      /\ st.last_vote # NoVote => st.last_vote.digest.round = st.last_voted_round
  BY Zenon DEF NodeInv, VotesInv, CertificatesInv
<1>3. st.round > 0 /\ (st.round = st.hqc + 1 \/ st.round = st.htc.round + 1)
  BY <1>2, CertifiedRoundBounds, Zenon
<1>4. SafeToVote(st, block)
  BY <1>1, <1>2, <1>3, Zenon DEF SafeToVote
<1>5. CASE st.last_vote # NoVote /\ st.last_vote.digest.round = block.round
  BY <1>5, Zenon DEF SignVote
<1>6. CASE ~ (st.last_vote # NoVote /\ st.last_vote.digest.round = block.round)
  <2>1. st.last_voted_round # st.round
    BY <1>1, <1>2, <1>3, <1>6
  <2>2. ~ (block.round <= st.last_voted_round)
    BY <1>1, <1>2, <2>1
  <2>3. SignVote(n, st, block).vote = [author |-> n, digest |-> block, hqc |-> NoTimeout]
    BY <1>4, <1>6, <2>2, Zenon DEF SignVote
  <2>4. [author |-> n, digest |-> block, hqc |-> NoTimeout] \in VoteType
    BY Zenon DEF VoteType
  <2> QED BY <2>3, <2>4, NoVoteIsNone, Zenon
<1> QED BY <1>5, <1>6, Zenon

\* process_local_timeout; unless an operation fails, it ends with a message.
LEMMA LocalTimeoutOutcome ==
    ASSUME NEW n \in Validators, NEW st \in NodeType, NodeInv(n, st), NEW failure
    PROVE  /\ Outcome(n, st, ProcessLocalTimeout(n, st, failure))
           /\ failure = "none" => ProcessLocalTimeout(n, st, failure).ok
<1> DEFINE r == ProcessLocalTimeout(n, st, failure)
           nil_block == [round |-> st.round, nil |-> TRUE, parent |-> st.hqc, gen |-> 0]
           executed == ExecuteAndVote(n, st, nil_block, failure)
           voted == IF st.vote_sent # NoVote
                    THEN [st |-> st, vote |-> st.vote_sent]
                    ELSE executed
           timeout == IF voted.vote = NoVote \/ IsTimeout(voted.vote)
                      THEN voted
                      ELSE SignTimeout(voted.st, voted.vote)
           sent == RecordVote(timeout.st, timeout.vote)
<1>1. /\ nil_block \in BlockType /\ nil_block.round = st.round
      /\ nil_block.parent = st.hqc /\ nil_block.parent <= st.hqc
  BY NodeFields DEF BlockType
<1> HIDE DEF nil_block
<1>2. Remembers(st, st) /\ st.hqc <= st.hqc
  BY NodeFields DEF Remembers
<1>3. CASE st.back_pressure
  <2>1. r = [st |-> st, out |-> {SyncInfoMsg(st)}, ok |-> TRUE]
    BY <1>3, Zenon DEF ProcessLocalTimeout
  <2> HIDE DEF r
  <2>2. r.st = st /\ r.out = {SyncInfoMsg(st)} /\ r.ok = TRUE
        /\ r = [st |-> r.st, out |-> r.out, ok |-> r.ok]
    BY <2>1, Zenon
  <2> QED BY <1>2, <2>2, SyncInfoSent, Zenon DEF Outcome, r
<1>4. CASE ~ st.back_pressure
  <2>1. VoteResult(n, st, executed)
    BY <1>1, VoteExecuted, Zenon
  <2>2. VoteResult(n, st, voted)
    <3>1. CASE st.vote_sent # NoVote
      <4>1. voted = [st |-> st, vote |-> st.vote_sent]
        BY <3>1, Zenon
      <4>2. voted.st = st /\ voted.vote = st.vote_sent
        BY <4>1
      <4> HIDE DEF voted
      <4>3. IsCast(n, st, st.vote_sent)
        BY <3>1, NodeFields, Zenon DEF NodeInv, SentInv, IsCast
      <4> QED BY <1>2, <4>2, <4>3, Zenon DEF VoteResult
    <3>2. CASE st.vote_sent = NoVote
      <4>1. voted = executed
        BY <3>2, Zenon
      <4> HIDE DEF voted, executed
      <4> QED BY <2>1, <4>1, Zenon
    <3> QED BY <3>1, <3>2, Zenon
  <2>3. failure = "none" => voted.vote # NoVote
    <3>1. CASE st.vote_sent # NoVote
      BY <3>1, Zenon
    <3>2. ASSUME st.vote_sent = NoVote, failure = "none" PROVE voted.vote # NoVote
      <4> DEFINE signed == SignVote(n, st, nil_block)
      <4>1. signed.vote # NoVote
        BY <1>1, <3>2, NilVoteSigned, Zenon
      <4>2. voted = [signed EXCEPT !.st.saved_vote = signed.vote]
        <5>1. voted = executed
          BY <3>2, Zenon
        <5>2. ~ (failure = "execute" \/ st.vote_sent # NoVote \/ st.back_pressure)
              /\ ~ (signed.vote = NoVote \/ failure = "save")
          BY <1>4, <3>2, <4>1, Zenon
        <5> HIDE DEF voted
        <5> QED BY <5>1, <5>2, Zenon DEF ExecuteAndVote
      <4>3. signed = [st |-> signed.st, vote |-> signed.vote]
        BY Zenon DEF SignVote
      <4> HIDE DEF voted, signed
      <4>4. voted.vote = signed.vote
        BY <4>2, <4>3, Zenon
      <4> QED BY <4>1, <4>4, Zenon
    <3> QED BY <3>1, <3>2, Zenon
  <2> HIDE DEF voted, executed
  <2>4. VoteResult(n, st, timeout) /\ (failure = "none" => timeout.vote # NoVote)
    <3>1. CASE voted.vote = NoVote \/ IsTimeout(voted.vote)
      <4>1. timeout = voted
        BY <3>1, Zenon
      <4> HIDE DEF timeout
      <4> QED BY <2>2, <2>3, <4>1, Zenon
    <3>2. CASE ~ (voted.vote = NoVote \/ IsTimeout(voted.vote))
      <4>1. timeout = SignTimeout(voted.st, voted.vote)
        BY <3>2, Zenon
      <4> HIDE DEF timeout
      <4>2. VoteResult(n, voted.st, timeout) /\ timeout.vote # NoVote
        BY <2>2, <3>2, <4>1, TimeoutSigned, Zenon DEF VoteResult
      <4> QED BY <2>2, <4>2, Zenon DEF VoteResult, Remembers
    <3> QED BY <3>1, <3>2, Zenon
  <2>5. /\ timeout.vote = NoVote => r = Stop(timeout.st)
        /\ timeout.vote # NoVote =>
              r = [st |-> sent, out |-> {VoteMsg(sent, timeout.vote, Validators)}, ok |-> TRUE]
    BY <1>4, Zenon DEF ProcessLocalTimeout, voted, executed, nil_block
  <2> HIDE DEF timeout, r
  <2>6. CASE timeout.vote = NoVote
    BY <2>4, <2>5, <2>6, VoteRefused, Zenon DEF r
  <2>7. CASE timeout.vote # NoVote
    <3>1. r = [st |-> sent, ok |-> TRUE, out |-> {VoteMsg(sent, timeout.vote, Validators)}]
      BY <2>5, <2>7, Zenon
    <3> HIDE DEF sent
    <3>2. r.ok
      BY <3>1, Zenon
    <3>3. Outcome(n, st, r)
      BY <2>4, <2>7, <3>1, VoteSent, Zenon DEF sent
    <3> QED BY <3>2, <3>3, Zenon DEF r
  <2> QED BY <2>6, <2>7, Zenon
<1> QED BY <1>3, <1>4, Zenon

\* process_vote of a vote of the current round.
LEMMA VoteOutcome ==
    ASSUME NEW n \in Validators, NEW st \in NodeType, NodeInv(n, st),
           NEW vote \in VoteType, vote.hqc <= st.hqc, NEW failure
    PROVE  Outcome(n, st, ProcessVote(n, st, vote, failure))
<1> DEFINE r == ProcessVote(n, st, vote, failure)
           inserted == InsertVote(st.pending_votes, vote)
           result == inserted.result
           counted == [st EXCEPT !.pending_votes = inserted.pv]
           tc == [round |-> st.round, hqc |-> result.hqc]
<1>1. /\ st.hqc \in Nat /\ st.round \in Nat /\ st.pending_votes \in PendingVotesType
      /\ st.hqc <= st.hqc /\ Remembers(st, st)
  BY NodeFields DEF Remembers
<1>2. st.pending_votes.tc.hqc <= st.hqc
  BY Zenon DEF NodeInv, CertificatesInv
<1>3. /\ inserted.pv \in PendingVotesType /\ inserted.pv.tc.hqc <= st.hqc
      /\ result.kind = "tc" => result.hqc \in Nat /\ result.hqc <= st.hqc
  BY <1>1, <1>2, VoteInserted, Zenon
<1>4. \/ r = Stop(st)
      \/ r = ProcessCertificates(n, InsertQc(counted, st.round), failure)
      \/ result.kind = "tc" /\ r = ProcessCertificates(n, InsertTc(counted, tc), failure)
      \/ r = ProcessLocalTimeout(n, counted, failure)
      \/ r = Done(counted)
  BY Zenon DEF ProcessVote
<1> HIDE DEF r, inserted, result
<1>5. Ahead(n, st, counted) /\ counted.hqc = st.hqc
  <2>1. Ahead(n, st, counted)
    BY <1>3, CountedAhead, Zenon
  <2>2. counted.hqc = st.hqc
    BY Zenon DEF NodeType
  <2> QED BY <2>1, <2>2, Zenon
<1>6. NodeInv(n, counted) /\ Remembers(st, counted) /\ st.hqc <= counted.hqc
      /\ counted \in NodeType
  <2>1. counted.htc = st.htc
    BY Zenon DEF NodeType
  <2> HIDE DEF counted
  <2>2. CertifiedRound(counted) = CertifiedRound(st)
    BY <1>5, <2>1, Zenon DEF CertifiedRound
  <2>3. SentInv(n, counted)
    BY <1>5, Zenon DEF NodeInv, SentInv, Ahead, SafetyKept
  <2>4. NodeInv(n, counted)
    BY <1>5, <2>2, <2>3, Zenon DEF NodeInv, Ahead
  <2> QED BY <1>5, <2>4, SafetyKeptRemembers, Zenon DEF Ahead
<1> HIDE DEF counted
<1>7. CASE r = Stop(st)
  BY <1>1, <1>7, QuietOutcome, Zenon DEF r
<1>8. CASE r = ProcessCertificates(n, InsertQc(counted, st.round), failure)
  <2>1. Ahead(n, st, InsertQc(counted, st.round))
    BY <1>1, <1>5, InsertQcAhead, Zenon
  <2>2. Outcome(n, st, ProcessCertificates(n, InsertQc(counted, st.round), failure))
    BY <2>1, AheadProcessed, Zenon
  <2> QED BY <1>8, <2>2, Zenon DEF r
<1>9. CASE result.kind = "tc" /\ r = ProcessCertificates(n, InsertTc(counted, tc), failure)
  <2>1. tc \in TcType /\ tc.hqc <= counted.hqc
    BY <1>1, <1>3, <1>5, <1>9, Zenon DEF TcType
  <2> HIDE DEF tc
  <2>2. Ahead(n, st, InsertTc(counted, tc))
    BY <1>5, <2>1, InsertTcAhead, Zenon
  <2>3. Outcome(n, st, ProcessCertificates(n, InsertTc(counted, tc), failure))
    BY <2>2, AheadProcessed, Zenon
  <2> QED BY <1>9, <2>3, Zenon DEF r
<1>10. CASE r = ProcessLocalTimeout(n, counted, failure)
  BY <1>6, <1>10, LocalTimeoutOutcome, OutcomeFrom, Zenon DEF r
<1>11. CASE r = Done(counted)
  BY <1>6, <1>11, QuietOutcome, Zenon DEF r
<1> QED BY <1>4, <1>7, <1>8, <1>9, <1>10, <1>11, Zenon

\* A handler that first takes the certificates of a message.
LEMMA ThenOutcome ==
    ASSUME NEW n \in Validators, NEW st \in NodeType,
           NEW first, Outcome(n, st, first), \A m \in first.out : m.type # "vote",
           NEW second, first.ok => Outcome(n, first.st, second)
    PROVE  Outcome(n, st, Then(first, second))
<1> DEFINE r == Then(first, second)
<1>1. CASE ~ first.ok
  <2>1. r = first
    BY <1>1, Zenon DEF Then
  <2> HIDE DEF r
  <2> QED BY <2>1, Zenon DEF r
<1>2. CASE first.ok
  <2>1. r = [second EXCEPT !.out = @ \cup first.out]
    BY <1>2, Zenon DEF Then
  <2> HIDE DEF r
  <2>2. Outcome(n, st, second)
    BY <1>2, OutcomeFrom, Zenon DEF Outcome
  <2>3. /\ r.st = second.st /\ r.ok = second.ok /\ r.out = second.out \cup first.out
        /\ r = [st |-> r.st, out |-> r.out, ok |-> r.ok]
    BY <2>1, <2>2, Zenon DEF Outcome
  <2>4. \A m \in first.out : IsSent(n, second.st, m)
    BY Zenon DEF Outcome, IsSent
  <2>5. \A m \in r.out : IsSent(n, r.st, m)
    BY <2>2, <2>3, <2>4, Zenon DEF Outcome
  <2> QED BY <2>2, <2>3, <2>5, Zenon DEF Outcome, r
<1> QED BY <1>1, <1>2, Zenon

\* A message of the network.
LEMMA MessageFields ==
    ASSUME NEW m, IsMessage(m), MessageInv(m), m.type \in {"proposal", "vote", "sync"}
    PROVE  /\ MessageRound(m) \in Nat
           /\ m.sync \in SyncInfoType /\ m.sync.htc.hqc <= m.sync.hqc
           /\ m.type = "proposal" => MessageRound(m) = m.block.round
           /\ m.type = "vote" => MessageRound(m) = m.vote.digest.round
<1>1. m.sync \in SyncInfoType /\ m.sync.htc.hqc <= m.sync.hqc
  BY Zenon DEF IsMessage, MessageInv
<1>2. CASE m.type = "proposal"
  <2>1. MessageRound(m) = m.block.round
    BY <1>2, Zenon DEF MessageRound
  <2>2. m.block.round \in Nat
    BY <1>2, Zenon DEF IsMessage, BlockType
  <2> QED BY <1>1, <1>2, <2>1, <2>2, Zenon
<1>3. CASE m.type = "vote"
  <2>1. MessageRound(m) = m.vote.digest.round
    BY <1>3, Zenon DEF MessageRound
  <2>2. m.vote.digest.round \in Nat
    BY <1>3, VoteFields, Zenon DEF IsMessage
  <2> QED BY <1>1, <1>3, <2>1, <2>2, Zenon
<1>4. CASE m.type = "sync"
  <2>1. MessageRound(m) = HighestRound(m.sync) + 1
    BY <1>4, Zenon DEF MessageRound
  <2>2. m.sync.hqc \in Nat /\ m.sync.htc.round \in Nat
    BY <1>1, Zenon DEF SyncInfoType, TcType
  <2>3. HighestRound(m.sync) \in Nat
    BY <2>2, MaxBounds, Zenon DEF HighestRound
  <2> QED BY <1>1, <1>4, <2>1, <2>3
<1> QED BY <1>2, <1>3, <1>4, Zenon

\* The handlers of the three kinds of messages.
LEMMA MessageOutcome ==
    ASSUME NEW n \in Validators, node[n] \in NodeType, NodeInv(n, node[n]),
           NEW m, IsMessage(m), MessageInv(m), NEW failure
    PROVE  /\ m.type = "proposal" => Outcome(n, node[n], ProposalMsgOutcome(n, m, failure))
           /\ m.type = "vote" => Outcome(n, node[n], VoteMsgOutcome(n, m, failure))
           /\ m.type = "sync" => Outcome(n, node[n], SyncedUp(n, m, failure))
<1>1. SUFFICES ASSUME m.type \in {"proposal", "vote", "sync"}
               PROVE  /\ m.type = "proposal" =>
                            Outcome(n, node[n], ProposalMsgOutcome(n, m, failure))
                      /\ m.type = "vote" => Outcome(n, node[n], VoteMsgOutcome(n, m, failure))
                      /\ m.type = "sync" => Outcome(n, node[n], SyncedUp(n, m, failure))
  BY Zenon
<1> DEFINE up == SyncedUp(n, m, failure)
<1>2. /\ MessageRound(m) \in Nat /\ m.sync \in SyncInfoType /\ m.sync.htc.hqc <= m.sync.hqc
      /\ m.type = "proposal" => MessageRound(m) = m.block.round
      /\ m.type = "vote" => MessageRound(m) = m.vote.digest.round
  BY <1>1, MessageFields, Zenon
<1>3. /\ Outcome(n, node[n], up) /\ \A x \in up.out : x.type # "vote"
      /\ up.ok => MessageRound(m) = up.st.round /\ m.sync.hqc <= up.st.hqc
  BY <1>2, SyncedUpOutcome DEF SyncedUp
<1>4. /\ up.st \in NodeType /\ NodeInv(n, up.st) /\ up.st.hqc \in Nat /\ m.sync.hqc \in Nat
  <2>1. up.st \in NodeType /\ NodeInv(n, up.st)
    BY <1>3, Zenon DEF Outcome
  <2> QED BY <1>2, <2>1, NodeFields, Zenon DEF SyncInfoType
<1>5. CASE m.type = "proposal"
  <2>1. m.block \in BlockType /\ m.block.parent <= m.sync.hqc /\ m.block.parent \in Nat
    BY <1>5, Zenon DEF IsMessage, MessageInv, BlockType
  <2>2. up.ok => m.block.round = up.st.round /\ m.block.parent <= up.st.hqc
    <3> HIDE DEF up
    <3> QED BY <1>2, <1>3, <1>4, <1>5, <2>1
  <2>3. up.ok => Outcome(n, up.st, ProcessProposal(n, up.st, m.block, failure))
    BY <1>4, <2>1, <2>2, ProposalOutcome, Zenon
  <2>4. Outcome(n, node[n], ProposalMsgOutcome(n, m, failure))
    BY <1>3, <2>3, ThenOutcome, Zenon DEF ProposalMsgOutcome
  <2> QED BY <1>5, <2>4, Zenon
<1>6. CASE m.type = "vote"
  <2>1. m.vote \in VoteType /\ m.vote.hqc <= m.sync.hqc /\ m.vote.hqc \in Int
    BY <1>6, VoteFields, Zenon DEF IsMessage, MessageInv
  <2>2. up.ok => m.vote.hqc <= up.st.hqc
    <3> HIDE DEF up
    <3> QED BY <1>3, <1>4, <2>1
  <2>3. up.ok => Outcome(n, up.st, ProcessVote(n, up.st, m.vote, failure))
    BY <1>4, <2>1, <2>2, VoteOutcome, Zenon
  <2>4. Outcome(n, node[n], VoteMsgOutcome(n, m, failure))
    BY <1>3, <2>3, ThenOutcome, Zenon DEF VoteMsgOutcome
  <2> QED BY <1>6, <2>4, Zenon
<1>7. CASE m.type = "sync"
  BY <1>3, <1>7, Zenon
<1> QED BY <1>1, <1>5, <1>6, <1>7, Zenon

\* A proposal that waited for the end of back pressure.
LEMMA DelayedOutcome ==
    ASSUME NEW n \in Validators, node[n] \in NodeType, NodeInv(n, node[n]),
           NEW block \in node[n].delayed, NEW failure
    PROVE  Outcome(n, node[n], ProcessDelayedProposal(n, block, failure))
<1> DEFINE before == node[n]
           st == [before EXCEPT !.delayed = @ \ {block}]
           r == ProcessDelayedProposal(n, block, failure)
<1>1. r = IF block.round # st.round THEN Stop(st)
          ELSE ProcessVerifiedProposal(n, st, block, failure)
  BY Zenon DEF ProcessDelayedProposal
<1>2. before \in NodeType /\ NodeInv(n, before) /\ block \in before.delayed
  BY Zenon
<1> HIDE DEF before, r
<1>3. /\ \A b \in before.delayed : b.parent <= before.hqc
      /\ before.delayed \subseteq BlockType
  BY <1>2, NodeFields, Zenon DEF NodeInv, CertificatesInv
<1>4. st \in NodeType /\ Untouched(before, st)
  BY <1>2, <1>3, Zenon DEF NodeType, Untouched, SafetyKept
<1>5. st.hqc = before.hqc
  BY <1>4, Zenon DEF Untouched
<1> HIDE DEF st
<1>6. NodeInv(n, st) /\ Remembers(before, st) /\ before.hqc <= st.hqc
  BY <1>2, <1>4, UntouchedKeeps, Zenon
<1>7. CASE block.round # st.round
  <2>1. r = Stop(st)
    BY <1>1, <1>7, Zenon
  <2> QED BY <1>2, <1>4, <1>6, <2>1, QuietOutcome, Zenon DEF r, before
<1>8. CASE block.round = st.round
  <2>1. r = ProcessVerifiedProposal(n, st, block, failure)
    BY <1>1, <1>8, Zenon
  <2>2. block \in BlockType /\ block.parent <= st.hqc
    BY <1>2, <1>3, <1>5, Zenon
  <2>3. Outcome(n, st, r)
    BY <1>4, <1>6, <1>8, <2>1, <2>2, VerifiedProposalOutcome, Zenon
  <2>4. Outcome(n, before, r)
    BY <1>2, <1>4, <1>6, <2>3, OutcomeFrom, Zenon
  <2> QED BY <2>4, Zenon DEF r, before
<1> QED BY <1>7, <1>8, Zenon

-----------------------------------------------------------------------------
(* Starting and restarting. *)

\* RoundManager::init takes up the saved vote if it is of the round that the
\* certificates lead to.
LEMMA StartedOutcome ==
    ASSUME NEW n \in Validators, NEW st \in NodeType, VotesInv(n, st), CertificatesInv(st),
           st.round = 0, NEW failure
    PROVE  /\ Outcome(n, st, Started(n, st, failure))
           /\ \A m \in Started(n, st, failure).out : m.type # "vote"
<1> DEFINE up == ProcessCertificates(n, st, failure)
           sent == RecordVote(up.st, st.saved_vote)
           r == Started(n, st, failure)
<1>1. st.round < CertifiedRound(st) /\ st.round <= CertifiedRound(st)
      /\ st.round # CertifiedRound(st)
  BY CertifiedRoundBounds
<1>2. /\ Outcome(n, st, up) /\ SafetyKept(st, up.st) /\ up.st.hqc = st.hqc
      /\ \A m \in up.out : m.type # "vote"
  BY <1>1, CertificatesProcessed, Zenon
<1>3. r = [up EXCEPT !.st = sent]
  BY Zenon DEF Started
<1> HIDE DEF up, r
<1>4. up.st \in NodeType /\ NodeInv(n, up.st) /\ Remembers(st, up.st)
      /\ up = [st |-> up.st, out |-> up.out, ok |-> up.ok]
  BY <1>2, Zenon DEF Outcome
<1>5. /\ st.saved_vote \in VoteType \cup {NoVote}
      /\ st.saved_vote # NoVote => /\ st.saved_vote.author = n
                                  /\ st.saved_vote.hqc <= up.st.hqc
                                  /\ NotAfterLast(st.saved_vote, up.st)
  BY <1>2, NodeFields, Zenon DEF VotesInv, SafetyKept, NotAfterLast
<1>6. /\ sent \in NodeType /\ NodeInv(n, sent) /\ SafetyKept(up.st, sent)
      /\ sent.hqc = up.st.hqc
  BY <1>4, <1>5, VoteRecorded, Zenon
<1> HIDE DEF sent
<1>7. /\ r.st = sent /\ r.out = up.out /\ r.ok = up.ok
      /\ r = [st |-> r.st, out |-> r.out, ok |-> r.ok]
  BY <1>3, <1>4, Zenon
<1>8. Remembers(st, sent)
  BY <1>4, <1>6, SafetyKeptRemembers, Zenon DEF Remembers
<1>9. \A m \in r.out : IsSent(n, r.st, m)
  BY <1>2, <1>7, Zenon DEF Outcome, IsSent
<1>10. Outcome(n, st, r)
  BY <1>2, <1>6, <1>7, <1>8, <1>9, Zenon DEF Outcome
<1> QED BY <1>2, <1>7, <1>10, Zenon DEF r

\* A crash leaves the certificates, the saved vote and the SafetyData.
LEMMA RestartOutcome ==
    ASSUME NEW n \in Validators, NEW st \in NodeType, NodeInv(n, st), NEW failure
    PROVE  Outcome(n, st, Started(n, Kept(st), failure))
<1> DEFINE after == Kept(st)
<1>1. /\ after \in NodeType /\ after.round = 0 /\ after.delayed = {} /\ SafetyKept(st, after)
      /\ after.hqc = st.hqc /\ after.htc = st.htc /\ after.pending_votes = st.pending_votes
  <2>1. NoBlock \in BlockType
    BY Zenon DEF NoBlock, BlockType
  <2> DEFINE starts == st.starts + 1
  <2>2. starts \in Nat
    BY NodeFields
  <2>3. after = [st EXCEPT !.round = 0, !.already_proposed = NoBlock, !.delayed = {},
                           !.back_pressure = FALSE, !.starts = starts]
    BY Zenon DEF Kept
  <2> HIDE DEF starts, after
  <2>4. after \in NodeType
    BY <2>1, <2>2, <2>3, Zenon DEF NodeType
  <2> QED BY <2>3, <2>4, Zenon DEF NodeType, SafetyKept
<1> HIDE DEF after
<1>2. CertifiedRound(after) = CertifiedRound(st)
  BY <1>1, Zenon DEF CertifiedRound
<1>3. VotesInv(n, after)
  BY <1>1, <1>2, Zenon DEF NodeInv, VotesInv, NotAfterLast, SafetyKept
<1>4. CertificatesInv(after)
  BY <1>1, Zenon DEF NodeInv, CertificatesInv, SafetyKept
<1>5. Outcome(n, after, Started(n, after, failure))
  BY <1>1, <1>3, <1>4, StartedOutcome, Zenon
<1>6. Remembers(st, after) /\ st.hqc <= after.hqc
  BY <1>1, SafetyKeptRemembers, NodeFields
<1> QED BY <1>1, <1>5, <1>6, OutcomeFrom, Zenon DEF after

\* The storage of a scenario is one that a node can start from.
LEMMA NewNodeStarts ==
    ASSUME NEW n \in Validators, scenario \in Scenarios
    PROVE  /\ NewNode(n) \in NodeType /\ VotesInv(n, NewNode(n))
           /\ CertificatesInv(NewNode(n)) /\ NewNode(n).round = 0
<1> DEFINE rec == scenario.recovered[n]
           vote == rec.vote
           voted == IF vote = NoVote THEN NoBlock ELSE vote.digest
           st == NewNode(n)
<1>1. /\ rec.hqc \in Nat /\ rec.htc \in TcType /\ vote \in VoteType \cup {NoVote}
      /\ rec.htc.hqc <= rec.hqc
      /\ vote # NoVote =>
            /\ vote.author = n /\ vote.hqc <= rec.hqc
            /\ vote.digest.round <= Max(rec.hqc, rec.htc.round) + 1
            /\ vote.digest.parent <= rec.hqc
  BY ScenariosAssumption, Zenon
<1>2. NoBlock \in BlockType /\ NoBlock.round = 0 /\ NoBlock.parent = 0
  BY Zenon DEF NoBlock, BlockType
<1>3. st = [round |-> 0, hqc |-> rec.hqc, htc |-> rec.htc,
            vote_sent |-> NoVote, pending_votes |-> EmptyPendingVotes,
            already_proposed |-> NoBlock, delayed |-> {}, back_pressure |-> FALSE,
            starts |-> 0, last_voted_round |-> voted.round,
            one_chain_round |-> voted.parent, last_vote |-> vote, saved_vote |-> vote]
  BY Zenon DEF NewNode, Recovered
<1> HIDE DEF rec, vote, st
<1>4. rec.htc.round \in Nat
  BY <1>1, Zenon DEF TcType
<1>5. /\ voted \in BlockType /\ voted.round \in Nat /\ voted.parent \in Nat
      /\ vote = NoVote => voted.round = 0
      /\ vote # NoVote => vote.digest = voted
      /\ voted.round <= Max(rec.hqc, rec.htc.round) + 1 /\ voted.parent <= rec.hqc
  <2>1. Max(rec.hqc, rec.htc.round) \in Nat
    BY <1>1, <1>4, MaxBounds, Zenon
  <2>2. CASE vote = NoVote
    <3>1. voted = NoBlock
      BY <2>2, Zenon
    <3> HIDE DEF voted
    <3> QED BY <1>1, <1>2, <2>1, <2>2, <3>1
  <2>3. CASE vote # NoVote
    <3>1. voted = vote.digest
      BY <2>3, Zenon
    <3> HIDE DEF voted
    <3> QED BY <1>1, <2>3, <3>1, VoteFields, Zenon
  <2> QED BY <2>2, <2>3, Zenon
<1> HIDE DEF voted
<1>6. /\ st \in NodeType /\ st.round = 0 /\ st.hqc = rec.hqc /\ st.htc = rec.htc
      /\ st.pending_votes = EmptyPendingVotes /\ st.delayed = {}
      /\ st.last_voted_round = voted.round /\ st.one_chain_round = voted.parent
      /\ st.last_vote = vote /\ st.saved_vote = vote
  BY <1>1, <1>2, <1>3, <1>5, EmptyPendingVotesType, Zenon DEF NodeType
<1>7. CertifiedRound(st) = Max(rec.hqc, rec.htc.round) + 1
  BY <1>6, Zenon DEF CertifiedRound
<1>8. VotesInv(n, st)
  BY <1>1, <1>5, <1>6, <1>7, Zenon DEF VotesInv, NotAfterLast
<1>9. CertificatesInv(st)
  <2>1. EmptyPendingVotes.tc.hqc <= rec.hqc
    BY <1>1, EmptyPendingVotesType
  <2> QED BY <1>1, <1>5, <1>6, <2>1, Zenon DEF CertificatesInv
<1> QED BY <1>6, <1>8, <1>9, Zenon DEF st

-----------------------------------------------------------------------------
(* The invariant. *)

\* The outcome of whatever one node does keeps the invariant.
LEMMA OutcomeKeepsInv ==
    ASSUME IInv, NEW n \in Validators, NEW r, Outcome(n, node[n], r),
           node' = [node EXCEPT ![n] = r.st], msgs' \subseteq msgs \cup r.out,
           scenario' = scenario, faults' \in 0..MaxFaults, pressed' \in 0..MaxPressure
    PROVE  IInv'
<1>1. /\ scenario \in Scenarios /\ node \in [Validators -> NodeType]
      /\ \A m \in msgs : IsMessage(m) /\ MessageInv(m)
      /\ \A x \in Validators : NodeInv(x, node[x])
      /\ \A m \in msgs : m.type = "vote" => NotAfterLast(m.vote, node[m.vote.author])
      /\ \A m1, m2 \in msgs :
            /\ m1.type = "vote" /\ m2.type = "vote"
            /\ m1.vote.author = m2.vote.author
            /\ m1.vote.digest.round = m2.vote.digest.round
            => m1.vote.digest = m2.vote.digest
  BY Zenon DEF IInv, TypeOK, VoteMsgs, OneVotePerRound
<1>2. /\ r.st \in NodeType /\ NodeInv(n, r.st) /\ Remembers(node[n], r.st)
      /\ \A m \in r.out : IsSent(n, r.st, m)
  BY Zenon DEF Outcome
<1>3. /\ node' \in [Validators -> NodeType] /\ node'[n] = r.st
      /\ \A x \in Validators : x # n => node'[x] = node[x]
  BY <1>1, <1>2, Zenon
<1>4. \A x \in Validators : NodeInv(x, node'[x])
  BY <1>1, <1>2, <1>3, Zenon
<1>5. \A m \in msgs' : IsMessage(m) /\ MessageInv(m)
  BY <1>1, <1>2, Zenon DEF IsSent
<1>6. \A m \in msgs' : m.type = "vote" => m.vote \in VoteType /\ m.vote.author \in Validators
  BY <1>5, VoteFields, Zenon DEF IsMessage
<1>7. ASSUME NEW m \in msgs, m.type = "vote"
      PROVE  NotAfterLast(m.vote, node'[m.vote.author])
  <2>1. m.vote \in VoteType /\ m.vote.author \in Validators
        /\ NotAfterLast(m.vote, node[m.vote.author])
    BY <1>1, <1>7, VoteFields, Zenon DEF IsMessage
  <2>2. CASE m.vote.author = n
    BY <1>2, <1>3, <2>1, <2>2, Zenon DEF Remembers
  <2>3. CASE m.vote.author # n
    BY <1>3, <2>1, <2>3, Zenon
  <2> QED BY <2>2, <2>3, Zenon
<1>8. ASSUME NEW m \in r.out, m.type = "vote"
      PROVE  /\ m.vote.author = n /\ node'[n].last_vote # NoVote
             /\ m.vote.digest = node'[n].last_vote.digest
  BY <1>2, <1>3, <1>8, Zenon DEF IsSent
<1>9. \A m \in msgs' : m.type = "vote" => NotAfterLast(m.vote, node'[m.vote.author])
  BY <1>7, <1>8, Zenon DEF NotAfterLast
<1>10. ASSUME NEW m1 \in r.out, NEW m2 \in msgs, m2 \in msgs', m1.type = "vote", m2.type = "vote",
              m1.vote.author = m2.vote.author,
              m1.vote.digest.round = m2.vote.digest.round
       PROVE  m1.vote.digest = m2.vote.digest
  <2>1. /\ m2.vote.author = n /\ m1.vote.digest = node'[n].last_vote.digest
        /\ NotAfterLast(m2.vote, node'[n])
    BY <1>7, <1>8, <1>10, Zenon
  <2>2. m2.vote.digest.round \in Nat
    BY <1>6, <1>10, VoteFields, Zenon
  <2>3. ~ (m2.vote.digest.round < m1.vote.digest.round)
    <3>1. \A i \in Nat : ~ (i < i)
      OBVIOUS
    <3> QED BY <1>10, <2>2, <3>1, Zenon
  <2> QED BY <2>1, <2>3, Zenon DEF NotAfterLast
<1>11. \A m1, m2 \in msgs' :
            /\ m1.type = "vote" /\ m2.type = "vote"
            /\ m1.vote.author = m2.vote.author
            /\ m1.vote.digest.round = m2.vote.digest.round
            => m1.vote.digest = m2.vote.digest
  <2>1. SUFFICES ASSUME NEW m1 \in msgs', NEW m2 \in msgs',
                        m1.type = "vote", m2.type = "vote",
                        m1.vote.author = m2.vote.author,
                        m1.vote.digest.round = m2.vote.digest.round
                 PROVE  m1.vote.digest = m2.vote.digest
    BY Zenon
  <2>2. CASE m1 \in msgs /\ m2 \in msgs
    BY <1>1, <2>1, <2>2, Zenon
  <2>3. CASE m1 \in r.out /\ m2 \in msgs
    BY <1>10, <2>1, <2>3, Zenon
  <2>4. CASE m1 \in msgs /\ m2 \in r.out
    <3>1. /\ m2.vote.author = m1.vote.author
          /\ m2.vote.digest.round = m1.vote.digest.round
      BY <2>1, Zenon
    <3>2. m2.vote.digest = m1.vote.digest
      BY <1>10, <2>1, <2>4, <3>1, Zenon
    <3> QED BY <3>2, Zenon
  <2>5. CASE m1 \in r.out /\ m2 \in r.out
    <3>1. /\ m1.vote.digest = node'[n].last_vote.digest
          /\ m2.vote.digest = node'[n].last_vote.digest
      BY <1>8, <2>1, <2>5, Zenon
    <3> QED BY <3>1, Zenon
  <2>6. m1 \in msgs \cup r.out /\ m2 \in msgs \cup r.out
    BY Zenon
  <2> QED BY <2>2, <2>3, <2>4, <2>5, <2>6, Zenon
<1>12. TypeOK'
  <2>1. MaxFaults' = MaxFaults /\ MaxPressure' = MaxPressure
    BY Zenon DEF MaxFaults, MaxPressure
  <2> QED BY <1>1, <1>3, <1>5, <2>1, Zenon DEF TypeOK
<1>13. OneVotePerRound' /\ \A m \in VoteMsgs' : NotAfterLast(m.vote, node'[m.vote.author])
  BY <1>9, <1>11, Zenon DEF OneVotePerRound, VoteMsgs
<1> QED BY <1>4, <1>5, <1>12, <1>13, Zenon DEF IInv

\* Back pressure is no concern of SafetyRules.
LEMMA PressureOutcome ==
    ASSUME NEW n \in Validators, NEW st \in NodeType, NodeInv(n, st), NEW pressure \in BOOLEAN
    PROVE  Outcome(n, st, Done([st EXCEPT !.back_pressure = pressure]))
<1> DEFINE after == [st EXCEPT !.back_pressure = pressure]
<1>1. \A b \in st.delayed : b.parent <= st.hqc
  BY Zenon DEF NodeInv, CertificatesInv
<1>2. after \in NodeType /\ Untouched(st, after)
  BY <1>1, Zenon DEF NodeType, Untouched, SafetyKept
<1> HIDE DEF after
<1>3. NodeInv(n, after) /\ Remembers(st, after) /\ st.hqc <= after.hqc
  BY <1>2, UntouchedKeeps, Zenon
<1> QED BY <1>2, <1>3, QuietOutcome, Zenon DEF after

\* The whole of a handler, with the failure it may meet.
LEMMA HandledKeepsInv ==
    ASSUME IInv, NEW n \in Validators, NEW r, Outcome(n, node[n], r),
           NEW failure, failure # "none" => MayFail(n), Handled(n, r, failure)
    PROVE  IInv'
<1>1. /\ node' = [node EXCEPT ![n] = r.st] /\ scenario' = scenario /\ pressed' = pressed
      /\ msgs' \subseteq msgs \cup r.out
  BY Zenon DEF Handled, Send
<1>2. faults' \in 0..MaxFaults
  <2>1. scenario \in Scenarios /\ faults \in 0..MaxFaults
    BY Zenon DEF IInv, TypeOK
  <2>2. MaxFaults \in Nat
    BY <2>1, ScenariosAssumption, Zenon DEF MaxFaults
  <2>3. faults' = faults \/ (faults' = faults + 1 /\ faults < MaxFaults)
    BY Zenon DEF Handled, MayFail
  <2> HIDE DEF MaxFaults
  <2> QED BY <2>1, <2>2, <2>3
<1>3. pressed' \in 0..MaxPressure
  BY <1>1, Zenon DEF IInv, TypeOK
<1> QED BY <1>1, <1>2, <1>3, OutcomeKeepsInv, Zenon

\* Every step of every node keeps the invariant.
LEMMA StepKeepsInv == IInv /\ [Next]_vars => IInv'
<1> SUFFICES ASSUME IInv, [Next]_vars PROVE IInv'
  BY Zenon
<1>1. /\ scenario \in Scenarios /\ node \in [Validators -> NodeType]
      /\ \A m \in msgs : IsMessage(m) /\ MessageInv(m)
      /\ \A x \in Validators : node[x] \in NodeType /\ NodeInv(x, node[x])
      /\ faults \in 0..MaxFaults /\ pressed \in 0..MaxPressure
  BY Zenon DEF IInv, TypeOK
<1>2. Running \subseteq Validators /\ MaxFaults \in Nat /\ MaxPressure \in Nat
  BY <1>1, ScenariosAssumption, Zenon DEF Running, MaxFaults, MaxPressure
<1>3. CASE UNCHANGED vars
  BY <1>3, Zenon DEF vars, IInv, TypeOK, VoteMsgs, OneVotePerRound, MaxFaults, MaxPressure
<1>4. ASSUME NEW n \in Running, NEW failure, failure # "none" => MayFail(n),
             NEW m \in msgs, Receive(n, m, failure)
      PROVE  IInv'
  <2>1. /\ m.type = "proposal" => Outcome(n, node[n], ProposalMsgOutcome(n, m, failure))
        /\ m.type = "vote" => Outcome(n, node[n], VoteMsgOutcome(n, m, failure))
        /\ m.type = "sync" => Outcome(n, node[n], SyncedUp(n, m, failure))
    BY <1>1, <1>2, <1>4, MessageOutcome, Zenon
  <2>2. CASE ProcessProposalMsg(n, m, failure)
    BY <1>2, <1>4, <2>1, <2>2, HandledKeepsInv, Zenon DEF ProcessProposalMsg
  <2>3. CASE ProcessVoteMsg(n, m, failure)
    BY <1>2, <1>4, <2>1, <2>3, HandledKeepsInv, Zenon DEF ProcessVoteMsg
  <2>4. CASE ProcessSyncInfoMsg(n, m, failure)
    BY <1>2, <1>4, <2>1, <2>4, HandledKeepsInv, Zenon DEF ProcessSyncInfoMsg
  <2> QED BY <1>4, <2>2, <2>3, <2>4, Zenon DEF Receive
<1>5. ASSUME NEW n \in Running, NEW failure, failure # "none" => MayFail(n),
             LocalTimeout(n, failure)
      PROVE  IInv'
  <2>1. Outcome(n, node[n], ProcessLocalTimeout(n, node[n], failure))
    BY <1>1, <1>2, LocalTimeoutOutcome, Zenon
  <2> QED BY <1>2, <1>5, <2>1, HandledKeepsInv, Zenon DEF LocalTimeout
<1>6. ASSUME NEW n \in Running, NEW failure, failure # "none" => MayFail(n),
             DelayedProposal(n, failure)
      PROVE  IInv'
  <2>1. PICK block \in node[n].delayed :
            Handled(n, ProcessDelayedProposal(n, block, failure), failure)
    BY <1>6, Zenon DEF DelayedProposal
  <2>2. Outcome(n, node[n], ProcessDelayedProposal(n, block, failure))
    BY <1>1, <1>2, DelayedOutcome, Zenon
  <2> QED BY <1>2, <1>6, <2>1, <2>2, HandledKeepsInv, Zenon
<1>7. ASSUME NEW n \in Running, NEW failure, Restart(n, failure)
      PROVE  IInv'
  <2> DEFINE r == Started(n, Kept(node[n]), failure)
  <2>1. Outcome(n, node[n], r)
    BY <1>1, <1>2, RestartOutcome, Zenon
  <2>2. /\ node' = [node EXCEPT ![n] = r.st] /\ scenario' = scenario /\ pressed' = pressed
        /\ Send(r.out) /\ MayFail(n) /\ faults' = faults + 1
    BY <1>7, Zenon DEF Restart
  <2> HIDE DEF r
  <2>3. msgs' \subseteq msgs \cup r.out
    BY <2>2, Zenon DEF Send
  <2>4. faults < MaxFaults
    BY <2>2, Zenon DEF MayFail
  <2> HIDE DEF MaxFaults
  <2>5. faults' \in 0..MaxFaults
    BY <1>1, <1>2, <2>2, <2>4
  <2>6. pressed' \in 0..MaxPressure
    BY <1>1, <2>2, Zenon
  <2> QED BY <1>2, <2>1, <2>2, <2>3, <2>5, <2>6, OutcomeKeepsInv, Zenon
<1>8. ASSUME NEW n \in Running, FallBehind(n) \/ CatchUp(n)
      PROVE  IInv'
  <2>1. PICK pressure \in BOOLEAN :
            /\ node' = [node EXCEPT ![n] = [node[n] EXCEPT !.back_pressure = pressure]]
            /\ pressed' = pressed \/ (pressed' = pressed + 1 /\ pressed < MaxPressure)
            /\ scenario' = scenario /\ msgs' = msgs /\ faults' = faults
    BY <1>8, Zenon DEF FallBehind, CatchUp
  <2> DEFINE r == Done([node[n] EXCEPT !.back_pressure = pressure])
  <2>2. Outcome(n, node[n], r)
    BY <1>1, <1>2, PressureOutcome, Zenon
  <2>3. r.st = [node[n] EXCEPT !.back_pressure = pressure]
    BY Zenon DEF Done
  <2> HIDE DEF r, MaxPressure
  <2>4. pressed' \in 0..MaxPressure
    BY <1>1, <1>2, <2>1
  <2>5. node' = [node EXCEPT ![n] = r.st] /\ msgs' \subseteq msgs \cup r.out
        /\ faults' \in 0..MaxFaults
    BY <1>1, <2>1, <2>3, Zenon
  <2> QED BY <1>2, <2>1, <2>2, <2>4, <2>5, OutcomeKeepsInv, Zenon
<1>9. CASE Finished
  BY <1>3, <1>9, Zenon DEF Finished
<1>10. CASE \E n \in Running :
          \/ \E failure \in IF MayFail(n) THEN Failures ELSE {"none"} :
                \/ \E m \in msgs : Receive(n, m, failure)
                \/ LocalTimeout(n, failure)
                \/ DelayedProposal(n, failure)
                \/ Restart(n, failure)
          \/ FallBehind(n)
          \/ CatchUp(n)
  <2>1. PICK n \in Running :
          \/ \E failure \in IF MayFail(n) THEN Failures ELSE {"none"} :
                \/ \E m \in msgs : Receive(n, m, failure)
                \/ LocalTimeout(n, failure)
                \/ DelayedProposal(n, failure)
                \/ Restart(n, failure)
          \/ FallBehind(n)
          \/ CatchUp(n)
    BY <1>10, Zenon
  <2>2. \A failure \in IF MayFail(n) THEN Failures ELSE {"none"} :
            failure # "none" => MayFail(n)
    BY Zenon
  <2> QED BY <1>4, <1>5, <1>6, <1>7, <1>8, <2>1, <2>2, Zenon
<1> QED BY <1>3, <1>9, <1>10, Zenon DEF Next

\* The nodes start from their storage with the invariant, and no vote is sent yet.
LEMMA InitEstablishesInv == Init => IInv
<1> SUFFICES ASSUME Init PROVE IInv
  BY Zenon
<1>1. /\ scenario \in Scenarios
      /\ node = [n \in Validators |-> Started(n, NewNode(n), "none").st]
      /\ msgs = UNION {Started(n, NewNode(n), "none").out : n \in Running}
      /\ faults = 0 /\ pressed = 0
  BY Zenon DEF Init
<1>2. Running \subseteq Validators /\ MaxFaults \in Nat /\ MaxPressure \in Nat
  BY <1>1, ScenariosAssumption, Zenon DEF Running, MaxFaults, MaxPressure
<1>3. ASSUME NEW n \in Validators
      PROVE  /\ Outcome(n, NewNode(n), Started(n, NewNode(n), "none"))
             /\ \A m \in Started(n, NewNode(n), "none").out : m.type # "vote"
  BY <1>1, NewNodeStarts, StartedOutcome, Zenon
<1>4. \A n \in Validators : node[n] = Started(n, NewNode(n), "none").st
  BY <1>1, Zenon
<1>5. \A n \in Validators : node[n] \in NodeType /\ NodeInv(n, node[n])
  BY <1>3, <1>4, Zenon DEF Outcome
<1>6. node \in [Validators -> NodeType]
  BY <1>1, <1>5, Zenon
<1>7. \A m \in msgs : IsMessage(m) /\ MessageInv(m) /\ m.type # "vote"
  <2>1. SUFFICES ASSUME NEW m \in msgs PROVE IsMessage(m) /\ MessageInv(m) /\ m.type # "vote"
    BY Zenon
  <2>2. PICK n \in Running : m \in Started(n, NewNode(n), "none").out
    BY <1>1, Zenon
  <2> QED BY <1>2, <1>3, <2>2, Zenon DEF Outcome, IsSent
<1>8. TypeOK
  <2> HIDE DEF MaxFaults, MaxPressure
  <2>1. faults \in 0..MaxFaults /\ pressed \in 0..MaxPressure
    BY <1>1, <1>2
  <2> QED BY <1>1, <1>6, <1>7, <2>1, Zenon DEF TypeOK
<1>9. VoteMsgs = {}
  BY <1>7, Zenon DEF VoteMsgs
<1> QED BY <1>5, <1>7, <1>8, <1>9, Zenon DEF IInv, OneVotePerRound

\* In every reachable state every node is in the round of its certificates, its
\* SafetyData, storage and round state agree, and it has sent votes for at most
\* one block in each round, whatever is lost, repeated, restarted or fails.
THEOREM Inductive == Spec => []IInv
<1>1. Init => IInv
  BY InitEstablishesInv, Zenon
<1>2. IInv /\ [Next]_vars => IInv'
  BY StepKeepsInv, Zenon
<1> QED BY <1>1, <1>2, PTL DEF Spec

-----------------------------------------------------------------------------
(* What the invariant is for. *)

\* Two quorums of voting power (ValidatorVerifier) have a validator in common.
LEMMA QuorumsMeet ==
    ASSUME NEW S \in SUBSET Validators, NEW T \in SUBSET Validators,
           CheckVotingPower(S), CheckVotingPower(T)
    PROVE  S \cap T # {}
<1> DEFINE total == VotingPower[Validators]
           rest == Validators \ (S \cup T)
           q == (total * 2) \div 3 + 1
<1>1. SUFFICES ASSUME S \cap T = {} PROVE FALSE
  BY Zenon
<1>2. VotingPower[S] \in Nat /\ VotingPower[T] \in Nat /\ VotingPower[rest] \in Nat
      /\ total \in Nat /\ rest \in SUBSET Validators /\ S \cup T \in SUBSET Validators
  BY PowerAssumption, Zenon
<1>3. VotingPower[S \cup T] = VotingPower[S] + VotingPower[T]
  BY <1>1, PowerAssumption, Zenon
<1>4. total = VotingPower[S \cup T] + VotingPower[rest]
  <2>1. (S \cup T) \cap rest = {} /\ (S \cup T) \cup rest = Validators
    BY Zenon
  <2> QED BY <1>2, <2>1, PowerAssumption, Zenon
<1>5. VotingPower[S] >= q /\ VotingPower[T] >= q
  BY Zenon DEF CheckVotingPower, quorum_voting_power, total_voting_power
<1> HIDE DEF total, rest
<1>6. q \in Nat /\ 2 * q > total
  BY <1>2
<1> HIDE DEF q
<1> QED BY <1>2, <1>3, <1>4, <1>5, <1>6

\* No two blocks of a round are certified by votes of insert_vote's quorums: the
\* statement that SafetyRules and the saved votes exist for.
THEOREM RoundsHaveOneQuorum == Spec => []OneQuorumPerRound
<1>1. IInv => OneQuorumPerRound
  <2> DEFINE blocks == {m.vote.digest : m \in {v \in msgs : v.type = "vote"}}
             certified == {block \in blocks : CheckVotingPower(Voters(block))}
  <2>1. SUFFICES ASSUME IInv, NEW b1 \in certified, NEW b2 \in certified, b1.round = b2.round
                 PROVE  b1 = b2
    BY Zenon DEF OneQuorumPerRound
  <2>2. Voters(b1) \cap Voters(b2) # {}
    <3>1. /\ CheckVotingPower(Voters(b1)) /\ CheckVotingPower(Voters(b2))
          /\ Voters(b1) \in SUBSET Validators /\ Voters(b2) \in SUBSET Validators
      BY Zenon DEF Voters
    <3> QED BY <3>1, QuorumsMeet, Zenon
  <2>3. PICK v \in Validators : v \in Voters(b1) /\ v \in Voters(b2)
    BY <2>2, Zenon DEF Voters
  <2>4. PICK m1 \in msgs : m1.type = "vote" /\ m1.vote.digest = b1 /\ m1.vote.author = v
    BY <2>3, Zenon DEF Voters
  <2>5. PICK m2 \in msgs : m2.type = "vote" /\ m2.vote.digest = b2 /\ m2.vote.author = v
    BY <2>3, Zenon DEF Voters
  <2>6. m1 \in VoteMsgs /\ m2 \in VoteMsgs
    BY <2>4, <2>5, Zenon DEF VoteMsgs
  <2> QED BY <2>1, <2>4, <2>5, <2>6, Zenon DEF IInv, OneVotePerRound
<1> QED BY <1>1, Inductive, PTL

\* A node whose timer fires can always sign a vote and a timeout of its round
\* (process_local_timeout), so SafetyRules never lock a node out of its round.
THEOREM TimeoutsAreSigned == Spec => []NodesCanTimeOut
<1>1. IInv => NodesCanTimeOut
  <2> SUFFICES ASSUME IInv, NEW n \in Running
               PROVE  ProcessLocalTimeout(n, node[n], "none").ok
    BY Zenon DEF NodesCanTimeOut
  <2>1. scenario \in Scenarios
    BY Zenon DEF IInv, TypeOK
  <2>2. n \in Validators
    BY <2>1, ScenariosAssumption, Zenon DEF Running
  <2>3. node[n] \in NodeType /\ NodeInv(n, node[n])
    BY <2>2, Zenon DEF IInv, TypeOK
  <2> QED BY <2>2, <2>3, LocalTimeoutOutcome, Zenon
<1> QED BY <1>1, Inductive, PTL

=============================================================================
