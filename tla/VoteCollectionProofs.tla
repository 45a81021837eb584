------------------------ MODULE VoteCollectionProofs ------------------------
(***************************************************************************)
(* Proofs about vote collection, for every validator set, every            *)
(* distribution of voting power, every set of blocks and every round.      *)
(*                                                                         *)
(* The inductive invariant is TypeOK /\ VotesAreCounted.  OneBlockCertified*)
(* is not inductive: that a second block cannot gather a quorum depends on *)
(* every signature counted being the one of its author's stored vote.      *)
(***************************************************************************)
EXTENDS VoteCollection, TLAPS

(***************************************************************************)
(* ValidatorVerifier::new's total * 2 / 3 + 1: two quorums share more      *)
(* voting power than total - quorum, the power insert_vote calls f.        *)
(***************************************************************************)
THEOREM QuorumIntersection ==
    ASSUME NEW S \in SUBSET Validators, NEW T \in SUBSET Validators,
           CheckVotingPower(S), CheckVotingPower(T)
    PROVE  VotingPower[S \cap T] >= FPlusOne /\ S \cap T # {}
<1> DEFINE both == VotingPower[S \cap T]
           onlyS == VotingPower[S \ T]
           onlyT == VotingPower[T \ S]
           none == VotingPower[Validators \ (S \cup T)]
           total == VotingPower[Validators]
<1>1. /\ both \in Nat /\ onlyS \in Nat /\ onlyT \in Nat /\ none \in Nat /\ total \in Nat
  BY PowerAssumption
<1>2. VotingPower[S] = both + onlyS
  <2>1. /\ (S \cap T) \cap (S \ T) = {} /\ (S \cap T) \cup (S \ T) = S
        /\ S \cap T \in SUBSET Validators /\ S \ T \in SUBSET Validators
    OBVIOUS
  <2> QED BY <2>1, PowerAssumption
<1>3. VotingPower[T] = both + onlyT
  <2>1. /\ (S \cap T) \cap (T \ S) = {} /\ (S \cap T) \cup (T \ S) = T
        /\ S \cap T \in SUBSET Validators /\ T \ S \in SUBSET Validators
    OBVIOUS
  <2> QED BY <2>1, PowerAssumption
<1>4. total = VotingPower[S] + onlyT + none
  <2>1. /\ S \cap (T \ S) = {} /\ S \cup (T \ S) = S \cup T
        /\ S \cup T \in SUBSET Validators /\ T \ S \in SUBSET Validators
        /\ (S \cup T) \cap (Validators \ (S \cup T)) = {}
        /\ (S \cup T) \cup (Validators \ (S \cup T)) = Validators
        /\ Validators \ (S \cup T) \in SUBSET Validators
    OBVIOUS
  <2>2. VotingPower[S \cup T] = VotingPower[S] + onlyT
    BY <2>1, PowerAssumption
  <2>3. total = VotingPower[S \cup T] + none
    BY <2>1, PowerAssumption
  <2> QED BY <2>2, <2>3
<1>5. PICK q \in Nat : /\ q = (total * 2) \div 3
                       /\ 3 * q <= 2 * total /\ 2 * total < 3 * q + 3
  BY <1>1
<1>6. quorum_voting_power = q + 1 /\ FPlusOne = total - q
  BY <1>1, <1>5 DEF quorum_voting_power, FPlusOne, total_voting_power
<1> HIDE DEF both, onlyS, onlyT, none, total
<1>7. /\ both + onlyS >= q + 1 /\ both + onlyT >= q + 1
      /\ total = both + onlyS + onlyT + none
  BY <1>1, <1>2, <1>3, <1>4, <1>6 DEF CheckVotingPower
<1>8. both >= total - q /\ total - q >= 1
  BY <1>1, <1>5, <1>7
<1>9. both >= FPlusOne /\ both # 0
  BY <1>1, <1>5, <1>6, <1>8
<1>10. S \cap T # {}
  BY <1>9, PowerAssumption DEF both
<1> QED BY <1>9, <1>10 DEF both

-----------------------------------------------------------------------------
\* What a step does: nothing to the structure, or one vote is stored and the
\* timeout part, if it is reached, is added.
PvType == [author_to_vote : SUBSET Votes,
           li_digest_to_votes : SUBSET (Digests \X Validators),
           tc : [hqc : HqcRounds \cup {NoTimeout},
                 signed : SUBSET (Validators \X HqcRounds)],
           echo_timeout : BOOLEAN]

StoredVote(vote) ==
    /\ pv' \in PvType
    /\ ~ DuplicateOrEquivocate(pv, vote)
    /\ pv'.author_to_vote = {v \in pv.author_to_vote : v.author # vote.author} \cup {vote}
    /\ pv'.li_digest_to_votes = pv.li_digest_to_votes \cup {<<vote.digest, vote.author>>}

StepQc(vote) ==
    /\ pv'.tc = pv.tc
    /\ pv'.echo_timeout = pv.echo_timeout
    /\ CheckVotingPower(Signers(pv', vote.digest))
    /\ certificates' = certificates \cup {NewQc(pv', vote.digest)}

StepNoQc(vote) ==
    /\ ~ CheckVotingPower(Signers(pv', vote.digest))
    /\ \/ /\ pv'.tc = pv.tc
          /\ pv'.echo_timeout = pv.echo_timeout
          /\ certificates' = certificates
       \/ /\ IsTimeout(vote)
          /\ pv'.tc = AddTimeout(pv.tc, vote)
          /\ pv'.echo_timeout \in BOOLEAN
          /\ \/ /\ CheckVotingPower(TcSigners(pv'.tc))
                /\ certificates' = certificates \cup {NewTc(pv'.tc)}
             \/ /\ ~ CheckVotingPower(TcSigners(pv'.tc))
                /\ certificates' = certificates

\* The partial timeout certificate keeps its type.
LEMMA AddTimeoutType ==
    ASSUME TypeOK, NEW vote \in Votes, IsTimeout(vote)
    PROVE  /\ AddTimeout(pv.tc, vote) \in [hqc : HqcRounds,
                                           signed : SUBSET (Validators \X HqcRounds)]
           /\ vote.hqc \in HqcRounds /\ vote.author \in Validators
           /\ HqcRounds \subseteq Nat
<1>1. vote.hqc \in HqcRounds /\ vote.author \in Validators
  BY DEF Votes, IsTimeout
<1>2. HqcRounds \subseteq Nat
  BY RoundAssumption DEF HqcRounds
<1>3. pv.tc \in [hqc : HqcRounds \cup {NoTimeout}, signed : SUBSET (Validators \X HqcRounds)]
  BY DEF TypeOK
<1>4. (IF vote.hqc > pv.tc.hqc THEN vote.hqc ELSE pv.tc.hqc) \in HqcRounds
  <2>1. pv.tc.hqc \in HqcRounds \/ pv.tc.hqc = -1
    BY <1>3 DEF NoTimeout
  <2>a. vote.hqc \in Nat
    BY <1>1, <1>2, Zenon
  <2>b. \A n \in Nat : n > -1
    OBVIOUS
  <2>2. pv.tc.hqc = -1 => vote.hqc > pv.tc.hqc
    BY <2>a, <2>b
  <2> QED BY <1>1, <2>1, <2>2
<1>5. (pv.tc.signed \cup {<<vote.author, vote.hqc>>}) \in SUBSET (Validators \X HqcRounds)
  BY <1>1, <1>3
<1> QED BY <1>1, <1>2, <1>3, <1>4, <1>5 DEF AddTimeout

\* What insert_vote does: it refuses the vote, or stores it and builds at most one certificate.
LEMMA InsertStep ==
    ASSUME TypeOK, NEW vote \in Votes, Insert(vote)
    PROVE  \/ pv' = pv /\ certificates' = certificates
           \/ StoredVote(vote) /\ (StepQc(vote) \/ StepNoQc(vote))
<1> DEFINE r == InsertVote(pv, vote)
           stored == StoreVote(pv, vote)
           tc == AddTimeout(stored.tc, vote)
<1>1. pv \in PvType
  BY DEF TypeOK, PvType
<1>2. /\ pv' = r.pv
      /\ certificates' = IF r.result.kind \in {"qc", "tc"}
                         THEN certificates \cup {r.result} ELSE certificates
  BY DEF Insert
<1>3. /\ stored.author_to_vote = {v \in pv.author_to_vote : v.author # vote.author} \cup {vote}
      /\ stored.li_digest_to_votes = pv.li_digest_to_votes \cup {<<vote.digest, vote.author>>}
      /\ stored.tc = pv.tc
      /\ stored.echo_timeout = pv.echo_timeout
      /\ stored \in PvType
  <2>1. /\ {v \in pv.author_to_vote : v.author # vote.author} \cup {vote} \in SUBSET Votes
        /\ pv.li_digest_to_votes \cup {<<vote.digest, vote.author>>} \in SUBSET (Digests \X Validators)
    BY <1>1 DEF PvType, Votes
  <2> QED BY <1>1, <2>1 DEF StoreVote, PvType
<1>4. CASE DuplicateOrEquivocate(pv, vote)
  <2>1. r = [pv |-> pv, result |-> [kind |-> "rejected"]]
    BY <1>4 DEF InsertVote
  <2> QED BY <1>2, <2>1
<1>5. CASE ~ DuplicateOrEquivocate(pv, vote) /\ CheckVotingPower(Signers(stored, vote.digest))
  <2>1. r = [pv |-> stored, result |-> NewQc(stored, vote.digest)]
    BY <1>5 DEF InsertVote
  <2>2. pv' = stored /\ certificates' = certificates \cup {NewQc(stored, vote.digest)}
    BY <1>2, <2>1 DEF NewQc
  <2> HIDE DEF stored, r
  <2> QED BY <1>3, <1>5, <2>2 DEF StoredVote, StepQc
<1>6. CASE /\ ~ DuplicateOrEquivocate(pv, vote)
           /\ ~ CheckVotingPower(Signers(stored, vote.digest))
           /\ ~ IsTimeout(vote)
  <2>1. r = [pv |-> stored, result |-> [kind |-> "vote_added"]]
    BY <1>6 DEF InsertVote
  <2>2. pv' = stored /\ certificates' = certificates
    BY <1>2, <2>1
  <2> HIDE DEF stored, r
  <2> QED BY <1>3, <1>6, <2>2 DEF StoredVote, StepNoQc
<1>7. CASE /\ ~ DuplicateOrEquivocate(pv, vote)
           /\ ~ CheckVotingPower(Signers(stored, vote.digest))
           /\ IsTimeout(vote)
  <2> DEFINE added == [stored EXCEPT !.tc = tc]
  <2>1. r = InsertTimeout(stored, vote)
    BY <1>7 DEF InsertVote
  <2>2. /\ added.author_to_vote = stored.author_to_vote
        /\ added.li_digest_to_votes = stored.li_digest_to_votes
        /\ added.tc = tc
        /\ added.echo_timeout = stored.echo_timeout
        /\ added \in PvType
    <3>1. tc \in [hqc : HqcRounds \cup {NoTimeout}, signed : SUBSET (Validators \X HqcRounds)]
      BY <1>3, <1>7, AddTimeoutType
    <3> HIDE DEF stored, tc
    <3> QED BY <1>3, <3>1 DEF PvType
  <2>3. Signers(added, vote.digest) = Signers(stored, vote.digest)
    BY <2>2 DEF Signers
  <2>4. CASE CheckVotingPower(TcSigners(tc))
    <3>1. r = [pv |-> added, result |-> NewTc(tc)]
      BY <2>1, <2>4 DEF InsertTimeout
    <3>2. pv' = added /\ certificates' = certificates \cup {NewTc(tc)}
      BY <1>2, <3>1 DEF NewTc
    <3>3. pv'.echo_timeout \in BOOLEAN
      BY <1>1, <1>3, <2>2, <3>2 DEF PvType
    <3>4. tc = AddTimeout(pv.tc, vote)
      BY <1>3
    <3> HIDE DEF stored, r, tc, added
    <3> QED BY <1>3, <1>7, <2>2, <2>3, <2>4, <3>2, <3>3, <3>4 DEF StoredVote, StepNoQc
  <2>5. CASE ~ CheckVotingPower(TcSigners(tc))
    <3>1. \/ r = [pv |-> [added EXCEPT !.echo_timeout = TRUE],
                  result |-> [kind |-> "echo_timeout"]]
          \/ r = [pv |-> added, result |-> [kind |-> "vote_added"]]
      BY <2>1, <2>5 DEF InsertTimeout
    <3>2. /\ certificates' = certificates
          /\ pv' = added \/ pv' = [added EXCEPT !.echo_timeout = TRUE]
      BY <1>2, <3>1
    <3>3. /\ pv'.author_to_vote = stored.author_to_vote
          /\ pv'.li_digest_to_votes = stored.li_digest_to_votes
          /\ pv'.tc = tc
          /\ pv'.echo_timeout \in BOOLEAN
          /\ pv' \in PvType
      <4> HIDE DEF stored, tc, added
      <4> QED BY <2>2, <3>2 DEF PvType
    <3>4. Signers(pv', vote.digest) = Signers(stored, vote.digest)
      BY <3>3 DEF Signers
    <3>5. tc = AddTimeout(pv.tc, vote)
      BY <1>3
    <3> HIDE DEF stored, r, tc, added
    <3> QED BY <1>3, <1>7, <2>5, <3>2, <3>3, <3>4, <3>5 DEF StoredVote, StepNoQc
  <2> QED BY <2>4, <2>5
<1> QED BY <1>4, <1>5, <1>6, <1>7

\* Every step keeps the types.
LEMMA TypeStep ==
    ASSUME TypeOK, NEW vote \in Votes, Insert(vote)
    PROVE  TypeOK'
<1>1. /\ pv.author_to_vote \in SUBSET Votes
      /\ pv.li_digest_to_votes \in SUBSET (Digests \X Validators)
      /\ pv.tc \in [hqc : HqcRounds \cup {NoTimeout}, signed : SUBSET (Validators \X HqcRounds)]
      /\ pv.echo_timeout \in BOOLEAN
      /\ certificates \in SUBSET Certificates
  BY DEF TypeOK
<1>2. CASE pv' = pv /\ certificates' = certificates
  BY <1>2 DEF TypeOK
<1>3. CASE StoredVote(vote) /\ (StepQc(vote) \/ StepNoQc(vote))
  <2>4. certificates' \in SUBSET Certificates
    <3>1. NewQc(pv', vote.digest) \in Certificates
      BY DEF NewQc, Certificates, Signers, Votes
    <3>2. ASSUME IsTimeout(vote), pv'.tc = AddTimeout(pv.tc, vote)
          PROVE  NewTc(pv'.tc) \in Certificates
      BY <3>2, AddTimeoutType DEF NewTc, Certificates
    <3> QED BY <1>1, <1>3, <3>1, <3>2 DEF StepQc, StepNoQc
  <2> QED BY <1>3, <2>4 DEF TypeOK, PvType, StoredVote
<1> QED BY <1>2, <1>3, InsertStep

\* Storing a vote keeps an author's vote unique, and the votes that the
\* signatures counted before belong to keep their block and their timeout.
LEMMA StoredVoteKeeps ==
    ASSUME TypeOK, VotesAreCounted, NEW vote \in Votes, StoredVote(vote)
    PROVE  /\ \A v, w \in pv'.author_to_vote : v.author = w.author => v = w
           /\ \A v \in pv.author_to_vote :
                 \E w \in pv'.author_to_vote :
                    w.author = v.author /\ w.digest = v.digest /\ (IsTimeout(v) => w.hqc = v.hqc)
           /\ vote \in pv'.author_to_vote
<1>1. pv'.author_to_vote = {v \in pv.author_to_vote : v.author # vote.author} \cup {vote}
  BY DEF StoredVote
<1>2. \A v, w \in pv'.author_to_vote : v.author = w.author => v = w
  BY <1>1 DEF VotesAreCounted
<1>3. ASSUME NEW v \in pv.author_to_vote
      PROVE  \E w \in pv'.author_to_vote :
                w.author = v.author /\ w.digest = v.digest /\ (IsTimeout(v) => w.hqc = v.hqc)
  <2>1. CASE v.author # vote.author
    BY <1>1, <2>1
  <2>2. CASE v.author = vote.author
    <3>1. v.digest = vote.digest /\ ~ IsTimeout(v)
      BY <2>2 DEF StoredVote, DuplicateOrEquivocate
    <3> QED BY <1>1, <2>2, <3>1
  <2> QED BY <2>1, <2>2
<1> QED BY <1>1, <1>2, <1>3

\* An author whose timeout is counted has a vote that carries one, so a vote
\* that insert_vote accepts is the first timeout of its author.
LEMMA FirstTimeout ==
    ASSUME TypeOK, VotesAreCounted, NEW vote \in Votes, StoredVote(vote), IsTimeout(vote)
    PROVE  /\ \A s \in pv.tc.signed : s[1] # vote.author
           /\ AddTimeout(pv.tc, vote).signed = pv.tc.signed \cup {<<vote.author, vote.hqc>>}
<1>1. ASSUME NEW s \in pv.tc.signed, s[1] = vote.author
      PROVE  FALSE
  <2>1. PICK v \in pv.author_to_vote : v.author = s[1] /\ v.hqc = s[2]
    BY DEF VotesAreCounted
  <2>2. s[2] \in HqcRounds /\ HqcRounds \subseteq Nat
    BY RoundAssumption DEF TypeOK, HqcRounds
  <2>3. IsTimeout(v)
    BY <2>1, <2>2 DEF IsTimeout, NoTimeout
  <2> QED BY <1>1, <2>1, <2>3 DEF StoredVote, DuplicateOrEquivocate
<1>2. vote.author \notin TcSigners(pv.tc)
  BY <1>1 DEF TcSigners
<1> QED BY <1>1, <1>2 DEF AddTimeout

\* insert_vote keeps the votes of a digest and its signatures in step.
LEMMA CountedStep ==
    ASSUME TypeOK, VotesAreCounted, NEW vote \in Votes, Insert(vote)
    PROVE  VotesAreCounted'
<1>1. CASE pv' = pv /\ certificates' = certificates
  BY <1>1 DEF VotesAreCounted, CheckVotingPower, quorum_voting_power, total_voting_power
<1>2. CASE StoredVote(vote) /\ (StepQc(vote) \/ StepNoQc(vote))
  <2>1. StoredVote(vote)
    BY <1>2
  <2>2. pv'.li_digest_to_votes = pv.li_digest_to_votes \cup {<<vote.digest, vote.author>>}
    BY <2>1 DEF StoredVote
  <2>3. \A p \in pv'.li_digest_to_votes :
           \E v \in pv'.author_to_vote : v.author = p[2] /\ v.digest = p[1]
    BY <2>1, <2>2, StoredVoteKeeps DEF VotesAreCounted
  <2>4. /\ \A s \in pv'.tc.signed :
              \E v \in pv'.author_to_vote : v.author = s[1] /\ v.hqc = s[2]
        /\ \A s \in pv'.tc.signed : s[2] <= pv'.tc.hqc
        /\ pv'.tc.hqc # NoTimeout => \E s \in pv'.tc.signed : s[2] = pv'.tc.hqc
    <3>1. ASSUME NEW s \in pv.tc.signed
          PROVE  \E v \in pv'.author_to_vote : v.author = s[1] /\ v.hqc = s[2]
      <4>1. PICK v \in pv.author_to_vote : v.author = s[1] /\ v.hqc = s[2]
        BY DEF VotesAreCounted
      <4>2. s[2] \in HqcRounds /\ HqcRounds \subseteq Nat
        BY RoundAssumption DEF TypeOK, HqcRounds
      <4>3. IsTimeout(v)
        BY <4>1, <4>2 DEF IsTimeout, NoTimeout
      <4> QED BY <2>1, <4>1, <4>3, StoredVoteKeeps
    <3>2. CASE pv'.tc = pv.tc
      BY <3>1, <3>2 DEF VotesAreCounted
    <3>3. CASE IsTimeout(vote) /\ pv'.tc = AddTimeout(pv.tc, vote)
      <4>1. pv'.tc.signed = pv.tc.signed \cup {<<vote.author, vote.hqc>>}
        BY <2>1, <3>3, FirstTimeout
      <4>2. pv'.tc.hqc = IF vote.hqc > pv.tc.hqc THEN vote.hqc ELSE pv.tc.hqc
        BY <3>3 DEF AddTimeout
      <4>3. /\ vote.hqc \in Nat /\ pv.tc.hqc \in Int
            /\ \A s \in pv.tc.signed : s[2] \in Nat
        BY <3>3, AddTimeoutType DEF TypeOK, NoTimeout
      <4>4. \A s \in pv'.tc.signed :
               \E v \in pv'.author_to_vote : v.author = s[1] /\ v.hqc = s[2]
        BY <2>1, <3>1, <4>1, StoredVoteKeeps
      <4>5. \A s \in pv'.tc.signed : s[2] <= pv'.tc.hqc
        BY <4>1, <4>2, <4>3 DEF VotesAreCounted
      <4>6. \E s \in pv'.tc.signed : s[2] = pv'.tc.hqc
        <5>1. CASE vote.hqc > pv.tc.hqc
          <6>1. <<vote.author, vote.hqc>> \in pv'.tc.signed
            BY <4>1
          <6>2. <<vote.author, vote.hqc>>[2] = pv'.tc.hqc
            BY <4>2, <5>1
          <6> QED BY <6>1, <6>2
        <5>2. CASE ~ (vote.hqc > pv.tc.hqc)
          <6>1. pv.tc.hqc # NoTimeout
            BY <4>3, <5>2 DEF NoTimeout
          <6> QED BY <4>1, <4>2, <5>2, <6>1 DEF VotesAreCounted
        <5> QED BY <5>1, <5>2
      <4> QED BY <4>4, <4>5, <4>6
    <3> QED BY <1>2, <3>2, <3>3 DEF StepQc, StepNoQc
  <2>5. ASSUME NEW c \in certificates', c.kind = "qc"
        PROVE  /\ CheckVotingPower(c.signers)
               /\ \A a \in c.signers : <<c.digest, a>> \in pv'.li_digest_to_votes
    <3>1. CASE c \in certificates
      BY <2>2, <2>5, <3>1 DEF VotesAreCounted
    <3>2. CASE c = NewQc(pv', vote.digest) /\ StepQc(vote)
      BY <3>2 DEF NewQc, Signers, StepQc
    <3>3. c # NewTc(pv'.tc)
      BY <2>5 DEF NewTc
    <3> QED BY <1>2, <3>1, <3>2, <3>3 DEF StepQc, StepNoQc
  <2>6. \A c \in certificates' :
           c.kind = "qc" =>
              /\ CheckVotingPower(c.signers)'
              /\ \A a \in c.signers : <<c.digest, a>> \in pv'.li_digest_to_votes
    BY <2>5 DEF CheckVotingPower, quorum_voting_power, total_voting_power
  <2> QED BY <2>1, <2>3, <2>4, <2>6, StoredVoteKeeps DEF VotesAreCounted
<1> QED BY <1>1, <1>2, InsertStep

-----------------------------------------------------------------------------
(***************************************************************************)
(* Vote collection keeps its types, and every signature it counts is the   *)
(* one of its author's stored vote: the invariant the other theorems rest  *)
(* on, for every sequence of verified votes.                               *)
(***************************************************************************)
THEOREM VotesCountedOnce == Spec => [](TypeOK /\ VotesAreCounted)
<1>1. Init => TypeOK /\ VotesAreCounted
  <2> SUFFICES ASSUME Init PROVE TypeOK /\ VotesAreCounted
    OBVIOUS
  <2>1. TypeOK
    BY DEF Init, TypeOK, EmptyPendingVotes
  <2>2. VotesAreCounted
    BY DEF Init, VotesAreCounted, EmptyPendingVotes
  <2> QED BY <2>1, <2>2
<1>2. TypeOK /\ VotesAreCounted /\ [Next]_vars => (TypeOK /\ VotesAreCounted)'
  <2> SUFFICES ASSUME TypeOK, VotesAreCounted, [Next]_vars
               PROVE  (TypeOK /\ VotesAreCounted)'
    OBVIOUS
  <2>1. CASE Next
    BY <2>1, TypeStep, CountedStep DEF Next
  <2>2. CASE UNCHANGED vars
    BY <2>2 DEF vars, TypeOK, VotesAreCounted, CheckVotingPower, quorum_voting_power,
                total_voting_power
  <2> QED BY <2>1, <2>2
<1> QED BY <1>1, <1>2, PTL DEF Spec

(***************************************************************************)
(* No two blocks are certified in a round, however authors equivocate:     *)
(* every author in two certificates would have to have voted for both.     *)
(***************************************************************************)
THEOREM OneBlockIsCertified == Spec => []OneBlockCertified
<1>1. TypeOK /\ VotesAreCounted => OneBlockCertified
  <2> SUFFICES ASSUME TypeOK, VotesAreCounted,
                      NEW c \in certificates, NEW d \in certificates,
                      c.kind = "qc", d.kind = "qc"
               PROVE  c.digest = d.digest
    BY DEF OneBlockCertified
  <2>1. /\ CheckVotingPower(c.signers) /\ CheckVotingPower(d.signers)
        /\ \A a \in c.signers : <<c.digest, a>> \in pv.li_digest_to_votes
        /\ \A a \in d.signers : <<d.digest, a>> \in pv.li_digest_to_votes
    BY DEF VotesAreCounted
  <2>2. c.signers \in SUBSET Validators /\ d.signers \in SUBSET Validators
    BY DEF TypeOK, Certificates
  <2>3. PICK a : a \in c.signers \cap d.signers
    BY <2>1, <2>2, QuorumIntersection, Zenon
  <2>4. PICK v \in pv.author_to_vote : v.author = a /\ v.digest = c.digest
    BY <2>1, <2>3, Zenon DEF VotesAreCounted
  <2>5. PICK w \in pv.author_to_vote : w.author = a /\ w.digest = d.digest
    BY <2>1, <2>3, Zenon DEF VotesAreCounted
  <2> QED BY <2>4, <2>5 DEF VotesAreCounted
<1> QED BY <1>1, VotesCountedOnce, PTL

(***************************************************************************)
(* Every timeout certificate that is aggregated passes                     *)
(* TwoChainTimeoutCertificate::verify at the validators that receive it.   *)
(***************************************************************************)
THEOREM TimeoutCertificatesVerify == Spec => []TcVerifies
<1>1. Init => TcVerifies
  BY DEF Init, TcVerifies
<1>2. TypeOK /\ VotesAreCounted /\ (TypeOK /\ VotesAreCounted)' /\ TcVerifies /\ [Next]_vars
        => TcVerifies'
  <2> SUFFICES ASSUME TypeOK, VotesAreCounted, TypeOK', VotesAreCounted', TcVerifies, [Next]_vars,
                      NEW c \in certificates', c.kind = "tc"
               PROVE  /\ CheckVotingPower({a \in Validators : \E s \in c.signed : s[1] = a})
                      /\ \A s, t \in c.signed : s[1] = t[1] => s = t
                      /\ \A s \in c.signed : s[2] <= c.hqc
                      /\ \E s \in c.signed : s[2] = c.hqc
    BY DEF TcVerifies, CheckVotingPower, quorum_voting_power, total_voting_power
  <2>1. CASE c \in certificates
    BY <2>1, Zenon DEF TcVerifies
  <2>2. CASE c \notin certificates
    <3>1. PICK vote \in Votes : Insert(vote)
      BY <2>2 DEF Next, vars
    <3>2. /\ StoredVote(vote) /\ IsTimeout(vote)
          /\ pv'.tc = AddTimeout(pv.tc, vote)
          /\ CheckVotingPower(TcSigners(pv'.tc))
          /\ c = NewTc(pv'.tc)
      <4>1. c # NewQc(pv', vote.digest)
        BY DEF NewQc
      <4> QED BY <2>2, <3>1, <4>1, InsertStep DEF StepQc, StepNoQc
    <3>3. c.hqc = pv'.tc.hqc /\ c.signed = pv'.tc.signed
      BY <3>2 DEF NewTc
    <3>4. CheckVotingPower({a \in Validators : \E s \in c.signed : s[1] = a})
      BY <3>2, <3>3 DEF TcSigners
    <3>5. c.hqc # NoTimeout
      BY <3>2, <3>3, AddTimeoutType DEF NoTimeout
    <3>6. /\ \A s \in c.signed : s[2] <= c.hqc
          /\ \E s \in c.signed : s[2] = c.hqc
      BY <3>3, <3>5 DEF VotesAreCounted
    <3>7. \A s, t \in c.signed : s[1] = t[1] => s = t
      <4> SUFFICES ASSUME NEW s \in c.signed, NEW t \in c.signed, s[1] = t[1]
                   PROVE  s = t
        OBVIOUS
      <4>1. s \in Validators \X HqcRounds /\ t \in Validators \X HqcRounds
        BY <3>3 DEF TypeOK
      <4>2. PICK v \in pv'.author_to_vote : v.author = s[1] /\ v.hqc = s[2]
        BY <3>3 DEF VotesAreCounted
      <4>3. PICK w \in pv'.author_to_vote : w.author = t[1] /\ w.hqc = t[2]
        BY <3>3 DEF VotesAreCounted
      <4>4. v = w
        BY <4>2, <4>3 DEF VotesAreCounted
      <4> QED BY <4>1, <4>2, <4>3, <4>4
    <3> QED BY <3>4, <3>6, <3>7
  <2> QED BY <2>1, <2>2
<1> QED BY <1>1, <1>2, VotesCountedOnce, PTL DEF Spec

(***************************************************************************)
(* insert_vote never sits on a quorum: whenever the votes it holds contain *)
(* one, for a block or for a timeout, it has returned the certificate.     *)
(***************************************************************************)
THEOREM QuorumsAreReported == Spec => []QuorumIsReported
<1>1. Init => QuorumIsReported
  <2> SUFFICES ASSUME Init PROVE QuorumIsReported
    OBVIOUS
  <2>1. ~ CheckVotingPower({})
    BY PowerAssumption DEF CheckVotingPower, quorum_voting_power, total_voting_power
  <2>2. TcSigners(pv.tc) = {} /\ \A d \in Digests : Signers(pv, d) = {}
    BY DEF Init, EmptyPendingVotes, TcSigners, Signers
  <2> QED BY <2>1, <2>2 DEF QuorumIsReported
<1>2. TypeOK /\ QuorumIsReported /\ [Next]_vars => QuorumIsReported'
  <2> SUFFICES ASSUME TypeOK, QuorumIsReported, [Next]_vars
               PROVE  /\ \A d \in Digests :
                            CheckVotingPower(Signers(pv', d)) =>
                               \E c \in certificates' : c.kind = "qc" /\ c.digest = d
                      /\ CheckVotingPower(TcSigners(pv'.tc)) =>
                               \E c \in certificates' : c.kind = "tc"
    BY DEF QuorumIsReported, CheckVotingPower, quorum_voting_power, total_voting_power, Signers,
           TcSigners
  <2>1. CASE pv' = pv /\ certificates' = certificates
    BY <2>1 DEF QuorumIsReported
  <2>2. ASSUME NEW vote \in Votes, StoredVote(vote), StepQc(vote) \/ StepNoQc(vote)
        PROVE  /\ \A d \in Digests :
                     CheckVotingPower(Signers(pv', d)) =>
                        \E c \in certificates' : c.kind = "qc" /\ c.digest = d
               /\ CheckVotingPower(TcSigners(pv'.tc)) => \E c \in certificates' : c.kind = "tc"
    <3>1. certificates \subseteq certificates'
      BY <2>2 DEF StepQc, StepNoQc
    <3>2. \A d \in Digests : d # vote.digest => Signers(pv', d) = Signers(pv, d)
      BY <2>2 DEF StoredVote, Signers
    <3>3. CheckVotingPower(Signers(pv', vote.digest)) =>
             \E c \in certificates' : c.kind = "qc" /\ c.digest = vote.digest
      <4>1. NewQc(pv', vote.digest).kind = "qc" /\ NewQc(pv', vote.digest).digest = vote.digest
        BY DEF NewQc
      <4>2. CheckVotingPower(Signers(pv', vote.digest)) => NewQc(pv', vote.digest) \in certificates'
        BY <2>2 DEF StepQc, StepNoQc
      <4> QED BY <4>1, <4>2
    <3>4. CheckVotingPower(TcSigners(pv'.tc)) => \E c \in certificates' : c.kind = "tc"
      <4>1. NewTc(pv'.tc).kind = "tc"
        BY DEF NewTc
      <4>2. CheckVotingPower(TcSigners(pv'.tc)) =>
               pv'.tc = pv.tc \/ NewTc(pv'.tc) \in certificates'
        BY <2>2 DEF StepQc, StepNoQc
      <4> QED BY <3>1, <4>1, <4>2 DEF QuorumIsReported
    <3> QED BY <3>1, <3>2, <3>3, <3>4 DEF QuorumIsReported
  <2>3. CASE Next
    BY <2>1, <2>2, <2>3, InsertStep DEF Next
  <2>4. CASE UNCHANGED vars
    BY <2>1, <2>4 DEF vars
  <2> QED BY <2>3, <2>4
<1> QED BY <1>1, <1>2, VotesCountedOnce, PTL DEF Spec

=============================================================================
