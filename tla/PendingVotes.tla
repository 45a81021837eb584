---------------------------- MODULE PendingVotes ----------------------------
(***************************************************************************)
(* The votes a validator collects for its current round                    *)
(* (consensus/src/pending_votes.rs), the partial 2-chain timeout           *)
(* certificate built from them (consensus-types/src/timeout_2chain.rs) and *)
(* the voting power that turns either into a certificate                   *)
(* (types/src/validator_verifier.rs).  The operators here are the steps of *)
(* insert_vote; VoteCollection runs them for one round and RoundManager    *)
(* runs them inside every node.                                            *)
(*                                                                         *)
(* A vote is [author, digest, hqc]: the LedgerInfo digest stands for the   *)
(* block voted for, and hqc is the round of the highest quorum certificate *)
(* the author signed in the 2-chain timeout of the vote, or NoTimeout when *)
(* the vote carries none.  A vote reaches insert_vote only after           *)
(* Vote::verify accepted it with the same verifier, so its author is known.*)
(***************************************************************************)
EXTENDS Integers

CONSTANTS Validators,   \* the accounts of the validator set
          VotingPower   \* the voting power of every set of validators

ASSUME PowerAssumption ==
    /\ Validators # {}
    /\ VotingPower \in [SUBSET Validators -> Nat]
    /\ VotingPower[{}] = 0
    /\ \A S, T \in SUBSET Validators :
          S \cap T = {} => VotingPower[S \cup T] = VotingPower[S] + VotingPower[T]

NoTimeout == -1

IsTimeout(vote) == vote.hqc # NoTimeout

-----------------------------------------------------------------------------
(* ValidatorVerifier. *)

total_voting_power == VotingPower[Validators]

\* Half of the voting power.
HalfPower == total_voting_power \div 2

quorum_voting_power == (total_voting_power * 2) \div 3 + 1

CheckVotingPower(authors) == VotingPower[authors] >= quorum_voting_power

FPlusOne == total_voting_power - quorum_voting_power + 1

-----------------------------------------------------------------------------
(***************************************************************************)
(* PendingVotes.  author_to_vote is a set of votes with different authors, *)
(* li_digest_to_votes the set of <<digest, author>> signatures.  tc is the *)
(* partial timeout certificate: the round of the certificate its timeout   *)
(* carries (NoTimeout before the first), and the <<author, hqc>> pairs     *)
(* signed.                                                                 *)
(***************************************************************************)

EmptyPendingVotes ==
    [author_to_vote |-> {}, li_digest_to_votes |-> {},
     tc |-> [hqc |-> NoTimeout, signed |-> {}], echo_timeout |-> FALSE]

\* The author has voted before, and this is not the same vote with a timeout
\* signed for the first time.
DuplicateOrEquivocate(pv, vote) ==
    \E previous \in pv.author_to_vote :
        /\ previous.author = vote.author
        /\ \/ previous.digest # vote.digest
           \/ ~ IsTimeout(vote)
           \/ IsTimeout(previous)

StoreVote(pv, vote) ==
    [pv EXCEPT
        !.author_to_vote = {v \in @ : v.author # vote.author} \cup {vote},
        !.li_digest_to_votes = @ \cup {<<vote.digest, vote.author>>}]

Signers(pv, digest) ==
    {a \in Validators : <<digest, a>> \in pv.li_digest_to_votes}

TcSigners(tc) == {a \in Validators : \E s \in tc.signed : s[1] = a}

\* TwoChainTimeoutWithPartialSignatures::add: the timeout with the highest
\* certificate is kept, and the first signature of an author.
AddTimeout(tc, vote) ==
    [hqc |-> IF vote.hqc > tc.hqc THEN vote.hqc ELSE tc.hqc,
     signed |-> IF vote.author \in TcSigners(tc)
                THEN tc.signed
                ELSE tc.signed \cup {<<vote.author, vote.hqc>>}]

NewQc(pv, digest) ==
    [kind |-> "qc", digest |-> digest, signers |-> Signers(pv, digest)]

\* The certificate of some signer, not of the highest.
NewTcAnySigner(tc) ==
    [kind |-> "tc", hqc |-> (CHOOSE s \in tc.signed : TRUE)[2], signed |-> tc.signed]

NewTc(tc) == [kind |-> "tc", hqc |-> tc.hqc, signed |-> tc.signed]

\* The timeout part of a vote whose digest has no quorum: a certificate, the
\* echo of the first f + 1 timeouts, or nothing.
InsertTimeout(pv, vote) ==
    LET tc == AddTimeout(pv.tc, vote)
        added == [pv EXCEPT !.tc = tc]
    IN  IF CheckVotingPower(TcSigners(tc))
        THEN [pv |-> added, result |-> NewTc(tc)]
        ELSE IF ~ pv.echo_timeout /\ VotingPower[TcSigners(tc)] >= FPlusOne
        THEN [pv |-> [added EXCEPT !.echo_timeout = TRUE],
              result |-> [kind |-> "echo_timeout"]]
        ELSE [pv |-> added, result |-> [kind |-> "vote_added"]]

\* The certificate is looked for before the vote is stored.
InsertVoteLate(pv, vote) ==
    IF DuplicateOrEquivocate(pv, vote)
    THEN [pv |-> pv, result |-> [kind |-> "rejected"]]
    ELSE LET stored == StoreVote(pv, vote)
         IN  IF CheckVotingPower(Signers(pv, vote.digest))
             THEN [pv |-> stored, result |-> NewQc(pv, vote.digest)]
             ELSE IF IsTimeout(vote)
             THEN InsertTimeout(stored, vote)
             ELSE [pv |-> stored, result |-> [kind |-> "vote_added"]]

InsertVote(pv, vote) ==
    IF DuplicateOrEquivocate(pv, vote)
    THEN [pv |-> pv, result |-> [kind |-> "rejected"]]
    ELSE LET stored == StoreVote(pv, vote)
         IN  IF CheckVotingPower(Signers(stored, vote.digest))
             THEN [pv |-> stored, result |-> NewQc(stored, vote.digest)]
             ELSE IF IsTimeout(vote)
             THEN InsertTimeout(stored, vote)
             ELSE [pv |-> stored, result |-> [kind |-> "vote_added"]]

=============================================================================
