--------------------------- MODULE VoteCollection ---------------------------
(***************************************************************************)
(* One round of vote collection: verified votes of any author, for any     *)
(* block and with any timeout, in any order and any number of times, are   *)
(* inserted into one PendingVotes structure.  certificates records what    *)
(* insert_vote returned.                                                   *)
(***************************************************************************)
EXTENDS PendingVotes

CONSTANTS Digests,   \* the LedgerInfo digests that are voted for
          Round      \* the round of the votes

ASSUME RoundAssumption == Round \in Nat \ {0}

VARIABLES pv, certificates

vars == <<pv, certificates>>

\* Vote::verify and TwoChainTimeout::verify: the certificate a timeout carries
\* is of an earlier round.
HqcRounds == 0 .. Round - 1

Votes == [author : Validators, digest : Digests, hqc : HqcRounds \cup {NoTimeout}]

Init == pv = EmptyPendingVotes /\ certificates = {}

Insert(vote) ==
    \E r \in {InsertVote(pv, vote)} :
        /\ pv' = r.pv
        /\ certificates' = IF r.result.kind \in {"qc", "tc"}
                           THEN certificates \cup {r.result}
                           ELSE certificates

Next == \E vote \in Votes : Insert(vote)

Spec == Init /\ [][Next]_vars

-----------------------------------------------------------------------------
Certificates ==
         [kind : {"qc"}, digest : Digests, signers : SUBSET Validators]
    \cup [kind : {"tc"}, hqc : HqcRounds, signed : SUBSET (Validators \X HqcRounds)]

TypeOK ==
    /\ pv \in [author_to_vote : SUBSET Votes,
               li_digest_to_votes : SUBSET (Digests \X Validators),
               tc : [hqc : HqcRounds \cup {NoTimeout},
                     signed : SUBSET (Validators \X HqcRounds)],
               echo_timeout : BOOLEAN]
    /\ certificates \in SUBSET Certificates

(***************************************************************************)
(* insert_vote counts an author for one block only: whatever authors       *)
(* equivocate or repeat themselves, two quorum certificates of the round   *)
(* certify the same block.  This is the invariant BlockTree's              *)
(* insert_quorum_cert (block_tree.rs:259) states for the store.            *)
(***************************************************************************)
OneBlockCertified ==
    \A c, d \in certificates :
        c.kind = "qc" /\ d.kind = "qc" => c.digest = d.digest

(***************************************************************************)
(* A timeout certificate is accepted by every validator that verifies it   *)
(* (TwoChainTimeoutCertificate::verify): a quorum signed, and the          *)
(* certificate it carries is the highest of the signed rounds, although    *)
(* the timeout kept and the signature kept for an author are chosen by     *)
(* different rules (timeout_2chain.rs:253 and :320).                       *)
(***************************************************************************)
TcVerifies ==
    \A c \in certificates :
        c.kind = "tc" =>
            /\ CheckVotingPower({a \in Validators : \E s \in c.signed : s[1] = a})
            /\ \A s, t \in c.signed : s[1] = t[1] => s = t
            /\ \A s \in c.signed : s[2] <= c.hqc
            /\ \E s \in c.signed : s[2] = c.hqc

(***************************************************************************)
(* No quorum is overlooked: once a quorum has voted for a block, or has    *)
(* signed a timeout that was counted, insert_vote has returned a           *)
(* certificate, so the round cannot be stuck with enough votes in it.      *)
(***************************************************************************)
QuorumIsReported ==
    /\ \A d \in Digests :
          CheckVotingPower(Signers(pv, d)) =>
              \E c \in certificates : c.kind = "qc" /\ c.digest = d
    /\ CheckVotingPower(TcSigners(pv.tc)) => \E c \in certificates : c.kind = "tc"

\* The strengthening the proofs use: an author signs only the block of its
\* vote, its timeout is in the partial certificate only if its vote carries
\* one, and the certificate kept is the highest signed.
VotesAreCounted ==
    /\ \A v, w \in pv.author_to_vote : v.author = w.author => v = w
    /\ \A p \in pv.li_digest_to_votes :
          \E v \in pv.author_to_vote : v.author = p[2] /\ v.digest = p[1]
    /\ \A s \in pv.tc.signed :
          \E v \in pv.author_to_vote : v.author = s[1] /\ v.hqc = s[2]
    /\ \A s \in pv.tc.signed : s[2] <= pv.tc.hqc
    /\ pv.tc.hqc # NoTimeout => \E s \in pv.tc.signed : s[2] = pv.tc.hqc
    /\ \A c \in certificates :
          c.kind = "qc" =>
              /\ CheckVotingPower(c.signers)
              /\ \A a \in c.signers : <<c.digest, a>> \in pv.li_digest_to_votes

=============================================================================
