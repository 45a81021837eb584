-------------------------- MODULE MCVoteCollection --------------------------
(* Instances of vote collection for TLC. *)
EXTENDS VoteCollection, FiniteSetsExt

CONSTANTS v1, v2, v3, v4, b1, b2

MCValidators == {v1, v2, v3, v4}
MCDigests == {b1, b2}

\* Powers 2, 1, 1, 1: a quorum is v1 with two others, and v1 alone is f + 1.
Weight == [v \in MCValidators |-> IF v = v1 THEN 2 ELSE 1]
MCVotingPower == [S \in SUBSET MCValidators |-> MapThenSumSet(LAMBDA v : Weight[v], S)]

=============================================================================
