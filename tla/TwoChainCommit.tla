--------------------------- MODULE TwoChainCommit ---------------------------
(***************************************************************************)
(* What the SafetyRules of the honest validators guarantee together, when  *)
(* the Byzantine validators are too few to decide: the blocks committed by *)
(* the 2-chain rule lie on one chain.                                      *)
(***************************************************************************)
EXTENDS SafetyRules

(***************************************************************************)
(* ValidatorVerifier: a quorum has more than two thirds of the voting      *)
(* power, so with less than one third of it Byzantine any two quorums of   *)
(* an epoch share an honest validator.                                     *)
(***************************************************************************)
ASSUME QuorumAssumption ==
  \A e \in Epochs : \A P, Q \in Quorum[e] : P \cap Q \cap Honest # {}

(* The blocks of epoch e with a ledger info that commits them *)
CommittedIn(e) == {b \in OrderedBy(e) : BlockEpoch[b] = e}

(* b and every block below it: what lies in all parent-closed sets around b *)
Ancestors ==
  [b \in Blocks |-> {a \in Blocks :
     \A S \in SUBSET Blocks : b \in S /\ (\A x \in S : BlockParent[x] \in S) => a \in S}]

(***************************************************************************)
(* Two blocks committed in an epoch by the 2-chain rule lie on one chain,  *)
(* whatever the Byzantine validators sign.                                 *)
(***************************************************************************)
Agreement ==
  \A e \in Epochs : \A b, c \in CommittedIn(e) : b \in Ancestors[c] \/ c \in Ancestors[b]

(***************************************************************************)
(* Once a block is committed, every block certified in its round or later  *)
(* extends it: neither a quorum of votes nor a timeout certificate can     *)
(* lead the chain around it (safe_to_vote, safe_to_timeout).               *)
(***************************************************************************)
CommittedIsFinal ==
  \A e \in Epochs : \A b \in CommittedIn(e), c \in Blocks :
    BlockEpoch[c] = e /\ BlockRound[c] >= BlockRound[b] /\ Certified(c) => b \in Ancestors[c]

(***************************************************************************)
(* The blocks honest validators sign commit votes for, with whatever       *)
(* execution results, lie on one chain of the epoch.                       *)
(***************************************************************************)
CommitVotesOnOneChain ==
  \A x, y \in commit_votes :
    BlockEpoch[x.block] = BlockEpoch[y.block] =>
      x.block \in Ancestors[y.block] \/ y.block \in Ancestors[x.block]

-----------------------------------------------------------------------------
(* The inductive invariant behind the properties above *)

(***************************************************************************)
(* What verify_proposal and safe_to_vote established when the vote x was   *)
(* made, and what remains true of it.                                      *)
(***************************************************************************)
Justified(x) ==
  /\ VerifyWellFormed(x.block)
  /\ x.commit = ConstructLedgerInfo2Chain(x.block)
  /\ Certified(BlockParent[x.block])
  /\ \/ BlockRound[x.block] = BlockRound[BlockParent[x.block]] + 1
     \/ \E tc \in TwoChainTimeoutCertificate :
          /\ tc.epoch = BlockEpoch[x.block]
          /\ BlockRound[x.block] = tc.round + 1
          /\ BlockRound[BlockParent[x.block]] >= tc.hqc
          /\ VerifyTC(tc.epoch, tc)

JustifiedInv ==
  /\ \A x \in votes : Justified(x)
  /\ \A v \in Honest : store[v].last_vote # None => Justified(store[v].last_vote)

CommitVotesInv == \A x \in commit_votes : x.block \in OrderedBy(BlockEpoch[x.block])

=============================================================================
