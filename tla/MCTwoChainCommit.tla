-------------------------- MODULE MCTwoChainCommit --------------------------
(* Small instances of TwoChainCommit *)
EXTENDS TwoChainCommit, TLC

CONSTANTS v1, v2, v3, z, g, a1, a2, b2, b3

(* Four validators, one of them Byzantine, in one epoch *)
Four == {v1, v2, v3, z}
FourMembers == [e \in Epochs |-> Four]
ThreeOfFour == 1 :> {{v1, v2, v3}, {v1, v2, z}, {v1, v3, z}, {v2, v3, z}, Four}

(***************************************************************************)
(* The block tree  g(0) <- a1(1) <- a2(2)  and  g(0) <- b2(2) <- b3(3):    *)
(* the branches have 2-chains that overlap in round 2, and the second      *)
(* leads around a1 after a timeout of round 1.  The proposals are NIL      *)
(* blocks, which need no signature.                                        *)
(***************************************************************************)
ForkBlocks == {g, a1, a2, b2, b3}
ForkRound == g :> 0 @@ a1 :> 1 @@ a2 :> 2 @@ b2 :> 2 @@ b3 :> 3
ForkParent == g :> g @@ a1 :> g @@ a2 :> a1 @@ b2 :> g @@ b3 :> b2
ForkEpoch == [b \in ForkBlocks |-> 1]
ForkAuthor == [b \in ForkBlocks |-> None]

HonestSymmetry == Permutations({v1, v2, v3})

=============================================================================
