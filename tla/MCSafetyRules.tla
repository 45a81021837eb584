--------------------------- MODULE MCSafetyRules ---------------------------
(* A small instance of SafetyRules *)
EXTENDS SafetyRules, TLC

CONSTANTS v1, z, g, a1, a2, b2, h, d1, d2

(***************************************************************************)
(* One validator v1, member of epochs 1 and 3 but not 2, for whom every    *)
(* certificate exists.  In epoch 1 a block of round 1 and two of round 2,  *)
(* both v1's own; in epoch 3 a block of round 1, and one that carries a    *)
(* certificate of epoch 1.                                                 *)
(***************************************************************************)
OneAndByzantine == {v1, z}
AloneMembers == 1 :> {v1, z} @@ 2 :> {z} @@ 3 :> {v1, z}
EveryCert == 1 :> {{z}, {v1, z}} @@ 2 :> {{z}} @@ 3 :> {{z}, {v1, z}}
AloneBlocks == {g, a1, a2, b2, h, d1, d2}
AloneRound == g :> 0 @@ a1 :> 1 @@ a2 :> 2 @@ b2 :> 2 @@ h :> 0 @@ d1 :> 1 @@ d2 :> 2
AloneParent == g :> g @@ a1 :> g @@ a2 :> a1 @@ b2 :> g @@ h :> h @@ d1 :> h @@ d2 :> a1
AloneEpoch == [b \in AloneBlocks |-> IF b \in {h, d1, d2} THEN 3 ELSE 1]
AloneAuthor == [b \in AloneBlocks |-> IF b \in {a2, b2} THEN v1 ELSE IF b = a1 THEN z ELSE None]

=============================================================================
