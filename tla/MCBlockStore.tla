--------------------------- MODULE MCBlockStore ---------------------------
(***************************************************************************)
(* An epoch of seven blocks.  b2 commits a1, but the chain goes on from a1 *)
(* with c3: the certificate that commits a1 is on a fork.  d4 commits c3,  *)
(* e5 commits d4 and f6 commits e5: blocks can be ordered and committed    *)
(* after a sync has dropped c3 or d4 from the pipeline.                    *)
(*                                                                         *)
(*   g0 -- a1 -- b2                                                        *)
(*           \-- c3 -- d4 -- e5 -- f6                                      *)
(*                                                                         *)
(* Budgets: a crash with a sync, a sync that may fail, and a crash with a  *)
(* bootstrap.                                                              *)
(***************************************************************************)
EXTENDS BlockStore, TLC

MCByRound == <<"g0", "a1", "b2", "c3", "d4", "e5", "f6">>
MCCertified == {"g0", "a1", "b2", "c3", "d4", "e5", "f6"}
MCRound == "g0" :> 0 @@ "a1" :> 1 @@ "b2" :> 2 @@ "c3" :> 3 @@ "d4" :> 4 @@ "e5" :> 5 @@ "f6" :> 6
MCParent == "g0" :> "g0" @@ "a1" :> "g0" @@ "b2" :> "a1" @@ "c3" :> "a1" @@ "d4" :> "c3"
            @@ "e5" :> "d4" @@ "f6" :> "e5"

Budget(crashes, bootstraps, syncs, failures) ==
  [crashes |-> crashes, bootstraps |-> bootstraps, syncs |-> syncs, failures |-> failures]
MCBudgets == {Budget(1, 0, 1, 0), Budget(0, 0, 1, 1), Budget(1, 1, 0, 0)}
=============================================================================
