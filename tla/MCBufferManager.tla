-------------------------- MODULE MCBufferManager --------------------------
(* Instances of BufferManager for TLC.                                     *)
EXTENDS BufferManager

CONSTANTS v1, v2

MCValidators == {v1, v2}
MCQuorums == {{v1, v2}}

Plan(blocks, reconfig, may_stop, max_errors, max_syncs) ==
    [blocks |-> blocks, reconfig |-> reconfig, may_stop |-> may_stop,
     errors |-> max_errors, syncs |-> max_syncs]

(***************************************************************************)
(* An epoch that ends within the blocks, with an empty suffix; two that    *)
(* state sync interrupts, the second before the block that ends it; and    *)
(* two shorter ones that it may interrupt twice, with failures and a stop. *)
(***************************************************************************)
MCEpochs ==
    {Plan(3, 2, FALSE, 1, 0), Plan(3, 4, FALSE, 0, 1), Plan(3, 3, FALSE, 0, 1),
     Plan(2, 4, TRUE, 1, 2), Plan(2, 2, TRUE, 1, 2)}

=============================================================================
