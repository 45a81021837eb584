---- MODULE MCStateSync ----
(* Bounds for model checking StateSync. *)
EXTENDS StateSync

Faults(stream_, payload, execute, save, mempool, commit, sync) ==
    [stream |-> stream_, payload |-> payload, execute |-> execute,
     save |-> save, mempool |-> mempool, commit |-> commit, sync |-> sync]

TwoEpochEnds == {1, 3}

Node(validator, b) == [validator |-> validator, budget |-> b]

\* Validators with a fault of the stream, of the executor, of the committer or
\* of mempool, with a payload that no honest peer sends, with two commits and
\* two requests; and a full node with faults of both tasks.
MCSetups ==
    {Node(TRUE, Faults(1, 0, 0, 1, 0, 1, 1)),
     Node(TRUE, Faults(0, 0, 1, 0, 1, 1, 1)),
     Node(TRUE, Faults(0, 1, 0, 0, 0, 1, 1)),
     Node(TRUE, Faults(0, 0, 0, 0, 0, 2, 2)),
     Node(FALSE, Faults(0, 0, 1, 1, 0, 0, 0))}
====
