-------------------------- MODULE MCBlockExecutor --------------------------
(***************************************************************************)
(* Small blocks for BlockExecutor.                                         *)
(***************************************************************************)
EXTENDS BlockExecutor, TLC

CONSTANTS a, b

MCKeys == {a, b}
MCBase == [k \in MCKeys |-> 0]

Success(writes) == [status |-> "Success", writes |-> writes]
NoWrites == [k \in {} |-> 0]

(***************************************************************************)
(* T0 writes a.  T1 reads a: too early, it writes b; later it writes a     *)
(* instead and skips the rest of the block, so that an early execution     *)
(* leaves an entry that a later one removes.  T2 reads b; with the value   *)
(* of an early T1 it succeeds, without it fails.                           *)
(***************************************************************************)
MCNextRead(i, values) ==
  IF DOMAIN values # {} THEN None ELSE IF i = 1 THEN a ELSE IF i = 2 THEN b ELSE None

MCVm(i, values) ==
  IF i = 0 THEN Success(a :> 1)
  ELSE IF i = 1 THEN IF values[a] = 0 THEN Success(b :> 2)
                     ELSE [status |-> "SkipRest", writes |-> a :> 3]
  ELSE IF values[b] = 0 THEN [status |-> "Abort", writes |-> NoWrites]
  ELSE Success(a :> 4)
=============================================================================
