----------------------------- MODULE Scheduler -----------------------------
(***************************************************************************)
(* The collaborative scheduler of the parallel block executor              *)
(* (language/block-executor, scheduler.rs): which versions of transactions *)
(* to execute and validate, in which wave, and which to commit.            *)
(*                                                                         *)
(* Each operator is one atomic access of the code: one atomic instruction, *)
(* or what happens under one lock.  BlockExecutor composes them into the   *)
(* functions of the code.  The validation lock of a transaction, which     *)
(* finish_execution and finish_abort hold throughout, is explicit.         *)
(***************************************************************************)
EXTENDS Integers, FiniteSets

CONSTANTS
  NumTxns,   \* transactions in the block
  Threads,   \* worker threads
  None

ASSUME SchedulerAssumption == NumTxns \in Nat \ {0} /\ None \notin Threads

Txns == 0..(NumTxns - 1)

VARIABLES
  execution_idx,      \* next index to try to execute
  validation_idx,     \* next index to try to validate, and the wave
  commit_state,       \* next index to commit, and the wave it needs
  done_marker,
  txn_dependency,     \* txn_dependency[i]: transactions suspended on i
  txn_status,         \* ExecutionStatus
  validation_status,  \* ValidationStatus; validated is -1 for None
  validation_lock     \* the thread that holds the write lock, or None

scheduler == <<execution_idx, validation_idx, commit_state, done_marker,
               txn_dependency, txn_status, validation_status, validation_lock>>

Kinds == {"ReadyToExecute", "Executing", "Suspended", "Executed", "Committed", "Aborting"}

(***************************************************************************)
(* A condition variable is identified with the thread that waits on it.    *)
(***************************************************************************)
Status(kind, incarnation, condvar) ==
  [kind |-> kind, incarnation |-> incarnation, condvar |-> condvar]

SchedulerTypeOK ==
  /\ execution_idx \in Nat
  /\ validation_idx \in [idx : Nat, wave : Nat]
  /\ commit_state \in [idx : 0..NumTxns, wave : Nat]
  /\ done_marker \in BOOLEAN
  /\ txn_dependency \in [Txns -> SUBSET Txns]
  /\ txn_status \in [Txns -> [kind : Kinds, incarnation : Nat, condvar : Threads \cup {None}]]
  /\ validation_status \in [Txns ->
       [max_triggered_wave : Nat, required_wave : Nat, validated : Nat \cup {-1}]]
  /\ validation_lock \in [Txns -> Threads \cup {None}]

SchedulerInit ==
  /\ execution_idx = 0
  /\ validation_idx = [idx |-> 0, wave |-> 0]
  /\ commit_state = [idx |-> 0, wave |-> 0]
  /\ done_marker = FALSE
  /\ txn_dependency = [i \in Txns |-> {}]
  /\ txn_status = [i \in Txns |-> Status("ReadyToExecute", 0, None)]
  /\ validation_status =
       [i \in Txns |-> [max_triggered_wave |-> 0, required_wave |-> 0, validated |-> -1]]
  /\ validation_lock = [i \in Txns |-> None]

Maximum(a, b) == IF a > b THEN a ELSE b

-----------------------------------------------------------------------------
(* try_commit *)

CommitWave ==
  Maximum(commit_state.wave, validation_status[commit_state.idx].max_triggered_wave)

(* try_read fails when the validation status is locked for writing. *)
Readable == commit_state.idx < NumTxns /\ validation_lock[commit_state.idx] = None
            /\ txn_status[commit_state.idx].kind = "Executed"

(* Mutant: any successful validation is good enough. *)
CanCommitOnceValidated ==
  Readable /\ validation_status[commit_state.idx].validated >= 0

CanCommit ==
  /\ Readable
  /\ LET status == validation_status[commit_state.idx] IN
       status.validated >= Maximum(CommitWave, status.required_wave)

Commit ==
  /\ CanCommit
  /\ txn_status' = [txn_status EXCEPT ![commit_state.idx].kind = "Committed"]
  /\ commit_state' = [idx |-> commit_state.idx + 1, wave |-> CommitWave]
  /\ UNCHANGED <<execution_idx, validation_idx, done_marker, txn_dependency,
                 validation_status, validation_lock>>

(* The outcome None, which still raises the wave or sets the done marker *)
CannotCommit ==
  /\ ~CanCommit
  /\ done_marker' = (done_marker \/ commit_state.idx = NumTxns)
  /\ commit_state' = IF Readable THEN [commit_state EXCEPT !.wave = CommitWave] ELSE commit_state
  /\ UNCHANGED <<execution_idx, validation_idx, txn_dependency, txn_status,
                 validation_status, validation_lock>>

-----------------------------------------------------------------------------
(* Tasks *)

(* fetch_add on the two shared indices *)
TakeValidationIdx ==
  /\ validation_idx' = [validation_idx EXCEPT !.idx = @ + 1]
  /\ UNCHANGED <<execution_idx, commit_state, done_marker, txn_dependency, txn_status,
                 validation_status, validation_lock>>
TakeExecutionIdx ==
  /\ execution_idx' = execution_idx + 1
  /\ UNCHANGED <<validation_idx, commit_state, done_marker, txn_dependency, txn_status,
                 validation_status, validation_lock>>

Ready(i) == txn_status[i].kind = "ReadyToExecute"

(* try_incarnate, when it succeeds; the caller keeps the condition variable *)
Incarnate(i) ==
  /\ Ready(i)
  /\ txn_status' = [txn_status EXCEPT ![i] = Status("Executing", @.incarnation, None)]
  /\ UNCHANGED <<execution_idx, validation_idx, commit_state, done_marker, txn_dependency,
                 validation_status>>

IsExecuted(i, include_committed) ==
  \/ txn_status[i].kind = "Executed"
  \/ include_committed /\ txn_status[i].kind = "Committed"

(* wait_for_dependency under the lock of the dependency list, when i must wait *)
Suspend(t, i, dep) ==
  /\ ~IsExecuted(dep, TRUE)
  /\ txn_status' = [txn_status EXCEPT ![i] = Status("Suspended", @.incarnation, t)]
  /\ txn_dependency' = [txn_dependency EXCEPT ![dep] = @ \cup {i}]
  /\ UNCHANGED <<execution_idx, validation_idx, commit_state, done_marker,
                 validation_status, validation_lock>>

(* try_abort, when it succeeds *)
Abort(i, incarnation) ==
  /\ txn_status[i] = Status("Executed", incarnation, None)
  /\ txn_status' = [txn_status EXCEPT ![i].kind = "Aborting"]
  /\ UNCHANGED <<execution_idx, validation_idx, commit_state, done_marker, txn_dependency,
                 validation_status, validation_lock>>

(* finish_validation *)
FinishValidation(i, wave) ==
  /\ validation_lock[i] = None
  /\ validation_status' = [validation_status EXCEPT ![i].validated = Maximum(@, wave)]
  /\ UNCHANGED <<execution_idx, validation_idx, commit_state, done_marker, txn_dependency,
                 txn_status, validation_lock>>

-----------------------------------------------------------------------------
(* The steps of finish_execution and finish_abort *)

Lock(t, i) ==
  /\ validation_lock[i] = None
  /\ validation_lock' = [validation_lock EXCEPT ![i] = t]
Unlock(i) == validation_lock' = [validation_lock EXCEPT ![i] = None]

(* set_executed_status *)
SetExecutedStatus(t, i, incarnation) ==
  /\ Lock(t, i)
  /\ txn_status' = [txn_status EXCEPT ![i] = Status("Executed", incarnation, None)]
  /\ UNCHANGED <<execution_idx, validation_idx, commit_state, done_marker, txn_dependency,
                 validation_status>>

(* Mutant: the incarnation number is not incremented. *)
SetAbortedSameIncarnation(t, i, incarnation) ==
  /\ Lock(t, i)
  /\ txn_status' = [txn_status EXCEPT ![i] = Status("ReadyToExecute", incarnation, None)]
  /\ UNCHANGED <<execution_idx, validation_idx, commit_state, done_marker, txn_dependency,
                 validation_status>>

(* set_aborted_status *)
SetAbortedStatus(t, i, incarnation) ==
  /\ Lock(t, i)
  /\ txn_status' = [txn_status EXCEPT ![i] = Status("ReadyToExecute", incarnation + 1, None)]
  /\ UNCHANGED <<execution_idx, validation_idx, commit_state, done_marker, txn_dependency,
                 validation_status>>

(* finish_execution takes the dependency list, and resumes each transaction in it. *)
TakeDependencies(i) ==
  /\ txn_dependency' = [txn_dependency EXCEPT ![i] = {}]
  /\ UNCHANGED <<execution_idx, validation_idx, commit_state, done_marker, txn_status,
                 validation_status, validation_lock>>
Resume(j) ==
  /\ txn_status' = [txn_status EXCEPT ![j].kind = "ReadyToExecute"]
  /\ UNCHANGED <<execution_idx, validation_idx, commit_state, done_marker, txn_dependency,
                 validation_status, validation_lock>>

(* Mutant: the index is left where it is. *)
KeepExecutionIdx(target) == UNCHANGED scheduler

(* execution_idx.fetch_min *)
DecreaseExecutionIdx(target) ==
  /\ execution_idx' = IF target < execution_idx THEN target ELSE execution_idx
  /\ UNCHANGED <<validation_idx, commit_state, done_marker, txn_dependency, txn_status,
                 validation_status, validation_lock>>

(* Only i is validated again, with the current wave *)
RequireWave(i) ==
  /\ validation_status' = [validation_status EXCEPT ![i].required_wave = validation_idx.wave]
  /\ Unlock(i)
  /\ UNCHANGED <<execution_idx, validation_idx, commit_state, done_marker, txn_dependency,
                 txn_status>>

(* decrease_validation_idx, and the wave it returns put into the validation status *)
DecreaseValidationIdx(i) ==
  /\ IF validation_idx.idx > i
       THEN /\ validation_idx' = [idx |-> i, wave |-> validation_idx.wave + 1]
            /\ validation_status' =
                 [validation_status EXCEPT ![i].max_triggered_wave = validation_idx.wave + 1]
       ELSE UNCHANGED <<validation_idx, validation_status>>
  /\ UNCHANGED <<execution_idx, commit_state, done_marker, txn_dependency, txn_status>>

=============================================================================
