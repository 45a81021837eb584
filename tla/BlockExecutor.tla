--------------------------- MODULE BlockExecutor ---------------------------
(***************************************************************************)
(* The threads of the parallel block executor (language/block-executor,    *)
(* executor.rs and view.rs): they execute transactions speculatively on    *)
(* the multi-version map (language/move-hashmap), validate what was read,  *)
(* and abort and re-execute until everything is committed.                 *)
(*                                                                         *)
(* What the VM computes is a constant.  With the values it has read so     *)
(* far, transaction i reads NextRead(i, values) or, when that is None,     *)
(* ends with Vm(i, values): a status (Success, SkipRest or Abort) and a    *)
(* function from the keys it writes to the values, empty for Abort.        *)
(* Deltas of aggregators and module publishing are left out.               *)
(***************************************************************************)
EXTENDS Scheduler, Sequences

CONSTANTS
  Keys,
  NextRead(_, _),
  Vm(_, _),
  Base,         \* Base[k]: the value in storage
  Committer     \* the one thread that commits

ASSUME ExecutorAssumption == Committer \in Threads /\ IsFiniteSet(Keys)

VARIABLES
  data,      \* data[k][i]: entry of transaction i for key k in the MVHashMap, or None
  inputs,    \* inputs[i], outputs[i]: TxnLastInputOutput, or None
  outputs,
  thread     \* thread[t]: where thread t is, and its local variables

vars == <<scheduler, data, inputs, outputs, thread>>

-----------------------------------------------------------------------------
(* MVHashMap *)

Entries(k, i) == {j \in Txns : j < i /\ data[k][j] # None}
Highest(S) == CHOOSE j \in S : \A m \in S : m <= j
Lowest(S) == CHOOSE j \in S : \A m \in S : j <= m

(***************************************************************************)
(* read: the latest entry below i; Storage when there is none (NotFound).  *)
(* An estimate is a dependency on the transaction that wrote it.           *)
(***************************************************************************)
Storage == <<-1, -1>>
ReadKey(k, i) ==
  IF Entries(k, i) = {} THEN [key |-> k, version |-> Storage, value |-> Base[k], estimate |-> FALSE]
  ELSE LET j == Highest(Entries(k, i))
           e == data[k][j]
       IN [key |-> k, version |-> <<j, e.incarnation>>, value |-> e.value, estimate |-> e.estimate]

ModifiedKeys(i) == IF outputs[i] = None THEN {} ELSE DOMAIN outputs[i].writes

-----------------------------------------------------------------------------
(* Threads *)

(***************************************************************************)
(* work_task_with_scope: where a thread goes with the task it got.  The    *)
(* committing thread tries to commit before it starts a task.              *)
(***************************************************************************)
NoTask == [at |-> "next_task"]
ExecutionTask(i, incarnation) ==
  [at |-> "execute", idx |-> i, incarnation |-> incarnation, reads |-> <<>>]
NotifyTask(condvar) == [at |-> "notify", condvar |-> condvar]
ValidationTask(i, incarnation, wave) ==
  [at |-> "validate", idx |-> i, incarnation |-> incarnation, wave |-> wave]

Goto(t, local) == thread' = [thread EXCEPT ![t] = local]
Take(t, task) == Goto(t, IF t = Committer THEN [at |-> "try_commit", task |-> task] ELSE task)

(* The task try_incarnate on i leads to *)
Incarnated(i) ==
  IF txn_status[i].condvar = None THEN ExecutionTask(i, txn_status[i].incarnation)
  ELSE NotifyTask(txn_status[i].condvar)

TryCommit(t) ==
  /\ thread[t].at = "try_commit"
  /\ \/ Commit /\ UNCHANGED thread
     \/ CannotCommit /\ Goto(t, thread[t].task)
  /\ UNCHANGED <<data, inputs, outputs>>

(* next_task: the done marker, then the two indices, then one of them is taken *)
LoadValidationIdx(t) ==
  /\ thread[t].at = "next_task"
  /\ Goto(t, IF done_marker THEN [at |-> "done"]
             ELSE [at |-> "load_execution_idx", to_validate |-> validation_idx.idx])
  /\ UNCHANGED <<scheduler, data, inputs, outputs>>

LoadExecutionIdx(t) ==
  LET to_validate == thread[t].to_validate IN
  /\ thread[t].at = "load_execution_idx"
  /\ IF execution_idx >= NumTxns /\ to_validate >= NumTxns
       THEN IF done_marker THEN Goto(t, [at |-> "done"]) ELSE Take(t, NoTask)
       ELSE Goto(t, [at |-> IF to_validate < execution_idx THEN "try_validate" ELSE "try_execute"])
  /\ UNCHANGED <<scheduler, data, inputs, outputs>>

(* try_validate_next_version *)
TryValidate(t) ==
  /\ thread[t].at = "try_validate"
  /\ TakeValidationIdx
  /\ Goto(t, IF validation_idx.idx >= NumTxns THEN NoTask
             ELSE [at |-> "is_executed", idx |-> validation_idx.idx, wave |-> validation_idx.wave])
  /\ UNCHANGED <<data, inputs, outputs>>

CheckExecuted(t) ==
  LET i == thread[t].idx IN
  /\ thread[t].at = "is_executed"
  /\ IF IsExecuted(i, FALSE)
       THEN Take(t, ValidationTask(i, txn_status[i].incarnation, thread[t].wave))
       ELSE Goto(t, NoTask)
  /\ UNCHANGED <<scheduler, data, inputs, outputs>>

(* try_execute_next_version *)
TryExecute(t) ==
  /\ thread[t].at = "try_execute"
  /\ TakeExecutionIdx
  /\ Goto(t, IF execution_idx >= NumTxns THEN NoTask
             ELSE [at |-> "try_incarnate", idx |-> execution_idx])
  /\ UNCHANGED <<data, inputs, outputs>>

TryIncarnate(t) ==
  LET i == thread[t].idx IN
  /\ thread[t].at = "try_incarnate"
  /\ IF Ready(i) THEN Incarnate(i) /\ UNCHANGED validation_lock /\ Take(t, Incarnated(i))
     ELSE Goto(t, NoTask) /\ UNCHANGED scheduler
  /\ UNCHANGED <<data, inputs, outputs>>

(* ExecutionTask(_, Some(condvar)): wake up the execution that waits *)
Notify(t) ==
  LET u == thread[t].condvar
      after == IF t = Committer THEN [at |-> "try_commit", task |-> NoTask] ELSE NoTask
  IN
  /\ thread[t].at = "notify"
  /\ thread' = [thread EXCEPT ![t] = after, ![u].at = "execute"]
  /\ UNCHANGED <<scheduler, data, inputs, outputs>>

-----------------------------------------------------------------------------
(* execute *)

(* The values of the captured reads *)
Values(reads) == [k \in {reads[n].key : n \in DOMAIN reads} |->
                   reads[CHOOSE n \in DOMAIN reads : reads[n].key = k].value]

(* MVHashMapView::read: the read is captured, or is a dependency. *)
Read(t) ==
  LET me == thread[t]
      k == NextRead(me.idx, Values(me.reads))
      r == ReadKey(k, me.idx)
  IN
  /\ me.at = "execute" /\ k # None
  /\ IF r.estimate
       THEN Goto(t, [at |-> "wait_for_dependency", idx |-> me.idx, incarnation |-> me.incarnation,
                     reads |-> me.reads, dep |-> r.version[1]])
       ELSE Goto(t, [me EXCEPT !.reads = Append(@, r)])
  /\ UNCHANGED <<scheduler, data, inputs, outputs>>

(* wait_for_dependency: suspended, or the dependency is resolved meanwhile *)
WaitForDependency(t) ==
  LET me == thread[t]
      resume == [at |-> "execute", idx |-> me.idx, incarnation |-> me.incarnation,
                 reads |-> me.reads]
  IN
  /\ me.at = "wait_for_dependency"
  /\ \/ Suspend(t, me.idx, me.dep) /\ Goto(t, [resume EXCEPT !.at = "waiting"])
     \/ IsExecuted(me.dep, TRUE) /\ Goto(t, resume) /\ UNCHANGED scheduler
  /\ UNCHANGED <<data, inputs, outputs>>

(* The VM is done; modified_keys is what the previous incarnation modified. *)
Executed(t) ==
  LET me == thread[t]
      output == Vm(me.idx, Values(me.reads))
      prev_modified_keys == ModifiedKeys(me.idx)
  IN
  /\ me.at = "execute" /\ NextRead(me.idx, Values(me.reads)) = None
  /\ Goto(t, [at |-> "apply_updates", idx |-> me.idx, incarnation |-> me.incarnation,
              reads |-> me.reads, output |-> output,
              todo |-> DOMAIN output.writes \cup prev_modified_keys,
              outside |-> ~(DOMAIN output.writes \subseteq prev_modified_keys)])
  /\ UNCHANGED <<scheduler, data, inputs, outputs>>

(* add_write for the keys of the output, then delete for the others *)
ApplyUpdate(t) ==
  LET me == thread[t]
      writes == me.output.writes
  IN
  /\ me.at = "apply_updates"
  /\ \E k \in me.todo :
       /\ me.todo \cap DOMAIN writes # {} => k \in DOMAIN writes
       /\ data' = [data EXCEPT ![k][me.idx] =
            IF k \in DOMAIN writes
            THEN [incarnation |-> me.incarnation, value |-> writes[k], estimate |-> FALSE]
            ELSE None]
       /\ Goto(t, [me EXCEPT !.todo = @ \ {k}])
  /\ UNCHANGED <<scheduler, inputs, outputs>>

(* last_input_output.record *)
Record(t) ==
  LET me == thread[t] IN
  /\ me.at = "apply_updates" /\ me.todo = {}
  /\ inputs' = [inputs EXCEPT ![me.idx] = [n \in DOMAIN me.reads |->
       [key |-> me.reads[n].key, version |-> me.reads[n].version]]]
  /\ outputs' = [outputs EXCEPT ![me.idx] = me.output]
  /\ Goto(t, [at |-> "finish_execution", idx |-> me.idx, incarnation |-> me.incarnation,
              outside |-> me.outside])
  /\ UNCHANGED <<scheduler, data>>

(***************************************************************************)
(* finish_execution: the status, the dependencies, the execution index and *)
(* then the validation index.                                              *)
(***************************************************************************)
FinishExecution(t) ==
  LET me == thread[t]
      i == me.idx
      deps == txn_dependency[i]
      validation == [at |-> "load_validation_idx", idx |-> i, incarnation |-> me.incarnation,
                     outside |-> me.outside]
  IN
  /\ \/ /\ me.at = "finish_execution"
        /\ SetExecutedStatus(t, i, me.incarnation)
        /\ Goto(t, [me EXCEPT !.at = "take_dependencies"])
     \/ /\ me.at = "take_dependencies"
        /\ TakeDependencies(i)
        /\ Goto(t, IF deps = {} THEN validation
                   ELSE [at |-> "resume", idx |-> i, incarnation |-> me.incarnation,
                         outside |-> me.outside, deps |-> deps, min_dep |-> Lowest(deps)])
     \/ /\ me.at = "resume"
        /\ \E j \in me.deps : Resume(j) /\ Goto(t, [me EXCEPT !.deps = @ \ {j}])
     \/ /\ me.at = "resume" /\ me.deps = {}
        /\ DecreaseExecutionIdx(me.min_dep)
        /\ Goto(t, validation)
     \/ /\ me.at = "load_validation_idx" /\ validation_idx.idx <= i
        /\ Unlock(i) /\ Take(t, NoTask)
        /\ UNCHANGED <<execution_idx, validation_idx, commit_state, done_marker,
                       txn_dependency, txn_status, validation_status>>
     \/ /\ me.at = "load_validation_idx" /\ validation_idx.idx > i /\ ~me.outside
        /\ RequireWave(i)
        /\ Take(t, ValidationTask(i, me.incarnation, validation_idx.wave))
     \/ /\ me.at = "load_validation_idx" /\ validation_idx.idx > i /\ me.outside
        /\ Goto(t, [at |-> "revalidate_suffix", idx |-> i]) /\ UNCHANGED scheduler
     \/ /\ me.at = "revalidate_suffix"
        /\ DecreaseValidationIdx(i)
        /\ Unlock(i) /\ Take(t, NoTask)
  /\ UNCHANGED <<data, inputs, outputs>>

-----------------------------------------------------------------------------
(* validate *)

(* The read set is loaded once; every read is then repeated. *)
LoadReadSet(t) ==
  LET me == thread[t]
      read_set == inputs[me.idx]
  IN
  /\ me.at = "validate"
  /\ Goto(t, IF read_set = <<>> THEN [me EXCEPT !.at = "finish_validation"]
             ELSE [at |-> "check_reads", idx |-> me.idx, incarnation |-> me.incarnation,
                   wave |-> me.wave, reads |-> read_set])
  /\ UNCHANGED <<scheduler, data, inputs, outputs>>

CheckRead(t) ==
  LET me == thread[t]
      r == ReadKey(Head(me.reads).key, me.idx)
      valid == ~r.estimate /\ r.version = Head(me.reads).version
      next(at) == [at |-> at, idx |-> me.idx, incarnation |-> me.incarnation, wave |-> me.wave]
  IN
  /\ me.at = "check_reads"
  /\ Goto(t, IF ~valid THEN next("try_abort")
             ELSE IF Tail(me.reads) = <<>> THEN next("finish_validation")
             ELSE [me EXCEPT !.reads = Tail(@)])
  /\ UNCHANGED <<scheduler, data, inputs, outputs>>

(* A failed validation whose version was aborted by another counts as finished. *)
TryAbort(t) ==
  LET me == thread[t] IN
  /\ me.at = "try_abort"
  /\ \/ /\ Abort(me.idx, me.incarnation)
        /\ Goto(t, [at |-> "mark_estimates", idx |-> me.idx, incarnation |-> me.incarnation,
                    todo |-> ModifiedKeys(me.idx)])
     \/ /\ txn_status[me.idx] # Status("Executed", me.incarnation, None)
        /\ Goto(t, [me EXCEPT !.at = "finish_validation"])
        /\ UNCHANGED scheduler
  /\ UNCHANGED <<data, inputs, outputs>>

Validated(t) ==
  LET me == thread[t] IN
  /\ me.at = "finish_validation"
  /\ FinishValidation(me.idx, me.wave)
  /\ Take(t, NoTask)
  /\ UNCHANGED <<data, inputs, outputs>>

MarkEstimate(t) ==
  LET me == thread[t] IN
  /\ me.at = "mark_estimates"
  /\ \E k \in me.todo :
       /\ data' = [data EXCEPT ![k][me.idx].estimate = TRUE]
       /\ Goto(t, [me EXCEPT !.todo = @ \ {k}])
  /\ UNCHANGED <<scheduler, inputs, outputs>>

(* finish_abort: the status, the validation index, and a try to re-execute at once *)
FinishAbort(t) ==
  LET me == thread[t]
      i == me.idx
  IN
  /\ \/ /\ me.at = "mark_estimates" /\ me.todo = {}
        /\ SetAbortedStatus(t, i, me.incarnation)
        /\ Goto(t, [at |-> "decrease_validation_idx", idx |-> i])
     \/ /\ me.at = "decrease_validation_idx"
        /\ DecreaseValidationIdx(i) /\ UNCHANGED validation_lock
        /\ Goto(t, [me EXCEPT !.at = "reload_execution_idx"])
     \/ /\ me.at = "reload_execution_idx" /\ execution_idx > i
        /\ Goto(t, [me EXCEPT !.at = "reincarnate"]) /\ UNCHANGED scheduler
     \/ /\ \/ me.at = "reload_execution_idx" /\ execution_idx <= i
           \/ me.at = "reincarnate" /\ ~Ready(i)
        /\ Unlock(i) /\ Take(t, NoTask)
        /\ UNCHANGED <<execution_idx, validation_idx, commit_state, done_marker,
                       txn_dependency, txn_status, validation_status>>
     \/ /\ me.at = "reincarnate"
        /\ Incarnate(i)
        /\ Unlock(i) /\ Take(t, Incarnated(i))
  /\ UNCHANGED <<data, inputs, outputs>>

-----------------------------------------------------------------------------
Init ==
  /\ SchedulerInit
  /\ data = [k \in Keys |-> [i \in Txns |-> None]]
  /\ inputs = [i \in Txns |-> None]
  /\ outputs = [i \in Txns |-> None]
  /\ thread = [t \in Threads |->
       IF t = Committer THEN [at |-> "try_commit", task |-> NoTask] ELSE NoTask]

Step(t) ==
  \/ TryCommit(t)
  \/ LoadValidationIdx(t) \/ LoadExecutionIdx(t)
  \/ TryValidate(t) \/ CheckExecuted(t) \/ TryExecute(t) \/ TryIncarnate(t) \/ Notify(t)
  \/ Read(t) \/ WaitForDependency(t) \/ Executed(t) \/ ApplyUpdate(t) \/ Record(t)
  \/ FinishExecution(t)
  \/ LoadReadSet(t) \/ CheckRead(t) \/ TryAbort(t) \/ Validated(t)
  \/ MarkEstimate(t) \/ FinishAbort(t)

AllDone == \A t \in Threads : thread[t].at = "done"

Next == (\E t \in Threads : Step(t)) \/ (AllDone /\ UNCHANGED vars)

Spec == Init /\ [][Next]_vars

(***************************************************************************)
(* A thread has no step when it is done, waits to be notified, or needs    *)
(* the validation status while another holds its lock.                     *)
(***************************************************************************)
Blocked(t) ==
  LET me == thread[t] IN
  \/ me.at \in {"done", "waiting"}
  \/ /\ \/ me.at \in {"finish_execution", "finish_validation"}
        \/ me.at = "mark_estimates" /\ me.todo = {}
     /\ validation_lock[me.idx] # None

(***************************************************************************)
(* The operating system runs every thread: weak fairness of its steps,     *)
(* with the condition under which it has none written out.                 *)
(***************************************************************************)
FairSpec == Spec /\ \A t \in Threads : []<>Blocked(t) \/ []<><<Step(t)>>_vars

-----------------------------------------------------------------------------
(* The result of the block *)

(* Ok of the outputs filled up with skip_output, or Err *)
SkipOutput == [status |-> "Skip", writes |-> <<>>]
Ok(ret) == [error |-> FALSE, ret |-> [i \in Txns |-> IF i < Len(ret) THEN ret[i + 1] ELSE SkipOutput]]
UserError == [error |-> TRUE, ret |-> <<>>]

(* Mutant: SkipRest does not skip the rest. *)
ResultNoSkip ==
  IF \E i \in Txns : outputs[i].status = "Abort" THEN UserError
  ELSE Ok([n \in 1..NumTxns |-> outputs[n - 1]])

(***************************************************************************)
(* execute_transactions_parallel, when all threads are done: the outputs   *)
(* up to the first that does not succeed.                                  *)
(***************************************************************************)
ParallelResult ==
  LET stops == {i \in Txns : outputs[i].status # "Success"}
      last == IF stops = {} THEN NumTxns - 1 ELSE Lowest(stops)
  IN IF outputs[last].status = "Abort" THEN UserError
     ELSE Ok([n \in 1..(last + 1) |-> outputs[n - 1]])

(* The VM on a view that does not change *)
ExecuteOn(view, i) ==
  LET values[n \in 0..Cardinality(Keys)] ==
        IF n = 0 THEN Values(<<>>)
        ELSE LET k == NextRead(i, values[n - 1]) IN
             [m \in DOMAIN values[n - 1] \cup ({k} \ {None}) |-> view[m]]
  IN Vm(i, values[Cardinality(Keys)])

(***************************************************************************)
(* The loop of execute_transactions_sequential after n transactions: the   *)
(* base view under data_map, the results, and the last status.             *)
(***************************************************************************)
Sequential[n \in 0..NumTxns] ==
  IF n = 0 THEN [view |-> Base, ret |-> <<>>, status |-> "Success"]
  ELSE LET prev == Sequential[n - 1]
           output == ExecuteOn(prev.view, n - 1)
       IN IF prev.status # "Success" THEN prev
          ELSE [view |-> [k \in Keys |-> IF k \in DOMAIN output.writes THEN output.writes[k]
                                         ELSE prev.view[k]],
                ret |-> Append(prev.ret, output), status |-> output.status]

SequentialResult ==
  LET run == Sequential[NumTxns] IN
  IF run.status = "Abort" THEN UserError ELSE Ok(run.ret)

-----------------------------------------------------------------------------
(* Properties *)

TypeOK ==
  /\ SchedulerTypeOK
  /\ \A k \in Keys, i \in Txns : data[k][i] # None =>
       data[k][i].incarnation \in Nat /\ data[k][i].estimate \in BOOLEAN
  /\ \A i \in Txns : outputs[i] # None => DOMAIN outputs[i].writes \subseteq Keys
  /\ \A i \in Txns : inputs[i] # None => \A n \in DOMAIN inputs[i] : inputs[i][n].key \in Keys
  /\ DOMAIN thread = Threads

(***************************************************************************)
(* What is committed is what sequential execution computes: the output of  *)
(* every committed transaction, and its entries in the multi-version map,  *)
(* are those of execute_transactions_sequential, as far as that gets.      *)
(* try_commit commits only what was validated in a late enough wave.       *)
(***************************************************************************)
CommittedIsSequential ==
  \A i \in 0..(commit_state.idx - 1) :
    /\ i < Len(Sequential[NumTxns].ret) => outputs[i] = Sequential[NumTxns].ret[i + 1]
    /\ \A k \in Keys :
         IF k \in DOMAIN outputs[i].writes
         THEN data[k][i] = [incarnation |-> txn_status[i].incarnation,
                            value |-> outputs[i].writes[k], estimate |-> FALSE]
         ELSE data[k][i] = None

(***************************************************************************)
(* When all threads are done, execute_transactions_parallel returns what   *)
(* execute_transactions_sequential returns, an error or skipped            *)
(* transactions included.                                                  *)
(***************************************************************************)
SameResult ==
  AllDone => /\ \A i \in Txns : outputs[i] # None
             /\ ParallelResult = SequentialResult

(***************************************************************************)
(* No assertion fails: the unreachable!() of suspend and resume, the       *)
(* assert! of add_write, the expect of mark_estimate, delete and read_set, *)
(* and the debug_assert! of set_executed_status and set_aborted_status.    *)
(***************************************************************************)
NoPanic ==
  \A t \in Threads :
    LET me == thread[t] IN
    /\ me.at \in {"wait_for_dependency", "finish_execution"} =>
         txn_status[me.idx] = Status("Executing", me.incarnation, None)
    /\ me.at = "resume" => \A j \in me.deps : txn_status[j].kind = "Suspended"
    /\ me.at = "apply_updates" => \A k \in me.todo :
         IF k \in DOMAIN me.output.writes
         THEN data[k][me.idx] = None \/ data[k][me.idx].incarnation < me.incarnation
         ELSE data[k][me.idx] # None
    /\ me.at = "validate" => inputs[me.idx] # None
    /\ me.at = "mark_estimates" =>
         /\ txn_status[me.idx] = Status("Aborting", me.incarnation, None)
         /\ \A k \in me.todo : data[k][me.idx] # None

(***************************************************************************)
(* The block is executed: every thread gets Done from next_task, whatever  *)
(* aborts and dependencies there are on the way.                           *)
(***************************************************************************)
Termination == <>AllDone

=============================================================================
