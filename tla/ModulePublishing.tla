-------------------------- MODULE ModulePublishing --------------------------
(***************************************************************************)
(* How the parallel executor notices that a block publishes a module it    *)
(* also loads (src/language/block-executor/src/txn_last_input_output.rs,   *)
(* record and append_and_check, and the fallback of executor.rs).          *)
(*                                                                         *)
(* The Move VM's loader cache is not versioned: a module loaded by one     *)
(* speculative execution is served to every other one.  The worker threads *)
(* therefore collect the module paths that any execution read or wrote in  *)
(* two concurrent sets, each thread showing its own path before it looks   *)
(* for it in the other set, and the block is executed again, sequentially, *)
(* when the sets were seen to meet.  There is no lock around record: every *)
(* access to a set or to the flag is a step of its own here.               *)
(***************************************************************************)
EXTENDS Naturals, FiniteSets

CONSTANTS Threads,      \* the worker threads of the pool
          Paths         \* module access paths

VARIABLES pc,           \* where each thread is in execute / record
          reads,        \* read_modules not yet appended
          writes,       \* written_modules not yet appended
          path,         \* the path being shown and looked for
          module_reads, module_writes,      \* the two DashSets
          module_read_write_intersection,   \* the AtomicBool
          loaded,       \* modules some execution loaded into the VM's cache
          published,    \* modules in the write set of some execution
          outcome       \* "running", then how the block's outputs were made

vars == <<pc, reads, writes, path, module_reads, module_writes,
          module_read_write_intersection, loaded, published, outcome>>

Init ==
    /\ pc = [t \in Threads |-> "idle"]
    /\ reads = [t \in Threads |-> {}]
    /\ writes = [t \in Threads |-> {}]
    /\ path \in [Threads -> Paths]
    /\ module_reads = {}
    /\ module_writes = {}
    /\ module_read_write_intersection = FALSE
    /\ loaded = {}
    /\ published = {}
    /\ outcome = "running"

Sets == <<module_reads, module_writes, module_read_write_intersection>>
Ghosts == <<loaded, published, outcome>>

Goto(t, label) == pc' = [pc EXCEPT ![t] = label]

(***************************************************************************)
(* One speculative execution of some transaction: it loads the modules R   *)
(* and, unless it aborts, its output writes the modules W.                 *)
(***************************************************************************)
Execute(t, R, W) ==
    /\ outcome = "running"
    /\ pc[t] = "idle"
    /\ reads' = [reads EXCEPT ![t] = R]
    /\ writes' = [writes EXCEPT ![t] = W]
    /\ loaded' = loaded \cup R
    /\ published' = published \cup W
    /\ Goto(t, "load")
    /\ UNCHANGED <<path, Sets, outcome>>

(***************************************************************************)
(* The Relaxed load of the flag: it may still answer false after the flag  *)
(* was set by another thread.  The sets are left alone if it answers true. *)
(***************************************************************************)
LoadFlag(t) ==
    /\ pc[t] = "load"
    /\ \/ Goto(t, "read")
       \/ module_read_write_intersection /\ Goto(t, "idle")
    /\ UNCHANGED <<reads, writes, path, Sets, Ghosts>>

(***************************************************************************)
(* append_and_check(read_modules, module_reads, module_writes)             *)
(***************************************************************************)
AppendRead(t) ==
    /\ pc[t] = "read"
    /\ \E p \in reads[t] :
          /\ path' = [path EXCEPT ![t] = p]
          /\ reads' = [reads EXCEPT ![t] = @ \ {p}]
          /\ module_reads' = module_reads \cup {p}
    /\ Goto(t, "look_read")
    /\ UNCHANGED <<writes, module_writes, module_read_write_intersection, Ghosts>>

CheckRead(t) ==
    /\ pc[t] = "look_read"
    /\ IF path[t] \in module_writes THEN Goto(t, "store") ELSE Goto(t, "read")
    /\ UNCHANGED <<reads, writes, path, Sets, Ghosts>>

ReadsDone(t) ==
    /\ pc[t] = "read"
    /\ reads[t] = {}
    /\ Goto(t, "write")
    /\ UNCHANGED <<reads, writes, path, Sets, Ghosts>>

(***************************************************************************)
(* append_and_check(written_modules, module_writes, module_reads), run     *)
(* only when the first call found nothing                                  *)
(***************************************************************************)
AppendWrite(t) ==
    /\ pc[t] = "write"
    /\ \E p \in writes[t] :
          /\ path' = [path EXCEPT ![t] = p]
          /\ writes' = [writes EXCEPT ![t] = @ \ {p}]
          /\ module_writes' = module_writes \cup {p}
    /\ Goto(t, "look_write")
    /\ UNCHANGED <<reads, module_reads, module_read_write_intersection, Ghosts>>

\* Plausible slips: the written paths looked up in the set they were just
\* added to, and their look-up dropped.
CheckWriteOwnSet(t) ==
    /\ pc[t] = "look_write"
    /\ IF path[t] \in module_writes THEN Goto(t, "store") ELSE Goto(t, "write")
    /\ UNCHANGED <<reads, writes, path, Sets, Ghosts>>

CheckWriteDropped(t) ==
    /\ pc[t] = "look_write"
    /\ Goto(t, "write")
    /\ UNCHANGED <<reads, writes, path, Sets, Ghosts>>

CheckWrite(t) ==
    /\ pc[t] = "look_write"
    /\ IF path[t] \in module_reads THEN Goto(t, "store") ELSE Goto(t, "write")
    /\ UNCHANGED <<reads, writes, path, Sets, Ghosts>>

WritesDone(t) ==
    /\ pc[t] = "write"
    /\ writes[t] = {}
    /\ Goto(t, "idle")
    /\ UNCHANGED <<reads, writes, path, Sets, Ghosts>>

\* The Release store of the flag.
StoreFlag(t) ==
    /\ pc[t] = "store"
    /\ module_read_write_intersection' = TRUE
    /\ Goto(t, "idle")
    /\ UNCHANGED <<reads, writes, path, module_reads, module_writes, Ghosts>>

(***************************************************************************)
(* The pool's scope has ended: the outputs of the parallel execution are   *)
(* taken, or thrown away and the block executed sequentially.              *)
(***************************************************************************)
Finish ==
    /\ outcome = "running"
    /\ \A t \in Threads : pc[t] = "idle"
    /\ outcome' = IF module_read_write_intersection THEN "sequential" ELSE "parallel"
    /\ UNCHANGED <<pc, reads, writes, path, Sets, loaded, published>>

Record(t) ==
    \/ LoadFlag(t)
    \/ AppendRead(t) \/ CheckRead(t) \/ ReadsDone(t)
    \/ AppendWrite(t) \/ CheckWrite(t) \/ WritesDone(t)
    \/ StoreFlag(t)

Next ==
    \/ \E t \in Threads : \/ \E R, W \in SUBSET Paths : Execute(t, R, W)
                          \/ Record(t)
    \/ Finish

Spec == Init /\ [][Next]_vars

-----------------------------------------------------------------------------
Labels == {"idle", "load", "read", "look_read", "write", "look_write", "store"}

TypeOK ==
    /\ pc \in [Threads -> Labels]
    /\ reads \in [Threads -> SUBSET Paths]
    /\ writes \in [Threads -> SUBSET Paths]
    /\ path \in [Threads -> Paths]
    /\ module_reads \in SUBSET Paths
    /\ module_writes \in SUBSET Paths
    /\ module_read_write_intersection \in BOOLEAN
    /\ loaded \in SUBSET Paths
    /\ published \in SUBSET Paths
    /\ outcome \in {"running", "parallel", "sequential"}

(***************************************************************************)
(* "The intersection is guaranteed to be found because we first record the *)
(* paths then check the other set (flags principle)": outputs of the       *)
(* parallel execution are used only if no module that any of its           *)
(* executions loaded was written by any of them, however the threads'      *)
(* appends, checks and flag accesses interleave.                           *)
(***************************************************************************)
ParallelIsRaceFree == outcome = "parallel" => loaded \cap published = {}

(***************************************************************************)
(* The block is executed a second time only if some module really was both *)
(* loaded and published: two disjoint sets of paths never meet in record.  *)
(***************************************************************************)
FallbackIsNeeded == outcome = "sequential" => loaded \cap published # {}

(***************************************************************************)
(* The inductive invariant of ModulePublishingProofs.  Found: the race is  *)
(* known to some thread.  Until then every loaded module is in             *)
(* module_reads or waits in a thread that has not come to it (likewise the *)
(* published ones), and a path in both sets is being looked for by a       *)
(* thread that has shown it: the later of the two to show it.              *)
(***************************************************************************)
Found == module_read_write_intersection \/ \E t \in Threads : pc[t] = "store"

ReadsTracked ==
    Found \/ \A p \in loaded :
                \/ p \in module_reads
                \/ \E t \in Threads : /\ pc[t] \in {"load", "read", "look_read"}
                                      /\ p \in reads[t]

WritesTracked ==
    Found \/ \A p \in published :
                \/ p \in module_writes
                \/ \E t \in Threads :
                      /\ pc[t] \in {"load", "read", "look_read", "write", "look_write"}
                      /\ p \in writes[t]

MeetingIsLookedFor ==
    Found \/ \A p \in module_reads \cap module_writes :
                \E t \in Threads : pc[t] \in {"look_read", "look_write"} /\ path[t] = p

OnlyRealPaths ==
    /\ module_reads \subseteq loaded
    /\ module_writes \subseteq published
    /\ \A t \in Threads : /\ reads[t] \subseteq loaded
                          /\ writes[t] \subseteq published
                          /\ pc[t] = "look_read" => path[t] \in loaded
                          /\ pc[t] = "look_write" => path[t] \in published
    /\ Found => loaded \cap published # {}

IInv ==
    /\ TypeOK
    /\ outcome # "running" => \A t \in Threads : pc[t] = "idle"
    /\ ReadsTracked
    /\ WritesTracked
    /\ MeetingIsLookedFor
    /\ OnlyRealPaths
    /\ ParallelIsRaceFree
    /\ FallbackIsNeeded
=============================================================================
