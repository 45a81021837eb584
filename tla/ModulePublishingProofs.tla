----------------------- MODULE ModulePublishingProofs -----------------------
(***************************************************************************)
(* ParallelIsRaceFree and FallbackIsNeeded for every number of threads,    *)
(* executions and modules, through the inductive invariant IInv.           *)
(***************************************************************************)
EXTENDS ModulePublishing, TLAPS

\* The invariant holds before the first transaction.
LEMMA InitInv == Init => IInv
  BY DEF Init, IInv, TypeOK, Labels, Found, ReadsTracked, WritesTracked,
         MeetingIsLookedFor, OnlyRealPaths, ParallelIsRaceFree, FallbackIsNeeded

\* Types survive every step.
LEMMA TypeStep ==
    ASSUME TypeOK, [Next]_vars
    PROVE  TypeOK'
<1> USE DEF TypeOK, Labels, Goto, Sets, Ghosts
<1>1. ASSUME NEW t \in Threads, NEW R \in SUBSET Paths, NEW W \in SUBSET Paths,
             Execute(t, R, W)
      PROVE  TypeOK'
  BY <1>1 DEF Execute
<1>2. ASSUME NEW t \in Threads, LoadFlag(t)
      PROVE  TypeOK'
  BY <1>2 DEF LoadFlag
<1>3. ASSUME NEW t \in Threads, AppendRead(t)
      PROVE  TypeOK'
  BY <1>3 DEF AppendRead
<1>4. ASSUME NEW t \in Threads, CheckRead(t)
      PROVE  TypeOK'
  BY <1>4 DEF CheckRead
<1>5. ASSUME NEW t \in Threads, ReadsDone(t)
      PROVE  TypeOK'
  BY <1>5 DEF ReadsDone
<1>6. ASSUME NEW t \in Threads, AppendWrite(t)
      PROVE  TypeOK'
  BY <1>6 DEF AppendWrite
<1>7. ASSUME NEW t \in Threads, CheckWrite(t)
      PROVE  TypeOK'
  BY <1>7 DEF CheckWrite
<1>8. ASSUME NEW t \in Threads, WritesDone(t)
      PROVE  TypeOK'
  BY <1>8 DEF WritesDone
<1>9. ASSUME NEW t \in Threads, StoreFlag(t)
      PROVE  TypeOK'
  BY <1>9 DEF StoreFlag
<1>10. CASE Finish
  BY <1>10 DEF Finish
<1>11. CASE UNCHANGED vars
  BY <1>11 DEF vars
<1>12. QED
  BY <1>1, <1>2, <1>3, <1>4, <1>5, <1>6, <1>7, <1>8, <1>9, <1>10, <1>11
     DEF Next, Record

\* Execute adds modules to the ghosts and to the thread's own lists.
LEMMA ExecuteInv ==
    ASSUME IInv, TypeOK', NEW t \in Threads,
           NEW R \in SUBSET Paths, NEW W \in SUBSET Paths, Execute(t, R, W)
    PROVE  IInv'
<1> USE DEF IInv, TypeOK, Labels, Execute, Goto, Sets
<1>1. Found' <=> Found
  BY DEF Found
<1>2. ReadsTracked'
  BY <1>1 DEF ReadsTracked
<1>3. WritesTracked'
  BY <1>1 DEF WritesTracked
<1>4. MeetingIsLookedFor'
  BY <1>1 DEF MeetingIsLookedFor
<1>5. OnlyRealPaths'
  BY <1>1 DEF OnlyRealPaths
<1>6. ParallelIsRaceFree' /\ FallbackIsNeeded'
  BY DEF ParallelIsRaceFree, FallbackIsNeeded
<1>7. QED
  BY <1>2, <1>3, <1>4, <1>5, <1>6

\* A thread that skips the sets has seen the flag, so the race is known.
LEMMA LoadFlagInv ==
    ASSUME IInv, TypeOK', NEW t \in Threads, LoadFlag(t)
    PROVE  IInv'
<1> USE DEF IInv, TypeOK, Labels, LoadFlag, Goto, Sets, Ghosts
<1>1. Found => Found'
  BY DEF Found
<1>2. ReadsTracked'
  BY <1>1 DEF ReadsTracked, Found
<1>3. WritesTracked'
  BY <1>1 DEF WritesTracked, Found
<1>4. MeetingIsLookedFor'
  BY <1>1 DEF MeetingIsLookedFor, Found
<1>5. OnlyRealPaths'
  BY DEF OnlyRealPaths, Found
<1>6. ParallelIsRaceFree' /\ FallbackIsNeeded'
  BY DEF ParallelIsRaceFree, FallbackIsNeeded
<1>7. QED
  BY <1>2, <1>3, <1>4, <1>5, <1>6

\* The path shown is now looked for by the thread that showed it.
LEMMA AppendReadInv ==
    ASSUME IInv, TypeOK', NEW t \in Threads, AppendRead(t)
    PROVE  IInv'
<1> USE DEF IInv, TypeOK, Labels, AppendRead, Goto, Sets, Ghosts
<1>1. Found => Found'
  BY DEF Found
<1>2. ReadsTracked'
  BY <1>1 DEF ReadsTracked, Found
<1>3. WritesTracked'
  BY <1>1 DEF WritesTracked, Found
<1>4. MeetingIsLookedFor'
  BY <1>1 DEF MeetingIsLookedFor, Found
<1>5. OnlyRealPaths'
  BY DEF OnlyRealPaths, Found
<1>6. ParallelIsRaceFree' /\ FallbackIsNeeded'
  BY DEF ParallelIsRaceFree, FallbackIsNeeded
<1>7. QED
  BY <1>2, <1>3, <1>4, <1>5, <1>6

\* A path that was looked for in vain is not in both sets.
LEMMA CheckReadInv ==
    ASSUME IInv, TypeOK', NEW t \in Threads, CheckRead(t)
    PROVE  IInv'
<1> USE DEF IInv, TypeOK, Labels, CheckRead, Goto, Sets, Ghosts
<1>1. Found => Found'
  BY DEF Found
<1>2. ReadsTracked'
  BY <1>1 DEF ReadsTracked, Found
<1>3. WritesTracked'
  BY <1>1 DEF WritesTracked, Found
<1>4. MeetingIsLookedFor'
  BY <1>1 DEF MeetingIsLookedFor, Found
<1>5. OnlyRealPaths'
  BY DEF OnlyRealPaths, Found
<1>6. ParallelIsRaceFree' /\ FallbackIsNeeded'
  BY DEF ParallelIsRaceFree, FallbackIsNeeded
<1>7. QED
  BY <1>2, <1>3, <1>4, <1>5, <1>6

\* Nothing is left to show.
LEMMA ReadsDoneInv ==
    ASSUME IInv, TypeOK', NEW t \in Threads, ReadsDone(t)
    PROVE  IInv'
<1> USE DEF IInv, TypeOK, Labels, ReadsDone, Goto, Sets, Ghosts
<1>1. Found => Found'
  BY DEF Found
<1>2. ReadsTracked'
  BY <1>1 DEF ReadsTracked, Found
<1>3. WritesTracked'
  BY <1>1 DEF WritesTracked, Found
<1>4. MeetingIsLookedFor'
  BY <1>1 DEF MeetingIsLookedFor, Found
<1>5. OnlyRealPaths'
  BY DEF OnlyRealPaths, Found
<1>6. ParallelIsRaceFree' /\ FallbackIsNeeded'
  BY DEF ParallelIsRaceFree, FallbackIsNeeded
<1>7. QED
  BY <1>2, <1>3, <1>4, <1>5, <1>6

\* The path shown is now looked for by the thread that showed it.
LEMMA AppendWriteInv ==
    ASSUME IInv, TypeOK', NEW t \in Threads, AppendWrite(t)
    PROVE  IInv'
<1> USE DEF IInv, TypeOK, Labels, AppendWrite, Goto, Sets, Ghosts
<1>1. Found => Found'
  BY DEF Found
<1>2. ReadsTracked'
  BY <1>1 DEF ReadsTracked, Found
<1>3. WritesTracked'
  BY <1>1 DEF WritesTracked, Found
<1>4. MeetingIsLookedFor'
  BY <1>1 DEF MeetingIsLookedFor, Found
<1>5. OnlyRealPaths'
  BY DEF OnlyRealPaths, Found
<1>6. ParallelIsRaceFree' /\ FallbackIsNeeded'
  BY DEF ParallelIsRaceFree, FallbackIsNeeded
<1>7. QED
  BY <1>2, <1>3, <1>4, <1>5, <1>6

\* A path that was looked for in vain is not in both sets.
LEMMA CheckWriteInv ==
    ASSUME IInv, TypeOK', NEW t \in Threads, CheckWrite(t)
    PROVE  IInv'
<1> USE DEF IInv, TypeOK, Labels, CheckWrite, Goto, Sets, Ghosts
<1>1. Found => Found'
  BY DEF Found
<1>2. ReadsTracked'
  BY <1>1 DEF ReadsTracked, Found
<1>3. WritesTracked'
  BY <1>1 DEF WritesTracked, Found
<1>4. MeetingIsLookedFor'
  BY <1>1 DEF MeetingIsLookedFor, Found
<1>5. OnlyRealPaths'
  BY DEF OnlyRealPaths, Found
<1>6. ParallelIsRaceFree' /\ FallbackIsNeeded'
  BY DEF ParallelIsRaceFree, FallbackIsNeeded
<1>7. QED
  BY <1>2, <1>3, <1>4, <1>5, <1>6

\* Nothing is left to show.
LEMMA WritesDoneInv ==
    ASSUME IInv, TypeOK', NEW t \in Threads, WritesDone(t)
    PROVE  IInv'
<1> USE DEF IInv, TypeOK, Labels, WritesDone, Goto, Sets, Ghosts
<1>1. Found => Found'
  BY DEF Found
<1>2. ReadsTracked'
  BY <1>1 DEF ReadsTracked, Found
<1>3. WritesTracked'
  BY <1>1 DEF WritesTracked, Found
<1>4. MeetingIsLookedFor'
  BY <1>1 DEF MeetingIsLookedFor, Found
<1>5. OnlyRealPaths'
  BY DEF OnlyRealPaths, Found
<1>6. ParallelIsRaceFree' /\ FallbackIsNeeded'
  BY DEF ParallelIsRaceFree, FallbackIsNeeded
<1>7. QED
  BY <1>2, <1>3, <1>4, <1>5, <1>6

\* The thread that knew of the race hands its knowledge to the flag.
LEMMA StoreFlagInv ==
    ASSUME IInv, TypeOK', NEW t \in Threads, StoreFlag(t)
    PROVE  IInv'
<1> USE DEF IInv, TypeOK, Labels, StoreFlag, Goto, Sets, Ghosts
<1>1. Found => Found'
  BY DEF Found
<1>2. ReadsTracked'
  BY <1>1 DEF ReadsTracked, Found
<1>3. WritesTracked'
  BY <1>1 DEF WritesTracked, Found
<1>4. MeetingIsLookedFor'
  BY <1>1 DEF MeetingIsLookedFor, Found
<1>5. OnlyRealPaths'
  BY DEF OnlyRealPaths, Found
<1>6. ParallelIsRaceFree' /\ FallbackIsNeeded'
  BY DEF ParallelIsRaceFree, FallbackIsNeeded
<1>7. QED
  BY <1>2, <1>3, <1>4, <1>5, <1>6

\* All threads are idle, so what is loaded or published is in the sets, and
\* nothing is looked for: the sets meet exactly when the flag says so.
LEMMA FinishInv ==
    ASSUME IInv, TypeOK', Finish
    PROVE  IInv'
<1> USE DEF IInv, TypeOK, Finish, Sets
<1>1. Found' <=> Found
  BY DEF Found
<1>2. Found <=> module_read_write_intersection
  BY DEF Found
<1>3. ReadsTracked' /\ WritesTracked' /\ MeetingIsLookedFor' /\ OnlyRealPaths'
  BY <1>1 DEF ReadsTracked, WritesTracked, MeetingIsLookedFor, OnlyRealPaths
<1>4. ParallelIsRaceFree'
  <2> SUFFICES ASSUME ~module_read_write_intersection
               PROVE  loaded \cap published = {}
    BY DEF ParallelIsRaceFree
  <2>1. loaded \subseteq module_reads
    BY <1>2 DEF ReadsTracked
  <2>2. published \subseteq module_writes
    BY <1>2 DEF WritesTracked
  <2>3. module_reads \cap module_writes = {}
    BY <1>2 DEF MeetingIsLookedFor
  <2>4. QED
    BY <2>1, <2>2, <2>3
<1>5. FallbackIsNeeded'
  BY <1>2 DEF OnlyRealPaths, FallbackIsNeeded
<1>6. QED
  BY <1>3, <1>4, <1>5

(***************************************************************************)
(* IInv is an invariant of the executor's worker threads.                  *)
(***************************************************************************)
THEOREM Invariance == Spec => []IInv
<1>1. ASSUME IInv, [Next]_vars
      PROVE  IInv'
  <2>1. TypeOK'
    BY <1>1, TypeStep DEF IInv
  <2>2. CASE UNCHANGED vars
    BY <1>1, <2>2 DEF vars, IInv, TypeOK, Found, ReadsTracked, WritesTracked,
       MeetingIsLookedFor, OnlyRealPaths, ParallelIsRaceFree, FallbackIsNeeded
  <2>3. ASSUME NEW t \in Threads, Record(t)
        PROVE  IInv'
    BY <1>1, <2>1, <2>3, LoadFlagInv, AppendReadInv, CheckReadInv, ReadsDoneInv,
       AppendWriteInv, CheckWriteInv, WritesDoneInv, StoreFlagInv DEF Record
  <2>4. QED
    BY <1>1, <2>1, <2>2, <2>3, ExecuteInv, FinishInv DEF Next
<1>2. QED
  BY InitInv, <1>1, PTL DEF Spec

(***************************************************************************)
(* Whatever the interleaving of record on any number of threads, the       *)
(* parallel outputs are used only if no loaded module was published.       *)
(***************************************************************************)
THEOREM RaceIsFound == Spec => []ParallelIsRaceFree
<1>1. IInv => ParallelIsRaceFree
  BY DEF IInv
<1>2. QED
  BY Invariance, <1>1, PTL

(***************************************************************************)
(* The sequential fallback is taken only if a module was both loaded and   *)
(* published.                                                              *)
(***************************************************************************)
THEOREM NoNeedlessFallback == Spec => []FallbackIsNeeded
<1>1. IInv => FallbackIsNeeded
  BY DEF IInv
<1>2. QED
  BY Invariance, <1>1, PTL
=============================================================================
