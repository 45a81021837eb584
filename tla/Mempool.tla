------------------------------- MODULE Mempool -------------------------------
(***************************************************************************)
(* The core mempool of a node: the TransactionStore with its main map and  *)
(* seven indexes, the operations of CoreMempool on it, and the tasks of    *)
(* the shared mempool that call them: submissions, commit notifications,   *)
(* rejections, garbage collection and the requests of the quorum store.    *)
(*                                                                         *)
(* The store is one record because every operation holds the mempool's     *)
(* lock.  A submission does not: it reads the account's sequence number    *)
(* from the database first and takes the lock afterwards.                  *)
(***************************************************************************)
EXTENDS Naturals, Sequences, FiniteSets, SequencesExt

CONSTANTS
    Accounts,         \* senders; an injection into Nat orders them
    Address,          \* Address[a]: the position of a in the order of addresses
    Transactions,     \* signed transactions a client or a peer may submit
    Buckets,          \* the lowest price of each broadcast bucket, ascending
    Capacity,         \* capacity
    CapacityBytes,    \* capacity_bytes
    CapacityPerUser,  \* capacity_per_user
    Timeout,          \* system_transaction_timeout
    Workers,          \* shared_mempool_max_concurrent_inbound_syncs
    MaxSeq,           \* bound: highest sequence number
    MaxTime,          \* bound: the clock stops here
    Loads             \* bounds: what an execution may meet (see LoadType)

Seqs == 0..MaxSeq

\* A transaction: who sends it, its sequence number, gas price, client
\* expiration, size, and `body`: everything else an update must not change.
TransactionType ==
    [sender : Accounts, seq : Seqs, price : Nat, exp : Nat, bytes : Nat, body : Nat]

\* How many submissions, committed blocks and rejection notices there are, and
\* whether submissions may be broadcast further.
LoadType == [submit : Nat, commit : Nat, reject : Nat, origins : SUBSET BOOLEAN]

ASSUME MempoolAssumption ==
    /\ Transactions \subseteq TransactionType
    /\ Address \in [Accounts -> Nat]
    /\ \A a, b \in Accounts : Address[a] = Address[b] => a = b
    /\ Buckets \in Seq(Nat) /\ Buckets # << >> /\ Buckets[1] = 0
    /\ \A i, j \in DOMAIN Buckets : i < j => Buckets[i] < Buckets[j]
    /\ {Capacity, CapacityBytes, CapacityPerUser} \subseteq Nat \ {0}
    /\ Loads \subseteq LoadType

VARIABLES
    store,     \* the TransactionStore
    db,        \* next sequence number of each account in the database
    notes,     \* commit notifications on their way to the mempool, oldest first
    tasks,     \* submissions that have read the database and wait for the lock
    now,       \* the clock
    told,      \* history: sequence number the notifications have reached
    overtaken, \* history: accounts with a submission that read the database
               \* before a commit the mempool heard of first, and no commit since
    budget     \* the load, with the submissions, commits and rejections left

vars == <<store, db, notes, tasks, now, told, overtaken, budget>>

-----------------------------------------------------------------------------
(* Keys, pointers and the parts of the store *)

Pointer(t) == <<t.sender, t.seq>>

\* OrderedQueueKey
PriorityKey(m) ==
    [score |-> m.txn.price, time |-> m.expiration_time,
     address |-> m.txn.sender, seq |-> m.txn.seq]

\* TTLOrderingKey of the two time indexes.
SystemKey(m) ==
    [time |-> m.expiration_time, address |-> m.txn.sender, seq |-> m.txn.seq]
ClientKey(m) ==
    [time |-> m.txn.exp, address |-> m.txn.sender, seq |-> m.txn.seq]

Of(s, a) == {m \in s.transactions : m.txn.sender = a}
At(s, p) == {m \in s.transactions : Pointer(m.txn) = p}

\* TimelineState: Ready(id) is an id above 0, NotReady is id 0, NonQualified
\* is ~qualified.
IsReady(m) == m.timeline_id > 0

\* get_timeline: the bucket whose range of prices holds the transaction's.
BucketOf(t) == Max({i \in DOMAIN Buckets : Buckets[i] <= t.price})

EmptyStore ==
    [transactions |-> {}, sequence_numbers |-> << >>,
     priority_index |-> {}, system_ttl_index |-> {}, expiration_time_index |-> {},
     timeline_index |-> [i \in DOMAIN Buckets |-> {}],
     timeline_id |-> [i \in DOMAIN Buckets |-> 1],
     parking_lot_index |-> {}, hash_index |-> {}, size_bytes |-> 0]

Put(f, a, n) == [x \in DOMAIN f \cup {a} |-> IF x = a THEN n ELSE f[x]]

Bytes(ms) == MapThenSumSet(LAMBDA m : m.txn.bytes, ms)

Unlist(index, ms) ==
    [i \in DOMAIN Buckets |->
        index[i] \ {<<m.timeline_id, Pointer(m.txn)>> : m \in ms}]

\* Mutant: index_remove forgets the client expiration index.
RemoveButExpiration(s, ms) ==
    LET left == s.transactions \ ms
        emptied == {m.txn.sender : m \in ms} \ {m.txn.sender : m \in left}
    IN  [s EXCEPT
          !.transactions = left,
          !.system_ttl_index = @ \ {SystemKey(m) : m \in ms},
          !.priority_index = @ \ {PriorityKey(m) : m \in ms},
          !.timeline_index = Unlist(@, ms),
          !.parking_lot_index = @ \ {Pointer(m.txn) : m \in ms},
          !.hash_index = @ \ {m.txn : m \in ms},
          !.size_bytes = @ - Bytes(ms),
          !.sequence_numbers = Restrict(@, DOMAIN @ \ emptied)]

\* Removal from the main map followed by index_remove; the last transaction
\* of an account takes the account's sequence number with it.
RemoveAll(s, ms) ==
    LET left == s.transactions \ ms
        emptied == {m.txn.sender : m \in ms} \ {m.txn.sender : m \in left}
    IN  [s EXCEPT
          !.transactions = left,
          !.system_ttl_index = @ \ {SystemKey(m) : m \in ms},
          !.expiration_time_index = @ \ {ClientKey(m) : m \in ms},
          !.priority_index = @ \ {PriorityKey(m) : m \in ms},
          !.timeline_index = Unlist(@, ms),
          !.parking_lot_index = @ \ {Pointer(m.txn) : m \in ms},
          !.hash_index = @ \ {m.txn : m \in ms},
          !.size_bytes = @ - Bytes(ms),
          !.sequence_numbers = Restrict(@, DOMAIN @ \ emptied)]

-----------------------------------------------------------------------------
(* process_ready_transactions and clean_committed_transactions *)

CleanCommitted(s, a, n) == RemoveAll(s, {m \in Of(s, a) : m.txn.seq < n})

\* From min on, the unbroken run of the account goes to the priority index
\* and, once, to the timeline; what lies behind a gap is parked.
ProcessReady(s, a, min) ==
    LET run      == {n \in min..MaxSeq : \A k \in min..n : At(s, <<a, k>>) # {}}
        ready    == {m \in Of(s, a) : m.txn.seq \in run}
        promoted == {m \in ready : m.qualified /\ m.timeline_id = 0}
        Id(m) == LET i == BucketOf(m.txn)
                 IN  s.timeline_id[i] + Cardinality({o \in promoted :
                        BucketOf(o.txn) = i /\ o.txn.seq < m.txn.seq})
        Listed(i) == {m \in promoted : BucketOf(m.txn) = i}
        parked   == {m \in Of(s, a) :
                        m.txn.seq > min + Cardinality(run) /\ ~IsReady(m)}
    IN  [s EXCEPT
          !.transactions = (@ \ promoted)
                              \cup {[m EXCEPT !.timeline_id = Id(m)] : m \in promoted},
          !.priority_index = @ \cup {PriorityKey(m) : m \in ready},
          !.timeline_index = [i \in DOMAIN Buckets |->
                @[i] \cup {<<Id(m), Pointer(m.txn)>> : m \in Listed(i)}],
          !.timeline_id = [i \in DOMAIN Buckets |-> @[i] + Cardinality(Listed(i))],
          !.parking_lot_index = (@ \ {Pointer(m.txn) : m \in ready})
                                    \cup {Pointer(m.txn) : m \in parked}]

-----------------------------------------------------------------------------
(* insert *)

IsFull(s) == Cardinality(s.system_ttl_index) >= Capacity \/ s.size_bytes >= CapacityBytes

\* check_txn_ready
CheckTxnReady(s, t, min) ==
    \/ t.seq = min
    \/ t.seq > 0 /\ \E m \in At(s, <<t.sender, t.seq - 1>>) : IsReady(m)

\* get_poppable: the highest parked transaction of some account.
Poppable(s) ==
    {p \in s.parking_lot_index : \A q \in s.parking_lot_index : q[1] = p[1] => q[2] <= p[2]}

\* check_is_full_after_eviction: the stores it may leave behind.
AfterEviction(s, t, min) ==
    IF IsFull(s) /\ CheckTxnReady(s, t, min) /\ s.parking_lot_index # {}
    THEN {RemoveAll(s, At(s, p)) : p \in Poppable(s)}
    ELSE {s}

\* The second half of insert, once room was looked for.
InsertNew(s, t, min, qualified, time) ==
    LET clean == CleanCommitted(s, t.sender, min)
        m == [txn |-> t, expiration_time |-> time + Timeout,
              qualified |-> qualified, timeline_id |-> 0]
        stored == [clean EXCEPT
                    !.transactions = @ \cup {m},
                    !.system_ttl_index = @ \cup {SystemKey(m)},
                    !.expiration_time_index = @ \cup {ClientKey(m)},
                    !.hash_index = @ \cup {t},
                    !.size_bytes = @ + t.bytes,
                    !.sequence_numbers = Put(@, t.sender, min)]
    IN  IF IsFull(s) THEN s
        ELSE IF Cardinality(Of(clean, t.sender)) >= CapacityPerUser THEN clean
        ELSE ProcessReady(stored, t.sender, min)

\* An update may only raise the price of a stored transaction.
IsUpdate(m, t) == m.txn.body = t.body /\ m.txn.exp = t.exp /\ m.txn.price < t.price

\* Mutant: the capacity check still counts the version just removed.
InsertCountsOld(s, t, min, qualified, time) ==
    LET current == At(s, Pointer(t))
        freed == RemoveAll(s, current)
    IN  IF \E m \in current : ~IsUpdate(m, t) THEN {s}
        ELSE IF current # {} /\ IsFull(s) THEN {freed}
        ELSE {InsertNew(e, t, min, qualified, time) : e \in AfterEviction(freed, t, min)}

\* insert: the stores it may leave behind.  A refused update and a repeated
\* submission change nothing; an allowed one first removes the old version.
Insert(s, t, min, qualified, time) ==
    LET current == At(s, Pointer(t))
    IN  IF \E m \in current : ~IsUpdate(m, t) THEN {s}
        ELSE {InsertNew(e, t, min, qualified, time) :
                e \in AfterEviction(RemoveAll(s, current), t, min)}

-----------------------------------------------------------------------------
(* commit_transaction, reject_transaction and gc *)

\* Mutant: a commit does not look for transactions that became ready.
CommitOnlyCleans(s, a, n) ==
    LET new == Max({IF a \in DOMAIN s.sequence_numbers THEN s.sequence_numbers[a] ELSE 0, n + 1})
    IN  CleanCommitted([s EXCEPT !.sequence_numbers = Put(@, a, new)], a, new)

CommitTransaction(s, a, n) ==
    LET current == IF a \in DOMAIN s.sequence_numbers THEN s.sequence_numbers[a] ELSE 0
        new == Max({current, n + 1})
        noted == [s EXCEPT !.sequence_numbers = Put(@, a, new)]
    IN  ProcessReady(CleanCommitted(noted, a, new), a, new)

RejectTransaction(s, t) == RemoveAll(s, {m \in At(s, Pointer(t)) : t \in s.hash_index})

\* gc of one of the two time indexes: the expired leave, and what follows
\* them in their accounts is parked.
Gc(s, expired) ==
    LET dead == {m \in s.transactions : \E k \in expired : Pointer(m.txn) = <<k.address, k.seq>>}
        followers == {m \in s.transactions \ dead :
                        \E d \in dead : d.txn.sender = m.txn.sender /\ d.txn.seq < m.txn.seq}
        parked == [s EXCEPT
                    !.transactions = (@ \ followers)
                                        \cup {[m EXCEPT !.timeline_id = 0] : m \in followers},
                    !.parking_lot_index = @ \cup {Pointer(m.txn) : m \in followers},
                    !.priority_index = @ \ {PriorityKey(m) : m \in followers},
                    !.timeline_index = Unlist(@, followers)]
    IN  RemoveAll(parked, dead)

GcBySystemTtl(s, time) ==
    LET expired == {k \in s.system_ttl_index : k.time < time}
    IN  Gc([s EXCEPT !.system_ttl_index = @ \ expired], expired)

GcByExpirationTime(s, time) ==
    LET expired == {k \in s.expiration_time_index : k.time < time}
    IN  Gc([s EXCEPT !.expiration_time_index = @ \ expired], expired)

-----------------------------------------------------------------------------
(* get_batch *)

\* Whether the queue, read from its end, gives key k before key l.
Before(k, l) ==
    \/ k.score > l.score
    \/ /\ k.score = l.score
       /\ \/ k.time < l.time
          \/ /\ k.time = l.time
             /\ \/ Address[k.address] > Address[l.address]
                \/ k.address = l.address /\ k.seq < l.seq

\* Mutant: transactions skipped before are not reconsidered.
LeaveSkipped(w, p, max) == w

RECURSIVE Unskip(_, _, _)

\* The loop that follows an included transaction: those skipped before that
\* come right after it are included too.
Unskip(w, p, max) ==
    IF Len(w.result) < max /\ p \in w.skipped
    THEN Unskip([w EXCEPT !.seen = @ \cup {p}, !.result = Append(@, p)], <<p[1], p[2] + 1>>, max)
    ELSE w

RECURSIVE Walk(_, _, _, _)

\* The walk over the priority index: w holds `seen`, `skipped`, `result`.
Walk(s, queue, w, max) ==
    IF queue = {} \/ Len(w.result) = max THEN w.result
    ELSE LET k == CHOOSE x \in queue : \A y \in queue \ {x} : Before(x, y)
             p == <<k.address, k.seq>>
             next == \/ k.seq > 0 /\ <<k.address, k.seq - 1>> \in w.seen
                     \/ /\ k.address \in DOMAIN s.sequence_numbers
                        /\ s.sequence_numbers[k.address] = k.seq
             taken == [w EXCEPT !.seen = @ \cup {p}, !.result = Append(@, p)]
         IN  Walk(s, queue \ {k},
                  IF p \in w.seen THEN w
                  ELSE IF next THEN Unskip(taken, <<k.address, k.seq + 1>>, max)
                  ELSE [w EXCEPT !.skipped = @ \cup {p}],
                  max)

\* get_batch: pointers to the transactions of the batch, in order; the
\* answer ends before the first one that would exceed the byte limit.
GetBatch(s, seen, maxTxns, maxBytes) ==
    LET r == Walk(s, s.priority_index,
                  [seen |-> seen, skipped |-> {}, result |-> << >>], maxTxns)
        Size(n) == Bytes({m \in s.transactions : \E i \in 1..n : r[i] = Pointer(m.txn)})
    IN  SubSeq(r, 1, Max({n \in 0..Len(r) : Size(n) <= maxBytes}))

-----------------------------------------------------------------------------
(* The node *)

Init ==
    /\ store = EmptyStore
    /\ db = [a \in Accounts |-> 0]
    /\ notes = << >>
    /\ tasks = {}
    /\ now = 1
    /\ told = [a \in Accounts |-> 0]
    /\ overtaken = {}
    /\ budget \in Loads

\* process_incoming_transactions up to the lock: the sequence number comes
\* from the latest state, and a transaction below it is turned away.  One
\* that fails validation is dropped without a trace and is not modelled.
ReadSequenceNumber(t, qualified) ==
    /\ budget.submit > 0 /\ Cardinality(tasks) < Workers
    /\ t.seq >= db[t.sender]
    /\ tasks' = tasks \cup {[txn |-> t, min |-> db[t.sender], qualified |-> qualified]}
    /\ budget' = [budget EXCEPT !.submit = @ - 1]
    /\ UNCHANGED <<store, db, notes, now, told, overtaken>>

\* validate_and_add_transactions and add_txn, under the lock.
AddTxn(k) ==
    /\ k \in tasks
    /\ tasks' = tasks \ {k}
    /\ store' \in Insert(store, k.txn, k.min, k.qualified, now)
    /\ overtaken' = overtaken \cup {a \in {k.txn.sender} : k.min < told[a]}
    /\ UNCHANGED <<db, notes, now, told, budget>>

\* A block with the next transactions of some accounts reaches the database;
\* state sync then notifies the mempool.
DbCommit(as) ==
    /\ budget.commit > 0
    /\ as # {} /\ \A a \in as : db[a] < MaxSeq
    /\ budget' = [budget EXCEPT !.commit = @ - 1]
    /\ notes' = Append(notes, [txns |-> {<<a, db[a]>> : a \in as}, time |-> now])
    /\ db' = [a \in Accounts |-> IF a \in as THEN db[a] + 1 ELSE db[a]]
    /\ UNCHANGED <<store, tasks, now, told, overtaken>>

CommitAll(s, txns) ==
    FoldSet(LAMBDA p, r : CommitTransaction(r, p[1], p[2]), s, txns)

\* handle_commit_notification and process_committed_transactions.
HandleCommitNotification ==
    /\ notes # << >>
    /\ store' = GcByExpirationTime(CommitAll(store, Head(notes).txns), Head(notes).time)
    /\ told' = [a \in Accounts |->
                  IF \E p \in Head(notes).txns : p[1] = a
                  THEN 1 + (CHOOSE p \in Head(notes).txns : p[1] = a)[2] ELSE told[a]]
    /\ overtaken' = overtaken \ {p[1] : p \in Head(notes).txns}
    /\ notes' = Tail(notes)
    /\ UNCHANGED <<db, tasks, now, budget>>

\* process_rejected_transactions: consensus discarded a transaction that
\* the mempool, or another node's, had offered.
HandleReject(t) ==
    /\ budget.reject > 0
    /\ store' = RejectTransaction(store, t)
    /\ budget' = [budget EXCEPT !.reject = @ - 1]
    /\ UNCHANGED <<db, notes, tasks, now, told, overtaken>>

\* gc_coordinator: the periodic garbage collection.
PeriodicGc ==
    /\ store' = GcBySystemTtl(store, now)
    /\ UNCHANGED <<db, notes, tasks, now, told, overtaken, budget>>

\* A GetBatchRequest of the quorum store collects garbage before it reads.
HandleGetBatch ==
    /\ store' = GcByExpirationTime(store, now)
    /\ UNCHANGED <<db, notes, tasks, now, told, overtaken, budget>>

Tick ==
    /\ now < MaxTime
    /\ now' = now + 1
    /\ UNCHANGED <<store, db, notes, tasks, told, overtaken, budget>>

Next ==
    \/ \E t \in Transactions, q \in budget.origins : ReadSequenceNumber(t, q)
    \/ \E k \in tasks : AddTxn(k)
    \/ \E as \in SUBSET Accounts : DbCommit(as)
    \/ HandleCommitNotification
    \/ \E t \in Transactions : HandleReject(t)
    \/ PeriodicGc
    \/ HandleGetBatch
    \/ Tick

Spec == Init /\ [][Next]_vars

-----------------------------------------------------------------------------
(* Properties *)

\* The store keeps one version of a transaction per account and sequence
\* number, in fields of their types.
TypeOK ==
    /\ \A m \in store.transactions :
          /\ m.txn \in Transactions /\ m.expiration_time \in Nat
          /\ m.qualified \in BOOLEAN /\ m.timeline_id \in Nat
    /\ \A m, o \in store.transactions : Pointer(m.txn) = Pointer(o.txn) => m = o
    /\ DOMAIN store.sequence_numbers \subseteq Accounts
    /\ db \in [Accounts -> Seqs] /\ told \in [Accounts -> Seqs]
    /\ now \in 1..MaxTime

\* Whatever order insertions, updates, commits, rejections, evictions and
\* the two garbage collections come in, the indexes describe the main map
\* exactly (insert and index_remove in transaction_store.rs): no entry is
\* left behind, none is missing, and the byte count is the sum of the sizes.
IndexesAgree ==
    LET ms == store.transactions
    IN  /\ store.system_ttl_index = {SystemKey(m) : m \in ms}
        /\ store.expiration_time_index = {ClientKey(m) : m \in ms}
        /\ store.hash_index = {m.txn : m \in ms}
        /\ store.size_bytes = Bytes(ms)
        /\ store.parking_lot_index \subseteq {Pointer(m.txn) : m \in ms}
        /\ store.priority_index \subseteq {PriorityKey(m) : m \in ms}
        /\ \A i \in DOMAIN Buckets : store.timeline_index[i] =
              {<<m.timeline_id, Pointer(m.txn)>> :
                  m \in {o \in ms : IsReady(o) /\ BucketOf(o.txn) = i}}
        /\ {m.txn.sender : m \in ms} \subseteq DOMAIN store.sequence_numbers

\* Every stored transaction can be proposed or, when the mempool is full,
\* evicted; and one that is to be broadcast is proposed exactly when it is
\* on the timeline (process_ready_transactions, gc).
ServedOrParked ==
    \A m \in store.transactions :
        LET served == PriorityKey(m) \in store.priority_index
            parked == Pointer(m.txn) \in store.parking_lot_index
        IN  /\ served \/ parked
            /\ m.qualified => (served <=> IsReady(m)) /\ ~(served /\ parked)

\* The nine structures of the store describe the same transactions, and none
\* of them is out of reach of both get_batch and eviction.
StoreIsConsistent == IndexesAgree /\ ServedOrParked

\* The pointers get_batch can reach: from an account's sequence number or
\* from a transaction already in consensus, without a gap.
RECURSIVE Reach(_, _, _)
Reach(s, seen, got) ==
    LET more == {<<k.address, k.seq>> : k \in {x \in s.priority_index :
                    \/ x.seq > 0 /\ <<x.address, x.seq - 1>> \in seen \cup got
                    \/ s.sequence_numbers[x.address] = x.seq}} \ (seen \cup got)
    IN  IF more = {} THEN got ELSE Reach(s, seen, got \cup more)

\* Whatever the order of the prices, get_batch offers exactly the
\* transactions that can be executed after the ones in consensus, none
\* twice, and none before the one it follows; and a smaller limit gives a
\* prefix (get_batch and its `skipped` set in mempool.rs).
BatchIsExecutable ==
    \A seen \in SUBSET {Pointer(m.txn) : m \in store.transactions} :
        LET bytes == Bytes(store.transactions)
            all == GetBatch(store, seen, Capacity, bytes)
        IN  /\ ToSet(all) = Reach(store, seen, {})
            /\ \A i \in DOMAIN all, j \in DOMAIN all :
                 /\ all[i] = all[j] => i = j
                 /\ all[i][1] = all[j][1] /\ all[j][2] = all[i][2] + 1 => i < j
            /\ \A max \in 1..Len(all) :
                 GetBatch(store, seen, max, bytes) = SubSeq(all, 1, max)

Quiet == notes = << >> /\ tasks = {}

\* When the mempool has heard of every commit and no submission is on its
\* way, the transaction an account may execute next is offered if it is
\* stored at all: no sequence of expirations, evictions, rejections and
\* updates leaves it parked or unreachable.
NextIsOffered ==
    Quiet => \A a \in Accounts \ overtaken :
        At(store, <<a, db[a]>>) # {} =>
            <<a, db[a]>> \in ToSet(GetBatch(store, {}, Capacity, Bytes(store.transactions)))

\* add_txn does not accept old transactions: nothing is stored below the
\* sequence number that the commit notifications have reached.
NothingCommittedIsStored ==
    \A m \in store.transactions :
        m.txn.sender \notin overtaken => m.txn.seq >= told[m.txn.sender]

\* The mempool follows the chain: nothing committed is kept and the next
\* transaction of an account is offered.  A submission that reads the database
\* before a commit and takes the lock after process_committed_transactions sets
\* the account's sequence number back; the harm stays with that account, and
\* ends with its next commit notification.
AccountsAreCurrent == NextIsOffered /\ NothingCommittedIsStored

\* Submitting a transaction again, with the same or with a higher price, does
\* not remove it: insert gives up the old version for the new one.  The one
\* exception is a mempool in which the other transactions alone fill
\* capacity_bytes: insert has removed the old version when it finds no room.
UpdateKeepsTransaction ==
    [][\A k \in tasks \ tasks' :
          LET old == At(store, Pointer(k.txn)) IN
          old # {} => \/ At(store', Pointer(k.txn)) # {}
                      \/ Bytes(store.transactions \ old) >= CapacityBytes]_vars

\* sequence_numbers holds the accounts that have transactions, and no other.
\* It does not hold; see section 5 of the README.
SequenceNumbersOfStored ==
    DOMAIN store.sequence_numbers = {m.txn.sender : m \in store.transactions}
=============================================================================
