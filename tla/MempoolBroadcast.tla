--------------------------- MODULE MempoolBroadcast ---------------------------
(***************************************************************************)
(* How the shared mempool broadcasts ready transactions to its upstream    *)
(* peers: the coordinator's scheduled broadcasts, the choice of the next   *)
(* batch (expired, to be retried, or new), acknowledgements with retry and *)
(* backoff, and peers that come and go.  All of it runs in the one loop of *)
(* the coordinator, so a handler is one step.                              *)
(*                                                                         *)
(* The core mempool is abstracted to its timeline: per bucket the ids that *)
(* are still stored.  The transactions of a bucket are those of one        *)
(* account, in order.  A receiving mempool is the set of transactions it   *)
(* has accepted, and it may be full.                                       *)
(***************************************************************************)
EXTENDS Naturals, Sequences, FiniteSets, SequencesExt

CONSTANTS
    Peers,           \* upstream peers
    Rank,            \* Rank[p]: the order of PrioritizedPeersComparator
    NumBuckets,      \* number of broadcast buckets
    BatchSize,       \* shared_mempool_batch_size
    MaxTxns,         \* bound: transactions per bucket
    MaxInFlight,     \* bound: requests in flight, the size of the send queue
    Setups           \* configurations and bounds of an execution

BucketIds == 1..NumBuckets

\* upstream: the peers that may connect; failovers: default_failovers, at least
\* the number of peers on a validator; max_broadcasts: max_broadcasts_per_peer;
\* full: the peers whose mempool is full, with parked transactions to evict;
\* quick: may a peer return before its scheduled broadcast fires; then bounds:
\* transactions in each bucket, lost messages, transactions that leave the
\* mempool and lost connections.
SetupType ==
    [upstream : SUBSET Peers, failovers : Nat, max_broadcasts : Nat \ {0},
     full : SUBSET Peers, quick : BOOLEAN, txns : [BucketIds -> 0..MaxTxns],
     losses : Nat, removals : Nat, drops : Nat]

ASSUME BroadcastAssumption ==
    /\ Rank \in [Peers -> Nat]
    /\ \A p, q \in Peers : Rank[p] = Rank[q] => p = q
    /\ {NumBuckets, BatchSize, MaxInFlight} \subseteq Nat \ {0}
    /\ Setups \subseteq SetupType

VARIABLES
    setup,         \* the configuration
    timeline,      \* ids of each bucket that are still in the mempool
    next_id,       \* the timeline_id counter of each bucket
    sync_states,   \* PeerSyncState of the connected peers
    scheduled,     \* scheduled_broadcasts: how many per peer and backoff flag
    requests,      \* broadcasts in flight
    acks,          \* acknowledgements in flight
    accepted,      \* transactions in the mempool of each peer
    budget         \* faults left

vars == <<setup, timeline, next_id, sync_states, scheduled, requests, acks, accepted, budget>>

-----------------------------------------------------------------------------
(* Batch identifiers: per bucket an interval of ids, open at its start *)

BatchIds == [BucketIds -> (0..MaxTxns) \X (0..MaxTxns)]

\* timeline_range: the stored transactions of a batch.
TimelineRange(id) ==
    {<<b, i>> \in BucketIds \X (1..MaxTxns) : i \in timeline[b] /\ id[b][1] < i /\ i <= id[b][2]}

PairLess(x, y) == x[1] < y[1] \/ (x[1] = y[1] /\ x[2] < y[2])

\* cmp of MultiBatchId: the last bucket in which they differ decides.
Less(x, y) ==
    \E b \in BucketIds :
        PairLess(x[b], y[b]) /\ \A c \in BucketIds : c > b => x[c] = y[c]

Greatest(ids) == CHOOSE x \in ids : \A y \in ids \ {x} : Less(y, x)

NewSyncState ==
    [timeline_id |-> [b \in BucketIds |-> 0], sent |-> {}, expired |-> {},
     retry |-> {}, backoff |-> FALSE]

Connected == DOMAIN sync_states

Restricted(f, S) == [x \in S |-> f[x]]
With(f, p, v) == [x \in DOMAIN f \cup {p} |-> IF x = p THEN v ELSE f[x]]

-----------------------------------------------------------------------------
(* read_timeline *)

Unread(st, b) == {i \in timeline[b] : i > st.timeline_id[b]}

\* How many of a bucket's transactions fit, the higher buckets going first.
RECURSIVE Room(_, _)
Room(st, b) ==
    IF b = NumBuckets THEN BatchSize
    ELSE LET above == Room(st, b + 1)
             used == Cardinality(Unread(st, b + 1))
         IN  IF used < above THEN above - used ELSE 0

\* The id a fresh broadcast gets: up to the last transaction it takes.
FreshId(st) ==
    [b \in BucketIds |->
        LET taken == {i \in Unread(st, b) :
                        Cardinality({j \in Unread(st, b) : j <= i}) <= Room(st, b)}
        IN  <<st.timeline_id[b], Max(taken \cup {st.timeline_id[b]})>>]

-----------------------------------------------------------------------------
(* determine_broadcast_batch, update_broadcast_state, execute_broadcast *)

\* check_peer_prioritized
Prioritized(p, connected) ==
    Cardinality({q \in connected : Rank[q] < Rank[p]}) <= setup.failovers

\* Batches whose transactions have all left are no longer tracked.
Synced(st) ==
    [st EXCEPT !.sent = {x \in @ : TimelineRange(x) # {}},
               !.expired = {x \in @ : TimelineRange(x) # {}},
               !.retry = {x \in @ : TimelineRange(x) # {}}]

\* The limit on broadcasts that wait for an acknowledgement.
TooManyPending(st) == Cardinality(st.sent \ st.expired) >= setup.max_broadcasts

\* Mutant: batches that expired are not sent again.
ChosenWithoutExpired(st) == IF st.retry # {} THEN Greatest(st.retry) ELSE FreshId(st)

\* The batch to send: the greatest of those that expired or are to be
\* retried, else a fresh one.
ChosenId(st) ==
    LET again == st.expired \cup st.retry
    IN  IF again # {} THEN Greatest(again) ELSE FreshId(st)

\* update_broadcast_state
Updated(st, id) ==
    [timeline_id |-> [b \in BucketIds |-> Max({st.timeline_id[b], id[b][2]})],
     sent |-> st.sent \cup {id}, expired |-> st.expired \ {id},
     retry |-> st.retry \ {id}, backoff |-> FALSE]

\* Whether a broadcast gets as far as the choice of a batch.
Permitted(p, st, backoff, connected) ==
    Prioritized(p, connected) /\ (st.backoff => backoff)

\* execute_broadcast for a connected peer: its state afterwards and the request
\* that is sent, if any.
Outcome(p, backoff, states) ==
    LET st == states[p]
        synced == Synced(st)
        id == ChosenId(synced)
    IN  IF ~Permitted(p, st, backoff, DOMAIN states)
        THEN [final |-> st, sent |-> << >>]
        ELSE IF \/ TooManyPending(synced)
                \/ TimelineRange(id) = {}
                \/ Len(requests) >= MaxInFlight
        THEN [final |-> synced, sent |-> << >>]
        ELSE [final |-> Updated(synced, id),
              sent |-> <<[peer |-> p, id |-> id, txns |-> TimelineRange(id)]>>]

\* The same with its reschedule: states are the sync states to start from, and
\* pool the broadcasts scheduled besides.
ExecuteBroadcast(p, backoff, states, pool) ==
    \E o \in {Outcome(p, backoff, states)} :
        /\ sync_states' = [states EXCEPT ![p] = o.final]
        /\ scheduled' = [pool EXCEPT ![p, o.final.backoff] = @ + 1]
        /\ requests' = requests \o o.sent

-----------------------------------------------------------------------------
(* The coordinator's handlers *)

Init ==
    /\ timeline = [b \in BucketIds |-> {}]
    /\ next_id = [b \in BucketIds |-> 1]
    /\ sync_states = << >>
    /\ scheduled = [s \in Peers \X BOOLEAN |-> 0]
    /\ requests = << >>
    /\ acks = {}
    /\ accepted = [p \in Peers |-> {}]
    /\ setup \in Setups
    /\ budget = [losses |-> setup.losses, removals |-> setup.removals, drops |-> setup.drops]

\* A NewPeer event: add_peer, then the first broadcast to a new peer.
NewPeer(p) ==
    /\ p \in setup.upstream \ Connected
    /\ setup.quick \/ \A f \in BOOLEAN : scheduled[p, f] = 0
    /\ ExecuteBroadcast(p, FALSE, With(sync_states, p, NewSyncState), scheduled)
    /\ UNCHANGED <<setup, timeline, next_id, acks, accepted, budget>>

\* A LostPeer event: disable_peer forgets the peer's state.
LostPeer(p) ==
    /\ p \in Connected /\ budget.drops > 0
    /\ sync_states' = Restricted(sync_states, Connected \ {p})
    /\ budget' = [budget EXCEPT !.drops = @ - 1]
    /\ UNCHANGED <<setup, timeline, next_id, scheduled, requests, acks, accepted>>

\* A scheduled broadcast is due: to a connected peer it is executed, else
\* it is dropped and not scheduled again.
Broadcast(p, backoff) ==
    /\ scheduled[p, backoff] > 0
    /\ LET rest == [scheduled EXCEPT ![p, backoff] = @ - 1]
       IN  IF p \in Connected
           THEN ExecuteBroadcast(p, backoff, sync_states, rest)
           ELSE scheduled' = rest /\ UNCHANGED <<sync_states, requests>>
    /\ UNCHANGED <<setup, timeline, next_id, acks, accepted, budget>>

\* Mutant: the retry flag is ignored.
AckWithoutRetry(a) ==
    /\ a \in acks
    /\ acks' = acks \ {a}
    /\ sync_states' =
          IF a.peer \in Connected /\ a.id \in sync_states[a.peer].sent
          THEN [sync_states EXCEPT
                 ![a.peer].sent = @ \ {a.id}, ![a.peer].expired = @ \ {a.id},
                 ![a.peer].backoff = @ \/ a.full]
          ELSE sync_states
    /\ UNCHANGED <<setup, timeline, next_id, scheduled, requests, accepted, budget>>

\* process_broadcast_ack
ProcessAck(a) ==
    /\ a \in acks
    /\ acks' = acks \ {a}
    /\ sync_states' =
          IF a.peer \in Connected /\ a.id \in sync_states[a.peer].sent
          THEN [sync_states EXCEPT
                 ![a.peer].sent = @ \ {a.id}, ![a.peer].expired = @ \ {a.id},
                 ![a.peer].retry = IF a.full THEN @ \cup {a.id} ELSE @,
                 ![a.peer].backoff = @ \/ a.full]
          ELSE sync_states
    /\ UNCHANGED <<setup, timeline, next_id, scheduled, requests, accepted, budget>>

\* shared_mempool_ack_timeout_ms has passed since a batch was sent.
AckTimeout(p, id) ==
    /\ p \in Connected /\ id \in sync_states[p].sent \ sync_states[p].expired
    /\ sync_states' = [sync_states EXCEPT ![p].expired = @ \cup {id}]
    /\ UNCHANGED <<setup, timeline, next_id, scheduled, requests, acks, accepted, budget>>

-----------------------------------------------------------------------------
(* The core mempool, the receiving peers and the network *)

\* process_ready_transactions puts a transaction on the timeline.
Ready(b) ==
    /\ next_id[b] <= setup.txns[b]
    /\ timeline' = [timeline EXCEPT ![b] = @ \cup {next_id[b]}]
    /\ next_id' = [next_id EXCEPT ![b] = @ + 1]
    /\ UNCHANGED <<setup, sync_states, scheduled, requests, acks, accepted, budget>>

\* The first transaction of a bucket is committed, wherever it came from.
Committed(b) ==
    /\ budget.removals > 0 /\ timeline[b] # {}
    /\ timeline' = [timeline EXCEPT ![b] = @ \ {Min(@)}]
    /\ accepted' = [p \in Peers |-> accepted[p] \cup {<<b, Min(timeline[b])>>}]
    /\ budget' = [budget EXCEPT !.removals = @ - 1]
    /\ UNCHANGED <<setup, next_id, sync_states, scheduled, requests, acks>>

\* What a full mempool lets in: check_is_full_after_eviction makes room for
\* a transaction that is ready there, one whose predecessors it has.
Admitted(p, txns) ==
    IF p \in setup.full
    THEN {t \in txns : \A i \in 1..(t[2] - 1) : <<t[1], i>> \in accepted[p] \cup txns}
    ELSE txns

\* process_transaction_broadcast at the peer, and gen_ack_response: a
\* transaction turned away because the mempool is full asks for backoff
\* and a retry.
Receive(i) ==
    LET r == requests[i]
        got == accepted[r.peer] \cup Admitted(r.peer, r.txns)
    IN  /\ requests' = RemoveAt(requests, i)
        /\ accepted' = [accepted EXCEPT ![r.peer] = got]
        /\ acks' = acks \cup {[peer |-> r.peer, id |-> r.id, full |-> ~(r.txns \subseteq got)]}
        /\ UNCHANGED <<setup, timeline, next_id, sync_states, scheduled, budget>>

LoseRequest(i) ==
    /\ budget.losses > 0
    /\ requests' = RemoveAt(requests, i)
    /\ budget' = [budget EXCEPT !.losses = @ - 1]
    /\ UNCHANGED <<setup, timeline, next_id, sync_states, scheduled, acks, accepted>>

LoseAck(a) ==
    /\ budget.losses > 0
    /\ acks' = acks \ {a}
    /\ budget' = [budget EXCEPT !.losses = @ - 1]
    /\ UNCHANGED <<setup, timeline, next_id, sync_states, scheduled, requests, accepted>>

Next ==
    \/ \E p \in Peers : NewPeer(p) \/ LostPeer(p)
    \/ \E p \in Peers, f \in BOOLEAN : Broadcast(p, f)
    \/ \E a \in acks : ProcessAck(a) \/ LoseAck(a)
    \/ \E p \in Connected : \E id \in sync_states[p].sent : AckTimeout(p, id)
    \/ \E b \in BucketIds : Ready(b) \/ Committed(b)
    \/ \E i \in DOMAIN requests : Receive(i) \/ LoseRequest(i)

Spec == Init /\ [][Next]_vars

\* When a due broadcast does more than schedule itself again.
BroadcastHasEffect(p, backoff) ==
    /\ scheduled[p, backoff] > 0
    /\ p \in Connected =>
          LET o == Outcome(p, backoff, sync_states)
          IN  o.sent # << >> \/ o.final # sync_states[p] \/ o.final.backoff # backoff

\* The coordinator's loop keeps polling its streams, timers fire, and the
\* network delivers what it does not lose: weak fairness of these steps, with
\* the condition under which each changes something written out.
FairSpec ==
    /\ Spec
    /\ \A p \in Peers :
          \/ []<>(~(p \in setup.upstream \ Connected /\
                    (setup.quick \/ \A f \in BOOLEAN : scheduled[p, f] = 0)))
          \/ []<><<NewPeer(p)>>_vars
    /\ \A p \in Peers, f \in BOOLEAN :
          []<>(~BroadcastHasEffect(p, f)) \/ []<><<Broadcast(p, f)>>_vars
    /\ []<>(acks = {}) \/ []<><<\E a \in acks : ProcessAck(a)>>_vars
    /\ \A p \in Peers :
          \/ []<>(p \in Connected => sync_states[p].sent \subseteq sync_states[p].expired)
          \/ []<><<p \in Connected /\ \E id \in sync_states[p].sent : AckTimeout(p, id)>>_vars
    /\ []<>(requests = << >>) \/ []<><<requests # << >> /\ Receive(1)>>_vars

-----------------------------------------------------------------------------
(* Properties *)

\* The peers' sync states name batches of the timeline, and an expired
\* batch is a sent one.
TypeOK ==
    /\ Connected \subseteq Peers
    /\ \A p \in Connected :
          /\ sync_states[p].sent \cup sync_states[p].retry \subseteq BatchIds
          /\ sync_states[p].expired \subseteq sync_states[p].sent
          /\ sync_states[p].timeline_id \in [BucketIds -> 0..MaxTxns]
    /\ scheduled \in [Peers \X BOOLEAN -> Nat]
    /\ Len(requests) <= MaxInFlight

\* Nothing that was read from the timeline is forgotten: a stored
\* transaction the broadcasts to a peer have passed was accepted by it, or
\* is in a batch still waiting for its acknowledgement or for its retry.
\* Lost messages, partial acceptance and late acknowledgements included.
PassedIsTracked ==
    \A p \in Connected, b \in BucketIds : \A i \in timeline[b] :
        i <= sync_states[p].timeline_id[b] =>
            \/ <<b, i>> \in accepted[p]
            \/ \E id \in sync_states[p].sent \cup sync_states[p].retry :
                  <<b, i>> \in TimelineRange(id)

\* Every transaction on the timeline reaches the mempool of some upstream
\* peer, or leaves the mempool first: lost broadcasts and acknowledgements,
\* lost connections, full receivers and backoff only delay it.  This is so
\* when one broadcast per peer may be pending.
EventuallyAccepted ==
    \A b \in BucketIds, i \in 1..MaxTxns :
        setup.max_broadcasts = 1 /\ i \in timeline[b]
          ~> i \notin timeline[b] \/ \E p \in Peers : <<b, i>> \in accepted[p]

\* Of the batches that have to be sent again, the earliest in the timeline
\* goes first (determine_broadcast_batch).  It does not hold; see section 5 of
\* the README.
EarliestIsResent ==
    [][\A p \in Connected \cap DOMAIN sync_states' :
          LET again == sync_states[p].expired \cup sync_states[p].retry
              resent == again \ (sync_states'[p].expired \cup sync_states'[p].retry)
          IN  Len(requests') > Len(requests) =>
                \A x \in resent, y \in again \ resent :
                    TimelineRange(y) # {} => ~Less(y, x)]_vars
=============================================================================
