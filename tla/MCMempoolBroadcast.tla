-------------------------- MODULE MCMempoolBroadcast --------------------------
(***************************************************************************)
(* The instance of MempoolBroadcast: one or two upstream peers, two        *)
(* broadcast buckets, batches of one transaction.                          *)
(***************************************************************************)
EXTENDS MempoolBroadcast

CONSTANTS p, q

MCRank == [x \in {p, q} |-> IF x = p THEN 1 ELSE 2]

Setup(upstream, failovers, max_broadcasts, full, quick, low, high, losses, removals, drops) ==
    [upstream |-> upstream, failovers |-> failovers, max_broadcasts |-> max_broadcasts,
     full |-> full, quick |-> quick, txns |-> <<low, high>>,
     losses |-> losses, removals |-> removals, drops |-> drops]

\* Several broadcasts pending to a full peer, with a lost connection and over
\* two buckets; one at a time to a full peer that may return at once; two peers.
MCSetups ==
    {Setup({p}, 1, 2, {p}, FALSE, 2, 0, 1, 1, 1),
     Setup({p}, 1, 2, {p}, FALSE, 2, 1, 1, 1, 0),
     Setup({p}, 1, 1, {p}, TRUE, 2, 0, 1, 1, 1),
     Setup({p, q}, 0, 1, {}, FALSE, 2, 0, 1, 0, 1)}
=============================================================================
