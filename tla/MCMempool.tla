------------------------------ MODULE MCMempool ------------------------------
(***************************************************************************)
(* Instances of Mempool.  Account a submits three transactions, the first  *)
(* with a low and with a high price (two broadcast buckets), the second    *)
(* more expensive than the first, the third with an early expiration;      *)
(* account b competes for the capacity with one transaction that fills the *)
(* byte limit alone.                                                       *)
(***************************************************************************)
EXTENDS Mempool

CONSTANTS a, b

MCAccounts == {a, b}
MCAddress == [x \in MCAccounts |-> IF x = a THEN 1 ELSE 2]
MCBuckets == <<0, 3>>

Txn(x, n, price, exp, bytes) ==
    [sender |-> x, seq |-> n, price |-> price, exp |-> exp, bytes |-> bytes, body |-> 1]

MCTransactions ==
    {Txn(a, 0, 1, 1, 1), Txn(a, 0, 3, 1, 1), Txn(a, 1, 3, 2, 1), Txn(a, 2, 2, 1, 1),
     Txn(b, 0, 2, 2, 4)}

Load(submit, commit, reject, origins) ==
    [submit |-> submit, commit |-> commit, reject |-> reject, origins |-> origins]

\* Four submissions; two commits; and submissions from peers, which are not
\* broadcast further.
MCLoads ==
    {Load(4, 1, 1, {TRUE}), Load(3, 2, 1, {TRUE}), Load(3, 1, 1, {TRUE, FALSE})}
=============================================================================
