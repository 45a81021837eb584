SPECIFICATION FairSpec
CONSTANTS
    p = p
    q = q
    Peers = {p, q}
    Rank <- MCRank
    NumBuckets = 2
    BatchSize = 1
    MaxTxns = 2
    MaxInFlight = 2
    Setups <- MCSetups
INVARIANTS
  PassedIsTracked
PROPERTIES
  EventuallyAccepted
