SPECIFICATION Spec
CONSTANTS
    a = a
    b = b
    Accounts <- MCAccounts
    Address <- MCAddress
    Transactions <- MCTransactions
    Buckets <- MCBuckets
    Capacity = 3
    CapacityBytes = 4
    CapacityPerUser = 3
    Timeout = 0
    Workers = 1
    MaxSeq = 2
    MaxTime = 2
    Loads <- MCLoads
INVARIANTS
  StoreIsConsistent
  AccountsAreCurrent
  BatchIsExecutable
PROPERTIES
  UpdateKeepsTransaction
