SPECIFICATION FairSpec
CONSTANTS
    MaxVersion = 3
    LedgerInfos = {0, 1, 2, 3}
    EpochEnds <- TwoEpochEnds
    None = None
    QueueBound = 2
    MaxNotifications = 2
    MaxTimeouts = 2
    CounterModulus = 16
    Setups <- MCSetups
INVARIANTS
  OneWriter
  ReconfigIsNewest
  NothingIsRefused
PROPERTIES
  SyncProgress
