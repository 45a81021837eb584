SPECIFICATION FairSpec
CONSTANTS
  ByRound <- MCByRound
  Genesis = "g0"
  Round <- MCRound
  Parent <- MCParent
  Certified <- MCCertified
  MaxPrunedBlocks = 1
  BackPressureLimit = 1
  Budgets <- MCBudgets
CHECK_DEADLOCK FALSE
INVARIANTS
  NoPanic
  
  BatchesExtendLedger
PROPERTIES
  OrderedIsCommitted
