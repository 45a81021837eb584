SPECIFICATION FairSpec
CONSTANTS
  NumTxns = 3
  Threads = {t1, t2}
  None = None
  Committer = t1
  a = a
  b = b
  Keys <- MCKeys
  Base <- MCBase
  NextRead <- MCNextRead
  Vm <- MCVm
INVARIANTS
  CommittedIsSequential
  NoPanic
  SameResult
PROPERTIES
  Termination
