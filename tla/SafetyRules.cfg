SPECIFICATION Spec
CONSTANTS
  v1 = v1  z = z
  g = g  a1 = a1  a2 = a2  b2 = b2  h = h  d1 = d1  d2 = d2
  None = None
  Validators <- OneAndByzantine
  Byzantine = {z}
  Epochs = {1, 2, 3}
  Members <- AloneMembers
  Quorum <- EveryCert
  MaxRound = 2
  TimeoutRounds = {1, 2}
  Blocks <- AloneBlocks
  BlockRound <- AloneRound
  BlockEpoch <- AloneEpoch
  BlockParent <- AloneParent
  BlockAuthor <- AloneAuthor
  ExecResults = {}
  MaxFaults = 2
INVARIANTS
  OneVotePerRound
  VoteTimeoutLock
PROPERTIES
  StorageMonotone
