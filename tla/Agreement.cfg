SPECIFICATION Spec
CONSTANTS
  v1 = v1  v2 = v2  v3 = v3  z = z
  g = g  a1 = a1  a2 = a2  b2 = b2  b3 = b3
  None = None
  Validators <- Four
  Byzantine = {z}
  Epochs = {1}
  Members <- FourMembers
  Quorum <- ThreeOfFour
  MaxRound = 3
  TimeoutRounds = {1}
  Blocks <- ForkBlocks
  BlockRound <- ForkRound
  BlockEpoch <- ForkEpoch
  BlockParent <- ForkParent
  BlockAuthor <- ForkAuthor
  ExecResults = {1}
  MaxFaults = 0
SYMMETRY HonestSymmetry
INVARIANTS Agreement CommittedIsFinal CommitVotesOnOneChain
