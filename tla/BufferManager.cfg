SPECIFICATION FairSpec
CONSTANTS
    NumBlocks = 3
    v1 = v1
    v2 = v2
    Validators <- MCValidators
    Quorums <- MCQuorums
    Byzantine = {v2}
    Gap = 0
    Epochs <- MCEpochs
CHECK_DEADLOCK FALSE
INVARIANTS
  NoPanic
  ExecutedIsCommittable
  RequestsMatchRoots
  SyncIsExclusive
PROPERTIES
  PipelineProgress
