CONSTANTS
  v1 = v1
  v2 = v2
  v3 = v3
  v4 = v4
  b1 = b1
  b2 = b2
  Validators <- MCValidators
  VotingPower <- MCVotingPower
  Digests <- MCDigests
  Round = 2

SPECIFICATION Spec
INVARIANTS
  OneBlockCertified
  TcVerifies
  QuorumIsReported
