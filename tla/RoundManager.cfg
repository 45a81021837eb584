SPECIFICATION FairSpec
CONSTANTS
    n1 = n1
    n2 = n2
    n3 = n3
    Validators = {n1, n2, n3}
    VotingPower <- MCPower
    Leader <- MCLeader
    Steady = {n1, n2}
    Scenarios <- MCScenarios
INVARIANTS
  OneQuorumPerRound
  NodesCanTimeOut
PROPERTIES
  EveryRoundEnds
