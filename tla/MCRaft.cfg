SPECIFICATION MCSpec
CONSTANTS
  n1 = n1
  n2 = n2
  n3 = n3
  Node = {n1, n2, n3}
  Nobody = Nobody
  Networks = {TRUE, FALSE}
  MaxTerm = 4
  MaxNetworkTerm = 2
  MaxLog = 2
  MaxRequests = 4
SYMMETRY Symmetry
INVARIANTS
  ElectionSafety
  LeaderCompleteness
  CommittedOnMajority
  MatchedIsStored
PROPERTIES
  RaftImplementsConsensus
\* Every node may be a leader at the last term, with a full log.
CHECK_DEADLOCK FALSE
