SPECIFICATION RaftSpec
CONSTANTS
  n1 = n1
  n2 = n2
  n3 = n3
  n4 = n4
  n5 = n5
  Node = {n1, n2, n3, n4, n5}
  Nobody = Nobody
  MaxTerm = 3
  MaxLog = 2
CONSTRAINT ThreeCampaign
INVARIANT CommittedAgree
CHECK_DEADLOCK FALSE
