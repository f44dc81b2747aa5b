SPECIFICATION SessionSpec
CONSTANTS
  x = x
  z = z
  inc = inc
  stamp = stamp
  flip = flip
  choose = choose
  peek = peek
  Unresolved = Unresolved
  Fields <- MCFields
  Values <- MCValues
  Actions <- MCActions
  Branching <- MCBranching
  Guard <- MCGuard
  Branches <- MCBranches
  Enabled <- MCEnabled
  Argument <- MCArgument
  Apply <- MCApply
  Scenarios <- MCScenarios
  Retrieve = {x}
  Reads <- MCReads
  GuardReads <- MCGuardReads
  GuardCount <- MCGuardCount
  MergeValue <- MCMergeValue
  MaxSnapshots = 4
INVARIANTS
  SessionTypeOK
  FollowsTrace
  DispatchedInOrder
  TapeMatchesIndex
  BatchAgrees
  FaithfulIsAccepted
PROPERTIES
  RejectionIsFinal
  LoopReturns
  ImplementsModel
CHECK_DEADLOCK FALSE
