SPECIFICATION SessionSpec
CONSTANTS
  x = x
  z = z
  inc = inc
  stamp = stamp
  flip = flip
  choose = choose
  peek = peek
  Unresolved = Unresolved
  Fields <- MCFields
  Values <- MCValues
  Actions <- MCActions
  Branching <- MCBranching
  Guard <- MCGuard
  Branches <- MCBranches
  Enabled <- MCEnabled
  Argument <- MCArgument
  Apply <- MCApply
  Scenarios <- MCScenarios
  Retrieve = {x}
  Reads <- MCReads
  GuardReads <- MCGuardReads
  GuardCount <- MCGuardCount
  MergeValue <- MCMergeValue
  MaxSnapshots = 4
INVARIANT
  MatchesCompleteSnapshot
CHECK_DEADLOCK FALSE
