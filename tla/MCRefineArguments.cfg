SPECIFICATION RefineSpec
CONSTANTS
  x = x
  z = z
  inc = inc
  stamp = stamp
  flip = flip
  choose = choose
  peek = peek
  Unresolved = Unresolved
  Fields <- MCFields
  Values <- MCValues
  Actions <- MCActions
  Branching <- MCBranching
  Guard <- MCGuard
  Branches <- MCBranches
  Enabled <- MCEnabled
  Argument <- MCArgument
  Apply <- MCApply
  Scenarios <- RefineScenarios
  Retrieve = {x}
  Reads <- MCReads
  GuardReads <- MCGuardReads
  GuardCount <- MCGuardCount
  MergeValue <- MCMergeValue
  p = p
  q = q
  r = r
  s = s
  t = t
  blank = blank
  Names <- MCActions
  Primitives <- MCPrimitives
  Blank = blank
  Tables <- MCTables
  Tapes <- MCTapes
  Name <- MCName
INVARIANT
  ArgumentsAreCurrent
CHECK_DEADLOCK FALSE
