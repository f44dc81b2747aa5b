SPECIFICATION AlternativesSpec
CONSTANTS
  p = p
  q = q
  Nothing = Nothing
  Value <- MCValue
  Depth <- MCDepth
  Tree <- MCTree
  Height <- MCHeight
  Updates <- MCUpdates
  Bodies <- MCAnys
  Reports <- MCReports
INVARIANT ReachingQuintIsAccepted
CHECK_DEADLOCK FALSE
