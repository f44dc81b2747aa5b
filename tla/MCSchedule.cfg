SPECIFICATION ScheduleSpec
CONSTANTS
  a = a
  b = b
  c = c
  p = p
  q = q
  r = r
  blank = blank
  Names <- MCNames
  Primitives <- MCPrimitives
  Blank = blank
  Tables <- MCTables
  Tapes <- MCTapes
INVARIANTS
  ScheduleTypeOK
  RunsTileTape
  NoSplitCompound
  SoleOwner
  GreedyIsComplete
CHECK_DEADLOCK FALSE
