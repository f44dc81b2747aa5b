SPECIFICATION InferenceSpec
CONSTANTS
  init = init
  other = other
  pay = pay
  pay2 = pay2
  ship = ship
  order = order
  order2 = order2
  snapshot = snapshot
  blank = blank
  group = group
  Blank = blank
  Names <- MCNames
  Primitives <- MCPrimitives
  Capabilities <- MCCapabilities
  Adapters <- MCAdapters
  Identifier <- MCIdentifier
  Reserved <- MCReserved
  Projects <- MCProjects
  Tables <- MCTables
  Tapes <- MCTapes
INVARIANTS
  OwnsEveryActionOnce
  ReadingsAgree
  ArmsAcceptRuns
  AcceptedIsSchedulable
\* The generated test ends.
CHECK_DEADLOCK FALSE
