SPECIFICATION CompileSpec
CONSTANTS
  Processes = {p1, p2}
  Options <- MCOptions
  Absent = Absent
  Scaffold = Scaffold
  Foreign = Foreign
  MaxVersion = 2
  MaxEdits = 1
INVARIANTS
  CheckIsExact
  OutputsBelongTogether
PROPERTIES
  MainIsKept
CHECK_DEADLOCK FALSE
