SPECIFICATION ArtifactSpec
CONSTANTS
  a = a
  b = b
  c = c
  ours = ours
  newer = newer
  Empty = Empty
  Omitted = Omitted
  Lists <- MCLists
  Dependencies <- MCDependencies
  Vocabularies = {ours, newer}
  RuntimeVocabulary = ours
  Sources <- MCSources
  EditedVersions = {1, 2, 3, 4}
  EditedTables <- MCTables
  EditedSteps <- MCEditedSteps
  MaxFileEdits = 1
INVARIANTS
  LoadsWhatWasCompiled
  ObligationsAreKept
  TableInOrder
  RetrieveIsComplete
CHECK_DEADLOCK FALSE
