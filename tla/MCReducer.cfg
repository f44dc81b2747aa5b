SPECIFICATION MCSpec
CONSTANTS
  p = p
  q = q
  Nothing = Nothing
  Value <- MCValue
  Depth <- MCDepth
  Tree <- MCTree
  Height <- MCHeight
  Updates <- MCUpdates
  Bodies <- MCBodies
  Reports <- MCReports
  Constructors <- MCConstructors
  Definitions <- MCDefinitions
  Constants <- MCConstants
  Actions <- MCActions
  States <- MCStates
  Units <- MCUnits
  Offers <- MCOffers
INVARIANTS
  CapturedIsPossible
  TakesFirstAlternative
  AcceptsWhatIsSaid
  MergedSaysObserved
  FixturesAreTheModels
  GuardsMeanTheModels
\* The step is done, or the table is refused or has served.
CHECK_DEADLOCK FALSE
