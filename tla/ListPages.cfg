SPECIFICATION Spec
CONSTANTS
  Scenarios <- MCScenarios
  Texts = {"", "a"}
  NoText = ""
  Items = {1, 2, 3}
  Keeps <- MCKeeps
  Matches <- MCMatches
  Sizes = {1, 2}
  DefaultSize = 2
  None = None
CHECK_DEADLOCK FALSE
INVARIANTS
  TypeOK
  SettledViewMatches
  ResetOffered
  UntouchedKeepLoaded
PROPERTIES
  ShowsAskedAnswers
  SearchSettles
