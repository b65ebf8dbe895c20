SPECIFICATION Spec
CONSTANTS
  Pages <- MCPages
  Texts <- MCTexts
  Clean <- MCClean
  Invalid = Invalid
  First = "a"
  MaxSaves = 2
  MaxFetches = 1
  None = None
INVARIANTS
  TypeOK
  QuietShowsServer
  SavesStandAlone
PROPERTIES
  EditsKept
  SaveSettles
