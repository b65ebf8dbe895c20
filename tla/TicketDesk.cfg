\* The user and the clock stop at the bounds.
SPECIFICATION Spec
CONSTANTS
  Tabs = {t1, t2}
  Messages = {"", "m1", "m2"}
  Refused = {""}
  Keys = {"key1", "key2"}
  FirstKey = "key1"
  ApiKeys <- MCApiKeys
  None = None
  MaxClock = 1
  MaxPages = 2
  MaxRequests = 2
  MaxMoves = 2
  MaxRestarts = 1
CHECK_DEADLOCK FALSE
INVARIANTS
  TypeOK
  OutcomeIsOwn
  SecondRunHasCause
PROPERTIES
  SubmitEnds
