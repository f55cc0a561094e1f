SPECIFICATION Spec
CONSTANTS
  N = 3
  R = 2
  W = 2
  MaxCalls = 3
  Operations = {"saveBlob", "loadBlob"}
  Errors = TRUE
VIEW View
CHECK_DEADLOCK FALSE
INVARIANTS
  FreshAnswer
  SavedIsHeld
