SPECIFICATION Spec
CONSTANTS
  N = 3
  R = 2
  W = 2
  MaxCalls = 3
  Operations = {"saveBlob", "loadBlob"}
  Errors = FALSE
CHECK_DEADLOCK FALSE
INVARIANTS
  OneAnswerIsLatest
