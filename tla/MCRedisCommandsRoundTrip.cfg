SPECIFICATION Spec
CONSTANTS
  HEADER = 2
  MAX_BLOB_LENGTH = 7
  Lengths <- AllLengths
  MaxCommands = 3
  NULL = NULL
\* The commands end at the bound, and the program may be stopped.
CHECK_DEADLOCK FALSE
INVARIANTS
  LoadReturnsSaved
