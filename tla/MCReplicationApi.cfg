SPECIFICATION Spec
CONSTANTS
  N = 2
  R = 2
  W = 1
  MaxCalls = 3
  Operations = {"createBucket", "deleteBlob", "deleteBucket", "existBlob", "existBucket", "loadBlob", "saveBlob"}
  Errors = TRUE
VIEW View
CHECK_DEADLOCK FALSE
INVARIANTS
  TypeOK
  DeletedStaysDeleted
PROPERTIES
  ImplementsQuorumCall
