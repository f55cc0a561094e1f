SPECIFICATION FairSpec
CONSTANTS
  K = 8
VIEW View
CHECK_DEADLOCK FALSE
INVARIANTS
  TypeOK
  WellFormed
  Balanced
  SearchesSucceed
PROPERTIES
  FixupEnds
