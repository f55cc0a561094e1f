SPECIFICATION FairSpec
CONSTANTS
  h1 = h1
  h2 = h2
  Lines <- TwoLines
  ServerLines <- OtherLines
  THREAD_NUM = 2
  N = 2
  MaxCalls = 1
  None = None
\* The client exits, or its run ends in freed memory or a crash.
CHECK_DEADLOCK FALSE
INVARIANTS
  TypeOK
  HostsHaveConnections
  MemorySound
PROPERTIES
  ShutdownEnds
