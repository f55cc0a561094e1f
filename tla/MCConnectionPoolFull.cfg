SPECIFICATION Spec
CONSTANTS
  Workers = {w1, w2, w3}
  CONNECTION_NUM = 3
  NULL = NULL
  header = header
  Late = Late
  Cut = Cut
  MaxBacklog = 1
INVARIANTS
  RetrievesIdle
