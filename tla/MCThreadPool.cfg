SPECIFICATION Spec
CONSTANTS
  Workers = {w1, w2}
  Caller = caller
  NoThread = nothread
  MaxCommands = 2
  N = 2
  R = 1
  W = 2
  MAX_WAITING_TASKS_NUM = 2
  ADD_RETRY = 2
  LOCK_RETRY = 2
SYMMETRY WorkerSymmetry
INVARIANTS
  TypeOK
  PoolMutex
  RefCounted
  NoUseAfterFree
  TaskOwnedOnce
  SlotPerAnswer
  NoLostWakeup
  BacklogBounded
  IdleNotOverstated
PROPERTIES
  ImplementsQuorumCall
