SPECIFICATION FairSpec
CONSTANTS
  Workers = {w1, w2}
  Caller = caller
  NoThread = nothread
  MaxCommands = 1
  N = 3
  R = 1
  W = 2
  MAX_WAITING_TASKS_NUM = 2
  ADD_RETRY = 2
  LOCK_RETRY = 2
PROPERTIES
  EveryCallReturns
  EveryTaskTaken
