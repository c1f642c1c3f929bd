\* Two of the three requests carry the same task id.
SPECIFICATION LiveSpec
CONSTANTS
  r1 = r1
  r2 = r2
  r3 = r3
  Requests = {r1, r2, r3}
  Tasks = {r1, r2}
  TaskOf <- SharedTask
  maxConcurrentTasks = 1
  maxQueuedTasks = 2
  NoEntry = NoEntry
PROPERTY
  EveryRequestSettles
CHECK_DEADLOCK FALSE
