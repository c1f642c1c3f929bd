\* One slot (a configured 0 is clamped to 1), a queue of two, three requests.
SPECIFICATION LiveSpec
CONSTANTS
  r1 = r1
  r2 = r2
  r3 = r3
  Requests = {r1, r2, r3}
  Tasks = {r1, r2, r3}
  TaskOf <- OwnTask
  maxConcurrentTasks = 0
  maxQueuedTasks = 2
  NoEntry = NoEntry
PROPERTIES
  FirstComeFirstServed
  EveryRequestSettles
CHECK_DEADLOCK FALSE
