\* Two slots, a queue of one, four requests of four tasks.
SPECIFICATION Spec
CONSTANTS
  r1 = r1
  r2 = r2
  r3 = r3
  Requests = {r1, r2, r3, r4}
  Tasks = {r1, r2, r3, r4}
  TaskOf <- OwnTask
  maxConcurrentTasks = 2
  maxQueuedTasks = 1
  NoEntry = NoEntry
SYMMETRY Symmetry
INVARIANTS
  TypeOK
  SlotsExact
  NoIdleSlotBesideQueue
  MetricsAgree
  SettledBusFinished
PROPERTIES
  ImplementsTaskService
CHECK_DEADLOCK FALSE
