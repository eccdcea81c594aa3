CONSTANTS
  OS_CYCLE_PER_TICK = 2
  OS_US_PER_TICK = 2
  OS_TICK_RESPONSE_TIME_MAX = 3
  Never = 1000
  LIMIT = 2
  MaxGen = 2
  Kind <- MCKind
  Sleeper = {t1}
  Delay = {1}
  Slice = {3}
  Latency = 0
SPECIFICATION Spec
INVARIANTS
  SwtmrPoolAgrees
  HandlesAreFresh
  TasksNotTooLate
PROPERTIES
  ImplementsTimerService
