CONSTANTS
  Thread = {main, idl, a}
  idle_thread = idl
  initial_thread = main
  NULL = NULL
  PRI_MIN = 0
  PRI_MAX = 1
  TIME_SLICE = 2
  MaxSleep = 3
SPECIFICATION TimerSpec
INVARIANTS SleepList
CHECK_DEADLOCK FALSE
