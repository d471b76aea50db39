CONSTANTS
  a = a
  b = b
  Thread = {main, idl, a, b}
  idle_thread = idl
  initial_thread = main
  NULL = NULL
  PRI_MIN = 0
  PRI_MAX = 5
  PRI_DEFAULT = 2
  TIME_SLICE = 2
  TIMER_FREQ = 2
  Q = 14
  Nice = {3}
  Asked = {2}
  MaxTicks = 2
  MaxChanges = 2
SPECIFICATION MlfqsSpec
INVARIANTS QueuesAgree LevelsMatch
PROPERTIES PicksHighestLevel
SYMMETRY Symmetry
CHECK_DEADLOCK FALSE
