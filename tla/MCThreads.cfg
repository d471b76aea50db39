CONSTANTS
  Thread = {main, idl, a, b}
  idle_thread = idl
  initial_thread = main
  NULL = NULL
  PRI_MIN = 0
  PRI_MAX = 2
  TIME_SLICE = 2
  Caller = {c, d, e}
  Byte = {x, y}
  INTQ_BUFSIZE = 4
  NONE = NONE
  User = {t, u}
  Sector = {r, s}
  Value = {v, w}
  MaxSpurious = 1
SPECIFICATION KernelSpec
INVARIANTS TypeOK RunQueue AllList NoMissedWakeup SleepersKnown Acknowledged
PROPERTIES PicksHighest LifecycleSpec FifoSpec BlockStoreSpec RoundRobin DiskAnswers
