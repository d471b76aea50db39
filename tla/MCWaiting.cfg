CONSTANTS
  Thread = {main, idl, a}
  idle_thread = idl
  initial_thread = main
  NULL = NULL
  PRI_MIN = 0
  PRI_MAX = 1
  TIME_SLICE = 2
  MaxSleep = 3
  p = p
  q = q
  r = r
  s = s
  Member = {p, q, r, s}
  NOBODY = NOBODY
  Prio <- MCPrio
SPECIFICATION WaitingSpec
INVARIANTS NoOversleep NoLostSignal
PROPERTIES NeverEarly MonitorSpec Wakes BroadcastEnds
CHECK_DEADLOCK FALSE
