CONSTANTS
  p = p
  q = q
  Member = {p, q}
  NOBODY = NOBODY
  Prio <- MCPrio
SPECIFICATION CondSpec
INVARIANTS SignalReturns
CHECK_DEADLOCK FALSE
