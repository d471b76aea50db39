CONSTANTS
  main = main
  idl = idl
  a = a
  b = b
  l1 = l1
  l2 = l2
  dev = dev
  sem = sem
  Uses <- OnlyChain
  Thread = {main, idl, a, b}
  idle_thread = idl
  initial_thread = main
  NULL = NULL
  PRI_MIN = 0
  PRI_MAX = 2
  Settable <- NoSettable
  Exiting = {main, a, b}
  TIME_SLICE = 1
  Lock = {l1, l2}
  Sema = {dev}
  DeviceSema = {dev}
  MaxValue <- MCMaxValue
  Created <- MCCreated
  InitialPriority <- MCPriority
  Address <- MCAddress
SPECIFICATION SynchSpec
INVARIANTS NoFault
CHECK_DEADLOCK FALSE
