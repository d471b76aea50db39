CONSTANTS
  main = main
  idl = idl
  a = a
  b = b
  l1 = l1
  l2 = l2
  dev = dev
  sem = sem
  Uses <- ChainOrStar
  Thread = {main, idl, a, b}
  idle_thread = idl
  initial_thread = main
  NULL = NULL
  PRI_MIN = 0
  PRI_MAX = 2
  Settable <- MixedSettable
  Exiting = {a, b}
  TIME_SLICE = 1
  Lock = {l1, l2}
  Sema = {dev, sem}
  DeviceSema = {dev, sem}
  MaxValue <- MCMaxValue
  Created <- MCCreated
  InitialPriority <- MCPriority
  Address <- MCAddress
SPECIFICATION SynchSpec
INVARIANTS WaitLists MutualExclusion NoLostWakeup
CHECK_DEADLOCK FALSE
