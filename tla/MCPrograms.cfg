CONSTANTS
  p = p
  x = x
  MaxTid = 2
  ExitStatus = {1}
  Creation = {"ok", "no_page", "no_thread", "no_record"}
  StrayWrite = {"harmless", "hang"}
  NULL = NULL
  Proc = {p, q}
  Program = {x, y}
  FilePage = {"code", "data"}
  ReadOnly = {"code"}
  GrowPage = {"grow"}
  OtherPage = {"hole"}
  PageCnt = 3
  MaxStarts = 2
  NIL = NIL
  QueueSize = 2
  MaxBytes = 3
SPECIFICATION ProgramsSpec
INVARIANTS RecordsAllocated ActiveDirectory PagesOwned PagesFilled SerialOrder
PROPERTIES ChildrenPromise WaitEnds FaultsServed SerialFlows
CHECK_DEADLOCK FALSE
