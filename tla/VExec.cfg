CONSTANTS
  MaxTid = 2
  ExitStatus = {1}
  Creation = {"ok"}
  StrayWrite = {"harmless"}
  NULL = NULL
SPECIFICATION FairProcSpec
PROPERTIES ExecReturns
CHECK_DEADLOCK FALSE
