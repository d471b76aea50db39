CONSTANTS
  MaxTid = 2
  ExitStatus = {1}
  Creation = {"ok"}
  StrayWrite = {"harmless"}
  NULL = NULL
SPECIFICATION ProcSpec
PROPERTIES KilledPromise
CHECK_DEADLOCK FALSE
