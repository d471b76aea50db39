CONSTANTS
  Name = {a, b, c}
  Proc = {p, q}
  SectorCnt = 7
  DirSize = 2
  MaxLength = 2
  LastFd = 2
  MaxMaps = 1
  NULL = NULL
  Client = {x, y}
  PageCnt = 3
  PGSIZE = 14
  ARENA = 2
  MIN_BLOCK = 3
  Size = {3, 5, 13}
  MaxHeld = 2
  NONE = NONE
SPECIFICATION StorageSpec
INVARIANTS OpenCounts SectorsDisjoint SectorsAccounted RunningProgramUnchanged
           BlocksDisjoint MemoryAccounted
SYMMETRY Symmetry
CHECK_DEADLOCK FALSE
