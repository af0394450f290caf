CONSTANTS
  BitsPerByte = 2
  PageSize = 2
  MaxFrame = 7
  MemoryMaps <- MCRoomyMaps
  Garbage <- MCGarbage
  Callers = {c1, c2}
  Requests = {0, 1, 2, 3}
  NULL = NULL
SPECIFICATION Spec
INVARIANT HeldApart
CHECK_DEADLOCK FALSE
