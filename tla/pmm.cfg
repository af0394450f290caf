CONSTANTS
  BitsPerByte = 2
  PageSize = 2
  MaxFrame = 8
  MemoryMaps <- MCMaps
  Garbage <- MCGarbage
  Callers = {c1, c2}
  Requests = {0, 1, 2, 3}
  NULL = NULL
SPECIFICATION FairSpec
INVARIANTS TypeOK FreeIsUsable HeldIsUsable StartsAtFirstFree LargeSegmentsKept
PROPERTIES ClearsInWholeBytes FirstFitPromise AllocReturns
CHECK_DEADLOCK FALSE
