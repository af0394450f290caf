CONSTANTS
  Index = {0, 1}
  NearLimit = 1
  Frames <- MCFrames
  Root <- MCRoot
  BootTables <- MCBootTables
  Pools <- MCPools
  Junk <- MCJunk
  Identity <- MCIdentity
  Targets <- MCFar
  Pages = {14, 15}
  Rights <- MCRights
  Cached = {}
  NULL = NULL
SPECIFICATION Spec
INVARIANT MapTakesEffect
CHECK_DEADLOCK FALSE
