CONSTANTS
  Index = {0, 1}
  NearLimit = 1
  Frames <- MCFrames
  Root <- MCRoot
  BootTables <- MCBootTables
  Pools <- MCPools
  Junk <- MCJunk
  Identity <- MCIdentity
  Targets <- MCComplete
  Pages = {14, 15}
  Rights <- MCRights
  Cached <- MCComplete
  NULL = NULL
SPECIFICATION Spec
INVARIANT NoStaleTlb
CHECK_DEADLOCK FALSE
