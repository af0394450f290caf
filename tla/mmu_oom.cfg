CONSTANTS
  Index = {0, 1}
  NearLimit = 1
  Frames <- MCFrames
  Root <- MCRoot
  BootTables <- MCBootTables
  Pools <- MCNone
  Junk <- MCJunk
  Identity <- MCIdentity
  Targets <- MCHigh
  Pages = {14, 15}
  Rights <- MCRights
  Cached = {}
  NULL = NULL
SPECIFICATION Spec
PROPERTY AllocFailurePanics
CHECK_DEADLOCK FALSE
