CONSTANTS
  Index = {0, 1}
  NearLimit = 1
  Frames <- MCFrames
  Root <- MCRoot
  BootTables <- MCBootTables
  Pools <- MCPools
  Junk <- MCJunk
  Identity <- MCIdentity
  Targets <- MCHigh
  Pages = {14, 15}
  Rights <- MCRights
  Cached <- MCCached
  NULL = NULL
SPECIFICATION Spec
INVARIANTS TypeOK TablesApart TranslateAgrees TlbKnown
PROPERTY AddressSpacePromise
CHECK_DEADLOCK FALSE
