SPECIFICATION FairSpec
INVARIANT TypeOK
INVARIANT ConfigSane
INVARIANT ClosedOnce
INVARIANT ListLoaded
INVARIANT ExitClean
PROPERTY SigintExits
CHECK_DEADLOCK FALSE
CONSTANTS
  Elems = {1, 2, 3}
  ListHead = 0
  Files <- SomeFiles
  Tables <- SmallTables
  MaxThreads = 8
  MaxPort = 65534
  ByteSize = 3
  MaxSockets = 3
  NULL = null
