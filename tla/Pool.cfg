SPECIFICATION FairSpec
INVARIANT TypeOK
INVARIANT CountsExact
INVARIANT JobsConserved
INVARIANT WorkAnnounced
INVARIANT WakeupPending
INVARIANT FreedQuiet
PROPERTY WaitSound
PROPERTY ImplementsJobPool
PROPERTY JobsRun
PROPERTY CallsReturn
PROPERTY PoolStarts
CHECK_DEADLOCK FALSE
CONSTANTS
  Workers = {w1, w2}
  Jobs = {j1, j2}
  Main = main
  NoJob = nojob
  NoThread = nothread
  CanFail = TRUE
  MaxPauses = 2
