SPECIFICATION FairSpec
PROPERTY ResumeReleases
CHECK_DEADLOCK FALSE
CONSTANTS
  Workers = {w1, w2}
  Jobs = {j1}
  Main = main
  NoJob = nojob
  NoThread = nothread
  CanFail = FALSE
  MaxPauses = 1
