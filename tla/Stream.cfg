SPECIFICATION Spec
INVARIANT Understood
INVARIANT ReadsInside
CHECK_DEADLOCK FALSE
CONSTANTS
  Outgoing <- OneOfEach
  Infos <- Userinfos
  BufSize = 16
  Pad = 5
  CipherSize = 8
  MaxPipe = 2
