SPECIFICATION Spec
INVARIANT TypeOK
INVARIANT SlotOwnership
INVARIANT SlotsLive
INVARIANT SocketBelongs
PROPERTY DisconnectCause
PROPERTY ImplementsDirectory
SYMMETRY Symmetry
CHECK_DEADLOCK FALSE
CONSTANTS
  NumServers = 3
  Fds = {f1, f2}
  Listener = listener
  NoFd = nofd
  Peer = peer
  Stranger = stranger
  Visitors <- BothServers
  EncModes = {FALSE}
  SignOutcomes = {TRUE}
  ChallengeCuts = {FALSE}
  Answers = {TRUE}
  KeyFiles <- BothServers
  KeyReads = {TRUE}
  HangUps = {"fin", "rst"}
  Garbage = {FALSE}
  Commands = {"COMMAND_INVITE", "QUIT"}
  MaxInbox = 1
  MaxBacklog = 1
