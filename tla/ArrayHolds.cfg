SPECIFICATION Spec
INVARIANT ArrayHolds
SYMMETRY Symmetry
CHECK_DEADLOCK FALSE
CONSTANTS
  NumServers = 2
  Fds = {f1, f2}
  Listener = listener
  NoFd = nofd
  Peer = peer
  Stranger = stranger
  Visitors <- BothServers
  EncModes = {FALSE}
  SignOutcomes = {TRUE}
  ChallengeCuts = {FALSE}
  Answers = {TRUE, FALSE}
  KeyFiles <- BothServers
  KeyReads = {TRUE}
  HangUps = {"fin", "rst"}
  Garbage = {TRUE, FALSE}
  Commands = {"PING", "QUIT"}
  MaxInbox = 1
  MaxBacklog = 1
