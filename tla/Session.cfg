SPECIFICATION Spec
INVARIANT Flushed
INVARIANT KeyNotFreed
PROPERTY TrustIsOwn
SYMMETRY Symmetry
CHECK_DEADLOCK FALSE
CONSTANTS
  NumServers = 1
  Fds = {f1, f2}
  Listener = listener
  NoFd = nofd
  Peer = peer
  Stranger = stranger
  Visitors <- OneServer
  EncModes = {TRUE, FALSE}
  SignOutcomes = {TRUE}
  ChallengeCuts = {TRUE, FALSE}
  Answers = {TRUE, FALSE}
  KeyFiles <- OneServer
  KeyReads = {TRUE, FALSE}
  HangUps = {}
  Garbage = {FALSE}
  Commands = {"DATA", "QUIT"}
  MaxInbox = 2
  MaxBacklog = 1
