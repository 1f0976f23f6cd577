SPECIFICATION Spec
PROPERTY VisitorsHarmless
SYMMETRY Symmetry
CHECK_DEADLOCK FALSE
CONSTANTS
  NumServers = 3
  Fds = {f1, f2}
  Listener = listener
  NoFd = nofd
  Peer = peer
  Stranger = stranger
  Visitors <- Everyone
  EncModes = {FALSE}
  SignOutcomes = {TRUE, FALSE}
  ChallengeCuts = {FALSE}
  Answers = {TRUE}
  KeyFiles <- OneServer
  KeyReads = {TRUE}
  HangUps = {}
  Garbage = {FALSE}
  Commands = {}
  MaxInbox = 1
  MaxBacklog = 1
