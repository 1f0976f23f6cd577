SPECIFICATION Spec
INVARIANT TrustEarned
SYMMETRY Symmetry
CHECK_DEADLOCK FALSE
CONSTANTS
  NumServers = 1
  Fds = {f1, f2}
  Listener = listener
  NoFd = nofd
  Peer = peer
  Stranger = stranger
  Visitors <- OneServer
  EncModes = {FALSE}
  SignOutcomes = {TRUE}
  ChallengeCuts = {FALSE}
  Answers = {TRUE, FALSE}
  KeyFiles <- OneServer
  KeyReads = {TRUE}
  HangUps = {"fin", "rst"}
  Garbage = {TRUE, FALSE}
  Commands = {"PING", "QUIT"}
  MaxInbox = 1
  MaxBacklog = 1
