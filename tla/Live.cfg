SPECIFICATION FairSpec
PROPERTY AuthAnswered
CHECK_DEADLOCK FALSE
CONSTANTS
  NumServers = 3
  Fds = {f1, f2}
  Listener = listener
  NoFd = nofd
  Peer = peer
  Stranger = stranger
  Visitors <- Everyone
  EncModes = {FALSE}
  SignOutcomes = {TRUE}
  ChallengeCuts = {FALSE}
  Answers = {TRUE}
  KeyFiles <- BothServers
  KeyReads = {TRUE}
  HangUps = {}
  Garbage = {FALSE}
  Commands = {"PING", "COMMAND_INVITE"}
  MaxInbox = 1
  MaxBacklog = 1
