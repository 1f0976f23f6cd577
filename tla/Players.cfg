SPECIFICATION MCSpec
INVARIANT TypeOK
INVARIANT CountExact
INVARIANT InSlot
INVARIANT TextExact
CHECK_DEADLOCK FALSE
CONSTANTS
  NumServers = 2
  ByteSize = 3
  VaBuffers = 3
  MaxClients = {2, 3}
  Names = {anna, bert}
  NoName = noname
  Junk = junk
  Width <- MCWidth
  Heading <- MCHeading
  LineRoom = 5
  TextRoom = 8
  MaxWire = 2
