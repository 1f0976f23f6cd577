--------------------------- MODULE Q2AServerProofs ---------------------------
(***************************************************************************)
(* Proofs about Q2AServer, for any number of registered servers and any    *)
(* finite set of descriptors.                                              *)
(***************************************************************************)
EXTENDS Q2AServer, PollTableProofs

(* The slots poll() is given hold descriptors.                             *)
SlotsHeld == \A j \in 1..(socket_count - 1) : sfd[j] \in Fds

(* Type correctness and the agreement of index field and poll array are    *)
(* inductive only together: a handler may use the slot i as a descriptor   *)
(* because slot 0 is the listener, and a rebuild writes the sockets of the *)
(* connected entries because these are descriptors.                        *)
TableInv == TypeOK /\ SlotOwnership /\ SlotsHeld

(* The list of registered servers is finite and none is the NULL server.   *)
LEMMA ServersFinite ==
  /\ IsFiniteSet(Servers) /\ Cardinality(Servers) = NumServers
  /\ Servers \subseteq Nat /\ NumServers \in Nat /\ 0 \notin Servers
<1>1. NumServers \in Nat /\ 1 \in Int
  BY ConstantsAssumption
<1>2. IsFiniteSet(1..NumServers) /\ Cardinality(1..NumServers) = NumServers
  BY <1>1, FS_Interval
<1> QED  BY <1>1, <1>2 DEF Servers

(* The array as the model tracks it: room for a rebuild, and for each      *)
(* descriptor there is.                                                    *)
LEMMA Sizes ==
  /\ Cardinality(Fds) \in Nat /\ MaxSlots \in Nat
  /\ NumServers \in Nat /\ NumServers < MaxSlots
  /\ MaxSlots = NumServers + Cardinality(Fds) + 1
<1>1. IsFiniteSet(Fds) /\ NumServers \in Nat
  BY ConstantsAssumption
<1>2. Cardinality(Fds) \in Nat
  BY <1>1, FS_CardinalityType
<1> QED  BY <1>1, <1>2 DEF MaxSlots

(* remove_server_socket(): after the rebuild the entries of C own the      *)
(* slots 1..Cardinality(C), one each, and every slot holds a descriptor.   *)
LEMMA RebuildOwns ==
  ASSUME TypeOK, NEW C \in SUBSET Servers,
         NEW sock \in [Servers -> Fds \cup {NoFd}], NEW idx \in [Servers -> Slots],
         \A s \in C : sock[s] \in Fds,
         \A s \in Servers \ C : idx[s] = 0,
         sfd[0] = Listener,
         RemoveServerSocket(C, sock, idx)
  PROVE  /\ TableTypes'
         /\ SlotsHeld'
         /\ sfd'[0] = Listener
         /\ \A s \in C : index'[s] \in 1..(socket_count' - 1) /\ sfd'[index'[s]] = sock[s]
         /\ \A s \in Servers \ C : index'[s] = 0
         /\ \A s, t \in C : s # t => index'[s] # index'[t]
<1> DEFINE n == Cardinality(C)
<1>1. /\ IsFiniteSet(C) /\ C \subseteq Nat
      /\ n \in Nat /\ n <= NumServers /\ NumServers \in Nat
  BY ServersFinite, FS_Subset, FS_CardinalityType
<1>2. MaxSlots \in Nat /\ NumServers < MaxSlots
  BY Sizes
<1>3. \A s \in C : Rank(C, s) \in 1..n /\ Occupant(C, Rank(C, s)) = s
  BY <1>1, RankInRange, OccupantOfRank
<1>4. \A j \in 1..n : Occupant(C, j) \in C
  BY <1>1, OccupantOfSlot
<1>5. \A s, t \in C : s # t => Rank(C, s) # Rank(C, t)
  BY <1>1, RankInjective
<1>6. socket_count' = n + 1
  BY DEF RemoveServerSocket, SlotsUsed
<1> HIDE DEF n
<1>7. 1..n \subseteq Slots /\ 0 \in Slots /\ 0 \notin 1..n
  BY <1>1, <1>2 DEF Slots
<1>8. sfd' = [j \in Slots |-> IF j \in 1..n THEN sock[Occupant(C, j)] ELSE sfd[j]]
  BY DEF RemoveServerSocket, n
<1>9. \A j \in 1..n : sfd'[j] \in Fds
  BY <1>4, <1>7, <1>8
<1>10. index' = [s \in Servers |-> IF s \in C THEN Rank(C, s) ELSE idx[s]]
  BY DEF RemoveServerSocket
<1>11. index' \in [Servers -> Slots]
  BY <1>3, <1>7, <1>10
<1>12. sfd' \in [Slots -> Fds \cup {Listener, NoFd}]
  BY <1>8, <1>9, <1>7 DEF TypeOK, TableTypes
<1>13. socket_count' \in 1..MaxSlots /\ 1..(socket_count' - 1) = 1..n
  BY <1>1, <1>2, <1>6
<1>14. TableTypes'
  BY <1>11, <1>12, <1>13 DEF RemoveServerSocket, TypeOK, TableTypes
<1>15. \A s \in C : index'[s] \in 1..n /\ sfd'[index'[s]] = sock[s]
  BY <1>3, <1>7, <1>8, <1>10
<1> QED  BY <1>5, <1>7, <1>8, <1>9, <1>10, <1>13, <1>14, <1>15 DEF SlotsHeld

(* The same for the callers, after whose step C is the set of connected    *)
(* entries and sock their sockets.                                         *)
LEMMA RebuildStep ==
  ASSUME TypeOK, NEW C \in SUBSET Servers,
         NEW sock \in [Servers -> Fds \cup {NoFd}], NEW idx \in [Servers -> Slots],
         \A s \in C : sock[s] \in Fds,
         \A s \in Servers \ C : idx[s] = 0,
         sfd[0] = Listener,
         RemoveServerSocket(C, sock, idx),
         \A s \in Servers : connected'[s] <=> s \in C,
         \A s \in C : socket'[s] = sock[s]
  PROVE  TableTypes' /\ SlotOwnership' /\ SlotsHeld'
<1>1. /\ TableTypes' /\ SlotsHeld' /\ sfd'[0] = Listener
      /\ \A s \in C : index'[s] \in 1..(socket_count' - 1) /\ sfd'[index'[s]] = sock[s]
      /\ \A s \in Servers \ C : index'[s] = 0
      /\ \A s, t \in C : s # t => index'[s] # index'[t]
  BY RebuildOwns
<1>2. ConnectedSet' = C
  BY DEF ConnectedSet
<1> QED  BY <1>1, <1>2 DEF SlotOwnership

(* What a handler knows of the slot it is at.                              *)
LEMMA ClientSlot ==
  ASSUME TableInv, AtClient
  PROVE  i \in 1..(socket_count - 1) /\ i \in Slots /\ sfd[i] \in Fds
<1>1. i \in Nat /\ i < socket_count /\ socket_count \in Nat /\ socket_count <= MaxSlots
  BY Sizes DEF AtClient, TableInv, TypeOK, LoopTypes, TableTypes
<1>2. i # 0
  BY DEF AtClient, TableInv, SlotOwnership
<1>3. MaxSlots \in Nat
  BY Sizes
<1>4. i \in 1..(socket_count - 1) /\ i \in Slots
  BY <1>1, <1>2, <1>3 DEF Slots
<1> QED  BY <1>4 DEF TableInv, SlotsHeld

(* A connected entry's socket is a descriptor.                             *)
LEMMA ConnectedSocket ==
  ASSUME TableInv, NEW s \in ConnectedSet
  PROVE  socket[s] \in Fds
BY DEF TableInv, ConnectedSet, SlotOwnership, SlotsHeld

(* The entry get_server() finds for a listed slot other than 0.            *)
LEMMA GetServerFinds ==
  ASSUME NEW k \in Nat, IsListed(k)
  PROVE  GetServer(k) \in Servers /\ index[GetServer(k)] = k
<1> DEFINE S == {s \in Servers : index[s] = k}
<1>1. S \subseteq Nat /\ S # {}
  BY ServersFinite DEF IsListed
<1>2. PICK s \in S : \A t \in S : s <= t
  <2>1. IsFiniteSet(S)
    BY ServersFinite, FS_Subset
  <2>2. Cardinality(S) \in Nat /\ Cardinality(S) # 0
    BY <1>1, <2>1, FS_CardinalityType, FS_EmptySet
  <2>3. PICK s \in S : Rank(S, s) = 1
    <3>1. 1 \in 1..Cardinality(S)
      BY <2>2
    <3> QED  BY <1>1, <2>1, <3>1, OccupantOfSlot
  <2>4. \A t \in S : Rank(S, t) >= 1
    BY <1>1, <2>1, <2>2, RankInRange
  <2>5. \A t \in S : t < s => Rank(S, t) < Rank(S, s)
    BY <1>1, <2>1, RankIncreasing
  <2>6. \A t \in S : Rank(S, t) \in Nat
    BY <1>1, <2>1, <2>2, RankInRange
  <2> HIDE DEF S
  <2>7. ASSUME NEW t \in S PROVE s <= t
    <3>1. ~(t < s)
      BY <2>3, <2>4, <2>5, <2>6
    <3> QED  BY <1>1, <3>1
  <2> QED  BY <2>7
<1>3. \E x \in Servers : index[x] = k /\ \A t \in Servers : index[t] = k => x <= t
  BY <1>2
<1> QED  BY <1>3 DEF GetServer
-----------------------------------------------------------------------------
(* What stays when a step leaves variables alone.                          *)
LEMMA TableFrame ==
  ASSUME TableInv, UNCHANGED <<entryVars, tableVars>>
  PROVE  EntryTypes' /\ TableTypes' /\ SlotOwnership' /\ SlotsHeld'
BY DEF TableInv, TypeOK, EntryTypes, TableTypes, SlotOwnership, SlotsHeld, ConnectedSet,
       entryVars, tableVars

(* A step that leaves the kernel alone keeps the types of its variables.   *)
LEMMA NetFrame ==
  ASSUME TypeOK, UNCHANGED netVars
  PROVE  NetTypes'
BY DEF TypeOK, NetTypes, netVars

(* A step of the other end keeps the types of the loop's variables.        *)
LEMMA LoopFrame ==
  ASSUME TypeOK, UNCHANGED loopVars
  PROVE  LoopTypes'
BY DEF TypeOK, LoopTypes, loopVars

(* Going on to the next slot, or to the next command of the buffer.        *)
LEMMA NextSlotTypes ==
  ASSUME TypeOK, NextSlot
  PROVE  LoopTypes'
BY DEF TypeOK, LoopTypes, NextSlot

(* Going on to the next command of the buffer keeps the loop's types.      *)
LEMMA ConsumeTypes ==
  ASSUME TypeOK, Consume, buf # <<>>
  PROVE  LoopTypes'
BY DEF TypeOK, LoopTypes, Consume

(* close() keeps the types of the kernel's variables, whatever it closes.  *)
LEMMA CloseTypes ==
  ASSUME TypeOK, NEW f, Close(f)
  PROVE  NetTypes'
<1>1. Stranger \in Roles /\ "none" \in Phases /\ <<>> \in Seq(CommandSet)
  BY DEF Roles, Phases
<1> QED  BY <1>1 DEF TypeOK, NetTypes, Close

(* A step that stops the process leaves everything else as it was.         *)
LEMMA FaultStep ==
  ASSUME TableInv, NEW kind \in FaultKinds, Fault(kind)
  PROVE  TableInv'
<1>1. LoopTypes'
  BY DEF TableInv, TypeOK, LoopTypes, Fault
<1>2. UNCHANGED <<entryVars, tableVars>> /\ UNCHANGED netVars
  BY DEF Fault
<1> QED  BY <1>1, <1>2, TableFrame, NetFrame DEF TableInv, TypeOK

(* What a client makes of a reply is a phase, whatever the bytes are.      *)
LEMMA HearPhase ==
  ASSUME NEW p \in Phases, NEW replies, NEW cipher
  PROVE  Hear(p, replies, cipher) \in Phases
BY DEF Hear, Phases

(* SendBuffer changes the messages and the other ends, within their types. *)
LEMMA SendBufferTypes ==
  ASSUME TypeOK, NEW S \in SUBSET Servers, NEW out \in [Servers -> SUBSET Replies],
         SendBuffer(S, out)
  PROVE  /\ msg' \in [Servers -> SUBSET Replies]
         /\ phase' \in [Fds -> Phases]
         /\ eof' \in [Fds -> {"no", "fin", "rst", "dead"}]
<1>1. msg' \in [Servers -> SUBSET Replies]
  BY DEF SendBuffer
<1>2. \A f \in Fds : phase[f] \in Phases
  BY DEF TypeOK, NetTypes
<1>3. phase' \in [Fds -> Phases]
  BY <1>2, HearPhase DEF SendBuffer, Heard
<1>4. eof' \in AfterSend(LiveFds(Reached(S)))
  BY DEF SendBuffer
<1>5. eof' \in [Fds -> {"no", "fin", "rst", "dead"}]
  BY <1>4 DEF AfterSend, TypeOK, NetTypes
<1> QED  BY <1>1, <1>3, <1>5

(* The other end of a descriptor does not touch the server's state.        *)
LEMMA ClientStep ==
  ASSUME TableInv, Client
  PROVE  TableInv'
<1> USE DEF TableInv
<1>1. ASSUME NEW f \in Fds, NEW from, NEW c \in CommandNames, NEW flag \in BOOLEAN,
             NEW p \in Phases, ClientSend(f, from, Command(c, flag), p)
      PROVE  NetTypes' /\ UNCHANGED <<entryVars, tableVars, loopVars>>
  <2>1. Command(c, flag) \in CommandSet
    BY DEF Command, CommandSet
  <2>2. inbox[f] \in Seq(CommandSet)
    BY DEF TypeOK, NetTypes
  <2> QED  BY <1>1, <2>1, <2>2 DEF TypeOK, NetTypes, ClientSend
<1>2. NetTypes' /\ UNCHANGED <<entryVars, tableVars, loopVars>>
  <2>1. ASSUME NEW r \in Visitors, ClientConnect(r)
        PROVE  NetTypes' /\ UNCHANGED <<entryVars, tableVars, loopVars>>
    <3>1. r \in Roles
      BY ConstantsAssumption
    <3> QED  BY <2>1, <3>1 DEF ClientConnect, TypeOK, NetTypes
  <2>2. ASSUME NEW f \in Fds, ClientHello(f)
        PROVE  NetTypes' /\ UNCHANGED <<entryVars, tableVars, loopVars>>
    <3>1. PICK e \in BOOLEAN : ClientSend(f, {"new"}, Command("HELLO", e), "hello")
      BY <2>2, ConstantsAssumption DEF ClientHello
    <3> QED  BY <1>1, <3>1 DEF CommandNames, Phases
  <2>3. ASSUME NEW f \in Fds, PeerAsks(f)
        PROVE  NetTypes' /\ UNCHANGED <<entryVars, tableVars, loopVars>>
    <3>1. PICK e \in BOOLEAN : ClientSend(f, {"new"}, Command("PEER", e), "hello")
      BY <2>3 DEF PeerAsks
    <3> QED  BY <1>1, <3>1 DEF CommandNames, Phases
  <2>4. ASSUME NEW f \in Fds, ClientAuth(f)
        PROVE  NetTypes' /\ UNCHANGED <<entryVars, tableVars, loopVars>>
    <3>1. PICK e \in BOOLEAN : ClientSend(f, {"acked", "told"}, Command("AUTH", e), "auth")
      BY <2>4, ConstantsAssumption DEF ClientAuth
    <3> QED  BY <1>1, <3>1 DEF CommandNames, Phases
  <2>5. ASSUME NEW f \in Fds, ClientCommand(f)
        PROVE  NetTypes' /\ UNCHANGED <<entryVars, tableVars, loopVars>>
    <3>1. PICK p \in Phases : p = phase[f]
      BY DEF TypeOK, NetTypes
    <3>2. PICK c \in CommandNames :
            ClientSend(f, {"trusted", "told"}, Command(c, FALSE), phase[f])
      BY <2>5, ConstantsAssumption DEF ClientCommand, CommandNames
    <3>3. ClientSend(f, {"trusted", "told"}, Command(c, FALSE), p)
      BY <3>1, <3>2 DEF ClientSend
    <3> QED  BY <1>1, <3>3
  <2>6. ASSUME NEW f \in Fds, ClientQuit(f)
        PROVE  NetTypes' /\ UNCHANGED <<entryVars, tableVars, loopVars>>
    <3>1. ClientSend(f, {"acked", "told", "trusted"}, Command("QUIT", FALSE), "quit")
      BY <2>6 DEF ClientQuit
    <3>2. "QUIT" \in CommandNames /\ "quit" \in Phases
      BY DEF CommandNames, Phases
    <3> QED  BY <1>1, <3>1, <3>2
  <2>7. ASSUME NEW f \in Fds, ClientClose(f)
        PROVE  NetTypes' /\ UNCHANGED <<entryVars, tableVars, loopVars>>
    BY <2>7, ConstantsAssumption DEF ClientClose, TypeOK, NetTypes
  <2> QED  BY <2>1, <2>2, <2>3, <2>4, <2>5, <2>6, <2>7 DEF Client
<1> QED  BY <1>2, TableFrame, LoopFrame DEF TypeOK

(* The slots a rebuild does not reach hold descriptors that were accepted  *)
(* since the last one: pairwise different and open.  So add_server_socket, *)
(* which looks at no limit, stays below the last slot of the model.        *)
Spare == (NumServers + 1)..(socket_count - 1)
SpareSlots ==
  /\ \A j \in Spare : sfd[j] \in Fds /\ open[sfd[j]]
  /\ \A j, k \in Spare : j # k => sfd[j] # sfd[k]

(* One more descriptor has its slot: it is not among the spare ones.       *)
LEMMA RoomForOne ==
  ASSUME TableInv, SpareSlots, Accept
  PROVE  socket_count < MaxSlots
<1>1. PICK f \in Fds : ~open[f]
  BY DEF Accept
<1>2. socket_count \in Nat
  BY Sizes DEF TableInv, TypeOK, TableTypes
<1> DEFINE J == (NumServers + 1)..(socket_count - 1)
           F == Fds \ {f}
           g == [j \in J |-> sfd[j]]
<1>3. \A j \in J : sfd[j] \in F
  BY <1>1 DEF SpareSlots, Spare
<1>4. \A j, k \in J : sfd[j] = sfd[k] => j = k
  BY DEF SpareSlots, Spare
<1>5. g \in Injection(J, F)
  <2>1. g \in [J -> F]
    BY <1>3
  <2>2. \A j, k \in J : g[j] = g[k] => j = k
    BY <1>4
  <2> QED  BY <2>1, <2>2 DEF Injection, IsInjective
<1>6. IsFiniteSet(F) /\ Cardinality(F) = Cardinality(Fds) - 1
  BY <1>1, ConstantsAssumption, FS_RemoveElement
<1>7. IsFiniteSet(J)
      /\ Cardinality(J) = IF NumServers + 1 > socket_count - 1 THEN 0
                          ELSE socket_count - 1 - (NumServers + 1) + 1
  <2>1. NumServers + 1 \in Int /\ socket_count - 1 \in Int
    BY <1>2, Sizes
  <2> HIDE DEF J
  <2> QED  BY <2>1, FS_Interval DEF J
<1>8. Cardinality(J) <= Cardinality(F)
  <2> HIDE DEF J, F, g
  <2> QED  BY <1>5, <1>6, FS_Injection
<1> HIDE DEF J, F, g
<1> QED  BY <1>2, <1>6, <1>7, <1>8, Sizes

(* poll() and the parts of the scan that serve no client slot.             *)
LEMMA ScanStep ==
  ASSUME TableInv, SpareSlots,
         PollReturns \/ ScanEnds \/ SkipSlot \/ Accept \/ AcceptFails
  PROVE  TableInv'
<1> USE DEF TableInv
<1>1. CASE PollReturns
  <2>1. \A j \in Slots : (IF j < socket_count THEN Ready(j) ELSE revents[j]) \in BOOLEAN
    BY DEF Ready, Readable, TypeOK, TableTypes
  <2>2. revents' \in [Slots -> BOOLEAN]
    BY <1>1, <2>1 DEF PollReturns
  <2>3. UNCHANGED <<entryVars, sfd, socket_count, netVars>>
    BY <1>1 DEF PollReturns
  <2>4. TableTypes' /\ EntryTypes' /\ SlotOwnership' /\ SlotsHeld'
    BY <2>2, <2>3 DEF TypeOK, EntryTypes, TableTypes, SlotOwnership, SlotsHeld,
                      ConnectedSet, entryVars
  <2>5. LoopTypes'
    BY <1>1 DEF PollReturns, TypeOK, LoopTypes
  <2> QED  BY <2>3, <2>4, <2>5, NetFrame DEF TypeOK
<1>2. CASE ScanEnds
  <2>1. UNCHANGED <<entryVars, tableVars>> /\ UNCHANGED netVars
    BY <1>2 DEF ScanEnds
  <2>2. LoopTypes'
    BY <1>2 DEF ScanEnds, TypeOK, LoopTypes
  <2> QED  BY <2>1, <2>2, TableFrame, NetFrame DEF TypeOK
<1>3. CASE SkipSlot \/ AcceptFails
  <2>1. UNCHANGED <<entryVars, tableVars>> /\ UNCHANGED netVars /\ NextSlot
    BY <1>3 DEF SkipSlot, AcceptFails
  <2> QED  BY <2>1, TableFrame, NetFrame, NextSlotTypes DEF TypeOK
<1>4. CASE Accept
  <2>1. PICK f \in Fds :
          /\ open'  = [open EXCEPT ![f] = TRUE]
          /\ role'  = [role EXCEPT ![f] = Head(backlog)]
          /\ phase' = [phase EXCEPT ![f] = "new"]
          /\ AddServerSocket(f)
    BY <1>4 DEF Accept
  <2>2. /\ backlog # <<>> /\ backlog' = Tail(backlog)
        /\ NextSlot /\ UNCHANGED <<entryVars, eof, inbox>>
    BY <1>4 DEF Accept
  <2>3. NetTypes'
    <3>1. Head(backlog) \in Roles /\ Tail(backlog) \in Seq(Roles) /\ "new" \in Phases
      BY <2>2 DEF TypeOK, NetTypes, Phases
    <3> QED  BY <2>1, <2>2, <3>1 DEF TypeOK, NetTypes
  <2>4. /\ MaxSlots \in Nat /\ socket_count \in Nat /\ socket_count >= 1
        /\ socket_count \in Slots /\ socket_count < MaxSlots
    BY <1>4, RoomForOne, Sizes DEF TypeOK, TableTypes, Slots
  <2>5. /\ sfd' = [sfd EXCEPT ![socket_count] = f] /\ socket_count' = socket_count + 1
        /\ revents' = revents
    BY <2>1 DEF AddServerSocket
  <2>6. TableTypes' /\ EntryTypes'
    BY <2>2, <2>4, <2>5 DEF TypeOK, TableTypes, EntryTypes, entryVars
  <2>7. \A j \in 0..(socket_count - 1) : j \in Slots /\ sfd'[j] = sfd[j]
    BY <2>4, <2>5 DEF TypeOK, TableTypes, Slots
  <2>8. SlotsHeld'
    <3>1. 1..(socket_count' - 1) = 1..(socket_count - 1) \cup {socket_count}
      BY <2>4, <2>5
    <3>2. sfd'[socket_count] = f
      BY <2>4, <2>5 DEF TypeOK, TableTypes
    <3> QED  BY <2>4, <2>7, <3>1, <3>2 DEF SlotsHeld
  <2>9. SlotOwnership'
    <3>1. 1..(socket_count - 1) \subseteq 1..(socket_count' - 1)
      BY <2>4, <2>5
    <3>2. sfd'[0] = Listener
      BY <2>4, <2>7 DEF SlotOwnership
    <3>3. UNCHANGED <<connected, index, socket>>
      BY <2>2 DEF entryVars
    <3>4. ASSUME NEW s \in Servers, connected[s]
          PROVE  index'[s] \in 1..(socket_count' - 1) /\ sfd'[index'[s]] = socket'[s]
      <4>1. index[s] \in 1..(socket_count - 1) /\ sfd[index[s]] = socket[s]
        BY <3>4 DEF SlotOwnership
      <4> QED  BY <2>4, <2>7, <3>1, <3>3, <4>1
    <3> QED  BY <3>2, <3>3, <3>4 DEF SlotOwnership, ConnectedSet
  <2> QED  BY <2>2, <2>3, <2>6, <2>8, <2>9, NextSlotTypes DEF TypeOK
<1> QED  BY <1>1, <1>2, <1>3, <1>4

(* Bytes read from the wrong place are commands as well, as far as the     *)
(* types go.                                                               *)
LEMMA GarbledType ==
  ASSUME NEW rest \in Seq(CommandSet)
  PROVE  Garbled(rest) \in Seq(CommandSet)
<1>1. PICK g \in CommandSet : g = Command("GARBLED", FALSE)
  BY DEF Command, CommandSet, CommandNames
<1>2. <<g>> \o rest \in Seq(CommandSet)
  OBVIOUS
<1> QED  BY <1>1, <1>2 DEF Garbled

(* The rest of the handlers that leave the table alone.                    *)
LEMMA QuietStep ==
  ASSUME TableInv, VisitorLost \/ ServerError \/ ReceiveCommands \/ NewServerFaults
                   \/ ParseEnds \/ ParseData \/ ParseStray \/ ParseGarbled
                   \/ ParseFaults \/ ArrayOverrun
  PROVE  TableInv'
<1> USE DEF TableInv
<1>1. CASE VisitorLost \/ NewServerFaults \/ ParseFaults \/ ArrayOverrun
  <2>1. \E kind \in FaultKinds : Fault(kind)
    BY <1>1 DEF VisitorLost, NewServerFaults, ParseFaults, ArrayOverrun, FaultKinds
  <2> QED  BY <2>1, FaultStep
<1>2. CASE ServerError
  <2>1. UNCHANGED <<entryVars, tableVars>> /\ NextSlot
    BY <1>2 DEF ServerError
  <2>2. NetTypes'
    BY <1>2 DEF ServerError, TypeOK, NetTypes
  <2> QED  BY <2>1, <2>2, TableFrame, NextSlotTypes DEF TypeOK
<1>3. CASE ReceiveCommands
  <2>1. AtClient /\ IsListed(i) /\ UNCHANGED <<entryVars, tableVars>>
    BY <1>3 DEF ReceiveCommands
  <2>2. sfd[i] \in Fds
    BY <2>1, ClientSlot
  <2>3. NetTypes'
    <3>1. <<>> \in Seq(CommandSet)
      OBVIOUS
    <3> QED  BY <1>3, <3>1 DEF ReceiveCommands, TypeOK, NetTypes
  <2>4. GetServer(i) \in Servers
    <3>1. PICK k \in Nat : k = i
      BY DEF TypeOK, LoopTypes
    <3>2. GetServer(k) \in Servers
      BY <2>1, <3>1, GetServerFinds
    <3> QED  BY <3>1, <3>2
  <2>5. inbox[sfd[i]] \in Seq(CommandSet) /\ inbox[sfd[i]] # <<>>
    BY <1>3, <2>2 DEF ReceiveCommands, Received, TypeOK, NetTypes
  <2>6. buf' \in Seq(CommandSet)
    <3>1. CASE buf' = inbox[sfd[i]]
      BY <2>5, <3>1
    <3>2. CASE buf' # inbox[sfd[i]]
      <4>1. buf' = <<Head(inbox[sfd[i]])>> \o Garbled(<<>>)
        BY <1>3, <3>2 DEF ReceiveCommands, Deciphered
      <4>2. <<>> \in Seq(CommandSet)
        OBVIOUS
      <4>3. Garbled(<<>>) \in Seq(CommandSet)
        BY <4>2, GarbledType
      <4>4. <<Head(inbox[sfd[i]])>> \in Seq(CommandSet)
        BY <2>5
      <4> QED  BY <4>1, <4>3, <4>4
    <3> QED  BY <3>1, <3>2
  <2>7. LoopTypes'
    BY <1>3, <2>4, <2>6 DEF ReceiveCommands, TypeOK, LoopTypes
  <2> QED  BY <2>1, <2>3, <2>7, TableFrame DEF TypeOK
<1>4. CASE ParseEnds
  <2>1. UNCHANGED <<entryVars, tableVars>> /\ UNCHANGED netVars
    BY <1>4 DEF ParseEnds
  <2>2. LoopTypes'
    BY <1>4 DEF ParseEnds, TypeOK, LoopTypes
  <2> QED  BY <2>1, <2>2, TableFrame, NetFrame DEF TypeOK
<1>5. CASE ParseData \/ ParseStray \/ ParseGarbled
  <2>1. /\ UNCHANGED <<entryVars, tableVars>> /\ UNCHANGED netVars
        /\ UNCHANGED <<pc, i, q2, fault>> /\ buf # <<>>
    BY <1>5 DEF ParseData, ParseStray, ParseGarbled, AtCommand
  <2>2. PICK rest \in Seq(CommandSet) : rest = Tail(buf)
    <3>1. PICK b \in Seq(CommandSet) : b = buf
      BY DEF TypeOK, LoopTypes
    <3>2. Tail(b) \in Seq(CommandSet)
      BY <2>1, <3>1
    <3> QED  BY <3>1, <3>2
  <2>3. Garbled(rest) \in Seq(CommandSet)
    BY GarbledType
  <2>4. buf' \in Seq(CommandSet)
    <3>1. CASE ParseData \/ ParseStray
      <4>1. buf' = rest \/ buf' = Garbled(rest)
        BY <3>1, <2>2 DEF ParseData, ParseStray, ParsePlayerList
      <4> QED  BY <4>1, <2>3
    <3>2. CASE ParseGarbled
      <4>1. CASE buf' = Tail(buf)
        BY <4>1, <2>2
      <4>2. CASE buf' # Tail(buf)
        <5>1. PICK c \in Answering \cup {"QUIT"} : buf' = <<Command(c, FALSE)>> \o buf
          BY <3>2, <4>2 DEF ParseGarbled
        <5>2. PICK x \in CommandSet : x = Command(c, FALSE)
          BY DEF Answering, Command, CommandSet, CommandNames
        <5>3. PICK b \in Seq(CommandSet) : b = buf
          BY DEF TypeOK, LoopTypes
        <5>4. <<x>> \o b \in Seq(CommandSet)
          OBVIOUS
        <5> QED  BY <5>1, <5>2, <5>3, <5>4
      <4> QED  BY <4>1, <4>2
    <3> QED  BY <1>5, <3>1, <3>2
  <2>5. LoopTypes'
    BY <2>1, <2>4 DEF TypeOK, LoopTypes
  <2> QED  BY <2>1, <2>5, TableFrame, NetFrame DEF TypeOK
<1> QED  BY <1>1, <1>2, <1>3, <1>4, <1>5

(* The replies: SendBuffer leaves the table alone.                         *)
LEMMA ReplyStep ==
  ASSUME TableInv, Pong \/ ParseTeleport \/ ParseInvite \/ ParseAuth
  PROVE  TableInv'
<1> USE DEF TableInv
<1>1. PICK S \in SUBSET Servers, out \in [Servers -> SUBSET Replies] :
        SendBuffer(S, out)
  <2>1. ASSUME NEW r \in SUBSET Replies, q2 \in Servers
        PROVE  [msg EXCEPT ![q2] = @ \cup r] \in [Servers -> SUBSET Replies]
    BY <2>1 DEF TypeOK, EntryTypes
  <2>2. CASE Pong \/ ParseTeleport
    <3>1. q2 \in Servers
      BY <2>2 DEF Pong, ParseTeleport, AtCommand, TypeOK, LoopTypes
    <3>2. PICK r \in SUBSET Replies : Reply(r)
      <4>1. /\ {"PONG"} \in SUBSET Replies /\ {"SAYCLIENT"} \in SUBSET Replies
            /\ {"SAYCLIENT", "COMMAND"} \in SUBSET Replies
        BY DEF Replies
      <4>2. CASE Pong
        BY <4>1, <4>2 DEF Pong
      <4>3. CASE ParseTeleport
        BY <4>1, <4>3 DEF ParseTeleport
      <4> QED  BY <2>2, <4>2, <4>3
    <3>3. SendBuffer({q2}, [msg EXCEPT ![q2] = @ \cup r])
      BY <3>2 DEF Reply
    <3> QED  BY <2>1, <3>1, <3>3
  <2>3. CASE ParseInvite
    <3> DEFINE o == [s \in Servers |->
                       IF connected[s] THEN msg[s] \cup {"SAYALL"} ELSE msg[s]]
    <3>1. o \in [Servers -> SUBSET Replies]
      BY DEF TypeOK, EntryTypes, Replies
    <3>2. SendBuffer(ConnectedSet, o) /\ ConnectedSet \in SUBSET Servers
      BY <2>3 DEF ParseInvite, ConnectedSet
    <3> QED  BY <3>1, <3>2
  <2>4. CASE ParseAuth
    <3>1. q2 \in Servers
      BY <2>4 DEF ParseAuth, AtCommand, TypeOK, LoopTypes
    <3>2. SendBuffer({q2}, [msg EXCEPT ![q2] = @ \cup {"TRUSTED"}])
      BY <2>4 DEF ParseAuth
    <3>3. {"TRUSTED"} \in SUBSET Replies
      BY DEF Replies
    <3> QED  BY <2>1, <3>1, <3>2, <3>3
  <2> QED  BY <2>2, <2>3, <2>4
<1>2. /\ msg' \in [Servers -> SUBSET Replies]
      /\ phase' \in [Fds -> Phases]
      /\ eof' \in [Fds -> {"no", "fin", "rst", "dead"}]
  BY <1>1, SendBufferTypes
<1>3. /\ UNCHANGED <<connected, index, socket, encrypted, publickey, cut, tableVars,
                     open, inbox, role, backlog>>
      /\ Consume /\ buf # <<>>
  BY DEF Pong, ParseTeleport, ParseInvite, ParseAuth, Reply, AtCommand
<1>4. ctx' \in [Servers -> Resource] /\ trusted' \in [Servers -> BOOLEAN]
  <2>1. CASE ParseAuth
    BY <2>1 DEF ParseAuth, TypeOK, EntryTypes, Resource
  <2>2. CASE Pong \/ ParseTeleport \/ ParseInvite
    <3>1. UNCHANGED <<ctx, trusted>>
      BY <2>2 DEF Pong, ParseTeleport, ParseInvite, Reply
    <3> QED  BY <3>1 DEF TypeOK, EntryTypes
  <2> QED  BY <2>1, <2>2
<1>5. EntryTypes' /\ TableTypes' /\ SlotOwnership' /\ SlotsHeld'
  BY <1>2, <1>3, <1>4 DEF TypeOK, EntryTypes, TableTypes, SlotOwnership, SlotsHeld,
                          ConnectedSet, tableVars
<1>6. NetTypes'
  BY <1>2, <1>3 DEF TypeOK, NetTypes
<1> QED  BY <1>3, <1>5, <1>6, ConsumeTypes DEF TypeOK

(* The end of a connection, as ServerLost and CloseConnection bring it     *)
(* about: entry s is disconnected and the array is rebuilt without it.     *)
LEMMA DropEntry ==
  ASSUME TableInv, NEW s \in Servers,
         connected' = [connected EXCEPT ![s] = FALSE],
         socket' \in [Servers -> Fds \cup {NoFd}],
         \A t \in Servers : t # s => socket'[t] = socket[t],
         RemoveServerSocket(ConnectedSet \ {s}, socket, [index EXCEPT ![s] = 0])
  PROVE  TableTypes' /\ SlotOwnership' /\ SlotsHeld'
<1>1. PICK C \in SUBSET Servers, sk \in [Servers -> Fds \cup {NoFd}],
           ix \in [Servers -> Slots] :
        C = ConnectedSet \ {s} /\ sk = socket /\ ix = [index EXCEPT ![s] = 0]
  <2>1. 0 \in Slots
    BY Sizes DEF Slots
  <2>2. [index EXCEPT ![s] = 0] \in [Servers -> Slots]
    BY <2>1 DEF TableInv, TypeOK, TableTypes
  <2>3. ConnectedSet \ {s} \in SUBSET Servers
    BY DEF ConnectedSet
  <2>4. socket \in [Servers -> Fds \cup {NoFd}]
    BY DEF TableInv, TypeOK, EntryTypes
  <2> QED  BY <2>2, <2>3, <2>4
<1>2. RemoveServerSocket(C, sk, ix)
  BY <1>1 DEF RemoveServerSocket
<1>3. \A t \in C : sk[t] \in Fds
  BY <1>1, ConnectedSocket
<1>4. \A t \in Servers \ C : ix[t] = 0
  BY <1>1 DEF TableInv, SlotOwnership, ConnectedSet, TypeOK, TableTypes
<1>5. \A t \in Servers : connected'[t] <=> t \in C
  BY <1>1 DEF TableInv, TypeOK, EntryTypes, ConnectedSet
<1>6. \A t \in C : socket'[t] = sk[t]
  BY <1>1
<1>7. TypeOK /\ sfd[0] = Listener
  BY DEF TableInv, SlotOwnership
<1> QED  BY <1>2, <1>3, <1>4, <1>5, <1>6, <1>7, RebuildStep

(* The rebuild after a visitor was dealt with.                             *)
LEMMA DropVisitorStep ==
  ASSUME TableInv, DropVisitor
  PROVE  EntryTypes' /\ TableTypes' /\ LoopTypes' /\ SlotOwnership' /\ SlotsHeld'
<1>1. PICK C \in SUBSET Servers, sk \in [Servers -> Fds \cup {NoFd}],
           ix \in [Servers -> Slots] :
        C = ConnectedSet /\ sk = socket /\ ix = index
  <2>1. ConnectedSet \in SUBSET Servers
    BY DEF ConnectedSet
  <2> QED  BY <2>1 DEF TableInv, TypeOK, EntryTypes, TableTypes
<1>2. RemoveServerSocket(C, sk, ix)
  BY <1>1 DEF DropVisitor, RemoveServerSocket
<1>3. \A t \in C : sk[t] \in Fds
  BY <1>1, ConnectedSocket
<1>4. \A t \in Servers \ C : ix[t] = 0
  BY <1>1 DEF TableInv, SlotOwnership, ConnectedSet
<1>5. UNCHANGED <<connected, socket, trusted, encrypted, publickey, ctx, cut, msg>>
  BY DEF DropVisitor
<1>6. \A t \in Servers : connected'[t] <=> t \in C
  BY <1>1, <1>5 DEF ConnectedSet
<1>7. \A t \in C : socket'[t] = sk[t]
  BY <1>1, <1>5
<1>8. TypeOK /\ sfd[0] = Listener
  BY DEF TableInv, SlotOwnership
<1>9. TableTypes' /\ SlotOwnership' /\ SlotsHeld'
  BY <1>2, <1>3, <1>4, <1>6, <1>7, <1>8, RebuildStep
<1>10. EntryTypes'
  BY <1>5, <1>8 DEF TypeOK, EntryTypes
<1>11. LoopTypes'
  BY <1>8, NextSlotTypes DEF DropVisitor
<1> QED  BY <1>9, <1>10, <1>11

(* Refusing a visitor and serving a peer keep the invariant.               *)
LEMMA VisitorStep ==
  ASSUME TableInv, RejectVisitor \/ P_GetServerList \/ PeerRequestUnknown
  PROVE  TableInv'
<1>1. CASE P_GetServerList /\ eof[sfd[i]] = "rst"
  <2>1. \E kind \in FaultKinds : Fault(kind)
    BY <1>1 DEF P_GetServerList, FaultKinds
  <2> QED  BY <2>1, FaultStep
<1>2. CASE ~(P_GetServerList /\ eof[sfd[i]] = "rst")
  <2>1. AtClient /\ DropVisitor /\ TypeOK
    BY <1>2 DEF RejectVisitor, P_GetServerList, PeerRequestUnknown, TableInv
  <2>2. PICK f \in Fds : f = sfd[i]
    BY <2>1, ClientSlot
  <2>3. CASE PeerRequestUnknown
    <3>1. <<>> \in Seq(CommandSet)
      OBVIOUS
    <3>2. NetTypes'
      BY <2>1, <2>3, <3>1 DEF PeerRequestUnknown, TypeOK, NetTypes
    <3> QED  BY <2>1, <3>2, DropVisitorStep DEF TableInv, TypeOK
  <2>4. CASE ~PeerRequestUnknown
    <3>1. Close(f)
      BY <1>2, <2>2, <2>4 DEF RejectVisitor, P_GetServerList, Close
    <3>2. NetTypes'
      BY <2>1, <3>1, CloseTypes
    <3> QED  BY <2>1, <3>2, DropVisitorStep DEF TableInv, TypeOK
  <2> QED  BY <2>3, <2>4
<1> QED  BY <1>1, <1>2

(* recv() = 0 on the slot of a known server keeps the invariant.           *)
LEMMA ServerLostStep ==
  ASSUME TableInv, ServerLost
  PROVE  TableInv'
<1>1. AtClient /\ IsListed(i) /\ TypeOK /\ NextSlot
  BY DEF ServerLost, TableInv
<1>2. PICK s \in Servers : s = GetServer(i)
  <2>1. PICK k \in Nat : k = i
    BY <1>1 DEF TypeOK, LoopTypes
  <2> QED  BY <1>1, <2>1, GetServerFinds
<1>3. /\ connected' = [connected EXCEPT ![s] = FALSE]
      /\ socket' = [socket EXCEPT ![s] = NoFd]
      /\ RemoveServerSocket(ConnectedSet \ {s}, socket, [index EXCEPT ![s] = 0])
  BY <1>2 DEF ServerLost, RemoveServerSocket
<1>4. /\ socket' \in [Servers -> Fds \cup {NoFd}]
      /\ \A t \in Servers : t # s => socket'[t] = socket[t]
  BY <1>1, <1>3 DEF TypeOK, EntryTypes
<1>5. TableTypes' /\ SlotOwnership' /\ SlotsHeld'
  BY <1>3, <1>4, DropEntry
<1>6. EntryTypes'
  <2>1. UNCHANGED <<trusted, encrypted, publickey, ctx, cut, msg>>
    BY DEF ServerLost
  <2> QED  BY <1>1, <1>3, <1>4, <2>1 DEF TypeOK, EntryTypes
<1>7. NetTypes'
  <2>1. PICK f : f = sfd[i]
    OBVIOUS
  <2>2. Close(f)
    BY <2>1 DEF ServerLost, Close
  <2> QED  BY <1>1, <2>2, CloseTypes
<1> QED  BY <1>1, <1>5, <1>6, <1>7, NextSlotTypes DEF TableInv, TypeOK

(* What is read on after an answer is a list of commands too.              *)
LEMMA SkippedType ==
  ASSUME TypeOK, buf # <<>>, NEW x \in Skipped
  PROVE  x \in Seq(CommandSet)
<1>1. buf \in Seq(CommandSet) /\ Len(buf) \in Nat
  BY DEF TypeOK, LoopTypes
<1>2. CASE x = Tail(buf)
  BY <1>1, <1>2
<1>3. CASE x # Tail(buf)
  <2>1. PICK n \in 2..(Len(buf) + 1) : x = Garbled(SubSeq(buf, n, Len(buf)))
    BY <1>3 DEF Skipped
  <2>2. SubSeq(buf, n, Len(buf)) \in Seq(CommandSet)
    <3>1. \A k \in n..Len(buf) : buf[k] \in CommandSet
      BY <1>1
    <3>2. n \in Int /\ Len(buf) \in Int /\ n >= 2
      BY <1>1
    <3> QED  BY <1>1, <3>1, <3>2
  <2> QED  BY <2>1, <2>2, GarbledType
<1> QED  BY <1>2, <1>3

(* CloseConnection, from CMD_QUIT or a failed CMD_AUTH, keeps it.          *)
LEMMA CloseConnectionStep ==
  ASSUME TableInv, Quit \/ ParseAuthFails
  PROVE  TableInv'
<1>1. CloseConnection /\ buf # <<>> /\ q2 \in Servers /\ TypeOK
  BY DEF Quit, ParseAuthFails, AtCommand, TableInv, TypeOK, LoopTypes
<1>2. PICK s \in Servers : s = q2
  BY <1>1
<1>3. /\ connected' = [connected EXCEPT ![s] = FALSE]
      /\ RemoveServerSocket(ConnectedSet \ {s}, socket, [index EXCEPT ![s] = 0])
      /\ UNCHANGED <<socket, trusted, encrypted, cut>>
  BY <1>1, <1>2 DEF CloseConnection, RemoveServerSocket
<1>4. socket' \in [Servers -> Fds \cup {NoFd}]
  BY <1>1, <1>3 DEF TypeOK, EntryTypes
<1>5. TableTypes' /\ SlotOwnership' /\ SlotsHeld'
  BY <1>3, <1>4, DropEntry
<1>6. publickey' \in [Servers -> Resource] /\ ctx' \in [Servers -> Resource]
  BY <1>1 DEF CloseConnection, Free, Resource, TypeOK, EntryTypes
<1>7. msg' \in [Servers -> SUBSET Replies]
  <2>1. CASE Quit
    BY <1>1, <2>1 DEF Quit, TypeOK, EntryTypes
  <2>2. CASE ParseAuthFails
    <3>1. {"TRUSTED"} \subseteq Replies /\ {"ERROR", "TRUSTED"} \subseteq Replies
      BY DEF Replies
    <3>2. msg[q2] \cup {"ERROR", "TRUSTED"} \in SUBSET Replies
      BY <1>1, <3>1 DEF TypeOK, EntryTypes
    <3> QED  BY <1>1, <2>2, <3>1, <3>2 DEF ParseAuthFails, TypeOK, EntryTypes
  <2> QED  BY <2>1, <2>2
<1>8. EntryTypes'
  BY <1>1, <1>3, <1>4, <1>6, <1>7 DEF TypeOK, EntryTypes
<1>9. NetTypes'
  <2>1. PICK f : f = socket[q2]
    OBVIOUS
  <2>2. Close(f)
    BY <1>1, <2>1 DEF CloseConnection, Close
  <2> QED  BY <1>1, <2>2, CloseTypes
<1>10. LoopTypes'
  <2>1. CASE Quit
    BY <1>1, <2>1, ConsumeTypes DEF Quit
  <2>2. CASE ParseAuthFails
    <3>1. buf' \in Skipped /\ UNCHANGED <<pc, i, q2, fault>>
      BY <2>2 DEF ParseAuthFails
    <3>2. buf' \in Seq(CommandSet)
      BY <1>1, <3>1, SkippedType
    <3> QED  BY <1>1, <3>1, <3>2 DEF TypeOK, LoopTypes
  <2> QED  BY <2>1, <2>2
<1> QED  BY <1>1, <1>5, <1>8, <1>9, <1>10 DEF TableInv, TypeOK

(* A hello on slot i: no entry owns the slot yet, so giving it to entry s  *)
(* keeps the slots of the connected entries apart.                         *)
LEMMA NewServerStep ==
  ASSUME TableInv, NewServer
  PROVE  TableInv'
<1>1. AtClient /\ ~IsListed(i) /\ Hello(sfd[i]) /\ TypeOK
  BY DEF NewServer, TableInv
<1>2. i \in 1..(socket_count - 1) /\ i \in Slots
  BY <1>1, ClientSlot
<1>3. PICK f \in Fds : f = sfd[i]
  BY <1>1, ClientSlot
<1>4. PICK s \in Servers : s = role[f]
  BY <1>1, <1>3 DEF Hello
<1>5. PICK e \in BOOLEAN : e = Head(inbox[f]).flag
  <2>1. inbox[f] # <<>> /\ inbox[f] \in Seq(CommandSet)
    BY <1>1, <1>3 DEF Hello, Received, TypeOK, NetTypes
  <2>2. Head(inbox[f]) \in CommandSet
    BY <2>1
  <2> QED  BY <2>2 DEF CommandSet
<1>6. /\ connected' = [connected EXCEPT ![s] = TRUE]
      /\ socket'    = [socket EXCEPT ![s] = f]
      /\ encrypted' = [encrypted EXCEPT ![s] = e]
      /\ cut' \in [Servers -> BOOLEAN]
      /\ UNCHANGED <<trusted, ctx>>
      /\ index' = [index EXCEPT ![s] = i]
      /\ publickey' \in [Servers -> Resource]
      /\ msg' = [msg EXCEPT ![s] = {}]
      /\ UNCHANGED <<tableVars, i, fault, open, role, backlog>>
  <2>1. \A c \in ChallengeCuts : c \in BOOLEAN
    BY ConstantsAssumption
  <2>2. publickey' \in [Servers -> Resource]
    <3>1. PICK key \in KeyRead : publickey' = [publickey EXCEPT ![s] = key]
      BY <1>3, <1>4 DEF NewServer, LoadClientPublicKey
    <3> QED  BY <1>1, <3>1 DEF KeyRead, Resource, TypeOK, EntryTypes
  <2> QED  BY <1>1, <1>3, <1>4, <1>5, <2>1, <2>2 DEF NewServer, BindServer, TypeOK, EntryTypes
<1>7. EntryTypes'
  BY <1>1, <1>6 DEF TypeOK, EntryTypes, Resource
<1>8. TableTypes'
  BY <1>1, <1>2, <1>6 DEF TypeOK, TableTypes, tableVars
<1>9. SlotsHeld'
  BY <1>6 DEF TableInv, SlotsHeld, tableVars
<1>10. SlotOwnership'
  <2>1. sfd' = sfd /\ socket_count' = socket_count
    BY <1>6 DEF tableVars
  <2>2. connected'[s] /\ index'[s] = i /\ socket'[s] = f
    BY <1>1, <1>6 DEF TypeOK, EntryTypes, TableTypes
  <2>3. \A t \in Servers : t # s => /\ connected'[t] = connected[t]
                                    /\ index'[t] = index[t] /\ socket'[t] = socket[t]
    BY <1>1, <1>6 DEF TypeOK, EntryTypes, TableTypes
  <2>4. \A t \in Servers : index[t] # i
    BY <1>1 DEF IsListed
  <2>5. sfd[0] = Listener
    BY DEF TableInv, SlotOwnership
  <2>6. ASSUME NEW t \in Servers
        PROVE  IF connected'[t]
               THEN index'[t] \in 1..(socket_count' - 1) /\ sfd'[index'[t]] = socket'[t]
               ELSE index'[t] = 0
    <3>1. CASE t = s
      BY <1>2, <1>3, <2>1, <2>2, <3>1
    <3>2. CASE t # s
      BY <2>1, <2>3, <3>2 DEF TableInv, SlotOwnership
    <3> QED  BY <3>1, <3>2
  <2>7. ASSUME NEW t \in Servers, NEW u \in Servers, connected'[t], connected'[u], t # u
        PROVE  index'[t] # index'[u]
    <3>1. CASE t = s \/ u = s
      BY <2>2, <2>3, <2>4, <2>7, <3>1
    <3>2. CASE t # s /\ u # s
      BY <2>3, <2>7, <3>2 DEF TableInv, SlotOwnership, ConnectedSet
    <3> QED  BY <3>1, <3>2
  <2> QED  BY <2>1, <2>5, <2>6, <2>7 DEF SlotOwnership, ConnectedSet
<1>11. NetTypes'
  <2>1. eof' \in [Fds -> {"no", "fin", "rst", "dead"}]
    <3>1. eof' \in AfterSend({f})
      BY <1>3 DEF NewServer
    <3> QED  BY <1>1, <3>1 DEF AfterSend, TypeOK, NetTypes
  <2>2. phase' \in [Fds -> Phases]
    <3>1. phase[f] \in Phases
      BY <1>1 DEF TypeOK, NetTypes
    <3>2. phase' = [phase EXCEPT ![f] =
                      IF eof[f] = "no"
                      THEN Hear(phase[f], msg[s] \cup {"HELLOACK"}, e /\ trusted[s])
                      ELSE phase[f]]
      BY <1>3, <1>4, <1>5 DEF NewServer
    <3>3. Hear(phase[f], msg[s] \cup {"HELLOACK"}, e /\ trusted[s]) \in Phases
      BY <3>1, HearPhase
    <3> QED  BY <1>1, <3>1, <3>2, <3>3 DEF TypeOK, NetTypes
  <2>3. inbox' = [inbox EXCEPT ![f] = <<>>] /\ <<>> \in Seq(CommandSet)
    BY <1>3 DEF NewServer
  <2> QED  BY <1>1, <1>6, <2>1, <2>2, <2>3 DEF TypeOK, NetTypes
<1>12. LoopTypes'
  <2>1. q2' = s /\ pc' = "parse"
    BY <1>3, <1>4 DEF NewServer
  <2>2. buf' = Garbled(<<>>) \/ buf' = Tail(inbox[f])
    BY <1>3 DEF NewServer
  <2>3. Tail(inbox[f]) \in Seq(CommandSet) /\ <<>> \in Seq(CommandSet)
    BY <1>1, <1>3 DEF Hello, Received, TypeOK, NetTypes
  <2>4. buf' \in Seq(CommandSet)
    BY <2>2, <2>3, GarbledType
  <2> QED  BY <1>1, <1>6, <2>1, <2>4 DEF TypeOK, LoopTypes
<1> QED  BY <1>7, <1>8, <1>9, <1>10, <1>11, <1>12 DEF TableInv, TypeOK

(* A hello whose challenge cannot be signed: the entry stays connected and *)
(* the rebuild gives its closed descriptor a slot.                         *)
LEMMA NewServerUnsignedStep ==
  ASSUME TableInv, NewServerUnsigned
  PROVE  TableInv'
<1>1. AtClient /\ ~IsListed(i) /\ Hello(sfd[i]) /\ NextSlot /\ TypeOK
  BY DEF NewServerUnsigned, TableInv
<1>2. i \in Slots
  BY <1>1, ClientSlot
<1>3. PICK f \in Fds : f = sfd[i]
  BY <1>1, ClientSlot
<1>4. PICK s \in Servers : s = role[f]
  BY <1>1, <1>3 DEF Hello
<1>5. PICK e \in BOOLEAN : e = Head(inbox[f]).flag
  <2>1. inbox[f] # <<>> /\ inbox[f] \in Seq(CommandSet)
    BY <1>1, <1>3 DEF Hello, Received, TypeOK, NetTypes
  <2>2. Head(inbox[f]) \in CommandSet
    BY <2>1
  <2> QED  BY <2>2 DEF CommandSet
<1>6. /\ connected' = [connected EXCEPT ![s] = TRUE]
      /\ socket'    = [socket EXCEPT ![s] = f]
      /\ encrypted' = [encrypted EXCEPT ![s] = e]
      /\ cut' \in [Servers -> BOOLEAN]
      /\ UNCHANGED <<trusted, ctx>>
      /\ publickey' \in [Servers -> Resource]
      /\ msg' = [msg EXCEPT ![s] = {}]
      /\ Close(f)
  <2>1. \A c \in ChallengeCuts : c \in BOOLEAN
    BY ConstantsAssumption
  <2>2. publickey' \in [Servers -> Resource]
    <3>1. PICK key \in KeyRead : publickey' = [publickey EXCEPT ![s] = Free(key)]
      BY <1>3, <1>4 DEF NewServerUnsigned
    <3> QED  BY <1>1, <3>1 DEF KeyRead, Free, Resource, TypeOK, EntryTypes
  <2> QED  BY <1>1, <1>3, <1>4, <1>5, <2>1, <2>2
           DEF NewServerUnsigned, BindServer, Close, TypeOK, EntryTypes
<1>7. EntryTypes'
  BY <1>1, <1>6 DEF TypeOK, EntryTypes, Resource
<1>8. PICK C \in SUBSET Servers, sk \in [Servers -> Fds \cup {NoFd}],
           ix \in [Servers -> Slots] :
        /\ C = ConnectedSet \cup {s} /\ sk = [socket EXCEPT ![s] = f]
        /\ ix = [index EXCEPT ![s] = i]
  <2>1. ConnectedSet \cup {s} \in SUBSET Servers
    BY DEF ConnectedSet
  <2>2. [socket EXCEPT ![s] = f] \in [Servers -> Fds \cup {NoFd}]
    BY <1>1 DEF TypeOK, EntryTypes
  <2>3. [index EXCEPT ![s] = i] \in [Servers -> Slots]
    BY <1>1, <1>2 DEF TypeOK, TableTypes
  <2> QED  BY <2>1, <2>2, <2>3
<1>9. RemoveServerSocket(C, sk, ix)
  BY <1>3, <1>4, <1>8 DEF NewServerUnsigned, RemoveServerSocket
<1>10. \A t \in C : sk[t] \in Fds
  <2>1. \A t \in ConnectedSet : socket[t] \in Fds
    BY ConnectedSocket
  <2> QED  BY <1>1, <1>8, <2>1 DEF TypeOK, EntryTypes
<1>11. \A t \in Servers \ C : ix[t] = 0
  BY <1>1, <1>8 DEF TableInv, SlotOwnership, ConnectedSet, TypeOK, TableTypes
<1>12. \A t \in Servers : connected'[t] <=> t \in C
  BY <1>1, <1>6, <1>8 DEF TypeOK, EntryTypes, ConnectedSet
<1>13. \A t \in C : socket'[t] = sk[t]
  BY <1>6, <1>8
<1>14. sfd[0] = Listener
  BY DEF TableInv, SlotOwnership
<1>15. TableTypes' /\ SlotOwnership' /\ SlotsHeld'
  BY <1>1, <1>9, <1>10, <1>11, <1>12, <1>13, <1>14, RebuildStep
<1>16. NetTypes'
  BY <1>1, <1>6, CloseTypes
<1> QED  BY <1>1, <1>7, <1>15, <1>16, NextSlotTypes DEF TableInv, TypeOK

(* LoadServers and the first lines of RunServer establish the invariant.   *)
LEMMA TableInit == Init => TableInv
<1> SUFFICES ASSUME Init PROVE TableInv
  OBVIOUS
<1>1. 0 \in Slots /\ 1 \in 1..MaxSlots /\ 1..(socket_count - 1) = {}
  BY Sizes DEF Slots, Init
<1>2. EntryTypes /\ TableTypes
  <2>1. revents \in [Slots -> BOOLEAN]
    BY ConstantsAssumption DEF Init
  <2> QED  BY <1>1, <2>1 DEF Init, EntryTypes, TableTypes, Resource, Replies
<1>3. LoopTypes /\ NetTypes
  BY DEF Init, LoopTypes, NetTypes, NULL, FaultKinds, Roles, Phases
<1>4. SlotOwnership /\ SlotsHeld
  BY <1>1 DEF Init, SlotOwnership, SlotsHeld, ConnectedSet
<1> QED  BY <1>2, <1>3, <1>4 DEF TableInv, TypeOK

(* Every step of the clients and of the server keeps the invariant.        *)
LEMMA TableStep == TableInv /\ SpareSlots /\ [Next]_vars => TableInv'
<1> SUFFICES ASSUME TableInv, SpareSlots, [Next]_vars PROVE TableInv'
  OBVIOUS
<1>1. CASE Client
  BY <1>1, ClientStep
<1>2. CASE RunServer
  BY <1>2, ScanStep, QuietStep, ReplyStep, VisitorStep, ServerLostStep,
     CloseConnectionStep, NewServerStep, NewServerUnsignedStep DEF RunServer
<1>3. CASE UNCHANGED vars
  BY <1>3, TableFrame, NetFrame, LoopFrame DEF vars, TableInv, TypeOK
<1> QED  BY <1>1, <1>2, <1>3 DEF Next

(* The steps that neither enter a descriptor nor rebuild the array leave   *)
(* it and the open descriptors alone.                                      *)
LEMMA TableKept ==
  ASSUME RunServer,
         ~(\/ Accept \/ RejectVisitor \/ P_GetServerList \/ PeerRequestUnknown
           \/ ServerLost \/ NewServerUnsigned \/ ParseAuthFails \/ Quit)
  PROVE  UNCHANGED <<sfd, socket_count, open>>
<1>1. CASE VisitorLost \/ NewServerFaults \/ ParseFaults \/ ArrayOverrun
  <2>1. UNCHANGED <<tableVars, netVars>>
    BY <1>1 DEF VisitorLost, NewServerFaults, ParseFaults, ArrayOverrun, Fault
  <2> QED  BY <2>1 DEF tableVars, netVars
<1>2. CASE \/ PollReturns \/ ScanEnds \/ SkipSlot \/ AcceptFails \/ ServerError
           \/ ReceiveCommands \/ NewServer \/ ParseEnds
  BY <1>2 DEF PollReturns, ScanEnds, SkipSlot, AcceptFails, ServerError, ReceiveCommands,
              NewServer, ParseEnds, tableVars, netVars
<1>3. CASE \/ Pong \/ ParseTeleport \/ ParseInvite \/ ParseAuth
           \/ ParseData \/ ParseStray \/ ParseGarbled
  BY <1>3 DEF Pong, ParseTeleport, ParseInvite, ParseAuth, Reply, ParseData, ParseStray,
              ParseGarbled, tableVars, netVars
<1> QED  BY <1>1, <1>2, <1>3 DEF RunServer

(* A rebuild leaves no spare slot.                                         *)
LEMMA RebuildSpares ==
  ASSUME NEW C \in SUBSET Servers, NEW sock, NEW idx, RemoveServerSocket(C, sock, idx)
  PROVE  SpareSlots'
<1>1. /\ IsFiniteSet(C) /\ NumServers \in Nat
      /\ Cardinality(C) \in Nat /\ Cardinality(C) <= NumServers
  BY ServersFinite, FS_Subset, FS_CardinalityType
<1>2. socket_count' = Cardinality(C) + 1
  BY DEF RemoveServerSocket, SlotsUsed
<1>3. (NumServers + 1)..(socket_count' - 1) = {}
  BY <1>1, <1>2
<1> QED  BY <1>3 DEF SpareSlots, Spare

(* Every step keeps what is known of the spare slots.                      *)
LEMMA SpareStep == TableInv /\ SpareSlots /\ [Next]_vars => SpareSlots'
<1> SUFFICES ASSUME TableInv, SpareSlots, [Next]_vars PROVE SpareSlots'
  OBVIOUS
<1>1. ASSUME UNCHANGED <<sfd, socket_count, open>> PROVE SpareSlots'
  BY <1>1 DEF SpareSlots, Spare
<1>2. CASE Client \/ UNCHANGED vars
  <2>1. UNCHANGED <<sfd, socket_count, open>>
    BY <1>2 DEF Client, ClientConnect, ClientHello, PeerAsks, ClientAuth, ClientCommand,
                ClientQuit, ClientSend, ClientClose, vars, tableVars, netVars
  <2> QED  BY <1>1, <2>1
<1>3. CASE Accept
  <2>1. PICK f \in Fds :
          /\ ~open[f] /\ open' = [open EXCEPT ![f] = TRUE] /\ AddServerSocket(f)
    BY <1>3 DEF Accept
  <2>2. socket_count < MaxSlots
    BY <1>3, RoomForOne
  <2>3. socket_count \in Nat /\ socket_count >= 1 /\ socket_count \in Slots
    BY <2>2, Sizes DEF TableInv, TypeOK, TableTypes, Slots
  <2>4. /\ sfd \in [Slots -> Fds \cup {Listener, NoFd}] /\ open \in [Fds -> BOOLEAN]
        /\ sfd' = [sfd EXCEPT ![socket_count] = f] /\ socket_count' = socket_count + 1
    BY <2>1 DEF AddServerSocket, TableInv, TypeOK, TableTypes, NetTypes
  <2>5. ASSUME NEW j \in Spare', j # socket_count
        PROVE  j \in Spare /\ sfd'[j] = sfd[j] /\ sfd[j] # f
    <3>1. j \in Spare /\ j \in 1..(socket_count - 1)
      BY <2>3, <2>4, <2>5, Sizes DEF Spare
    <3>2. j \in Slots
      BY <2>2, <2>3, <3>1, Sizes DEF Slots
    <3>3. sfd[j] # f
      BY <2>1, <3>1 DEF SpareSlots
    <3> QED  BY <2>4, <2>5, <3>1, <3>2, <3>3
  <2>6. sfd'[socket_count] = f /\ open'[f]
    BY <2>1, <2>3, <2>4
  <2>7. \A j \in Spare' : sfd'[j] \in Fds /\ open'[sfd'[j]]
    BY <2>1, <2>4, <2>5, <2>6 DEF SpareSlots
  <2>8. ASSUME NEW j \in Spare', NEW k \in Spare', j # k PROVE sfd'[j] # sfd'[k]
    <3>1. CASE j = socket_count
      BY <2>5, <2>6, <2>8, <3>1
    <3>2. CASE k = socket_count
      BY <2>5, <2>6, <2>8, <3>2
    <3>3. CASE j # socket_count /\ k # socket_count
      BY <2>5, <2>8, <3>3 DEF SpareSlots
    <3> QED  BY <3>1, <3>2, <3>3
  <2> QED  BY <2>7, <2>8 DEF SpareSlots
<1>4. CASE ~Accept /\ RunServer
  <2>1. CASE UNCHANGED <<sfd, socket_count, open>>
    BY <1>1, <2>1
  <2>2. CASE ~UNCHANGED <<sfd, socket_count, open>>
    <3>1. \/ DropVisitor \/ ServerLost \/ NewServerUnsigned \/ CloseConnection
      <4>1. \/ RejectVisitor \/ P_GetServerList \/ PeerRequestUnknown \/ ServerLost
            \/ NewServerUnsigned \/ ParseAuthFails \/ Quit
        BY <1>4, <2>2, TableKept
      <4> QED  BY <2>2, <4>1 DEF RejectVisitor, P_GetServerList, PeerRequestUnknown,
                 ParseAuthFails, Quit, Fault, tableVars, netVars
    <3>2. ConnectedSet \subseteq Servers
      BY DEF ConnectedSet
    <3>3. CASE DropVisitor
      BY <3>2, <3>3, RebuildSpares DEF DropVisitor
    <3>4. CASE ServerLost
      <4>1. ConnectedSet \ {GetServer(i)} \subseteq Servers
        BY <3>2
      <4> QED  BY <3>4, <4>1, RebuildSpares DEF ServerLost
    <3>5. CASE CloseConnection
      <4>1. ConnectedSet \ {q2} \subseteq Servers
        BY <3>2
      <4> QED  BY <3>5, <4>1, RebuildSpares DEF CloseConnection
    <3>6. CASE NewServerUnsigned
      <4>1. ConnectedSet \cup {role[sfd[i]]} \subseteq Servers
        BY <3>2, <3>6 DEF NewServerUnsigned, Hello
      <4> QED  BY <3>6, <4>1, RebuildSpares DEF NewServerUnsigned
    <3> QED  BY <3>1, <3>3, <3>4, <3>5, <3>6
  <2> QED  BY <2>1, <2>2
<1> QED  BY <1>2, <1>3, <1>4 DEF Next

(* Both hold of every behaviour.                                           *)
LEMMA TableHolds == Spec => [](TableInv /\ SpareSlots)
<1>1. Init => SpareSlots
  <2> SUFFICES ASSUME Init PROVE SpareSlots
    OBVIOUS
  <2>1. Spare = {}
    BY Sizes DEF Init, Spare
  <2> QED  BY <2>1 DEF SpareSlots
<1> QED  BY <1>1, TableInit, TableStep, SpareStep, PTL DEF Spec

(* Every variable keeps its type, and the index fields and the poll array  *)
(* agree, through every order of connects, hellos, refusals, rebuilds and  *)
(* disconnects, signed or not.                                             *)
THEOREM SlotsAreOwned == Spec => [](TypeOK /\ SlotOwnership)
<1>1. TableInv => TypeOK /\ SlotOwnership
  BY DEF TableInv
<1> QED  BY <1>1, TableHolds, PTL

(* Every variable of the connection manager keeps its type, though nothing *)
(* in the code limits socket_count: what lies behind the allocated array   *)
(* is written up to one slot for each registered server and for each       *)
(* descriptor accept() returns, and no further.                            *)
THEOREM TypesAreKept == Spec => []TypeOK
BY SlotsAreOwned, PTL
-----------------------------------------------------------------------------
(* What an entry keeps from session to session: its send buffer and its    *)
(* key.                                                                    *)

(* The fields these invariants speak of.                                   *)
sessionVars == <<connected, publickey, msg>>

(* The clients, the scan, the visitors that are not attached and the       *)
(* commands that do not answer leave those fields alone.                   *)
LEMMA SessionFrame ==
  ASSUME \/ Client \/ UNCHANGED vars
         \/ PollReturns \/ ScanEnds \/ SkipSlot \/ Accept \/ AcceptFails
         \/ VisitorLost \/ ServerError \/ RejectVisitor
         \/ P_GetServerList \/ PeerRequestUnknown \/ ReceiveCommands
         \/ NewServerFaults \/ ParseEnds \/ ParseData \/ ParseStray \/ ParseGarbled
         \/ ParseFaults \/ ArrayOverrun
  PROVE  UNCHANGED sessionVars
<1>1. UNCHANGED entryVars => UNCHANGED sessionVars
  BY DEF entryVars, sessionVars
<1>2. CASE Client
  <2>1. UNCHANGED entryVars
    BY <1>2 DEF Client, ClientConnect, ClientHello, PeerAsks, ClientAuth, ClientCommand,
                ClientQuit, ClientSend, ClientClose
  <2> QED  BY <1>1, <2>1
<1>3. CASE RejectVisitor \/ P_GetServerList \/ PeerRequestUnknown
  BY <1>3 DEF RejectVisitor, P_GetServerList, PeerRequestUnknown, DropVisitor, Fault,
              entryVars, sessionVars
<1>4. CASE \/ PollReturns \/ ScanEnds \/ SkipSlot \/ Accept \/ AcceptFails
           \/ ServerError \/ ReceiveCommands \/ ParseEnds \/ ParseData \/ ParseStray
           \/ ParseGarbled \/ UNCHANGED vars
  <2>1. UNCHANGED entryVars
    BY <1>4 DEF PollReturns, ScanEnds, SkipSlot, Accept, AcceptFails, ServerError,
                ReceiveCommands, ParseEnds, ParseData, ParseStray, ParseGarbled, vars
  <2> QED  BY <1>1, <2>1
<1>5. CASE VisitorLost \/ NewServerFaults \/ ParseFaults \/ ArrayOverrun
  <2>1. UNCHANGED entryVars
    BY <1>5 DEF VisitorLost, NewServerFaults, ParseFaults, ArrayOverrun, Fault
  <2> QED  BY <1>1, <2>1
<1> QED  BY <1>2, <1>3, <1>4, <1>5

(* Every step leaves the buffers of the connected entries sent.            *)
LEMMA FlushedStep ==
  ASSUME TableInv, Flushed, [Next]_vars
  PROVE  Flushed'
<1> USE DEF Flushed, ConnectedSet
<1>0. TypeOK
  BY DEF TableInv
<1>1. ASSUME UNCHANGED sessionVars PROVE Flushed'
  BY <1>1 DEF sessionVars
<1>2. ASSUME NEW S \in SUBSET Servers, NEW out, SendBuffer(S, out),
             \A s \in Servers \ S : out[s] = msg[s]
      PROVE  \A s \in Servers : connected[s] => msg'[s] = {}
  BY <1>2 DEF SendBuffer
<1>3. CASE Pong \/ ParseTeleport
  <2>1. PICK replies : Reply(replies)
    BY <1>3 DEF Pong, ParseTeleport
  <2>2. q2 \in Servers
    BY <1>0, <1>3 DEF Pong, ParseTeleport, AtCommand, TypeOK, LoopTypes
  <2>3. \A s \in Servers : connected[s] => msg'[s] = {}
    BY <1>0, <1>2, <2>1, <2>2 DEF Reply, TypeOK, EntryTypes
  <2> QED  BY <2>1, <2>3 DEF Reply
<1>4. CASE ParseInvite
  <2>1. \A s \in Servers : connected[s] => msg'[s] = {}
    BY <1>2, <1>4 DEF ParseInvite
  <2> QED  BY <1>4, <2>1 DEF ParseInvite
<1>5. CASE ParseAuth
  <2>1. q2 \in Servers
    BY <1>0, <1>5 DEF ParseAuth, AtCommand, TypeOK, LoopTypes
  <2>2. \A s \in Servers : connected[s] => msg'[s] = {}
    BY <1>0, <1>2, <1>5, <2>1 DEF ParseAuth, TypeOK, EntryTypes
  <2> QED
    BY <1>5, <2>2 DEF ParseAuth
<1>6. CASE Quit \/ ParseAuthFails
  <2>1. q2 \in Servers
    BY <1>0, <1>6 DEF Quit, ParseAuthFails, AtCommand, TypeOK, LoopTypes
  <2>2. /\ connected' = [connected EXCEPT ![q2] = FALSE]
        /\ \A s \in Servers \ {q2} : msg'[s] = msg[s]
    BY <1>0, <1>6, <2>1 DEF Quit, ParseAuthFails, CloseConnection, TypeOK, EntryTypes
  <2> QED
    BY <1>0, <2>1, <2>2 DEF TypeOK, EntryTypes
<1>7. CASE ServerLost
  BY <1>0, <1>7 DEF ServerLost, TypeOK, EntryTypes
<1>8. CASE NewServer \/ NewServerUnsigned
  <2>1. PICK s \in Servers :
          connected' = [connected EXCEPT ![s] = TRUE] /\ msg' = [msg EXCEPT ![s] = {}]
    BY <1>8 DEF NewServer, NewServerUnsigned, BindServer, Hello
  <2> QED  BY <1>0, <2>1 DEF TypeOK, EntryTypes
<1> QED
  BY <1>1, <1>3, <1>4, <1>5, <1>6, <1>7, <1>8, SessionFrame DEF Next, RunServer

(* Whenever an entry is connected its buffer has been sent, whatever was   *)
(* left in it before the hello.                                            *)
THEOREM RepliesAreSent == Spec => []Flushed
<1>1. Init => Flushed
  BY DEF Init, Flushed, ConnectedSet
<1> QED
  BY <1>1, TableHolds, FlushedStep, PTL DEF Spec
-----------------------------------------------------------------------------
(* Every step leaves no connected entry with a freed key, if the private   *)
(* key of the server is there: the hello that connects an entry loads its  *)
(* key, and what frees it disconnects the entry.                           *)
LEMMA KeyStep ==
  ASSUME TableInv, KeyNotFreed, [Next]_vars, SignOutcomes = {TRUE}
  PROVE  KeyNotFreed'
<1> USE DEF KeyNotFreed, ConnectedSet
<1>0. TypeOK
  BY DEF TableInv
<1>1. ASSUME UNCHANGED <<connected, publickey>> PROVE KeyNotFreed'
  BY <1>1
<1>2. CASE Pong \/ ParseTeleport \/ ParseInvite \/ ParseAuth
  BY <1>1, <1>2 DEF Pong, ParseTeleport, ParseInvite, ParseAuth, Reply
<1>3. CASE Quit \/ ParseAuthFails
  <2>1. q2 \in Servers
    BY <1>0, <1>3 DEF Quit, ParseAuthFails, AtCommand, TypeOK, LoopTypes
  <2>2. connected' = [connected EXCEPT ![q2] = FALSE]
        /\ publickey' = [publickey EXCEPT ![q2] = Free(@)]
    BY <1>3 DEF Quit, ParseAuthFails, CloseConnection
  <2> QED
    BY <1>0, <2>1, <2>2 DEF TypeOK, EntryTypes
<1>4. CASE ServerLost
  BY <1>0, <1>4 DEF ServerLost, TypeOK, EntryTypes
<1>5. CASE NewServer
  <2>1. PICK s \in Servers, key \in KeyRead :
          /\ connected' = [connected EXCEPT ![s] = TRUE]
          /\ publickey' = [publickey EXCEPT ![s] = key]
    BY <1>5 DEF NewServer, BindServer, LoadClientPublicKey, Hello
  <2>2. key # "freed"
    BY DEF KeyRead
  <2> QED
    BY <1>0, <2>1, <2>2 DEF TypeOK, EntryTypes
<1>6. ~NewServerUnsigned
  BY DEF NewServerUnsigned, Sign_Client_Challenge
<1> QED
  BY <1>1, <1>2, <1>3, <1>4, <1>5, <1>6, SessionFrame DEF Next, RunServer, sessionVars

(* A client's answer is never verified with the key of an earlier session, *)
(* which was freed at its end: each hello loads the key again, or leaves   *)
(* NULL when its file cannot be read.                                      *)
THEOREM KeysAreNotFreed == SignOutcomes = {TRUE} => (Spec => []KeyNotFreed)
<1>1. Init => KeyNotFreed
  BY DEF Init, KeyNotFreed, ConnectedSet
<1>2. ASSUME SignOutcomes = {TRUE} PROVE Spec => []KeyNotFreed
  <2>1. TableInv /\ KeyNotFreed /\ [Next]_vars => KeyNotFreed'
    BY <1>2, KeyStep
  <2> QED
    BY <1>1, <2>1, TableHolds, PTL DEF Spec
<1> QED
  BY <1>2
=============================================================================
