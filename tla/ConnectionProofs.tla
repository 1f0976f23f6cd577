--------------------------- MODULE ConnectionProofs ---------------------------
(***************************************************************************)
(* That the poll array, the entries and the clients behind the descriptors *)
(* belong together, and that the connection manager implements Directory,  *)
(* for any number of servers and any finite set of descriptors.  Except    *)
(* for VisitorsHarmless the theorems assume that the server's private key  *)
(* is present (SignOutcomes = {TRUE}).                                     *)
(***************************************************************************)
EXTENDS Q2AServerProofs

(* A descriptor that is not open has nothing to read, and who has sent     *)
(* something is past its hello.                                            *)
InboxSound ==
  \A f \in Fds : /\ ~open[f] => inbox[f] = <<>>
                 /\ inbox[f] # <<>> => phase[f] \notin {"none", "new"}

(* An entry whose commands are parsed is connected, or a QUIT among them   *)
(* has closed its descriptor: nothing is accepted before the buffer is     *)
(* read, so that a second QUIT closes no descriptor of somebody else.      *)
ParseShut ==
  pc = "parse" /\ q2 \notin ConnectedSet => socket[q2] \in Fds /\ ~open[socket[q2]]

LiveInv == SlotsLive /\ SocketBelongs /\ InboxSound /\ ParseShut

(* Every slot in use after a rebuild is that of an entry of C.             *)
LEMMA RebuildFills ==
  ASSUME NEW C \in SUBSET Servers, NEW sock, NEW idx, MaxSlots \in Nat,
         RemoveServerSocket(C, sock, idx)
  PROVE  \A j \in 1..(socket_count' - 1) :
            j \in Slots => \E s \in C : sfd'[j] = sock[s] /\ index'[s] = j
<1>1. IsFiniteSet(C) /\ C \in SUBSET Nat /\ Cardinality(C) \in Nat
  BY ServersFinite, FS_Subset, FS_CardinalityType
<1>2. socket_count' - 1 = Cardinality(C)
  BY <1>1 DEF RemoveServerSocket, SlotsUsed
<1>3. ASSUME NEW j \in 1..Cardinality(C), j \in Slots
      PROVE  \E s \in C : sfd'[j] = sock[s] /\ index'[s] = j
  <2>1. Occupant(C, j) \in C /\ Rank(C, Occupant(C, j)) = j
    BY <1>1, OccupantOfSlot
  <2>2. sfd'[j] = sock[Occupant(C, j)]
    BY <1>3 DEF RemoveServerSocket
  <2>3. index'[Occupant(C, j)] = j
    BY <2>1 DEF RemoveServerSocket
  <2> QED  BY <2>1, <2>2, <2>3
<1> QED  BY <1>2, <1>3

(* A rebuild over distinct open descriptors leaves only such in the array. *)
LEMMA RebuildLive ==
  ASSUME NEW C \in SUBSET Servers, NEW sock, NEW idx, TableTypes',
         RemoveServerSocket(C, sock, idx),
         \A s \in C : sock[s] \in Fds /\ open'[sock[s]],
         \A s, t \in C : s # t => sock[s] # sock[t]
  PROVE  SlotsLive'
<1>1. MaxSlots \in Nat
  BY Sizes
<1>2. \A j \in 1..(socket_count' - 1) : j \in Slots
  <2>1. socket_count' \in 1..MaxSlots
    BY DEF TableTypes
  <2>2. PICK n \in 1..MaxSlots : n = socket_count'
    BY <2>1
  <2>3. \A j \in 1..(n - 1) : j \in 0..(MaxSlots - 1)
    BY <1>1
  <2> QED  BY <2>2, <2>3 DEF Slots
<1>3. \A j \in 1..(socket_count' - 1) : \E s \in C : sfd'[j] = sock[s] /\ index'[s] = j
  BY <1>1, <1>2, RebuildFills
<1> QED  BY <1>3 DEF SlotsLive

(* Connected entries have open descriptors, all different and different    *)
(* from that in any slot which is not their own.                           *)
LEMMA ConnectedApart ==
  ASSUME TableInv, SlotsLive
  PROVE  /\ \A s \in ConnectedSet : socket[s] \in Fds /\ open[socket[s]]
         /\ \A s, t \in ConnectedSet : s # t => socket[s] # socket[t]
         /\ \A s \in ConnectedSet : \A k \in 1..(socket_count - 1) :
               index[s] # k => socket[s] # sfd[k]
<1>1. \A s \in ConnectedSet : /\ index[s] \in 1..(socket_count - 1)
                              /\ sfd[index[s]] = socket[s]
  BY DEF TableInv, SlotOwnership, ConnectedSet
<1>2. \A s, t \in ConnectedSet : s # t => index[s] # index[t]
  BY DEF TableInv, SlotOwnership
<1> QED  BY <1>1, <1>2 DEF SlotsLive

(* close(f) and a rebuild with connected entries that do not use f keep    *)
(* what is known of descriptors and clients.                               *)
LEMMA CloseAndRebuild ==
  ASSUME TableInv, TableInv', LiveInv, NEW f, Close(f),
         NEW C \in SUBSET Servers, C \subseteq ConnectedSet, ConnectedSet' = C,
         \A s \in C : socket[s] # f /\ socket'[s] = socket[s],
         NEW idx, RemoveServerSocket(C, socket, idx)
  PROVE  SlotsLive' /\ SocketBelongs' /\ InboxSound'
<1>1. PICK sock : sock = socket
  OBVIOUS
<1>2. RemoveServerSocket(C, sock, idx)
  BY <1>1 DEF RemoveServerSocket
<1>3. NetTypes
  BY DEF TableInv, TypeOK
<1>4. \A s \in C : sock[s] \in Fds /\ open'[sock[s]]
  BY <1>1, <1>3, ConnectedApart DEF LiveInv, Close, NetTypes
<1>5. \A s, t \in C : s # t => sock[s] # sock[t]
  BY <1>1, ConnectedApart DEF LiveInv
<1>6. TableTypes'
  BY DEF TableInv, TypeOK
<1>7. SlotsLive'
  BY <1>2, <1>4, <1>5, <1>6, RebuildLive
<1>8. SocketBelongs'
  BY <1>3 DEF LiveInv, SocketBelongs, Close, NetTypes
<1>9. InboxSound'
  BY <1>3 DEF LiveInv, InboxSound, Close, NetTypes
<1> QED  BY <1>7, <1>8, <1>9

(* A reply does not take a client back before its hello.                   *)
LEMMA HearForward ==
  ASSUME NEW p, p \notin {"none", "new"}, NEW replies, NEW cipher
  PROVE  Hear(p, replies, cipher) \notin {"none", "new"}
BY DEF Hear

(* A step that leaves the array and the entries' connections as they are,  *)
(* opens and closes nothing, takes no client back and puts nothing into    *)
(* the inbox of one that has not said hello.                               *)
LEMMA LiveFrame ==
  ASSUME LiveInv, UNCHANGED <<connected, socket, sfd, socket_count, open, role>>,
         \A f \in Fds : phase[f] \notin {"none", "new"} => phase'[f] \notin {"none", "new"},
         \A f \in Fds : inbox'[f] # <<>> =>
            open[f] /\ phase'[f] \notin {"none", "new"},
         ParseShut'
  PROVE  LiveInv'
<1>1. SlotsLive'
  BY DEF LiveInv, SlotsLive
<1>2. SocketBelongs'
  BY DEF LiveInv, SocketBelongs, ConnectedSet
<1>3. InboxSound'
  BY DEF InboxSound
<1> QED  BY <1>1, <1>2, <1>3 DEF LiveInv

(* The clients.                                                            *)
LEMMA ClientLive ==
  ASSUME TypeOK, LiveInv, Client
  PROVE  LiveInv'
<1>1. ParseShut'
  <2>1. UNCHANGED entryVars /\ UNCHANGED loopVars /\ UNCHANGED open
    BY DEF Client, ClientConnect, ClientHello, PeerAsks, ClientAuth, ClientCommand,
           ClientQuit, ClientSend, ClientClose
  <2> QED
    BY <2>1 DEF LiveInv, ParseShut, entryVars, loopVars, ConnectedSet
<1>2. CASE \/ \E r \in Visitors : ClientConnect(r)
           \/ \E f \in Fds : ClientClose(f)
  BY <1>1, <1>2, LiveFrame
  DEF ClientConnect, ClientClose, entryVars, tableVars, LiveInv, InboxSound
<1>3. ASSUME NEW f \in Fds, NEW from, NEW m, NEW p, p \notin {"none", "new"},
             ClientSend(f, from, m, p)
      PROVE  LiveInv'
  <2>1. /\ UNCHANGED <<connected, socket, sfd, socket_count, open, role>>
        /\ open[f]
        /\ inbox' = [inbox EXCEPT ![f] = Append(@, m)]
        /\ phase' = [phase EXCEPT ![f] = p]
    BY <1>3 DEF ClientSend, entryVars, tableVars
  <2>2. \A g \in Fds : phase[g] \notin {"none", "new"} => phase'[g] \notin {"none", "new"}
    BY <1>3, <2>1 DEF TypeOK, NetTypes
  <2>3. \A g \in Fds : inbox'[g] # <<>> =>
            open[g] /\ phase'[g] \notin {"none", "new"}
    BY <1>3, <2>1 DEF TypeOK, NetTypes, LiveInv, InboxSound
  <2> QED  BY <1>1, <2>1, <2>2, <2>3, LiveFrame
<1>4. ASSUME NEW f \in Fds, ClientCommand(f)
      PROVE  LiveInv'
  <2>1. PICK m, p : p = phase[f] /\ ClientSend(f, {"trusted", "told"}, m, p)
    BY <1>4 DEF ClientCommand
  <2>2. p \notin {"none", "new"}
    BY <2>1 DEF ClientSend
  <2> QED  BY <1>3, <2>1, <2>2
<1>5. ASSUME NEW f \in Fds, ClientHello(f) \/ PeerAsks(f) \/ ClientAuth(f) \/ ClientQuit(f)
      PROVE  LiveInv'
  <2>1. PICK from, m, p : p \in {"hello", "auth", "quit"} /\ ClientSend(f, from, m, p)
    BY <1>5 DEF ClientHello, PeerAsks, ClientAuth, ClientQuit
  <2> QED  BY <1>3, <2>1
<1> QED
  BY <1>2, <1>4, <1>5 DEF Client

(* What only moves the scan, reads a buffer, or stops the process.         *)
LEMMA ScanLive ==
  ASSUME TableInv, LiveInv,
         \/ PollReturns \/ ScanEnds \/ SkipSlot \/ AcceptFails \/ VisitorLost
         \/ ServerError \/ ReceiveCommands \/ NewServerFaults
         \/ ParseEnds \/ ParseData \/ ParseStray \/ ParseGarbled \/ ParseFaults
         \/ ArrayOverrun \/ UNCHANGED vars
  PROVE  LiveInv'
<1>1. TypeOK
  BY DEF TableInv
<1>2. CASE ReceiveCommands
  <2>1. PICK k \in Nat : k = i
    BY <1>1 DEF TypeOK, LoopTypes
  <2>2. AtClient /\ IsListed(k) /\ q2' = GetServer(k) /\ pc' = "parse"
        /\ UNCHANGED <<entryVars, tableVars, open, role, phase>>
        /\ inbox' = [inbox EXCEPT ![sfd[i]] = <<>>]
    BY <1>2, <2>1 DEF ReceiveCommands
  <2>3. i \in 1..(socket_count - 1) /\ sfd[i] \in Fds
    BY <2>2, ClientSlot
  <2>4. q2' \in Servers /\ index[q2'] = i
    BY <2>1, <2>2, GetServerFinds
  <2>5. q2' \in ConnectedSet
    BY <2>3, <2>4 DEF TableInv, SlotOwnership, ConnectedSet
  <2>6. ParseShut'
    BY <2>2, <2>5 DEF ParseShut, ConnectedSet, entryVars
  <2>7. \A f \in Fds : inbox'[f] # <<>> => inbox[f] # <<>>
    BY <1>1, <2>2, <2>3 DEF TypeOK, NetTypes
  <2> QED
    BY <2>2, <2>6, <2>7, LiveFrame DEF entryVars, tableVars, LiveInv, InboxSound
<1>3. CASE ~ReceiveCommands
  <2>1. UNCHANGED <<connected, socket, publickey, sfd, socket_count, open, role, phase, inbox>>
    <3>1. CASE VisitorLost \/ NewServerFaults \/ ParseFaults \/ ArrayOverrun
      BY <3>1 DEF VisitorLost, NewServerFaults, ParseFaults, ArrayOverrun, Fault, entryVars, tableVars, netVars
    <3>2. CASE \/ PollReturns \/ ScanEnds \/ SkipSlot \/ AcceptFails \/ ServerError
               \/ ParseEnds \/ ParseData \/ ParseStray \/ ParseGarbled
               \/ UNCHANGED vars
      BY <3>2 DEF PollReturns, ScanEnds, SkipSlot, AcceptFails, ServerError, ParseEnds,
                  ParseData, ParseStray, ParseGarbled, vars, entryVars, tableVars, netVars
    <3> QED  BY <1>3, <3>1, <3>2
  <2>2. pc' = "parse" => pc = "parse" /\ q2' = q2
    <3>1. CASE VisitorLost \/ NewServerFaults \/ ParseFaults \/ ArrayOverrun
      BY <3>1 DEF VisitorLost, NewServerFaults, ParseFaults, ArrayOverrun, Fault
    <3>2. CASE \/ PollReturns \/ ScanEnds \/ SkipSlot \/ AcceptFails \/ ServerError
               \/ ParseEnds \/ ParseData \/ ParseStray \/ ParseGarbled
               \/ UNCHANGED vars
      BY <3>2 DEF PollReturns, ScanEnds, SkipSlot, AcceptFails, ServerError, ParseEnds,
                  ParseData, ParseStray, ParseGarbled, NextSlot, AtClient, vars, loopVars
    <3> QED  BY <1>3, <3>1, <3>2
  <2>3. ParseShut'
    BY <2>1, <2>2 DEF LiveInv, ParseShut, ConnectedSet
  <2> QED
    BY <2>1, <2>3, LiveFrame DEF LiveInv, InboxSound
<1> QED  BY <1>2, <1>3

(* accept() takes a descriptor nobody has.                                 *)
LEMMA AcceptLive ==
  ASSUME TableInv, TableInv', LiveInv, Accept
  PROVE  LiveInv'
<1>1. TypeOK
  BY DEF TableInv
<1>2. PICK f \in Fds :
        /\ ~open[f]
        /\ open'  = [open EXCEPT ![f] = TRUE]
        /\ role'  = [role EXCEPT ![f] = Head(backlog)]
        /\ phase' = [phase EXCEPT ![f] = "new"]
        /\ sfd' = [sfd EXCEPT ![socket_count] = f]
        /\ socket_count' = socket_count + 1
  BY DEF Accept, AddServerSocket
<1>3. UNCHANGED <<connected, socket, publickey, inbox, pc, q2>> /\ pc = "scan"
  BY DEF Accept, entryVars, NextSlot
<1>4. \A s \in ConnectedSet : socket[s] # f
  BY <1>2, ConnectedApart DEF LiveInv
<1>5. socket_count \in Slots /\ socket_count \in Nat
  <2>1. socket_count \in 1..MaxSlots /\ socket_count + 1 \in 1..MaxSlots
    BY <1>1, <1>2 DEF TableInv, TypeOK, TableTypes
  <2> QED  BY <2>1, Sizes DEF Slots
<1>6. \A j \in 1..(socket_count - 1) : sfd'[j] = sfd[j] /\ sfd[j] # f
  <2>1. \A j \in 1..(socket_count - 1) : j \in Slots /\ j # socket_count
    BY <1>5, Sizes DEF Slots
  <2> QED  BY <1>1, <1>2, <1>5, <2>1 DEF TypeOK, TableTypes, LiveInv, SlotsLive
<1>7. sfd'[socket_count] = f
  BY <1>1, <1>2, <1>5 DEF TypeOK, TableTypes
<1>8. SlotsLive'
  <2>1. \A j \in 1..(socket_count' - 1) : j \in 1..(socket_count - 1) \/ j = socket_count
    BY <1>2, <1>5
  <2>2. open'[f] /\ \A g \in Fds : open[g] => open'[g]
    BY <1>1, <1>2 DEF TypeOK, NetTypes
  <2>3. \A j \in 1..(socket_count' - 1) : sfd'[j] \in Fds /\ open'[sfd'[j]]
    BY <1>2, <1>6, <1>7, <2>1, <2>2 DEF LiveInv, SlotsLive
  <2>4. \A j, k \in 1..(socket_count' - 1) : j # k => sfd'[j] # sfd'[k]
    BY <1>2, <1>6, <1>7, <2>1 DEF LiveInv, SlotsLive
  <2> QED  BY <2>3, <2>4 DEF SlotsLive
<1>9. SocketBelongs'
  BY <1>1, <1>2, <1>3, <1>4 DEF TypeOK, NetTypes, LiveInv, SocketBelongs, ConnectedSet
<1>10. InboxSound'
  BY <1>1, <1>2, <1>3 DEF TypeOK, NetTypes, LiveInv, InboxSound
<1>11. ParseShut'
  BY <1>3 DEF ParseShut
<1> QED  BY <1>8, <1>9, <1>10, <1>11 DEF LiveInv

(* Visitors that are refused or served: the slot is nobody's, so that its  *)
(* descriptor is no entry's.                                               *)
LEMMA VisitorLive ==
  ASSUME TableInv, TableInv', LiveInv, RejectVisitor \/ P_GetServerList \/ PeerRequestUnknown
  PROVE  LiveInv'
<1>1. TypeOK /\ TableTypes'
  BY DEF TableInv, TypeOK
<1>2. CASE P_GetServerList /\ eof[sfd[i]] = "rst"
  <2>1. Fault("sigpipe")
    BY <1>2 DEF P_GetServerList
  <2>2. ParseShut'
    BY <2>1 DEF Fault, ParseShut
  <2> QED
    BY <2>1, <2>2, LiveFrame DEF Fault, entryVars, tableVars, netVars, LiveInv, InboxSound
<1>3. CASE ~(P_GetServerList /\ eof[sfd[i]] = "rst")
  <2>1. AtClient /\ DropVisitor /\ ~IsListed(i)
    BY <1>3 DEF RejectVisitor, P_GetServerList, PeerRequestUnknown
  <2>2. i \in 1..(socket_count - 1) /\ sfd[i] \in Fds
    BY <2>1, ClientSlot
  <2>3. RemoveServerSocket(ConnectedSet, socket, index)
        /\ UNCHANGED <<connected, socket, publickey, pc>> /\ pc = "scan"
    BY <2>1 DEF DropVisitor, NextSlot, AtClient
  <2>4. \A s \in ConnectedSet : socket[s] # sfd[i]
    BY <2>1, <2>2, ConnectedApart DEF IsListed, LiveInv, ConnectedSet
  <2>5. ConnectedSet' = ConnectedSet /\ ConnectedSet \in SUBSET Servers
    BY <2>3 DEF ConnectedSet
  <2>6. ParseShut'
    BY <2>3 DEF ParseShut
  <2>7. PICK C, idx, f : C \in SUBSET Servers /\ C = ConnectedSet /\ idx = index /\ f = sfd[i]
    BY <2>5
  <2>8. RemoveServerSocket(C, socket, idx)
    BY <2>3, <2>7 DEF RemoveServerSocket
  <2>9. CASE PeerRequestUnknown
    <3>1. UNCHANGED <<open, role, phase>> /\ inbox' = [inbox EXCEPT ![f] = <<>>]
      BY <2>7, <2>9 DEF PeerRequestUnknown
    <3>2. PICK sock : sock = socket
      OBVIOUS
    <3>3. \A s \in C : sock[s] \in Fds /\ open'[sock[s]]
      BY <2>7, <3>1, <3>2, ConnectedApart DEF LiveInv
    <3>4. \A s, t \in C : s # t => sock[s] # sock[t]
      BY <2>7, <3>2, ConnectedApart DEF LiveInv
    <3>5. RemoveServerSocket(C, sock, idx)
      BY <2>8, <3>2 DEF RemoveServerSocket
    <3>6. SlotsLive'
      BY <1>1, <2>7, <3>3, <3>4, <3>5, RebuildLive
    <3>7. SocketBelongs'
      BY <2>3, <2>5, <3>1 DEF LiveInv, SocketBelongs
    <3>8. InboxSound'
      BY <1>1, <2>2, <2>7, <3>1 DEF TypeOK, NetTypes, LiveInv, InboxSound
    <3> QED  BY <2>6, <3>6, <3>7, <3>8 DEF LiveInv
  <2>10. CASE ~PeerRequestUnknown
    <3>1. Close(f)
      BY <1>3, <2>7, <2>10 DEF RejectVisitor, P_GetServerList, Close
    <3>2. \A s \in C : socket[s] # f /\ socket'[s] = socket[s]
      BY <2>3, <2>4, <2>7
    <3>3. C \subseteq ConnectedSet /\ ConnectedSet' = C
      BY <2>5, <2>7
    <3> QED  BY <2>6, <2>7, <2>8, <3>1, <3>2, <3>3, CloseAndRebuild DEF LiveInv
  <2> QED  BY <2>9, <2>10
<1> QED  BY <1>2, <1>3

(* The end of a server's connection: the descriptor that is closed is the  *)
(* entry's own.                                                            *)
LEMMA ServerLostLive ==
  ASSUME TableInv, TableInv', LiveInv, ServerLost
  PROVE  LiveInv'
<1>1. AtClient /\ IsListed(i) /\ TypeOK
  BY DEF ServerLost, TableInv
<1>2. i \in 1..(socket_count - 1)
  BY <1>1, ClientSlot
<1>3. PICK s \in Servers : s = GetServer(i) /\ index[s] = i
  <2>1. PICK k \in Nat : k = i
    BY <1>1 DEF TypeOK, LoopTypes
  <2> QED  BY <1>1, <2>1, GetServerFinds
<1>4. PICK C, idx, f :
        /\ C \in SUBSET Servers
        /\ C = ConnectedSet \ {s} /\ idx = [index EXCEPT ![s] = 0] /\ f = sfd[i]
  BY DEF ConnectedSet
<1>5. Close(f) /\ RemoveServerSocket(C, socket, idx)
  BY <1>3, <1>4 DEF ServerLost, Close, RemoveServerSocket
<1>6. connected' = [connected EXCEPT ![s] = FALSE] /\ socket' = [socket EXCEPT ![s] = NoFd]
  BY <1>3 DEF ServerLost
<1>7. C \subseteq ConnectedSet /\ ConnectedSet' = C
  BY <1>1, <1>4, <1>6 DEF ConnectedSet, TypeOK, EntryTypes
<1>8. s \in ConnectedSet /\ \A t \in C : index[t] # i
  BY <1>2, <1>3, <1>4 DEF TableInv, SlotOwnership, ConnectedSet
<1>9. \A t \in C : socket[t] # f /\ socket'[t] = socket[t]
  BY <1>1, <1>2, <1>4, <1>6, <1>7, <1>8, ConnectedApart DEF LiveInv, TypeOK, EntryTypes
<1>10. ParseShut'
  BY <1>1 DEF ServerLost, NextSlot, AtClient, ParseShut
<1> QED  BY <1>4, <1>5, <1>7, <1>9, <1>10, CloseAndRebuild DEF LiveInv

(* CloseConnection closes the descriptor of its own entry; when a QUIT     *)
(* earlier in the buffer has done so already, it is nobody else's yet.     *)
LEMMA CloseConnectionLive ==
  ASSUME TableInv, TableInv', LiveInv, Quit \/ ParseAuthFails
  PROVE  LiveInv'
<1>1. /\ CloseConnection /\ pc = "parse" /\ q2 \in Servers /\ TypeOK
      /\ UNCHANGED <<pc, q2>>
  BY DEF Quit, ParseAuthFails, Consume, AtCommand, TableInv, TypeOK, LoopTypes
<1>2. PICK C, idx, f :
        /\ C \in SUBSET Servers
        /\ C = ConnectedSet \ {q2} /\ idx = [index EXCEPT ![q2] = 0] /\ f = socket[q2]
  BY DEF ConnectedSet
<1>3. Close(f) /\ RemoveServerSocket(C, socket, idx)
  BY <1>1, <1>2 DEF CloseConnection, Close, RemoveServerSocket
<1>4. connected' = [connected EXCEPT ![q2] = FALSE] /\ socket' = socket
  BY <1>1 DEF CloseConnection
<1>5. C \subseteq ConnectedSet /\ ConnectedSet' = C
  BY <1>1, <1>2, <1>4 DEF ConnectedSet, TypeOK, EntryTypes
<1>6. \A t \in C : socket[t] # f /\ socket'[t] = socket[t]
  <2>1. CASE q2 \in ConnectedSet
    BY <1>2, <1>4, <2>1, ConnectedApart DEF LiveInv
  <2>2. CASE q2 \notin ConnectedSet
    <3>1. ~open[f]
      BY <1>1, <1>2, <2>2 DEF LiveInv, ParseShut
    <3> QED  BY <1>2, <1>4, <3>1, ConnectedApart DEF LiveInv
  <2> QED  BY <2>1, <2>2
<1>7. ParseShut'
  <2>1. f \in Fds
    BY <1>1, <1>2, ConnectedSocket DEF LiveInv, ParseShut
  <2>2. ~open'[f]
    BY <1>1, <1>3, <2>1 DEF Close, TypeOK, NetTypes
  <2> QED  BY <1>1, <1>2, <1>4, <2>1, <2>2 DEF ParseShut
<1> QED  BY <1>2, <1>3, <1>5, <1>6, <1>7, CloseAndRebuild DEF LiveInv

(* A hello binds its entry to a descriptor no connected entry has.         *)
LEMMA NewServerLive ==
  ASSUME TableInv, LiveInv, NewServer
  PROVE  /\ LiveInv'
         /\ role[sfd[i]] \in Servers /\ sfd[i] \in Fds
         /\ connected' = [connected EXCEPT ![role[sfd[i]]] = TRUE]
         /\ socket' = [socket EXCEPT ![role[sfd[i]]] = sfd[i]]
         /\ \A t \in ConnectedSet : socket[t] # sfd[i]
<1>1. AtClient /\ ~IsListed(i) /\ Hello(sfd[i]) /\ TypeOK
  BY DEF NewServer, TableInv
<1>2. i \in 1..(socket_count - 1) /\ sfd[i] \in Fds
  BY <1>1, ClientSlot
<1>3. PICK f \in Fds, s \in Servers : f = sfd[i] /\ s = role[f]
  BY <1>1, <1>2 DEF Hello
<1>4. /\ connected' = [connected EXCEPT ![s] = TRUE]
      /\ socket' = [socket EXCEPT ![s] = f]
      /\ q2' = s
      /\ UNCHANGED <<sfd, socket_count, open, role>>
      /\ inbox' = [inbox EXCEPT ![f] = <<>>]
  BY <1>3 DEF NewServer, BindServer, tableVars
<1>5. \A t \in ConnectedSet : socket[t] # f
  BY <1>1, <1>2, <1>3, ConnectedApart DEF IsListed, LiveInv, ConnectedSet
<1>6. phase[f] \notin {"none", "new"} /\ phase'[f] \notin {"none", "new"}
      /\ \A g \in Fds : g # f => phase'[g] = phase[g]
  <2>1. phase[f] \notin {"none", "new"}
    BY <1>1, <1>3 DEF Hello, Received, LiveInv, InboxSound
  <2>2. PICK replies, cipher :
          phase' = [phase EXCEPT ![f] =
                      IF eof[f] = "no" THEN Hear(@, replies, cipher) ELSE @]
    BY <1>3 DEF NewServer
  <2> QED  BY <1>1, <2>1, <2>2, HearForward DEF TypeOK, NetTypes
<1>7. SlotsLive'
  BY <1>4 DEF LiveInv, SlotsLive
<1>8. SocketBelongs'
  BY <1>1, <1>3, <1>4, <1>6 DEF TypeOK, EntryTypes, LiveInv, SocketBelongs, ConnectedSet
<1>9. InboxSound'
  BY <1>1, <1>4, <1>6 DEF TypeOK, NetTypes, LiveInv, InboxSound
<1>10. ParseShut'
  BY <1>1, <1>4 DEF TypeOK, EntryTypes, ParseShut, ConnectedSet
<1> QED  BY <1>3, <1>4, <1>5, <1>7, <1>8, <1>9, <1>10 DEF LiveInv

(* What is sent takes no client back.                                      *)
LEMMA ReplyLive ==
  ASSUME LiveInv, Pong \/ ParseTeleport \/ ParseInvite \/ ParseAuth
  PROVE  LiveInv' /\ UNCHANGED <<connected, socket>>
<1>1. /\ UNCHANGED <<connected, socket, publickey, sfd, socket_count, open, role, inbox, pc, q2>>
      /\ \E S, out : phase' = Heard(S, out)
  BY DEF Pong, ParseTeleport, ParseInvite, ParseAuth, Reply, SendBuffer, Consume, tableVars
<1>2. PICK S, out : phase' = Heard(S, out)
  BY <1>1
<1>3. \A f \in Fds : phase[f] \notin {"none", "new"} => phase'[f] \notin {"none", "new"}
  BY <1>2, HearForward DEF Heard
<1>4. ParseShut'
  BY <1>1 DEF LiveInv, ParseShut, ConnectedSet
<1>5. LiveInv'
  BY <1>1, <1>3, <1>4, LiveFrame DEF LiveInv, InboxSound
<1> QED  BY <1>1, <1>5

(* Every step keeps descriptors, entries and clients together.             *)
LEMMA LiveStep ==
  ASSUME TableInv, TableInv', LiveInv, [Next]_vars, SignOutcomes = {TRUE}
  PROVE  LiveInv'
<1>1. TypeOK
  BY DEF TableInv
<1>2. ~NewServerUnsigned
  BY DEF NewServerUnsigned, Sign_Client_Challenge
<1> QED
  BY <1>1, <1>2, ClientLive, ScanLive, AcceptLive, VisitorLive, ServerLostLive,
     CloseConnectionLive, NewServerLive, ReplyLive
  DEF Next, RunServer

(* Nothing is open and nobody is connected in the beginning.               *)
LEMMA LiveInit == Init => LiveInv
  BY ConstantsAssumption
  DEF Init, LiveInv, SlotsLive, SocketBelongs, InboxSound, ParseShut, ConnectedSet

(* All of the invariants together.                                         *)
LEMMA AllInvariants ==
  ASSUME SignOutcomes = {TRUE}
  PROVE  Spec => [](TableInv /\ LiveInv)
<1>1. TableInv /\ TableInv' /\ LiveInv /\ [Next]_vars => LiveInv'
  BY LiveStep
<1> QED
  BY <1>1, TableHolds, LiveInit, PTL DEF Spec

(* poll() is given distinct open descriptors, after any number of rebuilds *)
(* in the middle of a scan.                                                *)
THEOREM SlotsAreLive == SignOutcomes = {TRUE} => (Spec => []SlotsLive)
<1> SUFFICES ASSUME SignOutcomes = {TRUE} PROVE Spec => []SlotsLive
  OBVIOUS
<1>1. Spec => [](TableInv /\ LiveInv)
  BY AllInvariants
<1>2. LiveInv => SlotsLive
  BY DEF LiveInv
<1> QED  BY <1>1, <1>2, PTL

(* An entry's socket leads to the client that said hello with its key,     *)
(* however often descriptors are used again.                               *)
THEOREM SocketsBelong == SignOutcomes = {TRUE} => (Spec => []SocketBelongs)
<1> SUFFICES ASSUME SignOutcomes = {TRUE} PROVE Spec => []SocketBelongs
  OBVIOUS
<1>1. Spec => [](TableInv /\ LiveInv)
  BY AllInvariants
<1>2. LiveInv => SocketBelongs
  BY DEF LiveInv
<1> QED  BY <1>1, <1>2, PTL
-----------------------------------------------------------------------------
(* A step of RunServer that leaves the connections of all entries alone.   *)
KeepsConnections ==
  \/ PollReturns \/ ScanEnds \/ SkipSlot \/ Accept \/ AcceptFails
  \/ VisitorLost \/ ServerError \/ RejectVisitor
  \/ P_GetServerList \/ PeerRequestUnknown \/ ReceiveCommands
  \/ NewServerFaults \/ ParseEnds \/ ParseData \/ ParseStray \/ ParseGarbled
  \/ ParseFaults \/ ArrayOverrun \/ Pong \/ ParseTeleport \/ ParseInvite \/ ParseAuth

(* Such a step changes neither connected nor socket.                       *)
LEMMA ConnectionsKept ==
  ASSUME Client \/ KeepsConnections \/ UNCHANGED vars
  PROVE  UNCHANGED <<connected, socket>>
<1>1. CASE Client
  <2>1. UNCHANGED entryVars
    BY <1>1 DEF Client, ClientConnect, ClientHello, PeerAsks, ClientAuth, ClientCommand,
                ClientQuit, ClientSend, ClientClose
  <2> QED  BY <2>1 DEF entryVars
<1>2. CASE \/ PollReturns \/ ScanEnds \/ SkipSlot \/ Accept \/ AcceptFails
           \/ ServerError \/ ReceiveCommands \/ ParseEnds \/ ParseData \/ ParseStray
           \/ ParseGarbled \/ UNCHANGED vars
  <2>1. UNCHANGED entryVars
    BY <1>2 DEF PollReturns, ScanEnds, SkipSlot, Accept, AcceptFails, ServerError,
                ReceiveCommands, ParseEnds, ParseData, ParseStray, ParseGarbled, vars
  <2> QED  BY <2>1 DEF entryVars
<1>3. CASE VisitorLost \/ NewServerFaults \/ ParseFaults \/ ArrayOverrun
  <2>1. UNCHANGED entryVars
    BY <1>3 DEF VisitorLost, NewServerFaults, ParseFaults, ArrayOverrun, Fault
  <2> QED  BY <2>1 DEF entryVars
<1>4. CASE RejectVisitor \/ P_GetServerList \/ PeerRequestUnknown
  BY <1>4 DEF RejectVisitor, P_GetServerList, PeerRequestUnknown, DropVisitor, Fault, entryVars
<1>5. CASE Pong \/ ParseTeleport \/ ParseInvite \/ ParseAuth
  BY <1>5 DEF Pong, ParseTeleport, ParseInvite, ParseAuth, Reply
<1> QED  BY <1>1, <1>2, <1>3, <1>4, <1>5 DEF KeepsConnections

(* The step of a lost server: the entry at the slot i, whose descriptor it *)
(* closes, is the one that is disconnected.                                *)
LEMMA ServerLostDrops ==
  ASSUME TableInv, ServerLost
  PROVE  \E s \in ConnectedSet :
            /\ socket[s] = sfd[i] /\ sfd[i] \in Fds
            /\ connected' = [connected EXCEPT ![s] = FALSE]
            /\ socket' = [socket EXCEPT ![s] = NoFd]
            /\ eof[sfd[i]] \in {"fin", "dead"} /\ ~open'[sfd[i]]
            /\ pc = "scan"
<1>1. AtClient /\ IsListed(i) /\ TypeOK
  BY DEF ServerLost, TableInv
<1>2. i \in 1..(socket_count - 1) /\ sfd[i] \in Fds
  BY <1>1, ClientSlot
<1>3. PICK s \in Servers : s = GetServer(i) /\ index[s] = i
  <2>1. PICK k \in Nat : k = i
    BY <1>1 DEF TypeOK, LoopTypes
  <2> QED  BY <1>1, <2>1, GetServerFinds
<1>4. s \in ConnectedSet /\ socket[s] = sfd[i]
  BY <1>2, <1>3 DEF TableInv, SlotOwnership, ConnectedSet
<1>5. /\ connected' = [connected EXCEPT ![s] = FALSE]
      /\ socket' = [socket EXCEPT ![s] = NoFd]
      /\ RecvZero(sfd[i]) /\ Close(sfd[i])
  BY <1>3 DEF ServerLost
<1>6. ~open'[sfd[i]] /\ eof[sfd[i]] \in {"fin", "dead"}
  BY <1>1, <1>2, <1>5 DEF Close, RecvZero, TypeOK, NetTypes
<1> QED  BY <1>1, <1>2, <1>4, <1>5, <1>6 DEF AtClient

(* No connection is ended for another one's sake: the descriptor that is   *)
(* closed is the entry's own, and its client hung up or is being parsed.   *)
THEOREM DisconnectsHaveCause == SignOutcomes = {TRUE} => (Spec => DisconnectCause)
<1> SUFFICES ASSUME SignOutcomes = {TRUE} PROVE Spec => DisconnectCause
  OBVIOUS
<1> DEFINE Caused ==
      \A s \in Servers : connected[s] /\ ~connected'[s] =>
         /\ ~open'[socket[s]]
         /\ IF pc = "parse" THEN q2 = s
            ELSE sfd[i] = socket[s] /\ eof[socket[s]] \in {"fin", "dead"}
<1>1. TableInv /\ TableInv' /\ LiveInv /\ [Next]_vars => [Caused]_vars
  <2> SUFFICES ASSUME TableInv, TableInv', LiveInv, Next PROVE Caused
    OBVIOUS
  <2>1. TypeOK /\ ~NewServerUnsigned
    BY DEF TableInv, NewServerUnsigned, Sign_Client_Challenge
  <2>2. CASE Client \/ KeepsConnections
    BY <2>2, ConnectionsKept
  <2>3. CASE ServerLost
    BY <2>1, <2>3, ServerLostDrops DEF TypeOK, EntryTypes
  <2>4. CASE Quit \/ ParseAuthFails
    <3>1. CloseConnection /\ pc = "parse" /\ q2 \in Servers
      BY <2>1, <2>4 DEF Quit, ParseAuthFails, AtCommand, TypeOK, LoopTypes
    <3>2. connected' = [connected EXCEPT ![q2] = FALSE] /\ Close(socket[q2])
      BY <3>1 DEF CloseConnection
    <3>3. connected[q2] => ~open'[socket[q2]]
      BY <2>1, <3>1, <3>2, ConnectedSocket DEF Close, TypeOK, NetTypes, ConnectedSet
    <3> QED  BY <2>1, <3>1, <3>2, <3>3 DEF TypeOK, EntryTypes
  <2>5. CASE NewServer
    BY <2>1, <2>5, NewServerLive DEF TypeOK, EntryTypes
  <2> QED
    BY <2>1, <2>2, <2>3, <2>4, <2>5 DEF Next, RunServer, KeepsConnections
<1>2. Spec => [](TableInv /\ LiveInv)
  BY AllInvariants
<1> QED  BY <1>1, <1>2, PTL DEF Spec, DisconnectCause

(* Dealing with a visitor that is still there and has what its hello needs *)
(* does not stop the process, whether its hello can be signed or not.      *)
LEMMA ProperServed ==
  ASSUME TypeOK, Next, AtClient, ~IsListed(i), Proper(sfd[i]), ~Overran
  PROVE  fault' = fault
<1>1. pc = "scan" /\ Received(sfd[i]) /\ eof[sfd[i]] = "no"
      /\ (Hello(sfd[i]) => role[sfd[i]] \in KeyFiles /\ ~Head(inbox[sfd[i]]).flag)
  BY DEF AtClient, Proper
<1>2. CASE Client
  BY <1>2 DEF Client, ClientConnect, ClientHello, PeerAsks, ClientAuth, ClientCommand,
              ClientQuit, ClientSend, ClientClose, loopVars
<1>3. ~VisitorLost /\ ~ArrayOverrun
  BY <1>1 DEF VisitorLost, RecvZero, Received, ArrayOverrun
<1>4. ~NewServerFaults
  BY <1>1 DEF NewServerFaults, UsesFreed
<1>5. ~(\/ ParseEnds \/ Pong \/ ParseTeleport \/ ParseInvite \/ ParseAuth
        \/ ParseAuthFails \/ Quit \/ ParseData \/ ParseStray \/ ParseGarbled
        \/ ParseFaults)
  BY <1>1 DEF ParseEnds, Pong, ParseTeleport, ParseInvite, ParseAuth, ParseAuthFails, Quit,
              ParseData, ParseStray, ParseGarbled, ParseFaults, AtCommand
<1>6. CASE \/ PollReturns \/ ScanEnds \/ SkipSlot \/ Accept \/ AcceptFails
           \/ ServerLost \/ ServerError \/ ReceiveCommands \/ NewServer
           \/ NewServerUnsigned
  BY <1>6 DEF PollReturns, ScanEnds, SkipSlot, Accept, AcceptFails, ServerLost,
              ServerError, ReceiveCommands, NewServer, NewServerUnsigned, NextSlot
<1>7. CASE RejectVisitor \/ P_GetServerList \/ PeerRequestUnknown
  BY <1>1, <1>7 DEF RejectVisitor, P_GetServerList, PeerRequestUnknown, DropVisitor,
                    NextSlot
<1> QED  BY <1>2, <1>3, <1>4, <1>5, <1>6, <1>7 DEF Next, RunServer

(* Dealing with such a visitor neither stops the process nor touches       *)
(* another game server: it stays connected and reachable through its slot. *)
THEOREM VisitorsAreHarmless == Spec => VisitorsHarmless
<1> DEFINE Harmless ==
      AtClient /\ ~IsListed(i) /\ Proper(sfd[i]) /\ ~Overran =>
        /\ fault' = fault
        /\ \A s \in ConnectedSet : role[sfd[i]] # s =>
             /\ connected'[s] /\ socket'[s] = socket[s]
             /\ index'[s] \in 1..(socket_count' - 1)
             /\ sfd'[index'[s]] = socket[s]
<1>1. TableInv /\ TableInv' /\ [Next]_vars => [Harmless]_vars
  <2> SUFFICES ASSUME TableInv, TableInv', Next,
                      AtClient, ~IsListed(i), Proper(sfd[i]), ~Overran
               PROVE  /\ fault' = fault
                      /\ \A s \in ConnectedSet : role[sfd[i]] # s =>
                           /\ connected'[s] /\ socket'[s] = socket[s]
                           /\ index'[s] \in 1..(socket_count' - 1)
                           /\ sfd'[index'[s]] = socket[s]
    OBVIOUS
  <2>1. fault' = fault
    BY ProperServed DEF TableInv
  <2>2. ASSUME NEW s \in ConnectedSet, role[sfd[i]] # s
        PROVE  /\ connected'[s] /\ socket'[s] = socket[s]
               /\ index'[s] \in 1..(socket_count' - 1)
               /\ sfd'[index'[s]] = socket[s]
    <3>1. TypeOK /\ s \in Servers /\ connected[s] /\ pc = "scan"
      BY DEF TableInv, ConnectedSet, AtClient
    <3>2. connected'[s] /\ socket'[s] = socket[s]
      <4>1. CASE Client \/ KeepsConnections
        BY <3>1, <4>1, ConnectionsKept
      <4>2. ~ServerLost /\ ~Quit /\ ~ParseAuthFails
        BY <3>1 DEF ServerLost, Quit, ParseAuthFails, AtCommand
      <4>3. CASE NewServer \/ NewServerUnsigned
        <5>1. PICK t \in Servers : t = role[sfd[i]]
          BY <4>3 DEF NewServer, NewServerUnsigned, Hello
        <5>2. connected' = [connected EXCEPT ![t] = TRUE] /\ socket' = [socket EXCEPT ![t] = sfd[i]]
          BY <4>3, <5>1 DEF NewServer, NewServerUnsigned, BindServer
        <5> QED  BY <2>2, <3>1, <5>1, <5>2 DEF TypeOK, EntryTypes
      <4> QED  BY <4>1, <4>2, <4>3 DEF Next, RunServer, KeepsConnections
    <3> QED
      BY <3>1, <3>2 DEF TableInv, SlotOwnership
  <2> QED  BY <2>1, <2>2
<1> QED
  BY <1>1, TableHolds, PTL DEF Spec, VisitorsHarmless
-----------------------------------------------------------------------------
(* The connection manager implements the directory of reachable servers:   *)
(* every rebuild, reuse of a descriptor and reconnection comes out as one  *)
(* server becoming reachable, one becoming unreachable, or nothing.        *)
THEOREM ManagerImplementsDirectory ==
  SignOutcomes = {TRUE} => (Spec => ImplementsDirectory)
<1> SUFFICES ASSUME SignOutcomes = {TRUE} PROVE Spec => ImplementsDirectory
  OBVIOUS
<1> DEFINE owner == [s \in Servers |-> IF connected[s] THEN socket[s] ELSE NoFd]
<1>1. Init => Dir!Init
  BY DEF Init, Dir!Init
<1>2. TableInv /\ TableInv' /\ LiveInv /\ [Next]_vars => [Dir!Next]_owner
  <2> SUFFICES ASSUME TableInv, TableInv', LiveInv, [Next]_vars
               PROVE  Dir!Next \/ owner' = owner
    OBVIOUS
  <2>1. TypeOK /\ ~NewServerUnsigned /\ NoFd \notin Fds
    BY ConstantsAssumption DEF TableInv, NewServerUnsigned, Sign_Client_Challenge
  <2>2. CASE Client \/ KeepsConnections \/ UNCHANGED vars
    BY <2>2, ConnectionsKept
  <2>3. ASSUME NEW s \in ConnectedSet, connected' = [connected EXCEPT ![s] = FALSE],
               \A t \in Servers : t # s => socket'[t] = socket[t]
        PROVE  Dir!Next
    <3>1. s \in Servers /\ connected[s] /\ socket[s] \in Fds
      BY ConnectedSocket DEF ConnectedSet
    <3>2. owner' = [owner EXCEPT ![s] = NoFd]
      BY <2>1, <2>3, <3>1 DEF TypeOK, EntryTypes
    <3>3. Dir!Unbind(s)
      BY <2>1, <3>1, <3>2 DEF Dir!Unbind
    <3> QED  BY <3>1, <3>3 DEF Dir!Next
  <2>4. CASE ServerLost
    <3>1. PICK s \in ConnectedSet : connected' = [connected EXCEPT ![s] = FALSE]
                                    /\ socket' = [socket EXCEPT ![s] = NoFd]
      BY <2>4, ServerLostDrops
    <3> QED  BY <2>1, <2>3, <3>1 DEF TypeOK, EntryTypes
  <2>5. CASE Quit \/ ParseAuthFails
    <3>1. CloseConnection /\ q2 \in Servers
      BY <2>1, <2>5 DEF Quit, ParseAuthFails, AtCommand, TypeOK, LoopTypes
    <3>2. connected' = [connected EXCEPT ![q2] = FALSE] /\ socket' = socket
      BY <3>1 DEF CloseConnection
    <3>3. CASE q2 \in ConnectedSet
      BY <2>3, <3>2, <3>3
    <3>4. CASE q2 \notin ConnectedSet
      <4>1. connected' = connected
        BY <2>1, <3>1, <3>2, <3>4 DEF TypeOK, EntryTypes, ConnectedSet
      <4> QED  BY <3>2, <4>1
    <3> QED  BY <3>3, <3>4
  <2>6. CASE NewServer
    <3>1. PICK f \in Fds, s \in Servers :
            /\ connected' = [connected EXCEPT ![s] = TRUE]
            /\ socket' = [socket EXCEPT ![s] = f]
            /\ \A t \in ConnectedSet : socket[t] # f
      BY <2>6, NewServerLive
    <3>2. owner' = [owner EXCEPT ![s] = f]
      BY <2>1, <3>1 DEF TypeOK, EntryTypes
    <3>3. \A t \in Servers : owner[t] # f
      BY <2>1, <3>1 DEF ConnectedSet
    <3>4. Dir!Bind(s, f)
      BY <3>2, <3>3 DEF Dir!Bind
    <3> QED  BY <3>1, <3>4 DEF Dir!Next
  <2> QED
    BY <2>1, <2>2, <2>4, <2>5, <2>6 DEF Next, RunServer, KeepsConnections
<1>3. Spec => [](TableInv /\ LiveInv)
  BY AllInvariants
<1> QED
  BY <1>1, <1>2, <1>3, PTL DEF Spec, ImplementsDirectory, Dir!Spec
=============================================================================
