----------------------------- MODULE TrustProofs -----------------------------
(***************************************************************************)
(* That a client which has answered its challenge is told it is trusted    *)
(* only for that answer, for any number of servers and descriptors, where  *)
(* the server's private key is present.                                    *)
(***************************************************************************)
EXTENDS ConnectionProofs

(* A hello that has not been read: its client waits for the answer and has *)
(* no entry yet.                                                           *)
HelloUnread ==
  /\ \A f \in Fds : \A k \in 1..Len(inbox[f]) :
        inbox[f][k].cmd = "HELLO" => phase[f] = "hello"
  /\ \A s \in ConnectedSet : \A k \in 1..Len(inbox[socket[s]]) :
        inbox[socket[s]][k].cmd # "HELLO"

(* While commands are parsed the scan stands at the entry's own slot.      *)
AtOwnSlot == pc = "parse" /\ q2 \in ConnectedSet => index[q2] = i

TrustInv == HelloUnread /\ AtOwnSlot

(* A client that a reply moves is that of a connected entry, whose buffer  *)
(* held r; it held TRUSTED only if an answer has just been accepted.       *)
LEMMA MovedByReply ==
  ASSUME TypeOK, Flushed, Pong \/ ParseTeleport \/ ParseInvite \/ ParseAuth,
         NEW f \in Fds, phase'[f] # phase[f]
  PROVE  \E s, r :
            /\ s \in ConnectedSet
            /\ sfd[index[s]] = f /\ eof[f] = "no"
            /\ phase'[f] = Hear(phase[f], r, FALSE)
            /\ "TRUSTED" \in r => ParseAuth /\ s = q2
<1>1. q2 \in Servers
  BY DEF Pong, ParseTeleport, ParseInvite, ParseAuth, AtCommand, TypeOK, LoopTypes
<1>2. PICK S, out :
        /\ phase' = Heard(S, out) /\ S \subseteq Servers
        /\ \A t \in S : connected[t] /\ "TRUSTED" \in out[t]
                       => ParseAuth /\ t = q2
  <2>1. CASE Pong \/ ParseTeleport
    <3>1. PICK replies : Reply(replies) /\ "TRUSTED" \notin replies
      <4>1. CASE Pong
        BY <4>1 DEF Pong
      <4>2. CASE ParseTeleport
        BY <4>2 DEF ParseTeleport
      <4> QED  BY <2>1, <4>1, <4>2
    <3>2. PICK out : out = [msg EXCEPT ![q2] = @ \cup replies]
      OBVIOUS
    <3>3. phase' = Heard({q2}, out)
      BY <3>1, <3>2 DEF Reply, SendBuffer
    <3>4. connected[q2] => "TRUSTED" \notin out[q2]
      <4>1. connected[q2] => out[q2] = {} \cup replies
        BY <1>1, <3>2 DEF TypeOK, EntryTypes, Flushed, ConnectedSet
      <4> QED  BY <3>1, <4>1
    <3> QED  BY <1>1, <3>3, <3>4
  <2>2. CASE ParseInvite
    <3>1. PICK out : out = [t \in Servers |-> IF connected[t] THEN msg[t] \cup {"SAYALL"}
                                              ELSE msg[t]]
      OBVIOUS
    <3>2. phase' = Heard(ConnectedSet, out)
      BY <2>2, <3>1 DEF ParseInvite, SendBuffer
    <3>3. \A t \in Servers : connected[t] => out[t] = {} \cup {"SAYALL"}
      BY <3>1 DEF Flushed, ConnectedSet
    <3>4. \A t \in Servers : connected[t] => "TRUSTED" \notin out[t]
      BY <3>3
    <3>5. ConnectedSet \subseteq Servers
      BY DEF ConnectedSet
    <3> QED  BY <3>2, <3>4, <3>5
  <2>3. CASE ParseAuth
    <3>1. PICK out : out = [msg EXCEPT ![q2] = @ \cup {"TRUSTED"}]
      OBVIOUS
    <3>2. phase' = Heard({q2}, out)
      BY <2>3, <3>1 DEF ParseAuth, SendBuffer
    <3> QED  BY <1>1, <2>3, <3>2
  <2> QED  BY <2>1, <2>2, <2>3
<1> DEFINE s == CHOOSE s \in S : connected[s] /\ sfd[index[s]] = f
<1>3. f \in LiveFds(Reached(S)) /\ eof[f] = "no"
  BY <1>2 DEF Heard
<1>4. \E t \in S : connected[t] /\ sfd[index[t]] = f
  BY <1>3 DEF LiveFds, Reached
<1>5. s \in S /\ connected[s] /\ sfd[index[s]] = f
  BY <1>4
<1>6. phase'[f] = Hear(phase[f], out[s], FALSE)
  BY <1>2, <1>3 DEF Heard
<1> QED  BY <1>2, <1>3, <1>5, <1>6 DEF ConnectedSet

(* The server only takes from the inboxes.                                 *)
LEMMA InboxShrinks ==
  ASSUME TypeOK, RunServer \/ UNCHANGED vars
  PROVE  \A f \in Fds : inbox'[f] = inbox[f] \/ inbox'[f] = <<>>
<1>1. UNCHANGED inbox \/ \E g : inbox' = [inbox EXCEPT ![g] = <<>>]
  <2>1. CASE \/ PollReturns \/ ScanEnds \/ SkipSlot \/ Accept \/ AcceptFails
             \/ ServerError \/ ParseEnds \/ ParseData \/ ParseStray \/ ParseGarbled
             \/ Pong \/ ParseTeleport \/ ParseInvite \/ ParseAuth \/ UNCHANGED vars
    BY <2>1 DEF PollReturns, ScanEnds, SkipSlot, Accept, AcceptFails, ServerError,
                ParseEnds, ParseData, ParseStray, ParseGarbled, Pong, ParseTeleport, ParseInvite,
                ParseAuth, Reply, vars, netVars
  <2>2. CASE VisitorLost \/ NewServerFaults \/ ParseFaults \/ ArrayOverrun
    BY <2>2 DEF VisitorLost, NewServerFaults, ParseFaults, ArrayOverrun, Fault, netVars
  <2>3. CASE RejectVisitor \/ P_GetServerList \/ PeerRequestUnknown
    BY <2>3 DEF RejectVisitor, P_GetServerList, PeerRequestUnknown, Close, Fault, netVars
  <2>4. CASE ServerLost \/ ReceiveCommands \/ NewServer \/ NewServerUnsigned
    BY <2>4 DEF ServerLost, ReceiveCommands, NewServer, NewServerUnsigned, Close
  <2>5. CASE Quit \/ ParseAuthFails
    BY <2>5 DEF Quit, ParseAuthFails, CloseConnection, Close
  <2> QED  BY <2>1, <2>2, <2>3, <2>4, <2>5 DEF RunServer
<1> QED  BY <1>1 DEF TypeOK, NetTypes

(* The server moves a client that has nothing in its inbox, or one that is *)
(* connected.                                                              *)
LEMMA PhaseMoves ==
  ASSUME TableInv, LiveInv, Flushed, RunServer \/ UNCHANGED vars, ~NewServerUnsigned,
         NEW f \in Fds, phase'[f] # phase[f]
  PROVE  inbox'[f] = <<>> \/ \E s \in ConnectedSet : socket[s] = f
<1>1. TypeOK
  BY DEF TableInv
<1>2. CASE \/ PollReturns \/ ScanEnds \/ SkipSlot \/ AcceptFails \/ ReceiveCommands
           \/ ServerError \/ ParseEnds \/ ParseData \/ ParseStray \/ ParseGarbled
           \/ UNCHANGED vars
  BY <1>2 DEF PollReturns, ScanEnds, SkipSlot, AcceptFails, ServerError, ReceiveCommands,
              ParseEnds, ParseData, ParseStray, ParseGarbled, vars, netVars
<1>3. CASE VisitorLost \/ NewServerFaults \/ ParseFaults \/ ArrayOverrun
  BY <1>3 DEF VisitorLost, NewServerFaults, ParseFaults, ArrayOverrun, Fault, netVars
<1>4. CASE Accept
  BY <1>1, <1>4 DEF Accept, TypeOK, NetTypes, LiveInv, InboxSound
<1>5. ASSUME NEW g, Close(g) PROVE inbox'[f] = <<>>
  BY <1>1, <1>5 DEF Close, TypeOK, NetTypes
<1>6. CASE RejectVisitor \/ P_GetServerList \/ PeerRequestUnknown
  BY <1>5, <1>6 DEF RejectVisitor, P_GetServerList, PeerRequestUnknown, Fault, netVars
<1>7. CASE ServerLost \/ Quit \/ ParseAuthFails
  BY <1>5, <1>7 DEF ServerLost, Quit, ParseAuthFails, CloseConnection
<1>8. CASE NewServer
  BY <1>1, <1>8 DEF NewServer, TypeOK, NetTypes
<1>9. CASE Pong \/ ParseTeleport \/ ParseInvite \/ ParseAuth
  <2>1. \E s \in ConnectedSet : sfd[index[s]] = f
    BY <1>1, <1>9, MovedByReply
  <2> QED  BY <2>1 DEF TableInv, SlotOwnership, ConnectedSet
<1> QED
  BY <1>2, <1>3, <1>4, <1>6, <1>7, <1>8, <1>9 DEF RunServer

(* The clients keep what is known of hellos: who sends one is new, and who *)
(* sends anything else has none unread.                                    *)
LEMMA ClientTrust ==
  ASSUME TypeOK, LiveInv, TrustInv, Client
  PROVE  TrustInv'
<1>1. UNCHANGED <<connected, index, socket, pc, i, q2>>
  BY DEF Client, ClientConnect, ClientHello, PeerAsks, ClientAuth, ClientCommand,
         ClientQuit, ClientSend, ClientClose, entryVars, loopVars
<1>2. AtOwnSlot'
  BY <1>1 DEF TrustInv, AtOwnSlot, ConnectedSet
<1>3. CASE UNCHANGED <<inbox, phase>>
  BY <1>1, <1>2, <1>3 DEF TrustInv, HelloUnread, ConnectedSet
<1>4. ASSUME NEW f \in Fds, NEW from, NEW c, NEW flag, NEW p,
             ClientSend(f, from, Command(c, flag), p),
             c = "HELLO" => from = {"new"} /\ p = "hello",
             "hello" \notin from
      PROVE  TrustInv'
  <2>1. /\ phase[f] \in from
        /\ inbox' = [inbox EXCEPT ![f] = Append(@, Command(c, flag))]
        /\ phase' = [phase EXCEPT ![f] = p]
    BY <1>4 DEF ClientSend
  <2>2. \A g \in Fds : g # f => inbox'[g] = inbox[g] /\ phase'[g] = phase[g]
    BY <2>1 DEF TypeOK, NetTypes
  <2>3. \A k \in 1..Len(inbox[f]) : inbox[f][k].cmd # "HELLO"
    BY <1>4, <2>1 DEF TrustInv, HelloUnread
  <2>4. /\ phase'[f] = p
        /\ \A k \in 1..Len(inbox'[f]) :
              inbox'[f][k].cmd = IF k \in 1..Len(inbox[f]) THEN inbox[f][k].cmd ELSE c
    BY <2>1 DEF TypeOK, NetTypes, Command
  <2>5. \A s \in ConnectedSet : c = "HELLO" => socket[s] # f
    BY <1>4, <2>1 DEF LiveInv, SocketBelongs
  <2>6. \A s \in ConnectedSet : socket[s] \in Fds
    BY DEF LiveInv, SocketBelongs
  <2>7. HelloUnread'
    <3>1. ASSUME NEW g \in Fds, NEW k \in 1..Len(inbox'[g]), inbox'[g][k].cmd = "HELLO"
          PROVE  phase'[g] = "hello"
      <4>1. CASE g = f
        BY <1>4, <2>3, <2>4, <3>1, <4>1
      <4>2. CASE g # f
        BY <2>2, <3>1, <4>2 DEF TrustInv, HelloUnread
      <4> QED  BY <4>1, <4>2
    <3>2. ASSUME NEW s \in ConnectedSet, NEW k \in 1..Len(inbox'[socket[s]])
          PROVE  inbox'[socket[s]][k].cmd # "HELLO"
      <4>1. CASE socket[s] = f
        BY <2>3, <2>4, <2>5, <3>2, <4>1
      <4>2. CASE socket[s] # f
        BY <2>2, <2>6, <3>2, <4>2 DEF TrustInv, HelloUnread
      <4> QED  BY <4>1, <4>2
    <3> QED  BY <1>1, <3>1, <3>2 DEF HelloUnread, ConnectedSet
  <2> QED  BY <1>2, <2>7 DEF TrustInv
<1>5. CASE \/ \E r \in Visitors : ClientConnect(r)
           \/ \E f \in Fds : ClientClose(f)
  BY <1>3, <1>5 DEF ClientConnect, ClientClose
<1>6. CASE \E f \in Fds : ClientHello(f) \/ PeerAsks(f) \/ ClientAuth(f)
                          \/ ClientCommand(f) \/ ClientQuit(f)
  <2>1. PICK f \in Fds : ClientHello(f) \/ PeerAsks(f) \/ ClientAuth(f)
                         \/ ClientCommand(f) \/ ClientQuit(f)
    BY <1>6
  <2>2. CASE ClientHello(f)
    BY <1>4, <2>2 DEF ClientHello
  <2>3. CASE PeerAsks(f)
    BY <1>4, <2>3 DEF PeerAsks
  <2>4. CASE ClientAuth(f)
    BY <1>4, <2>4 DEF ClientAuth
  <2>5. CASE ClientCommand(f)
    <3>1. PICK c \in Commands :
            ClientSend(f, {"trusted", "told"}, Command(c, FALSE), phase[f])
      BY <2>5 DEF ClientCommand
    <3>2. c # "HELLO"
      BY ConstantsAssumption
    <3> QED  BY <1>4, <3>1, <3>2
  <2>6. CASE ClientQuit(f)
    BY <1>4, <2>6 DEF ClientQuit
  <2> QED  BY <2>1, <2>2, <2>3, <2>4, <2>5, <2>6
<1> QED  BY <1>5, <1>6 DEF Client

(* Whoever is connected after a step of the server was so before, on the   *)
(* same descriptor, or has just been bound to one with an empty inbox.     *)
LEMMA StillConnected ==
  ASSUME TableInv, LiveInv, TableInv', RunServer \/ UNCHANGED vars,
         ~NewServerUnsigned, NEW s \in Servers, connected'[s]
  PROVE  \/ connected[s] /\ socket'[s] = socket[s]
         \/ NewServer /\ socket'[s] = sfd[i] /\ inbox'[socket'[s]] = <<>>
<1>1. TypeOK
  BY DEF TableInv
<1>2. CASE KeepsConnections \/ UNCHANGED vars
  BY <1>2, ConnectionsKept
<1>3. CASE ServerLost
  BY <1>1, <1>3, ServerLostDrops DEF TypeOK, EntryTypes
<1>4. CASE Quit \/ ParseAuthFails
  <2>1. connected' = [connected EXCEPT ![q2] = FALSE] /\ socket' = socket
    BY <1>4 DEF Quit, ParseAuthFails, CloseConnection
  <2> QED  BY <1>1, <2>1 DEF TypeOK, EntryTypes
<1>5. CASE NewServer
  <2>1. PICK f \in Fds, t \in Servers : f = sfd[i] /\ t = role[f]
    BY <1>5, NewServerLive
  <2>2. /\ connected' = [connected EXCEPT ![t] = TRUE]
        /\ socket' = [socket EXCEPT ![t] = f]
        /\ inbox' = [inbox EXCEPT ![f] = <<>>]
    BY <1>5, <2>1 DEF NewServer, BindServer
  <2> QED  BY <1>1, <1>5, <2>1, <2>2 DEF TypeOK, EntryTypes, NetTypes
<1> QED
  BY <1>2, <1>3, <1>4, <1>5 DEF RunServer, KeepsConnections

(* The parser's slot: set when a buffer is received, left alone until the  *)
(* entry is disconnected.                                                  *)
LEMMA OwnSlotStep ==
  ASSUME TableInv, AtOwnSlot, RunServer \/ UNCHANGED vars, ~NewServerUnsigned
  PROVE  AtOwnSlot'
<1>1. TypeOK
  BY DEF TableInv
<1>2. CASE ReceiveCommands
  <2>1. PICK k \in Nat : k = i
    BY <1>1 DEF TypeOK, LoopTypes
  <2>2. IsListed(k) /\ q2' = GetServer(k) /\ UNCHANGED <<index, i>>
    BY <1>2, <2>1 DEF ReceiveCommands, entryVars
  <2>3. index[q2'] = i
    BY <2>1, <2>2, GetServerFinds
  <2> QED  BY <2>2, <2>3 DEF AtOwnSlot
<1>3. CASE NewServer
  <2>1. PICK t \in Servers : t = role[sfd[i]]
    BY <1>3 DEF NewServer, Hello
  <2>2. index' = [index EXCEPT ![t] = i] /\ q2' = t /\ i' = i
    BY <1>3, <2>1 DEF NewServer
  <2> QED  BY <1>1, <2>2 DEF AtOwnSlot, TypeOK, TableTypes
<1>4. CASE Quit \/ ParseAuthFails
  <2>1. q2 \in Servers /\ q2' = q2 /\ connected' = [connected EXCEPT ![q2] = FALSE]
    BY <1>1, <1>4 DEF Quit, ParseAuthFails, AtCommand, CloseConnection, Consume,
                      TypeOK, LoopTypes
  <2> QED  BY <1>1, <2>1 DEF AtOwnSlot, ConnectedSet, TypeOK, EntryTypes
<1>5. CASE ServerLost \/ RejectVisitor \/ P_GetServerList \/ PeerRequestUnknown
  <2>1. pc' # "parse"
    BY <1>5 DEF ServerLost, RejectVisitor, P_GetServerList, PeerRequestUnknown, AtClient,
                DropVisitor, NextSlot, Fault
  <2> QED  BY <2>1 DEF AtOwnSlot
<1>6. CASE \/ PollReturns \/ ScanEnds \/ SkipSlot \/ Accept \/ AcceptFails
           \/ ServerError \/ ParseEnds
  <2>1. pc' # "parse"
    BY <1>6 DEF PollReturns, ScanEnds, SkipSlot, Accept, AcceptFails, ServerError,
                AtClient, NextSlot, ParseEnds
  <2> QED  BY <2>1 DEF AtOwnSlot
<1>7. CASE VisitorLost \/ NewServerFaults \/ ParseFaults \/ ArrayOverrun
  <2>1. pc' # "parse"
    BY <1>7 DEF VisitorLost, NewServerFaults, ParseFaults, ArrayOverrun, Fault
  <2> QED  BY <2>1 DEF AtOwnSlot
<1>8. CASE \/ ParseData \/ ParseStray \/ ParseGarbled \/ Pong \/ ParseTeleport
           \/ ParseInvite \/ ParseAuth \/ UNCHANGED vars
  <2>1. UNCHANGED <<connected, index, pc, i, q2>>
    BY <1>8 DEF ParseData, ParseStray, ParseGarbled, Pong, ParseTeleport, ParseInvite, ParseAuth, Reply,
                Consume, vars, entryVars, loopVars
  <2> QED  BY <2>1 DEF AtOwnSlot, ConnectedSet
<1> QED
  BY <1>2, <1>3, <1>4, <1>5, <1>6, <1>7, <1>8 DEF RunServer

(* Every step keeps the hellos and the parser's slot.                      *)
LEMMA TrustStep ==
  ASSUME TableInv, TableInv', LiveInv, Flushed, TrustInv, [Next]_vars,
         SignOutcomes = {TRUE}
  PROVE  TrustInv'
<1>1. TypeOK /\ ~NewServerUnsigned
  BY DEF TableInv, NewServerUnsigned, Sign_Client_Challenge
<1>2. CASE RunServer \/ UNCHANGED vars
  <2>1. \A f \in Fds : inbox'[f] = inbox[f] \/ inbox'[f] = <<>>
    BY <1>1, <1>2, InboxShrinks
  <2>2. ASSUME NEW f \in Fds, NEW k \in 1..Len(inbox'[f]), inbox'[f][k].cmd = "HELLO"
        PROVE  phase'[f] = "hello"
    <3>1. inbox'[f] = inbox[f] /\ inbox'[f] # <<>>
      BY <2>1, <2>2
    <3>2. phase[f] = "hello"
      BY <2>2, <3>1 DEF TrustInv, HelloUnread
    <3>3. \A s \in ConnectedSet : socket[s] # f
      BY <2>2, <3>1 DEF TrustInv, HelloUnread
    <3> QED  BY <1>1, <1>2, <3>1, <3>2, <3>3, PhaseMoves
  <2>3. ASSUME NEW s \in Servers, connected'[s], NEW k \in 1..Len(inbox'[socket'[s]])
        PROVE  inbox'[socket'[s]][k].cmd # "HELLO"
    <3>1. inbox'[socket'[s]] # <<>>
      BY <2>3
    <3>2. connected[s] /\ socket'[s] = socket[s]
      BY <1>1, <1>2, <2>3, <3>1, StillConnected
    <3>3. s \in ConnectedSet /\ socket[s] \in Fds
      BY <3>2 DEF LiveInv, SocketBelongs, ConnectedSet
    <3> QED  BY <2>1, <2>3, <3>1, <3>2, <3>3 DEF TrustInv, HelloUnread
  <2>4. HelloUnread'
    BY <2>2, <2>3 DEF HelloUnread, ConnectedSet
  <2> QED  BY <1>1, <1>2, <2>4, OwnSlotStep DEF TrustInv
<1> QED  BY <1>1, <1>2, ClientTrust DEF Next
-----------------------------------------------------------------------------
(* A client that waits for the answer to its AUTH is told that it is       *)
(* trusted only by the step that parses this very answer and finds it      *)
(* right: none meant for another client, or left over from an answer that  *)
(* was refused, reaches it then.                                           *)
THEOREM TrustIsTheClientsOwn == SignOutcomes = {TRUE} => (Spec => TrustIsOwn)
<1> SUFFICES ASSUME SignOutcomes = {TRUE} PROVE Spec => TrustIsOwn
  OBVIOUS
<1> DEFINE Inv == TableInv /\ LiveInv /\ Flushed /\ TrustInv
           Own == \A f \in Fds : phase[f] = "auth" /\ phase'[f] = "trusted" =>
                    /\ pc = "parse" /\ sfd[i] = f /\ q2 \in ConnectedSet /\ socket[q2] = f
                    /\ Head(buf).cmd = "AUTH" /\ Head(buf).flag /\ ~cut[q2]
<1>1. Init => Flushed /\ TrustInv
  BY DEF Init, Flushed, TrustInv, HelloUnread, AtOwnSlot, ConnectedSet
<1>2. TableInv' /\ Inv /\ [Next]_vars => (Flushed /\ TrustInv)'
  BY FlushedStep, TrustStep
<1>3. Spec => [](TableInv /\ LiveInv)
  BY AllInvariants
<1>4. Spec => []Inv
  BY <1>1, <1>2, <1>3, PTL DEF Spec
<1>5. Inv /\ [Next]_vars => [Own]_vars
  <2> SUFFICES ASSUME Inv, Next, NEW f \in Fds, phase[f] = "auth", phase'[f] = "trusted"
               PROVE  /\ pc = "parse" /\ sfd[i] = f /\ q2 \in ConnectedSet
                      /\ socket[q2] = f
                      /\ Head(buf).cmd = "AUTH" /\ Head(buf).flag /\ ~cut[q2]
    OBVIOUS
  <2>1. TypeOK /\ Flushed /\ ~NewServerUnsigned
    BY DEF TableInv, NewServerUnsigned, Sign_Client_Challenge
  <2>2. CASE Pong \/ ParseTeleport \/ ParseInvite \/ ParseAuth
    <3>1. PICK s, r :
            /\ s \in ConnectedSet
            /\ sfd[index[s]] = f /\ eof[f] = "no"
            /\ phase'[f] = Hear(phase[f], r, FALSE)
            /\ "TRUSTED" \in r => ParseAuth /\ s = q2
      BY <2>1, <2>2, MovedByReply
    <3>2. "TRUSTED" \in r
      BY <3>1 DEF Hear
    <3>3. ParseAuth /\ q2 \in ConnectedSet /\ sfd[index[q2]] = f
      BY <3>1, <3>2
    <3>4. pc = "parse" /\ Head(buf).cmd = "AUTH" /\ Head(buf).flag /\ ~cut[q2]
      BY <3>3 DEF ParseAuth, AtCommand, Verified
    <3>5. index[q2] = i
      BY <3>3, <3>4 DEF TrustInv, AtOwnSlot
    <3>6. socket[q2] = f
      BY <3>3 DEF TableInv, SlotOwnership, ConnectedSet
    <3> QED  BY <3>3, <3>4, <3>5, <3>6
  <2>3. CASE NewServer
    <3>1. PICK g \in Fds : g = sfd[i] /\ Received(g) /\ Head(inbox[g]).cmd = "HELLO"
      BY <2>3, NewServerLive DEF NewServer, Hello
    <3>2. phase[g] = "hello"
      <4>1. inbox[g] \in Seq(CommandSet) /\ inbox[g] # <<>>
        BY <2>1, <3>1 DEF Received, TypeOK, NetTypes
      <4>2. 1 \in 1..Len(inbox[g]) /\ Head(inbox[g]) = inbox[g][1]
        BY <4>1
      <4> QED  BY <3>1, <4>2 DEF TrustInv, HelloUnread
    <3>3. PICK replies, cipher :
            phase' = [phase EXCEPT ![g] =
                        IF eof[g] = "no" THEN Hear(@, replies, cipher) ELSE @]
      BY <2>3, <3>1 DEF NewServer
    <3>4. phase'[g] # "trusted" /\ \A h \in Fds : h # g => phase'[h] = phase[h]
      BY <2>1, <3>2, <3>3 DEF Hear, TypeOK, NetTypes
    <3> QED  BY <3>4
  <2>4. CASE Client
    <3>1. ASSUME NEW g \in Fds, NEW from, NEW m, NEW p, ClientSend(g, from, m, p),
                 p = "trusted" => p = phase[g]
          PROVE  FALSE
      BY <2>1, <3>1 DEF ClientSend, TypeOK, NetTypes
    <3>2. UNCHANGED phase \/ \E g \in Fds : ClientHello(g) \/ PeerAsks(g)
                              \/ ClientAuth(g) \/ ClientCommand(g) \/ ClientQuit(g)
      BY <2>4 DEF Client, ClientConnect, ClientClose
    <3>3. ASSUME NEW g \in Fds, ClientCommand(g) PROVE FALSE
      BY <3>1, <3>3 DEF ClientCommand
    <3>4. ASSUME NEW g \in Fds,
                 ClientHello(g) \/ PeerAsks(g) \/ ClientAuth(g) \/ ClientQuit(g)
          PROVE  FALSE
      <4>1. PICK from, m, p : p \in {"hello", "auth", "quit"} /\ ClientSend(g, from, m, p)
        BY <3>4 DEF ClientHello, PeerAsks, ClientAuth, ClientQuit
      <4> QED  BY <3>1, <4>1
    <3> QED  BY <3>2, <3>3, <3>4
  <2>5. CASE Accept
    BY <2>1, <2>5 DEF Accept, TypeOK, NetTypes
  <2>6. CASE ServerLost \/ Quit \/ ParseAuthFails
    <3>1. PICK g : Close(g)
      BY <2>6 DEF ServerLost, Quit, ParseAuthFails, CloseConnection
    <3> QED  BY <2>1, <3>1 DEF Close, TypeOK, NetTypes
  <2>7. CASE RejectVisitor \/ P_GetServerList \/ PeerRequestUnknown
    <3>1. Close(sfd[i]) \/ UNCHANGED phase
      BY <2>7 DEF RejectVisitor, P_GetServerList, PeerRequestUnknown, Fault, netVars
    <3> QED  BY <2>1, <3>1 DEF Close, TypeOK, NetTypes
  <2>8. CASE \/ PollReturns \/ ScanEnds \/ SkipSlot \/ AcceptFails \/ ReceiveCommands
             \/ ServerError \/ ParseEnds \/ ParseData \/ ParseStray \/ ParseGarbled
    BY <2>8 DEF PollReturns, ScanEnds, SkipSlot, AcceptFails, ServerError, ReceiveCommands,
                ParseEnds, ParseData, ParseStray, ParseGarbled, netVars
  <2>9. CASE VisitorLost \/ NewServerFaults \/ ParseFaults \/ ArrayOverrun
    BY <2>9 DEF VisitorLost, NewServerFaults, ParseFaults, ArrayOverrun, Fault, netVars
  <2> QED
    BY <2>1, <2>2, <2>3, <2>4, <2>5, <2>6, <2>7, <2>8, <2>9 DEF Next, RunServer
<1> QED
  BY <1>4, <1>5, PTL DEF Spec, TrustIsOwn
=============================================================================
