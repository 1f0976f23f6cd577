------------------------------ MODULE Q2AServer ------------------------------
(***************************************************************************)
(* The connection manager of the q2admin server: the poll loop RunServer,  *)
(* the table of registered game servers, the hello/auth handshake and the  *)
(* per-server send buffer.  The process has one thread, so every handler   *)
(* is one step; the game servers (clients), the peers and the kernel act   *)
(* between the steps.                                                      *)
(*                                                                         *)
(* A buffer returned by recv() is parsed one command per step (pc =        *)
(* "parse"), in the order of the while loop of ParseMessage.               *)
(***************************************************************************)
EXTENDS Naturals, Sequences, FiniteSets, PollTable

CONSTANTS
  NumServers,    (* enabled rows in the database                            *)
  Fds,           (* descriptors accept() may return (bounds open sockets)   *)
  Listener,      (* the listening descriptor                                *)
  NoFd,          (* "no descriptor": the 0 the C code stores                *)
  Peer,          (* a visitor that sends MAGIC_PEER                         *)
  Stranger,      (* a visitor whose key is not in the table                 *)
  Visitors,      (* who connects in this instance                           *)
  EncModes,      (* values of hello_t.encrypted                             *)
  SignOutcomes,  (* whether Sign_Client_Challenge finds the private key     *)
  ChallengeCuts, (* whether strncpy cuts the random challenge at a NUL      *)
  Answers,       (* whether a client's key pair is the registered one       *)
  KeyFiles,      (* servers whose keys/<key>.pem exists                     *)
  KeyReads,      (* whether that file holds a key that can be read          *)
  HangUps,       (* how the other end leaves: "fin" (closed) or "rst"       *)
  Garbage,       (* what malloc() may leave in a revents field              *)
  Commands,      (* commands a client sends in this instance                *)
  MaxInbox,      (* bound: commands a client has in flight                  *)
  MaxBacklog     (* bound: connections waiting in the listen queue          *)

Servers == 1..NumServers
NULL == 0
Roles == Servers \cup {Peer, Stranger}

(* malloc(socket_size * sizeof(struct pollfd) + 5): the 5 are bytes, so    *)
(* there is room for as many entries as there are registered servers, the  *)
(* listener included.  Nothing in the code looks at it again.              *)
SizeofPollfd == 8
Allocated == (NumServers * SizeofPollfd + 5) \div SizeofPollfd

(* The entries in and behind that memory that are ever written: the        *)
(* listener's, one for each server after a rebuild, and one for each       *)
(* descriptor accept() can return before the next.                         *)
MaxSlots == NumServers + Cardinality(Fds) + 1
Slots == 0..(MaxSlots - 1)

ASSUME ConstantsAssumption ==
  /\ NumServers \in Nat \ {0}
  /\ MaxInbox \in Nat /\ MaxBacklog \in Nat
  /\ Listener \notin Fds /\ NoFd \notin Fds /\ Listener # NoFd
  /\ IsFiniteSet(Fds)
  /\ Peer \notin Servers /\ Stranger \notin Servers /\ Peer # Stranger
  /\ Visitors \subseteq Roles
  /\ EncModes \subseteq BOOLEAN /\ SignOutcomes \subseteq BOOLEAN
  /\ ChallengeCuts \subseteq BOOLEAN /\ Answers \subseteq BOOLEAN
  /\ KeyFiles \subseteq Servers /\ KeyReads \subseteq BOOLEAN
  /\ HangUps \subseteq {"fin", "rst"} /\ Garbage \subseteq BOOLEAN
  /\ Commands \subseteq {"PING", "COMMAND_TELEPORT", "COMMAND_INVITE", "DATA", "QUIT"}

(* What a client puts on the wire.  flag is hello_t.encrypted in a HELLO   *)
(* and the correctness of the signature in an AUTH.  DATA stands for the   *)
(* commands that only touch the player table, the map or the log, and      *)
(* GARBLED for bytes that are read from the wrong place, or were           *)
(* deciphered with the wrong key, up to where the commands go on.          *)
Command(c, flag) == [cmd |-> c, flag |-> flag]
CommandNames == {"HELLO", "PEER", "AUTH", "QUIT", "PING", "COMMAND_TELEPORT",
                 "COMMAND_INVITE", "DATA", "GARBLED"}
CommandSet == [cmd : CommandNames, flag : BOOLEAN]
Replies == {"HELLOACK", "ERROR", "PONG", "COMMAND", "SAYCLIENT", "SAYALL",
            "TRUSTED"}
Resource == {"null", "live", "freed"}
Phases == {"none", "new", "hello", "acked", "told", "auth", "trusted", "quit"}
FaultKinds == {"none", "null_deref", "double_free", "use_after_free",
               "overrun", "sigpipe"}

VARIABLES
  \* q2_server_t, one entry per registered server
  connected, index, socket, trusted, encrypted,
  publickey,     (* the RSA object                                          *)
  ctx,           (* e_ctx and d_ctx, always created and freed together      *)
  cut,           (* the stored cl_challenge differs from the one sent       *)
  msg,           (* the replies in srv->msg that are not sent, as a set     *)
  \* the poll array
  sfd,           (* sockets[j].fd                                           *)
  revents,       (* sockets[j].revents & POLLIN                             *)
  socket_count,
  \* RunServer's locals
  pc, i, q2,
  buf,           (* commands of the received buffer not parsed yet          *)
  fault,         (* what has stopped the process                            *)
  \* the kernel and the other end of each descriptor
  open, eof, inbox, role, phase, backlog

entryVars == <<connected, index, socket, trusted, encrypted, publickey, ctx,
               cut, msg>>
tableVars == <<sfd, revents, socket_count>>
loopVars  == <<pc, i, q2, buf, fault>>
netVars   == <<open, eof, inbox, role, phase, backlog>>
vars      == <<entryVars, tableVars, loopVars, netVars>>
-----------------------------------------------------------------------------
(* LoadServers zeroes every entry; RunServer allocates the poll array      *)
(* without clearing it, so only slot 0 has a known revents.                *)
Init ==
  /\ connected = [s \in Servers |-> FALSE]
  /\ index     = [s \in Servers |-> 0]
  /\ socket    = [s \in Servers |-> NoFd]
  /\ trusted   = [s \in Servers |-> FALSE]
  /\ encrypted = [s \in Servers |-> FALSE]
  /\ publickey = [s \in Servers |-> "null"]
  /\ ctx       = [s \in Servers |-> "null"]
  /\ cut       = [s \in Servers |-> FALSE]
  /\ msg       = [s \in Servers |-> {}]
  /\ sfd       = [j \in Slots |-> IF j = 0 THEN Listener ELSE NoFd]
  /\ revents \in {r \in [Slots -> Garbage \cup {FALSE}] :
                    ~r[0] /\ \A j \in Slots \ {0} : r[j] \in Garbage}
  /\ socket_count = 1
  /\ pc = "poll" /\ i = 0 /\ q2 = NULL /\ buf = <<>> /\ fault = "none"
  /\ open  = [f \in Fds |-> FALSE]
  /\ eof   = [f \in Fds |-> "no"]
  /\ inbox = [f \in Fds |-> <<>>]
  /\ role  = [f \in Fds |-> Stranger]
  /\ phase = [f \in Fds |-> "none"]
  /\ backlog = <<>>
-----------------------------------------------------------------------------
(* The other end of a descriptor.                                          *)

ClientConnect(r) ==
  /\ Len(backlog) < MaxBacklog
  /\ backlog' = Append(backlog, r)
  /\ UNCHANGED <<entryVars, tableVars, loopVars, open, eof, inbox, role, phase>>

(* The client writes one message and moves to phase p.                     *)
ClientSend(f, from, m, p) ==
  /\ open[f] /\ eof[f] = "no" /\ phase[f] \in from
  /\ Len(inbox[f]) < MaxInbox
  /\ inbox' = [inbox EXCEPT ![f] = Append(@, m)]
  /\ phase' = [phase EXCEPT ![f] = p]
  /\ UNCHANGED <<entryVars, tableVars, loopVars, open, eof, role, backlog>>

ClientHello(f) ==
  /\ role[f] # Peer
  /\ \E e \in EncModes : ClientSend(f, {"new"}, Command("HELLO", e), "hello")

(* flag: the request is PEER_GETSERVERS, the only one the server knows.    *)
PeerAsks(f) ==
  /\ role[f] = Peer
  /\ \E known \in BOOLEAN : ClientSend(f, {"new"}, Command("PEER", known), "hello")

ClientAuth(f) ==
  \E right \in Answers :
    ClientSend(f, {"acked", "told"}, Command("AUTH", right), "auth")

ClientCommand(f) ==
  \E c \in Commands \ {"QUIT"} :
    ClientSend(f, {"trusted", "told"}, Command(c, FALSE), phase[f])

ClientQuit(f) ==
  /\ "QUIT" \in Commands
  /\ ClientSend(f, {"acked", "told", "trusted"}, Command("QUIT", FALSE), "quit")

(* The other process exits at any time, with or without unread replies.    *)
ClientClose(f) ==
  /\ open[f] /\ eof[f] = "no"
  /\ \E how \in HangUps : eof' = [eof EXCEPT ![f] = how]
  /\ UNCHANGED <<entryVars, tableVars, loopVars, open, inbox, role, phase,
                 backlog>>
-----------------------------------------------------------------------------
(* Helpers of the handlers.                                                *)

IsListed(k) == \E s \in Servers : index[s] = k

(* Mutant of GetServer: the first entry whose index is set at all.         *)
GetServerFirst(k) ==
  IF IsListed(k)
  THEN CHOOSE s \in Servers : index[s] # 0 /\ \A t \in Servers : index[t] # 0 => s <= t
  ELSE NULL

(* get_server(k): the first entry of the list whose index is k, or NULL.   *)
GetServer(k) ==
  IF IsListed(k)
  THEN CHOOSE s \in Servers : index[s] = k /\ \A t \in Servers : index[t] = k => s <= t
  ELSE NULL

(* Mutant of RemoveServerSocket: the entries keep their old index.         *)
RemoveServerSocketKeepsIndex(C, sock, idx) ==
  /\ index' = idx
  /\ sfd' = [j \in Slots |-> IF j \in 1..Cardinality(C)
                             THEN sock[Occupant(C, j)] ELSE sfd[j]]
  /\ socket_count' = SlotsUsed(C)
  /\ UNCHANGED revents

(* remove_server_socket() when C is the set of connected entries, sock     *)
(* their sockets and idx the index fields before the call.  revents stays  *)
(* where it was.                                                           *)
RemoveServerSocket(C, sock, idx) ==
  /\ index' = [s \in Servers |-> IF s \in C THEN Rank(C, s) ELSE idx[s]]
  /\ sfd' = [j \in Slots |-> IF j \in 1..Cardinality(C)
                             THEN sock[Occupant(C, j)] ELSE sfd[j]]
  /\ socket_count' = SlotsUsed(C)
  /\ UNCHANGED revents

ConnectedSet == {s \in Servers : connected[s]}

(* RSA_free, EVP_CIPHER_CTX_free: the pointer is kept.                     *)
Free(resource) == IF resource = "live" THEN "freed" ELSE resource

(* close(f); the descriptor number becomes free again.                      *)
Close(f) ==
  /\ open'  = [open EXCEPT ![f] = FALSE]
  /\ eof'   = [eof EXCEPT ![f] = "no"]
  /\ inbox' = [inbox EXCEPT ![f] = <<>>]
  /\ role'  = [role EXCEPT ![f] = Stranger]
  /\ phase' = [phase EXCEPT ![f] = "none"]
  /\ UNCHANGED backlog

(* What the replies sent to a client bring it to: it waits for the         *)
(* HELLOACK, then for the answer to its AUTH.  "told" is a client that was *)
(* sent a TRUSTED along with its HELLOACK, before it has answered          *)
(* anything.  A HELLOACK under a session key it has not got yet leaves it  *)
(* waiting.                                                                *)
Hear(p, replies, cipher) ==
  CASE p = "hello" /\ ~cipher /\ "HELLOACK" \in replies ->
         IF "TRUSTED" \in replies THEN "told" ELSE "acked"
    [] p = "auth" /\ "TRUSTED" \in replies -> "trusted"
    [] OTHER -> p

(* Descriptors SendBuffer() reaches when it is called for the entries S.   *)
Reached(S) == {sfd[index[s]] : s \in {t \in S : connected[t]}}
LiveFds(F) == {f \in F \cap Fds : open[f]}

(* send() to a peer that reset the connection raises SIGPIPE.              *)
BrokenPipe(S) == \E f \in LiveFds(Reached(S)) : eof[f] \in {"rst", "dead"}

(* The peer of a descriptor in F answers a send with a reset if it has     *)
(* already closed; the reset may or may not be back before the next call.  *)
AfterSend(F) ==
  {[f \in Fds |-> IF f \in R THEN "rst" ELSE eof[f]] :
      R \in SUBSET {f \in F : eof[f] = "fin"}}

(* What the clients that SendBuffer() reaches make of the buffers out.      *)
Heard(S, out) ==
  [f \in Fds |->
     IF f \in LiveFds(Reached(S)) /\ eof[f] = "no"
     THEN LET s == CHOOSE s \in S : connected[s] /\ sfd[index[s]] = f
          IN Hear(phase[f], out[s], FALSE)
     ELSE phase[f]]

(* Mutant of SendBuffer: the memset after send() is missing.               *)
SendBufferKeeps(S, out) ==
  /\ ~BrokenPipe(S)
  /\ msg' = out
  /\ phase' = Heard(S, out)
  /\ eof' \in AfterSend(LiveFds(Reached(S)))

(* SendBuffer(s) for every s in S, when msg holds out: an entry that is    *)
(* not connected keeps its bytes.                                          *)
SendBuffer(S, out) ==
  /\ ~BrokenPipe(S)
  /\ msg' = [s \in Servers |-> IF s \in S /\ connected[s] THEN {} ELSE out[s]]
  /\ phase' = Heard(S, out)
  /\ eof' \in AfterSend(LiveFds(Reached(S)))

(* Bytes that are read wrongly, and then rest.                             *)
Garbled(rest) ==
  LET g == Command("GARBLED", FALSE)
  IN IF rest # <<>> /\ Head(rest) = g THEN rest ELSE <<g>> \o rest

(* The process stops.  The use of a NULL pointer and a SIGPIPE always stop *)
(* it.  What a write outside an object does, or a second free, or the use  *)
(* of what was freed, is not defined: each may stop the process and may    *)
(* pass unnoticed, so the step it belongs to is there as well.             *)
Fault(kind) ==
  /\ fault' = kind /\ pc' = "halted"
  /\ UNCHANGED <<entryVars, tableVars, netVars, i, q2, buf>>
-----------------------------------------------------------------------------
(* RunServer: poll() and the scan of the array.                            *)

Readable(f) == open[f] /\ (inbox[f] # <<>> \/ eof[f] # "no")
Ready(j) == IF sfd[j] = Listener THEN backlog # <<>>
            ELSE sfd[j] \in Fds /\ Readable(sfd[j])
(* poll() reports POLLNVAL, which the loop ignores, for a closed slot.     *)
Invalid(j) == sfd[j] \in Fds /\ ~open[sfd[j]]

PollReturns ==
  /\ pc = "poll"
  /\ \E j \in Slots : j < socket_count /\ (Ready(j) \/ Invalid(j))
  /\ revents' = [j \in Slots |-> IF j < socket_count THEN Ready(j) ELSE revents[j]]
  /\ i' = 0 /\ pc' = "scan"
  /\ UNCHANGED <<entryVars, sfd, socket_count, q2, buf, fault, netVars>>

NextSlot == i' = i + 1 /\ UNCHANGED <<pc, q2, buf, fault>>

ScanEnds ==
  /\ pc = "scan" /\ i >= socket_count
  /\ pc' = "poll" /\ i' = 0
  /\ UNCHANGED <<entryVars, tableVars, q2, buf, fault, netVars>>

SkipSlot ==
  /\ pc = "scan" /\ i < socket_count /\ ~revents[i]
  /\ NextSlot
  /\ UNCHANGED <<entryVars, tableVars, netVars>>

(* Mutant of AddServerSocket: the count is advanced before the write.      *)
AddServerSocketLate(f) ==
  /\ sfd' = [sfd EXCEPT ![(socket_count + 1) % MaxSlots] = f]
  /\ socket_count' = socket_count + 1
  /\ UNCHANGED revents

AddServerSocket(f) ==
  /\ sfd' = [sfd EXCEPT ![socket_count] = f]
  /\ socket_count' = socket_count + 1
  /\ UNCHANGED revents

(* accept() takes the first waiting connection and any unused descriptor.  *)
Accept ==
  /\ pc = "scan" /\ i < socket_count /\ revents[i] /\ sfd[i] = Listener
  /\ backlog # <<>>
  /\ \E f \in Fds :
        /\ ~open[f]
        /\ open'  = [open EXCEPT ![f] = TRUE]
        /\ role'  = [role EXCEPT ![f] = Head(backlog)]
        /\ phase' = [phase EXCEPT ![f] = "new"]
        /\ AddServerSocket(f)
  /\ backlog' = Tail(backlog)
  /\ NextSlot
  /\ UNCHANGED <<entryVars, eof, inbox>>

(* accept() fails when no descriptor is left; the loop goes on.            *)
AcceptFails ==
  /\ pc = "scan" /\ i < socket_count /\ revents[i] /\ sfd[i] = Listener
  /\ \A f \in Fds : open[f]
  /\ NextSlot
  /\ UNCHANGED <<entryVars, tableVars, netVars>>

(* An entry behind the allocated ones has been written: by                 *)
(* add_server_socket(), by remove_server_socket(), or by poll().  Whose    *)
(* memory that was shows, if ever, at any time after.                      *)
Overran == \E j \in Slots : j >= Allocated /\ sfd[j] # NoFd
ArrayOverrun == pc # "halted" /\ Overran /\ Fault("overrun")
-----------------------------------------------------------------------------
(* RunServer: a client slot that poll() marked readable.                   *)

AtClient == pc = "scan" /\ i < socket_count /\ revents[i] /\ sfd[i] # Listener
Received(f)  == open[f] /\ inbox[f] # <<>>
RecvZero(f)  == open[f] /\ inbox[f] = <<>> /\ eof[f] \in {"fin", "dead"}
(* recv() returns -1; msg.length is a size_t, so the loop takes this for   *)
(* data, and the cleared buffer parses as a run of CMD_NULL.               *)
RecvError(f) == ~open[f] \/ (inbox[f] = <<>> /\ eof[f] = "rst")

(* Mutant of ServerLost: connected is not cleared.                         *)
ServerLostKeepsConnected ==
  /\ AtClient /\ RecvZero(sfd[i]) /\ IsListed(i)
  /\ RemoveServerSocket(ConnectedSet, socket, index)
  /\ Close(sfd[i])
  /\ NextSlot
  /\ UNCHANGED <<connected, socket, trusted, encrypted, publickey, ctx, cut, msg>>

(* recv() = 0 on the slot of a known server.                               *)
ServerLost ==
  /\ AtClient /\ RecvZero(sfd[i]) /\ IsListed(i)
  /\ LET s == GetServer(i) IN
       /\ connected' = [connected EXCEPT ![s] = FALSE]
       /\ socket' = [socket EXCEPT ![s] = NoFd]
       /\ RemoveServerSocket(ConnectedSet \ {s}, socket, [index EXCEPT ![s] = 0])
  /\ Close(sfd[i])
  /\ NextSlot
  /\ UNCHANGED <<trusted, encrypted, publickey, ctx, cut, msg>>

(* recv() = 0 on a slot no server owns: q2 is NULL in q2->name.            *)
VisitorLost == AtClient /\ RecvZero(sfd[i]) /\ ~IsListed(i) /\ Fault("null_deref")

ServerError ==
  /\ AtClient /\ RecvError(sfd[i]) /\ IsListed(i)
  /\ eof' = IF open[sfd[i]] THEN [eof EXCEPT ![sfd[i]] = "dead"] ELSE eof
  /\ NextSlot
  /\ UNCHANGED <<entryVars, tableVars, open, inbox, role, phase, backlog>>

(* remove_server_socket() after a visitor was dealt with.                  *)
DropVisitor ==
  /\ RemoveServerSocket(ConnectedSet, socket, index)
  /\ NextSlot
  /\ UNCHANGED <<connected, socket, trusted, encrypted, publickey, ctx, cut, msg>>

Hello(f) == Received(f) /\ Head(inbox[f]).cmd = "HELLO" /\ role[f] \in Servers
PeerRequest(f) == Received(f) /\ Head(inbox[f]).cmd = "PEER"

RejectVisitor ==
  /\ AtClient /\ ~IsListed(i)
  /\ \/ RecvError(sfd[i])
     \/ Received(sfd[i]) /\ ~Hello(sfd[i]) /\ ~PeerRequest(sfd[i])
  /\ Close(sfd[i])
  /\ DropVisitor

(* P_GetServerList sends the list and closes the descriptor.               *)
P_GetServerList ==
  /\ AtClient /\ ~IsListed(i) /\ PeerRequest(sfd[i])
  /\ Head(inbox[sfd[i]]).flag
  /\ IF eof[sfd[i]] = "rst" THEN Fault("sigpipe") ELSE Close(sfd[i]) /\ DropVisitor

(* Another request byte: the descriptor is not closed.                     *)
PeerRequestUnknown ==
  /\ AtClient /\ ~IsListed(i) /\ PeerRequest(sfd[i])
  /\ ~Head(inbox[sfd[i]]).flag
  /\ inbox' = [inbox EXCEPT ![sfd[i]] = <<>>]
  /\ DropVisitor
  /\ UNCHANGED <<open, eof, role, phase, backlog>>

(* What ParseMessage reads of the commands in one buffer.  In an encrypted *)
(* session each was enciphered by itself and the buffer is deciphered as   *)
(* one message: padding and a garbled block follow the first command.      *)
Deciphered(s, cmds) ==
  IF encrypted[s] /\ trusted[s] /\ Len(cmds) > 1
  THEN <<Head(cmds)>> \o Garbled(<<>>)
  ELSE cmds

ReceiveCommands ==
  /\ AtClient /\ IsListed(i) /\ Received(sfd[i])
  /\ q2' = GetServer(i) /\ pc' = "parse"
  /\ buf' = Deciphered(GetServer(i), inbox[sfd[i]])
  /\ inbox' = [inbox EXCEPT ![sfd[i]] = <<>>]
  /\ UNCHANGED <<entryVars, tableVars, i, fault, open, eof, role, phase, backlog>>

(* SendBuffer uses the contexts of s, which CloseConnection has freed; e   *)
(* is the encrypted flag.  (ParseMessage would too, but a client that was  *)
(* acknowledged under them does not get so far as to send anything.)       *)
UsesFreed(s, e) == e /\ trusted[s] /\ ctx[s] = "freed"

(* new_server() up to the call of ServerAuthResponse: the fields copied    *)
(* from the hello into the entry s.                                        *)
BindServer(s, f, e) ==
  /\ connected' = [connected EXCEPT ![s] = TRUE]
  /\ socket'    = [socket EXCEPT ![s] = f]
  /\ encrypted' = [encrypted EXCEPT ![s] = e]
  /\ \E c \in ChallengeCuts : cut' = [cut EXCEPT ![s] = c]
  /\ UNCHANGED <<trusted, ctx>>

(* Whether the challenge of the client can be signed: the private key is   *)
(* read from its file again for every hello.                               *)
Sign_Client_Challenge(signed) == signed \in SignOutcomes

(* Mutant of LoadClientPublicKey: the key of an earlier session is kept.    *)
LoadClientPublicKeyOnce(s, key) ==
  publickey' = [publickey EXCEPT ![s] = IF @ = "null" THEN key ELSE @]

LoadClientPublicKey(s, key) == publickey' = [publickey EXCEPT ![s] = key]

(* What PEM_read_RSAPublicKey makes of the key file: an unreadable key is  *)
(* a NULL pointer, which nobody looks at.                                  *)
KeyRead == {IF readable THEN "live" ELSE "null" : readable \in KeyReads}

(* new_server() when ServerAuthResponse succeeds.                          *)
NewServer ==
  /\ AtClient /\ ~IsListed(i) /\ Hello(sfd[i]) /\ Sign_Client_Challenge(TRUE)
  /\ LET f == sfd[i]
         s == role[f]
         e == Head(inbox[f]).flag
     IN /\ s \in KeyFiles /\ eof[f] \in {"no", "fin"}
        /\ BindServer(s, f, e)
        /\ index' = [index EXCEPT ![s] = i]
        /\ \E key \in KeyRead : (e => key # "null") /\ LoadClientPublicKey(s, key)
        /\ msg' = [msg EXCEPT ![s] = {}]
        /\ phase' = [phase EXCEPT ![f] =
             IF eof[f] = "no"
             THEN Hear(@, msg[s] \cup {"HELLOACK"}, e /\ trusted[s]) ELSE @]
        /\ eof' \in AfterSend({f})
        /\ q2' = s /\ pc' = "parse"
        /\ buf' = IF e /\ trusted[s] THEN Garbled(<<>>) ELSE Tail(inbox[f])
        /\ inbox' = [inbox EXCEPT ![f] = <<>>]
  /\ UNCHANGED <<tableVars, i, fault, open, role, backlog>>

(* new_server() when the challenge cannot be signed: SendError, then the   *)
(* caller's InvalidClient; the entry stays connected.                      *)
NewServerUnsigned ==
  /\ AtClient /\ ~IsListed(i) /\ Hello(sfd[i]) /\ Sign_Client_Challenge(FALSE)
  /\ LET f == sfd[i]
         s == role[f]
         e == Head(inbox[f]).flag
     IN /\ s \in KeyFiles /\ eof[f] \in {"no", "fin"}
        /\ BindServer(s, f, e)
        /\ \E key \in KeyRead : publickey' = [publickey EXCEPT ![s] = Free(key)]
        /\ msg' = [msg EXCEPT ![s] = {}]
        /\ Close(f)
        /\ RemoveServerSocket(ConnectedSet \cup {s}, [socket EXCEPT ![s] = f],
                              [index EXCEPT ![s] = i])
  /\ NextSlot

(* new_server() on an entry or a key file it cannot use: fclose(NULL), the *)
(* session key enciphered with a NULL key, freed contexts.                 *)
NewServerFaults ==
  /\ AtClient /\ ~IsListed(i) /\ Hello(sfd[i])
  /\ LET s == role[sfd[i]]
         e == Head(inbox[sfd[i]]).flag
     IN \/ s \notin KeyFiles /\ Fault("null_deref")
        \/ /\ s \in KeyFiles /\ e /\ "null" \in KeyRead /\ Sign_Client_Challenge(TRUE)
           /\ Fault("null_deref")
        \/ s \in KeyFiles /\ UsesFreed(s, e) /\ Fault("use_after_free")
        \/ s \in KeyFiles /\ eof[sfd[i]] \in {"rst", "dead"} /\ Fault("sigpipe")
-----------------------------------------------------------------------------
(* ParseMessage: one command of the buffer per step.                       *)

AtCommand(names) == pc = "parse" /\ buf # <<>> /\ Head(buf).cmd \in names
Consume == buf' = Tail(buf) /\ UNCHANGED <<pc, i, q2, fault>>

ParseEnds ==
  /\ pc = "parse" /\ buf = <<>>
  /\ pc' = "scan" /\ i' = i + 1 /\ q2' = NULL
  /\ UNCHANGED <<entryVars, tableVars, buf, fault, netVars>>

(* Replies appended to the message of q2 and sent at once.                 *)
Reply(replies) ==
  /\ SendBuffer({q2}, [msg EXCEPT ![q2] = @ \cup replies])
  /\ Consume
  /\ UNCHANGED <<connected, index, socket, trusted, encrypted, publickey, ctx, cut,
                 tableVars, open, inbox, role, backlog>>

Pong == AtCommand({"PING"}) /\ Reply({"PONG"})

(* A list of the servers, a refusal, or a text and a connect command.      *)
ParseTeleport ==
  /\ AtCommand({"COMMAND_TELEPORT"})
  /\ \/ Reply({"SAYCLIENT"})
     \/ Reply({"SAYCLIENT", "COMMAND"})

(* The invitation is sent to every connected server.                       *)
ParseInvite ==
  /\ AtCommand({"COMMAND_INVITE"})
  /\ SendBuffer(ConnectedSet,
                [s \in Servers |-> IF connected[s] THEN msg[s] \cup {"SAYALL"} ELSE msg[s]])
  /\ Consume
  /\ UNCHANGED <<connected, index, socket, trusted, encrypted, publickey, ctx, cut,
                 tableVars, open, inbox, role, backlog>>

(* Mutant of Verified: the challenge that was sent is compared, not the     *)
(* one that was stored.                                                    *)
VerifiedUncut == Head(buf).flag

(* VerifyClientChallenge: the signature is right and the stored challenge  *)
(* is the one that was sent.  The length comes from the message and is not *)
(* looked at: what a wrong answer does to the stack is in ParseFaults, and *)
(* what is read after it in Skipped.                                       *)
Verified == Head(buf).flag /\ ~cut[q2]

(* Mutant of ParseAuth: TRUSTED is written but not sent.                   *)
ParseAuthUnsent ==
  /\ AtCommand({"AUTH"}) /\ publickey[q2] = "live" /\ Verified
  /\ ctx' = [ctx EXCEPT ![q2] = "live"]
  /\ trusted' = [trusted EXCEPT ![q2] = TRUE]
  /\ msg' = [msg EXCEPT ![q2] = @ \cup {"TRUSTED"}]
  /\ Consume
  /\ UNCHANGED <<connected, index, socket, encrypted, publickey, cut, tableVars,
                 netVars>>

ParseAuth ==
  /\ AtCommand({"AUTH"}) /\ publickey[q2] = "live" /\ Verified
  /\ ctx' = [ctx EXCEPT ![q2] = "live"]
  /\ trusted' = [trusted EXCEPT ![q2] = TRUE]
  /\ SendBuffer({q2}, [msg EXCEPT ![q2] = @ \cup {"TRUSTED"}])
  /\ Consume
  /\ UNCHANGED <<connected, index, socket, encrypted, publickey, cut, tableVars,
                 open, inbox, role, backlog>>

(* Mutant of CloseConnection: the poll array is rebuilt before connected   *)
(* is cleared.                                                             *)
CloseConnectionEarlyRebuild ==
  /\ publickey' = [publickey EXCEPT ![q2] = Free(@)]
  /\ ctx' = [ctx EXCEPT ![q2] = Free(@)]
  /\ Close(socket[q2])
  /\ connected' = [connected EXCEPT ![q2] = FALSE]
  /\ RemoveServerSocket(ConnectedSet, socket, index)
  /\ UNCHANGED <<socket, trusted, encrypted, cut>>

CloseConnection ==
  /\ publickey' = [publickey EXCEPT ![q2] = Free(@)]
  /\ ctx' = [ctx EXCEPT ![q2] = Free(@)]
  /\ Close(socket[q2])
  /\ connected' = [connected EXCEPT ![q2] = FALSE]
  /\ RemoveServerSocket(ConnectedSet \ {q2}, socket, [index EXCEPT ![q2] = 0])
  /\ UNCHANGED <<socket, trusted, encrypted, cut>>

Quit ==
  /\ AtCommand({"QUIT"})
  /\ CloseConnection
  /\ Consume
  /\ UNCHANGED msg

(* Where the reading goes on after an answer: behind it if it is a right   *)
(* one, and for any other at a place its length field names.               *)
Skipped ==
  IF Head(buf).flag THEN {Tail(buf)}
  ELSE {Garbled(SubSeq(buf, n, Len(buf))) : n \in 2..(Len(buf) + 1)}

(* A failed ParseAuth: ERROR is sent, the connection is closed, and the    *)
(* function falls through to the lines that queue TRUSTED.                 *)
ParseAuthFails ==
  /\ AtCommand({"AUTH"}) /\ publickey[q2] # "null"
  /\ ~(publickey[q2] = "live" /\ Verified) /\ ~BrokenPipe({q2})
  /\ CloseConnection
  /\ msg' = [msg EXCEPT ![q2] = IF connected[q2] THEN {"TRUSTED"}
                                 ELSE @ \cup {"ERROR", "TRUSTED"}]
  /\ buf' \in Skipped /\ UNCHANGED <<pc, i, q2, fault>>

(* The commands read after a list of players.  The loop over the list      *)
(* reads each id into its own counter, so ids with a gap end it early and  *)
(* the rest of the list is read as commands.                               *)
ParsePlayerList(rest) == {rest, Garbled(rest)}

(* The commands that change only the player table, the map or the log; one *)
(* of them is the list of players.                                         *)
ParseData ==
  /\ AtCommand({"DATA"})
  /\ buf' \in ParsePlayerList(Tail(buf))
  /\ UNCHANGED <<pc, i, q2, fault, entryVars, tableVars, netVars>>

(* A hello or a peer request on the slot of a known server is read byte by *)
(* byte as commands.                                                       *)
ParseStray ==
  /\ AtCommand({"HELLO", "PEER"})
  /\ buf' = Garbled(Tail(buf))
  /\ UNCHANGED <<pc, i, q2, fault, entryVars, tableVars, netVars>>

FreedTwice == publickey[q2] = "freed" \/ ctx[q2] = "freed"
Answering == {"PING", "COMMAND_TELEPORT", "COMMAND_INVITE", "AUTH"}

(* Any number of any commands, but no right answer to a challenge.  A list *)
(* of players among them only leads to more of the same.                   *)
ParseGarbled ==
  /\ AtCommand({"GARBLED"})
  /\ \/ \E c \in Answering \cup {"QUIT"} : buf' = <<Command(c, FALSE)>> \o buf
     \/ buf' = Tail(buf)
  /\ UNCHANGED <<pc, i, q2, fault, entryVars, tableVars, netVars>>

(* Undefined behaviour and signals the commands can run into.  A list of   *)
(* players that is cut, or full, is read on beyond the buffer (module      *)
(* Players); an answer is copied into cipher[RSA_LEN] at the length its    *)
(* message gives; the names of many players overrun the list of servers    *)
(* for a teleport; the replies of an entry that is not connected gather in *)
(* its buffer, of which nobody looks at the end.                           *)
ParseFaults ==
  \/ AtCommand({"DATA", "GARBLED", "COMMAND_TELEPORT"}) /\ Fault("overrun")
  \/ AtCommand({"AUTH"}) /\ ~Head(buf).flag /\ Fault("overrun")
  \/ AtCommand(Answering) /\ ~connected[q2] /\ Fault("overrun")
  \/ AtCommand({"AUTH"}) /\ publickey[q2] = "null" /\ Fault("null_deref")
  \/ AtCommand({"AUTH"}) /\ publickey[q2] = "freed" /\ Fault("use_after_free")
  \/ AtCommand({"QUIT", "AUTH"}) /\ FreedTwice /\ (Head(buf).cmd = "AUTH" => ~Verified)
     /\ Fault("double_free")
  \/ AtCommand(Answering) /\ connected[q2] /\ UsesFreed(q2, encrypted[q2])
     /\ Fault("use_after_free")
  \/ AtCommand({"COMMAND_INVITE"})
     /\ (\E s \in ConnectedSet : UsesFreed(s, encrypted[s])) /\ Fault("use_after_free")
  \/ AtCommand(Answering) /\ BrokenPipe({q2}) /\ Fault("sigpipe")
  \/ AtCommand({"COMMAND_INVITE"}) /\ BrokenPipe(ConnectedSet) /\ Fault("sigpipe")
-----------------------------------------------------------------------------
Client ==
  \/ \E r \in Visitors : ClientConnect(r)
  \/ \E f \in Fds : ClientHello(f) \/ PeerAsks(f) \/ ClientAuth(f)
                     \/ ClientCommand(f) \/ ClientQuit(f) \/ ClientClose(f)

RunServer ==
  \/ PollReturns \/ ScanEnds \/ SkipSlot \/ Accept \/ AcceptFails
  \/ ServerLost \/ VisitorLost \/ ServerError \/ RejectVisitor
  \/ P_GetServerList \/ PeerRequestUnknown \/ ReceiveCommands
  \/ NewServer \/ NewServerUnsigned \/ NewServerFaults
  \/ ParseEnds \/ Pong \/ ParseTeleport \/ ParseInvite \/ ParseAuth
  \/ ParseAuthFails \/ Quit \/ ParseData \/ ParseStray \/ ParseGarbled
  \/ ParseFaults \/ ArrayOverrun

Next == Client \/ RunServer

Spec == Init /\ [][Next]_vars

(* The kernel keeps scheduling the process while it can take a step.       *)
LoopSpec == Spec /\ WF_vars(RunServer)

(* Besides, a client that has connected says hello, answers the challenge  *)
(* it was sent, and speaks every now and then once it is trusted.  The     *)
(* loop needs it: after a rebuild recv() may be called on a descriptor     *)
(* with nothing to read, and waits until its client says something.        *)
FairSpec ==
  /\ LoopSpec
  /\ \A f \in Fds : WF_vars(ClientHello(f)) /\ WF_vars(PeerAsks(f))
                     /\ WF_vars(ClientAuth(f)) /\ WF_vars(ClientCommand(f))
-----------------------------------------------------------------------------
(* Properties.                                                             *)

EntryTypes ==
  /\ connected \in [Servers -> BOOLEAN] /\ trusted \in [Servers -> BOOLEAN]
  /\ encrypted \in [Servers -> BOOLEAN] /\ cut \in [Servers -> BOOLEAN]
  /\ socket \in [Servers -> Fds \cup {NoFd}]
  /\ publickey \in [Servers -> Resource] /\ ctx \in [Servers -> Resource]
  /\ msg \in [Servers -> SUBSET Replies]

(* The index field is typed with the table it points into.                 *)
TableTypes ==
  /\ index \in [Servers -> Slots]
  /\ sfd \in [Slots -> Fds \cup {Listener, NoFd}]
  /\ revents \in [Slots -> BOOLEAN]
  /\ socket_count \in 1..MaxSlots

LoopTypes ==
  /\ pc \in {"poll", "scan", "parse", "halted"} /\ i \in Nat
  /\ q2 \in Servers \cup {NULL} /\ (pc = "parse" => q2 \in Servers)
  /\ buf \in Seq(CommandSet) /\ fault \in FaultKinds

NetTypes ==
  /\ open \in [Fds -> BOOLEAN] /\ eof \in [Fds -> {"no", "fin", "rst", "dead"}]
  /\ inbox \in [Fds -> Seq(CommandSet)]
  /\ role \in [Fds -> Roles] /\ phase \in [Fds -> Phases]
  /\ backlog \in Seq(Roles)

(* Every variable stays in its type.  For socket_count and the index       *)
(* fields this bounds how far the code writes behind its poll array: never *)
(* further than a slot for each registered server and for each descriptor. *)
(* That is beyond the memory it allocated (see ArrayHolds).                *)
TypeOK == EntryTypes /\ TableTypes /\ LoopTypes /\ NetTypes

(* The index field and the poll array agree: a connected entry owns one    *)
(* slot, the slot holds the entry's socket, no two entries share a slot,   *)
(* and a disconnected entry owns none.  get_server(i) and SendBuffer rely  *)
(* on it across accept, hello, disconnect and the rebuild of the array in  *)
(* the middle of a scan.                                                   *)
SlotOwnership ==
  /\ sfd[0] = Listener
  /\ \A s \in Servers :
       IF connected[s]
       THEN index[s] \in 1..(socket_count - 1) /\ sfd[index[s]] = socket[s]
       ELSE index[s] = 0
  /\ \A s, t \in ConnectedSet : s # t => index[s] # index[t]

(* The slots poll() is given hold pairwise different open descriptors: the *)
(* rebuild never leaves behind a descriptor that was closed, nor enters    *)
(* one twice.                                                              *)
SlotsLive ==
  /\ \A j \in 1..(socket_count - 1) : sfd[j] \in Fds /\ open[sfd[j]]
  /\ \A j, k \in 1..(socket_count - 1) : j # k => sfd[j] # sfd[k]

(* A connected entry's socket leads to the game server that said hello     *)
(* with that entry's key, never to a later client on a reused descriptor.  *)
SocketBelongs ==
  \A s \in ConnectedSet :
     /\ socket[s] \in Fds /\ role[socket[s]] = s
     /\ phase[socket[s]] \notin {"none", "new"}

(* While the entry is connected nothing waits in its send buffer: what a   *)
(* handler wrote was sent before the handler returned, and what an earlier *)
(* session left behind went out with the first reply.                      *)
Flushed == \A s \in ConnectedSet : msg[s] = {}

(* An entry loses its connection only because of its own client: the       *)
(* client hung up, or the command being parsed is that client's.  The      *)
(* descriptor is closed in the same step.                                  *)
DisconnectCause ==
  [][\A s \in Servers : connected[s] /\ ~connected'[s] =>
       /\ ~open'[socket[s]]
       /\ IF pc = "parse" THEN q2 = s
          ELSE sfd[i] = socket[s] /\ eof[socket[s]] \in {"fin", "dead"}]_vars

(* A client that waits for the answer to its AUTH is told that it is       *)
(* trusted only by the step that parses this answer, and only if it is the *)
(* right answer to a challenge that was stored whole.  (The TRUSTED that a *)
(* refused answer leaves behind goes out with the next HELLOACK, before    *)
(* the client has answered anything: phase "told".)                        *)
TrustIsOwn ==
  [][\A f \in Fds : phase[f] = "auth" /\ phase'[f] = "trusted" =>
       /\ pc = "parse" /\ sfd[i] = f /\ q2 \in ConnectedSet /\ socket[q2] = f
       /\ Head(buf).cmd = "AUTH" /\ Head(buf).flag /\ ~cut[q2]]_vars

(* The RSA key of a connected entry is not one that was freed at the end   *)
(* of an earlier session: each hello loads it again.  (It may be NULL when *)
(* its file cannot be read.)  Stated where the server's own private key is *)
(* present.                                                                *)
KeyNotFreed == \A s \in ConnectedSet : publickey[s] # "freed"

(* Dealing with a visitor that is no known server (a refusal, a peer's     *)
(* request, a hello) neither stops the process nor touches another game    *)
(* server: it stays connected and reachable through its slot, though the   *)
(* array is rebuilt under the running scan.  The visitor is one that is    *)
(* still there and, if it says hello, has a key file and asks for a plain  *)
(* session; and the array has not been overrun.  Without any of these the  *)
(* code may stop (VisitorLost, NewServerFaults, ArrayOverrun).             *)
Proper(f) ==
  /\ Received(f) /\ eof[f] = "no"
  /\ Hello(f) => role[f] \in KeyFiles /\ ~Head(inbox[f]).flag
VisitorsHarmless ==
  [][AtClient /\ ~IsListed(i) /\ Proper(sfd[i]) /\ ~Overran =>
       /\ fault' = fault
       /\ \A s \in ConnectedSet : role[sfd[i]] # s =>
            /\ connected'[s] /\ socket'[s] = socket[s]
            /\ index'[s] \in 1..(socket_count' - 1)
            /\ sfd'[index'[s]] = socket[s]]_vars

(* Every answer to a challenge is read and answered, whatever rebuilds     *)
(* move its slot in the meantime, unless the game server connects again    *)
(* and so gives its entry to another connection.  A process that stopped   *)
(* would not do: the instance has none of its causes.                      *)
AuthAnswered ==
  \A s \in Servers, f \in Fds :
    LET waits == connected[s] /\ socket[s] = f /\ phase[f] = "auth"
    IN waits ~> ~waits /\ pc # "halted"

(* The table of servers implements the directory of reachable servers.     *)
Dir == INSTANCE Directory WITH
         owner <- [s \in Servers |-> IF connected[s] THEN socket[s] ELSE NoFd]
ImplementsDirectory == Dir!Spec
-----------------------------------------------------------------------------
(* What comments of the code say and the code does not do; each is refuted *)
(* by a run.                                                               *)

(* crypto.c: a client is trusted once it has answered the challenge; here: *)
(* no connected entry is trusted whose client has not answered yet.        *)
TrustEarned ==
  \A s \in ConnectedSet :
     trusted[s] => phase[socket[s]] \notin {"new", "hello", "acked"}

(* The poll array has room for the registered servers and "5 or so extra   *)
(* for temporary peer connections", or at least for the former.            *)
ArrayHolds == socket_count <= Allocated

(* remove_server_socket removes "the given socket": every other open       *)
(* descriptor stays in the poll array.                                     *)
Polled == \A f \in Fds : open[f] => \E j \in 1..(socket_count - 1) : sfd[j] = f
=============================================================================
