-------------------------------- MODULE Stream --------------------------------
(***************************************************************************)
(* The way of a game server's messages through a TCP connection: written   *)
(* as bytes, received in whatever pieces recv() returns, and read back by  *)
(* the MSG_Read functions in the loop of ParseMessage.  Messages carry no  *)
(* length: where one ends is known only from its contents, and a buffer is *)
(* parsed as though it began and ended between two messages.               *)
(*                                                                         *)
(* The buffer is cleared before recv(), so what is read past the received  *)
(* bytes is zero.  Pad is the padding of msg_buffer_t behind its data,     *)
(* which memset() clears too; a read beyond it leaves the object.          *)
(*                                                                         *)
(* Any byte may be taken for a command when a buffer begins in the middle  *)
(* of a message, so every handler is here, those of the player list and of *)
(* the answer to the challenge included; that a game server sends these    *)
(* two itself is the matter of Players and of Q2AServer.                   *)
(***************************************************************************)
EXTENDS Integers, Sequences, InfoString

CONSTANTS
  Outgoing,     (* the messages a game server sends in this instance        *)
  Infos,        (* the userinfos in them, as pairs of a key and a value     *)
  BufSize,      (* sizeof(msg.data)                                         *)
  Pad,          (* bytes of msg_buffer_t behind data                        *)
  CipherSize,   (* RSA_LEN, the room for the answer to the challenge        *)
  MaxPipe       (* bound: messages in the connection                        *)

(* A message: the command, a byte that goes with it (client id or print    *)
(* level), a text, and the value of "name" if the text is a userinfo.      *)
Message(cmd, id, text, name) == [cmd |-> cmd, id |-> id, text |-> text, name |-> name]

Code == [QUIT |-> 2, CONNECT |-> 3, DISCONNECT |-> 4, PLAYERLIST |-> 5, PLAYERUPDATE |-> 6,
         PRINT |-> 7, MAP |-> 11, PING |-> 12, AUTH |-> 13]
COMMAND == 8
Sub == [TELEPORT |-> 0, INVITE |-> 1]

Bytes == 0..255
Huge == BufSize + Pad + 2       (* (size_t) -1 as the length of a message   *)

HasText(m) == m.cmd \notin {"PING", "QUIT", "DISCONNECT"}

(* The letters of a userinfo: a backslash, or a letter that turns into one *)
(* when its high bit is taken away, is in no key and in no value.          *)
Field == Seq(Bytes \ {0, 128, Backslash, Backslash + 128})
Key == Seq(1..127 \ {Backslash})
ASSUME InfosAssumption ==
  \A pairs \in Infos : pairs \in Seq([key : Key, value : Field])

(* What a message has no room for is zero or empty.                        *)
ASSUME StreamAssumption ==
  /\ BufSize \in Nat \ {0} /\ Pad \in Nat /\ CipherSize \in Nat /\ MaxPipe \in Nat
  /\ \A m \in Outgoing :
       /\ m = Message(m.cmd, m.id, m.text, m.name)
       /\ m.cmd \in (DOMAIN Code \ {"PLAYERLIST", "AUTH"}) \cup DOMAIN Sub /\ m.id \in Bytes
       /\ m.text \in Seq(Bytes \ {0})
       /\ m.cmd \in {"PING", "QUIT", "MAP"} => m.id = 0
       /\ ~HasText(m) => m.text = <<>>
       /\ IF m.cmd \in {"CONNECT", "PLAYERUPDATE"}
          THEN \E pairs \in Infos : m.text = Userinfo(pairs) /\ m.name = ValueIn(pairs, NameKey)
          ELSE m.name = <<>>

VARIABLES
  bytes,     (* the bytes written and not received yet                      *)
  pipe,      (* the messages not received completely, each with the number  *)
             (* of these bytes before it (less than 0: it was received from *)
             (* there on)                                                   *)
  data,      (* the bytes of the buffer that recv() wrote                   *)
  length, index,
  pc,        (* where the server is: "lost" when it has read outside the    *)
             (* buffer for ever, overrun its stack or freed a key twice     *)
  slot,      (* i in the loop of ParsePlayerList (0 outside of it)          *)
  count,     (* the playercount that it runs to (0 outside of it)           *)
  got,       (* what the handlers were called with for this buffer          *)
  whole,     (* the messages that lie completely in this buffer             *)
  start, end,(* the buffer starts, ends between two messages                *)
  last       (* the highest position of the buffer that was read            *)

netVars == <<bytes, pipe>>
bufVars == <<data, length, whole, start, end>>
listVars == <<slot, count>>
vars == <<netVars, bufVars, index, pc, listVars, got, last>>

Init ==
  /\ bytes = <<>> /\ pipe = <<>>
  /\ data = <<>> /\ length = 0 /\ index = 0
  /\ pc = "recv" /\ got = <<>> /\ whole = <<>> /\ start = TRUE /\ end = TRUE
  /\ slot = 0 /\ count = 0 /\ last = 0
-----------------------------------------------------------------------------
(* Writing.                                                                *)

MSG_WriteString(text) == text \o <<0>>

Written(m) ==
  CASE m.cmd \in {"PING", "QUIT"} -> <<Code[m.cmd]>>
    [] m.cmd = "DISCONNECT" -> <<Code.DISCONNECT, m.id>>
    [] m.cmd = "MAP"        -> <<Code.MAP>> \o MSG_WriteString(m.text)
    [] m.cmd \in {"CONNECT", "PLAYERUPDATE", "PRINT"}
                            -> <<Code[m.cmd], m.id>> \o MSG_WriteString(m.text)
    [] m.cmd \in DOMAIN Sub -> <<COMMAND, Sub[m.cmd], m.id>> \o MSG_WriteString(m.text)

ClientWrites(m) ==
  /\ Len(pipe) < MaxPipe
  /\ bytes' = bytes \o Written(m)
  /\ pipe' = Append(pipe, [msg |-> m, at |-> Len(bytes)])
  /\ UNCHANGED <<bufVars, index, pc, listVars, got, last>>
-----------------------------------------------------------------------------
(* recv()                                                                  *)

(* The number of bytes up to the end of a message in the pipe.             *)
End(e) == e.at + Len(Written(e.msg))

(* Mutant of Cleared: the buffer is not cleared before recv().             *)
NotCleared(received) ==
  received \o SubSeq(data, Len(received) + 1, Len(data))

(* memset(&msg, 0), then recv() into it.                                   *)
Cleared(received) == received

(* recv() returns any beginning of what has arrived; d is the number of    *)
(* messages that come to their end in it.                                  *)
Recv(n) ==
  /\ pc = "recv"
  /\ n \in 1..BufSize /\ n <= Len(bytes)
  /\ data' = Cleared(SubSeq(bytes, 1, n)) /\ length' = n
  /\ bytes' = SubSeq(bytes, n + 1, Len(bytes))
  /\ start' = (pipe[1].at = 0)
  /\ \E d \in 0..Len(pipe) :
       /\ d # 0 => End(pipe[d]) <= n
       /\ d # Len(pipe) => n < End(pipe[d + 1])
       /\ whole' = SubSeq(pipe, IF start' THEN 1 ELSE 2, d)
       /\ pipe' = [k \in 1..(Len(pipe) - d) |-> [pipe[k + d] EXCEPT !.at = @ - n]]
       /\ end' = (d # 0 /\ End(pipe[d]) = n)
  /\ index' = 0 /\ got' = <<>> /\ last' = 0 /\ pc' = "parse"
  /\ UNCHANGED listVars

(* recv() returns -1, which is kept in a size_t and parsed all the same.   *)
RecvFails ==
  /\ pc = "recv"
  /\ data' = Cleared(<<>>) /\ length' = Huge
  /\ whole' = <<>> /\ start' = TRUE /\ end' = TRUE
  /\ index' = 0 /\ got' = <<>> /\ last' = 0 /\ pc' = "parse"
  /\ UNCHANGED <<netVars, listVars>>
-----------------------------------------------------------------------------
(* Reading.                                                                *)

At(p) == IF p < Len(data) THEN data[p + 1] ELSE 0

(* MSG_ReadString at p.  The search for the end begins with the byte after *)
(* the first, so an empty string is read together with what follows it.    *)
StringEnd(p) ==
  CHOOSE e \in (p + 1)..(p + Len(data) + 1) :
    At(e) = 0 /\ \A j \in (p + 1)..(e - 1) : At(j) # 0
Plain(string) ==
  LET str[n \in 0..Len(string)] ==
        IF n = 0 THEN <<>>
        ELSE IF string[n] % 128 = 0 THEN str[n - 1] ELSE Append(str[n - 1], string[n] % 128)
  IN str[Len(string)]

MSG_ReadString(p) == Plain([k \in 1..(StringEnd(p) - p) |-> At(p + k - 1)])

(* Mutant of InMessage: without the break.                                 *)
InMessageUnbounded == index < length

(* The condition of the loop, and the break at its beginning.              *)
InMessage == index < length /\ index <= BufSize

AtCommand(c) == pc = "parse" /\ InMessage /\ At(index) = c

(* A handler was called with m and has read up to position p.              *)
Handled(m, p) ==
  /\ got' = Append(got, m)
  /\ index' = p + 1 /\ last' = p
  /\ UNCHANGED <<netVars, bufVars, listVars, pc>>

Pong == AtCommand(Code.PING) /\ Handled(Message("PING", 0, <<>>, <<>>), index)

ParsePlayerDisconnect ==
  /\ AtCommand(Code.DISCONNECT)
  /\ Handled(Message("DISCONNECT", At(index + 1), <<>>, <<>>), index + 1)

ParseMap ==
  /\ AtCommand(Code.MAP)
  /\ Handled(Message("MAP", 0, MSG_ReadString(index + 1), <<>>), StringEnd(index + 1))

ParsePrint ==
  /\ AtCommand(Code.PRINT)
  /\ Handled(Message("PRINT", At(index + 1), MSG_ReadString(index + 2), <<>>),
             StringEnd(index + 2))

(* ParsePlayerConnect, ParsePlayerUpdate                                   *)
ParseUserinfo(cmd) ==
  /\ AtCommand(Code[cmd])
  /\ LET userinfo == MSG_ReadString(index + 2) IN
       Handled(Message(cmd, At(index + 1), userinfo, Info_ValueForKey(userinfo, NameKey)),
               StringEnd(index + 2))

ParseCommand(cmd) ==
  /\ AtCommand(COMMAND) /\ At(index + 1) = Sub[cmd]
  /\ Handled(Message(cmd, At(index + 2), MSG_ReadString(index + 3), <<>>),
             StringEnd(index + 3))

(* CloseConnection: the rest of the buffer is still read, and whatever     *)
(* closes the connection once more frees its key a second time.            *)
Closed == \E k \in DOMAIN got : got[k].cmd \in {"QUIT", "AUTH"}

CloseConnection(cmd, p, overrun) ==
  /\ got' = Append(got, Message(cmd, 0, <<>>, <<>>))
  /\ index' = p + 1 /\ last' = p
  /\ pc' = IF Closed \/ overrun THEN "lost" ELSE pc
  /\ UNCHANGED <<netVars, bufVars, listVars>>

Quit == AtCommand(Code.QUIT) /\ CloseConnection("QUIT", index, FALSE)

(* VerifyClientChallenge copies as many bytes as the message says.  They   *)
(* are no client's answer here, so they are refused.                       *)
ParseAuth ==
  /\ AtCommand(Code.AUTH)
  /\ LET len == At(index + 1) + 256 * At(index + 2) IN
       CloseConnection("AUTH", index + 2 + len, CipherSize < len)

(* The loop of ParsePlayerList: its counter is an unsigned char, and the   *)
(* id of the entry is read into it.                                        *)
ParsePlayerList ==
  /\ AtCommand(Code.PLAYERLIST)
  /\ count' = At(index + 1) /\ slot' = 0 /\ pc' = "list"
  /\ index' = index + 2 /\ last' = index + 1
  /\ UNCHANGED <<netVars, bufVars, got>>

ListEntry ==
  /\ pc = "list" /\ slot < count
  /\ slot' = (At(index) + 1) % 256
  /\ last' = StringEnd(index + 1) /\ index' = last' + 1
  /\ pc' = IF last' < BufSize + Pad THEN pc ELSE "lost"
  /\ UNCHANGED <<netVars, bufVars, count, got>>

ListEnds ==
  /\ pc = "list" /\ count <= slot
  /\ got' = Append(got, Message("PLAYERLIST", 0, <<>>, <<>>))
  /\ slot' = 0 /\ count' = 0 /\ pc' = "parse"
  /\ UNCHANGED <<netVars, bufVars, index, last>>

(* A byte that is no command, and a command byte without a known argument. *)
Skip(p) ==
  /\ index' = p + 1 /\ last' = p
  /\ UNCHANGED <<netVars, bufVars, listVars, pc, got>>

ParseNothing ==
  \/ pc = "parse" /\ InMessage /\ Skip(index)
     /\ At(index) \notin {Code[c] : c \in DOMAIN Code} \cup {COMMAND}
  \/ AtCommand(COMMAND) /\ At(index + 1) \notin {Sub[c] : c \in DOMAIN Sub} /\ Skip(index + 1)

ParseEnds ==
  /\ pc = "parse" /\ ~InMessage
  /\ pc' = IF Closed THEN "closed" ELSE "recv"
  /\ UNCHANGED <<netVars, bufVars, listVars, index, got, last>>
-----------------------------------------------------------------------------
ParseMessage ==
  \/ Pong \/ Quit \/ ParseAuth \/ ParsePlayerDisconnect \/ ParseMap \/ ParsePrint
  \/ ParsePlayerList \/ ListEntry \/ ListEnds
  \/ \E cmd \in {"CONNECT", "PLAYERUPDATE"} : ParseUserinfo(cmd)
  \/ \E cmd \in DOMAIN Sub : ParseCommand(cmd)
  \/ ParseNothing \/ ParseEnds

Next ==
  \/ \E m \in Outgoing : ClientWrites(m)
  \/ \E n \in 1..BufSize : Recv(n)
  \/ RecvFails \/ ParseMessage

Spec == Init /\ [][Next]_vars
-----------------------------------------------------------------------------
(* Properties.                                                             *)

(* What the handler should be called with for m: texts lose their high     *)
(* bits.                                                                   *)
Meant(m) == Message(m.cmd, m.id, Plain(m.text), Plain(m.name))

(* No empty text is followed by a byte in the same buffer.                 *)
TextsEnd ==
  \A k \in DOMAIN whole : HasText(whole[k].msg) /\ whole[k].msg.text = <<>> =>
    k = Len(whole) /\ end

(* A buffer that begins between two messages is understood, however many   *)
(* it holds, whatever was received before it and whatever was read wrongly *)
(* then: every whole message reaches its handler with its arguments, in    *)
(* order, and a message that is cut at the end adds at most one call more. *)
(* An empty text is the exception, unless it is the last thing received.   *)
Understood ==
  pc \in {"recv", "closed"} /\ start /\ TextsEnd =>
    /\ Len(got) \in Len(whole)..(Len(whole) + (IF end THEN 0 ELSE 1))
    /\ \A k \in DOMAIN whole : got[k] = Meant(whole[k].msg)

(* Wherever the buffer is cut, and when recv() fails, two readers alone    *)
(* leave the cleared object: the copy of an answer whose length is what    *)
(* the bytes happen to say, and a list of more than one player that has    *)
(* come to the zeros, where it stays.                                      *)
ReadsInside ==
  last >= BufSize + Pad =>
    \/ pc = "lost" /\ 1 < count
    \/ got # <<>> /\ got[Len(got)].cmd = "AUTH"
=============================================================================
