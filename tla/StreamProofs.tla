----------------------------- MODULE StreamProofs -----------------------------
(***************************************************************************)
(* For every size of the buffer, every message and every cut of the stream *)
(* into buffers: the MSG_Read functions stay inside msg_buffer_t, and what *)
(* is read of a buffer that begins between two messages is what was        *)
(* written, the names that Info_ValueForKey finds in a userinfo included.  *)
(***************************************************************************)
EXTENDS Stream, PollTableProofs, TLAPS, SequenceTheorems

-----------------------------------------------------------------------------
(* No read leaves the object.                                              *)

(* recv() writes no more than the buffer holds.  length may be anything:   *)
(* the failed recv() leaves a huge one there.                              *)
BufferInv ==
  /\ Len(data) \in Nat /\ Len(data) <= BufSize
  /\ length \in Nat /\ index \in Nat /\ last \in Nat

(* A byte that is not zero was received.                                   *)
LEMMA ByteReceived ==
  ASSUME BufferInv, NEW p \in Nat, At(p) # 0
  PROVE  p < Len(data)
  BY DEF At, BufferInv

(* The end of a string is found, and lies behind its first byte and not    *)
(* behind the first byte that was not received.                            *)
LEMMA StringEnds ==
  ASSUME BufferInv, NEW p \in Nat
  PROVE  /\ StringEnd(p) \in Nat /\ p + 1 <= StringEnd(p)
         /\ StringEnd(p) = p + 1 \/ StringEnd(p) <= Len(data)
         /\ At(StringEnd(p)) = 0 /\ \A j \in (p + 1)..(StringEnd(p) - 1) : At(j) # 0
<1> DEFINE Ends == {e \in (p + 1)..(p + Len(data) + 1) : At(e) = 0}
           Is(e) == At(e) = 0 /\ \A j \in (p + 1)..(e - 1) : At(j) # 0
<1>1. Len(data) \in Nat
  BY DEF BufferInv
<1>2. p + Len(data) + 1 \in Ends
  BY <1>1 DEF At
<1>3. PICK e \in Ends : \A x \in Ends : e <= x
  <2>1. Ends \in SUBSET Nat /\ Ends # {}
    BY <1>1, <1>2
  <2> HIDE DEF Ends
  <2> QED
    BY <2>1, LeastNumber
<1>4. e \in (p + 1)..(p + Len(data) + 1) /\ Is(e)
  <2>1. e \in (p + 1)..(p + Len(data) + 1) /\ At(e) = 0
    BY <1>3
  <2>2. ASSUME NEW j \in (p + 1)..(e - 1) PROVE At(j) # 0
    <3>1. j \in (p + 1)..(p + Len(data) + 1) /\ ~(e <= j)
      BY <1>1, <2>1
    <3> QED
      BY <1>3, <3>1
  <2> QED
    BY <2>1, <2>2
<1>5. StringEnd(p) = CHOOSE x \in (p + 1)..(p + Len(data) + 1) : Is(x)
  BY DEF StringEnd
<1> HIDE DEF Is
<1>6. StringEnd(p) \in (p + 1)..(p + Len(data) + 1) /\ Is(StringEnd(p))
  BY <1>4, <1>5
<1>7. StringEnd(p) \in Nat /\ p + 1 <= StringEnd(p)
  BY <1>1, <1>6
<1>8. ASSUME StringEnd(p) # p + 1 PROVE StringEnd(p) <= Len(data)
  <2>1. StringEnd(p) - 1 \in (p + 1)..(StringEnd(p) - 1) /\ StringEnd(p) - 1 \in Nat
    BY <1>7, <1>8
  <2>2. At(StringEnd(p) - 1) # 0
    BY <1>6, <2>1 DEF Is
  <2>3. StringEnd(p) - 1 < Len(data)
    BY <2>1, <2>2, ByteReceived
  <2> QED
    BY <1>1, <1>7, <2>3
<1> QED
  BY <1>6, <1>7, <1>8 DEF Is

(* The buffer in the beginning.                                            *)
LEMMA BufferInit == Init => BufferInv /\ last = 0
  BY StreamAssumption DEF Init, BufferInv

-----------------------------------------------------------------------------
(* Messages as they are written.                                           *)

(* The first byte of a message, and the bytes before its text.             *)
ByteOf(m) == IF m.cmd \in DOMAIN Sub THEN COMMAND ELSE Code[m.cmd]
Before(m) == IF m.cmd = "MAP" THEN 1 ELSE IF m.cmd \in DOMAIN Sub THEN 3 ELSE 2

(* s is h, the text t and a zero.                                          *)
Framed(s, h, t) ==
  /\ s \in Seq(Bytes) /\ Len(s) \in Nat /\ Len(s) = Len(h) + Len(t) + 1
  /\ \A j \in 1..Len(h) : s[j] = h[j]
  /\ \A j \in 1..Len(t) : s[Len(h) + j] = t[j]
  /\ s[Len(h) + Len(t) + 1] = 0

(* What is put before a text does not move its bytes.                      *)
LEMMA TextPlace ==
  ASSUME NEW h \in Seq(Bytes), NEW t \in Seq(Bytes \ {0})
  PROVE  Framed(h \o MSG_WriteString(t), h, t)
<1>0. PICK s : s = h \o MSG_WriteString(t)
  OBVIOUS
<1>1. t \in Seq(Bytes) /\ <<0>> \in Seq(Bytes) /\ Len(<<0>>) = 1 /\ Len(t) \in Nat
  BY DEF Bytes
<1>2. t \o <<0>> \in Seq(Bytes)
  BY <1>1
<1>3. PICK u \in Seq(Bytes) : u = MSG_WriteString(t)
  BY <1>2 DEF MSG_WriteString
<1>7. /\ Len(u) = Len(t) + 1
      /\ \A j \in 1..Len(t) : u[j] = t[j]
      /\ u[Len(t) + 1] = 0
  BY <1>1, <1>3 DEF MSG_WriteString
<1>4. s \in Seq(Bytes) /\ Len(s) = Len(h) + Len(u) /\ Len(h) \in Nat
  BY <1>0, <1>3
<1>5. \A j \in 1..Len(h) : s[j] = h[j]
  BY <1>0, <1>3
<1>6. \A j \in 1..Len(u) : s[Len(h) + j] = u[j]
  BY <1>0, <1>3
<1>8. Len(s) = Len(h) + Len(t) + 1 /\ Len(s) \in Nat
  BY <1>1, <1>4, <1>7
<1>9. ASSUME NEW j \in 1..Len(t) PROVE s[Len(h) + j] = t[j]
  <2>1. j \in 1..Len(u)
    BY <1>1, <1>7
  <2>2. s[Len(h) + j] = u[j] /\ u[j] = t[j]
    BY <1>6, <1>7, <2>1
  <2> QED
    BY <2>2
<1>10. s[Len(h) + Len(t) + 1] = 0
  BY <1>1, <1>4, <1>6, <1>7
<1> QED
  BY <1>0, <1>4, <1>5, <1>8, <1>9, <1>10 DEF Framed

(* What the fields of a message may be.                                    *)
LEMMA Fields ==
  ASSUME NEW m \in Outgoing
  PROVE  /\ m = Message(m.cmd, m.id, m.text, m.name)
         /\ m.cmd \in {"PING", "QUIT", "DISCONNECT", "MAP", "CONNECT", "PLAYERUPDATE", "PRINT",
                       "TELEPORT", "INVITE"}
         /\ m.id \in Bytes /\ m.text \in Seq(Bytes \ {0}) /\ Len(m.text) \in Nat
         /\ m.cmd \in {"PING", "QUIT", "MAP"} => m.id = 0
         /\ ~HasText(m) => m.text = <<>>
         /\ m.cmd \notin {"CONNECT", "PLAYERUPDATE"} => m.name = <<>>
<1>1. (DOMAIN Code \ {"PLAYERLIST", "AUTH"}) \cup DOMAIN Sub =
        {"PING", "QUIT", "DISCONNECT", "MAP", "CONNECT", "PLAYERUPDATE", "PRINT", "TELEPORT",
         "INVITE"}
  BY DEF Code, Sub
<1>2. m.text \in Seq(Bytes \ {0})
  BY StreamAssumption
<1>3. Len(m.text) \in Nat
  BY <1>2
<1> QED
  BY <1>1, <1>2, <1>3, StreamAssumption

(* A message as bytes: its command, its arguments, its text and a zero.    *)
LEMMA WrittenForm ==
  ASSUME NEW m \in Outgoing
  PROVE  /\ Written(m) \in Seq(Bytes) /\ Len(Written(m)) \in Nat \ {0}
         /\ Written(m)[1] = ByteOf(m)
         /\ m.cmd \in {"PING", "QUIT"} => Len(Written(m)) = 1
         /\ m.cmd = "DISCONNECT" => Len(Written(m)) = 2 /\ Written(m)[2] = m.id
         /\ m.cmd \in {"CONNECT", "PLAYERUPDATE", "PRINT"} => Written(m)[2] = m.id
         /\ m.cmd \in DOMAIN Sub => Written(m)[2] = Sub[m.cmd] /\ Written(m)[3] = m.id
         /\ HasText(m) =>
              /\ Len(Written(m)) = Before(m) + Len(m.text) + 1
              /\ \A j \in 1..Len(m.text) : Written(m)[Before(m) + j] = m.text[j]
              /\ Written(m)[Before(m) + Len(m.text) + 1] = 0
<1>1. /\ Code.PING = 12 /\ Code.QUIT = 2 /\ Code.DISCONNECT = 4 /\ Code.MAP = 11 /\ Code.CONNECT = 3
      /\ Code.PLAYERUPDATE = 6 /\ Code.PRINT = 7 /\ COMMAND = 8
      /\ Sub.TELEPORT = 0 /\ Sub.INVITE = 1 /\ DOMAIN Sub = {"TELEPORT", "INVITE"}
  BY DEF Code, COMMAND, Sub
<1>2. /\ m.id \in Bytes /\ m.text \in Seq(Bytes \ {0}) /\ Len(m.text) \in Nat
      /\ m.cmd \in {"PING", "QUIT", "DISCONNECT", "MAP", "CONNECT", "PLAYERUPDATE", "PRINT",
                    "TELEPORT", "INVITE"}
  BY Fields
<1>3. ASSUME NEW a \in Bytes PROVE <<a>> \in Seq(Bytes) /\ Len(<<a>>) = 1
  OBVIOUS
<1>4. ASSUME NEW a \in Bytes, NEW b \in Bytes
      PROVE  <<a, b>> \in Seq(Bytes) /\ Len(<<a, b>>) = 2
  OBVIOUS
<1>5. ASSUME NEW a \in Bytes, NEW b \in Bytes, NEW c \in Bytes
      PROVE  <<a, b, c>> \in Seq(Bytes) /\ Len(<<a, b, c>>) = 3
  OBVIOUS
<1>6. {12, 2, 4, 11, 3, 6, 7, 8, 0, 1} \subseteq Bytes
  BY DEF Bytes
<1>7. CASE m.cmd \in {"PING", "QUIT"}
  <2>1. Written(m) = <<Code[m.cmd]>> /\ ByteOf(m) = Code[m.cmd] /\ ~HasText(m)
    BY <1>1, <1>7 DEF Written, ByteOf, HasText
  <2>2. PICK a \in Bytes : a = Code[m.cmd]
    BY <1>1, <1>6, <1>7
  <2> QED
    BY <1>1, <1>3, <1>7, <2>1, <2>2
<1>8. CASE m.cmd = "DISCONNECT"
  <2>1. Written(m) = <<4, m.id>> /\ ByteOf(m) = 4 /\ ~HasText(m)
    BY <1>1, <1>8 DEF Written, ByteOf, HasText
  <2> QED
    BY <1>1, <1>2, <1>4, <1>6, <1>8, <2>1
<1>9. CASE m.cmd = "MAP"
  <2>1. Written(m) = <<11>> \o MSG_WriteString(m.text) /\ ByteOf(m) = 11 /\ Before(m) = 1
    BY <1>1, <1>9 DEF Written, ByteOf, Before
  <2>2. PICK h \in Seq(Bytes) : h = <<11>> /\ Len(h) = 1 /\ h[1] = 11
    BY <1>3, <1>6
  <2>3. /\ Written(m) \in Seq(Bytes) /\ Len(Written(m)) \in Nat
        /\ Len(Written(m)) = Before(m) + Len(m.text) + 1
        /\ \A j \in 1..Before(m) : Written(m)[j] = h[j]
        /\ \A j \in 1..Len(m.text) : Written(m)[Before(m) + j] = m.text[j]
        /\ Written(m)[Before(m) + Len(m.text) + 1] = 0
    <3>1. PICK t \in Seq(Bytes \ {0}) : t = m.text
      BY <1>2
    <3>2. PICK s : s = Written(m) /\ s = h \o MSG_WriteString(t)
      BY <2>1, <2>2, <3>1
    <3>3. Framed(s, h, t)
      BY <2>2, <3>1, <3>2, TextPlace
    <3>4. Len(h) = Before(m)
      BY <2>1, <2>2
    <3> QED
      BY <3>1, <3>2, <3>3, <3>4 DEF Framed
  <2> QED
    BY <1>1, <1>2, <1>9, <2>1, <2>2, <2>3
<1>10. CASE m.cmd \in {"CONNECT", "PLAYERUPDATE", "PRINT"}
  <2>1. Written(m) = <<Code[m.cmd], m.id>> \o MSG_WriteString(m.text)
        /\ ByteOf(m) = Code[m.cmd] /\ Before(m) = 2
    BY <1>1, <1>10 DEF Written, ByteOf, Before
  <2>2. PICK h \in Seq(Bytes) : h = <<Code[m.cmd], m.id>> /\ Len(h) = 2
                                /\ h[1] = Code[m.cmd] /\ h[2] = m.id
    <3>1. PICK a \in Bytes : a = Code[m.cmd]
      BY <1>1, <1>6, <1>10
    <3> QED
      BY <1>2, <1>4, <3>1
  <2>3. /\ Written(m) \in Seq(Bytes) /\ Len(Written(m)) \in Nat
        /\ Len(Written(m)) = Before(m) + Len(m.text) + 1
        /\ \A j \in 1..Before(m) : Written(m)[j] = h[j]
        /\ \A j \in 1..Len(m.text) : Written(m)[Before(m) + j] = m.text[j]
        /\ Written(m)[Before(m) + Len(m.text) + 1] = 0
    <3>1. PICK t \in Seq(Bytes \ {0}) : t = m.text
      BY <1>2
    <3>2. PICK s : s = Written(m) /\ s = h \o MSG_WriteString(t)
      BY <2>1, <2>2, <3>1
    <3>3. Framed(s, h, t)
      BY <2>2, <3>1, <3>2, TextPlace
    <3>4. Len(h) = Before(m)
      BY <2>1, <2>2
    <3> QED
      BY <3>1, <3>2, <3>3, <3>4 DEF Framed
  <2> QED
    BY <1>1, <1>2, <1>10, <2>1, <2>2, <2>3
<1>11. CASE m.cmd \in {"TELEPORT", "INVITE"}
  <2>1. Written(m) = <<8, Sub[m.cmd], m.id>> \o MSG_WriteString(m.text)
        /\ ByteOf(m) = 8 /\ Before(m) = 3
    BY <1>1, <1>11 DEF Written, ByteOf, Before
  <2>2. PICK h \in Seq(Bytes) : h = <<8, Sub[m.cmd], m.id>> /\ Len(h) = 3
                                /\ h[1] = 8 /\ h[2] = Sub[m.cmd] /\ h[3] = m.id
    <3>1. PICK a \in Bytes : a = Sub[m.cmd]
      BY <1>1, <1>6, <1>11
    <3>2. PICK b \in Bytes : b = 8
      BY <1>6
    <3>3. PICK c \in Bytes : c = m.id
      BY <1>2
    <3>4. <<b, a, c>> \in Seq(Bytes) /\ Len(<<b, a, c>>) = 3
      BY <1>5
    <3> QED
      BY <3>1, <3>2, <3>3, <3>4
  <2>3. /\ Written(m) \in Seq(Bytes) /\ Len(Written(m)) \in Nat
        /\ Len(Written(m)) = Before(m) + Len(m.text) + 1
        /\ \A j \in 1..Before(m) : Written(m)[j] = h[j]
        /\ \A j \in 1..Len(m.text) : Written(m)[Before(m) + j] = m.text[j]
        /\ Written(m)[Before(m) + Len(m.text) + 1] = 0
    <3>1. PICK t \in Seq(Bytes \ {0}) : t = m.text
      BY <1>2
    <3>2. PICK s : s = Written(m) /\ s = h \o MSG_WriteString(t)
      BY <2>1, <2>2, <3>1
    <3>3. Framed(s, h, t)
      BY <2>2, <3>1, <3>2, TextPlace
    <3>4. Len(h) = Before(m)
      BY <2>1, <2>2
    <3> QED
      BY <3>1, <3>2, <3>3, <3>4 DEF Framed
  <2> QED
    BY <1>1, <1>2, <1>11, <2>1, <2>2, <2>3
<1> QED
  BY <1>2, <1>7, <1>8, <1>9, <1>10, <1>11

-----------------------------------------------------------------------------
(* How far is read.                                                        *)

(* The last handler called is the one of an answer to the challenge.       *)
AnswerCopied == got # <<>> /\ got[Len(got)].cmd = "AUTH"

(* Nothing is read more than four bytes behind the data, but for an answer *)
(* and for a list of more than one player that was left among the zeros    *)
(* and cannot end any more.  A list of one has at most one more to go      *)
(* there: its slot is 0 again if the byte for it was 255.                  *)
ReadInv ==
  /\ bytes \in Seq(Bytes) /\ data \in Seq(Bytes)
  /\ slot \in Nat /\ count \in Nat /\ \E S : got \in Seq(S)
  /\ pc = "list" =>
       /\ \/ last <= BufSize + 4
          \/ 1 < count /\ slot < count /\ Len(data) <= index /\ last < BufSize + Pad
       /\ count = 1 /\ slot = 0 => index <= Len(data) + 2
  /\ pc # "list" =>
       last <= BufSize + 4 \/ (pc = "lost" /\ 1 < count) \/ AnswerCopied

(* The bytes of the buffer are bytes, and zero behind what was received.   *)
LEMMA ByteAt ==
  ASSUME ReadInv, BufferInv, NEW p \in Nat
  PROVE  At(p) \in Bytes
<1>1. Len(data) \in Nat /\ \A k \in 1..Len(data) : data[k] \in Bytes
  BY DEF ReadInv
<1>2. CASE p < Len(data)
  <2>1. p + 1 \in 1..Len(data)
    BY <1>1, <1>2
  <2> QED
    BY <1>1, <1>2, <2>1 DEF At
<1>3. CASE ~(p < Len(data))
  BY <1>3 DEF At, Bytes
<1> QED
  BY <1>2, <1>3

(* The last call.                                                          *)
LEMMA CallAdded ==
  ASSUME NEW x, \E S : got \in Seq(S), got' = Append(got, x)
  PROVE  /\ \E S : got' \in Seq(S)
         /\ got' # <<>> /\ got'[Len(got')] = x
<1>1. PICK S : got \in Seq(S)
  OBVIOUS
<1>2. PICK h \in Seq(S \cup {x}) : h = got
  BY <1>1, SeqMonotonic
<1>3. x \in S \cup {x}
  OBVIOUS
<1>4. /\ Append(h, x) \in Seq(S \cup {x}) /\ Append(h, x)[Len(Append(h, x))] = x
      /\ Append(h, x) # <<>>
  BY <1>2, <1>3
<1> QED
  BY <1>2, <1>4

(* Every handler but those two reads no more than three bytes behind its   *)
(* command, or to the end of a text that was received.                     *)
LEMMA HandlerReads ==
  ASSUME BufferInv, ParseMessage
  PROVE  \/ ParseAuth \/ ParsePlayerList \/ ListEntry \/ ListEnds \/ ParseEnds
         \/ /\ UNCHANGED <<bytes, bufVars, listVars>> /\ pc = "parse" /\ pc' # "list"
            /\ last' \in Nat /\ last' <= BufSize + 3 /\ index' = last' + 1
            /\ (got' = got \/ \E m : got' = Append(got, m))
<1> DEFINE Reads(p) ==
      /\ UNCHANGED <<bytes, bufVars, listVars>> /\ pc = "parse" /\ pc' # "list"
      /\ index' = p + 1 /\ last' = p
      /\ (got' = got \/ \E m : got' = Append(got, m))
           Near == /\ UNCHANGED <<bytes, bufVars, listVars>> /\ pc = "parse" /\ pc' # "list"
                   /\ last' \in Nat /\ last' <= BufSize + 3 /\ index' = last' + 1
                   /\ (got' = got \/ \E m : got' = Append(got, m))
<1>1. index \in Nat /\ BufSize \in Nat /\ Len(data) \in Nat /\ Len(data) <= BufSize
  BY StreamAssumption DEF BufferInv
<1>2. ASSUME NEW p \in Nat, Reads(p), p <= BufSize + 3 PROVE Near
  BY <1>2
<1>3. ASSUME NEW m, NEW p, NEW c, AtCommand(c), Handled(m, p) PROVE Reads(p)
  BY <1>3 DEF Handled, AtCommand, netVars
<1>4. ASSUME NEW p, pc = "parse", Skip(p) PROVE Reads(p)
  BY <1>4 DEF Skip, netVars
<1> HIDE DEF Reads, Near
<1>5. ASSUME NEW c, c # 0, AtCommand(c) PROVE index < BufSize
  <2>1. At(index) # 0
    BY <1>5 DEF AtCommand
  <2> QED
    BY <1>1, <2>1, ByteReceived
<1>6. ASSUME NEW k \in {1, 2, 3}, index < BufSize, Reads(StringEnd(index + k)) PROVE Near
  <2>1. index + k \in Nat
    BY <1>1
  <2>2. /\ StringEnd(index + k) \in Nat
        /\ StringEnd(index + k) = index + k + 1 \/ StringEnd(index + k) <= Len(data)
    BY <2>1, StringEnds
  <2> QED
    BY <1>1, <1>2, <1>6, <2>2
<1>7. /\ Code.PING # 0 /\ Code.DISCONNECT # 0 /\ Code.MAP # 0 /\ Code.PRINT # 0 /\ COMMAND # 0
      /\ Code.QUIT # 0 /\ \A c \in {"CONNECT", "PLAYERUPDATE"} : Code[c] # 0
  BY DEF Code, COMMAND
<1>8. CASE Pong
  <2>1. index < BufSize /\ Reads(index)
    BY <1>3, <1>5, <1>7, <1>8 DEF Pong
  <2> QED
    BY <1>1, <1>2, <2>1 DEF Near
<1>17. CASE Quit
  <2>1. index < BufSize /\ Reads(index)
    BY <1>5, <1>7, <1>17 DEF Quit, CloseConnection, AtCommand, Reads, netVars
  <2> QED
    BY <1>1, <1>2, <2>1 DEF Near
<1>9. CASE ParsePlayerDisconnect
  <2>1. index < BufSize /\ Reads(index + 1)
    BY <1>3, <1>5, <1>7, <1>9 DEF ParsePlayerDisconnect
  <2> QED
    BY <1>1, <1>2, <2>1 DEF Near
<1>10. CASE ParseMap
  <2>1. index < BufSize /\ Reads(StringEnd(index + 1))
    BY <1>3, <1>5, <1>7, <1>10 DEF ParseMap
  <2> QED
    BY <1>6, <2>1 DEF Near
<1>11. CASE ParsePrint
  <2>1. index < BufSize /\ Reads(StringEnd(index + 2))
    BY <1>3, <1>5, <1>7, <1>11 DEF ParsePrint
  <2> QED
    BY <1>6, <2>1 DEF Near
<1>12. ASSUME NEW cmd \in {"CONNECT", "PLAYERUPDATE"}, ParseUserinfo(cmd) PROVE Near
  <2>1. AtCommand(Code[cmd]) /\ \E m : Handled(m, StringEnd(index + 2))
    BY <1>12 DEF ParseUserinfo
  <2>2. index < BufSize /\ Reads(StringEnd(index + 2))
    BY <1>3, <1>5, <1>7, <2>1
  <2> QED
    BY <1>6, <2>2
<1>13. ASSUME NEW cmd \in DOMAIN Sub, ParseCommand(cmd) PROVE Near
  <2>1. AtCommand(COMMAND) /\ \E m : Handled(m, StringEnd(index + 3))
    BY <1>13 DEF ParseCommand
  <2>2. index < BufSize /\ Reads(StringEnd(index + 3))
    BY <1>3, <1>5, <1>7, <2>1
  <2> QED
    BY <1>6, <2>2
<1>14. CASE ParseNothing
  <2>1. CASE pc = "parse" /\ InMessage /\ Skip(index)
    <3>1. Reads(index) /\ index <= BufSize
      BY <1>4, <2>1 DEF InMessage
    <3> QED
      BY <1>1, <1>2, <3>1 DEF Near
  <2>2. CASE AtCommand(COMMAND) /\ Skip(index + 1)
    <3>1. Reads(index + 1) /\ index < BufSize
      BY <1>4, <1>5, <1>7, <2>2 DEF AtCommand
    <3> QED
      BY <1>1, <1>2, <3>1 DEF Near
  <2> QED
    BY <1>14, <2>1, <2>2 DEF ParseNothing
<1> QED
  BY <1>8, <1>9, <1>10, <1>11, <1>12, <1>13, <1>14, <1>17 DEF ParseMessage, Near

(* The loop of ParsePlayerList: an entry that begins among the received    *)
(* bytes is read to the byte behind them at most, and behind them every    *)
(* entry makes the slot 1.                                                 *)
LEMMA ListReads ==
  ASSUME BufferInv, ReadInv, ListEntry
  PROVE  (BufferInv /\ ReadInv)'
<1>1. /\ index \in Nat /\ BufSize \in Nat /\ Pad \in Nat /\ Len(data) \in Nat
      /\ Len(data) <= BufSize
  BY StreamAssumption DEF BufferInv
<1>2. PICK D \in Nat : D = Len(data) /\ D <= BufSize
  BY <1>1
<1>3. PICK e \in Nat : /\ e = StringEnd(index + 1) /\ index + 2 <= e
                       /\ e = index + 2 \/ e <= D
  <2>1. index + 1 \in Nat /\ index + 1 + 1 = index + 2
    BY <1>1
  <2> QED
    BY <1>2, <2>1, StringEnds
<1>4. PICK b \in Bytes : b = At(index)
  BY <1>1, ByteAt
<1>5. /\ pc = "list" /\ slot < count /\ slot' = (b + 1) % 256
      /\ last' = e /\ index' = e + 1
      /\ UNCHANGED <<bytes, bufVars, count, got>> /\ pc' \in {"list", "lost"}
      /\ pc' = "list" => last' < BufSize + Pad
  BY <1>3, <1>4 DEF ListEntry, netVars
<1>6. slot \in Nat /\ count \in Nat
  BY DEF ReadInv
<1>7. slot' \in Nat
  BY <1>4, <1>5 DEF Bytes
<1>8. BufferInv'
  BY <1>3, <1>5 DEF BufferInv, bufVars
<1>9. CASE index < D
  <2>1. last' <= BufSize + 4 /\ index' <= D + 2
    BY <1>1, <1>2, <1>3, <1>5, <1>9
  <2> QED
    BY <1>2, <1>5, <1>7, <1>8, <2>1 DEF ReadInv, bufVars, AnswerCopied
<1>10. CASE ~(index < D)
  <2>1. b = 0
    BY <1>2, <1>4, <1>10 DEF At
  <2>2. slot' = 1 /\ e = index + 2
    BY <1>1, <1>2, <1>3, <1>5, <1>10, <2>1
  <2>3. D <= index'
    BY <1>1, <1>2, <1>5, <1>10, <2>2
  <2>4. ASSUME ~(1 < count) PROVE last' <= BufSize + 4
    <3>1. count = 1 /\ slot = 0
      BY <1>5, <1>6, <2>4
    <3>2. index <= D + 2
      BY <1>2, <1>5, <3>1 DEF ReadInv
    <3> QED
      BY <1>1, <1>2, <1>5, <2>2, <3>2
  <2>5. ((1 < count)' /\ (slot < count)') \/ last' <= BufSize + 4
    BY <1>5, <1>6, <2>2, <2>4
  <2> QED
    BY <1>2, <1>5, <1>7, <1>8, <2>2, <2>3, <2>5 DEF ReadInv, bufVars, AnswerCopied
<1> QED
  BY <1>2, <1>9, <1>10

(* The empty connection.                                                   *)
LEMMA ReadInit == Init => BufferInv /\ ReadInv
<1> SUFFICES ASSUME Init PROVE ReadInv
  BY BufferInit
<1>1. <<>> \in Seq(Bytes) /\ BufSize \in Nat
  BY StreamAssumption
<1>2. bytes \in Seq(Bytes) /\ data \in Seq(Bytes) /\ got \in Seq(Bytes)
  BY <1>1 DEF Init
<1> QED
  BY <1>1, <1>2 DEF Init, ReadInv

(* Every step.                                                             *)
LEMMA ReadStep == BufferInv /\ ReadInv /\ [Next]_vars => (BufferInv /\ ReadInv)'
<1> SUFFICES ASSUME BufferInv, ReadInv, [Next]_vars PROVE BufferInv' /\ ReadInv'
  OBVIOUS
<1>1. /\ BufSize \in Nat /\ Pad \in Nat /\ index \in Nat /\ Len(data) \in Nat
      /\ Len(data) <= BufSize
  BY StreamAssumption DEF BufferInv
<1>2. ASSUME UNCHANGED <<bufVars, listVars, index, pc, got, last>>, bytes' \in Seq(Bytes)
      PROVE  BufferInv' /\ ReadInv'
  <2>1. BufferInv'
    BY <1>2 DEF BufferInv, bufVars
  <2> QED
    BY <1>2, <2>1 DEF ReadInv, bufVars, listVars, AnswerCopied
<1>3. ASSUME bytes' \in Seq(Bytes), data' \in Seq(Bytes), Len(data') \in Nat,
             Len(data') <= BufSize, length' \in Nat, index' = 0, last' = 0, got' = <<>>,
             pc' = "parse", UNCHANGED listVars
      PROVE  BufferInv' /\ ReadInv'
  <2>1. BufferInv'
    BY <1>3 DEF BufferInv
  <2>2. got' \in Seq(Bytes) /\ last' <= BufSize + 4
    BY <1>1, <1>3
  <2> QED
    BY <1>3, <2>1, <2>2 DEF ReadInv, listVars
<1>4. ASSUME NEW m \in Outgoing, ClientWrites(m) PROVE BufferInv' /\ ReadInv'
  <2>1. PICK w \in Seq(Bytes) : w = Written(m)
    BY WrittenForm
  <2>2. bytes \o w \in Seq(Bytes)
    BY DEF ReadInv
  <2> QED
    BY <1>2, <1>4, <2>1, <2>2 DEF ClientWrites
<1>5. ASSUME NEW n \in 1..BufSize, Recv(n) PROVE BufferInv' /\ ReadInv'
  <2>1. /\ data' = SubSeq(bytes, 1, n) /\ length' = n /\ index' = 0 /\ last' = 0
        /\ bytes' = SubSeq(bytes, n + 1, Len(bytes)) /\ n <= Len(bytes)
        /\ got' = <<>> /\ pc' = "parse" /\ UNCHANGED listVars
    BY <1>5 DEF Recv, Cleared
  <2>2. PICK b \in Seq(Bytes) : b = bytes /\ Len(b) \in Nat
    BY DEF ReadInv
  <2>3. SubSeq(b, 1, n) \in Seq(Bytes) /\ Len(SubSeq(b, 1, n)) = n
    BY <1>1, <2>1, <2>2
  <2>4. SubSeq(b, n + 1, Len(b)) \in Seq(Bytes)
    BY <1>1, <2>1, <2>2
  <2> QED
    BY <1>1, <1>3, <2>1, <2>2, <2>3, <2>4
<1>6. CASE RecvFails
  <2>1. /\ data' = <<>> /\ length' = Huge /\ index' = 0 /\ last' = 0 /\ bytes' = bytes
        /\ got' = <<>> /\ pc' = "parse" /\ UNCHANGED listVars
    BY <1>6 DEF RecvFails, Cleared, netVars
  <2>2. bytes \in Seq(Bytes) /\ Len(<<>>) = 0 /\ <<>> \in Seq(Bytes) /\ Huge \in Nat
    BY <1>1 DEF ReadInv, Huge
  <2> QED
    BY <1>1, <1>3, <2>1, <2>2
<1>7. CASE ParseMessage
  <2>1. CASE /\ UNCHANGED <<bytes, bufVars, listVars>> /\ pc = "parse" /\ pc' # "list"
             /\ last' \in Nat /\ last' <= BufSize + 3 /\ index' = last' + 1
             /\ (got' = got \/ \E m : got' = Append(got, m))
    <3>3. /\ UNCHANGED bufVars /\ last' \in Nat /\ last' <= BufSize + 3
          /\ index' = last' + 1
      BY <2>1
    <3>4. last' \in Nat
      BY <3>3
    <3>5. last' <= BufSize + 4
      BY <1>1, <3>3
    <3>6. index' \in Nat
      <4>1. \A p \in Nat : p + 1 \in Nat
        OBVIOUS
      <4> QED
        BY <3>3, <4>1, Zenon
    <3>7. data' = data /\ length' = length
      BY <3>3 DEF bufVars
    <3>1. BufferInv' /\ last' <= BufSize + 4
      BY <3>4, <3>5, <3>6, <3>7 DEF BufferInv
    <3>2. \E S : got' \in Seq(S)
      BY <2>1, CallAdded DEF ReadInv
    <3> QED
      BY <2>1, <3>1, <3>2 DEF ReadInv, bufVars, listVars
  <2>2. CASE ParseAuth
    <3>1. index + 1 \in Nat /\ index + 2 \in Nat
      BY <1>1
    <3>2. PICK a \in Bytes : a = At(index + 1)
      BY <3>1, ByteAt
    <3>3. PICK b \in Bytes : b = At(index + 2)
      BY <3>1, ByteAt
    <3>8. a \in Nat /\ b \in Nat
      BY DEF Bytes
    <3>4. PICK p \in Nat : p = index + 2 + (a + 256 * b)
      <4>1. a + 256 * b \in Nat
        BY <3>8
      <4>2. index + 2 + (a + 256 * b) \in Nat
        BY <3>1, <4>1
      <4> QED
        BY <4>2
    <3>5. /\ index' = p + 1 /\ last' = p /\ UNCHANGED <<bytes, bufVars, listVars>>
          /\ got' = Append(got, Message("AUTH", 0, <<>>, <<>>))
          /\ pc = "parse" /\ pc' \in {"parse", "lost"}
      BY <2>2, <3>2, <3>3, <3>4 DEF ParseAuth, CloseConnection, AtCommand, netVars
    <3>6. (\E S : got' \in Seq(S)) /\ AnswerCopied'
      <4>1. Message("AUTH", 0, <<>>, <<>>).cmd = "AUTH"
        BY DEF Message
      <4> QED
        BY <3>5, <4>1, CallAdded DEF ReadInv, AnswerCopied
    <3>7. BufferInv'
      BY <3>5 DEF BufferInv, bufVars
    <3> QED
      BY <3>5, <3>6, <3>7 DEF ReadInv, bufVars, listVars
  <2>3. CASE ParsePlayerList
    <3>1. index < Len(data)
      BY <1>1, <2>3, ByteReceived DEF ParsePlayerList, AtCommand, Code
    <3>2. At(index + 1) \in Nat
      <4>1. index + 1 \in Nat
        BY <1>1
      <4>2. At(index + 1) \in Bytes
        BY <4>1, ByteAt
      <4> QED
        BY <4>2 DEF Bytes
    <3>3. /\ count' \in Nat /\ slot' = 0 /\ pc' = "list" /\ index' = index + 2
          /\ last' = index + 1 /\ UNCHANGED <<bytes, bufVars, got>>
      BY <2>3, <3>2 DEF ParsePlayerList, netVars
    <3>4. BufferInv'
      BY <1>1, <3>3 DEF BufferInv, bufVars
    <3>5. last' <= BufSize + 4 /\ index' <= Len(data) + 2
      BY <1>1, <3>1, <3>3
    <3> QED
      BY <3>3, <3>4, <3>5 DEF ReadInv, bufVars
  <2>4. CASE ListEntry
    BY <2>4, ListReads
  <2>5. CASE ListEnds
    <3>1. /\ pc = "list" /\ count <= slot /\ slot' = 0 /\ count' = 0 /\ pc' = "parse"
          /\ UNCHANGED <<bytes, bufVars, index, last>> /\ \E m : got' = Append(got, m)
      BY <2>5 DEF ListEnds, netVars
    <3>2. last <= BufSize + 4 /\ \E S : got' \in Seq(S)
      BY <3>1, CallAdded DEF ReadInv
    <3>3. BufferInv'
      BY <3>1 DEF BufferInv, bufVars
    <3> QED
      BY <3>1, <3>2, <3>3 DEF ReadInv, bufVars
  <2>6. CASE ParseEnds
    <3>1. /\ pc = "parse" /\ pc' \in {"recv", "closed"}
          /\ UNCHANGED <<bytes, bufVars, listVars, index, got, last>>
      BY <2>6 DEF ParseEnds, netVars
    <3>2. BufferInv'
      BY <3>1 DEF BufferInv, bufVars
    <3> QED
      BY <3>1, <3>2 DEF ReadInv, bufVars, listVars, AnswerCopied
  <2> QED
    BY <1>7, <2>1, <2>2, <2>3, <2>4, <2>5, <2>6, HandlerReads
<1>8. CASE UNCHANGED vars
  <2>1. bytes' \in Seq(Bytes)
    BY <1>8 DEF vars, netVars, ReadInv
  <2> QED
    BY <1>2, <1>8, <2>1 DEF vars
<1> QED
  BY <1>4, <1>5, <1>6, <1>7, <1>8 DEF Next

(* With five bytes behind the data, as many as msg_buffer_t has, nothing   *)
(* but an answer to the challenge and a list of more than one player reads *)
(* outside the object, wherever a message is cut and though a failed       *)
(* recv() is parsed as the longest message there is.                       *)
THEOREM ReadsStayInside ==
  ASSUME 5 <= Pad
  PROVE  Spec => []ReadsInside
<1>1. Init => BufferInv /\ ReadInv
  BY ReadInit
<1>2. BufferInv /\ ReadInv /\ [Next]_vars => (BufferInv /\ ReadInv)'
  BY ReadStep
<1>3. BufferInv /\ ReadInv => ReadsInside
  <2> SUFFICES ASSUME BufferInv, ReadInv, BufSize + Pad <= last
               PROVE  (pc = "lost" /\ 1 < count) \/ AnswerCopied
    BY StreamAssumption DEF ReadsInside, AnswerCopied, BufferInv
  <2>1. ~(last <= BufSize + 4) /\ ~(last < BufSize + Pad)
    BY StreamAssumption DEF BufferInv
  <2> QED
    BY <2>1 DEF ReadInv
<1> QED
  BY <1>1, <1>2, <1>3, PTL DEF Spec

-----------------------------------------------------------------------------
(* Texts as they are read.                                                 *)

(* A zero, and nothing, make the empty string.                             *)
LEMMA PlainNothing ==
  ASSUME NEW string, Len(string) \in {0, 1}, Len(string) = 1 => string[1] % 128 = 0
  PROVE  Plain(string) = <<>>
<1> DEFINE D == 0..Len(string)
           str[n \in D] == IF n = 0 THEN <<>>
                           ELSE IF string[n] % 128 = 0 THEN str[n - 1]
                                ELSE Append(str[n - 1], string[n] % 128)
           none == [n \in D |-> <<>>]
<1>1. /\ Len(string) \in D /\ 0 \in D /\ 1 - 1 = 0 /\ Len(string) \in {0, 1}
      /\ \A n \in D : n = 0 \/ (n = 1 /\ n = Len(string))
  <2>1. PICK l \in {0, 1} : l = Len(string)
    OBVIOUS
  <2>2. l \in 0..l /\ 0 \in 0..l /\ \A n \in 0..l : n = 0 \/ (n = 1 /\ n = l)
    OBVIOUS
  <2> QED
    BY <2>1, <2>2
<1>2. \A n \in D : n = 0 \/ (string[n] % 128 = 0 /\ n - 1 \in D)
  BY <1>1
<1>3. none = [n \in D |-> IF n = 0 THEN <<>>
                          ELSE IF string[n] % 128 = 0 THEN none[n - 1]
                               ELSE Append(none[n - 1], string[n] % 128)]
  BY <1>2, Zenon
<1>4. str = [n \in D |-> IF n = 0 THEN <<>>
                         ELSE IF string[n] % 128 = 0 THEN str[n - 1]
                              ELSE Append(str[n - 1], string[n] % 128)]
  BY <1>3, Zenon
<1>5. Plain(string) = str[Len(string)]
  BY Zenon DEF Plain, str, D
<1> HIDE DEF str, D
<1>6. str[0] = <<>>
  BY <1>1, <1>4, Zenon
<1>7. Len(string) = 1 => str[1] = str[0]
  <2>1. Len(string) = 1 => 1 \in D /\ string[1] % 128 = 0 /\ 1 # 0
    BY <1>1
  <2> QED
    BY <1>1, <1>4, <2>1, Zenon
<1> QED
  BY <1>1, <1>5, <1>6, <1>7

-----------------------------------------------------------------------------
(* What Info_ValueForKey finds in a userinfo, read as plain text.           *)

(* Appending the next value of a function.                                 *)
LEMMA AppendNext ==
  ASSUME NEW n \in Nat \ {0}, NEW f
  PROVE  Append([i \in 1..(n - 1) |-> f[i]], f[n]) = [i \in 1..n |-> f[i]]
<1> DEFINE S == {f[i] : i \in 1..n}
<1>1. PICK t : t = [i \in 1..(n - 1) |-> f[i]]
  OBVIOUS
<1>2. n - 1 \in Nat /\ n \in 1..n /\ n - 1 + 1 = n /\ \A i \in 1..(n - 1) : i \in 1..n
  OBVIOUS
<1>3. t \in [1..(n - 1) -> S] /\ f[n] \in S
  BY <1>1, <1>2
<1>4. PICK x : x = f[n] /\ x \in S
  BY <1>3
<1> HIDE DEF S
<1>5. t \in Seq(S) /\ Len(t) = n - 1
  BY <1>2, <1>3
<1>6. PICK u : u = Append(t, x)
  OBVIOUS
<1>7. /\ u \in Seq(S) /\ Len(u) = n
      /\ \A i \in 1..(n - 1) : u[i] = t[i]
      /\ u[n] = x
  BY <1>2, <1>4, <1>5, <1>6, AppendProperties
<1>8. u = [i \in 1..n |-> u[i]]
  BY <1>7
<1>9. \A i \in 1..n : u[i] = f[i]
  <2> SUFFICES ASSUME NEW i \in 1..n PROVE u[i] = f[i]
    OBVIOUS
  <2>1. i = n \/ i \in 1..(n - 1)
    OBVIOUS
  <2> QED
    BY <1>1, <1>4, <1>7, <2>1
<1> QED
  BY <1>1, <1>4, <1>6, <1>8, <1>9

(* A text without zeros is read letter by letter, less the high bits.      *)
LEMMA PlainLetters ==
  ASSUME NEW string \in Seq(Bytes \ {0, 128})
  PROVE  Plain(string) = [i \in 1..Len(string) |-> string[i] % 128]
<1> DEFINE D == 0..Len(string)
           low == [i \in 1..Len(string) |-> string[i] % 128]
           str[n \in D] == IF n = 0 THEN <<>>
                           ELSE IF string[n] % 128 = 0 THEN str[n - 1]
                                ELSE Append(str[n - 1], string[n] % 128)
           begin == [n \in D |-> [i \in 1..n |-> low[i]]]
<1>1. Len(string) \in Nat
  OBVIOUS
<1>2. ASSUME NEW n \in D, n # 0
      PROVE  /\ n \in Nat \ {0} /\ n - 1 \in D /\ n \in 1..Len(string)
             /\ string[n] % 128 # 0 /\ low[n] = string[n] % 128
  <2>1. n \in Nat \ {0} /\ n - 1 \in D /\ n \in 1..Len(string)
    BY <1>1, <1>2
  <2>2. string[n] \in Bytes \ {0, 128}
    BY <2>1
  <2>3. \A b \in 0..255 : b % 128 = 0 => b = 0 \/ b = 128
    OBVIOUS
  <2> QED
    BY <2>1, <2>2, <2>3 DEF Bytes
<1> HIDE DEF low
<1>3. ASSUME NEW n \in D
      PROVE  begin[n] = IF n = 0 THEN <<>>
                        ELSE IF string[n] % 128 = 0 THEN begin[n - 1]
                             ELSE Append(begin[n - 1], string[n] % 128)
  <2>1. CASE n = 0
    BY <2>1
  <2>2. CASE n # 0
    <3>1. begin[n] = Append([i \in 1..(n - 1) |-> low[i]], low[n])
      <4>1. begin[n] = [i \in 1..n |-> low[i]]
        OBVIOUS
      <4> HIDE DEF begin
      <4> QED
        BY <1>2, <2>2, <4>1, AppendNext
    <3>2. begin[n - 1] = [i \in 1..(n - 1) |-> low[i]]
      BY <1>2, <2>2
    <3> HIDE DEF begin
    <3> QED
      BY <1>2, <2>2, <3>1, <3>2
  <2> QED
    BY <2>1, <2>2
<1>4. begin = [n \in D |-> IF n = 0 THEN <<>>
                           ELSE IF string[n] % 128 = 0 THEN begin[n - 1]
                                ELSE Append(begin[n - 1], string[n] % 128)]
  <2>1. begin = [n \in D |-> begin[n]]
    BY Zenon
  <2> HIDE DEF begin, D
  <2> QED
    BY <1>3, <2>1, Zenon
<1>5. str = [n \in D |-> IF n = 0 THEN <<>>
                         ELSE IF string[n] % 128 = 0 THEN str[n - 1]
                              ELSE Append(str[n - 1], string[n] % 128)]
  <2> HIDE DEF begin, D
  <2> QED
    BY <1>4, Zenon DEF str
<1>6. Plain(string) = str[Len(string)]
  BY Zenon DEF Plain, str, D
<1> HIDE DEF str
<1>7. \A n \in D : str[n] = begin[n]
  <2> DEFINE Other == {n \in D : str[n] # begin[n]}
  <2> SUFFICES ASSUME Other # {} PROVE FALSE
    OBVIOUS
  <2>1. PICK n \in Other : \A j \in Other : n <= j
    <3>1. Other \in SUBSET Nat
      BY <1>1
    <3> HIDE DEF Other
    <3> QED
      BY <3>1, LeastNumber
  <2>2. n \in D /\ str[n] # begin[n]
    BY <2>1
  <2>3. n # 0
    <3> HIDE DEF begin, D
    <3> QED
      BY <1>3, <1>5, <2>2, Zenon
  <2>4. n - 1 \in D /\ ~(n <= n - 1)
    BY <1>2, <2>2, <2>3
  <2>5. str[n - 1] = begin[n - 1]
    <3> HIDE DEF begin, D
    <3> QED
      BY <2>1, <2>4
  <2> HIDE DEF begin, D
  <2>6. str[n] = IF string[n] % 128 = 0 THEN str[n - 1] ELSE Append(str[n - 1], string[n] % 128)
    BY <1>5, <2>2, <2>3, Zenon
  <2>7. begin[n] = IF string[n] % 128 = 0 THEN begin[n - 1]
                   ELSE Append(begin[n - 1], string[n] % 128)
    BY <1>3, <2>2, <2>3, Zenon
  <2> QED
    BY <2>2, <2>5, <2>6, <2>7, Zenon
<1>8. begin[Len(string)] = [i \in 1..Len(string) |-> low[i]]
  BY <1>1
<1>9. [i \in 1..Len(string) |-> low[i]] = low
  BY DEF low
<1> HIDE DEF begin
<1>10. Len(string) \in D
  BY <1>1
<1> QED
  BY <1>6, <1>7, <1>8, <1>9, <1>10 DEF low

(* The letters of two sequences, one behind the other.                     *)
LEMMA Joined ==
  ASSUME NEW S, NEW s1 \in Seq(S), NEW s2 \in Seq(S), NEW t, t = s1 \o s2
  PROVE  /\ t \in Seq(S) /\ Len(t) = Len(s1) + Len(s2)
         /\ \A i \in 1..Len(s1) : t[i] = s1[i]
         /\ \A i \in 1..Len(s2) : t[Len(s1) + i] = s2[i]
<1>1. PICK l, m : l = Len(s1) /\ m = Len(s2)
  OBVIOUS
<1>2. /\ t \in Seq(S) /\ Len(t) = l + m /\ l \in Nat /\ m \in Nat
      /\ \A i \in 1..(l + m) : t[i] = IF i <= l THEN s1[i] ELSE s2[i - l]
  BY <1>1, ConcatProperties
<1>3. \A i \in 1..l : t[i] = s1[i]
  BY <1>2
<1>4. ASSUME NEW i \in 1..m PROVE t[l + i] = s2[i]
  <2>1. PICK j \in 1..(l + m) : j = l + i /\ ~(j <= l) /\ j - l = i
    BY <1>2
  <2> QED
    BY <1>2, <2>1
<1> QED
  BY <1>1, <1>2, <1>3, <1>4

(* A key and its value lie in s behind the first a letters, up to the      *)
(* letter b.                                                               *)
PairAt(s, a, b, key, value) ==
  /\ b = a + Len(key) + Len(value) + 2 /\ b <= Len(s)
  /\ s[a + 1] = Backslash /\ s[a + Len(key) + 2] = Backslash
  /\ \A i \in 1..Len(key) : s[a + 1 + i] = key[i]
  /\ \A i \in 1..Len(value) : s[a + Len(key) + 2 + i] = value[i]

(* t begins with s.                                                        *)
Begins(t, s) == Len(s) <= Len(t) /\ \A i \in 1..Len(s) : t[i] = s[i]

(* A pair that is written behind s lies there, and the letters of s stay   *)
(* where they are.                                                         *)
LEMMA PairWritten ==
  ASSUME NEW S, Backslash \in S, NEW s \in Seq(S), NEW key \in Seq(S), NEW value \in Seq(S),
         NEW bar, bar = <<Backslash>>, NEW t, t = s \o bar \o key \o bar \o value
  PROVE  t \in Seq(S) /\ Begins(t, s) /\ PairAt(t, Len(s), Len(t), key, value)
<1>1. PICK x \in S : x = Backslash
  OBVIOUS
<1>2. bar \in Seq(S) /\ Len(bar) = 1 /\ bar[1] = x
  BY <1>1
<1>3. PICK l \in Nat, m \in Nat, n \in Nat : l = Len(s) /\ m = Len(key) /\ n = Len(value)
  OBVIOUS
<1>4. PICK a1 \in Nat, a2 \in Nat, a3 \in Nat, a4 \in Nat :
        a1 = l + 1 /\ a2 = a1 + m /\ a3 = a2 + 1 /\ a4 = a3 + n
  OBVIOUS
<1>5. PICK t1 : t1 = s \o bar
  OBVIOUS
<1>6. /\ t1 \in Seq(S) /\ Len(t1) = a1
      /\ \A i \in 1..l : t1[i] = s[i]
      /\ t1[a1] = x
  <2>1. /\ t1 \in Seq(S) /\ Len(t1) = Len(s) + Len(bar)
        /\ \A i \in 1..Len(s) : t1[i] = s[i]
        /\ \A i \in 1..Len(bar) : t1[Len(s) + i] = bar[i]
    <3>1. bar \in Seq(S)
      BY <1>2
    <3> QED
      BY <1>5, <3>1, Joined
  <2>2. 1 \in 1..1
    OBVIOUS
  <2> QED
    BY <1>2, <1>3, <1>4, <1>5, <2>1, <2>2
<1>7. PICK t2 : t2 = t1 \o key
  OBVIOUS
<1>8. /\ t2 \in Seq(S) /\ Len(t2) = a2
      /\ \A i \in 1..a1 : t2[i] = t1[i]
      /\ \A i \in 1..m : t2[a1 + i] = key[i]
  <2>1. /\ t2 \in Seq(S) /\ Len(t2) = Len(t1) + Len(key)
        /\ \A i \in 1..Len(t1) : t2[i] = t1[i]
        /\ \A i \in 1..Len(key) : t2[Len(t1) + i] = key[i]
    <3>1. t1 \in Seq(S)
      BY <1>6
    <3> QED
      BY <1>7, <3>1, Joined
  <2> QED
    BY <1>3, <1>4, <1>6, <1>7, <2>1
<1>9. PICK t3 : t3 = t2 \o bar
  OBVIOUS
<1>10. /\ t3 \in Seq(S) /\ Len(t3) = a3
       /\ \A i \in 1..a2 : t3[i] = t2[i]
       /\ t3[a3] = x
  <2>1. /\ t3 \in Seq(S) /\ Len(t3) = Len(t2) + Len(bar)
        /\ \A i \in 1..Len(t2) : t3[i] = t2[i]
        /\ \A i \in 1..Len(bar) : t3[Len(t2) + i] = bar[i]
    <3>1. bar \in Seq(S) /\ t2 \in Seq(S)
      BY <1>2, <1>8
    <3> QED
      BY <1>9, <3>1, Joined
  <2>2. 1 \in 1..1
    OBVIOUS
  <2> QED
    BY <1>2, <1>4, <1>8, <1>9, <2>1, <2>2
<1>11. PICK w : w = t3 \o value
  OBVIOUS
<1>12. /\ w \in Seq(S) /\ Len(w) = a4
       /\ \A i \in 1..a3 : w[i] = t3[i]
       /\ \A i \in 1..n : w[a3 + i] = value[i]
  <2>1. /\ w \in Seq(S) /\ Len(w) = Len(t3) + Len(value)
        /\ \A i \in 1..Len(t3) : w[i] = t3[i]
        /\ \A i \in 1..Len(value) : w[Len(t3) + i] = value[i]
    <3>1. t3 \in Seq(S)
      BY <1>10
    <3> QED
      BY <1>11, <3>1, Joined
  <2> QED
    BY <1>3, <1>4, <1>10, <1>11, <2>1
<1>13. w = t
  BY <1>5, <1>7, <1>9, <1>11, Zenon
<1>14. \A i \in 1..l : w[i] = s[i]
  <2> SUFFICES ASSUME NEW i \in 1..l PROVE w[i] = s[i]
    OBVIOUS
  <2>1. i \in 1..a1 /\ i \in 1..a2 /\ i \in 1..a3
    BY <1>4
  <2> QED
    BY <1>6, <1>8, <1>10, <1>12, <2>1
<1>15. w[a1] = x /\ w[a3] = x
  <2>1. a1 \in 1..a1 /\ a1 \in 1..a2 /\ a1 \in 1..a3 /\ a3 \in 1..a3
    BY <1>4
  <2> QED
    BY <1>6, <1>8, <1>10, <1>12, <2>1
<1>16. ASSUME NEW i \in 1..m PROVE w[a1 + i] = key[i]
  <2>1. PICK j \in Nat : j = a1 + i /\ j \in 1..a2 /\ j \in 1..a3
    BY <1>4
  <2>2. t2[j] = key[i]
    BY <1>8, <2>1
  <2>3. t3[j] = t2[j] /\ w[j] = t3[j]
    BY <1>10, <1>12, <2>1
  <2> QED
    BY <2>1, <2>2, <2>3
<1>17. a4 = l + m + n + 2 /\ a1 = l + 1 /\ a3 = l + m + 2
  BY <1>4
<1>18. t \in Seq(S) /\ Len(t) = a4 /\ l <= a4
  BY <1>12, <1>13, <1>17
<1>19. Begins(t, s)
  BY <1>3, <1>13, <1>14, <1>18 DEF Begins
<1>20. PairAt(t, l, a4, key, value)
  <2>1. t[l + 1] = Backslash /\ t[l + m + 2] = Backslash
    BY <1>1, <1>13, <1>15, <1>17
  <2>2. /\ \A i \in 1..m : t[l + 1 + i] = key[i]
        /\ \A i \in 1..n : t[l + m + 2 + i] = value[i]
    BY <1>12, <1>13, <1>16, <1>17
  <2>3. a4 <= Len(t)
    BY <1>18
  <2>4. PICK len1, len2 : len1 = Len(key) /\ len2 = Len(value)
    OBVIOUS
  <2>5. len1 = m /\ len2 = n
    BY <1>3, <2>4
  <2> QED
    BY <1>17, <2>1, <2>2, <2>3, <2>4, <2>5 DEF PairAt
<1> QED
  BY <1>3, <1>18, <1>19, <1>20

(* What the pairs are made of: a letter is neither zero, nor zero without  *)
(* its high bit.                                                           *)
Letters == Bytes \ {0, 128}

(* The first n keys and values make up s, and the k-th end with the letter *)
(* p[k].                                                                   *)
Laid(S, s, p, n, key, value) ==
  /\ s \in Seq(S) /\ p \in [0..n -> Nat] /\ p[0] = 0 /\ p[n] = Len(s)
  /\ \A k \in 1..n : PairAt(s, p[k - 1], p[k], key[k], value[k])

(* One more pair moves none of those before it.                            *)
LEMMA LaidNext ==
  ASSUME NEW n \in Nat \ {0}, NEW key, NEW value,
         key[n] \in Seq(Letters), value[n] \in Seq(Letters),
         \A k \in 1..n : Len(key[k]) \in Nat /\ Len(value[k]) \in Nat,
         NEW s, NEW p, Laid(Letters, s, p, n - 1, key, value)
  PROVE  \E p2 : Laid(Letters, s \o <<Backslash>> \o key[n] \o <<Backslash>> \o value[n],
                      p2, n, key, value)
<1>1. /\ s \in Seq(Letters) /\ p \in [0..(n - 1) -> Nat] /\ p[0] = 0 /\ p[n - 1] = Len(s)
      /\ \A k \in 1..(n - 1) : PairAt(s, p[k - 1], p[k], key[k], value[k])
  BY DEF Laid
<1>2. Backslash \in Letters
  BY DEF Letters, Bytes, Backslash
<1>3. PICK y \in Seq(Letters), z \in Seq(Letters) : y = key[n] /\ z = value[n]
  OBVIOUS
<1>4. PICK l \in Nat : l = Len(s)
  BY <1>1
<1>5. PICK bar, t : bar = <<Backslash>> /\ t = s \o bar \o y \o bar \o z
  OBVIOUS
<1>6. t \in Seq(Letters) /\ Begins(t, s) /\ PairAt(t, Len(s), Len(t), y, z)
  BY <1>1, <1>2, <1>5, PairWritten
<1>7. PICK b \in Nat : b = Len(t) /\ l <= b /\ PairAt(t, l, b, y, z)
  <2>1. PICK b \in Nat : b = Len(t)
    BY <1>6
  <2>2. l <= b
    BY <1>4, <1>6, <2>1 DEF Begins
  <2> QED
    BY <1>4, <1>6, <2>1, <2>2
<1>8. PICK p2 : p2 = [k \in 0..n |-> IF k = n THEN b ELSE p[k]]
  OBVIOUS
<1>9. /\ p2 \in [0..n -> Nat] /\ p2[n] = b /\ p2[n - 1] = l /\ p2[0] = 0
      /\ \A k \in 0..(n - 1) : p2[k] = p[k]
  <2>1. \A k \in 0..(n - 1) : k \in 0..n /\ k # n
    OBVIOUS
  <2>2. \A k \in 0..(n - 1) : p2[k] = p[k]
    BY <1>8, <2>1
  <2>3. \A k \in 0..n : k # n => k \in 0..(n - 1)
    OBVIOUS
  <2>4. \A k \in 0..n : (IF k = n THEN b ELSE p[k]) \in Nat
    BY <1>1, <2>3
  <2>5. n \in 0..n /\ 0 \in 0..(n - 1) /\ n - 1 \in 0..(n - 1)
    OBVIOUS
  <2>6. p2 \in [0..n -> Nat] /\ p2[n] = b
    BY <1>8, <2>4, <2>5
  <2> QED
    BY <1>1, <1>4, <2>2, <2>5, <2>6
<1>10. ASSUME NEW k \in 1..n PROVE PairAt(t, p2[k - 1], p2[k], key[k], value[k])
  <2>1. CASE k = n
    BY <1>3, <1>7, <1>9, <2>1
  <2>2. CASE k # n
    <3>1. k \in 1..(n - 1) /\ k \in 0..(n - 1) /\ k - 1 \in 0..(n - 1)
      BY <2>2
    <3>2. PICK a \in Nat, e \in Nat : a = p[k - 1] /\ e = p[k]
      BY <1>1, <3>1
    <3>3. PICK c, w : c = key[k] /\ w = value[k]
      OBVIOUS
    <3>4. PICK i1 \in Nat, i2 \in Nat : i1 = Len(c) /\ i2 = Len(w)
      BY <3>3
    <3>5. /\ e = a + i1 + i2 + 2 /\ e <= l
          /\ s[a + 1] = Backslash /\ s[a + i1 + 2] = Backslash
          /\ \A i \in 1..i1 : s[a + 1 + i] = c[i]
          /\ \A i \in 1..i2 : s[a + i1 + 2 + i] = w[i]
      <4>1. PairAt(s, a, e, c, w)
        BY <1>1, <3>1, <3>2, <3>3
      <4> QED
        BY <1>4, <3>4, <4>1 DEF PairAt
    <3>6. /\ a + 1 \in 1..l /\ a + i1 + 2 \in 1..l
          /\ \A i \in 1..i1 : a + 1 + i \in 1..l
          /\ \A i \in 1..i2 : a + i1 + 2 + i \in 1..l
      <4>1. a + i1 + i2 + 2 <= l
        BY <3>5
      <4> QED
        BY <4>1
    <3>7. /\ t[a + 1] = Backslash /\ t[a + i1 + 2] = Backslash
          /\ \A i \in 1..i1 : t[a + 1 + i] = c[i]
          /\ \A i \in 1..i2 : t[a + i1 + 2 + i] = w[i]
      <4>1. \A i \in 1..l : t[i] = s[i]
        BY <1>4, <1>6 DEF Begins
      <4> QED
        BY <3>5, <3>6, <4>1
    <3>8. e <= Len(t)
      BY <1>7, <3>5
    <3>9. PairAt(t, a, e, c, w)
      BY <3>4, <3>5, <3>7, <3>8 DEF PairAt
    <3>10. p2[k - 1] = a /\ p2[k] = e
      BY <1>9, <3>1, <3>2
    <3> QED
      BY <3>3, <3>9, <3>10
  <2> QED
    BY <2>1, <2>2
<1>11. Laid(Letters, t, p2, n, key, value)
  BY <1>6, <1>7, <1>9, <1>10 DEF Laid
<1>12. t = s \o <<Backslash>> \o key[n] \o <<Backslash>> \o value[n]
  BY <1>3, <1>5, Zenon
<1> QED
  BY <1>11, <1>12, Zenon

(* The texts of Userinfo, pair by pair.                                    *)
LEMMA InfosExist ==
  ASSUME NEW pairs
  PROVE  \A N \in Nat : \E text : text =
           [n \in 0..N |->
              IF n = 0 THEN <<>>
              ELSE text[n - 1] \o <<Backslash>> \o pairs[n].key \o <<Backslash>> \o pairs[n].value]
<1> DEFINE More(t, n) == t \o <<Backslash>> \o pairs[n].key \o <<Backslash>> \o pairs[n].value
           Texts(text, N) == text = [n \in 0..N |-> IF n = 0 THEN <<>> ELSE More(text[n - 1], n)]
           Without == {N \in Nat : ~ \E text : Texts(text, N)}
<1> HIDE DEF More
<1>1. \A N \in Nat : \E text : Texts(text, N)
  <2> SUFFICES ASSUME Without # {} PROVE FALSE
    OBVIOUS
  <2>1. PICK n \in Without : \A m \in Without : n <= m
    <3>1. Without \in SUBSET Nat
      OBVIOUS
    <3> HIDE DEF Without
    <3> QED
      BY <3>1, LeastNumber
  <2>2. n \in Nat /\ ~ \E text : Texts(text, n)
    BY <2>1
  <2>3. CASE n = 0
    <3>1. Texts([k \in 0..0 |-> <<>>], 0)
      <4>1. \A k \in 0..0 : k = 0
        OBVIOUS
      <4> QED
        BY <4>1, Zenon
    <3> QED
      BY <2>2, <2>3, <3>1
  <2>4. CASE n # 0
    <3>1. n - 1 \in Nat /\ ~(n <= n - 1)
      BY <2>2, <2>4
    <3>2. PICK shorter : Texts(shorter, n - 1)
      BY <2>1, <3>1
    <3> DEFINE text == [k \in 0..n |-> IF k = n THEN More(shorter[n - 1], n) ELSE shorter[k]]
    <3>3. ASSUME NEW k \in 0..n
          PROVE  text[k] = IF k = 0 THEN <<>> ELSE More(text[k - 1], k)
      <4>1. CASE k = n
        <5>1. n - 1 \in 0..n /\ n - 1 # n /\ n # 0
          BY <2>2, <2>4
        <5>2. text[n - 1] = shorter[n - 1]
          BY <5>1
        <5>3. text[n] = More(shorter[n - 1], n)
          BY <4>1
        <5> HIDE DEF text
        <5> QED
          BY <4>1, <5>1, <5>2, <5>3
      <4>2. CASE k # n
        <5>1. k \in 0..(n - 1) /\ (k # 0 => k - 1 \in 0..n /\ k - 1 # n)
          BY <2>2, <4>2
        <5>2. text[k] = shorter[k] /\ (k # 0 => text[k - 1] = shorter[k - 1])
          BY <4>2, <5>1
        <5>3. shorter[k] = IF k = 0 THEN <<>> ELSE More(shorter[k - 1], k)
          BY <3>2, <5>1, Zenon
        <5> HIDE DEF text
        <5> QED
          BY <5>2, <5>3, Zenon
      <4> QED
        BY <4>1, <4>2
    <3>4. Texts(text, n)
      <4>1. text = [k \in 0..n |-> text[k]]
        BY Zenon
      <4> HIDE DEF text
      <4> QED
        BY <3>3, <4>1, Zenon
    <3> QED
      BY <2>2, <3>4, Zenon
  <2> QED
    BY <2>3, <2>4
<1> QED
  BY <1>1, Zenon DEF More

Keys(pairs) == [k \in 1..Len(pairs) |-> pairs[k].key]
Values(pairs) == [k \in 1..Len(pairs) |-> pairs[k].value]

(* A userinfo consists of its pairs.                                       *)
LEMMA UserinfoLaid ==
  ASSUME NEW pairs, Len(pairs) \in Nat,
         \A k \in 1..Len(pairs) : pairs[k].key \in Seq(Letters) /\ pairs[k].value \in Seq(Letters)
  PROVE  \E p : Laid(Letters, Userinfo(pairs), p, Len(pairs), Keys(pairs), Values(pairs))
<1> DEFINE D == 0..Len(pairs)
           text[n \in D] ==
             IF n = 0 THEN <<>>
             ELSE text[n - 1] \o <<Backslash>> \o pairs[n].key \o <<Backslash>> \o pairs[n].value
           key == Keys(pairs)
           value == Values(pairs)
           Bad == {n \in D : ~ \E p : Laid(Letters, text[n], p, n, key, value)}
<1>1. Userinfo(pairs) = text[Len(pairs)]
  BY Zenon DEF Userinfo, text, D
<1>2. \E t : t = [n \in D |-> IF n = 0 THEN <<>>
                              ELSE t[n - 1] \o <<Backslash>> \o pairs[n].key
                                     \o <<Backslash>> \o pairs[n].value]
  BY InfosExist, Zenon
<1>3. text = [n \in D |-> IF n = 0 THEN <<>>
                          ELSE text[n - 1] \o <<Backslash>> \o pairs[n].key
                                 \o <<Backslash>> \o pairs[n].value]
  <2> HIDE DEF D
  <2> QED
    BY <1>2, Zenon DEF text
<1> HIDE DEF text
<1>4. 0 \in D /\ Len(pairs) \in D /\ D \in SUBSET Nat
  OBVIOUS
<1>5. \A k \in 1..Len(pairs) :
        /\ key[k] = pairs[k].key /\ value[k] = pairs[k].value
        /\ key[k] \in Seq(Letters) /\ value[k] \in Seq(Letters)
        /\ Len(key[k]) \in Nat /\ Len(value[k]) \in Nat
  BY DEF Keys, Values
<1> HIDE DEF key, value
<1>6. text[0] = <<>>
  <2> HIDE DEF D
  <2> QED
    BY <1>3, <1>4, Zenon
<1>7. Bad = {}
  <2> SUFFICES ASSUME Bad # {} PROVE FALSE
    OBVIOUS
  <2>1. PICK n \in Bad : \A m \in Bad : n <= m
    <3>1. Bad \in SUBSET Nat
      BY <1>4
    <3> HIDE DEF Bad
    <3> QED
      BY <3>1, LeastNumber
  <2>2. n \in D /\ ~ \E p : Laid(Letters, text[n], p, n, key, value)
    BY <2>1
  <2>3. CASE n = 0
    <3>1. PICK p : p = [k \in 0..0 |-> 0]
      OBVIOUS
    <3>2. <<>> \in Seq(Letters) /\ Len(<<>>) = 0
      OBVIOUS
    <3>3. p \in [0..0 -> Nat] /\ p[0] = 0
      BY <3>1
    <3>4. Laid(Letters, <<>>, p, 0, key, value)
      BY <3>2, <3>3 DEF Laid
    <3> QED
      BY <1>6, <2>2, <2>3, <3>4
  <2>4. CASE n # 0
    <3>1. n \in Nat \ {0} /\ n - 1 \in D /\ ~(n <= n - 1) /\ n \in 1..Len(pairs)
      BY <1>4, <2>2, <2>4
    <3>2. \E p : Laid(Letters, text[n - 1], p, n - 1, key, value)
      BY <2>1, <3>1
    <3>3. PICK s, p : s = text[n - 1] /\ Laid(Letters, s, p, n - 1, key, value)
      BY <3>2
    <3>4. \A k \in 1..n : k \in 1..Len(pairs)
      BY <3>1
    <3>5. key[n] \in Seq(Letters) /\ value[n] \in Seq(Letters)
      BY <1>5, <3>1
    <3>6. \A k \in 1..n : Len(key[k]) \in Nat /\ Len(value[k]) \in Nat
      BY <1>5, <3>4
    <3>7. \E p2 : Laid(Letters, s \o <<Backslash>> \o key[n] \o <<Backslash>> \o value[n],
                       p2, n, key, value)
      BY <3>1, <3>3, <3>5, <3>6, LaidNext
    <3>8. text[n] = s \o <<Backslash>> \o key[n] \o <<Backslash>> \o value[n]
      <4>1. key[n] = pairs[n].key /\ value[n] = pairs[n].value
        BY <1>5, <3>1
      <4> HIDE DEF D
      <4> QED
        BY <1>3, <2>2, <2>4, <3>3, <4>1, Zenon
    <3> QED
      BY <2>2, <3>7, <3>8, Zenon
  <2> QED
    BY <2>3, <2>4
<1>8. \E p : Laid(Letters, text[Len(pairs)], p, Len(pairs), key, value)
  BY <1>4, <1>7
<1> QED
  BY <1>1, <1>8, Zenon DEF key, value

(* What the texts are without their high bits.                             *)
Low == 1..127

(* What the high bit of a byte is.                                         *)
LEMMA HighBit ==
  /\ \A b \in 1..127 : b % 128 = b
  /\ \A b \in 1..255 : b # 128 => b % 128 \in 1..127
  /\ \A b \in 0..255 : b % 128 = 92 => b = 92 \/ b = 220
<1>1. ASSUME NEW b \in 1..127 PROVE b % 128 = b
  OBVIOUS
<1>2. ASSUME NEW b \in 1..255, b # 128 PROVE b % 128 \in 1..127
  <2>1. b % 128 \in 0..127
    OBVIOUS
  <2>2. \A c \in 0..255 : c % 128 = 0 => c = 0 \/ c = 128
    OBVIOUS
  <2>3. b \in 0..255 /\ b # 0
    OBVIOUS
  <2>4. b % 128 # 0
    BY <1>2, <2>2, <2>3, Zenon
  <2>5. \A r \in 0..127 : r # 0 => r \in 1..127
    OBVIOUS
  <2> QED
    BY <2>1, <2>4, <2>5, Zenon
<1>3. \A b \in 0..255 : b % 128 = 92 => b = 92 \/ b = 220
  OBVIOUS
<1> QED
  BY <1>1, <1>2, <1>3

(* Reading a userinfo as plain text changes nothing but the values.        *)
LEMMA PlainLaid ==
  ASSUME NEW s, NEW p, NEW n \in Nat, NEW key, NEW value, Laid(Letters, s, p, n, key, value),
         \A k \in 1..n : key[k] \in Seq(Low) /\ value[k] \in Seq(Letters)
  PROVE  Laid(Low, Plain(s), p, n, key, [k \in 1..n |-> Plain(value[k])])
<1> DEFINE low == [k \in 1..n |-> Plain(value[k])]
<1>1. /\ s \in Seq(Letters) /\ p \in [0..n -> Nat] /\ p[0] = 0 /\ p[n] = Len(s)
      /\ \A k \in 1..n : PairAt(s, p[k - 1], p[k], key[k], value[k])
  BY DEF Laid
<1>2. PICK l \in Nat : l = Len(s)
  BY <1>1
<1>3. PICK t : t = Plain(s)
  OBVIOUS
<1>4. ASSUME NEW w \in Seq(Letters)
      PROVE  /\ Plain(w) \in Seq(Low) /\ Len(Plain(w)) = Len(w)
             /\ \A i \in 1..Len(w) : Plain(w)[i] = w[i] % 128
  <2>1. Plain(w) = [i \in 1..Len(w) |-> w[i] % 128]
    BY PlainLetters DEF Letters
  <2>2. Len(w) \in Nat
    OBVIOUS
  <2>3. \A i \in 1..Len(w) : w[i] % 128 \in Low
    <3> SUFFICES ASSUME NEW i \in 1..Len(w) PROVE w[i] % 128 \in Low
      OBVIOUS
    <3>1. PICK c \in Letters : c = w[i]
      OBVIOUS
    <3>2. \A b \in 1..255 : b # 128 => b % 128 \in 1..127
      BY HighBit
    <3>3. c \in 1..255 /\ c # 128
      BY DEF Letters, Bytes
    <3> QED
      BY <3>1, <3>2, <3>3 DEF Low
  <2>4. PICK u : u = [i \in 1..Len(w) |-> w[i] % 128]
    OBVIOUS
  <2>5. u \in Seq(Low) /\ Len(u) = Len(w) /\ \A i \in 1..Len(w) : u[i] = w[i] % 128
    BY <2>2, <2>3, <2>4
  <2> QED
    BY <2>1, <2>4, <2>5, Zenon
<1>5. t \in Seq(Low) /\ Len(t) = l /\ \A i \in 1..l : t[i] = s[i] % 128
  BY <1>1, <1>2, <1>3, <1>4
<1>6. ASSUME NEW k \in 1..n
      PROVE  PairAt(t, p[k - 1], p[k], key[k], low[k])
  <2>1. PICK a \in Nat, b \in Nat : a = p[k - 1] /\ b = p[k]
    BY <1>1
  <2>2. PICK c \in Seq(Low), w \in Seq(Letters) : c = key[k] /\ w = value[k]
    OBVIOUS
  <2>3. PICK m \in Nat, v \in Nat : m = Len(c) /\ v = Len(w)
    OBVIOUS
  <2>4. /\ b = a + m + v + 2 /\ b <= l
        /\ s[a + 1] = Backslash /\ s[a + m + 2] = Backslash
        /\ \A i \in 1..m : s[a + 1 + i] = c[i]
        /\ \A i \in 1..v : s[a + m + 2 + i] = w[i]
    <3>1. PairAt(s, a, b, c, w)
      BY <1>1, <2>1, <2>2
    <3> QED
      BY <1>2, <2>3, <3>1 DEF PairAt
  <2>5. PICK z : z = Plain(w)
    OBVIOUS
  <2>6. Len(z) = v /\ \A i \in 1..v : z[i] = w[i] % 128
    BY <1>4, <2>3, <2>5
  <2>7. /\ a + 1 \in 1..l /\ a + m + 2 \in 1..l
        /\ \A i \in 1..m : a + 1 + i \in 1..l
        /\ \A i \in 1..v : a + m + 2 + i \in 1..l
    BY <2>4
  <2>8. t[a + 1] = Backslash /\ t[a + m + 2] = Backslash
    BY <1>5, <2>4, <2>7 DEF Backslash
  <2>9. \A i \in 1..m : t[a + 1 + i] = c[i]
    <3> SUFFICES ASSUME NEW i \in 1..m PROVE t[a + 1 + i] = c[i]
      OBVIOUS
    <3>1. t[a + 1 + i] = c[i] % 128
      BY <1>5, <2>4, <2>7
    <3>2. c[i] \in 1..127
      BY <2>3 DEF Low
    <3>3. \A x \in 1..127 : x % 128 = x
      BY HighBit
    <3> QED
      BY <3>1, <3>2, <3>3
  <2>10. \A i \in 1..v : t[a + m + 2 + i] = z[i]
    BY <1>5, <2>4, <2>6, <2>7
  <2>11. b <= Len(t)
    BY <1>5, <2>4
  <2>12. PairAt(t, a, b, c, z)
    BY <2>3, <2>4, <2>6, <2>8, <2>9, <2>10, <2>11 DEF PairAt
  <2>13. low[k] = z
    BY <2>2, <2>5
  <2> QED
    BY <2>1, <2>2, <2>12, <2>13
<1>7. p[n] = Len(t)
  BY <1>1, <1>2, <1>5
<1> HIDE DEF low
<1>8. Laid(Low, t, p, n, key, low)
  BY <1>1, <1>5, <1>6, <1>7 DEF Laid
<1> QED
  BY <1>3, <1>8 DEF low

(* The letters of s behind the first a are those of w.                     *)
LEMMA LettersAre ==
  ASSUME NEW S, NEW s \in Seq(S), NEW w \in Seq(S), NEW a \in Nat, NEW m \in Nat, m = Len(w),
         a + m <= Len(s), \A i \in 1..m : s[a + i] = w[i]
  PROVE  SubSeq(s, a + 1, a + m) = w
<1>1. PICK x \in Nat, y \in Nat : x = a + 1 /\ y = a + m /\ y - x + 1 = m
  OBVIOUS
<1>2. \A i \in x..y : s[i] \in S
  BY <1>1
<1>3. PICK u : u = SubSeq(s, x, y)
  OBVIOUS
<1>4. u \in Seq(S) /\ Len(u) = m /\ \A i \in 1..m : u[i] = s[x + i - 1]
  BY <1>1, <1>2, <1>3, SubSeqProperties
<1>5. \A i \in 1..m : u[i] = w[i]
  <2> SUFFICES ASSUME NEW i \in 1..m PROVE u[i] = w[i]
    OBVIOUS
  <2>1. x + i - 1 = a + i
    BY <1>1
  <2> QED
    BY <1>4, <2>1
<1>6. u = w
  BY <1>4, <1>5, SeqEqual
<1> QED
  BY <1>1, <1>3, <1>6

(* The end of a field is there, and not before its beginning.              *)
LEMMA FieldEnds ==
  ASSUME NEW s, NEW l \in Nat, l = Len(s), NEW k \in 1..(l + 1)
  PROVE  FieldEnd(s, k) \in k..(l + 1)
<1> DEFINE Ends == {e \in k..(l + 1) : e = l + 1 \/ s[e] = Backslash}
<1>1. PICK e \in Ends : \A j \in Ends : e <= j
  <2>1. Ends \in SUBSET Nat /\ l + 1 \in Ends
    OBVIOUS
  <2> HIDE DEF Ends
  <2> QED
    BY <2>1, LeastNumber
<1>2. \A j \in k..(e - 1) : s[j] # Backslash
  <2> SUFFICES ASSUME NEW j \in k..(e - 1) PROVE s[j] # Backslash
    OBVIOUS
  <2>1. j \in k..(l + 1) /\ ~(e <= j)
    OBVIOUS
  <2> QED
    BY <1>1, <2>1
<1>3. \E x \in k..(Len(s) + 1) :
        (x = Len(s) + 1 \/ s[x] = Backslash) /\ \A j \in k..(x - 1) : s[j] # Backslash
  BY <1>2
<1>4. FieldEnd(s, k) \in k..(Len(s) + 1)
  BY <1>3, Zenon DEF FieldEnd
<1> QED
  BY <1>4

(* The end of a field of m letters that are no backslashes.                *)
LEMMA FieldEndIs ==
  ASSUME NEW s, NEW l \in Nat, l = Len(s), NEW k \in 1..(l + 1), NEW e \in k..(l + 1),
         e = l + 1 \/ s[e] = Backslash, \A j \in k..(e - 1) : s[j] # Backslash
  PROVE  FieldEnd(s, k) = e
<1>1. PICK x : x = FieldEnd(s, k)
  OBVIOUS
<1>2. \E y \in k..(Len(s) + 1) :
        (y = Len(s) + 1 \/ s[y] = Backslash) /\ \A j \in k..(y - 1) : s[j] # Backslash
  OBVIOUS
<1>3. /\ x \in k..(Len(s) + 1)
      /\ x = Len(s) + 1 \/ s[x] = Backslash
      /\ \A j \in k..(x - 1) : s[j] # Backslash
  BY <1>1, <1>2, Zenon DEF FieldEnd
<1>4. ~(x < e)
  <2> SUFFICES ASSUME x < e PROVE FALSE
    OBVIOUS
  <2>1. x \in k..(e - 1) /\ x # l + 1
    BY <1>3
  <2> QED
    BY <1>3, <2>1
<1>5. ~(e < x)
  <2> SUFFICES ASSUME e < x PROVE FALSE
    OBVIOUS
  <2>1. e \in k..(x - 1) /\ e # l + 1
    BY <1>3
  <2> QED
    BY <1>3, <2>1
<1> QED
  BY <1>1, <1>3, <1>4, <1>5

(* The loop of Info_ValueForKey at the letter k: what it returns there, or *)
(* what it returns further on.                                             *)
Loop(s, key, from, k) ==
  LET keyEnd == FieldEnd(s, k)
      valueEnd == FieldEnd(s, keyEnd + 1)
  IN IF keyEnd > Len(s) THEN <<>>
     ELSE IF SubSeq(s, k, keyEnd - 1) = key THEN SubSeq(s, keyEnd + 1, valueEnd - 1)
     ELSE IF valueEnd > Len(s) THEN <<>>
     ELSE from[valueEnd + 1]

(* The loop only goes on.                                                  *)
LEMMA LoopGoesOn ==
  ASSUME NEW s, NEW l \in Nat, l = Len(s), NEW key, NEW k \in 1..(l + 1), NEW f, NEW g,
         \A j \in (k + 1)..(l + 1) : f[j] = g[j]
  PROVE  Loop(s, key, f, k) = Loop(s, key, g, k)
<1>1. PICK e : e = FieldEnd(s, k)
  OBVIOUS
<1>2. e \in k..(l + 1)
  BY <1>1, FieldEnds
<1>3. PICK v : v = FieldEnd(s, e + 1)
  OBVIOUS
<1>4. ~(e > l) /\ ~(v > l) => v + 1 \in (k + 1)..(l + 1)
  <2> SUFFICES ASSUME ~(e > l), ~(v > l) PROVE v + 1 \in (k + 1)..(l + 1)
    OBVIOUS
  <2>1. PICK i \in 1..(l + 1) : i = e + 1
    BY <1>2
  <2>2. v \in i..(l + 1)
    BY <1>3, <2>1, FieldEnds
  <2> QED
    BY <1>2, <2>1, <2>2
<1>5. ~(e > l) /\ ~(v > l) => f[v + 1] = g[v + 1]
  BY <1>4
<1>6. \A h : Loop(s, key, h, k) =
               IF e > l THEN <<>>
               ELSE IF SubSeq(s, k, e - 1) = key THEN SubSeq(s, e + 1, v - 1)
               ELSE IF v > l THEN <<>>
               ELSE h[v + 1]
  BY <1>1, <1>3, Zenon DEF Loop
<1> QED
  BY <1>5, <1>6, Zenon

(* There is a function that obeys the loop, from the last letter down to   *)
(* the first.                                                              *)
LEMMA LoopsExist ==
  ASSUME NEW s, NEW l \in Nat, l = Len(s), NEW key
  PROVE  \E from : from = [k \in 1..(l + 1) |-> Loop(s, key, from, k)]
<1> DEFINE Loops(from, n) == from = [k \in (l + 2 - n)..(l + 1) |-> Loop(s, key, from, k)]
           Without == {n \in 0..(l + 1) : ~ \E from : Loops(from, n)}
<1>1. \A n \in 0..(l + 1) : \E from : Loops(from, n)
  <2> SUFFICES ASSUME Without # {} PROVE FALSE
    OBVIOUS
  <2>1. PICK n \in Without : \A m \in Without : n <= m
    <3>1. Without \in SUBSET Nat
      OBVIOUS
    <3> HIDE DEF Without
    <3> QED
      BY <3>1, LeastNumber
  <2>2. n \in 0..(l + 1) /\ ~ \E from : Loops(from, n)
    BY <2>1
  <2>3. CASE n = 0
    <3>1. PICK D : D = (l + 2 - n)..(l + 1)
      OBVIOUS
    <3>2. D = {}
      BY <2>3, <3>1
    <3>3. PICK f : f = [k \in D |-> 0]
      OBVIOUS
    <3>4. f = [k \in D |-> Loop(s, key, f, k)]
      BY <3>2, <3>3
    <3> QED
      BY <2>2, <3>1, <3>4, Zenon
  <2>4. CASE n # 0
    <3>1. n - 1 \in 0..(l + 1) /\ ~(n <= n - 1)
      BY <2>2, <2>4
    <3>2. PICK shorter : Loops(shorter, n - 1)
      BY <2>1, <3>1
    <3>3. PICK b \in 1..(l + 1) : b = l + 2 - n
      BY <2>2, <2>4
    <3>4. PICK D : D = b..(l + 1)
      OBVIOUS
    <3>5. PICK f : f = [k \in D |-> IF k = b THEN Loop(s, key, shorter, b) ELSE shorter[k]]
      OBVIOUS
    <3>6. \A k \in D : k # b => f[k] = shorter[k]
      BY <3>5
    <3>7. ASSUME NEW k \in D PROVE f[k] = Loop(s, key, f, k)
      <4>1. \A j \in (k + 1)..(l + 1) : f[j] = shorter[j]
        <5>1. \A j \in (k + 1)..(l + 1) : j \in D /\ j # b
          BY <3>4
        <5> QED
          BY <3>6, <5>1
      <4>2. Loop(s, key, f, k) = Loop(s, key, shorter, k)
        <5>1. k \in 1..(l + 1)
          BY <3>4
        <5> QED
          BY <4>1, <5>1, LoopGoesOn
      <4>3. f[k] = Loop(s, key, shorter, k)
        <5>1. CASE k = b
          BY <3>5, <5>1
        <5>2. CASE k # b
          <6>1. k \in (l + 2 - (n - 1))..(l + 1)
            BY <2>2, <3>3, <3>4, <5>2
          <6>2. shorter[k] = Loop(s, key, shorter, k)
            BY <3>2, <6>1, Zenon
          <6> QED
            BY <3>6, <5>2, <6>2
        <5> QED
          BY <5>1, <5>2
      <4> QED
        BY <4>2, <4>3
    <3>8. f = [k \in D |-> Loop(s, key, f, k)]
      <4>1. f = [k \in D |-> f[k]]
        BY <3>5
      <4> QED
        BY <3>7, <4>1, Zenon
    <3>9. Loops(f, n)
      BY <3>3, <3>4, <3>8, Zenon
    <3> QED
      BY <2>2, <3>9, Zenon
  <2> QED
    BY <2>3, <2>4
<1>2. l + 1 \in 0..(l + 1) /\ l + 2 - (l + 1) = 1
  OBVIOUS
<1>3. PICK from : Loops(from, l + 1)
  BY <1>1, <1>2
<1>4. from = [k \in 1..(l + 1) |-> Loop(s, key, from, k)]
  BY <1>2, <1>3, Zenon
<1> QED
  BY <1>4, Zenon

(* Info_ValueForKey is its loop from the first key on.                     *)
LEMMA ByLoop ==
  ASSUME NEW s, NEW l \in Nat, l = Len(s), NEW key
  PROVE  \E from : /\ \A k \in 1..(l + 1) : from[k] = Loop(s, key, from, k)
                   /\ Info_ValueForKey(s, key) = from[FirstField(s)]
<1> DEFINE from[k \in 1..(Len(s) + 1)] == Loop(s, key, from, k)
<1>1. Info_ValueForKey(s, key) = from[FirstField(s)]
  BY Zenon DEF Info_ValueForKey, from, Loop
<1>2. \E f : f = [k \in 1..(Len(s) + 1) |-> Loop(s, key, f, k)]
  BY LoopsExist
<1>3. from = [k \in 1..(Len(s) + 1) |-> Loop(s, key, from, k)]
  BY <1>2, Zenon DEF from
<1> HIDE DEF from
<1>4. \A k \in 1..(l + 1) : from[k] = Loop(s, key, from, k)
  BY <1>3, Zenon
<1> QED
  BY <1>1, <1>4, Zenon

(* No letter of the keys and the values is a backslash.                    *)
NoBars(n, key, value) ==
  \A k \in 1..n : key[k] \in Seq(Low \ {Backslash}) /\ value[k] \in Seq(Low \ {Backslash})

(* The loop at the key of each pair.                                       *)
ReadsPairs(s, p, n, key, value, target, from) ==
  \A k \in 1..n :
    /\ p[k - 1] + 2 \in 1..(Len(s) + 1)
    /\ Loop(s, target, from, p[k - 1] + 2) =
         IF key[k] = target THEN value[k]
         ELSE IF k = n THEN <<>> ELSE from[p[k] + 2]

(* At the key of a pair the loop returns the value, or goes on at the key  *)
(* of the next pair, or ends with the last.                                *)
LEMMA PairRead ==
  ASSUME NEW s, NEW p, NEW n \in Nat, NEW key, NEW value, Laid(Low, s, p, n, key, value),
         NoBars(n, key, value),
         NEW target, NEW from
  PROVE  ReadsPairs(s, p, n, key, value, target, from)
<1> SUFFICES ASSUME NEW k \in 1..n
             PROVE  /\ p[k - 1] + 2 \in 1..(Len(s) + 1)
                    /\ Loop(s, target, from, p[k - 1] + 2) =
                         IF key[k] = target THEN value[k]
                         ELSE IF k = n THEN <<>> ELSE from[p[k] + 2]
  BY DEF ReadsPairs
<1>1. /\ s \in Seq(Low) /\ p \in [0..n -> Nat] /\ p[0] = 0 /\ p[n] = Len(s)
      /\ \A j \in 1..n : PairAt(s, p[j - 1], p[j], key[j], value[j])
  BY DEF Laid
<1>2. PICK l \in Nat : l = Len(s)
  BY <1>1
<1>3. PICK a \in Nat, b \in Nat : a = p[k - 1] /\ b = p[k]
  <2>1. k \in 0..n /\ k - 1 \in 0..n
    OBVIOUS
  <2>2. p[k] \in Nat /\ p[k - 1] \in Nat
    BY <1>1, <2>1
  <2> QED
    BY <2>2
<1>4. PICK c, w : c = key[k] /\ w = value[k]
  OBVIOUS
<1>5. /\ c \in Seq(Low) /\ w \in Seq(Low)
      /\ \A i \in 1..Len(c) : c[i] # Backslash
      /\ \A i \in 1..Len(w) : w[i] # Backslash
  <2>1. c \in Seq(Low \ {Backslash}) /\ w \in Seq(Low \ {Backslash})
    BY <1>4 DEF NoBars
  <2> QED
    BY <2>1
<1>6. PICK m \in Nat, v \in Nat : m = Len(c) /\ v = Len(w)
  BY <1>5
<1>7. /\ b = a + m + v + 2 /\ b <= l
      /\ s[a + 1] = Backslash /\ s[a + m + 2] = Backslash
      /\ \A i \in 1..m : s[a + 1 + i] = c[i]
      /\ \A i \in 1..v : s[a + m + 2 + i] = w[i]
  <2>1. PairAt(s, a, b, c, w)
    BY <1>1, <1>3, <1>4
  <2> QED
    BY <1>2, <1>6, <2>1 DEF PairAt
<1>8. PICK k1 \in Nat, e \in Nat, k2 \in Nat, f \in Nat :
        /\ k1 = a + 2 /\ e = a + m + 2 /\ k2 = e + 1 /\ f = b + 1
        /\ k1 \in 1..(l + 1) /\ e \in k1..(l + 1) /\ k2 \in 1..(l + 1) /\ f \in k2..(l + 1)
  BY <1>7
<1>9. FieldEnd(s, k1) = e
  <2>1. \A j \in k1..(e - 1) : s[j] # Backslash
    <3> SUFFICES ASSUME NEW j \in k1..(e - 1) PROVE s[j] # Backslash
      OBVIOUS
    <3>1. PICK i \in 1..m : j = a + 1 + i
      <4>1. j - (a + 1) \in 1..m
        BY <1>8
      <4> QED
        BY <4>1
    <3> QED
      BY <1>5, <1>6, <1>7, <3>1
  <2>2. s[e] = Backslash
    BY <1>7, <1>8
  <2> QED
    BY <1>2, <1>8, <2>1, <2>2, FieldEndIs
<1>10. f = l + 1 \/ s[f] = Backslash
  <2>1. CASE k = n
    BY <1>1, <1>2, <1>3, <1>8, <2>1
  <2>2. CASE k # n
    <3>1. k + 1 \in 1..n /\ k + 1 - 1 = k
      BY <2>2
    <3>2. PairAt(s, b, p[k + 1], key[k + 1], value[k + 1])
      BY <1>1, <1>3, <3>1
    <3> QED
      BY <1>8, <3>2 DEF PairAt
  <2> QED
    BY <2>1, <2>2
<1>11. FieldEnd(s, k2) = f
  <2>1. \A j \in k2..(f - 1) : s[j] # Backslash
    <3> SUFFICES ASSUME NEW j \in k2..(f - 1) PROVE s[j] # Backslash
      OBVIOUS
    <3>1. PICK i \in 1..v : j = a + m + 2 + i
      <4>1. j - (a + m + 2) \in 1..v
        BY <1>7, <1>8
      <4> QED
        BY <4>1
    <3> QED
      BY <1>5, <1>6, <1>7, <3>1
  <2> QED
    BY <1>2, <1>8, <1>10, <2>1, FieldEndIs
<1>12. SubSeq(s, k1, e - 1) = c
  <2>1. PICK x \in Nat : x = a + 1 /\ x + 1 = k1 /\ x + m = e - 1 /\ x + m <= l
    BY <1>7, <1>8
  <2>2. \A i \in 1..m : s[x + i] = c[i]
    BY <1>7, <2>1
  <2>3. SubSeq(s, x + 1, x + m) = c
    BY <1>1, <1>2, <1>5, <1>6, <2>1, <2>2, LettersAre
  <2> QED
    BY <2>1, <2>3
<1>13. SubSeq(s, k2, f - 1) = w
  <2>1. PICK x \in Nat : x = a + m + 2 /\ x + 1 = k2 /\ x + v = f - 1 /\ x + v <= l
    BY <1>7, <1>8
  <2>2. \A i \in 1..v : s[x + i] = w[i]
    BY <1>7, <2>1
  <2>3. SubSeq(s, x + 1, x + v) = w
    BY <1>1, <1>2, <1>5, <1>6, <2>1, <2>2, LettersAre
  <2> QED
    BY <2>1, <2>3
<1>14. ~(e > l) /\ (f > l <=> k = n) /\ f + 1 = b + 2
  <2>1. ~(e > l) /\ f + 1 = b + 2
    BY <1>7, <1>8
  <2>2. k = n => f > l
    BY <1>1, <1>2, <1>3, <1>8
  <2>3. k # n => ~(f > l)
    <3> SUFFICES ASSUME k # n PROVE ~(f > l)
      OBVIOUS
    <3>1. k + 1 \in 1..n /\ k + 1 - 1 = k
      OBVIOUS
    <3>2. PICK c2, w2, b2 : c2 = key[k + 1] /\ w2 = value[k + 1] /\ b2 = p[k + 1]
      OBVIOUS
    <3>3. PICK m2 \in Nat, v2 \in Nat : m2 = Len(c2) /\ v2 = Len(w2)
      <4>1. c2 \in Seq(Low \ {Backslash}) /\ w2 \in Seq(Low \ {Backslash})
        BY <3>1, <3>2 DEF NoBars
      <4> QED
        BY <4>1
    <3>4. PairAt(s, b, b2, c2, w2)
      BY <1>1, <1>3, <3>1, <3>2
    <3>5. b2 = b + m2 + v2 + 2 /\ b2 <= l
      BY <1>2, <3>3, <3>4 DEF PairAt
    <3> QED
      BY <1>8, <3>5
  <2> QED
    BY <2>1, <2>2, <2>3
<1>15. Loop(s, target, from, k1) =
         IF e > l THEN <<>>
         ELSE IF SubSeq(s, k1, e - 1) = target THEN SubSeq(s, k2, f - 1)
         ELSE IF f > l THEN <<>>
         ELSE from[f + 1]
  <2>1. e + 1 = k2
    BY <1>8
  <2> QED
    BY <1>2, <1>9, <1>11, <2>1, Zenon DEF Loop
<1>16. Loop(s, target, from, k1) =
         IF c = target THEN w ELSE IF k = n THEN <<>> ELSE from[b + 2]
  BY <1>12, <1>13, <1>14, <1>15, Zenon
<1>17. p[k - 1] + 2 = k1
  BY <1>3, <1>8
<1> QED
  BY <1>2, <1>3, <1>4, <1>8, <1>16, <1>17, Zenon

(* The first key that is target: its number, or 0.                         *)
IsFirst(n, key, target, first) ==
  /\ \A k \in 1..n : key[k] = target => first # 0 /\ first <= k
  /\ first # 0 => key[first] = target

(* What Info_ValueForKey finds among pairs without backslashes: the value  *)
(* of the first pair with the key.                                         *)
LEMMA ValueRead ==
  ASSUME NEW s, NEW p, NEW n \in Nat, NEW key, NEW value, Laid(Low, s, p, n, key, value),
         NoBars(n, key, value),
         NEW target, NEW first \in 0..n, IsFirst(n, key, target, first)
  PROVE  Info_ValueForKey(s, target) = IF first = 0 THEN <<>> ELSE value[first]
<1>1. /\ s \in Seq(Low) /\ p \in [0..n -> Nat] /\ p[0] = 0 /\ p[n] = Len(s)
      /\ \A j \in 1..n : PairAt(s, p[j - 1], p[j], key[j], value[j])
  BY DEF Laid
<1>2. PICK l \in Nat : l = Len(s)
  BY <1>1
<1>3. PICK from : /\ \A k \in 1..(l + 1) : from[k] = Loop(s, target, from, k)
                  /\ Info_ValueForKey(s, target) = from[FirstField(s)]
  BY <1>2, ByLoop
<1>4. ReadsPairs(s, p, n, key, value, target, from)
  BY PairRead
<1>5. CASE n = 0
  <2>1. l = 0 /\ s = <<>> /\ first = 0
    BY <1>1, <1>2, <1>5
  <2>2. FirstField(s) = 1
    BY <2>1 DEF FirstField
  <2>3. PICK e : e = FieldEnd(s, 1)
    OBVIOUS
  <2>4. 1 \in 1..(l + 1) /\ e \in 1..(l + 1)
    <3>1. PICK k \in 1..(l + 1) : k = 1
      OBVIOUS
    <3>2. e \in k..(l + 1)
      BY <1>2, <2>3, <3>1, FieldEnds
    <3> QED
      BY <3>1, <3>2
  <2>5. e > Len(s)
    BY <1>2, <2>1, <2>4
  <2>6. Loop(s, target, from, 1) = <<>>
    BY <2>3, <2>5, Zenon DEF Loop
  <2> QED
    BY <1>3, <2>1, <2>2, <2>4, <2>6
<1>6. CASE n # 0
  <2> DEFINE stop == IF first = 0 THEN n ELSE first
             found == IF first = 0 THEN <<>> ELSE value[first]
  <2>1. stop \in 1..n /\ \A k \in 1..stop : k # stop => key[k] # target
    BY <1>6 DEF IsFirst
  <2>2. \/ key[stop] = target /\ value[stop] = found
        \/ key[stop] # target /\ stop = n /\ found = <<>>
    BY <1>6 DEF IsFirst
  <2> HIDE DEF stop, found
  <2>3. \A k \in 1..n :
          /\ p[k - 1] + 2 \in 1..(l + 1)
          /\ from[p[k - 1] + 2] =
               IF key[k] = target THEN value[k] ELSE IF k = n THEN <<>> ELSE from[p[k] + 2]
    <3> SUFFICES ASSUME NEW k \in 1..n
                 PROVE  /\ p[k - 1] + 2 \in 1..(l + 1)
                        /\ from[p[k - 1] + 2] =
                             IF key[k] = target THEN value[k]
                             ELSE IF k = n THEN <<>> ELSE from[p[k] + 2]
      OBVIOUS
    <3>1. /\ p[k - 1] + 2 \in 1..(Len(s) + 1)
          /\ Loop(s, target, from, p[k - 1] + 2) =
               IF key[k] = target THEN value[k]
               ELSE IF k = n THEN <<>> ELSE from[p[k] + 2]
      BY <1>4 DEF ReadsPairs
    <3> QED
      BY <1>2, <1>3, <3>1, Zenon
  <2> DEFINE Other == {d \in 0..(stop - 1) : from[p[stop - d - 1] + 2] # found}
  <2>4. Other = {}
    <3> SUFFICES ASSUME Other # {} PROVE FALSE
      OBVIOUS
    <3>1. PICK d \in Other : \A j \in Other : d <= j
      <4>1. Other \in SUBSET Nat
        BY <2>1
      <4> HIDE DEF Other
      <4> QED
        BY <4>1, LeastNumber
    <3>2. PICK k \in 1..stop : k = stop - d
      BY <2>1
    <3>3. k \in 1..n /\ from[p[k - 1] + 2] # found
      BY <2>1, <3>1, <3>2
    <3>4. CASE k = stop
      BY <2>2, <2>3, <3>3, <3>4
    <3>5. CASE k # stop
      <4>1. d - 1 \in 0..(stop - 1) /\ ~(d <= d - 1) /\ stop - (d - 1) - 1 = k /\ k # n
        BY <2>1, <3>2, <3>5
      <4>2. from[p[k] + 2] = found
        BY <3>1, <4>1
      <4>3. key[k] # target
        BY <2>1, <3>5
      <4> QED
        BY <2>3, <3>3, <4>1, <4>2, <4>3
    <3> QED
      BY <3>4, <3>5
  <2>5. from[p[0] + 2] = found
    <3>1. stop - 1 \in 0..(stop - 1) /\ stop - (stop - 1) - 1 = 0
      BY <2>1
    <3> QED
      BY <2>4, <3>1
  <2>6. FirstField(s) = 2
    <3>1. 1 \in 1..n /\ 1 - 1 = 0
      BY <1>6
    <3>2. PairAt(s, 0, p[1], key[1], value[1])
      BY <1>1, <3>1
    <3>3. s[1] = Backslash
      BY <3>2 DEF PairAt
    <3>4. s # <<>>
      <4>1. PICK m \in Nat, v \in Nat : m = Len(key[1]) /\ v = Len(value[1])
        <5>1. key[1] \in Seq(Low \ {Backslash}) /\ value[1] \in Seq(Low \ {Backslash})
          BY <3>1 DEF NoBars
        <5> QED
          BY <5>1
      <4>2. p[1] = 0 + m + v + 2 /\ p[1] <= l
        BY <1>2, <3>2, <4>1 DEF PairAt
      <4>3. Len(s) # 0
        <5>1. PICK b \in Nat : b = p[1]
          BY <1>1, <3>1
        <5>2. b = m + v + 2 /\ b <= l
          BY <4>2, <5>1
        <5>3. l # 0
          BY <5>2
        <5> QED
          BY <1>2, <5>3
      <4> QED
        BY <4>3
    <3> QED
      BY <3>3, <3>4 DEF FirstField
  <2>7. p[0] + 2 = 2
    BY <1>1
  <2> QED
    BY <1>3, <2>5, <2>6, <2>7 DEF found
<1> QED
  BY <1>5, <1>6

(* Neither a key nor a value has a backslash, read as plain text or not.   *)
LEMMA FieldsPlain ==
  /\ Key \subseteq Seq(Letters) /\ Field \subseteq Seq(Letters)
  /\ \A w \in Key : w \in Seq(Low) /\ w \in Seq(Low \ {Backslash})
  /\ \A w \in Field : Plain(w) \in Seq(Low \ {Backslash})
<1>1. /\ 1..127 \ {Backslash} \subseteq Letters /\ 1..127 \ {Backslash} \subseteq Low
      /\ Bytes \ {0, 128, Backslash, Backslash + 128} \subseteq Letters
      /\ Low \ {Backslash} = 1..127 \ {Backslash}
  BY DEF Letters, Low, Bytes
<1>2. ASSUME NEW w \in Key
      PROVE  w \in Seq(Letters) /\ w \in Seq(Low) /\ w \in Seq(Low \ {Backslash})
  BY <1>1, <1>2, SeqMonotonic DEF Key
<1>3. ASSUME NEW w \in Field PROVE w \in Seq(Letters) /\ Plain(w) \in Seq(Low \ {Backslash})
  <2>1. w \in Seq(Bytes \ {0, 128, Backslash, Backslash + 128})
    BY DEF Field
  <2>2. w \in Seq(Letters)
    BY <1>1, <2>1, SeqMonotonic
  <2>3. Plain(w) = [i \in 1..Len(w) |-> w[i] % 128]
    BY <2>2, PlainLetters DEF Letters
  <2>4. ASSUME NEW i \in 1..Len(w) PROVE w[i] % 128 \in Low \ {Backslash}
    <3>1. w[i] \in Bytes /\ w[i] \notin {0, 128, Backslash, Backslash + 128}
      BY <2>1
    <3>2. w[i] \in 1..255 /\ w[i] \in 0..255 /\ w[i] # 128 /\ w[i] # 92 /\ w[i] # 220
      BY <3>1 DEF Bytes, Backslash
    <3>3. PICK b : b = w[i]
      OBVIOUS
    <3>4. b % 128 \in 1..127 /\ b % 128 # 92
      <4>1. b \in 1..255 /\ b \in 0..255 /\ b # 128 /\ b # 92 /\ b # 220
        BY <3>2, <3>3, Zenon
      <4>2. /\ \A c \in 1..255 : c # 128 => c % 128 \in 1..127
            /\ \A c \in 0..255 : c % 128 = 92 => c = 92 \/ c = 220
        BY HighBit
      <4>3. b % 128 \in 1..127
        BY <4>1, <4>2, Zenon
      <4>4. b % 128 # 92
        BY <4>1, <4>2, Zenon
      <4> QED
        BY <4>3, <4>4
    <3> QED
      BY <3>3, <3>4 DEF Low, Backslash
  <2>5. Len(w) \in Nat
    BY <2>1
  <2>6. [i \in 1..Len(w) |-> w[i] % 128] \in Seq(Low \ {Backslash})
    BY <2>4, <2>5
  <2> QED
    BY <2>2, <2>3, <2>6
<1> QED
  BY <1>2, <1>3

(* Whatever userinfo a game client writes, of any length: what             *)
(* Info_ValueForKey reads for a key in its plain text is the plain text of *)
(* the value of the first pair with that key, and nothing if there is none.*)
THEOREM ValueIsFound ==
  ASSUME NEW pairs \in Seq([key : Key, value : Field]), NEW target
  PROVE  Info_ValueForKey(Plain(Userinfo(pairs)), target) = Plain(ValueIn(pairs, target))
<1> DEFINE N == Len(pairs)
           key == Keys(pairs)
           value == Values(pairs)
           low == [k \in 1..N |-> Plain(value[k])]
           found == {k \in DOMAIN pairs : pairs[k].key = target}
<1>1. N \in Nat /\ DOMAIN pairs = 1..N
  OBVIOUS
<1>2. ASSUME NEW k \in 1..N
      PROVE  /\ key[k] = pairs[k].key /\ value[k] = pairs[k].value
             /\ key[k] \in Key /\ value[k] \in Field /\ low[k] = Plain(value[k])
  <2>1. pairs[k] \in [key : Key, value : Field]
    BY <1>1, ElementOfSeq
  <2> QED
    BY <2>1 DEF Keys, Values
<1> HIDE DEF key, value
<1>3. PICK s, p : s = Userinfo(pairs) /\ Laid(Letters, s, p, N, key, value)
  <2>1. \A k \in 1..N : pairs[k].key \in Seq(Letters) /\ pairs[k].value \in Seq(Letters)
    BY <1>2, FieldsPlain
  <2>2. \E p : Laid(Letters, Userinfo(pairs), p, Len(pairs), Keys(pairs), Values(pairs))
    BY <1>1, <2>1, UserinfoLaid
  <2> QED
    BY <2>2 DEF key, value
<1>4. Laid(Low, Plain(s), p, N, key, low)
  <2>1. \A k \in 1..N : key[k] \in Seq(Low) /\ value[k] \in Seq(Letters)
    BY <1>2, FieldsPlain
  <2> QED
    BY <1>1, <1>3, <2>1, PlainLaid
<1>5. NoBars(N, key, low)
  BY <1>2, FieldsPlain DEF NoBars
<1> HIDE DEF low
<1>6. \A k \in 1..N : k \in found <=> key[k] = target
  BY <1>1, <1>2
<1>7. found \in SUBSET (1..N)
  BY <1>1
<1>8. ValueIn(pairs, target) =
        IF found = {} THEN <<>> ELSE pairs[CHOOSE k \in found : \A j \in found : k <= j].value
  BY Zenon DEF ValueIn
<1>9. Plain(<<>>) = <<>>
  <2>1. <<>> \in Seq(Bytes \ {0, 128}) /\ Len(<<>>) = 0
    OBVIOUS
  <2>2. Plain(<<>>) = [i \in 1..0 |-> <<>>[i] % 128]
    BY <2>1, PlainLetters
  <2> QED
    BY <2>2
<1> HIDE DEF found
<1>10. CASE found = {}
  <2>1. Info_ValueForKey(Plain(s), target) = <<>>
    <3>1. PICK first \in 0..N : first = 0
      BY <1>1
    <3>2. \A k \in 1..N : key[k] # target
      BY <1>6, <1>10
    <3>3. IsFirst(N, key, target, first)
      BY <3>1, <3>2 DEF IsFirst
    <3> QED
      BY <1>1, <1>4, <1>5, <3>1, <3>3, ValueRead
  <2> QED
    BY <1>3, <1>8, <1>9, <1>10, <2>1
<1>11. CASE found # {}
  <2>1. PICK first : first = CHOOSE k \in found : \A j \in found : k <= j
    OBVIOUS
  <2>2. \E k \in found : \A j \in found : k <= j
    BY <1>7, <1>11, LeastNumber
  <2>3. first \in found /\ \A j \in found : first <= j
    BY <2>1, <2>2, Zenon
  <2>4. first \in 0..N /\ first \in 1..N /\ first # 0
    BY <1>1, <1>7, <2>3
  <2>5. IsFirst(N, key, target, first)
    BY <1>6, <2>3, <2>4 DEF IsFirst
  <2>6. Info_ValueForKey(Plain(s), target) = low[first]
    BY <1>1, <1>4, <1>5, <2>4, <2>5, ValueRead
  <2>7. low[first] = Plain(pairs[first].value)
    BY <1>2, <2>4
  <2> QED
    BY <1>3, <1>8, <1>11, <2>1, <2>6, <2>7, Zenon
<1> QED
  BY <1>10, <1>11
-----------------------------------------------------------------------------
(* Messages as they are read.                                              *)

(* A text that lies in the buffer with its zero is read as it was written, *)
(* less the high bits.  Of an empty one the byte behind it is read too.    *)
LEMMA TextRead ==
  ASSUME BufferInv, NEW p \in Nat, NEW t \in Seq(Bytes \ {0}),
         \A j \in 1..Len(t) : At(p + j - 1) = t[j],
         At(p + Len(t)) = 0, t = <<>> => At(p + 1) = 0
  PROVE  /\ MSG_ReadString(p) = Plain(t)
         /\ StringEnd(p) = IF t = <<>> THEN p + 1 ELSE p + Len(t)
<1>1. /\ Len(t) \in Nat /\ StringEnd(p) \in Nat /\ p + 1 <= StringEnd(p) /\ At(StringEnd(p)) = 0
      /\ \A j \in (p + 1)..(StringEnd(p) - 1) : At(j) # 0
  <2>1. Len(t) \in Nat
    OBVIOUS
  <2> QED
    BY <2>1, StringEnds
<1>2. CASE t = <<>>
  <2>1. StringEnd(p) = p + 1
    <3>1. p + 1 \notin (p + 1)..(StringEnd(p) - 1)
      BY <1>1, <1>2
    <3> QED
      BY <1>1, <3>1
  <2> DEFINE read == [k \in 1..(StringEnd(p) - p) |-> At(p + k - 1)]
  <2>2. Len(read) = 1 /\ read[1] = 0
    <3>1. StringEnd(p) - p = 1
      BY <2>1
    <3>2. read = [k \in 1..1 |-> At(p + k - 1)]
      BY <3>1
    <3>3. At(p + 1 - 1) = 0
      BY <1>2
    <3> HIDE DEF read
    <3>4. Len(read) = 1
      BY <3>2
    <3>5. read[1] = At(p + 1 - 1)
      BY <3>2
    <3> QED
      BY <3>3, <3>4, <3>5
  <2>3. MSG_ReadString(p) = Plain(read)
    BY DEF MSG_ReadString
  <2> HIDE DEF read
  <2>4. Plain(read) = <<>>
    BY <2>2, PlainNothing
  <2>5. Plain(t) = <<>>
    BY <1>2, PlainNothing
  <2> QED
    BY <1>2, <2>1, <2>3, <2>4, <2>5
<1>3. CASE t # <<>>
  <2>1. Len(t) # 0
    BY <1>3
  <2>2. ASSUME NEW j \in 1..Len(t) PROVE t[j] # 0
    <3>1. t[j] \in Bytes \ {0}
      BY <2>2
    <3> QED
      BY <3>1
  <2>3. ~(StringEnd(p) < p + Len(t))
    <3> SUFFICES ASSUME StringEnd(p) < p + Len(t) PROVE FALSE
      OBVIOUS
    <3>1. PICK j \in 1..Len(t) : j = StringEnd(p) - p + 1
      BY <1>1
    <3>2. At(p + j - 1) # 0 /\ p + j - 1 = StringEnd(p)
      BY <1>1, <2>2, <3>1
    <3> QED
      BY <1>1, <3>2
  <2>4. ~(p + Len(t) < StringEnd(p))
    <3> SUFFICES ASSUME p + Len(t) < StringEnd(p) PROVE FALSE
      OBVIOUS
    <3>1. p + Len(t) \in (p + 1)..(StringEnd(p) - 1)
      BY <1>1, <2>1
    <3> QED
      BY <1>1, <3>1
  <2>5. StringEnd(p) = p + Len(t) /\ StringEnd(p) - p = Len(t)
    <3>1. PICK e \in Nat : e = StringEnd(p)
      BY <1>1
    <3>2. PICK n \in Nat : n = Len(t)
      BY <1>1
    <3>3. ~(e < p + n) /\ ~(p + n < e)
      BY <2>3, <2>4, <3>1, <3>2
    <3>4. e = p + n /\ e - p = n
      BY <3>3
    <3> QED
      BY <3>1, <3>2, <3>4
  <2>6. [k \in 1..(StringEnd(p) - p) |-> At(p + k - 1)] = t
    <3>1. t = [k \in 1..Len(t) |-> t[k]]
      OBVIOUS
    <3>2. [k \in 1..Len(t) |-> At(p + k - 1)] = [k \in 1..Len(t) |-> t[k]]
      OBVIOUS
    <3> QED
      BY <2>5, <3>1, <3>2
  <2> QED
    BY <1>3, <2>5, <2>6 DEF MSG_ReadString
<1> QED
  BY <1>2, <1>3

(* Of a text without its zero everything that was received is read.        *)
LEMMA TextCut ==
  ASSUME BufferInv, NEW p \in Nat, \A q \in p..(Len(data) - 1) : At(q) # 0
  PROVE  StringEnd(p) \in Nat /\ Len(data) <= StringEnd(p) /\ p + 1 <= StringEnd(p)
<1>1. /\ StringEnd(p) \in Nat /\ p + 1 <= StringEnd(p) /\ At(StringEnd(p)) = 0
      /\ Len(data) \in Nat
  BY StringEnds DEF BufferInv
<1>2. ASSUME StringEnd(p) < Len(data) PROVE FALSE
  <2>1. StringEnd(p) \in p..(Len(data) - 1)
    BY <1>1, <1>2
  <2> QED
    BY <1>1, <2>1
<1> QED
  BY <1>1, <1>2

-----------------------------------------------------------------------------
(* One message, whole or cut.                                              *)

(* A handler that is called with m and reads up to p.                      *)
Calls(m, p) ==
  /\ UNCHANGED <<netVars, bufVars>> /\ pc' \in {pc, "lost"}
  /\ got' = Append(got, m) /\ index' = p + 1

(* The commands by their numbers.                                          *)
LEMMA CommandBytes ==
  ASSUME NEW m \in Outgoing
  PROVE  /\ ByteOf(m) \in Nat /\ ByteOf(m) # 0
         /\ ByteOf(m) \in {Code[c] : c \in DOMAIN Code} \cup {COMMAND}
         /\ ByteOf(m) \notin {Code.PLAYERLIST, Code.AUTH}
         /\ ByteOf(m) = Code.PING => m.cmd = "PING"
         /\ ByteOf(m) = Code.QUIT => m.cmd = "QUIT"
         /\ ByteOf(m) = Code.DISCONNECT => m.cmd = "DISCONNECT"
         /\ ByteOf(m) = Code.MAP => m.cmd = "MAP"
         /\ ByteOf(m) = Code.PRINT => m.cmd = "PRINT"
         /\ \A c \in {"CONNECT", "PLAYERUPDATE"} : ByteOf(m) = Code[c] => m.cmd = c
         /\ ByteOf(m) = COMMAND => m.cmd \in DOMAIN Sub
<1>1. m.cmd \in {"PING", "QUIT", "DISCONNECT", "MAP", "CONNECT", "PLAYERUPDATE", "PRINT",
                 "TELEPORT", "INVITE"}
  BY Fields
<1>2. DOMAIN Code = {"QUIT", "CONNECT", "DISCONNECT", "PLAYERLIST", "PLAYERUPDATE", "PRINT",
                     "MAP", "PING", "AUTH"}
      /\ DOMAIN Sub = {"TELEPORT", "INVITE"}
  BY DEF Code, Sub
<1>3. m.cmd \in DOMAIN Code => ByteOf(m) = Code[m.cmd]
  BY <1>2 DEF ByteOf
<1>4. m.cmd \in DOMAIN Sub => ByteOf(m) = COMMAND
  BY DEF ByteOf
<1>5. ByteOf(m) \in {Code[c] : c \in DOMAIN Code} \cup {COMMAND}
  BY <1>1, <1>2, <1>3, <1>4
<1>6. /\ Code.PING = 12 /\ Code.DISCONNECT = 4 /\ Code.MAP = 11 /\ Code.CONNECT = 3
      /\ Code.PLAYERUPDATE = 6 /\ Code.PRINT = 7 /\ COMMAND = 8
      /\ Code.QUIT = 2 /\ Code.PLAYERLIST = 5 /\ Code.AUTH = 13
  BY DEF Code, COMMAND
<1> QED
  BY <1>1, <1>2, <1>3, <1>4, <1>5, <1>6

(* The arguments of the two subcommands.                                   *)
LEMMA SubBytes ==
  ASSUME NEW c \in DOMAIN Sub, NEW d \in DOMAIN Sub
  PROVE  Sub[c] = Sub[d] => c = d
  BY DEF Sub

(* A message that lies in the buffer is handled as it was written, unless  *)
(* its text is empty and something follows it.                             *)
LEMMA WholeRead ==
  ASSUME BufferInv, NEW m \in Outgoing,
         \A j \in 1..Len(Written(m)) : At(index + j - 1) = Written(m)[j],
         HasText(m) /\ m.text = <<>> => At(index + Len(Written(m))) = 0,
         ParseMessage, InMessage, pc = "parse"
  PROVE  Calls(Meant(m), index + Len(Written(m)) - 1 +
                           (IF HasText(m) /\ m.text = <<>> THEN 1 ELSE 0))
<1> DEFINE L == Len(Written(m))
<1>1. index \in Nat /\ L \in Nat \ {0} /\ 1 \in 1..L
  BY WrittenForm DEF BufferInv
<1>2. At(index) = ByteOf(m)
  <2>1. At(index + 1 - 1) = Written(m)[1]
    BY <1>1
  <2> QED
    BY <1>1, <2>1, WrittenForm
<1>3. ASSUME NEW x, NEW p, Handled(x, p) PROVE Calls(x, p)
  BY <1>3 DEF Handled, Calls
<1>4. ASSUME NEW k \in Nat, k = Before(m), HasText(m)
      PROVE  /\ MSG_ReadString(index + k) = Plain(m.text)
             /\ StringEnd(index + k) = index + L - 1 + (IF m.text = <<>> THEN 1 ELSE 0)
  <2>1. PICK t \in Seq(Bytes \ {0}) : t = m.text /\ Len(t) \in Nat
    BY Fields
  <2>2. /\ L = k + Len(t) + 1
        /\ \A j \in 1..Len(t) : Written(m)[k + j] = t[j]
        /\ Written(m)[k + Len(t) + 1] = 0
    BY <1>4, <2>1, WrittenForm
  <2>3. ASSUME NEW j \in 1..Len(t) PROVE At(index + k + j - 1) = t[j]
    <3>1. k + j \in 1..L
      BY <2>1, <2>2
    <3>2. index + (k + j) - 1 = index + k + j - 1
      BY <1>1
    <3> QED
      BY <2>2, <3>1, <3>2
  <2>10. index + k + Len(t) = index + L - 1
    <3>1. PICK n \in Nat : n = Len(t)
      BY <2>1
    <3>2. PICK l \in Nat : l = L /\ l = k + n + 1
      BY <1>1, <2>2, <3>1
    <3>3. index + k + n = index + l - 1
      BY <1>1, <3>2
    <3> QED
      BY <3>1, <3>2, <3>3
  <2>4. At(index + k + Len(t)) = 0
    <3>1. L \in 1..L /\ index + L - 1 = index + k + Len(t)
      BY <1>1, <2>10
    <3>2. At(index + L - 1) = Written(m)[L]
      BY <3>1
    <3> QED
      BY <2>2, <3>1, <3>2
  <2>5. t = <<>> => At(index + k + 1) = 0
    <3> SUFFICES ASSUME t = <<>> PROVE At(index + k + 1) = 0
      OBVIOUS
    <3>1. Len(t) = 0 /\ L = k + 1
      BY <2>2
    <3>2. index + L = index + k + 1
      BY <1>1, <3>1
    <3> QED
      BY <1>4, <2>1, <3>2
  <2>6. index + k \in Nat
    BY <1>1
  <2>7. /\ MSG_ReadString(index + k) = Plain(t)
        /\ StringEnd(index + k) = IF t = <<>> THEN index + k + 1 ELSE index + k + Len(t)
    BY <2>3, <2>4, <2>5, <2>6, TextRead
  <2>8. t = <<>> => Len(t) = 0
    OBVIOUS
  <2>9. index + k + 1 = index + L - 1 + 1 \/ t # <<>>
    BY <1>1, <2>2, <2>8
  <2>11. index + L - 1 + 0 = index + L - 1
    BY <1>1
  <2> QED
    BY <2>1, <2>7, <2>9, <2>10, <2>11
<1> HIDE DEF L
<1>5. Plain(<<>>) = <<>>
  BY PlainNothing
<1>6. /\ m = Message(m.cmd, m.id, m.text, m.name)
      /\ Meant(m) = Message(m.cmd, m.id, Plain(m.text), Plain(m.name))
      /\ m.cmd \in {"PING", "QUIT", "MAP"} => m.id = 0
      /\ ~HasText(m) => m.text = <<>>
      /\ m.cmd \notin {"CONNECT", "PLAYERUPDATE"} => m.name = <<>>
  BY Fields DEF Meant
<1>7. \A c : AtCommand(c) => ByteOf(m) = c
  BY <1>2 DEF AtCommand
<1>8. CASE Pong
  <2>1. m.cmd = "PING"
    BY <1>7, <1>8, CommandBytes DEF Pong
  <2>2. ~HasText(m) /\ L = 1
    BY <2>1, WrittenForm DEF HasText, L
  <2>3. Calls(Message("PING", 0, <<>>, <<>>), index)
    BY <1>3, <1>8 DEF Pong
  <2>4. index + L - 1 + 0 = index
    BY <1>1, <2>2
  <2> QED
    BY <1>5, <1>6, <2>1, <2>2, <2>3, <2>4 DEF L
<1>17. CASE Quit
  <2>1. m.cmd = "QUIT"
    BY <1>7, <1>17, CommandBytes DEF Quit
  <2>2. ~HasText(m) /\ L = 1
    BY <2>1, WrittenForm DEF HasText, L
  <2>3. Calls(Message("QUIT", 0, <<>>, <<>>), index)
    BY <1>17 DEF Quit, CloseConnection, Calls
  <2>4. index + L - 1 + 0 = index
    BY <1>1, <2>2
  <2> QED
    BY <1>5, <1>6, <2>1, <2>2, <2>3, <2>4 DEF L
<1>9. CASE ParsePlayerDisconnect
  <2>1. m.cmd = "DISCONNECT"
    BY <1>7, <1>9, CommandBytes DEF ParsePlayerDisconnect
  <2>2. ~HasText(m) /\ L = 2 /\ Written(m)[2] = m.id
    BY <2>1, WrittenForm DEF HasText, L
  <2>3. Calls(Message("DISCONNECT", At(index + 1), <<>>, <<>>), index + 1)
    BY <1>3, <1>9 DEF ParsePlayerDisconnect
  <2>4. index + L - 1 + 0 = index + 1 /\ index + 2 - 1 = index + 1 /\ 2 \in 1..L
    BY <1>1, <2>2
  <2>5. At(index + 1) = m.id
    BY <2>2, <2>4 DEF L
  <2> QED
    BY <1>5, <1>6, <2>1, <2>2, <2>3, <2>4, <2>5 DEF L
<1>10. CASE ParseMap
  <2>1. m.cmd = "MAP"
    BY <1>7, <1>10, CommandBytes DEF ParseMap
  <2>2. HasText(m) /\ Before(m) = 1
    BY <2>1 DEF HasText, Before
  <2>3. Calls(Message("MAP", 0, MSG_ReadString(index + 1), <<>>), StringEnd(index + 1))
    BY <1>3, <1>10 DEF ParseMap
  <2> QED
    BY <1>4, <1>5, <1>6, <2>1, <2>2, <2>3 DEF L
<1>11. ASSUME m.cmd \in {"PRINT", "CONNECT", "PLAYERUPDATE"}
       PROVE  HasText(m) /\ Before(m) = 2 /\ At(index + 1) = m.id
  <2>1. HasText(m) /\ Before(m) = 2 /\ Written(m)[2] = m.id
    BY <1>11, WrittenForm DEF HasText, Before, Sub
  <2>2. 2 \in 1..L /\ index + 2 - 1 = index + 1
    <3>1. PICK n \in Nat : n = Len(m.text)
      BY Fields
    <3>2. L = 2 + n + 1
      BY <2>1, <3>1, WrittenForm DEF L
    <3> QED
      BY <1>1, <3>2
  <2> QED
    BY <2>1, <2>2 DEF L
<1>12. CASE ParsePrint
  <2>1. m.cmd = "PRINT"
    BY <1>7, <1>12, CommandBytes DEF ParsePrint
  <2>2. Calls(Message("PRINT", At(index + 1), MSG_ReadString(index + 2), <<>>),
              StringEnd(index + 2))
    BY <1>3, <1>12 DEF ParsePrint
  <2> QED
    BY <1>4, <1>5, <1>6, <1>11, <2>1, <2>2 DEF L
<1>13. ASSUME NEW c \in {"CONNECT", "PLAYERUPDATE"}, ParseUserinfo(c)
       PROVE  Calls(Meant(m), index + L - 1 + (IF HasText(m) /\ m.text = <<>> THEN 1 ELSE 0))
  <2>1. m.cmd = c
    BY <1>7, <1>13, CommandBytes DEF ParseUserinfo
  <2>2. Calls(Message(c, At(index + 1), MSG_ReadString(index + 2),
                      Info_ValueForKey(MSG_ReadString(index + 2), NameKey)),
              StringEnd(index + 2))
    BY <1>3, <1>13 DEF ParseUserinfo
  <2>3. Info_ValueForKey(Plain(m.text), NameKey) = Plain(m.name)
    <3>1. PICK pairs \in Infos : m.text = Userinfo(pairs) /\ m.name = ValueIn(pairs, NameKey)
      BY <2>1, StreamAssumption
    <3>2. pairs \in Seq([key : Key, value : Field])
      BY InfosAssumption
    <3>3. Info_ValueForKey(Plain(Userinfo(pairs)), NameKey) = Plain(ValueIn(pairs, NameKey))
      BY <3>2, ValueIsFound
    <3> QED
      BY <3>1, <3>3, Zenon
  <2> QED
    BY <1>4, <1>6, <1>11, <2>1, <2>2, <2>3
<1>14. ASSUME ByteOf(m) = COMMAND
       PROVE  /\ m.cmd \in DOMAIN Sub /\ HasText(m) /\ Before(m) = 3
              /\ At(index + 1) = Sub[m.cmd] /\ At(index + 2) = m.id
  <2>1. m.cmd \in DOMAIN Sub
    BY <1>14, CommandBytes
  <2>2. HasText(m) /\ Before(m) = 3 /\ Written(m)[2] = Sub[m.cmd] /\ Written(m)[3] = m.id
    BY <2>1, WrittenForm DEF HasText, Before, Sub
  <2>3. 2 \in 1..L /\ index + 2 - 1 = index + 1 /\ 3 \in 1..L /\ index + 3 - 1 = index + 2
    <3>1. PICK n \in Nat : n = Len(m.text)
      BY Fields
    <3>2. L = 3 + n + 1
      BY <2>2, <3>1, WrittenForm DEF L
    <3> QED
      BY <1>1, <3>2
  <2> QED
    BY <2>1, <2>2, <2>3 DEF L
<1>15. ASSUME NEW c \in DOMAIN Sub, ParseCommand(c)
       PROVE  Calls(Meant(m), index + L - 1 + (IF HasText(m) /\ m.text = <<>> THEN 1 ELSE 0))
  <2>1. ByteOf(m) = COMMAND /\ At(index + 1) = Sub[c]
    BY <1>7, <1>15 DEF ParseCommand
  <2>2. m.cmd = c
    BY <1>14, <2>1, SubBytes
  <2>3. Calls(Message(c, At(index + 2), MSG_ReadString(index + 3), <<>>), StringEnd(index + 3))
    BY <1>3, <1>15 DEF ParseCommand
  <2>4. m.cmd \notin {"CONNECT", "PLAYERUPDATE"}
    BY <2>2 DEF Sub
  <2> QED
    BY <1>4, <1>5, <1>6, <1>14, <2>1, <2>2, <2>3, <2>4
<1>16. ~ParseNothing /\ ~ParseEnds /\ ~ParseAuth /\ ~ParsePlayerList /\ ~ListEntry /\ ~ListEnds
  <2>1. At(index) \in {Code[c] : c \in DOMAIN Code} \cup {COMMAND}
    BY <1>2, CommandBytes
  <2>2. ~(AtCommand(COMMAND) /\ At(index + 1) \notin {Sub[c] : c \in DOMAIN Sub})
    BY <1>7, <1>14
  <2>3. ~ParseAuth /\ ~ParsePlayerList
    BY <1>7, CommandBytes DEF ParseAuth, ParsePlayerList
  <2>4. ~ListEntry /\ ~ListEnds
    BY DEF ListEntry, ListEnds
  <2> QED
    BY <2>1, <2>2, <2>3, <2>4 DEF ParseNothing, ParseEnds
<1> QED
  BY <1>8, <1>9, <1>10, <1>12, <1>13, <1>15, <1>16, <1>17 DEF ParseMessage, L

(* Of a message that is cut at the end of the buffer at most one handler   *)
(* is called, and nothing is left to read.                                 *)
LEMMA CutRead ==
  ASSUME BufferInv, NEW m \in Outgoing, NEW n \in Nat, 0 < n, n < Len(Written(m)),
         Len(data) = index + n,
         \A j \in 1..n : At(index + j - 1) = Written(m)[j],
         ParseMessage, InMessage, pc = "parse"
  PROVE  \E x, p : Calls(x, p) /\ p \in Nat /\ Len(data) <= p + 1
<1> DEFINE L == Len(Written(m))
<1>1. index \in Nat /\ L \in Nat \ {0} /\ 1 \in 1..n /\ index + 1 - 1 = index
  BY WrittenForm DEF BufferInv
<1>2. At(index) = ByteOf(m)
  BY <1>1, WrittenForm
<1>3. ASSUME NEW x, NEW p, Handled(x, p), p \in Nat, Len(data) <= p + 1
      PROVE  \E y, r : Calls(y, r) /\ r \in Nat /\ Len(data) <= r + 1
  BY <1>3 DEF Handled, Calls
<1>4. ASSUME NEW k \in Nat, k = Before(m), HasText(m)
      PROVE  StringEnd(index + k) \in Nat /\ Len(data) <= StringEnd(index + k) + 1
  <2>1. PICK t \in Seq(Bytes \ {0}) : t = m.text /\ Len(t) \in Nat
    BY Fields
  <2>2. PICK l \in Nat : l = Len(t)
    BY <2>1
  <2>3. L = k + l + 1 /\ \A j \in 1..l : Written(m)[k + j] = t[j]
    BY <1>4, <2>1, <2>2, WrittenForm
  <2>4. ASSUME NEW q \in (index + k)..(Len(data) - 1) PROVE At(q) # 0
    <3>1. q \in Int /\ index + k <= q /\ q < index + n
      BY <1>1
    <3>2. PICK j \in Int : j = q - index - k + 1
      BY <1>1, <3>1
    <3>3. k + j \in 1..n /\ index + (k + j) - 1 = q /\ 1 <= j /\ k + j < L
      BY <1>1, <3>1, <3>2
    <3>4. j \in 1..l
      BY <2>3, <3>3
    <3>5. At(q) = t[j]
      BY <2>3, <3>3, <3>4
    <3>6. t[j] \in Bytes \ {0}
      BY <2>2, <3>4
    <3> QED
      BY <3>5, <3>6
  <2>5. index + k \in Nat
    BY <1>1
  <2>6. StringEnd(index + k) \in Nat /\ Len(data) <= StringEnd(index + k)
    BY <2>4, <2>5, TextCut
  <2> QED
    BY <1>1, <2>6
<1>5. \A c : AtCommand(c) => ByteOf(m) = c
  BY <1>2 DEF AtCommand
<1>6. CASE Pong
  <2>1. m.cmd = "PING"
    BY <1>5, <1>6, CommandBytes DEF Pong
  <2>2. L = 1
    BY <2>1, WrittenForm
  <2> QED
    BY <2>2
<1>14. CASE Quit
  <2>1. m.cmd = "QUIT"
    BY <1>5, <1>14, CommandBytes DEF Quit
  <2>2. L = 1
    BY <2>1, WrittenForm
  <2> QED
    BY <2>2
<1>7. CASE ParsePlayerDisconnect
  <2>1. m.cmd = "DISCONNECT"
    BY <1>5, <1>7, CommandBytes DEF ParsePlayerDisconnect
  <2>2. L = 2
    BY <2>1, WrittenForm
  <2>3. Len(data) <= index + 1 + 1 /\ index + 1 \in Nat
    BY <1>1, <2>2
  <2> QED
    BY <1>3, <1>7, <2>3 DEF ParsePlayerDisconnect
<1>8. CASE ParseMap
  <2>1. HasText(m) /\ Before(m) = 1
    BY <1>5, <1>8, CommandBytes DEF ParseMap, HasText, Before
  <2> QED
    BY <1>3, <1>4, <1>8, <2>1 DEF ParseMap
<1>9. ASSUME m.cmd \in {"PRINT", "CONNECT", "PLAYERUPDATE"}
      PROVE  HasText(m) /\ Before(m) = 2
  BY <1>9 DEF HasText, Before, Sub
<1>10. CASE ParsePrint
  <2>1. m.cmd = "PRINT"
    BY <1>5, <1>10, CommandBytes DEF ParsePrint
  <2> QED
    BY <1>3, <1>4, <1>9, <1>10, <2>1 DEF ParsePrint
<1>11. ASSUME NEW c \in {"CONNECT", "PLAYERUPDATE"}, ParseUserinfo(c)
       PROVE  \E y, r : Calls(y, r) /\ r \in Nat /\ Len(data) <= r + 1
  <2>1. m.cmd = c
    BY <1>5, <1>11, CommandBytes DEF ParseUserinfo
  <2>2. \E x : Handled(x, StringEnd(index + 2))
    BY <1>11 DEF ParseUserinfo
  <2> QED
    BY <1>3, <1>4, <1>9, <2>1, <2>2
<1>12. ASSUME NEW c \in DOMAIN Sub, ParseCommand(c)
       PROVE  \E y, r : Calls(y, r) /\ r \in Nat /\ Len(data) <= r + 1
  <2>1. m.cmd \in DOMAIN Sub
    BY <1>5, <1>12, CommandBytes DEF ParseCommand
  <2>2. HasText(m) /\ Before(m) = 3
    BY <2>1 DEF HasText, Before, Sub
  <2>3. \E x : Handled(x, StringEnd(index + 3))
    BY <1>12 DEF ParseCommand
  <2> QED
    BY <1>3, <1>4, <2>2, <2>3
<1>13. ~ParseNothing /\ ~ParseEnds /\ ~ParseAuth /\ ~ParsePlayerList /\ ~ListEntry /\ ~ListEnds
  <2>1. At(index) \in {Code[c] : c \in DOMAIN Code} \cup {COMMAND}
    BY <1>2, CommandBytes
  <2>2. ASSUME AtCommand(COMMAND) PROVE At(index + 1) \in {Sub[c] : c \in DOMAIN Sub}
    <3>1. m.cmd \in DOMAIN Sub
      BY <1>5, <2>2, CommandBytes
    <3>2. CASE n = 1
      <4>1. At(index + 1) = 0
        BY <1>1, <3>2 DEF At
      <4> QED
        BY <4>1 DEF Sub
    <3>3. CASE n # 1
      <4>1. 2 \in 1..n /\ index + 2 - 1 = index + 1
        BY <1>1, <3>3
      <4>2. At(index + 1) = Sub[m.cmd]
        BY <3>1, <4>1, WrittenForm
      <4> QED
        BY <3>1, <4>2
    <3> QED
      BY <3>2, <3>3
  <2>3. ~ParseAuth /\ ~ParsePlayerList
    BY <1>5, CommandBytes DEF ParseAuth, ParsePlayerList
  <2>4. ~ListEntry /\ ~ListEnds
    BY DEF ListEntry, ListEnds
  <2> QED
    BY <2>1, <2>2, <2>3, <2>4 DEF ParseNothing, ParseEnds
<1> QED
  BY <1>6, <1>7, <1>8, <1>10, <1>11, <1>12, <1>13, <1>14 DEF ParseMessage

-----------------------------------------------------------------------------
(* The messages in flight.                                                 *)

(* A message and its place among the bytes in flight or in the buffer.     *)
Entries == [msg : Outgoing, at : Int]

(* The bytes up to the end of the last message.                            *)
Upto(p) == IF p = <<>> THEN 0 ELSE End(p[Len(p)])

(* What is left in s of the message of e lies where e says.                *)
Placed(e, s) ==
  /\ End(e) <= Len(s)
  /\ \A j \in 1..Len(Written(e.msg)) : 0 < e.at + j => s[e.at + j] = Written(e.msg)[j]

(* The bytes in flight are the messages in flight, one behind the other.   *)
PipeInv ==
  /\ bytes \in Seq(Bytes) /\ pipe \in Seq(Entries)
  /\ \A k \in 1..Len(pipe) :
       /\ Placed(pipe[k], bytes) /\ 0 < End(pipe[k])
       /\ IF k = 1 THEN pipe[k].at <= 0 ELSE pipe[k].at = End(pipe[k - 1])
       /\ \A j \in 1..(k - 1) : End(pipe[j]) <= pipe[k].at
  /\ Len(bytes) = Upto(pipe)

(* So are the bytes of a buffer that begins between two messages, and what *)
(* is behind the last whole one is the beginning of the first in flight.   *)
BufInv ==
  /\ length = Len(data) \/ data = <<>>
  /\ whole \in Seq(Entries)
  /\ \A k \in 1..Len(whole) :
       /\ Placed(whole[k], data) /\ 0 <= whole[k].at
       /\ IF k = 1 THEN start => whole[k].at = 0 ELSE whole[k].at = End(whole[k - 1])
  /\ start /\ end => Len(data) = Upto(whole)
  /\ start /\ ~end =>
       /\ Len(pipe) # 0 /\ pipe[1].at = Upto(whole) - Len(data) /\ pipe[1].at < 0
       /\ \A j \in 1..(Len(data) - Upto(whole)) : data[Upto(whole) + j] = Written(pipe[1].msg)[j]

(* The types of an entry.                                                  *)
LEMMA EntryEnd ==
  ASSUME NEW e \in Entries
  PROVE  /\ e.msg \in Outgoing /\ e.at \in Int /\ Len(Written(e.msg)) \in Nat \ {0}
         /\ Written(e.msg) \in Seq(Bytes) /\ e.at < End(e)
         /\ End(e) \in Int /\ End(e) = e.at + Len(Written(e.msg))
<1>1. e.msg \in Outgoing /\ e.at \in Int
  BY DEF Entries
<1>2. Len(Written(e.msg)) \in Nat \ {0} /\ Written(e.msg) \in Seq(Bytes)
  BY <1>1, WrittenForm
<1> QED
  BY <1>1, <1>2 DEF End

(* The ends of the messages in flight come in their order.                 *)
LEMMA EndsOrdered ==
  ASSUME PipeInv, NEW j \in 1..Len(pipe), NEW k \in 1..Len(pipe), j <= k
  PROVE  /\ pipe[j] \in Entries /\ pipe[k] \in Entries
         /\ End(pipe[j]) <= End(pipe[k])
         /\ j # k => End(pipe[j]) <= pipe[k].at
         /\ 0 < End(pipe[j]) /\ 0 < End(pipe[k])
<1>1. pipe[j] \in Entries /\ pipe[k] \in Entries /\ Len(pipe) \in Nat
  BY DEF PipeInv
<1>2. j # k => End(pipe[j]) <= pipe[k].at
  <2>1. j # k => j \in 1..(k - 1)
    BY <1>1
  <2> QED
    BY <2>1 DEF PipeInv
<1>3. End(pipe[j]) \in Int /\ End(pipe[k]) \in Int /\ pipe[k].at \in Int /\ pipe[k].at < End(pipe[k])
  BY <1>1, EntryEnd
<1> QED
  BY <1>1, <1>2, <1>3 DEF PipeInv

(* A message that is written lies behind those in flight.                  *)
LEMMA WritesPipe ==
  ASSUME PipeInv, NEW m \in Outgoing, ClientWrites(m)
  PROVE  /\ PipeInv'
         /\ \A k \in 1..Len(pipe) : k \in 1..Len(pipe') /\ pipe'[k] = pipe[k]
<1>1. bytes' = bytes \o Written(m) /\ pipe' = Append(pipe, [msg |-> m, at |-> Len(bytes)])
  BY DEF ClientWrites
<1>2. PICK b \in Nat : b = Len(bytes)
  BY DEF PipeInv
<1>3. PICK w \in Nat : w = Len(Written(m)) /\ w # 0 /\ Written(m) \in Seq(Bytes)
  BY WrittenForm
<1>4. /\ bytes' \in Seq(Bytes) /\ Len(bytes') = b + w
      /\ \A i \in 1..b : bytes'[i] = bytes[i]
      /\ \A i \in 1..w : bytes'[b + i] = Written(m)[i]
  <2>1. PICK s \in Seq(Bytes) : s = bytes
    BY DEF PipeInv
  <2>2. PICK t \in Seq(Bytes) : t = Written(m)
    BY <1>3
  <2>3. /\ s \o t \in Seq(Bytes) /\ Len(s \o t) = Len(s) + Len(t)
        /\ \A i \in 1..Len(s) : (s \o t)[i] = s[i]
        /\ \A i \in 1..Len(t) : (s \o t)[Len(s) + i] = t[i]
    OBVIOUS
  <2> QED
    BY <1>1, <1>2, <1>3, <2>1, <2>2, <2>3
<1>5. PICK new \in Entries : new = [msg |-> m, at |-> b]
  <2>1. [msg |-> m, at |-> b] \in Entries
    BY DEF Entries
  <2> QED
    BY <2>1
<1>6. PICK l \in Nat : l = Len(pipe)
  BY DEF PipeInv
<1>7. pipe' = Append(pipe, new) /\ pipe \in Seq(Entries)
  BY <1>1, <1>2, <1>5 DEF PipeInv
<1>8. /\ pipe' \in Seq(Entries) /\ Len(pipe') = l + 1
      /\ \A i \in 1..l : pipe'[i] = pipe[i]
      /\ pipe'[l + 1] = new
  BY <1>6, <1>7
<1>9. new.msg = m /\ new.at = b /\ End(new) = b + w
  BY <1>3, <1>5 DEF End
<1>10. \A k \in 1..l : /\ pipe[k] \in Entries /\ End(pipe[k]) \in Int /\ pipe[k].at \in Int
                       /\ Len(Written(pipe[k].msg)) \in Nat /\ End(pipe[k]) <= b /\ 0 < End(pipe[k])
                       /\ End(pipe[k]) = pipe[k].at + Len(Written(pipe[k].msg))
  <2> SUFFICES ASSUME NEW k \in 1..l
               PROVE  /\ pipe[k] \in Entries /\ End(pipe[k]) \in Int /\ pipe[k].at \in Int
                      /\ Len(Written(pipe[k].msg)) \in Nat /\ End(pipe[k]) <= b /\ 0 < End(pipe[k])
                      /\ End(pipe[k]) = pipe[k].at + Len(Written(pipe[k].msg))
    OBVIOUS
  <2>1. pipe[k] \in Entries /\ End(pipe[k]) <= b /\ 0 < End(pipe[k])
    BY <1>2, <1>6 DEF PipeInv, Placed
  <2> QED
    BY <2>1, EntryEnd
<1>11. b = IF l = 0 THEN 0 ELSE End(pipe[l])
  BY <1>2, <1>6, <1>7 DEF PipeInv, Upto
<1>12. Len(bytes') = Upto(pipe')
  BY <1>4, <1>8, <1>9 DEF Upto
<1>13. ASSUME NEW k \in 1..l
       PROVE  /\ Placed(pipe'[k], bytes') /\ 0 < End(pipe'[k])
              /\ IF k = 1 THEN pipe'[k].at <= 0 ELSE pipe'[k].at = End(pipe'[k - 1])
              /\ \A j \in 1..(k - 1) : End(pipe'[j]) <= pipe'[k].at
  <2>1. pipe'[k] = pipe[k] /\ \A j \in 1..(k - 1) : j \in 1..l /\ pipe'[j] = pipe[j]
    BY <1>8
  <2>2. /\ Placed(pipe[k], bytes) /\ 0 < End(pipe[k])
        /\ IF k = 1 THEN pipe[k].at <= 0 ELSE pipe[k].at = End(pipe[k - 1])
        /\ \A j \in 1..(k - 1) : End(pipe[j]) <= pipe[k].at
    BY <1>6 DEF PipeInv
  <2>3. Placed(pipe[k], bytes')
    <3>1. End(pipe[k]) <= b + w
      BY <1>10
    <3>2. ASSUME NEW j \in 1..Len(Written(pipe[k].msg)), 0 < pipe[k].at + j
          PROVE  bytes'[pipe[k].at + j] = Written(pipe[k].msg)[j]
      <4>2. PICK n \in Nat : n = Len(Written(pipe[k].msg)) /\ pipe[k].at + n <= b
        BY <1>10
      <4>1. pipe[k].at + j \in 1..b
        BY <1>10, <3>2, <4>2
      <4> QED
        BY <1>4, <2>2, <3>2, <4>1 DEF Placed
    <3> QED
      BY <1>4, <3>1, <3>2 DEF Placed
  <2>4. k # 1 => k - 1 \in 1..(k - 1)
    OBVIOUS
  <2> QED
    BY <2>1, <2>2, <2>3, <2>4
<1>14. /\ Placed(new, bytes') /\ 0 < End(new)
       /\ IF l + 1 = 1 THEN new.at <= 0 ELSE new.at = End(pipe'[l + 1 - 1])
       /\ \A j \in 1..(l + 1 - 1) : End(pipe'[j]) <= new.at
  <2>1. Placed(new, bytes')
    BY <1>3, <1>4, <1>9 DEF Placed
  <2>2. l + 1 - 1 = l /\ (l # 0 => l \in 1..l)
    OBVIOUS
  <2>3. l # 0 => pipe'[l] = pipe[l]
    BY <1>8, <2>2
  <2>4. \A j \in 1..l : End(pipe'[j]) <= b
    BY <1>8, <1>10
  <2> QED
    BY <1>3, <1>9, <1>11, <2>1, <2>2, <2>3, <2>4
<1>15. \A k \in 1..Len(pipe') : k \in 1..l \/ k = l + 1
  BY <1>8
<1>16. PipeInv'
  <2> SUFFICES ASSUME NEW k \in 1..Len(pipe')
               PROVE  /\ Placed(pipe'[k], bytes') /\ 0 < End(pipe'[k])
                      /\ IF k = 1 THEN pipe'[k].at <= 0 ELSE pipe'[k].at = End(pipe'[k - 1])
                      /\ \A j \in 1..(k - 1) : End(pipe'[j]) <= pipe'[k].at
    BY <1>4, <1>8, <1>12 DEF PipeInv, Placed, Upto, End
  <2> QED
    BY <1>8, <1>13, <1>14, <1>15
<1> QED
  BY <1>6, <1>8, <1>16

(* A sequence over 1..r has length r.                                      *)
LEMMA LengthOf ==
  ASSUME NEW S, NEW s \in Seq(S), NEW r \in Nat, DOMAIN s = 1..r
  PROVE  Len(s) = r
<1>1. PICK a \in Nat : a = Len(s) /\ 1..a = 1..r
  BY LenProperties
<1>2. a # 0 => a \in 1..a
  OBVIOUS
<1>3. r # 0 => r \in 1..r
  OBVIOUS
<1>4. (a # 0 => a <= r) /\ (r # 0 => r <= a)
  BY <1>1, <1>2, <1>3
<1> QED
  BY <1>1, <1>4

(* What recv() takes: n bytes, the first d messages to their end.          *)
Takes(n, d) ==
  /\ n \in 1..BufSize /\ n <= Len(bytes) /\ d \in 0..Len(pipe)
  /\ d # 0 => End(pipe[d]) <= n
  /\ d # Len(pipe) => n < End(pipe[d + 1])

(* There is a message in flight, and it is taken or the next one is cut.   *)
LEMMA TakesSome ==
  ASSUME PipeInv, NEW n, NEW d, Takes(n, d)
  PROVE  /\ Len(pipe) \in Nat \ {0} /\ Len(bytes) \in Nat /\ Len(bytes) = End(pipe[Len(pipe)])
         /\ n \in Nat \ {0} /\ n <= Len(bytes) /\ d \in Nat /\ d <= Len(pipe)
         /\ d = Len(pipe) => Len(bytes) = n
<1>1. PICK l \in Nat : l = Len(pipe) /\ d \in 0..l
  BY DEF PipeInv, Takes
<1>2. PICK b \in Nat : b = Len(bytes) /\ n <= b /\ n \in Nat \ {0}
  BY StreamAssumption DEF PipeInv, Takes
<1>3. l # 0
  <2>1. l = 0 => pipe = <<>>
    <3>1. pipe # <<>> => Len(pipe) \in Nat \ {0}
      BY EmptySeq DEF PipeInv
    <3> QED
      BY <1>1, <3>1
  <2>2. pipe = <<>> => b = 0
    BY <1>2 DEF PipeInv, Upto
  <2> QED
    BY <1>2, <2>1, <2>2
<1>4. b = End(pipe[l])
  <2>1. pipe # <<>>
    BY <1>1, <1>3
  <2> QED
    BY <1>1, <1>2, <2>1 DEF PipeInv, Upto
<1>5. d = l => b = n
  BY <1>1, <1>2, <1>3, <1>4 DEF Takes
<1> QED
  BY <1>1, <1>2, <1>3, <1>4, <1>5

(* The bytes of the buffer, and those left.                                *)
LEMMA ReceivedBytes ==
  ASSUME PipeInv, NEW n, NEW d, Takes(n, d),
         data' = SubSeq(bytes, 1, n), bytes' = SubSeq(bytes, n + 1, Len(bytes))
  PROVE  /\ data' \in Seq(Bytes) /\ Len(data') = n
         /\ \A i \in 1..n : data'[i] = bytes[i]
         /\ bytes' \in Seq(Bytes) /\ Len(bytes') = Len(bytes) - n
         /\ \A i \in 1..(Len(bytes) - n) : bytes'[i] = bytes[n + i]
<1>1. PICK s \in Seq(Bytes) : s = bytes
  BY DEF PipeInv
<1>2. n \in Nat \ {0} /\ n <= Len(s) /\ Len(s) \in Nat
  BY <1>1, TakesSome
<1>3. /\ SubSeq(s, 1, n) \in Seq(Bytes) /\ Len(SubSeq(s, 1, n)) = n
      /\ \A i \in 1..n : SubSeq(s, 1, n)[i] = s[i]
  BY <1>2
<1>4. SubSeq(s, n + 1, Len(s)) \in Seq(Bytes) /\ Len(SubSeq(s, n + 1, Len(s))) = Len(s) - n
  BY <1>2
<1>5. \A i \in 1..(Len(s) - n) : SubSeq(s, n + 1, Len(s))[i] = s[n + i]
  BY <1>2
<1> QED
  BY <1>1, <1>3, <1>4, <1>5

(* A message in flight, n bytes later.                                     *)
Later(e, n) == [e EXCEPT !.at = @ - n]

(* It is the same message, n bytes nearer.                                 *)
LEMMA LaterEntry ==
  ASSUME NEW e \in Entries, NEW n \in Nat
  PROVE  /\ Later(e, n) \in Entries /\ Later(e, n).msg = e.msg
         /\ Later(e, n).at = e.at - n /\ End(Later(e, n)) = End(e) - n
<1>1. e.msg \in Outgoing /\ e.at \in Int /\ Len(Written(e.msg)) \in Nat
  BY EntryEnd
<1>2. Later(e, n) = [msg |-> e.msg, at |-> e.at - n] /\ e.at - n \in Int
  BY <1>1 DEF Later, Entries
<1> QED
  BY <1>1, <1>2 DEF Entries, End

(* What Recv does to the pipe and the buffer.                              *)
Received(n, d) ==
  /\ bytes' = SubSeq(bytes, n + 1, Len(bytes))
  /\ data' = SubSeq(bytes, 1, n) /\ length' = n
  /\ pipe' = [k \in 1..(Len(pipe) - d) |-> Later(pipe[k + d], n)]
  /\ start' = (pipe[1].at = 0) /\ end' = (d # 0 /\ End(pipe[d]) = n)
  /\ whole' = SubSeq(pipe, IF start' THEN 1 ELSE 2, d)

(* The messages left lie among the bytes left.                             *)
LEMMA ReceivedPipe ==
  ASSUME PipeInv, NEW n, NEW d, Takes(n, d), Received(n, d)
  PROVE  PipeInv'
<1>1. PICK l \in Nat : l = Len(pipe)
  BY DEF PipeInv
<1>2. PICK b \in Nat : b = Len(bytes)
  BY DEF PipeInv
<1>3. /\ l # 0 /\ b = End(pipe[l]) /\ n \in Nat \ {0} /\ n <= b /\ d \in Nat /\ d <= l
      /\ d = l => b = n
  BY <1>1, <1>2, TakesSome
<1>4. /\ bytes' \in Seq(Bytes) /\ Len(bytes') = b - n
      /\ \A i \in 1..(b - n) : bytes'[i] = bytes[n + i]
  BY <1>2, ReceivedBytes DEF Received
<1>5. PICK r \in Nat : r = l - d
  BY <1>3
<1>6. ASSUME NEW k \in 1..r
      PROVE  /\ k + d \in 1..l /\ pipe[k + d] \in Entries
             /\ Later(pipe[k + d], n) \in Entries
             /\ Later(pipe[k + d], n).msg = pipe[k + d].msg
             /\ Later(pipe[k + d], n).at = pipe[k + d].at - n
             /\ End(Later(pipe[k + d], n)) = End(pipe[k + d]) - n
             /\ pipe[k + d].at \in Int /\ End(pipe[k + d]) \in Int
  <2>1. k + d \in 1..l
    BY <1>3, <1>5
  <2>2. pipe[k + d] \in Entries
    BY <1>1, <2>1 DEF PipeInv
  <2> QED
    BY <1>3, <2>1, <2>2, LaterEntry, EntryEnd
<1>7. /\ pipe' \in Seq(Entries) /\ Len(pipe') = r
      /\ \A k \in 1..r : pipe'[k] = Later(pipe[k + d], n)
  <2>1. pipe' = [k \in 1..r |-> Later(pipe[k + d], n)]
    BY <1>1, <1>5 DEF Received
  <2>2. pipe' \in [1..r -> Entries]
    BY <1>6, <2>1
  <2>3. pipe' \in Seq(Entries)
    BY <2>2, SeqDef
  <2>4. DOMAIN pipe' = 1..r
    BY <2>1, Zenon
  <2>6. Len(pipe') = r
    BY <2>3, <2>4, LengthOf
  <2> QED
    BY <2>1, <2>3, <2>6
<1>8. ASSUME NEW k \in 1..r PROVE n < End(pipe[k + d])
  <2>1. d # l /\ d + 1 \in 1..l /\ k + d \in 1..l /\ d + 1 <= k + d
    BY <1>3, <1>5, <1>6
  <2>2. n < End(pipe[d + 1])
    BY <1>1, <2>1 DEF Takes
  <2>3. End(pipe[d + 1]) <= End(pipe[k + d]) /\ pipe[d + 1] \in Entries
    BY <1>1, <2>1, EndsOrdered
  <2>4. End(pipe[d + 1]) \in Int
    BY <2>3, EntryEnd
  <2> QED
    BY <1>3, <1>6, <2>2, <2>3, <2>4
<1>9. Len(bytes') = Upto(pipe')
  <2>1. CASE r = 0
    <3>1. pipe' = <<>>
      <4>1. pipe' # <<>> => Len(pipe') \in Nat \ {0}
        BY <1>7, EmptySeq
      <4> QED
        BY <1>7, <2>1, <4>1
    <3>2. b - n = 0
      BY <1>3, <1>5, <2>1
    <3> QED
      BY <1>4, <3>1, <3>2 DEF Upto
  <2>2. CASE r # 0
    <3>1. pipe' # <<>>
      BY <1>7, <2>2
    <3>2. r \in 1..r /\ r + d = l
      BY <1>3, <1>5, <2>2
    <3>3. End(pipe'[r]) = b - n
      BY <1>3, <1>6, <1>7, <3>2
    <3> QED
      BY <1>4, <1>7, <3>1, <3>3 DEF Upto
  <2> QED
    BY <2>1, <2>2
<1>10. ASSUME NEW k \in 1..r
       PROVE  /\ Placed(pipe'[k], bytes') /\ 0 < End(pipe'[k])
              /\ IF k = 1 THEN pipe'[k].at <= 0 ELSE pipe'[k].at = End(pipe'[k - 1])
              /\ \A j \in 1..(k - 1) : End(pipe'[j]) <= pipe'[k].at
  <2> DEFINE e == pipe[k + d]
             L == Len(Written(e.msg))
  <2>1. /\ k + d \in 1..l /\ e \in Entries /\ e.at \in Int /\ End(e) \in Int
        /\ pipe'[k].msg = e.msg /\ pipe'[k].at = e.at - n /\ End(pipe'[k]) = End(e) - n
    BY <1>6, <1>7
  <2>2. L \in Nat /\ End(e) = e.at + L
    BY <2>1, EntryEnd
  <2>3. /\ Placed(e, bytes)
        /\ IF k + d = 1 THEN e.at <= 0 ELSE e.at = End(pipe[k + d - 1])
        /\ \A j \in 1..(k + d - 1) : End(pipe[j]) <= e.at
    <3>1. PICK i \in 1..l : i = k + d
      BY <2>1
    <3>2. /\ Placed(pipe[i], bytes)
          /\ IF i = 1 THEN pipe[i].at <= 0 ELSE pipe[i].at = End(pipe[i - 1])
          /\ \A j \in 1..(i - 1) : End(pipe[j]) <= pipe[i].at
      BY <1>1 DEF PipeInv
    <3>3. pipe[i] = e
      BY <3>1, Zenon
    <3>4. i - 1 = k + d - 1
      BY <1>3, <3>1
    <3>5. i = 1 <=> k + d = 1
      BY <3>1, Zenon
    <3> HIDE DEF e
    <3> QED
      BY <3>2, <3>3, <3>4, <3>5, Zenon
  <2>4. 0 < End(pipe'[k])
    BY <1>3, <1>8, <2>1
  <2>5. Placed(pipe'[k], bytes')
    <3>1. End(e) <= b
      BY <1>2, <2>3 DEF Placed
    <3>2. End(pipe'[k]) <= Len(bytes')
      BY <1>3, <1>4, <2>1, <3>1
    <3>3. ASSUME NEW j \in 1..L, 0 < e.at - n + j
          PROVE  bytes'[e.at - n + j] = Written(e.msg)[j]
      <4>1. e.at - n + j \in 1..(b - n) /\ n + (e.at - n + j) = e.at + j /\ 0 < e.at + j
        <5>1. PICK a \in Int : a = e.at
          BY <2>1
        <5>2. PICK w \in Nat : w = L
          BY <2>2
        <5>3. a + w <= b /\ 0 < a - n + j /\ j \in 1..w
          BY <2>2, <3>1, <3>3, <5>1, <5>2
        <5>4. a - n + j \in 1..(b - n) /\ n + (a - n + j) = a + j /\ 0 < a + j
          BY <1>3, <5>3
        <5> QED
          BY <5>1, <5>4
      <4>2. bytes'[e.at - n + j] = bytes[e.at + j]
        BY <1>4, <4>1
      <4>3. bytes[e.at + j] = Written(e.msg)[j]
        BY <2>3, <4>1 DEF Placed
      <4> QED
        BY <4>2, <4>3
    <3> QED
      BY <2>1, <3>2, <3>3 DEF Placed
  <2>6. k = 1 => pipe'[k].at <= 0
    <3>1. CASE d = 0
      BY <1>3, <2>1, <2>3, <3>1
    <3>2. CASE d # 0
      <4>1. k = 1 => k + d # 1 /\ k + d - 1 = d /\ d \in 1..l
        BY <1>3, <3>2
      <4>2. End(pipe[d]) <= n
        BY <3>2 DEF Takes
      <4> QED
        BY <1>3, <2>1, <2>3, <4>1, <4>2
    <3> QED
      BY <3>1, <3>2
  <2>7. ASSUME k # 1 PROVE pipe'[k].at = End(pipe'[k - 1])
    <3>1. k - 1 \in 1..r /\ k - 1 + d = k + d - 1 /\ k + d # 1
      BY <1>3, <2>7
    <3>2. End(pipe'[k - 1]) = End(pipe[k + d - 1]) - n
      BY <1>6, <1>7, <3>1
    <3> QED
      BY <2>1, <2>3, <3>1, <3>2
  <2>8. ASSUME NEW j \in 1..(k - 1) PROVE End(pipe'[j]) <= pipe'[k].at
    <3>1. j \in 1..r /\ j + d \in 1..(k + d - 1)
      BY <1>3
    <3>2. End(pipe'[j]) = End(pipe[j + d]) - n /\ End(pipe[j + d]) \in Int
      BY <1>6, <1>7, <3>1
    <3>3. End(pipe[j + d]) <= e.at
      BY <2>3, <3>1
    <3> HIDE DEF e
    <3> QED
      BY <1>3, <2>1, <3>2, <3>3
  <2> QED
    BY <2>4, <2>5, <2>6, <2>7, <2>8
<1> QED
  BY <1>4, <1>7, <1>9, <1>10 DEF PipeInv, Placed, Upto, End

-----------------------------------------------------------------------------
(* The messages in the buffer.                                             *)

(* w is the part of the pipe from s to d.                                  *)
Taken(w, s, d) ==
  /\ w \in Seq(Entries) /\ Len(w) = IF d < s THEN 0 ELSE d - s + 1
  /\ \A k \in 1..Len(w) : k + s - 1 \in 1..d /\ w[k] = pipe[k + s - 1]

(* The whole messages of a buffer are messages that were in flight.        *)
LEMMA WholeTaken ==
  ASSUME PipeInv, NEW n, NEW d, Takes(n, d), NEW s \in {1, 2}
  PROVE  Taken(SubSeq(pipe, s, d), s, d)
<1>1. PICK p \in Seq(Entries) : p = pipe
  BY DEF PipeInv
<1>2. Len(p) \in Nat /\ d \in Nat /\ d <= Len(p)
  BY <1>1, TakesSome
<1>3. SubSeq(p, s, d) \in Seq(Entries) /\ Len(SubSeq(p, s, d)) = IF d < s THEN 0 ELSE d - s + 1
  BY <1>2
<1>4. \A k \in 1..(IF d < s THEN 0 ELSE d - s + 1) :
        k + s - 1 \in 1..d /\ SubSeq(p, s, d)[k] = p[k + s - 1]
  BY <1>2
<1> QED
  BY <1>1, <1>3, <1>4 DEF Taken

(* The messages received lie in the buffer.                                *)
LEMMA ReceivedBuffer ==
  ASSUME PipeInv, NEW n, NEW d, Takes(n, d), Received(n, d)
  PROVE  BufInv'
<1>1. PICK l \in Nat : l = Len(pipe)
  BY DEF PipeInv
<1>2. PICK b \in Nat : b = Len(bytes)
  BY DEF PipeInv
<1>3. /\ l # 0 /\ b = End(pipe[l]) /\ n \in Nat \ {0} /\ n <= b /\ d \in Nat /\ d <= l
      /\ d = l => b = n
  BY <1>1, <1>2, TakesSome
<1>4. /\ data' \in Seq(Bytes) /\ Len(data') = n
      /\ \A i \in 1..n : data'[i] = bytes[i]
  BY ReceivedBytes DEF Received
<1>14. (start' <=> pipe[1].at = 0) /\ (end' <=> d # 0 /\ End(pipe[d]) = n)
  BY Zenon DEF Received
<1>5. PICK s \in {1, 2} : (start' <=> s = 1) /\ whole' = SubSeq(pipe, s, d)
  <2>1. whole' = SubSeq(pipe, IF start' THEN 1 ELSE 2, d)
    BY Zenon DEF Received
  <2>2. CASE start'
    BY <2>1, <2>2, 1 \in {1, 2}, Zenon
  <2>3. CASE ~start'
    BY <2>1, <2>3, 2 \in {1, 2}, 2 # 1, Zenon
  <2> QED
    BY <2>2, <2>3, Zenon
<1>6. whole' = SubSeq(pipe, s, d)
  BY <1>5
<1>15. s \in Nat
  OBVIOUS
<1>7. /\ whole' \in Seq(Entries) /\ Len(whole') = IF d < s THEN 0 ELSE d - s + 1
      /\ \A k \in 1..Len(whole') : k + s - 1 \in 1..d /\ whole'[k] = pipe[k + s - 1]
  <2>1. Taken(SubSeq(pipe, s, d), s, d)
    BY WholeTaken
  <2>2. Taken(whole', s, d)
    BY <1>6, <2>1, Zenon
  <2> QED
    BY <2>2 DEF Taken
<1>8. ASSUME NEW i \in 1..l
      PROVE  /\ pipe[i] \in Entries /\ pipe[i].at \in Int /\ End(pipe[i]) \in Int
             /\ Placed(pipe[i], bytes) /\ 0 < End(pipe[i])
             /\ IF i = 1 THEN pipe[i].at <= 0 ELSE pipe[i].at = End(pipe[i - 1])
             /\ Len(Written(pipe[i].msg)) \in Nat
             /\ End(pipe[i]) = pipe[i].at + Len(Written(pipe[i].msg))
  <2>1. pipe[i] \in Entries
    BY <1>1 DEF PipeInv
  <2> QED
    BY <1>1, <2>1, EntryEnd DEF PipeInv
<1>9. ASSUME NEW i \in 1..d PROVE Placed(pipe[i], data')
  <2>1. d \in 1..l /\ i \in 1..l /\ i <= d /\ d # 0
    BY <1>3
  <2>2. End(pipe[i]) <= End(pipe[d]) /\ End(pipe[d]) <= n
    BY <1>1, <2>1, EndsOrdered DEF Takes
  <2>3. End(pipe[i]) <= n
    BY <1>3, <1>8, <2>1, <2>2
  <2>4. ASSUME NEW j \in 1..Len(Written(pipe[i].msg)), 0 < pipe[i].at + j
        PROVE  data'[pipe[i].at + j] = Written(pipe[i].msg)[j]
    <3>1. PICK a \in Int : a = pipe[i].at
      BY <1>8, <2>1
    <3>2. PICK w \in Nat : w = Len(Written(pipe[i].msg))
      BY <1>8, <2>1
    <3>3. a + w <= n /\ j \in 1..w /\ 0 < a + j
      BY <1>8, <2>1, <2>3, <2>4, <3>1, <3>2
    <3>4. a + j \in 1..n
      BY <1>3, <3>3
    <3>5. bytes[a + j] = Written(pipe[i].msg)[j]
      BY <1>8, <2>1, <2>4, <3>1 DEF Placed
    <3> QED
      BY <1>4, <3>1, <3>4, <3>5
  <2> QED
    BY <1>4, <2>3, <2>4 DEF Placed
<1>10. ASSUME NEW k \in 1..Len(whole')
       PROVE  /\ Placed(whole'[k], data') /\ 0 <= whole'[k].at
              /\ IF k = 1 THEN start' => whole'[k].at = 0
                          ELSE whole'[k].at = End(whole'[k - 1])
  <2>1. PICK i \in 1..d : i = k + s - 1 /\ whole'[k] = pipe[i]
    BY <1>7
  <2>2. i \in 1..l
    BY <1>3, <2>1
  <2>3. Placed(whole'[k], data')
    BY <1>9, <2>1
  <2>4. CASE i = 1
    <3>1. k = 1 /\ s = 1
      BY <2>1, <2>4
    <3>2. start' /\ whole'[k].at = 0
      BY <1>5, <1>14, <2>1, <2>4, <3>1, Zenon
    <3> QED
      BY <2>3, <3>1, <3>2
  <2>5. CASE i # 1
    <3>1. i - 1 \in 1..l
      BY <2>2, <2>5
    <3>2. whole'[k].at = End(pipe[i - 1]) /\ 0 <= whole'[k].at
      <4>1. pipe[i].at = End(pipe[i - 1])
        BY <1>8, <2>2, <2>5
      <4>2. 0 < End(pipe[i - 1]) /\ End(pipe[i - 1]) \in Int
        BY <1>8, <3>1
      <4> QED
        BY <2>1, <4>1, <4>2
    <3>3. CASE k = 1
      <4>1. s # 1
        BY <2>1, <2>5, <3>3
      <4>2. ~start'
        BY <1>5, <4>1
      <4> QED
        BY <2>3, <3>2, <3>3, <4>2
    <3>4. CASE k # 1
      <4>3. PICK q \in Nat : q = Len(whole')
        BY <1>7
      <4>1. k - 1 \in 1..Len(whole') /\ (k - 1) + s - 1 = i - 1
        BY <1>15, <2>1, <3>4, <4>3
      <4>2. whole'[k - 1] = pipe[i - 1]
        BY <1>7, <4>1
      <4> QED
        BY <2>3, <3>2, <3>4, <4>2
    <3> QED
      BY <3>3, <3>4
  <2> QED
    BY <2>4, <2>5
<1>11. start' => Upto(whole') = IF d = 0 THEN 0 ELSE End(pipe[d])
  <2> SUFFICES ASSUME start' PROVE Upto(whole') = IF d = 0 THEN 0 ELSE End(pipe[d])
    OBVIOUS
  <2>1. s = 1 /\ Len(whole') = d
    BY <1>3, <1>5, <1>7
  <2>2. CASE d = 0
    <3>1. whole' # <<>> => Len(whole') \in Nat \ {0}
      BY <1>7, EmptySeq
    <3> QED
      BY <2>1, <2>2, <3>1 DEF Upto
  <2>3. CASE d # 0
    <3>1. whole' # <<>>
      BY <2>1, <2>3
    <3>2. d \in 1..Len(whole') /\ d + s - 1 = d
      BY <1>3, <2>1, <2>3
    <3>3. whole'[d] = pipe[d]
      BY <1>7, <3>2
    <3> QED
      BY <2>1, <2>3, <3>1, <3>3 DEF Upto
  <2> QED
    BY <2>2, <2>3
<1>12. start' /\ end' => Len(data') = Upto(whole')
  <2> SUFFICES ASSUME start', end' PROVE Len(data') = Upto(whole')
    OBVIOUS
  <2>1. d # 0 /\ End(pipe[d]) = n
    BY <1>14
  <2> QED
    BY <1>4, <1>11, <2>1
<1>13. ASSUME start', ~end'
       PROVE  /\ Len(pipe') # 0 /\ pipe'[1].at = Upto(whole') - Len(data') /\ pipe'[1].at < 0
              /\ \A j \in 1..(Len(data') - Upto(whole')) :
                   data'[Upto(whole') + j] = Written(pipe'[1].msg)[j]
  <2>1. PICK u \in Int : u = Upto(whole') /\ u = (IF d = 0 THEN 0 ELSE End(pipe[d]))
    <3>1. d # 0 => End(pipe[d]) \in Int
      BY <1>3, <1>8
    <3> QED
      BY <1>11, <1>13, <3>1
  <2>2. u < n
    <3>1. d # 0 => End(pipe[d]) <= n /\ End(pipe[d]) # n
      BY <1>13, <1>14 DEF Takes
    <3> QED
      BY <1>3, <2>1, <3>1
  <2>3. d # l
    <3>1. d = l => d # 0 /\ End(pipe[d]) = n
      BY <1>3
    <3> QED
      BY <1>13, <1>14, <3>1
  <2>9. d + 1 \in 1..l
    BY <1>3, <2>3
  <2>4. PICK e \in Entries : e = pipe[d + 1]
    BY <1>8, <2>9
  <2>5. e.at = u /\ n < End(e)
    <3>1. CASE d = 0
      <4>1. d + 1 = 1
        BY <3>1
      <4> QED
        BY <1>1, <1>13, <1>14, <2>1, <2>3, <2>4, <3>1, <4>1 DEF Takes
    <3>2. CASE d # 0
      <4>1. d + 1 # 1 /\ d + 1 - 1 = d
        BY <1>3, <3>2
      <4>2. e.at = End(pipe[d])
        <5>1. PICK i \in 1..l : i = d + 1 /\ i - 1 = d /\ i # 1
          BY <1>3, <2>9, <3>2
        <5>2. pipe[i].at = End(pipe[i - 1])
          BY <1>8, <5>1
        <5> QED
          BY <2>4, <5>1, <5>2
      <4>3. n < End(e)
        BY <1>1, <2>3, <2>4 DEF Takes
      <4> QED
        BY <2>1, <3>2, <4>2, <4>3
    <3> QED
      BY <3>1, <3>2
  <2>6. Len(pipe') = l - d /\ 1 \in 1..(l - d) /\ pipe'[1] = Later(e, n)
    <3>1. PICK r \in Nat : r = l - d
      BY <1>3
    <3>2. 1 \in 1..r
      BY <1>3, <2>3, <3>1
    <3>3. pipe' = [k \in 1..r |-> Later(pipe[k + d], n)]
      BY <1>1, <3>1 DEF Received
    <3>4. pipe' \in Seq(Entries)
      BY ReceivedPipe DEF PipeInv
    <3>5. DOMAIN pipe' = 1..r
      BY <3>3, Zenon
    <3>6. Len(pipe') = r
      BY <3>4, <3>5, LengthOf
    <3>7. pipe'[1] = Later(pipe[1 + d], n) /\ 1 + d = d + 1
      BY <1>3, <3>2, <3>3
    <3> QED
      BY <2>4, <3>1, <3>2, <3>6, <3>7
  <2>7. pipe'[1].msg = e.msg /\ pipe'[1].at = u - n
    <3>1. Later(e, n).msg = e.msg /\ Later(e, n).at = e.at - n
      BY <1>3, LaterEntry
    <3> QED
      BY <2>5, <2>6, <3>1
  <2>8. ASSUME NEW j \in 1..(n - u) PROVE data'[u + j] = Written(e.msg)[j]
    <3>1. PICK w \in Nat : w = Len(Written(e.msg)) /\ End(e) = u + w
      BY <2>5, EntryEnd
    <3>2. 0 <= u
      BY <1>3, <1>8, <2>1
    <3>3. j \in 1..w /\ u + j \in 1..n /\ 0 < u + j
      BY <1>3, <2>2, <2>5, <3>1, <3>2
    <3>4. Placed(e, bytes)
      BY <1>8, <2>4, <2>9
    <3>5. bytes[u + j] = Written(e.msg)[j]
      BY <2>5, <3>1, <3>3, <3>4 DEF Placed
    <3> QED
      BY <1>4, <3>3, <3>5
  <2>10. Len(pipe') # 0 /\ u - n < 0
    BY <1>3, <2>2, <2>3, <2>6
  <2> QED
    BY <1>4, <2>1, <2>7, <2>8, <2>10
<1>16. length' = Len(data')
  BY <1>4 DEF Received
<1> QED
  BY <1>4, <1>7, <1>10, <1>12, <1>13, <1>16 DEF BufInv, Placed, Upto, End

-----------------------------------------------------------------------------
(* What is read of the buffer.                                             *)

(* The handlers were called with the messages of the buffer, in order, and *)
(* the next byte is the first behind the last of them.                     *)
Followed ==
  /\ pc = "parse" /\ length = Len(data) /\ Len(got) <= Len(whole)
  /\ got \in Seq({Meant(m) : m \in Outgoing})
  /\ index = IF Len(got) = 0 THEN 0 ELSE End(whole[Len(got)])
  /\ \A k \in 1..Len(got) : got[k] = Meant(whole[k].msg)

(* All of them were, and nothing is left that could be a command.          *)
Finished ==
  /\ Len(got) \in Len(whole)..(Len(whole) + (IF end THEN 0 ELSE 1))
  /\ \A k \in DOMAIN whole : got[k] = Meant(whole[k].msg)
  /\ pc \in {"recv", "closed"} \/ (pc = "parse" /\ (length <= index \/ data = <<>>))

(* How far a buffer that begins between two messages has been read.        *)
ParseInv == start /\ TextsEnd => Followed \/ Finished \/ pc = "lost"

(* A sequence with one element more.                                       *)
LEMMA Appended ==
  ASSUME NEW S, NEW g \in Seq(S), NEW x
  PROVE  /\ Len(Append(g, x)) = Len(g) + 1
         /\ \A k \in 1..Len(g) : Append(g, x)[k] = g[k]
         /\ Append(g, x)[Len(g) + 1] = x
         /\ x \in S => Append(g, x) \in Seq(S)
<1>1. PICK h \in Seq(S \cup {x}) : h = g
  BY SeqMonotonic
<1>2. x \in S \cup {x}
  OBVIOUS
<1>3. /\ Len(Append(h, x)) = Len(h) + 1
      /\ \A k \in 1..Len(h) : Append(h, x)[k] = h[k]
      /\ Append(h, x)[Len(h) + 1] = x
  BY <1>2
<1> QED
  BY <1>1, <1>3

(* With nothing left, nothing is called.                                   *)
LEMMA FinishedStep ==
  ASSUME BufferInv, Finished, ParseMessage
  PROVE  UNCHANGED <<netVars, bufVars>> /\ Finished'
<1>1. pc = "parse"
  BY DEF ParseMessage, Pong, Quit, ParseAuth, ParsePlayerDisconnect, ParseMap, ParsePrint,
         ParsePlayerList, ListEntry, ListEnds, ParseUserinfo, ParseCommand, ParseNothing,
         ParseEnds, AtCommand, Finished
<1>2. InMessage => data = <<>>
  BY <1>1 DEF Finished, InMessage, BufferInv
<1>3. \A c : AtCommand(c) => c = 0
  <2>1. InMessage => At(index) = 0
    BY <1>2 DEF At, BufferInv
  <2> QED
    BY <2>1 DEF AtCommand
<1>4. /\ Code.PING # 0 /\ Code.DISCONNECT # 0 /\ Code.MAP # 0 /\ Code.PRINT # 0 /\ COMMAND # 0
      /\ \A c \in {"CONNECT", "PLAYERUPDATE"} : Code[c] # 0
      /\ Code.QUIT # 0 /\ Code.AUTH # 0 /\ Code.PLAYERLIST # 0
  BY DEF Code, COMMAND
<1>5. ParseNothing \/ ParseEnds
  BY <1>1, <1>3, <1>4 DEF ParseMessage, Pong, Quit, ParseAuth, ParsePlayerDisconnect, ParseMap,
                    ParsePrint, ParsePlayerList, ListEntry, ListEnds, ParseUserinfo, ParseCommand
<1>6. CASE ParseNothing
  <2>1. InMessage /\ UNCHANGED <<netVars, bufVars, pc, got>>
    BY <1>6 DEF ParseNothing, AtCommand, Skip
  <2> QED
    BY <1>1, <1>2, <2>1 DEF Finished, bufVars
<1>7. CASE ParseEnds
  BY <1>7 DEF ParseEnds, Finished, bufVars
<1> QED
  BY <1>5, <1>6, <1>7

(* The next whole message reaches its handler.                             *)
LEMMA WholeStep ==
  ASSUME BufferInv, BufInv, start, TextsEnd, Followed, ParseMessage, Len(got) # Len(whole)
  PROVE  UNCHANGED <<netVars, bufVars>> /\ (Followed' \/ Finished' \/ pc' = "lost")
<1>1. PICK w \in Nat : w = Len(whole)
  BY DEF BufInv
<1>2. PICK g \in Nat : g = Len(got) /\ g < w
  <2>1. Len(got) \in Nat
    BY DEF Followed
  <2> QED
    BY <1>1, <2>1 DEF Followed
<1>3. PICK k \in 1..w : k = g + 1
  BY <1>2
<1>4. PICK e \in Entries : e = whole[k]
  BY <1>1 DEF BufInv
<1>5. PICK m \in Outgoing : m = e.msg
  BY EntryEnd
<1>6. PICK L \in Nat \ {0} : L = Len(Written(m))
  BY WrittenForm
<1>7. /\ Placed(e, data)
      /\ IF k = 1 THEN e.at = 0 ELSE e.at = End(whole[k - 1])
  BY <1>1, <1>4 DEF BufInv
<1>8. index = e.at /\ index \in Nat
  <2>1. CASE g = 0
    BY <1>2, <1>3, <1>7, <2>1 DEF Followed
  <2>2. CASE g # 0
    <3>1. k # 1 /\ k - 1 = g
      BY <1>2, <1>3, <2>2
    <3> QED
      BY <1>2, <1>7, <2>2, <3>1 DEF Followed, BufferInv
  <2> QED
    BY <2>1, <2>2 DEF BufferInv
<1>9. PICK a \in Nat : a = index
  BY <1>8
<1>10. PICK D \in Nat : D = Len(data) /\ D = length /\ D <= BufSize /\ BufSize \in Nat
  BY StreamAssumption DEF BufferInv, Followed
<1>11. End(e) = a + L /\ a + L <= D
  <2>1. End(e) = a + L
    BY <1>5, <1>6, <1>8, <1>9 DEF End
  <2> QED
    BY <1>7, <1>10, <2>1 DEF Placed
<1>12. InMessage
  BY <1>9, <1>10, <1>11 DEF InMessage
<1>13. ASSUME NEW j \in 1..Len(Written(m)) PROVE At(index + j - 1) = Written(m)[j]
  <2>1. a + j - 1 < D /\ a + j - 1 + 1 = a + j /\ 0 < a + j
    BY <1>6, <1>11
  <2>2. data[a + j] = Written(m)[j]
    BY <1>5, <1>7, <1>8, <1>9, <2>1 DEF Placed
  <2> QED
    BY <1>9, <1>10, <2>1, <2>2 DEF At
<1>14. ASSUME HasText(m), m.text = <<>>
       PROVE  k = w /\ end /\ D = a + L /\ At(index + Len(Written(m))) = 0
  <2>1. DOMAIN whole = 1..w
    BY <1>1 DEF BufInv
  <2>2. k = w /\ end
    BY <1>1, <1>4, <1>5, <1>14, <2>1 DEF TextsEnd
  <2>3. whole # <<>>
    BY <1>1, <1>3
  <2>4. Upto(whole) = End(e)
    BY <1>1, <1>4, <2>2, <2>3 DEF Upto
  <2>5. D = a + L
    BY <1>10, <1>11, <2>2, <2>4 DEF BufInv
  <2> QED
    BY <1>6, <1>9, <1>10, <2>2, <2>5 DEF At
<1>15. Calls(Meant(m), a + L - 1 + (IF HasText(m) /\ m.text = <<>> THEN 1 ELSE 0))
  <2>1. pc = "parse"
    BY DEF Followed
  <2> QED
    BY <1>6, <1>9, <1>12, <1>13, <1>14, <2>1, WholeRead
<1>16. /\ UNCHANGED <<netVars, bufVars>> /\ pc' \in {pc, "lost"} /\ got' = Append(got, Meant(m))
       /\ index' = a + L - 1 + (IF HasText(m) /\ m.text = <<>> THEN 1 ELSE 0) + 1
  BY <1>15 DEF Calls
<1>17. /\ got' \in Seq({Meant(x) : x \in Outgoing}) /\ Len(got') = k
       /\ \A i \in 1..k : got'[i] = Meant(whole[i].msg)
  <2>1. PICK S : S = {Meant(x) : x \in Outgoing}
    OBVIOUS
  <2>2. got \in Seq(S) /\ Meant(m) \in S
    BY <2>1 DEF Followed
  <2>3. /\ Len(got') = g + 1 /\ got' \in Seq(S)
        /\ \A i \in 1..g : got'[i] = got[i]
        /\ got'[g + 1] = Meant(m)
    BY <1>2, <1>16, <2>2, Appended
  <2>4. \A i \in 1..g : got[i] = Meant(whole[i].msg)
    BY <1>2 DEF Followed
  <2>5. \A i \in 1..k : i \in 1..g \/ i = g + 1
    BY <1>3
  <2>6. got'[k] = Meant(whole[k].msg)
    BY <1>3, <1>4, <1>5, <2>3
  <2> QED
    BY <1>3, <2>1, <2>3, <2>4, <2>5, <2>6
<1>18. CASE pc' = pc /\ HasText(m) /\ m.text = <<>>
  <2>1. k = w /\ end /\ index' = D + 1
    BY <1>10, <1>14, <1>16, <1>18
  <2>2. DOMAIN whole = 1..w
    BY <1>1 DEF BufInv
  <2>3. pc = "parse"
    BY DEF Followed
  <2> QED
    BY <1>1, <1>10, <1>16, <1>17, <2>1, <2>2, <2>3 DEF Finished, bufVars
<1>19. CASE pc' = pc /\ ~(HasText(m) /\ m.text = <<>>)
  <2>1. index' = End(whole[k])
    <3>1. a + L - 1 + 0 + 1 = a + L
      OBVIOUS
    <3> QED
      BY <1>4, <1>11, <1>16, <1>19, <3>1
  <2>2. k # 0 /\ k <= w
    OBVIOUS
  <2>3. pc = "parse"
    BY DEF Followed
  <2> QED
    BY <1>1, <1>10, <1>16, <1>17, <2>1, <2>2, <2>3 DEF Followed, bufVars, End
<1> QED
  BY <1>16, <1>18, <1>19

(* Of what is left behind the last whole message at most one call is made. *)
LEMMA LastStep ==
  ASSUME BufferInv, PipeInv, BufInv, start, Followed, ParseMessage, Len(got) = Len(whole)
  PROVE  UNCHANGED <<netVars, bufVars>> /\ (Finished' \/ pc' = "lost")
<1>1. PICK w \in Nat : w = Len(whole) /\ w = Len(got)
  BY DEF BufInv
<1>2. index = Upto(whole) /\ index \in Nat
  <2>1. w # 0 <=> whole # <<>>
    <3>1. whole # <<>> => Len(whole) \in Nat \ {0}
      BY EmptySeq DEF BufInv
    <3>2. whole = <<>> => Len(whole) = 0
      OBVIOUS
    <3> QED
      BY <1>1, <3>1, <3>2
  <2> QED
    BY <1>1, <2>1 DEF Followed, Upto, BufferInv
<1>3. PICK D \in Nat : D = Len(data) /\ D = length /\ D <= BufSize /\ BufSize \in Nat
  BY StreamAssumption DEF BufferInv, Followed
<1>4. /\ pc = "parse" /\ DOMAIN whole = 1..w
      /\ \A k \in 1..w : got[k] = Meant(whole[k].msg)
  BY <1>1 DEF Followed, BufInv
<1>5. CASE end
  <2>1. D = index
    BY <1>2, <1>3, <1>5 DEF BufInv
  <2>2. ~InMessage
    BY <1>3, <2>1 DEF InMessage
  <2>3. ParseEnds
    BY <1>4, <2>2 DEF ParseMessage, Pong, Quit, ParseAuth, ParsePlayerDisconnect, ParseMap,
                ParsePrint, ParsePlayerList, ListEntry, ListEnds, ParseUserinfo, ParseCommand,
                ParseNothing, AtCommand
  <2>4. pc' \in {"recv", "closed"} /\ UNCHANGED <<netVars, bufVars, got>>
    BY <2>3 DEF ParseEnds
  <2>5. Len(got') \in Len(whole')..(Len(whole') + (IF end' THEN 0 ELSE 1))
    <3>1. w \in w..(w + (IF end THEN 0 ELSE 1))
      BY <1>5
    <3> QED
      BY <1>1, <2>4, <3>1 DEF bufVars
  <2>6. \A k \in DOMAIN whole' : got'[k] = Meant(whole'[k].msg)
    BY <1>4, <2>4 DEF bufVars
  <2>7. Finished'
    BY <2>4, <2>5, <2>6 DEF Finished
  <2> QED
    BY <2>4, <2>7
<1>6. CASE ~end
  <2>1. /\ Len(pipe) # 0 /\ pipe[1].at = index - D /\ pipe[1].at < 0
        /\ \A j \in 1..(D - index) : data[index + j] = Written(pipe[1].msg)[j]
    BY <1>2, <1>3, <1>6 DEF BufInv
  <2>2. pipe[1] \in Entries /\ 0 < End(pipe[1])
    <3>1. 1 \in 1..Len(pipe)
      BY <2>1 DEF PipeInv
    <3> QED
      BY <3>1 DEF PipeInv
  <2>3. PICK e \in Entries : e = pipe[1]
    BY <2>2
  <2>4. PICK m \in Outgoing : m = e.msg
    BY EntryEnd
  <2>5. PICK n \in Nat : n = D - index /\ 0 < n
    BY <1>2, <1>3, <2>1
  <2>6. n < Len(Written(m)) /\ D = index + n
    <3>1. PICK L \in Nat : L = Len(Written(m)) /\ End(e) = e.at + L
      BY <2>4, EntryEnd
    <3>2. 0 < (index - D) + L
      BY <2>1, <2>2, <2>3, <3>1
    <3> QED
      BY <1>2, <1>3, <2>5, <3>1, <3>2
  <2>7. ASSUME NEW j \in 1..n PROVE At(index + j - 1) = Written(m)[j]
    <3>1. index + j - 1 < D /\ index + j - 1 + 1 = index + j
      BY <1>2, <1>3, <2>5
    <3>2. data[index + j] = Written(m)[j]
      BY <2>1, <2>3, <2>4, <2>5
    <3> QED
      BY <1>3, <3>1, <3>2 DEF At
  <2>8. InMessage
    <3>1. index < D /\ index <= BufSize
      BY <1>2, <1>3, <2>5
    <3> QED
      BY <1>3, <3>1 DEF InMessage
  <2>9. PICK x, p : Calls(x, p) /\ p \in Nat /\ D <= p + 1
    <3>1. \E x, p : Calls(x, p) /\ p \in Nat /\ Len(data) <= p + 1
      BY <1>3, <1>4, <2>5, <2>6, <2>7, <2>8, CutRead
    <3> QED
      BY <1>3, <3>1
  <2>10. /\ UNCHANGED <<netVars, bufVars>> /\ pc' \in {pc, "lost"}
         /\ got' = Append(got, x) /\ index' = p + 1
    BY <2>9 DEF Calls
  <2>11. Len(got') = w + 1 /\ \A k \in 1..w : got'[k] = got[k]
    <3>1. PICK S : got \in Seq(S)
      BY DEF Followed
    <3> QED
      BY <1>1, <2>10, <3>1, Appended
  <2>12. length' <= index'
    BY <1>3, <2>9, <2>10 DEF bufVars
  <2>13. Len(got') \in Len(whole')..(Len(whole') + (IF end' THEN 0 ELSE 1))
    BY <1>1, <1>6, <2>10, <2>11 DEF bufVars
  <2>14. \A k \in DOMAIN whole' : got'[k] = Meant(whole'[k].msg)
    BY <1>4, <2>10, <2>11 DEF bufVars
  <2> QED
    BY <1>4, <2>10, <2>12, <2>13, <2>14 DEF Finished
<1> QED
  BY <1>5, <1>6

(* Reading: what is read of the buffer is what was written.                *)
LEMMA ParseStep ==
  ASSUME BufferInv, PipeInv, BufInv, ParseInv, ParseMessage
  PROVE  UNCHANGED <<netVars, bufVars>> /\ ParseInv'
<1>1. UNCHANGED <<netVars, bufVars>> /\ pc # "lost"
  BY DEF ParseMessage, Pong, Quit, ParseAuth, CloseConnection, ParsePlayerDisconnect, ParseMap,
         ParsePrint, ParsePlayerList, ListEntry, ListEnds, ParseUserinfo, ParseCommand,
         ParseNothing, ParseEnds, AtCommand, Handled, Skip
<1>2. start' /\ TextsEnd' => start /\ TextsEnd
  BY <1>1 DEF TextsEnd, bufVars
<1>3. start /\ TextsEnd => Followed' \/ Finished' \/ pc' = "lost"
  BY <1>1, FinishedStep, WholeStep, LastStep DEF ParseInv
<1> QED
  BY <1>1, <1>2, <1>3 DEF ParseInv

(* The inductive invariant.                                                *)
StreamInv == BufferInv /\ PipeInv /\ BufInv /\ ParseInv

(* The empty connection.                                                   *)
LEMMA StreamInit == Init => StreamInv
<1> SUFFICES ASSUME Init PROVE StreamInv
  OBVIOUS
<1>1. \A S : <<>> \in Seq(S) /\ Len(<<>>) = 0
  OBVIOUS
<1>2. BufferInv
  BY StreamAssumption DEF Init, BufferInv
<1>3. PipeInv
  BY <1>1 DEF Init, PipeInv, Upto
<1>4. BufInv
  BY <1>1 DEF Init, BufInv, Upto
<1>5. ParseInv
  BY <1>1 DEF Init, ParseInv, Finished
<1> QED
  BY <1>2, <1>3, <1>4, <1>5 DEF StreamInv

(* recv()                                                                  *)
LEMMA ReceiveStep ==
  ASSUME StreamInv, NEW n \in 1..BufSize, Recv(n)
  PROVE  PipeInv' /\ BufInv' /\ ParseInv'
<1>1. PICK d \in 0..Len(pipe) : Takes(n, d) /\ Received(n, d)
  <2>1. /\ n <= Len(bytes)
        /\ data' = SubSeq(bytes, 1, n) /\ length' = n
        /\ bytes' = SubSeq(bytes, n + 1, Len(bytes))
        /\ start' = (pipe[1].at = 0)
    BY DEF Recv, Cleared
  <2>2. PICK d \in 0..Len(pipe) :
          /\ d # 0 => End(pipe[d]) <= n
          /\ d # Len(pipe) => n < End(pipe[d + 1])
          /\ whole' = SubSeq(pipe, IF start' THEN 1 ELSE 2, d)
          /\ pipe' = [k \in 1..(Len(pipe) - d) |-> [pipe[k + d] EXCEPT !.at = @ - n]]
          /\ end' = (d # 0 /\ End(pipe[d]) = n)
    BY Zenon DEF Recv
  <2>3. Takes(n, d)
    BY <2>1, <2>2 DEF Takes
  <2>4. Received(n, d)
    BY <2>1, <2>2, Zenon DEF Received, Later
  <2> QED
    BY <2>3, <2>4
<1>2. PipeInv'
  BY <1>1, ReceivedPipe DEF StreamInv
<1>3. BufInv'
  BY <1>1, ReceivedBuffer DEF StreamInv
<1>4. Followed'
  <2>1. pc' = "parse" /\ index' = 0 /\ got' = <<>> /\ Len(<<>>) = 0
    BY DEF Recv
  <2>2. length' = Len(data')
    <3>1. Len(data') = n
      BY <1>1, ReceivedBytes DEF Received, StreamInv
    <3> QED
      BY <1>1, <3>1 DEF Received
  <2>3. <<>> \in Seq({Meant(m) : m \in Outgoing}) /\ 0 <= Len(whole')
    BY <1>3 DEF BufInv
  <2> QED
    BY <2>1, <2>2, <2>3 DEF Followed
<1> QED
  BY <1>2, <1>3, <1>4 DEF ParseInv

(* Every step keeps the invariant.                                         *)
LEMMA StreamStep ==
  StreamInv /\ BufferInv' /\ [Next]_vars => StreamInv'
<1> SUFFICES ASSUME StreamInv, BufferInv', [Next]_vars
             PROVE  PipeInv' /\ BufInv' /\ ParseInv'
  BY DEF StreamInv
<1>1. BufferInv /\ PipeInv /\ BufInv /\ ParseInv
  BY DEF StreamInv
<1>2. ASSUME NEW m \in Outgoing, ClientWrites(m) PROVE PipeInv' /\ BufInv' /\ ParseInv'
  <2>1. /\ PipeInv'
        /\ \A k \in 1..Len(pipe) : k \in 1..Len(pipe') /\ pipe'[k] = pipe[k]
    BY <1>1, <1>2, WritesPipe
  <2>2. UNCHANGED <<bufVars, index, pc, got, last>>
    BY <1>2 DEF ClientWrites
  <2>3. Len(pipe) # 0 => Len(pipe') # 0 /\ pipe'[1] = pipe[1]
    <3>1. Len(pipe) \in Nat
      BY <1>1 DEF PipeInv
    <3>2. Len(pipe) # 0 => 1 \in 1..Len(pipe)
      BY <3>1
    <3>3. 1 \in 1..Len(pipe') => Len(pipe') # 0
      BY <2>1 DEF PipeInv
    <3> QED
      BY <2>1, <3>2, <3>3
  <2>4. BufInv'
    BY <1>1, <2>2, <2>3 DEF BufInv, bufVars, Upto, End, Placed
  <2>5. ParseInv'
    BY <1>1, <2>2 DEF ParseInv, bufVars, Followed, Finished, TextsEnd, End
  <2> QED
    BY <2>1, <2>4, <2>5
<1>3. ASSUME NEW n \in 1..BufSize, Recv(n) PROVE PipeInv' /\ BufInv' /\ ParseInv'
  BY <1>3, ReceiveStep
<1>4. CASE RecvFails
  <2>1. /\ data' = <<>> /\ whole' = <<>> /\ start' = TRUE /\ end' = TRUE
        /\ got' = <<>> /\ pc' = "parse" /\ UNCHANGED netVars
        /\ Len(<<>>) = 0 /\ <<>> \in Seq(Entries)
    BY <1>4 DEF RecvFails, Cleared
  <2>2. PipeInv'
    <3>1. bytes' = bytes /\ pipe' = pipe
      BY <2>1 DEF netVars
    <3> QED
      BY <1>1, <3>1 DEF PipeInv, Upto, Placed, End
  <2>3. BufInv'
    BY <2>1 DEF BufInv, Upto
  <2>4. Finished'
    BY <2>1 DEF Finished
  <2> QED
    BY <2>2, <2>3, <2>4 DEF ParseInv
<1>5. ASSUME UNCHANGED <<netVars, bufVars>> PROVE PipeInv' /\ BufInv'
  <2>1. PipeInv'
    BY <1>1, <1>5 DEF PipeInv, netVars, Upto, Placed, End
  <2>2. BufInv'
    BY <1>1, <1>5 DEF BufInv, netVars, bufVars, Upto, Placed, End
  <2> QED
    BY <2>1, <2>2
<1>6. CASE ParseMessage
  BY <1>1, <1>5, <1>6, ParseStep
<1>7. CASE UNCHANGED vars
  <2>1. ParseInv'
    BY <1>1, <1>7 DEF vars, ParseInv, bufVars, Followed, Finished, TextsEnd, End
  <2> QED
    BY <1>5, <1>7, <2>1 DEF vars
<1> QED
  BY <1>2, <1>3, <1>4, <1>6, <1>7 DEF Next

(* Whatever was received before it, and wherever its end is cut: a buffer  *)
(* that begins between two messages is understood.  The handlers are       *)
(* called with the messages as they were written, in their order, and a    *)
(* message that is cut at the end makes no more than one call.             *)
THEOREM MessagesAreUnderstood == Spec => []Understood
<1>1. Init => StreamInv /\ ReadInv
  BY StreamInit, ReadInit
<1>2. StreamInv /\ ReadInv /\ [Next]_vars => (StreamInv /\ ReadInv)'
  BY ReadStep, StreamStep DEF StreamInv
<1>3. StreamInv => Understood
  BY DEF StreamInv, ParseInv, Followed, Finished, Understood
<1> QED
  BY <1>1, <1>2, <1>3, PTL DEF Spec
===============================================================================
