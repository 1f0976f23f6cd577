-------------------------------- MODULE Players --------------------------------
(***************************************************************************)
(* What the q2admin server believes about the players on each game server: *)
(* the table players[256] with playercount, kept up to date by messages of *)
(* the game server, and the text BuildTeleportServers makes of it for a    *)
(* player who asks where to go.                                            *)
(*                                                                         *)
(* A game server reports what happens on it while its session is up; the   *)
(* messages are parsed in the order sent, one per step, whole or cut by    *)
(* recv().  ByteSize is 256, the values of a uint8_t, and VaBuffers is 8;  *)
(* instances take smaller numbers, with the same arithmetic.               *)
(***************************************************************************)
EXTENDS Naturals, Sequences, FiniteSets, PollTable

CONSTANTS
  NumServers,   (* entries of the list                                      *)
  ByteSize,     (* values of a uint8_t: slots of players[], range of counts *)
  VaBuffers,    (* buffers va() takes in turn                               *)
  MaxClients,   (* values of hello_t.max_clients                            *)
  Names,        (* names in a userinfo                                      *)
  NoName,       (* the empty name                                           *)
  Junk,         (* text that is cut short or read from the wrong place      *)
  Width,        (* the characters of a name where it is shown, and a comma  *)
  Heading,      (* the characters of a server's line before the names       *)
  LineRoom,     (* the characters line[100] has room for                    *)
  TextRoom,     (* the characters a buffer of va() has room for             *)
  MaxWire       (* bound: messages of a game server not parsed yet          *)

Servers == 1..NumServers
NULL == 0
Ids == 0..(ByteSize - 1)

ASSUME PlayersAssumption ==
  /\ NumServers \in Nat \ {0} /\ ByteSize \in Nat \ {0, 1}
  /\ VaBuffers \in Nat \ {0, 1} /\ MaxWire \in Nat
  /\ MaxClients \subseteq 1..ByteSize
  /\ NoName \notin Names /\ Junk \notin Names \cup {NoName}

(* What can stand where a name is shown, and the lines of the text for a   *)
(* player: none of the former looks like one of the latter.                *)
Shown == Names \cup {NoName, Junk}
Lines == [server : Servers, count : Nat, names : Seq(Shown)]
ASSUME LinesAssumption == \A name \in Shown : name \notin Lines

(* Sizes.  A heading has the same length for every map and count.          *)
ASSUME SizesAssumption ==
  /\ Width \in [Shown -> Nat] /\ Heading \in [Servers -> Nat]
  /\ LineRoom \in Nat /\ TextRoom \in Nat

VARIABLES
  \* the game servers
  present,      (* the name of the player behind each id, or NoName         *)
  up,           (* the session is up and trusted                            *)
  wire,         (* messages sent and not parsed yet                         *)
  told,         (* a complete list was sent in this session, and neither it
                   nor a message since was cut, or swallowed by the reading
                   of another                                               *)
  \* q2_server_t
  players, playercount, maxclients, trusted,
  \* the process
  hung          (* the entry whose list is read for ever                    *)

gameVars  == <<present, up, told>>
entryVars == <<players, playercount>>
vars == <<gameVars, wire, entryVars, maxclients, trusted, hung>>

Player(id, name) == [client_id |-> id, name |-> name]
NoPlayer == Player(0, NoName)
Message(cmd, id, name) == [cmd |-> cmd, id |-> id, name |-> name]
ListMessage(entries) == [cmd |-> "PLAYERLIST", entries |-> entries]

Init ==
  /\ present = [s \in Servers |-> [id \in Ids |-> NoName]]
  /\ up = [s \in Servers |-> FALSE] /\ told = [s \in Servers |-> FALSE]
  /\ wire = [s \in Servers |-> <<>>]
  /\ players = [s \in Servers |-> [id \in Ids |-> NoPlayer]]
  /\ playercount = [s \in Servers |-> 0]
  /\ maxclients \in [Servers -> MaxClients]
  /\ trusted = [s \in Servers |-> FALSE]
  /\ hung = NULL
-----------------------------------------------------------------------------
(* The game servers.                                                       *)

On(s) == {id \in Ids : present[s][id] # NoName}

(* The ids in use start at 0 and leave no gap, and their number is less    *)
(* than a byte can count.                                                  *)
Contiguous(s) == On(s) = 0..(Cardinality(On(s)) - 1) /\ Cardinality(On(s)) < ByteSize

Report(s, m) ==
  IF up[s] THEN Len(wire[s]) < MaxWire /\ wire' = [wire EXCEPT ![s] = Append(@, m)]
  ELSE UNCHANGED wire

PlayerEnters(s, id, name) ==
  /\ id < maxclients[s] /\ present[s][id] = NoName
  /\ present' = [present EXCEPT ![s][id] = name]
  /\ Report(s, Message("CONNECT", id, name))
  /\ UNCHANGED <<up, told, entryVars, maxclients, trusted, hung>>

PlayerRenames(s, id, name) ==
  /\ present[s][id] \notin {NoName, name}
  /\ present' = [present EXCEPT ![s][id] = name]
  /\ Report(s, Message("PLAYERUPDATE", id, name))
  /\ UNCHANGED <<up, told, entryVars, maxclients, trusted, hung>>

PlayerLeaves(s, id) ==
  /\ present[s][id] # NoName
  /\ present' = [present EXCEPT ![s][id] = NoName]
  /\ Report(s, Message("DISCONNECT", id, NoName))
  /\ UNCHANGED <<up, told, entryVars, maxclients, trusted, hung>>

(* The players by ascending id, which is the order a rank gives numbers.   *)
Entries(s) ==
  LET id(k) == Occupant(On(s), k)
  IN [k \in 1..Cardinality(On(s)) |-> Player(id(k), present[s][id(k)])]

SendsList(s) ==
  /\ up[s] /\ Len(wire[s]) < MaxWire
  /\ wire' = [wire EXCEPT ![s] = Append(@, ListMessage(Entries(s)))]
  /\ told' = [told EXCEPT ![s] = Contiguous(s)]
  /\ UNCHANGED <<present, up, entryVars, maxclients, trusted, hung>>

(* new_server() and ParseAuth(): neither clears the players of the entry.  *)
SessionStarts(s) ==
  /\ ~up[s] /\ wire[s] = <<>> /\ hung = NULL
  /\ up' = [up EXCEPT ![s] = TRUE]
  /\ told' = [told EXCEPT ![s] = FALSE]
  /\ trusted' = [trusted EXCEPT ![s] = TRUE]
  /\ UNCHANGED <<present, wire, entryVars, maxclients, hung>>

(* What was sent before the connection ended may or may not be parsed.     *)
SessionEnds(s) ==
  /\ up[s]
  /\ up' = [up EXCEPT ![s] = FALSE]
  /\ wire' \in {wire, [wire EXCEPT ![s] = <<>>]}
  /\ UNCHANGED <<present, told, entryVars, maxclients, trusted, hung>>
-----------------------------------------------------------------------------
(* The handlers.                                                           *)

AtMessage(s, cmd) == hung = NULL /\ wire[s] # <<>> /\ Head(wire[s]).cmd = cmd
Parsed(s) ==
  /\ wire' = [wire EXCEPT ![s] = Tail(@)]
  /\ UNCHANGED <<gameVars, maxclients, trusted, hung>>

StorePlayer(s, id, name) == players' = [players EXCEPT ![s][id] = Player(id, name)]

(* Mutant of CountPlayers: the count has more bits than the code gives it.  *)
CountPlayersWide(s, n) == playercount' = [playercount EXCEPT ![s] = n]

CountPlayers(s, n) == playercount' = [playercount EXCEPT ![s] = n % ByteSize]

ParsePlayerConnect(s) ==
  /\ AtMessage(s, "CONNECT")
  /\ StorePlayer(s, Head(wire[s]).id, Head(wire[s]).name)
  /\ CountPlayers(s, playercount[s] + 1)
  /\ Parsed(s)

(* Mutant of ParsePlayerUpdate: the slot is the one after the last player.  *)
ParsePlayerUpdateAppends(s) ==
  /\ AtMessage(s, "PLAYERUPDATE")
  /\ StorePlayer(s, playercount[s], Head(wire[s]).name)
  /\ UNCHANGED playercount
  /\ Parsed(s)

ParsePlayerUpdate(s) ==
  /\ AtMessage(s, "PLAYERUPDATE")
  /\ StorePlayer(s, Head(wire[s]).id, Head(wire[s]).name)
  /\ UNCHANGED playercount
  /\ Parsed(s)

ParsePlayerDisconnect(s) ==
  /\ AtMessage(s, "DISCONNECT")
  /\ players' = [players EXCEPT ![s][Head(wire[s]).id] = NoPlayer]
  /\ CountPlayers(s, playercount[s] + ByteSize - 1)
  /\ Parsed(s)

(* The loop of ParsePlayerList over the entries e of its message, of which *)
(* there are more, n, if it was cut: entry k is stored in the slot the     *)
(* counter has then, and the client id is read into the counter.           *)
Count(n) == n % ByteSize
Slot(e, k) == IF k = 1 THEN 0 ELSE (e[k - 1].client_id + 1) % ByteSize
InLoop(n, e, k) == Slot(e, k) < Count(n)
Taken(n, e) == {k \in DOMAIN e : \A j \in 1..k : InLoop(n, e, j)}
Stored(n, e, table) ==
  [id \in Ids |->
     IF \E k \in Taken(n, e) : Slot(e, k) = id
     THEN e[CHOOSE k \in Taken(n, e) : Slot(e, k) = id] ELSE table[id]]

(* The counter is below the count when the entries are used up.            *)
ReadsOn(n, e) == Taken(n, e) = DOMAIN e /\ InLoop(n, e, Len(e) + 1)

(* Mutant of ParsePlayerList: the players on the list are added to those    *)
(* counted before.                                                         *)
ParsePlayerListAdds(s) ==
  /\ AtMessage(s, "PLAYERLIST")
  /\ LET e == Head(wire[s]).entries IN
       /\ Taken(Len(e), e) = DOMAIN e /\ ~ReadsOn(Len(e), e)
       /\ players' = [players EXCEPT ![s] = Stored(Len(e), e, @)]
       /\ CountPlayers(s, playercount[s] + Count(Len(e)))
  /\ Parsed(s)

ParsePlayerList(s) ==
  /\ AtMessage(s, "PLAYERLIST")
  /\ LET e == Head(wire[s]).entries IN
       /\ Taken(Len(e), e) = DOMAIN e /\ ~ReadsOn(Len(e), e)
       /\ players' = [players EXCEPT ![s] = Stored(Len(e), e, @)]
       /\ CountPlayers(s, Count(Len(e)))
  /\ Parsed(s)

(* The table after bytes were read as a message that was not sent as one:  *)
(* any slots were written with such bytes (one that was cleared counts as  *)
(* one of them: neither is what the game server said).                     *)
Overwritten(table) ==
  {[id \in Ids |-> IF id \in slots THEN Player(0, Junk) ELSE table[id]] : slots \in SUBSET Ids}

(* The n first messages are used up: the list, and what the reading of it  *)
(* has swallowed.                                                          *)
Swallows(s, n) ==
  /\ wire' = [wire EXCEPT ![s] = SubSeq(@, n + 1, Len(@))]
  /\ told' = [told EXCEPT ![s] = @ /\ n = 1]
  /\ UNCHANGED <<present, up, maxclients, trusted>>

(* The entries not taken are read as commands: each id byte that is the    *)
(* number of a command makes one of the userinfo that follows it.  Among   *)
(* them they may change the count and the table, and one of fixed length   *)
(* goes on into the next messages.  (A list among them has the backslash   *)
(* of a userinfo for its count and ends at the small letter behind it.)    *)
ParsePlayerListShort(s) ==
  /\ AtMessage(s, "PLAYERLIST")
  /\ LET e == Head(wire[s]).entries IN
       /\ Taken(Len(e), e) # DOMAIN e
       /\ \E table \in Overwritten(Stored(Len(e), e, players[s])) :
            players' = [players EXCEPT ![s] = table]
       /\ \E n \in Ids : CountPlayers(s, n)
  /\ \E n \in 1..Len(wire[s]) : Swallows(s, n)
  /\ UNCHANGED hung

(* The last id has sent the counter round to 0: the loop goes on in the    *)
(* zeros after the message, or in the messages behind it.  A zero is id 0  *)
(* and sends the counter to 1, which is the end only of a list of one.     *)
ParsePlayerListOn(s) ==
  /\ AtMessage(s, "PLAYERLIST")
  /\ LET e == Head(wire[s]).entries IN
       /\ ReadsOn(Len(e), e)
       /\ \E n \in 1..Len(wire[s]), table \in Overwritten(Stored(Len(e), e, players[s])),
            c \in Ids, entry \in {s, NULL} :
            /\ n = 1 => c = Count(Len(e)) /\ (entry = s <=> Count(Len(e)) > 1)
            /\ Swallows(s, n)
            /\ players' = [players EXCEPT ![s] = table]
            /\ CountPlayers(s, c)
            /\ hung' = entry

(* recv() has cut the first message.  Its handler reads zeros for what is  *)
(* missing; what comes with the next recv() is read as commands, which may *)
(* change the count and the table, go on into the messages behind, and may *)
(* be a list without end.                                                  *)
RestAsCommands(s, table) ==
  /\ players' = [players EXCEPT ![s] = table]
  /\ \E c \in Ids : CountPlayers(s, c)
  /\ \E n \in 1..Len(wire[s]) : wire' = [wire EXCEPT ![s] = SubSeq(@, n + 1, Len(@))]
  /\ told' = [told EXCEPT ![s] = FALSE]
  /\ UNCHANGED <<present, up, maxclients, trusted>>

ParseCut(s) ==
  /\ hung = NULL /\ wire[s] # <<>> /\ Head(wire[s]).cmd # "PLAYERLIST"
  /\ \E table \in Overwritten(players[s]) : RestAsCommands(s, table)
  /\ hung' \in {s, NULL}

(* Of a list, the k first entries are there.  If the loop needs more it    *)
(* goes on in the zeros, where a count above 1 is never reached; one entry *)
(* may have its id still, which can be the last the loop looks for.        *)
ParsePlayerListCut(s) ==
  /\ AtMessage(s, "PLAYERLIST")
  /\ LET e == Head(wire[s]).entries IN
       \E k \in 0..(Len(e) - 1) : \E part \in {<<>>, <<Player(e[k + 1].client_id, Junk)>>} :
         LET there == SubSeq(e, 1, k) \o part IN
         /\ \E table \in Overwritten(Stored(Len(e), there, players[s])) : RestAsCommands(s, table)
         /\ hung' \in IF ReadsOn(Len(e), there) /\ Count(Len(e)) > 1 THEN {s} ELSE {s, NULL}
-----------------------------------------------------------------------------
(* BuildTeleportServers: the text so far is in one of the buffers of va(), *)
(* and so is, for a moment, the name of every player.  A text is a         *)
(* sequence of lines, or the name that took its place.                     *)

Literal == VaBuffers
Line(s) == [server |-> s, count |-> playercount[s],
            names |-> [k \in 1..playercount[s] |-> players[s][k - 1].name]]

(* Mutant of ResultBuffer: the names take no buffers.                       *)
ResultBufferNext(next, s) == next

(* The buffer of va() for the line, after one call for each name.          *)
ResultBuffer(next, s) == (next + playercount[s]) % VaBuffers

(* The buffers after va() was called for each name of s.                   *)
NamesInRing(ring, next, s) ==
  [b \in 0..(VaBuffers - 1) |->
     LET calls == {k \in 0..(playercount[s] - 1) : (next + k) % VaBuffers = b}
     IN IF calls = {} THEN ring[b]
        ELSE <<players[s][CHOOSE k \in calls : \A j \in calls : j <= k].name>>]

(* Sums of sizes, of a line with its names and of a text.  A line that was *)
(* cut short fills its room.                                               *)
Total(size, n) ==
  LET sum[k \in 0..n] == IF k = 0 THEN 0 ELSE sum[k - 1] + size[k] IN sum[n]
LineSize(line) ==
  IF line \in Shown THEN LineRoom
  ELSE Heading[line.server]
         + Total([k \in DOMAIN line.names |-> Width[line.names[k]]], Len(line.names))
TextSize(text) == Total([k \in DOMAIN text |-> LineSize(text[k])], Len(text))

(* The line of s in line[100].  snprintf cuts one that is longer; if there *)
(* is no name the two characters that are taken off are not those of the   *)
(* names, and names of more than players[300] holds overrun it, as they    *)
(* have overrun the line: all of this is Junk.                             *)
LineShown(s) ==
  IF playercount[s] # 0 /\ LineSize(Line(s)) <= LineRoom THEN Line(s) ELSE Junk

(* A line is appended to the text at str, unless it is cut for want of     *)
(* room.  If the buffer that va() takes for the result is the one the text *)
(* is in, vsnprintf copies between overlapping objects, which is undefined *)
(* (Junk).                                                                 *)
AddLine(text, s) ==
  LET ring == NamesInRing(text.ring, text.next, s)
      slot == ResultBuffer(text.next, s)
      old  == IF text.str = Literal THEN <<>>
              ELSE IF text.str = slot THEN <<Junk>> ELSE ring[text.str]
      line == IF TextSize(Append(old, LineShown(s))) <= TextRoom THEN LineShown(s) ELSE Junk
  IN [ring |-> [ring EXCEPT ![slot] = Append(old, line)],
      next |-> (slot + 1) % VaBuffers, str |-> slot]

(* The trusted entries, in the order of the list.                          *)
Listed ==
  LET entries == {s \in Servers : trusted[s]}
  IN [k \in 1..Cardinality(entries) |-> Occupant(entries, k)]

(* The counter of va() keeps its value between calls: next is any buffer.  *)
NoText(next) == [ring |-> [b \in 0..(VaBuffers - 1) |-> <<>>], next |-> next, str |-> Literal]

BuildTeleportServers(next) ==
  LET text[k \in 0..Len(Listed)] ==
        IF k = 0 THEN NoText(next) ELSE AddLine(text[k - 1], Listed[k])
      last == text[Len(Listed)]
  IN IF last.str = Literal THEN <<>> ELSE last.ring[last.str]
-----------------------------------------------------------------------------
Game(s) ==
  \/ \E id \in Ids, name \in Names : PlayerEnters(s, id, name) \/ PlayerRenames(s, id, name)
  \/ \E id \in Ids : PlayerLeaves(s, id)
  \/ SendsList(s) \/ SessionStarts(s) \/ SessionEnds(s)

ParseWhole(s) ==
  \/ ParsePlayerConnect(s) \/ ParsePlayerUpdate(s) \/ ParsePlayerDisconnect(s)
  \/ ParsePlayerList(s) \/ ParsePlayerListShort(s) \/ ParsePlayerListOn(s)

ParseInParts(s) == ParseCut(s) \/ ParsePlayerListCut(s)

Next == \E s \in Servers : Game(s) \/ ParseWhole(s) \/ ParseInParts(s)

Spec == Init /\ [][Next]_vars
-----------------------------------------------------------------------------
(* Properties.                                                             *)

Entry == [client_id : Ids, name : Shown]
Messages ==
  [cmd : {"CONNECT", "PLAYERUPDATE", "DISCONNECT"}, id : Ids, name : Names \cup {NoName}]
    \cup [cmd : {"PLAYERLIST"}, entries : Seq(Entry)]

(* Types; the count stays within its byte.                                 *)
TypeOK ==
  /\ present \in [Servers -> [Ids -> Names \cup {NoName}]]
  /\ up \in [Servers -> BOOLEAN] /\ told \in [Servers -> BOOLEAN]
  /\ wire \in [Servers -> Seq(Messages)]
  /\ players \in [Servers -> [Ids -> Entry]]
  /\ playercount \in [Servers -> Ids]
  /\ maxclients \in [Servers -> MaxClients] /\ trusted \in [Servers -> BOOLEAN]
  /\ hung \in Servers \cup {NULL}

(* The session is up, a list whose ids have no gap was sent in it, nothing *)
(* was cut since, and everything sent was parsed.                          *)
InSync(s) == up[s] /\ told[s] /\ wire[s] = <<>>

(* However connects, disconnects and lists follow one another, and         *)
(* whatever an earlier session or a message that was cut left in the       *)
(* entry, playercount is the number of players on the game server (a full  *)
(* 256 shows as 0) from the next complete list on.                         *)
CountExact ==
  \A s \in Servers : InSync(s) => playercount[s] = Cardinality(On(s)) % ByteSize

(* Every player is in the slot of his own id under his present name:       *)
(* neither a list, which stores by position, nor what an earlier session   *)
(* or a message cut before the list left behind hides a later connect,     *)
(* rename or disconnect.                                                   *)
InSlot ==
  \A s \in Servers : InSync(s) =>
    \A id \in On(s) : players[s][id] = Player(id, present[s][id])

(* The list of servers as the game servers themselves would write it.      *)
TrueLine(s) == [server |-> s, count |-> Cardinality(On(s)),
                names |-> [k \in 1..Cardinality(On(s)) |-> Entries(s)[k].name]]
TrueText == [k \in DOMAIN Listed |-> TrueLine(Listed[k])]

(* Every line has room, and so has the text up to every line.              *)
Roomy ==
  \A k \in DOMAIN TrueText :
    LineSize(TrueText[k]) <= LineRoom /\ TextSize(SubSeq(TrueText, 1, k)) <= TextRoom

(* When every listed server is in step and has players behind its first    *)
(* ids, the text a player is shown names the servers and their players     *)
(* exactly if its lines have room in line[] and the whole in the buffer of *)
(* va(), and no server but the first has more players than va() has        *)
(* buffers, less the two that hold the text before and after; which of     *)
(* them is the next does not matter.                                       *)
TextExact ==
  (\A s \in Servers : trusted[s] => InSync(s) /\ Contiguous(s) /\ On(s) # {}) =>
    \A next \in 0..(VaBuffers - 1) :
      BuildTeleportServers(next) = TrueText <=>
        Roomy /\ \A k \in 2..Len(Listed) : Cardinality(On(Listed[k])) <= VaBuffers - 2
=============================================================================
