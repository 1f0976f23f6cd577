----------------------------- MODULE PlayersProofs -----------------------------
(***************************************************************************)
(* What Players promises about the table of players and its count, for     *)
(* every number of entries, every width of the count and any messages      *)
(* under way.                                                              *)
(***************************************************************************)
EXTENDS Players, PollTableProofs, SequenceTheorems, TLAPS

(* A table of names is what a game server knows: who is behind each id.    *)
NameTables == [Ids -> Names \cup {NoName}]
Named(h) == {id \in Ids : h[id] # NoName}

(* The message m tells of the step from the players h to the players h2.   *)
Tells(h, m, h2) ==
  \/ /\ m.cmd = "CONNECT" /\ m.id \in Ids /\ m.name \in Names
     /\ h[m.id] = NoName /\ h2 = [h EXCEPT ![m.id] = m.name]
  \/ /\ m.cmd = "PLAYERUPDATE" /\ m.id \in Ids /\ m.name \in Names
     /\ h[m.id] # NoName /\ h2 = [h EXCEPT ![m.id] = m.name]
  \/ /\ m.cmd = "DISCONNECT" /\ m.id \in Ids
     /\ h[m.id] # NoName /\ h2 = [h EXCEPT ![m.id] = NoName]

(* The messages of w behind the one at k0 tell of the steps from the       *)
(* players h[k0] to those of now.                                          *)
Told(w, k0, h, now) ==
  /\ k0 \in 0..Len(w) /\ h \in [k0..Len(w) -> NameTables]
  /\ h[Len(w)] = now
  /\ \A k \in (k0 + 1)..Len(w) : Tells(h[k - 1], w[k], h[k])

(* The entry holds the players h.                                          *)
Holds(h, table, count) ==
  /\ count = Cardinality(Named(h)) % ByteSize
  /\ \A id \in Named(h) : table[id] = Player(id, h[id])

(* A list of the players h, which have no gap.                             *)
ListOf(h) ==
  [k \in 1..Cardinality(Named(h)) |->
     Player(Occupant(Named(h), k), h[Occupant(Named(h), k)])]
NoGap(h) == Named(h) = 0..(Cardinality(Named(h)) - 1) /\ Cardinality(Named(h)) < ByteSize

(* What the messages on the wire start from: the table the entry holds, or *)
(* a complete list that is on its way.                                     *)
StartsFrom(w, k0, h0, table, count) ==
  \/ k0 = 0 /\ Holds(h0, table, count)
  \/ k0 > 0 /\ w[k0] = ListMessage(ListOf(h0)) /\ NoGap(h0)

(* The messages not parsed yet lead from what the entry holds, or from a   *)
(* list among them, to the players who are on the game server now.         *)
Synced(w, now, table, count) ==
  \E k0 \in 0..Len(w) : \E h \in [k0..Len(w) -> NameTables] :
    Told(w, k0, h, now) /\ StartsFrom(w, k0, h[k0], table, count)

SyncInv ==
  \A s \in Servers :
    up[s] /\ told[s] => Synced(wire[s], present[s], players[s], playercount[s])
-----------------------------------------------------------------------------
(* Lemmas on the operators of the module.                                  *)

(* A set of ids is finite and has no more members than there are ids.      *)
LEMMA IdSets ==
  ASSUME NEW C \in SUBSET Ids
  PROVE  /\ C \in SUBSET Nat /\ IsFiniteSet(C)
         /\ Cardinality(C) \in 0..ByteSize
<1>1. ByteSize \in Nat \ {0}
  BY PlayersAssumption
<1>2. IsFiniteSet(Ids) /\ Cardinality(Ids) = ByteSize
  BY <1>1, FS_Interval DEF Ids
<1>3. IsFiniteSet(C) /\ Cardinality(C) <= ByteSize
  BY <1>2, FS_Subset
<1>4. Cardinality(C) \in Nat
  BY <1>3, FS_CardinalityType
<1> QED
  BY <1>1, <1>3, <1>4 DEF Ids

(* The k-th id of a set is one of it, and no less than k - 1.              *)
LEMMA OccupantIsId ==
  ASSUME NEW C \in SUBSET Ids, NEW k \in 1..Cardinality(C)
  PROVE  Occupant(C, k) \in C /\ k <= Occupant(C, k) + 1
<1> DEFINE o == Occupant(C, k)
           below == {t \in C : t <= o}
<1>1. C \in SUBSET Nat /\ IsFiniteSet(C)
  BY IdSets
<1>2. o \in C /\ Rank(C, o) = k
  BY <1>1, OccupantOfSlot
<1>3. o \in Nat
  BY <1>1, <1>2
<1>4. Cardinality(below) = k
  BY <1>2 DEF Rank
<1> HIDE DEF o
<1>5. below \in SUBSET (0..o)
  <2>1. \A t \in Nat : t <= o => t \in 0..o
    BY <1>3
  <2> QED
    BY <1>1, <2>1
<1>6. IsFiniteSet(0..o) /\ Cardinality(0..o) = o + 1
  BY <1>3, FS_Interval
<1>7. Cardinality(below) <= o + 1
  BY <1>5, <1>6, FS_Subset
<1> QED
  BY <1>2, <1>4, <1>7 DEF o

(* In a set without a gap the k-th id is k - 1.                            *)
LEMMA OccupantNoGap ==
  ASSUME NEW n \in 0..ByteSize, NEW k \in 1..n
  PROVE  Occupant(0..(n - 1), k) = k - 1
<1> DEFINE C == 0..(n - 1)
<1>1. ByteSize \in Nat /\ n \in Nat /\ k - 1 \in C /\ k - 1 \in Nat
  BY PlayersAssumption
<1>2. {t \in C : t <= k - 1} = 0..(k - 1)
  BY <1>1
<1>3. Cardinality(0..(k - 1)) = k
  BY <1>1, FS_Interval
<1>4. Rank(C, k - 1) = k
  BY <1>2, <1>3 DEF Rank
<1>5. C \in SUBSET Nat /\ IsFiniteSet(C)
  BY <1>1, FS_Interval
<1> HIDE DEF C
<1>6. Occupant(C, Rank(C, k - 1)) = k - 1
  BY <1>1, <1>5, OccupantOfRank
<1> QED
  BY <1>4, <1>6 DEF C

(* A list is a sequence of entries.                                        *)
LEMMA ListType ==
  ASSUME NEW h \in NameTables
  PROVE  /\ Named(h) \in SUBSET Ids /\ Cardinality(Named(h)) \in Nat
         /\ ListOf(h) \in Seq(Entry) /\ Len(ListOf(h)) = Cardinality(Named(h))
<1>1. Named(h) \in SUBSET Ids
  BY DEF Named
<1>2. Cardinality(Named(h)) \in Nat
  BY <1>1, IdSets, PlayersAssumption
<1>3. ASSUME NEW k \in 1..Cardinality(Named(h))
      PROVE  Player(Occupant(Named(h), k), h[Occupant(Named(h), k)]) \in Entry
  <2>1. Occupant(Named(h), k) \in Ids
    BY <1>1, OccupantIsId
  <2> QED
    BY <2>1 DEF Player, Entry, Shown, NameTables
<1>4. ListOf(h) \in [1..Cardinality(Named(h)) -> Entry]
  BY <1>3 DEF ListOf
<1> QED
  BY <1>1, <1>2, <1>4

(* The loop over a list whose ids leave no gap takes every entry, ends     *)
(* with the message, and puts everybody into the slot of his id.           *)
LEMMA CompleteList ==
  ASSUME NEW h \in NameTables, NoGap(h), NEW table
  PROVE  LET e == ListOf(h) IN
           /\ Taken(Len(e), e) = DOMAIN e /\ ~ReadsOn(Len(e), e)
           /\ Holds(h, Stored(Len(e), e, table), Count(Len(e)))
<1> DEFINE n == Cardinality(Named(h))
           e == ListOf(h)
<1>1. /\ Named(h) = 0..(n - 1) /\ n \in 0..(ByteSize - 1) /\ ByteSize \in Nat \ {0, 1}
      /\ e \in Seq(Entry) /\ Len(e) = n /\ DOMAIN e = 1..n
  BY ListType, PlayersAssumption DEF NoGap
<1>2. \A k \in 1..n : e[k] = Player(k - 1, h[k - 1])
  <2> SUFFICES ASSUME NEW k \in 1..n PROVE e[k] = Player(k - 1, h[k - 1])
    OBVIOUS
  <2>1. Occupant(0..(n - 1), k) = k - 1
    BY <1>1, OccupantNoGap
  <2>2. e[k] = Player(Occupant(Named(h), k), h[Occupant(Named(h), k)])
    BY DEF ListOf
  <2> QED
    BY <1>1, <2>1, <2>2
<1> HIDE DEF n, e
<1>3. \A a \in 0..(ByteSize - 1) : a % ByteSize = a
  BY <1>1
<1>4. Count(Len(e)) = n
  BY <1>1, <1>3 DEF Count
<1>5. \A k \in 1..(n + 1) : Slot(e, k) = k - 1
  <2> SUFFICES ASSUME NEW k \in 1..(n + 1) PROVE Slot(e, k) = k - 1
    OBVIOUS
  <2>1. CASE k = 1
    BY <2>1 DEF Slot
  <2>2. CASE k > 1
    <3>1. k - 1 \in 1..n /\ k - 1 \in 0..(ByteSize - 1)
      BY <1>1, <2>2
    <3>2. e[k - 1].client_id + 1 = k - 1
      BY <1>1, <1>2, <3>1 DEF Player
    <3>3. Slot(e, k) = (k - 1) % ByteSize
      BY <2>2, <3>2 DEF Slot
    <3> QED
      BY <1>3, <3>1, <3>3
  <2> QED
    BY <1>1, <2>1, <2>2
<1>6. \A k \in 1..(n + 1) : InLoop(Len(e), e, k) <=> k <= n
  BY <1>1, <1>4, <1>5 DEF InLoop
<1>7. Taken(Len(e), e) = DOMAIN e
  BY <1>1, <1>6 DEF Taken
<1>8. ~ReadsOn(Len(e), e)
  BY <1>1, <1>6 DEF ReadsOn
<1>9. \A id \in Named(h) : Stored(Len(e), e, table)[id] = Player(id, h[id])
  <2> SUFFICES ASSUME NEW id \in Named(h) PROVE Stored(Len(e), e, table)[id] = Player(id, h[id])
    OBVIOUS
  <2>1. id \in Ids /\ id \in 0..(n - 1) /\ id + 1 \in 1..n
    BY <1>1 DEF Named
  <2>2. id + 1 \in Taken(Len(e), e) /\ Slot(e, id + 1) = id
    BY <1>1, <1>5, <1>7, <2>1
  <2>3. \A k \in Taken(Len(e), e) : Slot(e, k) = id => k = id + 1
    BY <1>1, <1>5, <1>7
  <2>4. (CHOOSE k \in Taken(Len(e), e) : Slot(e, k) = id) = id + 1
    BY <2>2, <2>3
  <2>5. Stored(Len(e), e, table)[id] = e[id + 1]
    BY <2>1, <2>2, <2>4 DEF Stored
  <2> QED
    BY <1>1, <1>2, <2>1, <2>5
<1> QED
  BY <1>1, <1>3, <1>4, <1>7, <1>8, <1>9 DEF Holds, n, e
-----------------------------------------------------------------------------
(* Types.                                                                  *)

(* The lists of the model are those of the lemmas.                         *)
LEMMA EntriesAreListOf ==
  ASSUME TypeOK, NEW s \in Servers
  PROVE  /\ present[s] \in NameTables /\ On(s) = Named(present[s])
         /\ Entries(s) = ListOf(present[s])
         /\ Contiguous(s) <=> NoGap(present[s])
<1>1. present[s] \in NameTables
  BY DEF TypeOK, NameTables
<1>2. On(s) = Named(present[s])
  BY DEF On, Named
<1>3. Entries(s) = ListOf(present[s])
  BY <1>2 DEF Entries, ListOf
<1> QED
  BY <1>1, <1>2, <1>3 DEF Contiguous, NoGap

(* A loop over any list leaves a table of entries.                         *)
LEMMA StoredType ==
  ASSUME NEW n \in Nat, NEW e \in Seq(Entry), NEW table \in [Ids -> Entry]
  PROVE  /\ Stored(n, e, table) \in [Ids -> Entry]
         /\ Overwritten(Stored(n, e, table)) \subseteq [Ids -> Entry]
         /\ Overwritten(table) \subseteq [Ids -> Entry]
         /\ Count(n) \in Ids
<1>1. \A k \in Taken(n, e) : e[k] \in Entry
  BY DEF Taken
<1>2. Stored(n, e, table) \in [Ids -> Entry]
  <2> SUFFICES ASSUME NEW id \in Ids, \E k \in Taken(n, e) : Slot(e, k) = id
               PROVE  e[CHOOSE k \in Taken(n, e) : Slot(e, k) = id] \in Entry
    BY DEF Stored
  <2> QED
    BY <1>1
<1>3. Player(0, Junk) \in Entry
  BY PlayersAssumption DEF Player, Entry, Shown, Ids
<1> HIDE DEF Entry
<1>4. /\ Overwritten(Stored(n, e, table)) \subseteq [Ids -> Entry]
      /\ Overwritten(table) \subseteq [Ids -> Entry]
  BY <1>2, <1>3 DEF Overwritten
<1>5. Count(n) \in Ids
  BY PlayersAssumption DEF Count, Ids
<1> QED
  BY <1>2, <1>4, <1>5

(* What stands first on a wire is a message, and the rest are messages.    *)
LEMMA HeadIsMessage ==
  ASSUME TypeOK, NEW s \in Servers, NEW cmd, AtMessage(s, cmd)
  PROVE  /\ wire[s] \in Seq(Messages) /\ wire[s] # <<>> /\ Len(wire[s]) \in Nat \ {0}
         /\ Head(wire[s]) \in Messages /\ Head(wire[s]) = wire[s][1]
         /\ Tail(wire[s]) \in Seq(Messages)
         /\ Head(wire[s]).cmd = cmd
         /\ cmd = "PLAYERLIST" => Head(wire[s]).entries \in Seq(Entry)
         /\ cmd \in {"CONNECT", "PLAYERUPDATE", "DISCONNECT"} =>
              Head(wire[s]).id \in Ids /\ Head(wire[s]).name \in Names \cup {NoName}
<1> HIDE DEF Messages
<1>1. wire[s] \in Seq(Messages) /\ wire[s] # <<>> /\ Head(wire[s]).cmd = cmd
  BY DEF TypeOK, AtMessage
<1>2. Head(wire[s]) \in Messages /\ Head(wire[s]) = wire[s][1] /\ Tail(wire[s]) \in Seq(Messages)
      /\ Len(wire[s]) \in Nat \ {0}
  BY <1>1
<1>3. PICK m : m = Head(wire[s])
  OBVIOUS
<1>4. m \in Messages /\ m.cmd = cmd
  BY <1>1, <1>2, <1>3
<1>5. /\ cmd = "PLAYERLIST" => m.entries \in Seq(Entry)
      /\ cmd \in {"CONNECT", "PLAYERUPDATE", "DISCONNECT"} =>
              m.id \in Ids /\ m.name \in Names \cup {NoName}
  <2>1. \/ m \in [cmd : {"CONNECT", "PLAYERUPDATE", "DISCONNECT"}, id : Ids,
                 name : Names \cup {NoName}]
        \/ m \in [cmd : {"PLAYERLIST"}, entries : Seq(Entry)]
    BY <1>4 DEF Messages
  <2> QED
    BY <1>4, <2>1
<1> QED
  BY <1>1, <1>2, <1>3, <1>5

(* The types are right in the beginning.                                   *)
LEMMA TypeInit == Init => TypeOK
<1> SUFFICES ASSUME Init PROVE TypeOK
  OBVIOUS
<1>1. NoPlayer \in Entry /\ 0 \in Ids
  BY PlayersAssumption DEF NoPlayer, Player, Entry, Shown, Ids
<1> QED
  BY <1>1 DEF Init, TypeOK

(* Every step keeps them.                                                  *)
LEMMA TypeStep == TypeOK /\ [Next]_vars => TypeOK'
<1> SUFFICES ASSUME TypeOK, [Next]_vars PROVE TypeOK'
  OBVIOUS
<1> USE PlayersAssumption
<1> HIDE DEF Messages, Entry
<1>1. CASE UNCHANGED vars
  BY <1>1 DEF TypeOK, vars, gameVars, entryVars
<1>2. ASSUME NEW s \in Servers, Game(s) PROVE TypeOK'
  <2>1. ASSUME NEW m \in Messages, Report(s, m) PROVE wire' \in [Servers -> Seq(Messages)]
    <3>1. CASE up[s]
      <4>1. wire' = [wire EXCEPT ![s] = Append(wire[s], m)]
        BY <2>1, <3>1 DEF Report
      <4>2. Append(wire[s], m) \in Seq(Messages)
        BY <2>1 DEF TypeOK
      <4> QED
        BY <4>1, <4>2 DEF TypeOK
    <3>2. CASE ~up[s]
      BY <2>1, <3>2 DEF Report, TypeOK
    <3> QED
      BY <3>1, <3>2
  <2>2. \A id \in Ids, name \in Names \cup {NoName}, cmd \in {"CONNECT", "PLAYERUPDATE", "DISCONNECT"} :
           Message(cmd, id, name) \in Messages
    BY DEF Message, Messages
  <2>3. ASSUME NEW id \in Ids, NEW name \in Names, PlayerEnters(s, id, name) PROVE TypeOK'
    <3>1. wire' \in [Servers -> Seq(Messages)]
      BY <2>1, <2>2, <2>3 DEF PlayerEnters
    <3> QED
      BY <2>3, <3>1 DEF PlayerEnters, entryVars, TypeOK
  <2>4. ASSUME NEW id \in Ids, NEW name \in Names, PlayerRenames(s, id, name) PROVE TypeOK'
    <3>1. wire' \in [Servers -> Seq(Messages)]
      BY <2>1, <2>2, <2>4 DEF PlayerRenames
    <3> QED
      BY <2>4, <3>1 DEF PlayerRenames, entryVars, TypeOK
  <2>5. ASSUME NEW id \in Ids, PlayerLeaves(s, id) PROVE TypeOK'
    <3>1. wire' \in [Servers -> Seq(Messages)]
      BY <2>1, <2>2, <2>5 DEF PlayerLeaves
    <3> QED
      BY <2>5, <3>1 DEF PlayerLeaves, entryVars, TypeOK
  <2>6. CASE SendsList(s)
    <3>1. ListMessage(Entries(s)) \in Messages
      BY EntriesAreListOf, ListType DEF ListMessage, Messages
    <3>2. Append(wire[s], ListMessage(Entries(s))) \in Seq(Messages)
      BY <3>1 DEF TypeOK
    <3>3. PICK w \in Seq(Messages) : w = Append(wire[s], ListMessage(Entries(s)))
      BY <3>2
    <3>4. wire' = [wire EXCEPT ![s] = w]
      BY <2>6, <3>3 DEF SendsList
    <3>5. wire' \in [Servers -> Seq(Messages)]
      BY <3>4 DEF TypeOK
    <3>6. told' \in [Servers -> BOOLEAN]
      BY <2>6 DEF SendsList, TypeOK, Contiguous
    <3> QED
      BY <2>6, <3>5, <3>6 DEF SendsList, entryVars, TypeOK
  <2>7. CASE SessionStarts(s)
    BY <2>7 DEF SessionStarts, entryVars, TypeOK
  <2>8. CASE SessionEnds(s)
    <3> <<>> \in Seq(Messages)
      OBVIOUS
    <3>1. PICK w \in Seq(Messages) : w = <<>>
      OBVIOUS
    <3>2. wire' = wire \/ wire' = [wire EXCEPT ![s] = w]
      BY <2>8, <3>1 DEF SessionEnds
    <3>3. wire' \in [Servers -> Seq(Messages)]
      BY <3>2 DEF TypeOK
    <3> QED
      BY <2>8, <3>3 DEF SessionEnds, entryVars, TypeOK
  <2> QED
    BY <1>2, <2>3, <2>4, <2>5, <2>6, <2>7, <2>8 DEF Game
<1>3. ASSUME NEW s \in Servers, ParseWhole(s) PROVE TypeOK'
  <2>1. ASSUME NEW cmd, AtMessage(s, cmd), Parsed(s), players' \in [Servers -> [Ids -> Entry]],
               playercount' \in [Servers -> Ids]
        PROVE  TypeOK'
    BY <2>1, HeadIsMessage DEF Parsed, gameVars, TypeOK
  <2>2. \A n \in Nat : CountPlayers(s, n) => playercount' \in [Servers -> Ids]
    <3>1. \A n \in Nat : n % ByteSize \in Ids
      BY DEF Ids
    <3> QED
      BY <3>1 DEF CountPlayers, TypeOK
  <2>3. playercount[s] \in Ids /\ playercount[s] + 1 \in Nat /\ playercount[s] + ByteSize - 1 \in Nat
    BY DEF TypeOK, Ids
  <2>4. \A id \in Ids, name \in Names \cup {NoName} :
          StorePlayer(s, id, name) => players' \in [Servers -> [Ids -> Entry]]
    <3>1. \A id \in Ids, name \in Names \cup {NoName} : Player(id, name) \in Entry
      BY DEF Player, Entry, Shown
    <3> QED
      BY <3>1 DEF StorePlayer, TypeOK
  <2>5. CASE ParsePlayerConnect(s)
    BY <2>5, <2>1, <2>2, <2>3, <2>4, HeadIsMessage DEF ParsePlayerConnect
  <2>6. CASE ParsePlayerUpdate(s)
    BY <2>6, <2>1, <2>4, HeadIsMessage DEF ParsePlayerUpdate, TypeOK
  <2>7. CASE ParsePlayerDisconnect(s)
    <3>1. NoPlayer \in Entry
      BY DEF NoPlayer, Player, Entry, Shown, Ids
    <3>2. players' \in [Servers -> [Ids -> Entry]]
      BY <2>7, <3>1 DEF ParsePlayerDisconnect, TypeOK
    <3> QED
      BY <2>7, <2>1, <2>2, <2>3, <3>2 DEF ParsePlayerDisconnect
  <2> DEFINE e == Head(wire[s]).entries
  <2>8. ASSUME AtMessage(s, "PLAYERLIST")
        PROVE  /\ Stored(Len(e), e, players[s]) \in [Ids -> Entry]
               /\ Overwritten(Stored(Len(e), e, players[s])) \subseteq [Ids -> Entry]
               /\ Count(Len(e)) \in Ids
    <3>1. e \in Seq(Entry) /\ Len(e) \in Nat /\ players[s] \in [Ids -> Entry]
      BY <2>8, HeadIsMessage DEF TypeOK
    <3> QED
      BY <3>1, StoredType
  <2>9. \A n \in 1..Len(wire[s]) :
          AtMessage(s, "PLAYERLIST") /\ Swallows(s, n) =>
            /\ wire' \in [Servers -> Seq(Messages)] /\ told' \in [Servers -> BOOLEAN]
            /\ UNCHANGED <<present, up, maxclients, trusted>>
    <3> SUFFICES ASSUME NEW n \in 1..Len(wire[s]), AtMessage(s, "PLAYERLIST"), Swallows(s, n)
                 PROVE  wire' \in [Servers -> Seq(Messages)] /\ told' \in [Servers -> BOOLEAN]
      BY DEF Swallows
    <3>1. wire[s] \in Seq(Messages) /\ Len(wire[s]) \in Nat
      BY HeadIsMessage
    <3>2. SubSeq(wire[s], n + 1, Len(wire[s])) \in Seq(Messages)
      BY <3>1
    <3> QED
      BY <3>2 DEF Swallows, TypeOK
  <2>10. CASE ParsePlayerList(s)
    <3>1. AtMessage(s, "PLAYERLIST")
      BY <2>10 DEF ParsePlayerList
    <3>2. players' \in [Servers -> [Ids -> Entry]]
      BY <2>10, <2>8, <3>1 DEF ParsePlayerList, TypeOK
    <3>3. CountPlayers(s, Count(Len(e))) /\ Count(Len(e)) \in Nat
      BY <2>10, <2>8, <3>1 DEF ParsePlayerList, Ids
    <3> QED
      BY <2>10, <2>1, <2>2, <3>1, <3>2, <3>3 DEF ParsePlayerList
  <2>11. CASE ParsePlayerListShort(s)
    <3>1. AtMessage(s, "PLAYERLIST")
      BY <2>11 DEF ParsePlayerListShort
    <3>2. players' \in [Servers -> [Ids -> Entry]]
      BY <2>11, <2>8, <3>1 DEF ParsePlayerListShort, TypeOK
    <3>3. playercount' \in [Servers -> Ids]
      BY <2>11, <2>2 DEF ParsePlayerListShort, Ids
    <3>4. PICK n \in 1..Len(wire[s]) : Swallows(s, n)
      BY <2>11 DEF ParsePlayerListShort
    <3> QED
      BY <2>11, <2>9, <3>1, <3>2, <3>3, <3>4 DEF ParsePlayerListShort, TypeOK
  <2>12. CASE ParsePlayerListOn(s)
    <3>1. AtMessage(s, "PLAYERLIST")
      BY <2>12 DEF ParsePlayerListOn
    <3>2. PICK n \in 1..Len(wire[s]), table \in Overwritten(Stored(Len(e), e, players[s])),
               c \in Ids, entry \in {s, NULL} :
            /\ Swallows(s, n)
            /\ players' = [players EXCEPT ![s] = table]
            /\ CountPlayers(s, c)
            /\ hung' = entry
      BY <2>12 DEF ParsePlayerListOn
    <3>3. players' \in [Servers -> [Ids -> Entry]]
      BY <2>8, <3>1, <3>2 DEF TypeOK
    <3>4. playercount' \in [Servers -> Ids]
      BY <2>2, <3>2 DEF Ids
    <3> QED
      BY <2>9, <3>1, <3>2, <3>3, <3>4 DEF TypeOK
  <2> QED
    BY <1>3, <2>5, <2>6, <2>7, <2>10, <2>11, <2>12 DEF ParseWhole
<1>4. ASSUME NEW s \in Servers, ParseInParts(s) PROVE TypeOK'
  <2>1. ASSUME NEW table \in [Ids -> Entry], RestAsCommands(s, table), wire[s] # <<>>,
               hung' \in {s, NULL}
        PROVE  TypeOK'
    <3>1. players' \in [Servers -> [Ids -> Entry]]
      BY <2>1 DEF RestAsCommands, TypeOK
    <3>2. playercount' \in [Servers -> Ids]
      <4>1. PICK c \in Ids : CountPlayers(s, c)
        BY <2>1 DEF RestAsCommands
      <4>2. c % ByteSize \in Ids
        BY DEF Ids
      <4> QED
        BY <4>1, <4>2 DEF CountPlayers, TypeOK
    <3>3. wire' \in [Servers -> Seq(Messages)]
      <4>1. PICK n \in 1..Len(wire[s]) : wire' = [wire EXCEPT ![s] = SubSeq(wire[s], n + 1, Len(wire[s]))]
        BY <2>1 DEF RestAsCommands
      <4>2. wire[s] \in Seq(Messages) /\ Len(wire[s]) \in Nat
        BY DEF TypeOK
      <4>3. SubSeq(wire[s], n + 1, Len(wire[s])) \in Seq(Messages)
        BY <4>2
      <4> QED
        BY <4>1, <4>3 DEF TypeOK
    <3>4. told' \in [Servers -> BOOLEAN]
      BY <2>1 DEF RestAsCommands, TypeOK
    <3>5. UNCHANGED <<present, up, maxclients, trusted>>
      BY <2>1 DEF RestAsCommands
    <3> QED
      BY <2>1, <3>1, <3>2, <3>3, <3>4, <3>5 DEF TypeOK
  <2>2. players[s] \in [Ids -> Entry]
    BY DEF TypeOK
  <2>3. CASE ParseCut(s)
    <3>1. PICK table \in Overwritten(players[s]) : RestAsCommands(s, table)
      BY <2>3 DEF ParseCut
    <3>2. <<>> \in Seq(Entry) /\ 0 \in Nat
      OBVIOUS
    <3>3. table \in [Ids -> Entry]
      BY <2>2, <3>1, <3>2, StoredType
    <3> QED
      BY <2>1, <2>3, <3>1, <3>3 DEF ParseCut
  <2>4. CASE ParsePlayerListCut(s)
    <3> DEFINE e == Head(wire[s]).entries
    <3>1. AtMessage(s, "PLAYERLIST") /\ wire[s] # <<>>
      BY <2>4 DEF ParsePlayerListCut, AtMessage
    <3>2. e \in Seq(Entry) /\ Len(e) \in Nat
      BY <3>1, HeadIsMessage
    <3> HIDE DEF e
    <3>a. PICK k \in 0..(Len(e) - 1) :
            \E part \in {<<>>, <<Player(e[k + 1].client_id, Junk)>>} :
              /\ \E table \in Overwritten(Stored(Len(e), SubSeq(e, 1, k) \o part, players[s])) :
                   RestAsCommands(s, table)
              /\ hung' \in {s, NULL}
      BY <2>4 DEF ParsePlayerListCut, e
    <3>3. PICK part \in {<<>>, <<Player(e[k + 1].client_id, Junk)>>} :
            /\ \E table \in Overwritten(Stored(Len(e), SubSeq(e, 1, k) \o part, players[s])) :
                 RestAsCommands(s, table)
            /\ hung' \in {s, NULL}
      BY <3>a
    <3>4. SubSeq(e, 1, k) \o part \in Seq(Entry)
      <4>1. SubSeq(e, 1, k) \in Seq(Entry)
        BY <3>2
      <4>2. Player(e[k + 1].client_id, Junk) \in Entry
        <5>1. k + 1 \in 1..Len(e)
          BY <3>2
        <5>2. e[k + 1] \in Entry
          BY <3>2, <5>1
        <5> QED
          BY <5>2 DEF Entry, Player, Shown
      <4>3. PICK x \in Entry : x = Player(e[k + 1].client_id, Junk)
        BY <4>2
      <4>4. part \in {<<>>, <<x>>}
        BY <3>3, <4>3
      <4> HIDE DEF Entry
      <4>5. <<>> \in Seq(Entry) /\ <<x>> \in Seq(Entry)
        OBVIOUS
      <4>6. part \in Seq(Entry)
        BY <4>4, <4>5
      <4> QED
        BY <4>1, <4>6
    <3>5. PICK there \in Seq(Entry) : there = SubSeq(e, 1, k) \o part
      BY <3>4
    <3>6. PICK table \in Overwritten(Stored(Len(e), there, players[s])) : RestAsCommands(s, table)
      BY <3>3, <3>5
    <3>7. table \in [Ids -> Entry]
      BY <2>2, <3>2, <3>6, StoredType
    <3> QED
      BY <2>1, <3>1, <3>3, <3>6, <3>7
  <2> QED
    BY <1>4, <2>3, <2>4 DEF ParseInParts
<1> QED
  BY <1>1, <1>2, <1>3, <1>4 DEF Next

(* Whatever messages a game server sends and however a list is misread,    *)
(* every slot holds a player or none and the count stays in its byte.      *)
THEOREM TypeCorrect == Spec => []TypeOK
<1> QED
  BY TypeInit, TypeStep, PTL DEF Spec
-----------------------------------------------------------------------------
(* The table and the count.                                                *)

(* Values of the byte, and those one round above.                          *)
LEMMA ByteRound ==
  \A a \in 0..(ByteSize - 1) : a % ByteSize = a /\ (a + ByteSize) % ByteSize = a
<1>1. ByteSize \in Nat \ {0}
  BY PlayersAssumption
<1> SUFFICES ASSUME NEW a \in 0..(ByteSize - 1)
             PROVE  a % ByteSize = a /\ (a + ByteSize) % ByteSize = a
  OBVIOUS
<1>2. a % ByteSize = a
  BY <1>1
<1>3. (a + ByteSize) % ByteSize = a
  BY <1>1
<1> QED
  BY <1>2, <1>3

(* A message that tells of a step takes an entry that holds the players    *)
(* before it to one that holds the players after it.                       *)
LEMMA ConnectHolds ==
  ASSUME NEW h \in NameTables, NEW h2 \in NameTables, NEW table \in [Ids -> Entry], NEW count,
         Holds(h, table, count), NEW m, m.cmd = "CONNECT", Tells(h, m, h2)
  PROVE  Holds(h2, [table EXCEPT ![m.id] = Player(m.id, m.name)], (count + 1) % ByteSize)
<1>1. /\ m.id \in Ids /\ m.name \in Names /\ m.name # NoName
      /\ h[m.id] = NoName /\ h2 = [h EXCEPT ![m.id] = m.name]
  BY PlayersAssumption DEF Tells
<1>2. Named(h2) = Named(h) \cup {m.id} /\ m.id \notin Named(h)
  BY <1>1 DEF Named, NameTables
<1>3. /\ IsFiniteSet(Named(h)) /\ Cardinality(Named(h)) \in 0..ByteSize
      /\ Cardinality(Named(h2)) \in 0..ByteSize
  BY IdSets DEF Named
<1>4. Cardinality(Named(h2)) = Cardinality(Named(h)) + 1
  BY <1>2, <1>3, FS_AddElement
<1>5. (count + 1) % ByteSize = Cardinality(Named(h2)) % ByteSize
  <2>1. Cardinality(Named(h)) \in 0..(ByteSize - 1)
    BY <1>3, <1>4, PlayersAssumption
  <2>2. count = Cardinality(Named(h))
    BY <2>1, ByteRound DEF Holds
  <2> QED
    BY <1>4, <2>2
<1>6. \A id \in Named(h2) : [table EXCEPT ![m.id] = Player(m.id, m.name)][id] = Player(id, h2[id])
  <2> SUFFICES ASSUME NEW id \in Named(h2)
               PROVE  [table EXCEPT ![m.id] = Player(m.id, m.name)][id] = Player(id, h2[id])
    OBVIOUS
  <2>1. id \in Ids /\ DOMAIN table = Ids /\ h2[id] = IF id = m.id THEN m.name ELSE h[id]
    BY <1>1 DEF Named, NameTables
  <2>2. id # m.id => table[id] = Player(id, h[id])
    BY <1>2 DEF Holds
  <2> QED
    BY <2>1, <2>2
<1> QED
  BY <1>5, <1>6 DEF Holds

(* The same of a rename, which leaves the count.                           *)
LEMMA UpdateHolds ==
  ASSUME NEW h \in NameTables, NEW h2 \in NameTables, NEW table \in [Ids -> Entry], NEW count,
         Holds(h, table, count), NEW m, m.cmd = "PLAYERUPDATE", Tells(h, m, h2)
  PROVE  Holds(h2, [table EXCEPT ![m.id] = Player(m.id, m.name)], count)
<1>1. /\ m.id \in Ids /\ m.name \in Names /\ m.name # NoName
      /\ h[m.id] # NoName /\ h2 = [h EXCEPT ![m.id] = m.name]
  BY PlayersAssumption DEF Tells
<1>2. Named(h2) = Named(h)
  BY <1>1 DEF Named, NameTables
<1>3. \A id \in Named(h2) : [table EXCEPT ![m.id] = Player(m.id, m.name)][id] = Player(id, h2[id])
  <2> SUFFICES ASSUME NEW id \in Named(h2)
               PROVE  [table EXCEPT ![m.id] = Player(m.id, m.name)][id] = Player(id, h2[id])
    OBVIOUS
  <2>1. id \in Ids /\ DOMAIN table = Ids /\ h2[id] = IF id = m.id THEN m.name ELSE h[id]
    BY <1>1 DEF Named, NameTables
  <2>2. table[id] = Player(id, h[id])
    BY <1>2 DEF Holds
  <2> QED
    BY <2>1, <2>2
<1> QED
  BY <1>2, <1>3 DEF Holds

(* The same of a player who leaves; a full count is 0 and goes round to    *)
(* the highest value of the byte.                                          *)
LEMMA DisconnectHolds ==
  ASSUME NEW h \in NameTables, NEW h2 \in NameTables, NEW table \in [Ids -> Entry], NEW count,
         Holds(h, table, count), NEW m, m.cmd = "DISCONNECT", Tells(h, m, h2), NEW p
  PROVE  Holds(h2, [table EXCEPT ![m.id] = p], (count + ByteSize - 1) % ByteSize)
<1>1. m.id \in Ids /\ h[m.id] # NoName /\ h2 = [h EXCEPT ![m.id] = NoName]
  BY DEF Tells
<1>2. Named(h2) = Named(h) \ {m.id} /\ m.id \in Named(h)
  BY <1>1 DEF Named, NameTables
<1>3. /\ IsFiniteSet(Named(h)) /\ Cardinality(Named(h)) \in 0..ByteSize
      /\ Cardinality(Named(h2)) \in 0..ByteSize
  BY IdSets DEF Named
<1>4. Cardinality(Named(h2)) = Cardinality(Named(h)) - 1
  BY <1>2, <1>3, FS_RemoveElement
<1>5. (count + ByteSize - 1) % ByteSize = Cardinality(Named(h2)) % ByteSize
  <2> DEFINE c == Cardinality(Named(h))
  <2>1. c \in 0..ByteSize /\ c - 1 \in 0..(ByteSize - 1) /\ ByteSize \in Nat \ {0} /\ count = c % ByteSize
    BY <1>3, <1>4, PlayersAssumption DEF Holds
  <2> HIDE DEF c
  <2>2. (c - 1) % ByteSize = c - 1 /\ (c - 1 + ByteSize) % ByteSize = c - 1
    BY <2>1, ByteRound
  <2>3. CASE c = ByteSize
    <3>1. count = 0
      BY <2>1, <2>3
    <3> QED
      BY <1>4, <2>1, <2>2, <2>3, <3>1 DEF c
  <2>4. CASE c # ByteSize
    <3>1. c \in 0..(ByteSize - 1)
      BY <2>1, <2>4
    <3>2. count = c
      BY <2>1, <3>1, ByteRound
    <3>3. count + ByteSize - 1 = c - 1 + ByteSize
      BY <2>1, <3>1, <3>2
    <3> QED
      BY <1>4, <2>2, <3>3 DEF c
  <2> QED
    BY <2>3, <2>4
<1>6. \A id \in Named(h2) : [table EXCEPT ![m.id] = p][id] = Player(id, h2[id])
  <2> SUFFICES ASSUME NEW id \in Named(h2)
               PROVE  [table EXCEPT ![m.id] = p][id] = Player(id, h2[id])
    OBVIOUS
  <2>1. id \in Ids /\ id # m.id /\ id \in Named(h) /\ DOMAIN table = Ids /\ h2[id] = h[id]
    BY <1>1, <1>2 DEF Named, NameTables
  <2> QED
    BY <2>1 DEF Holds
<1> QED
  BY <1>5, <1>6 DEF Holds

(* One more message is sent.                                               *)
LEMMA ToldAppend ==
  ASSUME NEW w \in Seq(Messages), NEW k0, NEW h, NEW now, NEW m, NEW now2 \in NameTables,
         Told(w, k0, h, now), Tells(now, m, now2)
  PROVE  /\ k0 \in 0..Len(Append(w, m))
         /\ \E h2 \in [k0..Len(Append(w, m)) -> NameTables] :
              Told(Append(w, m), k0, h2, now2) /\ h2[k0] = h[k0]
<1> HIDE DEF Messages
<1> DEFINE n == Len(w)
           w2 == Append(w, m)
           h2 == [k \in k0..(n + 1) |-> IF k = n + 1 THEN now2 ELSE h[k]]
<1>1. /\ n \in Nat /\ k0 \in 0..n /\ h \in [k0..n -> NameTables] /\ h[n] = now
      /\ \A k \in (k0 + 1)..n : Tells(h[k - 1], w[k], h[k])
  BY DEF Told
<1>2. Len(w2) = n + 1 /\ w2[n + 1] = m /\ \A k \in 1..n : w2[k] = w[k]
  OBVIOUS
<1> HIDE DEF n, w2
<1>3. \A k \in k0..(n + 1) : k # n + 1 => k \in k0..n
  BY <1>1
<1>4. h2 \in [k0..(n + 1) -> NameTables] /\ h2[k0] = h[k0] /\ h2[n + 1] = now2
  BY <1>1, <1>3
<1>5. ASSUME NEW k \in (k0 + 1)..(n + 1) PROVE Tells(h2[k - 1], w2[k], h2[k])
  <2>1. CASE k = n + 1
    <3>1. k - 1 = n /\ n \in k0..(n + 1) /\ n # n + 1
      BY <1>1, <2>1
    <3>2. h2[k - 1] = now
      BY <1>1, <3>1
    <3> QED
      BY <1>2, <1>4, <2>1, <3>2
  <2>2. CASE k # n + 1
    <3>1. /\ k \in (k0 + 1)..n /\ k \in 1..n /\ k - 1 \in k0..(n + 1) /\ k \in k0..(n + 1)
          /\ k - 1 # n + 1
      BY <1>1, <2>2
    <3>2. h2[k - 1] = h[k - 1] /\ h2[k] = h[k]
      BY <2>2, <3>1
    <3> HIDE DEF h2
    <3> QED
      BY <1>1, <1>2, <3>1, <3>2
  <2> QED
    BY <2>1, <2>2
<1> HIDE DEF h2
<1>6. Told(w2, k0, h2, now2)
  BY <1>1, <1>2, <1>4, <1>5 DEF Told
<1> QED
  BY <1>1, <1>2, <1>4, <1>6 DEF w2

(* The first message is used up.                                           *)
LEMMA ToldTail ==
  ASSUME NEW w \in Seq(Messages), NEW k0, NEW h, NEW now, Told(w, k0, h, now),
         NEW k1 \in 1..Len(w), k0 <= k1
  PROVE  /\ k1 - 1 \in 0..Len(Tail(w))
         /\ \A k \in 1..Len(Tail(w)) : Tail(w)[k] = w[k + 1]
         /\ \E h2 \in [(k1 - 1)..Len(Tail(w)) -> NameTables] :
              Told(Tail(w), k1 - 1, h2, now) /\ h2[k1 - 1] = h[k1]
<1> HIDE DEF Messages
<1> DEFINE n == Len(w)
           w2 == Tail(w)
           h2 == [k \in (k1 - 1)..(n - 1) |-> h[k + 1]]
<1>1. /\ n \in Nat /\ k0 \in 0..n /\ h \in [k0..n -> NameTables] /\ h[n] = now
      /\ \A k \in (k0 + 1)..n : Tells(h[k - 1], w[k], h[k])
  BY DEF Told
<1>2. w # <<>> /\ k1 \in 1..n
  OBVIOUS
<1>3. Len(w2) = n - 1 /\ \A k \in 1..(n - 1) : w2[k] = w[k + 1]
  BY <1>2
<1> HIDE DEF n, w2
<1>4. \A k \in (k1 - 1)..(n - 1) : k + 1 \in k0..n
  BY <1>1, <1>2
<1>5. h2 \in [(k1 - 1)..(n - 1) -> NameTables] /\ h2[k1 - 1] = h[k1] /\ h2[n - 1] = now
  <2>1. k1 - 1 \in (k1 - 1)..(n - 1) /\ n - 1 \in (k1 - 1)..(n - 1) /\ k1 - 1 + 1 = k1 /\ n - 1 + 1 = n
    BY <1>1, <1>2
  <2> QED
    BY <1>1, <1>4, <2>1
<1>6. ASSUME NEW k \in k1..(n - 1) PROVE Tells(h2[k - 1], w2[k], h2[k])
  <2>1. /\ k - 1 \in (k1 - 1)..(n - 1) /\ k \in (k1 - 1)..(n - 1) /\ k - 1 + 1 = k
        /\ k \in 1..(n - 1) /\ k + 1 \in (k0 + 1)..n /\ (k + 1) - 1 = k
    BY <1>1, <1>2
  <2>2. h2[k - 1] = h[k] /\ h2[k] = h[k + 1]
    BY <2>1
  <2>3. Tells(h[k], w[k + 1], h[k + 1])
    BY <1>1, <2>1
  <2> QED
    BY <1>3, <2>1, <2>2, <2>3
<1> HIDE DEF h2
<1>7. k1 - 1 \in 0..(n - 1) /\ (k1 - 1) + 1 = k1
  BY <1>1, <1>2
<1>8. Told(w2, k1 - 1, h2, now)
  BY <1>3, <1>5, <1>6, <1>7 DEF Told
<1> QED
  BY <1>3, <1>5, <1>7, <1>8 DEF w2

(* One more message that tells what has happened.                          *)
LEMMA SyncedAppend ==
  ASSUME NEW w \in Seq(Messages), NEW now, NEW table, NEW count, NEW m, NEW now2 \in NameTables,
         Synced(w, now, table, count), Tells(now, m, now2)
  PROVE  Synced(Append(w, m), now2, table, count)
<1> HIDE DEF Messages
<1>0. PICK k0 \in 0..Len(w) : \E h \in [k0..Len(w) -> NameTables] :
        Told(w, k0, h, now) /\ StartsFrom(w, k0, h[k0], table, count)
  BY DEF Synced
<1>1. PICK h \in [k0..Len(w) -> NameTables] :
        Told(w, k0, h, now) /\ StartsFrom(w, k0, h[k0], table, count)
  BY <1>0
<1>2. /\ k0 \in 0..Len(Append(w, m))
      /\ \E h2 \in [k0..Len(Append(w, m)) -> NameTables] :
           Told(Append(w, m), k0, h2, now2) /\ h2[k0] = h[k0]
  BY <1>1, ToldAppend
<1>3. k0 > 0 => Append(w, m)[k0] = w[k0]
  BY <1>1
<1>4. StartsFrom(Append(w, m), k0, h[k0], table, count)
  BY <1>1, <1>3 DEF StartsFrom
<1> HIDE DEF StartsFrom, Told
<1> QED
  BY <1>2, <1>4 DEF Synced

(* A complete list is as good as all that was sent before.                 *)
LEMMA SyncedList ==
  ASSUME NEW w \in Seq(Messages), NEW now \in NameTables, NoGap(now), NEW table, NEW count
  PROVE  Synced(Append(w, ListMessage(ListOf(now))), now, table, count)
<1> HIDE DEF Messages
<1> DEFINE m == ListMessage(ListOf(now))
           n == Len(w) + 1
           h == [k \in n..n |-> now]
<1>1. n \in Nat /\ n > 0 /\ Len(Append(w, m)) = n /\ Append(w, m)[n] = m
  OBVIOUS
<1> DEFINE w2 == Append(w, m)
<1> HIDE DEF n, w2
<1>2. n \in 0..n /\ n..n = {n} /\ (n + 1)..n = {}
  BY <1>1
<1>3. h \in [n..n -> NameTables] /\ h[n] = now
  BY <1>2
<1> HIDE DEF h
<1>4. Len(w2) = n /\ w2[n] = m
  BY <1>1 DEF w2
<1>5. Told(w2, n, h, now)
  BY <1>2, <1>3, <1>4 DEF Told
<1>6. StartsFrom(w2, n, h[n], table, count)
  BY <1>1, <1>3, <1>4 DEF StartsFrom
<1>7. Synced(w2, now, table, count)
  BY <1>2, <1>3, <1>4, <1>5, <1>6 DEF Synced
<1> QED
  BY <1>7 DEF w2

(* The first message is parsed: when it tells of a step, the entry that    *)
(* held the players before it holds those after it; when it is a complete  *)
(* list, the entry holds what is on it.                                    *)
LEMMA SyncedTail ==
  ASSUME NEW w \in Seq(Messages), w # <<>>, NEW now, NEW table, NEW count,
         Synced(w, now, table, count), NEW table2, NEW count2,
         \A h \in NameTables, h2 \in NameTables :
           Holds(h, table, count) /\ Tells(h, Head(w), h2) => Holds(h2, table2, count2),
         \A h \in NameTables :
           NoGap(h) /\ Head(w) = ListMessage(ListOf(h)) => Holds(h, table2, count2)
  PROVE  Synced(Tail(w), now, table2, count2)
<1> HIDE DEF Messages
<1>0. PICK k0 \in 0..Len(w) : \E h \in [k0..Len(w) -> NameTables] :
        Told(w, k0, h, now) /\ StartsFrom(w, k0, h[k0], table, count)
  BY DEF Synced
<1>1. PICK h \in [k0..Len(w) -> NameTables] :
        Told(w, k0, h, now) /\ StartsFrom(w, k0, h[k0], table, count)
  BY <1>0
<1>2. Len(w) \in Nat \ {0} /\ Head(w) = w[1]
  OBVIOUS
<1>3. CASE k0 = 0
  <2>1. 0 \in k0..Len(w) /\ 1 \in k0..Len(w) /\ 1 \in (k0 + 1)..Len(w) /\ 1 \in 1..Len(w)
    BY <1>2, <1>3
  <2>2. h[0] \in NameTables /\ h[1] \in NameTables /\ Tells(h[0], w[1], h[1])
    <3>1. Tells(h[1 - 1], w[1], h[1])
      BY <1>1, <2>1 DEF Told
    <3> QED
      BY <2>1, <3>1
  <2>3. Holds(h[0], table, count)
    BY <1>1, <1>3 DEF StartsFrom
  <2>4. Holds(h[1], table2, count2)
    BY <1>2, <2>2, <2>3
  <2>5. PICK h2 \in [(1 - 1)..Len(Tail(w)) -> NameTables] :
          Told(Tail(w), 1 - 1, h2, now) /\ h2[1 - 1] = h[1]
    BY <1>1, <1>3, <2>1, ToldTail
  <2>6. 1 - 1 = 0 /\ 0 \in 0..Len(Tail(w))
    BY <1>1, <1>3, <2>1, ToldTail
  <2>7. StartsFrom(Tail(w), 0, h2[0], table2, count2)
    BY <2>4, <2>5, <2>6 DEF StartsFrom
  <2> HIDE DEF Told, StartsFrom
  <2> QED
    BY <2>5, <2>6, <2>7 DEF Synced
<1>4. CASE k0 > 0
  <2>1. k0 \in 1..Len(w) /\ k0 \in k0..Len(w) /\ k0 <= k0
    BY <1>2, <1>4
  <2>2. h[k0] \in NameTables /\ w[k0] = ListMessage(ListOf(h[k0])) /\ NoGap(h[k0])
    BY <1>1, <1>4, <2>1 DEF StartsFrom
  <2>3. /\ k0 - 1 \in 0..Len(Tail(w))
        /\ \A k \in 1..Len(Tail(w)) : Tail(w)[k] = w[k + 1]
        /\ \E h2 \in [(k0 - 1)..Len(Tail(w)) -> NameTables] :
              Told(Tail(w), k0 - 1, h2, now) /\ h2[k0 - 1] = h[k0]
    BY <1>1, <2>1, ToldTail
  <2>4. StartsFrom(Tail(w), k0 - 1, h[k0], table2, count2)
    <3>1. CASE k0 = 1
      <4>1. Holds(h[k0], table2, count2)
        BY <1>2, <2>2, <3>1
      <4> QED
        BY <3>1, <4>1 DEF StartsFrom
    <3>2. CASE k0 # 1
      <4>1. k0 - 1 \in 1..Len(Tail(w)) /\ k0 - 1 > 0 /\ k0 - 1 + 1 = k0
        BY <2>1, <2>3, <3>2
      <4>2. Tail(w)[k0 - 1] = w[k0]
        BY <2>3, <4>1
      <4> QED
        BY <2>2, <4>1, <4>2 DEF StartsFrom
    <3> QED
      BY <3>1, <3>2
  <2> HIDE DEF Told, StartsFrom
  <2> QED
    BY <2>3, <2>4 DEF Synced
<1> QED
  BY <1>1, <1>3, <1>4

(* Every step keeps the invariant.                                         *)
LEMMA SyncStep == TypeOK /\ SyncInv /\ [Next]_vars => SyncInv'
<1> SUFFICES ASSUME TypeOK, SyncInv, [Next]_vars, NEW s \in Servers, up'[s], told'[s]
             PROVE  Synced(wire'[s], present'[s], players'[s], playercount'[s])
  BY DEF SyncInv
<1> USE DEF TypeOK
<1> HIDE DEF Messages, Entry, Synced
<1> DEFINE Goal == Synced(wire'[s], present'[s], players'[s], playercount'[s])
           Now  == Synced(wire[s], present[s], players[s], playercount[s])
<1>1. up[s] /\ told[s] => Now
  BY DEF SyncInv
<1>2. wire[s] \in Seq(Messages) /\ present[s] \in NameTables /\ present'[s] \in NameTables
      /\ players[s] \in [Ids -> Entry]
  BY TypeStep DEF NameTables
<1> SUFFICES Goal
  BY DEF Goal
<1> HIDE DEF Goal, Now
<1>3. CASE UNCHANGED <<up[s], told[s], wire[s], present[s], players[s], playercount[s]>>
  BY <1>1, <1>3 DEF Goal, Now
<1>4. CASE UNCHANGED vars
  BY <1>3, <1>4 DEF vars, gameVars, entryVars
<1>5. ASSUME NEW t \in Servers, Game(t), t # s PROVE Goal
  <2>1. UNCHANGED <<up[s], told[s], wire[s], present[s], players[s], playercount[s]>>
    BY <1>5 DEF Game, PlayerEnters, PlayerRenames, PlayerLeaves, SendsList, SessionStarts,
                SessionEnds, Report, entryVars
  <2> QED
    BY <1>3, <2>1
<1>6. ASSUME NEW t \in Servers, ParseWhole(t), t # s PROVE Goal
  <2>1. UNCHANGED <<up[s], told[s], wire[s], present[s], players[s], playercount[s]>>
    BY <1>6 DEF ParseWhole, ParsePlayerConnect, ParsePlayerUpdate, ParsePlayerDisconnect,
                ParsePlayerList, ParsePlayerListShort, ParsePlayerListOn, Parsed, Swallows,
                gameVars, StorePlayer, CountPlayers
  <2> QED
    BY <1>3, <2>1
<1>7. ASSUME UNCHANGED <<up, told, entryVars>>, NEW m, Report(s, m),
             Tells(present[s], m, present'[s])
      PROVE  Goal
  <2>1. up[s] /\ told[s] /\ UNCHANGED <<players[s], playercount[s]>>
    BY <1>7 DEF entryVars
  <2>2. wire'[s] = Append(wire[s], m)
    BY <1>7, <2>1 DEF Report
  <2>3. Synced(Append(wire[s], m), present'[s], players[s], playercount[s])
    BY <1>1, <1>2, <1>7, <2>1, SyncedAppend DEF Now
  <2> QED
    BY <2>1, <2>2, <2>3 DEF Goal
<1>8. ASSUME NEW id \in Ids, NEW name \in Names, PlayerEnters(s, id, name) PROVE Goal
  <2>1. Tells(present[s], Message("CONNECT", id, name), present'[s])
    BY <1>8 DEF PlayerEnters, Tells, Message
  <2> QED
    BY <1>7, <1>8, <2>1 DEF PlayerEnters
<1>9. ASSUME NEW id \in Ids, NEW name \in Names, PlayerRenames(s, id, name) PROVE Goal
  <2>1. Tells(present[s], Message("PLAYERUPDATE", id, name), present'[s])
    BY <1>9 DEF PlayerRenames, Tells, Message
  <2> QED
    BY <1>7, <1>9, <2>1 DEF PlayerRenames
<1>10. ASSUME NEW id \in Ids, PlayerLeaves(s, id) PROVE Goal
  <2>1. Tells(present[s], Message("DISCONNECT", id, NoName), present'[s])
    BY <1>10 DEF PlayerLeaves, Tells, Message
  <2> QED
    BY <1>7, <1>10, <2>1 DEF PlayerLeaves
<1>11. CASE SendsList(s)
  <2>1. /\ NoGap(present[s]) /\ Entries(s) = ListOf(present[s])
    BY <1>11, EntriesAreListOf DEF SendsList
  <2>2. /\ wire'[s] = Append(wire[s], ListMessage(Entries(s)))
        /\ UNCHANGED <<present[s], players[s], playercount[s]>>
    BY <1>11 DEF SendsList, entryVars
  <2>3. Synced(Append(wire[s], ListMessage(ListOf(present[s]))), present[s], players[s], playercount[s])
    BY <1>2, <2>1, SyncedList
  <2> QED
    BY <2>1, <2>2, <2>3 DEF Goal
<1>12. CASE SessionStarts(s)
  BY <1>12 DEF SessionStarts
<1>13. CASE SessionEnds(s)
  BY <1>13 DEF SessionEnds
<1>14. ASSUME NEW cmd, AtMessage(s, cmd), wire'[s] = Tail(wire[s]),
              UNCHANGED <<up[s], told[s], present[s]>>,
              \A h \in NameTables, h2 \in NameTables :
                Holds(h, players[s], playercount[s]) /\ Tells(h, Head(wire[s]), h2)
                  => Holds(h2, players'[s], playercount'[s]),
              \A h \in NameTables :
                NoGap(h) /\ Head(wire[s]) = ListMessage(ListOf(h))
                  => Holds(h, players'[s], playercount'[s])
       PROVE  Goal
  <2>1. Now /\ wire[s] # <<>>
    BY <1>1, <1>14 DEF AtMessage
  <2>2. Synced(Tail(wire[s]), present[s], players'[s], playercount'[s])
    BY <1>2, <1>14, <2>1, SyncedTail DEF Now
  <2> QED
    BY <1>14, <2>2 DEF Goal
<1> DEFINE m == Head(wire[s])
<1>15. \A h : m = ListMessage(ListOf(h)) => m.cmd = "PLAYERLIST" /\ m.entries = ListOf(h)
  BY DEF ListMessage
<1>16. \A h, h2 : Tells(h, m, h2) => m.cmd # "PLAYERLIST"
  BY DEF Tells
<1>17. CASE ParsePlayerConnect(s)
  <2>1. /\ AtMessage(s, "CONNECT") /\ m.cmd = "CONNECT" /\ Parsed(s)
        /\ players'[s] = [players[s] EXCEPT ![m.id] = Player(m.id, m.name)]
        /\ playercount'[s] = (playercount[s] + 1) % ByteSize
    BY <1>17 DEF ParsePlayerConnect, AtMessage, StorePlayer, CountPlayers
  <2>2. wire'[s] = Tail(wire[s]) /\ UNCHANGED <<up[s], told[s], present[s]>>
    BY <2>1 DEF Parsed, gameVars
  <2> HIDE DEF m, Holds, Tells
  <2>3. \A h \in NameTables, h2 \in NameTables :
          Holds(h, players[s], playercount[s]) /\ Tells(h, m, h2)
            => Holds(h2, players'[s], playercount'[s])
    <3> SUFFICES ASSUME NEW h \in NameTables, NEW h2 \in NameTables,
                        Holds(h, players[s], playercount[s]), Tells(h, m, h2)
                 PROVE  Holds(h2, [players[s] EXCEPT ![m.id] = Player(m.id, m.name)], (playercount[s] + 1) % ByteSize)
      BY <2>1
    <3> QED
      BY <1>2, <2>1, ConnectHolds
  <2> QED
    BY <1>14, <1>15, <2>1, <2>2, <2>3 DEF m
<1>18. CASE ParsePlayerUpdate(s)
  <2>1. /\ AtMessage(s, "PLAYERUPDATE") /\ m.cmd = "PLAYERUPDATE" /\ Parsed(s)
        /\ players'[s] = [players[s] EXCEPT ![m.id] = Player(m.id, m.name)]
        /\ playercount'[s] = playercount[s]
    BY <1>18 DEF ParsePlayerUpdate, AtMessage, StorePlayer
  <2>2. wire'[s] = Tail(wire[s]) /\ UNCHANGED <<up[s], told[s], present[s]>>
    BY <2>1 DEF Parsed, gameVars
  <2> HIDE DEF m, Holds, Tells
  <2>3. \A h \in NameTables, h2 \in NameTables :
          Holds(h, players[s], playercount[s]) /\ Tells(h, m, h2)
            => Holds(h2, players'[s], playercount'[s])
    <3> SUFFICES ASSUME NEW h \in NameTables, NEW h2 \in NameTables,
                        Holds(h, players[s], playercount[s]), Tells(h, m, h2)
                 PROVE  Holds(h2, [players[s] EXCEPT ![m.id] = Player(m.id, m.name)], playercount[s])
      BY <2>1
    <3> QED
      BY <1>2, <2>1, UpdateHolds
  <2> QED
    BY <1>14, <1>15, <2>1, <2>2, <2>3 DEF m
<1>19. CASE ParsePlayerDisconnect(s)
  <2>1. /\ AtMessage(s, "DISCONNECT") /\ m.cmd = "DISCONNECT" /\ Parsed(s)
        /\ players'[s] = [players[s] EXCEPT ![m.id] = NoPlayer]
        /\ playercount'[s] = (playercount[s] + ByteSize - 1) % ByteSize
    BY <1>19 DEF ParsePlayerDisconnect, AtMessage, CountPlayers
  <2>2. wire'[s] = Tail(wire[s]) /\ UNCHANGED <<up[s], told[s], present[s]>>
    BY <2>1 DEF Parsed, gameVars
  <2> HIDE DEF m, Holds, Tells
  <2>3. \A h \in NameTables, h2 \in NameTables :
          Holds(h, players[s], playercount[s]) /\ Tells(h, m, h2)
            => Holds(h2, players'[s], playercount'[s])
    <3> SUFFICES ASSUME NEW h \in NameTables, NEW h2 \in NameTables,
                        Holds(h, players[s], playercount[s]), Tells(h, m, h2)
                 PROVE  Holds(h2, [players[s] EXCEPT ![m.id] = NoPlayer], (playercount[s] + ByteSize - 1) % ByteSize)
      BY <2>1
    <3> QED
      BY <1>2, <2>1, DisconnectHolds
  <2> QED
    BY <1>14, <1>15, <2>1, <2>2, <2>3 DEF m
<1>20. \A h \in NameTables :
         NoGap(h) /\ m = ListMessage(ListOf(h)) =>
           /\ Taken(Len(m.entries), m.entries) = DOMAIN m.entries /\ ~ReadsOn(Len(m.entries), m.entries)
           /\ Holds(h, Stored(Len(m.entries), m.entries, players[s]), Count(Len(m.entries)))
  <2> HIDE DEF m
  <2> QED
    BY <1>15, CompleteList
<1>21. CASE ParsePlayerList(s)
  <2>1. /\ AtMessage(s, "PLAYERLIST") /\ m.cmd = "PLAYERLIST" /\ Parsed(s)
        /\ players'[s] = Stored(Len(m.entries), m.entries, players[s])
        /\ playercount'[s] = Count(Len(m.entries)) % ByteSize
    BY <1>21 DEF ParsePlayerList, AtMessage, CountPlayers
  <2>2. wire'[s] = Tail(wire[s]) /\ UNCHANGED <<up[s], told[s], present[s]>>
    BY <2>1 DEF Parsed, gameVars
  <2>3. Count(Len(m.entries)) % ByteSize = Count(Len(m.entries))
    <3>1. m.entries \in Seq(Entry)
      BY <2>1, HeadIsMessage
    <3>2. Count(Len(m.entries)) \in 0..(ByteSize - 1)
      <4>1. Len(m.entries) \in Nat
        BY <3>1
      <4> QED
        BY <1>2, <3>1, <4>1, StoredType DEF Ids
    <3> QED
      BY <3>2, ByteRound
  <2> HIDE DEF m, Holds, Tells
  <2> QED
    BY <1>14, <1>16, <1>20, <2>1, <2>2, <2>3 DEF m
<1>22. ASSUME AtMessage(s, "PLAYERLIST"), NEW n \in 1..Len(wire[s]), Swallows(s, n),
              Taken(Len(m.entries), m.entries) # DOMAIN m.entries \/ ReadsOn(Len(m.entries), m.entries)
       PROVE  Goal
  <2>1. n = 1 /\ wire'[s] = SubSeq(wire[s], n + 1, Len(wire[s]))
        /\ UNCHANGED <<up[s], told[s], present[s]>>
    BY <1>22 DEF Swallows
  <2>2. wire'[s] = Tail(wire[s]) /\ m.cmd = "PLAYERLIST"
    <3>1. wire[s] \in Seq(Messages) /\ wire[s] # <<>> /\ m.cmd = "PLAYERLIST"
      BY <1>22, HeadIsMessage
    <3>2. Tail(wire[s]) = SubSeq(wire[s], 1 + 1, Len(wire[s]))
      BY <3>1
    <3> QED
      BY <2>1, <3>1, <3>2
  <2> HIDE DEF m, Holds, Tells
  <2> QED
    BY <1>14, <1>16, <1>20, <1>22, <2>1, <2>2 DEF m
<1>23. CASE ParsePlayerListShort(s)
  BY <1>22, <1>23 DEF ParsePlayerListShort
<1>24. CASE ParsePlayerListOn(s)
  BY <1>22, <1>24 DEF ParsePlayerListOn
<1>25. CASE Game(s)
  BY <1>8, <1>9, <1>10, <1>11, <1>12, <1>13, <1>25 DEF Game
<1>26. CASE ParseWhole(s)
  BY <1>17, <1>18, <1>19, <1>21, <1>23, <1>24, <1>26 DEF ParseWhole
<1>27. ASSUME NEW t \in Servers, ParseInParts(t) PROVE Goal
  <2>1. PICK table : RestAsCommands(t, table)
    BY <1>27, Zenon DEF ParseInParts, ParseCut, ParsePlayerListCut
  <2>2. t # s
    BY <2>1 DEF RestAsCommands
  <2>3. UNCHANGED <<up[s], told[s], wire[s], present[s], players[s], playercount[s]>>
    BY <2>1, <2>2 DEF RestAsCommands, CountPlayers
  <2> QED
    BY <1>3, <2>3
<1> QED
  BY <1>4, <1>5, <1>6, <1>25, <1>26, <1>27 DEF Next

(* When everything sent is parsed, the entry holds the players who are on  *)
(* the game server.                                                        *)
LEMMA SyncedHolds ==
  ASSUME TypeOK, SyncInv, NEW s \in Servers, InSync(s)
  PROVE  Holds(present[s], players[s], playercount[s])
<1>1. up[s] /\ told[s] /\ wire[s] = <<>> /\ Synced(wire[s], present[s], players[s], playercount[s])
  BY DEF InSync, SyncInv
<1>2. Len(wire[s]) = 0
  BY <1>1
<1>3. PICK k0 \in 0..Len(wire[s]) : \E h \in [k0..Len(wire[s]) -> NameTables] :
        /\ Told(wire[s], k0, h, present[s])
        /\ StartsFrom(wire[s], k0, h[k0], players[s], playercount[s])
  BY <1>1 DEF Synced
<1>4. PICK h :
        /\ Told(wire[s], k0, h, present[s])
        /\ StartsFrom(wire[s], k0, h[k0], players[s], playercount[s])
  BY <1>3
<1>5. k0 = 0 /\ h[0] = present[s]
  BY <1>2, <1>3, <1>4 DEF Told
<1> QED
  BY <1>4, <1>5 DEF StartsFrom

(* The invariant holds from the beginning.                                 *)
LEMMA SyncAlways == Spec => [](TypeOK /\ SyncInv)
<1>1. Init => TypeOK /\ SyncInv
  BY TypeInit DEF Init, SyncInv
<1>2. TypeOK /\ SyncInv /\ [Next]_vars => (TypeOK /\ SyncInv)'
  BY TypeStep, SyncStep
<1> QED
  BY <1>1, <1>2, PTL DEF Spec

(* Whatever connects, renames, disconnects and lists came before, in       *)
(* whatever order, and whatever an earlier session left in the entry, the  *)
(* count is exact to the byte when a complete list was sent in this        *)
(* session and everything is parsed.                                       *)
THEOREM CountIsExact == Spec => []CountExact
<1>1. ASSUME TypeOK, SyncInv PROVE CountExact
  <2> SUFFICES ASSUME NEW s \in Servers, InSync(s)
               PROVE  playercount[s] = Cardinality(On(s)) % ByteSize
    BY DEF CountExact
  <2>1. Holds(present[s], players[s], playercount[s]) /\ On(s) = Named(present[s])
    BY <1>1, SyncedHolds, EntriesAreListOf
  <2> QED
    BY <2>1 DEF Holds
<1> QED
  BY <1>1, SyncAlways, PTL

(* Under the same condition every player is found in the slot of his own   *)
(* id, under the name he has now.                                          *)
THEOREM PlayersInSlot == Spec => []InSlot
<1>1. ASSUME TypeOK, SyncInv PROVE InSlot
  <2> SUFFICES ASSUME NEW s \in Servers, InSync(s), NEW id \in On(s)
               PROVE  players[s][id] = Player(id, present[s][id])
    BY DEF InSlot
  <2>1. Holds(present[s], players[s], playercount[s]) /\ On(s) = Named(present[s])
    BY <1>1, SyncedHolds, EntriesAreListOf
  <2> QED
    BY <2>1 DEF Holds
<1> QED
  BY <1>1, SyncAlways, PTL
-----------------------------------------------------------------------------
(* The text for a player.                                                  *)

Buffers == 0..(VaBuffers - 1)
Contents == Seq(Lines \cup Shown)

(* A text that was begun: it is in one of the buffers, and va() goes on    *)
(* with the one after.                                                     *)
Begun(text) ==
  /\ text.str \in Buffers /\ text.next = (text.str + 1) % VaBuffers
  /\ text.ring \in [Buffers -> Contents]
Content(text) == text.ring[text.str]

(* The entry is that of a server whose line says what is true.             *)
LineTrue(s) ==
  /\ playercount[s] = Cardinality(On(s)) /\ playercount[s] \in Nat \ {0}
  /\ Line(s) = TrueLine(s) /\ Line(s) \in Lines

(* Numbers of buffers, and those one round above.                          *)
LEMMA BufferRound ==
  ASSUME NEW a \in 0..(2 * VaBuffers - 1)
  PROVE  a % VaBuffers = IF a < VaBuffers THEN a ELSE a - VaBuffers
<1>1. VaBuffers \in Nat \ {0}
  BY PlayersAssumption
<1>2. CASE a < VaBuffers
  BY <1>1, <1>2
<1>3. CASE ~(a < VaBuffers)
  <2>1. PICK b \in 0..(VaBuffers - 1) : a = b + VaBuffers
    <3>1. a - VaBuffers \in 0..(VaBuffers - 1) /\ a = (a - VaBuffers) + VaBuffers
      BY <1>1, <1>3
    <3> QED
      BY <3>1
  <2>2. (b + VaBuffers) % VaBuffers = b
    BY <1>1
  <2> QED
    BY <1>1, <1>3, <2>1, <2>2
<1> QED
  BY <1>2, <1>3

(* The names of c players, the text being in the buffer str, leave it and  *)
(* the buffer for the result apart exactly if c is at most the number of   *)
(* buffers less two; with one more player the result goes where the text   *)
(* is, with two more a name goes there.                                    *)
LEMMA RingOnce ==
  ASSUME NEW str \in Buffers, NEW c \in Nat \ {0}
  PROVE  LET next == (str + 1) % VaBuffers IN
           /\ next \in Buffers /\ (next + c) % VaBuffers \in Buffers
           /\ c <= VaBuffers - 2 =>
                /\ (next + c) % VaBuffers # str
                /\ \A k \in 0..(c - 1) : (next + k) % VaBuffers # str
           /\ ~(c <= VaBuffers - 2) =>
                \/ (next + c) % VaBuffers = str
                \/ \E k \in 0..(c - 1) : (next + k) % VaBuffers = str
<1> DEFINE next == (str + 1) % VaBuffers
<1>1. VaBuffers \in Nat \ {0, 1} /\ str \in 0..(VaBuffers - 1) /\ c \in Nat \ {0}
  BY PlayersAssumption DEF Buffers
<1>2. next = IF str + 1 < VaBuffers THEN str + 1 ELSE 0
  <2>1. PICK a \in 0..(2 * VaBuffers - 1) : a = str + 1
    BY <1>1
  <2>2. str + 1 < VaBuffers \/ str + 1 - VaBuffers = 0
    BY <1>1
  <2>3. a % VaBuffers = IF a < VaBuffers THEN a ELSE a - VaBuffers
    BY BufferRound
  <2> QED
    BY <1>1, <2>1, <2>2, <2>3
<1>3. next \in 0..(VaBuffers - 1)
  BY <1>1, <1>2
<1> HIDE DEF next
<1>4. (next + c) % VaBuffers \in Buffers
  BY <1>1, <1>3 DEF Buffers
<1>5. \A k \in 0..(VaBuffers - 2) : (next + k) % VaBuffers # str
  <2> SUFFICES ASSUME NEW k \in 0..(VaBuffers - 2) PROVE (next + k) % VaBuffers # str
    OBVIOUS
  <2>1. PICK a \in 0..(2 * VaBuffers - 1) : a = next + k
    BY <1>1, <1>3
  <2>2. a % VaBuffers = IF a < VaBuffers THEN a ELSE a - VaBuffers
    BY BufferRound
  <2>3. (IF a < VaBuffers THEN a ELSE a - VaBuffers) # str
    BY <1>1, <1>2, <2>1
  <2> QED
    BY <2>1, <2>2, <2>3
<1>6. (next + (VaBuffers - 1)) % VaBuffers = str
  <2>1. PICK a \in 0..(2 * VaBuffers - 1) : a = next + (VaBuffers - 1)
    BY <1>1, <1>3
  <2>2. a % VaBuffers = IF a < VaBuffers THEN a ELSE a - VaBuffers
    BY BufferRound
  <2>3. (IF a < VaBuffers THEN a ELSE a - VaBuffers) = str
    BY <1>1, <1>2, <2>1
  <2> QED
    BY <2>1, <2>2, <2>3
<1>7. c <= VaBuffers - 2 =>
        c \in 0..(VaBuffers - 2) /\ \A k \in 0..(c - 1) : k \in 0..(VaBuffers - 2)
  BY <1>1
<1>8. ~(c <= VaBuffers - 2) => c = VaBuffers - 1 \/ VaBuffers - 1 \in 0..(c - 1)
  BY <1>1
<1>9. c <= VaBuffers - 2 =>
        /\ (next + c) % VaBuffers # str
        /\ \A k \in 0..(c - 1) : (next + k) % VaBuffers # str
  BY <1>5, <1>7
<1>10. ~(c <= VaBuffers - 2) =>
        \/ (next + c) % VaBuffers = str
        \/ \E k \in 0..(c - 1) : (next + k) % VaBuffers = str
  BY <1>6, <1>8
<1> QED
  BY <1>3, <1>4, <1>9, <1>10 DEF next, Buffers

(* The listed entries are trusted ones.                                    *)
LEMMA ListedTrusted ==
  /\ Len(Listed) \in Nat /\ DOMAIN Listed = 1..Len(Listed)
  /\ \A k \in 1..Len(Listed) : Listed[k] \in Servers /\ trusted[Listed[k]]
<1> DEFINE entries == {s \in Servers : trusted[s]}
           n == Cardinality(entries)
<1>1. entries \in SUBSET Nat /\ IsFiniteSet(entries)
  <2>1. NumServers \in Nat
    BY PlayersAssumption
  <2>2. IsFiniteSet(Servers)
    BY <2>1, FS_Interval DEF Servers
  <2> QED
    BY <2>1, <2>2, FS_Subset DEF Servers
<1>2. n \in Nat
  BY <1>1, FS_CardinalityType
<1>3. \A k \in 1..n : Occupant(entries, k) \in entries
  <2> HIDE DEF entries
  <2> QED
    BY <1>1, OccupantOfSlot
<1>4. Listed = [k \in 1..n |-> Occupant(entries, k)]
  BY DEF Listed
<1> HIDE DEF n
<1>5. Listed \in [1..n -> entries]
  BY <1>3, <1>4
<1>6. Listed \in Seq(entries) /\ Len(Listed) = n /\ DOMAIN Listed = 1..n
  <2> HIDE DEF entries
  <2> QED
    BY <1>2, <1>5
<1> QED
  BY <1>2, <1>5, <1>6

(* In step, and with players behind its first ids, a server is shown as it *)
(* is.                                                                     *)
LEMMA LineIsTrue ==
  ASSUME TypeOK, SyncInv, NEW s \in Servers, InSync(s), Contiguous(s), On(s) # {}
  PROVE  LineTrue(s)
<1> DEFINE n == Cardinality(On(s))
<1>1. /\ present[s] \in NameTables /\ On(s) = Named(present[s])
      /\ Entries(s) = ListOf(present[s]) /\ NoGap(present[s])
      /\ Holds(present[s], players[s], playercount[s])
  BY SyncedHolds, EntriesAreListOf
<1>2. On(s) = 0..(n - 1) /\ n \in 1..(ByteSize - 1) /\ ByteSize \in Nat
  <2>1. ByteSize \in Nat /\ On(s) \in SUBSET Ids
    BY PlayersAssumption DEF On
  <2>2. IsFiniteSet(On(s)) /\ n \in 0..ByteSize
    BY <2>1, IdSets
  <2>3. n # 0
    BY <2>2, FS_EmptySet
  <2> HIDE DEF n
  <2>4. On(s) = 0..(n - 1) /\ n < ByteSize
    BY DEF Contiguous, n
  <2> QED
    BY <2>1, <2>2, <2>3, <2>4
<1>3. playercount[s] = n
  <2>1. playercount[s] = n % ByteSize
    BY <1>1 DEF Holds
  <2> HIDE DEF n
  <2>2. n \in 0..(ByteSize - 1)
    BY <1>2
  <2> QED
    BY <2>1, <2>2, ByteRound
<1>4. \A k \in 1..n : players[s][k - 1].name = Entries(s)[k].name
  <2> SUFFICES ASSUME NEW k \in 1..n
               PROVE  players[s][k - 1].name = Entries(s)[k].name
    OBVIOUS
  <2>1. k - 1 \in Named(present[s])
    BY <1>1, <1>2
  <2>2. players[s][k - 1] = Player(k - 1, present[s][k - 1])
    BY <1>1, <2>1 DEF Holds
  <2>3. Occupant(Named(present[s]), k) = k - 1
    <3>1. Occupant(0..(n - 1), k) = k - 1
      BY <1>2, OccupantNoGap
    <3> QED
      BY <1>1, <1>2, <3>1
  <2>4. Entries(s)[k] = Player(k - 1, present[s][k - 1])
    <3>1. k \in 1..Cardinality(Named(present[s]))
      BY <1>1
    <3> QED
      BY <1>1, <2>3, <3>1, Zenon DEF ListOf
  <2> QED
    BY <2>2, <2>4
<1>5. Line(s) = TrueLine(s)
  <2>1. [k \in 1..playercount[s] |-> players[s][k - 1].name]
          = [k \in 1..n |-> Entries(s)[k].name]
    BY <1>3, <1>4
  <2> QED
    BY <1>3, <2>1 DEF Line, TrueLine
<1>6. Line(s) \in Lines
  <2>1. \A k \in 1..n : players[s][k - 1].name \in Shown
    <3>1. \A k \in 1..n : k - 1 \in Ids
      BY <1>2 DEF Ids
    <3>2. \A id \in Ids : players[s][id] \in Entry
      BY DEF TypeOK
    <3> QED
      BY <3>1, <3>2 DEF Entry
  <2>2. [k \in 1..playercount[s] |-> players[s][k - 1].name] \in Seq(Shown)
    <3> HIDE DEF n
    <3>1. [k \in 1..n |-> players[s][k - 1].name] \in [1..n -> Shown]
      BY <2>1
    <3>2. n \in Nat
      BY <1>2
    <3> QED
      BY <1>3, <3>1, <3>2
  <2>3. playercount[s] \in Nat
    BY <1>2, <1>3
  <2> HIDE DEF Shown
  <2> QED
    BY <2>2, <2>3 DEF Line, Lines
<1> QED
  BY <1>2, <1>3, <1>5, <1>6 DEF LineTrue

(* The buffers that va() was called with hold a name, the others what was  *)
(* in them.                                                                *)
LEMMA NamesInBuffers ==
  ASSUME TypeOK, NEW s \in Servers, NEW next \in Buffers, NEW ring \in [Buffers -> Contents]
  PROVE  /\ NamesInRing(ring, next, s) \in [Buffers -> Contents]
         /\ \A b \in Buffers :
              LET called == \E k \in 0..(playercount[s] - 1) : (next + k) % VaBuffers = b
              IN /\ called => \E x \in Shown : NamesInRing(ring, next, s)[b] = <<x>>
                 /\ ~called => NamesInRing(ring, next, s)[b] = ring[b]
<1>1. playercount[s] \in 0..(ByteSize - 1) /\ ByteSize \in Nat
  BY PlayersAssumption DEF TypeOK, Ids
<1> DEFINE Calls(b) == {k \in 0..(playercount[s] - 1) : (next + k) % VaBuffers = b}
           last(b) == CHOOSE k \in Calls(b) : \A j \in Calls(b) : j <= k
<1>2. ASSUME NEW b \in Buffers, Calls(b) # {}
      PROVE  last(b) \in Calls(b)
  <2> DEFINE fromEnd == {m \in Nat : playercount[s] - 1 - m \in Calls(b)}
  <2>1. PICK k \in Calls(b) : TRUE
    BY <1>2
  <2>2. playercount[s] - 1 - k \in fromEnd
    BY <1>1, <2>1
  <2>3. PICK m \in fromEnd : \A j \in fromEnd : m <= j
    <3>1. fromEnd \in SUBSET Nat /\ fromEnd # {}
      BY <2>2
    <3> HIDE DEF fromEnd
    <3> QED
      BY <3>1, LeastNumber
  <2>4. \A j \in Calls(b) : j <= playercount[s] - 1 - m
    <3> SUFFICES ASSUME NEW j \in Calls(b) PROVE j <= playercount[s] - 1 - m
      OBVIOUS
    <3>1. playercount[s] - 1 - j \in fromEnd
      BY <1>1
    <3>2. m <= playercount[s] - 1 - j
      BY <2>3, <3>1
    <3> QED
      BY <1>1, <2>3, <3>2
  <2>5. playercount[s] - 1 - m \in Calls(b)
    BY <2>3
  <2> HIDE DEF Calls
  <2> QED
    BY <2>4, <2>5
<1>3. \A b \in Buffers : NamesInRing(ring, next, s)[b] =
        IF Calls(b) = {} THEN ring[b] ELSE <<players[s][last(b)].name>>
  BY DEF NamesInRing, Buffers
<1>4. \A b \in Buffers : Calls(b) # {} => players[s][last(b)].name \in Shown
  <2>1. \A b \in Buffers : Calls(b) \subseteq Ids
    BY <1>1 DEF Ids
  <2>2. \A id \in Ids : players[s][id].name \in Shown
    <3>1. \A id \in Ids : players[s][id] \in Entry
      BY DEF TypeOK
    <3> QED
      BY <3>1 DEF Entry
  <2> HIDE DEF Calls, last
  <2> QED
    BY <1>2, <2>1, <2>2
<1> HIDE DEF last
<1>5. \A x \in Shown : <<x>> \in Contents
  BY DEF Contents
<1>6. NamesInRing(ring, next, s) = [b \in Buffers |-> NamesInRing(ring, next, s)[b]]
  BY DEF NamesInRing, Buffers
<1>7. \A b \in Buffers : NamesInRing(ring, next, s)[b] \in Contents
  <2> HIDE DEF Calls, Contents, Shown
  <2> QED
    BY <1>3, <1>4, <1>5
<1>8. NamesInRing(ring, next, s) \in [Buffers -> Contents]
  <2> HIDE DEF Contents
  <2> QED
    BY <1>6, <1>7
<1>9. ASSUME NEW b \in Buffers
      PROVE  LET called == \E k \in 0..(playercount[s] - 1) : (next + k) % VaBuffers = b
             IN /\ called => \E x \in Shown : NamesInRing(ring, next, s)[b] = <<x>>
                /\ ~called => NamesInRing(ring, next, s)[b] = ring[b]
  <2>1. Calls(b) # {} <=> \E k \in 0..(playercount[s] - 1) : (next + k) % VaBuffers = b
    OBVIOUS
  <2> HIDE DEF Calls, Shown
  <2> QED
    BY <1>3, <1>4, <2>1
<1> QED
  BY <1>8, <1>9

(* What is appended to the text old for a true line: the line if there is  *)
(* room for it in line[] and in the buffer, and else something else.       *)
Added(old, s) ==
  IF TextSize(Append(old, LineShown(s))) <= TextRoom THEN LineShown(s) ELSE Junk
HasRoom(old, line) == LineSize(line) <= LineRoom /\ TextSize(Append(old, line)) <= TextRoom

LEMMA AddedIsLine ==
  ASSUME NEW s, LineTrue(s), NEW old
  PROVE  Added(old, s) = IF HasRoom(old, TrueLine(s)) THEN TrueLine(s) ELSE Junk
<1>1. Line(s) = TrueLine(s) /\ playercount[s] # 0
  BY DEF LineTrue
<1>2. CASE LineSize(TrueLine(s)) <= LineRoom
  <2>1. LineShown(s) = TrueLine(s)
    BY <1>1, <1>2, Zenon DEF LineShown
  <2> QED
    BY <1>2, <2>1, Zenon DEF Added, HasRoom
<1>3. CASE ~(LineSize(TrueLine(s)) <= LineRoom)
  <2>1. LineShown(s) = Junk
    BY <1>1, <1>3, Zenon DEF LineShown
  <2>2. Added(old, s) = Junk
    BY <2>1, Zenon DEF Added
  <2> QED
    BY <1>3, <2>2, Zenon DEF HasRoom
<1> QED
  BY <1>2, <1>3

(* A true line, or what becomes of it, goes into a buffer, behind what of  *)
(* the text so far is there by then.                                       *)
LEMMA LineAppended ==
  ASSUME TypeOK, NEW s \in Servers, LineTrue(s), NEW text, text.next \in Buffers,
         text.ring \in [Buffers -> Contents],
         NEW old \in Contents,
         old = IF text.str = Literal THEN <<>>
               ELSE IF text.str = ResultBuffer(text.next, s) THEN <<Junk>>
               ELSE NamesInRing(text.ring, text.next, s)[text.str]
  PROVE  Begun(AddLine(text, s)) /\ Content(AddLine(text, s)) = Append(old, Added(old, s))
<1> DEFINE ring == NamesInRing(text.ring, text.next, s)
           slot == ResultBuffer(text.next, s)
           after == Append(old, Added(old, s))
<1>1. playercount[s] \in Nat \ {0} /\ VaBuffers \in Nat \ {0} /\ Line(s) \in Lines
  BY PlayersAssumption DEF LineTrue
<1>2. slot \in Buffers
  <2>1. PICK a \in Nat : a = text.next + playercount[s]
    BY <1>1 DEF Buffers
  <2>2. a % VaBuffers \in Buffers
    BY <1>1 DEF Buffers
  <2> QED
    BY <2>1, <2>2 DEF ResultBuffer
<1>3. ring \in [Buffers -> Contents]
  BY NamesInBuffers
<1>4. after \in Contents
  <2>1. Added(old, s) \in Lines \cup Shown
    BY <1>1, AddedIsLine DEF LineTrue, Shown
  <2> HIDE DEF Shown, Lines
  <2> QED
    BY <2>1 DEF Contents
<1>5. AddLine(text, s) = [ring |-> [ring EXCEPT ![slot] = after],
                          next |-> (slot + 1) % VaBuffers, str |-> slot]
  BY Zenon DEF AddLine, Added
<1> HIDE DEF ring, slot, after
<1>6. [ring EXCEPT ![slot] = after] \in [Buffers -> Contents]
      /\ [ring EXCEPT ![slot] = after][slot] = after
  <2> HIDE DEF Contents, Buffers
  <2> QED
    BY <1>2, <1>3, <1>4
<1>7. PICK new : new = [ring EXCEPT ![slot] = after]
  OBVIOUS
<1>8. /\ AddLine(text, s).ring = new /\ AddLine(text, s).str = slot
      /\ AddLine(text, s).next = (slot + 1) % VaBuffers
  BY <1>5, <1>7
<1> QED
  BY <1>2, <1>6, <1>7, <1>8, Zenon DEF Begun, Content, after

(* The first line makes the text, whichever buffer is the next.            *)
LEMMA FirstLine ==
  ASSUME TypeOK, NEW s \in Servers, LineTrue(s), NEW next \in Buffers
  PROVE  /\ Begun(AddLine(NoText(next), s))
         /\ Content(AddLine(NoText(next), s)) = Append(<<>>, Added(<<>>, s))
<1> DEFINE text == NoText(next)
<1>1. text.next = next /\ text.str = Literal /\ text.ring = [b \in Buffers |-> <<>>]
  BY DEF NoText, Buffers
<1>2. <<>> \in Contents
  BY DEF Contents
<1>3. text.ring \in [Buffers -> Contents]
  <2> HIDE DEF text, Contents, Buffers
  <2> QED
    BY <1>1, <1>2
<1> HIDE DEF text, Contents
<1>4. Begun(AddLine(text, s)) /\ Content(AddLine(text, s)) = Append(<<>>, Added(<<>>, s))
  BY <1>1, <1>2, <1>3, LineAppended
<1> QED
  BY <1>4 DEF text

(* A later line is appended to the text if the server has at most as many  *)
(* players as there are buffers, less two.  Otherwise it stands behind     *)
(* something else.                                                         *)
LEMMA LaterLine ==
  ASSUME TypeOK, NEW s \in Servers, LineTrue(s), NEW text, Begun(text)
  PROVE  /\ Begun(AddLine(text, s))
         /\ playercount[s] <= VaBuffers - 2 =>
              Content(AddLine(text, s)) = Append(Content(text), Added(Content(text), s))
         /\ ~(playercount[s] <= VaBuffers - 2) =>
              \E x \in Shown : Content(AddLine(text, s)) = Append(<<x>>, Added(<<x>>, s))
<1> DEFINE c == playercount[s]
           slot == ResultBuffer(text.next, s)
           names == NamesInRing(text.ring, text.next, s)
           called == \E k \in 0..(c - 1) : (text.next + k) % VaBuffers = text.str
<1>1. /\ text.str \in Buffers /\ text.next = (text.str + 1) % VaBuffers
      /\ text.ring \in [Buffers -> Contents] /\ c \in Nat \ {0}
  BY DEF Begun, LineTrue
<1>2. text.str # Literal
  BY <1>1, PlayersAssumption DEF Literal, Buffers
<1>3. text.next \in Buffers
  BY <1>1, RingOnce
<1>4. /\ c <= VaBuffers - 2 => slot # text.str /\ ~called
      /\ ~(c <= VaBuffers - 2) => slot = text.str \/ called
  <2>1. slot = (text.next + c) % VaBuffers
    BY DEF ResultBuffer
  <2>2. PICK next : next = text.next
    OBVIOUS
  <2> HIDE DEF c
  <2>3. /\ c <= VaBuffers - 2 =>
             /\ (next + c) % VaBuffers # text.str
             /\ \A k \in 0..(c - 1) : (next + k) % VaBuffers # text.str
        /\ ~(c <= VaBuffers - 2) =>
             \/ (next + c) % VaBuffers = text.str
             \/ \E k \in 0..(c - 1) : (next + k) % VaBuffers = text.str
    BY <1>1, <2>2, RingOnce
  <2> QED
    BY <2>1, <2>2, <2>3
<1>5. /\ called => \E x \in Shown : names[text.str] = <<x>>
      /\ ~called => names[text.str] = text.ring[text.str]
      /\ names[text.str] \in Contents /\ text.ring[text.str] \in Contents
  <2>1. names \in [Buffers -> Contents]
    BY <1>1, <1>3, NamesInBuffers
  <2>2. /\ called => \E x \in Shown : names[text.str] = <<x>>
        /\ ~called => names[text.str] = text.ring[text.str]
    BY <1>1, <1>3, NamesInBuffers
  <2> HIDE DEF names, called, Contents
  <2> QED
    BY <1>1, <2>1, <2>2
<1>6. Junk \in Shown /\ <<Junk>> \in Contents
  BY DEF Shown, Contents
<1> DEFINE old == IF text.str = slot THEN <<Junk>> ELSE names[text.str]
<1>7. old \in Contents
  BY <1>5, <1>6
<1>8. old = IF text.str = Literal THEN <<>>
            ELSE IF text.str = slot THEN <<Junk>> ELSE names[text.str]
  BY <1>2
<1>9. Begun(AddLine(text, s)) /\ Content(AddLine(text, s)) = Append(old, Added(old, s))
  <2> HIDE DEF old
  <2> QED
    BY <1>1, <1>3, <1>7, <1>8, LineAppended
<1>10. c <= VaBuffers - 2 => old = Content(text)
  BY <1>4, <1>5 DEF Content
<1>11. ~(c <= VaBuffers - 2) => \E x \in Shown : old = <<x>>
  <2> HIDE DEF called, names, slot
  <2> QED
    BY <1>4, <1>5, <1>6
<1> HIDE DEF old
<1> QED
  BY <1>9, <1>10, <1>11

(* The texts after 0, 1, ... n lines exist.                                *)
LEMMA TextsExist ==
  ASSUME NEW next
  PROVE  \A n \in Nat : \E text :
           text = [k \in 0..n |-> IF k = 0 THEN NoText(next) ELSE AddLine(text[k - 1], Listed[k])]
<1> DEFINE Texts(text, n) ==
             text = [k \in 0..n |-> IF k = 0 THEN NoText(next) ELSE AddLine(text[k - 1], Listed[k])]
           Without == {n \in Nat : ~ \E text : Texts(text, n)}
<1> SUFFICES ASSUME Without # {} PROVE FALSE
  OBVIOUS
<1>1. PICK n \in Without : \A m \in Without : n <= m
  <2>1. Without \in SUBSET Nat
    OBVIOUS
  <2> HIDE DEF Without
  <2> QED
    BY <2>1, LeastNumber
<1>2. n \in Nat /\ ~ \E text : Texts(text, n)
  BY <1>1
<1>3. CASE n = 0
  <2>1. Texts([k \in 0..0 |-> NoText(next)], 0)
    <3>1. \A k \in 0..0 : k = 0
      OBVIOUS
    <3> QED
      BY <3>1, Zenon
  <2> QED
    BY <1>2, <1>3, <2>1
<1>4. CASE n # 0
  <2>1. n - 1 \in Nat /\ ~(n <= n - 1)
    BY <1>2, <1>4
  <2>2. PICK shorter : Texts(shorter, n - 1)
    BY <1>1, <2>1
  <2> DEFINE text == [k \in 0..n |-> IF k = n THEN AddLine(shorter[n - 1], Listed[n]) ELSE shorter[k]]
  <2>3. ASSUME NEW k \in 0..n
        PROVE  text[k] = IF k = 0 THEN NoText(next) ELSE AddLine(text[k - 1], Listed[k])
    <3>1. CASE k = n
      <4>1. n - 1 \in 0..n /\ n - 1 # n /\ n # 0
        BY <1>2, <1>4
      <4>2. text[n - 1] = shorter[n - 1]
        BY <4>1
      <4>3. text[n] = AddLine(shorter[n - 1], Listed[n])
        BY <3>1
      <4> HIDE DEF text
      <4> QED
        BY <3>1, <4>1, <4>2, <4>3, Zenon
    <3>2. CASE k # n
      <4>1. k \in 0..(n - 1) /\ (k # 0 => k - 1 \in 0..n /\ k - 1 # n)
        BY <1>2, <3>2
      <4>2. text[k] = shorter[k] /\ (k # 0 => text[k - 1] = shorter[k - 1])
        BY <3>2, <4>1
      <4>3. shorter[k] = IF k = 0 THEN NoText(next) ELSE AddLine(shorter[k - 1], Listed[k])
        BY <2>2, <4>1, Zenon
      <4> HIDE DEF text
      <4> QED
        BY <4>2, <4>3, Zenon
    <3> QED
      BY <3>1, <3>2
  <2>4. text = [k \in 0..n |-> text[k]]
    BY Zenon
  <2> HIDE DEF text
  <2>5. Texts(text, n)
    BY <2>3, <2>4, Zenon
  <2> QED
    BY <1>2, <2>5
<1> QED
  BY <1>3, <1>4

(* The text for a player is built line by line.                            *)
LEMMA TextByLines ==
  ASSUME NEW next
  PROVE  \E text :
           /\ text[0] = NoText(next)
           /\ \A k \in 1..Len(Listed) : text[k] = AddLine(text[k - 1], Listed[k])
           /\ BuildTeleportServers(next) =
                IF text[Len(Listed)].str = Literal THEN <<>>
                ELSE text[Len(Listed)].ring[text[Len(Listed)].str]
<1> DEFINE D == 0..Len(Listed)
           text[k \in D] == IF k = 0 THEN NoText(next) ELSE AddLine(text[k - 1], Listed[k])
<1>1. Len(Listed) \in Nat
  BY ListedTrusted
<1>2. \E t : t = [k \in D |-> IF k = 0 THEN NoText(next) ELSE AddLine(t[k - 1], Listed[k])]
  <2>1. \A n \in Nat : \E t :
          t = [k \in 0..n |-> IF k = 0 THEN NoText(next) ELSE AddLine(t[k - 1], Listed[k])]
    BY TextsExist
  <2> QED
    BY <1>1, <2>1, Zenon DEF D
<1>3. text = [k \in D |-> IF k = 0 THEN NoText(next) ELSE AddLine(text[k - 1], Listed[k])]
  BY <1>2, Zenon
<1>4. BuildTeleportServers(next) =
        IF text[Len(Listed)].str = Literal THEN <<>>
        ELSE text[Len(Listed)].ring[text[Len(Listed)].str]
  BY Zenon DEF BuildTeleportServers, text, D
<1> HIDE DEF text
<1>5. 0 \in D /\ \A k \in 1..Len(Listed) : k \in D /\ k # 0
  BY <1>1
<1> HIDE DEF D
<1>6. text[0] = NoText(next)
  BY <1>3, <1>5, Zenon
<1>7. \A k \in 1..Len(Listed) : text[k] = AddLine(text[k - 1], Listed[k])
  BY <1>3, <1>5, Zenon
<1> QED
  BY <1>4, <1>6, <1>7

(* What the text is after k lines: the k lines, if all had room and no     *)
(* server behind the first had too many players; otherwise something in it *)
(* is not a line.                                                          *)
Fits(s) == playercount[s] <= VaBuffers - 2
Prefix(k) == [i \in 1..k |-> TrueLine(Listed[i])]
Good(k) ==
  /\ LineSize(TrueLine(Listed[k])) <= LineRoom /\ TextSize(Prefix(k)) <= TextRoom
  /\ k # 1 => Fits(Listed[k])
AfterLines(text, k) ==
  /\ Begun(text)
  /\ (\A i \in 1..k : Good(i)) => Content(text) = Prefix(k)
  /\ ~(\A i \in 1..k : Good(i)) => \E i \in 1..Len(Content(text)) : Content(text)[i] \in Shown

(* The first k lines are those before and the last of them.                *)
LEMMA PrefixAppend ==
  ASSUME NEW k \in Nat \ {0}
  PROVE  Append(Prefix(k - 1), TrueLine(Listed[k])) = Prefix(k)
<1> DEFINE All == {TrueLine(Listed[i]) : i \in 1..k}
<1>1. PICK line \in All : line = TrueLine(Listed[k])
  OBVIOUS
<1>2. PICK t : t = Prefix(k - 1)
  OBVIOUS
<1>3. t \in [1..(k - 1) -> All] /\ \A i \in 1..(k - 1) : t[i] = TrueLine(Listed[i])
  BY <1>2 DEF Prefix
<1> HIDE DEF All
<1>4. t \in Seq(All) /\ Len(t) = k - 1
  BY <1>3
<1>5. PICK u : u = Append(t, line)
  OBVIOUS
<1>6. /\ u \in Seq(All) /\ Len(u) = k /\ u[k] = line
      /\ \A i \in 1..(k - 1) : u[i] = t[i]
  BY <1>4, <1>5, AppendProperties
<1>7. u = [i \in 1..k |-> u[i]]
  BY <1>6
<1>8. \A i \in 1..k : u[i] = TrueLine(Listed[i])
  <2> SUFFICES ASSUME NEW i \in 1..k PROVE u[i] = TrueLine(Listed[i])
    OBVIOUS
  <2>1. CASE i = k
    BY <1>1, <1>6, <2>1
  <2>2. CASE i # k
    BY <1>3, <1>6, <2>2
  <2> QED
    BY <2>1, <2>2
<1>9. u = [i \in 1..k |-> TrueLine(Listed[i])]
  BY <1>7, <1>8
<1> QED
  BY <1>1, <1>2, <1>5, <1>9, Zenon DEF Prefix

(* What is not a line stays in a text that something is appended to, and   *)
(* is there when the thing appended is none.                               *)
LEMMA StaysWrong ==
  ASSUME NEW old \in Contents, NEW x \in Lines \cup Shown,
         x \in Shown \/ \E i \in 1..Len(old) : old[i] \in Shown
  PROVE  \E i \in 1..Len(Append(old, x)) : Append(old, x)[i] \in Shown
<1> HIDE DEF Lines, Shown
<1>1. PICK u : u = Append(old, x)
  OBVIOUS
<1>2. /\ Len(u) = Len(old) + 1 /\ u[Len(old) + 1] = x /\ Len(old) \in Nat
      /\ \A i \in 1..Len(old) : u[i] = old[i]
  BY <1>1, AppendProperties DEF Contents
<1>3. \E i \in 1..Len(u) : u[i] \in Shown
  <2>1. CASE x \in Shown
    BY <1>2, <2>1
  <2>2. CASE \E i \in 1..Len(old) : old[i] \in Shown
    <3>1. PICK i \in 1..Len(old) : old[i] \in Shown
      BY <2>2
    <3>2. i \in 1..Len(u) /\ u[i] \in Shown
      BY <1>2, <3>1
    <3> QED
      BY <3>2
  <2> QED
    BY <2>1, <2>2
<1> QED
  BY <1>1, <1>3

(* The first line, of any number of players: the text was the literal.     *)
LEMMA AfterFirst ==
  ASSUME TypeOK, NEW next \in Buffers, 1 \in 1..Len(Listed), LineTrue(Listed[1])
  PROVE  AfterLines(AddLine(NoText(next), Listed[1]), 1)
<1> DEFINE s == Listed[1]
           old == Prefix(0)
<1>1. s \in Servers /\ TrueLine(s) \in Lines
  BY ListedTrusted DEF LineTrue
<1>2. old = <<>> /\ old \in Contents
  <2>1. 1..0 = {}
    OBVIOUS
  <2> QED
    BY <2>1 DEF Prefix, Contents
<1>3. PICK text2 : text2 = AddLine(NoText(next), s)
  OBVIOUS
<1>4. Begun(text2) /\ Content(text2) = Append(old, Added(old, s))
  BY <1>1, <1>2, <1>3, FirstLine
<1>5. Append(old, TrueLine(s)) = Prefix(1)
  <2>1. 1 \in Nat \ {0} /\ 1 - 1 = 0
    OBVIOUS
  <2> QED
    BY <2>1, PrefixAppend
<1>6. HasRoom(old, TrueLine(s)) <=> Good(1)
  BY <1>5, Zenon DEF HasRoom, Good
<1>7. Added(old, s) = IF HasRoom(old, TrueLine(s)) THEN TrueLine(s) ELSE Junk
  BY AddedIsLine
<1>8. (\A i \in 1..1 : Good(i)) <=> Good(1)
  OBVIOUS
<1> HIDE DEF old
<1>9. CASE Good(1)
  BY <1>3, <1>4, <1>5, <1>6, <1>7, <1>8, <1>9, Zenon DEF AfterLines
<1>10. CASE ~Good(1)
  <2>1. Added(old, s) = Junk /\ Junk \in Shown
    BY <1>6, <1>7, <1>10 DEF Shown
  <2>2. \E i \in 1..Len(Content(text2)) : Content(text2)[i] \in Shown
    BY <1>2, <1>4, <2>1, StaysWrong, Zenon
  <2> QED
    BY <1>3, <1>4, <1>8, <1>10, <2>2, Zenon DEF AfterLines
<1> QED
  BY <1>9, <1>10

(* One more line keeps a true text true exactly if its server fits and     *)
(* there is room, and a text that is wrong stays wrong.                    *)
LEMMA AfterNext ==
  ASSUME TypeOK, NEW k \in 1..Len(Listed), k # 1, NEW text, AfterLines(text, k - 1),
         LineTrue(Listed[k])
  PROVE  AfterLines(AddLine(text, Listed[k]), k)
<1> DEFINE s == Listed[k]
           text2 == AddLine(text, s)
<1>1. /\ Len(Listed) \in Nat /\ k \in Nat \ {0} /\ s \in Servers /\ TrueLine(s) \in Lines
      /\ 1..k = (1..(k - 1)) \cup {k} /\ Begun(text)
  BY ListedTrusted DEF AfterLines, LineTrue
<1>2. /\ Begun(text2)
      /\ Fits(s) => Content(text2) = Append(Content(text), Added(Content(text), s))
      /\ ~Fits(s) => \E x \in Shown : Content(text2) = Append(<<x>>, Added(<<x>>, s))
  BY <1>1, LaterLine DEF Fits
<1> HIDE DEF text2
<1>3. Content(text) \in Contents
  BY <1>1 DEF Begun, Content
<1>4. \A old : /\ Added(old, s) = IF HasRoom(old, TrueLine(s)) THEN TrueLine(s) ELSE Junk
               /\ Added(old, s) \in Lines \cup Shown
  <2>1. Junk \in Shown
    BY DEF Shown
  <2>2. \A old : Added(old, s) = IF HasRoom(old, TrueLine(s)) THEN TrueLine(s) ELSE Junk
    BY AddedIsLine
  <2> HIDE DEF Lines, Shown
  <2> QED
    BY <1>1, <2>1, <2>2
<1>5. Append(Prefix(k - 1), TrueLine(s)) = Prefix(k)
  BY <1>1, PrefixAppend
<1>6. CASE \A i \in 1..k : Good(i)
  <2>1. /\ Content(text) = Prefix(k - 1) /\ Fits(s)
        /\ LineSize(TrueLine(s)) <= LineRoom /\ TextSize(Prefix(k)) <= TextRoom
    <3>1. Good(k) /\ \A i \in 1..(k - 1) : Good(i)
      BY <1>1, <1>6
    <3> QED
      BY <3>1, Zenon DEF AfterLines, Good
  <2>2. HasRoom(Content(text), TrueLine(s))
    BY <1>5, <2>1, Zenon DEF HasRoom
  <2>3. Content(text2) = Prefix(k)
    BY <1>2, <1>4, <1>5, <2>1, <2>2, Zenon
  <2> QED
    BY <1>2, <1>6, <2>3, Zenon DEF AfterLines, text2
<1>7. CASE ~ \A i \in 1..k : Good(i)
  <2>1. \E i \in 1..Len(Content(text2)) : Content(text2)[i] \in Shown
    <3>1. CASE ~Fits(s)
      <4>1. PICK x \in Shown : Content(text2) = Append(<<x>>, Added(<<x>>, s))
        BY <1>2, <3>1
      <4>2. <<x>> \in Contents /\ \E i \in 1..Len(<<x>>) : <<x>>[i] \in Shown
        <5>1. <<x>> \in Contents /\ Len(<<x>>) = 1 /\ <<x>>[1] = x
          BY DEF Contents
        <5> QED
          BY <5>1
      <4> QED
        BY <1>4, <4>1, <4>2, StaysWrong, Zenon
    <3>2. CASE Fits(s) /\ ~ \A i \in 1..(k - 1) : Good(i)
      <4>1. \E i \in 1..Len(Content(text)) : Content(text)[i] \in Shown
        BY <3>2 DEF AfterLines
      <4> QED
        BY <1>2, <1>3, <1>4, <3>2, <4>1, StaysWrong, Zenon
    <3>3. CASE Fits(s) /\ \A i \in 1..(k - 1) : Good(i)
      <4>1. Content(text) = Prefix(k - 1) /\ ~Good(k)
        BY <1>1, <1>7, <3>3 DEF AfterLines
      <4>2. ~HasRoom(Content(text), TrueLine(s))
        BY <1>5, <3>3, <4>1, Zenon DEF HasRoom, Good
      <4>3. Added(Content(text), s) = Junk /\ Junk \in Shown
        BY <1>4, <4>2 DEF Shown
      <4> QED
        BY <1>2, <1>3, <3>3, <4>3, StaysWrong, Zenon
    <3> QED
      BY <3>1, <3>2, <3>3
  <2> QED
    BY <1>2, <1>7, <2>1, Zenon DEF AfterLines, text2
<1> QED
  BY <1>6, <1>7

(* After every line.                                                       *)
LEMMA AfterEvery ==
  ASSUME TypeOK, NEW next \in Buffers, NEW text, text[0] = NoText(next),
         \A k \in 1..Len(Listed) : text[k] = AddLine(text[k - 1], Listed[k]),
         \A k \in 1..Len(Listed) : LineTrue(Listed[k])
  PROVE  \A k \in 1..Len(Listed) : AfterLines(text[k], k)
<1> DEFINE Unlike == {k \in 1..Len(Listed) : ~AfterLines(text[k], k)}
<1> SUFFICES ASSUME Unlike # {} PROVE FALSE
  OBVIOUS
<1>1. Len(Listed) \in Nat
  BY ListedTrusted
<1>2. PICK k \in Unlike : \A j \in Unlike : k <= j
  <2>1. Unlike \in SUBSET Nat
    BY <1>1
  <2> HIDE DEF Unlike
  <2> QED
    BY <2>1, LeastNumber
<1>3. k \in 1..Len(Listed) /\ ~AfterLines(text[k], k)
  BY <1>2
<1>4. CASE k = 1
  <2>1. text[1] = AddLine(NoText(next), Listed[1])
    <3>1. text[1] = AddLine(text[1 - 1], Listed[1]) /\ 1 - 1 = 0
      BY <1>3, <1>4
    <3> QED
      BY <3>1
  <2>2. AfterLines(AddLine(NoText(next), Listed[1]), 1)
    BY <1>3, <1>4, AfterFirst
  <2> QED
    BY <1>3, <1>4, <2>1, <2>2
<1>5. CASE k # 1
  <2>1. k - 1 \in 1..Len(Listed) /\ ~(k <= k - 1)
    BY <1>1, <1>3, <1>5
  <2>2. AfterLines(text[k - 1], k - 1)
    BY <1>2, <2>1
  <2>3. AfterLines(AddLine(text[k - 1], Listed[k]), k)
    BY <1>3, <1>5, <2>2, AfterNext
  <2> QED
    BY <1>3, <2>3
<1> QED
  BY <1>4, <1>5

(* Whatever the state of the table: when every listed server is in step    *)
(* and has players without a gap, the text names all and only what is      *)
(* there if and only if its lines and the whole have room and no server    *)
(* but the first has more players than there are buffers in va(), less     *)
(* two.                                                                    *)
THEOREM TextIsExact == Spec => []TextExact
<1>1. ASSUME TypeOK, SyncInv PROVE TextExact
  <2> SUFFICES ASSUME \A s \in Servers : trusted[s] => InSync(s) /\ Contiguous(s) /\ On(s) # {},
                      NEW next \in Buffers
               PROVE  BuildTeleportServers(next) = TrueText <=>
                        Roomy /\ \A k \in 2..Len(Listed) : Cardinality(On(Listed[k])) <= VaBuffers - 2
    BY DEF TextExact, Buffers
  <2> DEFINE n == Len(Listed)
  <2>1. /\ n \in Nat /\ DOMAIN Listed = 1..n
        /\ \A k \in 1..n : Listed[k] \in Servers /\ trusted[Listed[k]]
    BY ListedTrusted
  <2>2. \A k \in 1..n : LineTrue(Listed[k])
    BY <1>1, <2>1, LineIsTrue
  <2>3. PICK text :
          /\ text[0] = NoText(next)
          /\ \A k \in 1..Len(Listed) : text[k] = AddLine(text[k - 1], Listed[k])
          /\ BuildTeleportServers(next) =
               IF text[Len(Listed)].str = Literal THEN <<>>
               ELSE text[Len(Listed)].ring[text[Len(Listed)].str]
    BY TextByLines
  <2>4. \A k \in 1..n : AfterLines(text[k], k)
    BY <1>1, <2>2, <2>3, AfterEvery
  <2>5. \A k \in 1..n : Fits(Listed[k]) <=> Cardinality(On(Listed[k])) <= VaBuffers - 2
    BY <2>2 DEF Fits, LineTrue
  <2>6. TrueText = Prefix(n) /\ DOMAIN TrueText = 1..n
        /\ \A k \in 1..n : TrueText[k] = TrueLine(Listed[k]) /\ TrueText[k] \in Lines
    BY <2>1, <2>2 DEF TrueText, Prefix, LineTrue
  <2>7. \A k \in 1..n : SubSeq(TrueText, 1, k) = Prefix(k)
    <3> SUFFICES ASSUME NEW k \in 1..n PROVE SubSeq(TrueText, 1, k) = Prefix(k)
      OBVIOUS
    <3>1. \A i \in 1..k : i \in 1..n /\ 1 + i - 1 = i
      BY <2>1
    <3>2. SubSeq(TrueText, 1, k) = [i \in 1..k |-> TrueText[i]]
      BY <2>1, <2>6, <3>1
    <3> HIDE DEF n
    <3>3. [i \in 1..k |-> TrueText[i]] = [i \in 1..k |-> TrueLine(Listed[i])]
      BY <2>6, <3>1
    <3> QED
      BY <3>2, <3>3 DEF Prefix
  <2> HIDE DEF n
  <2>8. Roomy /\ (\A k \in 2..n : Cardinality(On(Listed[k])) <= VaBuffers - 2)
          <=> \A k \in 1..n : Good(k)
    <3>1. \A k : k \in 2..n <=> k \in 1..n /\ k # 1
      BY <2>1
    <3>2. Roomy <=> \A k \in 1..n : /\ LineSize(TrueLine(Listed[k])) <= LineRoom
                                    /\ TextSize(Prefix(k)) <= TextRoom
      BY <2>6, <2>7, Zenon DEF Roomy
    <3> QED
      BY <2>5, <3>1, <3>2, Zenon DEF Good
  <2>9. CASE n = 0
    <3>1. BuildTeleportServers(next) = <<>>
      BY <2>3, <2>9 DEF NoText, n
    <3>2. TrueText = <<>> /\ 1..n = {}
      BY <2>6, <2>9 DEF Prefix
    <3> QED
      BY <2>8, <3>1, <3>2 DEF n
  <2>10. CASE n # 0
    <3>1. n \in 1..n
      BY <2>1, <2>10
    <3>2. AfterLines(text[n], n)
      BY <2>4, <3>1
    <3>3. BuildTeleportServers(next) = Content(text[n])
      <4>1. text[n].str # Literal
        BY <3>2, PlayersAssumption DEF AfterLines, Begun, Buffers, Literal
      <4> QED
        BY <2>3, <4>1 DEF Content, n
    <3>4. CASE \A k \in 1..n : Good(k)
      <4>1. Content(text[n]) = TrueText
        BY <2>6, <3>2, <3>4, Zenon DEF AfterLines
      <4> QED
        BY <2>8, <3>3, <3>4, <4>1 DEF n
    <3>5. CASE ~ \A k \in 1..n : Good(k)
      <4>1. PICK i \in 1..Len(Content(text[n])) : Content(text[n])[i] \in Shown
        BY <3>2, <3>5 DEF AfterLines
      <4>2. Content(text[n]) # TrueText
        <5> SUFFICES ASSUME Content(text[n]) = TrueText PROVE FALSE
          OBVIOUS
        <5>1. Len(TrueText) = n
          BY <2>1, <2>6
        <5>2. i \in 1..n /\ TrueText[i] \in Shown
          BY <4>1, <5>1
        <5> QED
          BY <2>6, <5>2, LinesAssumption
      <4> QED
        BY <2>8, <3>3, <3>5, <4>2 DEF n
    <3> QED
      BY <3>4, <3>5
  <2> QED
    BY <2>9, <2>10
<1> QED
  BY <1>1, SyncAlways, PTL
=============================================================================
