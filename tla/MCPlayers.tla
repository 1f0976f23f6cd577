------------------------------ MODULE MCPlayers ------------------------------
(* Instances of Players for TLC.                                           *)
EXTENDS Players

\* The last server of the list plays; the others have told everything about
\* any number of players that no longer come or go, or have never connected.
Active == NumServers
Quiet == Servers \ {Active}

\* One name is longer than the others: twice, it is too long for the line of
\* the active server but not for a quiet one's, and the two lines together
\* are too long for the text when the quiet one has it twice.
LongName == CHOOSE name \in Names : TRUE
MCWidth == [name \in Shown |-> IF name = LongName THEN 2 ELSE 1]
MCHeading == [s \in Servers |-> s]

MCInit ==
  \E n \in [Quiet -> 1..(ByteSize - 1)], there \in SUBSET Quiet :
    LET quiet(s) == s \in there
        on(s, id) == quiet(s) /\ id < n[s]
    IN /\ present = [s \in Servers |-> [id \in Ids |->
                       IF s \in Quiet /\ on(s, id) THEN LongName ELSE NoName]]
       /\ up = [s \in Servers |-> quiet(s)] /\ told = up /\ trusted = up
       /\ wire = [s \in Servers |-> <<>>]
       /\ players = [s \in Servers |-> [id \in Ids |->
                       IF s \in Quiet /\ on(s, id) THEN Player(id, LongName) ELSE NoPlayer]]
       /\ playercount = [s \in Servers |-> IF quiet(s) THEN n[s] ELSE 0]
       /\ maxclients \in {m \in [Servers -> MaxClients] : \A s \in Quiet : m[s] = ByteSize}
       /\ hung = NULL

\* What waits behind the first message matters only when a list swallows it,
\* and what is lost by that only when it is a list; the quiet have no part in
\* it, nor in what a message that was cut leaves behind; that is tried with
\* the lesser number of clients.
Alone == \A s \in Quiet : ~up[s]
Queued(w) == Len(w) > 1 => (\A k \in DOMAIN w : w[k].cmd = "PLAYERLIST") /\ Alone

\* When a list is read for ever nothing more is parsed: the instance stops.
MCNext ==
  /\ hung = NULL
  /\ \/ Game(Active) /\ Queued(wire'[Active])
     \/ ParseWhole(Active)
     \/ Alone /\ maxclients[Active] < ByteSize /\ ParseInParts(Active)
MCSpec == MCInit /\ [][MCNext]_vars
=============================================================================
