------------------------------- MODULE MCStream -------------------------------
(* Instances of Stream for TLC.                                            *)
EXTENDS Stream

A == 65
HighB == 66 + 128      \* a coloured letter
Pair(key, value) == [key |-> key, value |-> value]
Skin == Pair(<<115>>, <<A>>)
NameFirst == <<Pair(NameKey, <<HighB>>), Skin>>
NameLast == <<Skin, Pair(NameKey, <<A>>)>>
NameMissing == <<Skin>>
Userinfos == {NameFirst, NameLast, NameMissing}

\* One message of each kind; bytes after the command that are the numbers of
\* commands themselves (8, 3, 12, and in the texts 2, 5 and 13 with a count or
\* a length behind them, there and at the end of a buffer), an empty text, a
\* name before and behind another key, and none.
Long == [k \in 1..13 |-> A]

OneOfEach ==
  { Message("PING", 0, <<>>, <<>>),
    Message("DISCONNECT", 8, <<>>, <<>>),
    Message("MAP", 0, <<A>>, <<>>), Message("MAP", 0, <<>>, <<>>),
    Message("QUIT", 0, <<>>, <<>>),
    Message("PRINT", 3, <<HighB>>, <<>>),
    Message("MAP", 0, Long \o <<5, 1, 255>>, <<>>), Message("PRINT", 5, <<3, 2>>, <<>>),
    Message("MAP", 0, Long \o <<13, 8>>, <<>>), Message("PRINT", 13, <<A, 1, 2>>, <<>>),
    Message("TELEPORT", 1, <<>>, <<>>),
    Message("INVITE", 12, <<A>>, <<>>) }
  \cup
  { Message("CONNECT", 1, Userinfo(NameFirst), <<HighB>>),
    Message("PLAYERUPDATE", 1, Userinfo(NameLast), <<A>>),
    Message("PLAYERUPDATE", 0, Userinfo(NameMissing), <<>>) }
=============================================================================
