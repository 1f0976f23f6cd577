------------------------------ MODULE InfoString ------------------------------
(***************************************************************************)
(* The userinfo string of a player, \key\value\key\value..., as a sequence *)
(* of bytes, and Info_ValueForKey, which the handlers read a name with.    *)
(***************************************************************************)
EXTENDS Naturals, Sequences

Backslash == 92
NameKey == <<110, 97, 109, 101>>     (* "name"                              *)

(* The next backslash of s at or after k, or the terminator behind s.      *)
FieldEnd(s, k) ==
  CHOOSE e \in k..(Len(s) + 1) :
    /\ e = Len(s) + 1 \/ s[e] = Backslash
    /\ \A j \in k..(e - 1) : s[j] # Backslash

FirstField(s) == IF s # <<>> /\ s[1] = Backslash THEN 2 ELSE 1

(* The loop of Info_ValueForKey: a key up to a backslash, a value up to a  *)
(* backslash or the end.  A key without a value ends the search, and so    *)
(* does the end of the string.                                             *)
Info_ValueForKey(s, key) ==
  LET from[k \in 1..(Len(s) + 1)] ==
        LET keyEnd == FieldEnd(s, k)
            valueEnd == FieldEnd(s, keyEnd + 1)
        IN IF keyEnd > Len(s) THEN <<>>
           ELSE IF SubSeq(s, k, keyEnd - 1) = key THEN SubSeq(s, keyEnd + 1, valueEnd - 1)
           ELSE IF valueEnd > Len(s) THEN <<>>
           ELSE from[valueEnd + 1]
  IN from[FirstField(s)]

(* What a game client writes: the pairs in order.                          *)
Userinfo(pairs) ==
  LET text[n \in 0..Len(pairs)] ==
        IF n = 0 THEN <<>>
        ELSE text[n - 1] \o <<Backslash>> \o pairs[n].key \o <<Backslash>> \o pairs[n].value
  IN text[Len(pairs)]

(* The value of the first pair with the key, or nothing.                   *)
ValueIn(pairs, key) ==
  LET found == {k \in DOMAIN pairs : pairs[k].key = key}
  IN IF found = {} THEN <<>> ELSE pairs[CHOOSE k \in found : \A j \in found : k <= j].value
=============================================================================
