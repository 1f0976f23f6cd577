------------------------------ MODULE PollTable ------------------------------
(***************************************************************************)
(* The layout remove_server_socket() gives to the poll array: slot 0 is    *)
(* the listener, and the connected servers follow in the order of the      *)
(* server list, without gaps.  A server is its position in that list, so   *)
(* the list order is the order of the natural numbers.                     *)
(***************************************************************************)
EXTENDS Naturals, FiniteSets

(* The slot the loop over the list assigns to the connected server s when  *)
(* C is the set of connected servers: i starts at 1 and is incremented     *)
(* once per connected server.                                              *)
Rank(C, s) == Cardinality({t \in C : t <= s})

(* The connected server that is written to slot j.                         *)
Occupant(C, j) == CHOOSE s \in C : Rank(C, s) = j

(* Mutant of SlotsUsed: the listener's slot is not counted.                *)
SlotsUsedByServers(C) == Cardinality(C)

(* socket_count after the loop.                                            *)
SlotsUsed(C) == Cardinality(C) + 1
=============================================================================
