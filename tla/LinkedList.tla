------------------------------ MODULE LinkedList ------------------------------
(***************************************************************************)
(* The doubly linked ring of list.h, as far as the server uses it.  A list *)
(* is the two pointer fields of every node; the head is a node of its own. *)
(***************************************************************************)
EXTENDS Naturals, Sequences

CONSTANTS
  Elems,     (* the list_t members of the structures that are allocated     *)
  ListHead   (* the list_t of LIST_DECL                                     *)

ASSUME LinkedListAssumption == ListHead \notin Elems

Nodes == Elems \cup {ListHead}
Lists == [next : [Nodes -> Nodes], prev : [Nodes -> Nodes]]

List_Init(l) == [next |-> [l.next EXCEPT ![ListHead] = ListHead],
                 prev |-> [l.prev EXCEPT ![ListHead] = ListHead]]

(* Mutant of List_Link: the neighbour behind is not told.                  *)
List_LinkOneWay(l, prev, next, elem) ==
  [next |-> [l.next EXCEPT ![prev] = elem, ![elem] = next],
   prev |-> [l.prev EXCEPT ![elem] = prev]]

List_Link(l, prev, next, elem) ==
  [next |-> [l.next EXCEPT ![prev] = elem, ![elem] = next],
   prev |-> [l.prev EXCEPT ![next] = elem, ![elem] = prev]]

List_Append(l, tail, elem) == List_Link(l, l.prev[tail], tail, elem)

(* LIST_FOR_EACH: the nodes met from the head along link, of which there   *)
(* are no more than n before the head is met again.                        *)
Walk(link, n) ==
  LET at[k \in 0..(n + 1)] == IF k = 0 THEN ListHead ELSE link[at[k - 1]]
      stop == CHOOSE k \in 1..(n + 2) :
                /\ k = n + 2 \/ at[k] = ListHead
                /\ \A j \in 1..(k - 1) : at[j] # ListHead
  IN [k \in 1..(stop - 1) |-> at[k]]
=============================================================================
