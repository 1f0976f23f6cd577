------------------------------ MODULE Directory ------------------------------
(***************************************************************************)
(* What the connection manager promises: which registered game server is   *)
(* reachable through which descriptor.  A descriptor belongs to at most    *)
(* one server, and each step changes the descriptor of at most one server. *)
(***************************************************************************)
CONSTANTS
  Servers,  (* the registered servers                                       *)
  Fds,      (* the descriptors                                              *)
  NoFd      (* not reachable                                                *)

VARIABLE owner  (* [Servers -> Fds \cup {NoFd}]                             *)

Init == owner = [s \in Servers |-> NoFd]

(* Server s is identified on a descriptor no server uses; a new connection *)
(* of a server replaces the one it had.                                    *)
Bind(s, f) ==
  /\ \A t \in Servers : owner[t] # f
  /\ owner' = [owner EXCEPT ![s] = f]

(* Server s quit, was refused, or its connection was lost.                 *)
Unbind(s) ==
  /\ owner[s] # NoFd
  /\ owner' = [owner EXCEPT ![s] = NoFd]

Next == \E s \in Servers : Unbind(s) \/ \E f \in Fds : Bind(s, f)

Spec == Init /\ [][Next]_owner
=============================================================================
