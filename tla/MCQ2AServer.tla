---------------------------- MODULE MCQ2AServer ----------------------------
(* Instances of Q2AServer for TLC.                                         *)
EXTENDS Q2AServer, TLC

\* Descriptors are interchangeable in the runs that check safety only.
Symmetry == Permutations(Fds)

\* Who connects: the two registered servers, or those and other visitors.
BothServers == {1, 2}
OneServer == {1}
Everyone == {1, 2, Peer, Stranger}
=============================================================================
