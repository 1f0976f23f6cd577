---------------------------- MODULE MCThreadPool ----------------------------
(* Instances of ThreadPool for TLC.  The runs check liveness or action     *)
(* properties, so none of them uses symmetry.                              *)
EXTENDS ThreadPool
=============================================================================
