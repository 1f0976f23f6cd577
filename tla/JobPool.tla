------------------------------- MODULE JobPool -------------------------------
(***************************************************************************)
(* What the thread pool promises: submitted jobs start in the order of     *)
(* their submission, each one at most once, and run to their end; the jobs *)
(* still waiting when the pool is destroyed are discarded, and only once   *)
(* no job is running.                                                      *)
(***************************************************************************)
EXTENDS Sequences

CONSTANT Jobs

VARIABLES
  submitted,  (* jobs given to the pool                                     *)
  waiting,    (* jobs that have not started, oldest first                   *)
  running,    (* jobs that have started                                     *)
  done        (* jobs that have finished                                    *)

vars == <<submitted, waiting, running, done>>

Init == submitted = {} /\ waiting = <<>> /\ running = {} /\ done = {}

Submit(j) ==
  /\ j \notin submitted
  /\ submitted' = submitted \cup {j}
  /\ waiting' = Append(waiting, j)
  /\ UNCHANGED <<running, done>>

Start ==
  /\ waiting # <<>>
  /\ Head(waiting) \notin running \cup done
  /\ running' = running \cup {Head(waiting)}
  /\ waiting' = Tail(waiting)
  /\ UNCHANGED <<submitted, done>>

Finish(j) ==
  /\ j \in running
  /\ running' = running \ {j}
  /\ done' = done \cup {j}
  /\ UNCHANGED <<submitted, waiting>>

Discard ==
  /\ running = {}
  /\ waiting' = <<>>
  /\ UNCHANGED <<submitted, running, done>>

Next == Start \/ Discard \/ \E j \in Jobs : Submit(j) \/ Finish(j)

Spec == Init /\ [][Next]_vars
=============================================================================
