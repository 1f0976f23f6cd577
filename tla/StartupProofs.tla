----------------------------- MODULE StartupProofs -----------------------------
(***************************************************************************)
(* What Startup promises about the connection to the database, the end in  *)
(* the signal handler, the list of servers and the values of the           *)
(* configuration, for every configuration, table and number of sockets.    *)
(***************************************************************************)
EXTENDS Startup, PollTableProofs, TLAPS

(* The handler: before SIGINT there is none; on the main thread it stops   *)
(* main() at the step it interrupted; beside it the main loop is running.  *)
HandlerInv ==
  /\ hthread \in {NULL, "main", "worker"}
  /\ disposition = "SignalCatcher" => hpc = "none"
  /\ hpc = "none" => interrupted = NULL
  /\ hpc = "none" <=> hthread = NULL
  /\ hthread = "main" => interrupted = pc
  /\ hthread = "worker" => pc \in {"socket", "poll"}

(* The pointer and the connection at every step of main().                 *)
PointerInv ==
  /\ hthread # "main" /\ pc \in {"Schema", "FailCloses"} => db # NULL
  /\ hthread # "main" /\ pc = "FailForgets" => handle = "closed"
  /\ hpc = "CloseDatabase" => db # NULL
  /\ hpc = "exit" => db = NULL
  /\ ended = "success" => hpc = "exit"

(* Where a connection may be left open without a pointer to it.            *)
OpenInv ==
  /\ res \in BOOLEAN /\ misused \in BOOLEAN
  /\ res => pc = "row"
  /\ hpc = "CloseForgets" /\ handle = "open" => interrupted = "row"
  /\ db = NULL /\ handle = "open" => interrupted = "row"

DbInv == HandlerInv /\ PointerInv /\ OpenInv /\ ClosedOnce

(* The sockets the handler has closed: those it has passed in this turn of *)
(* i, and all of them behind the loop.                                     *)
ClosedInv ==
  /\ i \in 0..(ByteSize - 1)
  /\ sockets \in Seq(Fd)
  /\ hthread = "main" /\ hpc # "none" =>
       \A k \in 1..Len(sockets) : hpc # "loop" \/ k <= i => sockets[k] \notin open
-----------------------------------------------------------------------------
(* The invariant about the database holds in the beginning.                *)
LEMMA DbInit == Init => DbInv
  BY StartupAssumption
  DEF Init, DbInv, HandlerInv, PointerInv, OpenInv, ClosedOnce

(* Every step keeps it.                                                    *)
LEMMA DbStep == DbInv /\ [Next]_vars => DbInv'
<1> USE StartupAssumption
<1> SUFFICES ASSUME DbInv, [Next]_vars PROVE DbInv'
  OBVIOUS
<1>1. CASE Signal
  <2>1. hpc = "none" /\ hthread = NULL
    BY <1>1 DEF Signal, Main, DbInv, HandlerInv
  <2> QED
    BY <1>1, <2>1 DEF Signal, Main, dbVars, DbInv, HandlerInv, PointerInv, OpenInv, ClosedOnce
<1>2. CASE LoadConfig
  BY <1>2
  DEF Main, LoadConfig, dbVars, DbInv, HandlerInv, PointerInv, OpenInv, ClosedOnce
<1>3. CASE OpenDatabase
  BY <1>3
  DEF Main, OpenDatabase, DbInv, HandlerInv, PointerInv, OpenInv, ClosedOnce
<1>4. CASE Schema
  BY <1>4
  DEF Main, Schema, Uses, DbInv, HandlerInv, PointerInv, OpenInv, ClosedOnce
<1>5. CASE FailCloses
  BY <1>5
  DEF Main, FailCloses, Uses, DbInv, HandlerInv, PointerInv, OpenInv, ClosedOnce
<1>6. CASE FailForgets
  BY <1>6
  DEF Main, FailForgets, DbInv, HandlerInv, PointerInv, OpenInv, ClosedOnce
<1>7. CASE LoadServers
  <2>1. hpc = "none" /\ hthread = NULL /\ pc = "LoadServers" /\ ~res
    BY <1>7 DEF Main, LoadServers, DbInv, HandlerInv, OpenInv
  <2>2. db # NULL => handle # "closed"
    BY <2>1 DEF DbInv, ClosedOnce
  <2>3. HandlerInv'
    BY <1>7, <2>1 DEF Main, LoadServers, DbInv, HandlerInv
  <2>4. misused' = misused
    BY <1>7, <2>1, <2>2 DEF Main, LoadServers, Uses, DbInv, OpenInv
  <2>5. db' = db /\ handle' = handle /\ ended' = ended /\ hpc' = hpc
        /\ interrupted' = interrupted /\ pc' \in {"row", "RunServer"}
    BY <1>7, <2>1 DEF Main, LoadServers
  <2>6. res' = FALSE \/ (res' = TRUE /\ pc' = "row")
    <3>1. res = FALSE
      BY <2>1 DEF DbInv, OpenInv
    <3>2. res' = res \/ (res' = TRUE /\ pc' = "row")
      BY <1>7 DEF Main, LoadServers
    <3> QED
      BY <3>1, <3>2
  <2> QED
    BY <2>1, <2>2, <2>3, <2>4, <2>5, <2>6
    DEF DbInv, HandlerInv, PointerInv, OpenInv, ClosedOnce
<1>8. CASE Row
  BY <1>8
  DEF Main, Row, dbVars, DbInv, HandlerInv, PointerInv, OpenInv, ClosedOnce
<1>9. CASE Finalize
  BY <1>9
  DEF Main, Finalize, DbInv, HandlerInv, PointerInv, OpenInv, ClosedOnce
<1>10. CASE RunServer
  BY <1>10
  DEF Main, RunServer, dbVars, DbInv, HandlerInv, PointerInv, OpenInv, ClosedOnce
<1>11. CASE Listen
  BY <1>11
  DEF Main, Listen, dbVars, DbInv, HandlerInv, PointerInv, OpenInv, ClosedOnce
<1>12. CASE NoListener
  BY <1>12
  DEF Main, NoListener, ExitFailure, dbVars, DbInv, HandlerInv, PointerInv, OpenInv, ClosedOnce
<1>13. CASE PollFails
  BY <1>13
  DEF Main, PollFails, ExitFailure, dbVars, DbInv, HandlerInv, PointerInv, OpenInv, ClosedOnce
<1>14. CASE Accept
  BY <1>14
  DEF Main, Accept, dbVars, DbInv, HandlerInv, PointerInv, OpenInv, ClosedOnce
<1>15. ASSUME NEW k \in 0..MaxSockets, Remove(k) PROVE DbInv'
  BY <1>15
  DEF Main, Remove, dbVars, DbInv, HandlerInv, PointerInv, OpenInv, ClosedOnce
<1>16. ASSUME NEW t \in Threads, Sigint(t) PROVE DbInv'
  <2>1. t \in {"main", "worker"} /\ (t = "worker" => pc \in {"socket", "poll"})
    BY DEF Threads
  <2>2. hpc = "none" /\ hthread = NULL /\ interrupted = NULL /\ ~misused
    BY <1>16 DEF Sigint, DbInv, HandlerInv, ClosedOnce
  <2>3. HandlerInv'
    BY <1>16, <2>1, <2>2 DEF Sigint, DbInv, HandlerInv
  <2>4. hpc' = "loop" /\ pc' = pc /\ ended' = ended /\ ended = "no" /\ UNCHANGED dbVars
    BY <1>16 DEF Sigint
  <2>5. (db = NULL => handle # "open") /\ (db # NULL /\ handle = "closed" => pc = "FailForgets")
    BY <2>2 DEF DbInv, OpenInv, ClosedOnce
  <2> QED
    BY <2>2, <2>3, <2>4, <2>5 DEF dbVars, DbInv, PointerInv, OpenInv, ClosedOnce
<1>17. CASE SigintKills
  BY <1>17 DEF SigintKills, dbVars, sigVars, DbInv, HandlerInv, PointerInv, OpenInv, ClosedOnce
<1>18. CASE SignalCatcher
  <2>1. CASE CloseNext
    BY <2>1 DEF CloseNext, Catcher, dbVars, DbInv, HandlerInv, PointerInv, OpenInv, ClosedOnce
  <2>2. CASE LoopEnds
    BY <2>2 DEF LoopEnds, Catcher, dbVars, DbInv, HandlerInv, PointerInv, OpenInv, ClosedOnce
  <2>3. CASE CloseDatabase
    BY <2>3 DEF CloseDatabase, Catcher, Uses, DbInv, HandlerInv, PointerInv, OpenInv, ClosedOnce
  <2>4. CASE CloseForgets
    BY <2>4 DEF CloseForgets, Catcher, DbInv, HandlerInv, PointerInv, OpenInv, ClosedOnce
  <2>5. CASE Exit
    BY <2>5 DEF Exit, Catcher, dbVars, DbInv, HandlerInv, PointerInv, OpenInv, ClosedOnce
  <2> QED
    BY <1>18, <2>1, <2>2, <2>3, <2>4, <2>5 DEF SignalCatcher
<1>19. CASE UNCHANGED vars
  BY <1>19 DEF vars, dbVars, sigVars, DbInv, HandlerInv, PointerInv, OpenInv, ClosedOnce
<1> QED
  BY <1>1, <1>2, <1>3, <1>4, <1>5, <1>6, <1>7, <1>8, <1>9, <1>10, <1>11, <1>12, <1>13,
     <1>14, <1>15, <1>16, <1>17, <1>18, <1>19 DEF Next

(* However SIGINT falls between the steps of main(), the connection to the *)
(* database is closed a second time, or used after it was closed, only if  *)
(* the signal came between sqlite3_close() and db = NULL in OpenDatabase.  *)
THEOREM ConnectionClosedOnce == Spec => []ClosedOnce
<1>1. Spec => []DbInv
  BY DbInit, DbStep, PTL DEF Spec
<1>2. DbInv => ClosedOnce
  BY DEF DbInv
<1> QED
  BY <1>1, <1>2, PTL
-----------------------------------------------------------------------------
(* Nothing is closed in the beginning, and nobody is said to be.           *)
LEMMA ClosedInit == Init => ClosedInv
  BY StartupAssumption DEF Init, ClosedInv

(* A rebuilt poll array holds descriptors and is no longer than it was.    *)
LEMMA RebuiltArray ==
  ASSUME sockets \in Seq(Fd), NEW k, Remove(k)
  PROVE  sockets' \in Seq(Fd) /\ Len(sockets') \in Nat /\ Len(sockets') <= Len(sockets)
<1>1. Len(sockets) \in Nat /\ \A j \in 1..Len(sockets) : sockets[j] \in Fd
  OBVIOUS
<1>2. PICK n \in 1..Len(sockets) : \E old \in [2..n -> (2..Len(sockets)) \ {k}] :
        sockets' = [p \in 1..n |-> IF p = 1 THEN sockets[1] ELSE sockets[old[p]]]
  BY DEF Remove
<1>3. PICK old \in [2..n -> (2..Len(sockets)) \ {k}] :
        sockets' = [p \in 1..n |-> IF p = 1 THEN sockets[1] ELSE sockets[old[p]]]
  BY <1>2
<1>4. ASSUME NEW p \in 1..n PROVE (IF p = 1 THEN sockets[1] ELSE sockets[old[p]]) \in Fd
  <2>1. CASE p = 1
    <3>1. 1 \in 1..Len(sockets)
      BY <1>1
    <3> QED
      BY <1>1, <2>1, <3>1
  <2>2. CASE p # 1
    <3>1. p \in 2..n
      BY <1>1, <2>2
    <3>2. old[p] \in 1..Len(sockets)
      BY <1>1, <3>1
    <3> QED
      BY <1>1, <2>2, <3>2
  <2> QED
    BY <2>1, <2>2
<1>5. PICK s : s = [p \in 1..n |-> IF p = 1 THEN sockets[1] ELSE sockets[old[p]]]
  OBVIOUS
<1>6. n \in Nat /\ s \in [1..n -> Fd] /\ n <= Len(sockets)
  BY <1>1, <1>4, <1>5
<1>7. s \in Seq(Fd) /\ Len(s) = n
  <2> HIDE <1>5
  <2> QED
    BY <1>6
<1> QED
  BY <1>3, <1>5, <1>6, <1>7

(* Every step keeps it; only accepts, removals and the handler touch it.   *)
LEMMA ClosedStep == DbInv /\ ClosedInv /\ [Next]_vars => ClosedInv'
<1> USE StartupAssumption
<1> SUFFICES ASSUME DbInv, ClosedInv, [Next]_vars PROVE ClosedInv'
  OBVIOUS
<1>1. ASSUME NEW l, NEW l2, Main(l, l2), i' = i, sockets' \in Seq(Fd) PROVE ClosedInv'
  BY <1>1 DEF Main, ClosedInv
<1>2. Len(sockets) \in Nat
  BY DEF ClosedInv
<1>3. CASE Listen
  <2>1. FreshFd \in Fd
    BY <1>3 DEF Listen, FreshFd
  <2> QED
    BY <1>1, <1>3, <2>1 DEF Listen, Main
<1>4. CASE Accept
  <2>1. FreshFd \in Fd
    BY <1>4 DEF Accept, FreshFd
  <2>2. sockets' \in Seq(Fd)
    BY <1>4, <2>1 DEF Accept, ClosedInv
  <2> QED
    BY <1>1, <1>4, <2>2 DEF Accept, Main
<1>5. ASSUME NEW k \in 0..MaxSockets, Remove(k) PROVE ClosedInv'
  <2>1. sockets' \in Seq(Fd)
    BY <1>5, RebuiltArray DEF ClosedInv
  <2> QED
    BY <1>1, <1>5, <2>1 DEF Remove, Main
<1>6. CASE /\ \E l, l2 : Main(l, l2)
           /\ UNCHANGED sockVars
  BY <1>1, <1>6 DEF Main, sockVars, ClosedInv
<1>7. ASSUME NEW t \in Threads, Sigint(t) PROVE ClosedInv'
  BY <1>7, <1>2 DEF Sigint, sockVars, ClosedInv
<1>8. CASE SigintKills
  BY <1>8 DEF SigintKills, sockVars, sigVars, ClosedInv
<1>9. CASE CloseNext
  <2>1. i' = i + 1 \/ i' = 0
    BY <1>9 DEF CloseNext, ClosedInv
  <2>2. i' \in 0..(ByteSize - 1)
    BY <1>9 DEF CloseNext, ClosedInv
  <2>3. hpc = "loop" /\ hpc' = "loop" /\ i < Len(sockets) /\ sockets' = sockets /\ hthread' = hthread
        /\ open' = open \ {sockets[i + 1]}
    BY <1>9 DEF CloseNext, Catcher, MoreSockets
  <2>4. ASSUME NEW k \in 1..Len(sockets), k <= i', hthread = "main" PROVE sockets[k] \notin open'
    <3>1. k = i + 1 \/ k <= i
      BY <2>1, <2>4 DEF ClosedInv
    <3> QED
      BY <3>1, <2>3, <2>4 DEF ClosedInv
  <2> QED
    BY <2>2, <2>3, <2>4 DEF ClosedInv
<1>10. CASE LoopEnds
  BY <1>10, <1>2 DEF LoopEnds, Catcher, MoreSockets, ClosedInv
<1>11. CASE CloseDatabase
  BY <1>11 DEF CloseDatabase, Catcher, ClosedInv
<1>12. CASE CloseForgets
  BY <1>12 DEF CloseForgets, Catcher, ClosedInv
<1>13. CASE Exit
  BY <1>13 DEF Exit, Catcher, ClosedInv
<1>14. CASE UNCHANGED vars
  BY <1>14 DEF vars, sockVars, sigVars, ClosedInv
<1>15. CASE Signal \/ LoadConfig \/ OpenDatabase \/ Schema \/ FailCloses \/ FailForgets
            \/ LoadServers \/ Row \/ Finalize \/ RunServer \/ NoListener \/ PollFails
  <2>1. \E l, l2 : Main(l, l2)
    BY <1>15 DEF Signal, LoadConfig, OpenDatabase, Schema, FailCloses, FailForgets,
                 LoadServers, Row, Finalize, RunServer, NoListener, PollFails
  <2>2. UNCHANGED sockVars
    BY <1>15 DEF Signal, LoadConfig, OpenDatabase, Schema, FailCloses, FailForgets,
                 LoadServers, Row, Finalize, RunServer, NoListener, PollFails
  <2> QED
    BY <1>6, <2>1, <2>2
<1> QED
  BY <1>3, <1>4, <1>5, <1>7, <1>8, <1>9, <1>10, <1>11, <1>12, <1>13, <1>14, <1>15
  DEF Next, SignalCatcher

(* A process that ends in the handler of SIGINT has let go of the database *)
(* and, if the handler ran on the main thread, of every socket of the poll *)
(* array, whatever was interrupted; only a row being read keeps the        *)
(* connection open.                                                        *)
THEOREM ExitIsClean == Spec => []ExitClean
<1>1. Init => DbInv /\ ClosedInv
  BY DbInit, ClosedInit
<1>2. DbInv /\ ClosedInv /\ [Next]_vars => (DbInv /\ ClosedInv)'
  BY DbStep, ClosedStep
<1>3. ASSUME DbInv, ClosedInv PROVE ExitClean
  <2>1. DOMAIN sockets = 1..Len(sockets)
    BY <1>3 DEF ClosedInv
  <2>2. ended = "success" => hpc = "exit" /\ db = NULL
    BY <1>3 DEF DbInv, PointerInv
  <2> QED
    BY <1>3, <2>1, <2>2 DEF DbInv, OpenInv, ClosedInv, ExitClean
<1> QED
  BY <1>1, <1>2, <1>3, PTL DEF Spec
-----------------------------------------------------------------------------
(* The walk over a list.                                                   *)

(* A path of n nodes along link, from the head to the head.                *)
Path(link, n, p) ==
  /\ p = [k \in 0..(n + 1) |-> p[k]]
  /\ p[0] = ListHead /\ p[n + 1] = ListHead
  /\ \A k \in 1..n : p[k] # ListHead
  /\ \A k \in 1..(n + 1) : p[k] = link[p[k - 1]]

(* A path is what a walk meets.                                            *)
LEMMA WalkPath ==
  ASSUME NEW n \in Nat, NEW link, NEW p, Path(link, n, p)
  PROVE  Walk(link, n) = [k \in 1..n |-> p[k]]
<1>0. /\ p = [k \in 0..(n + 1) |-> p[k]] /\ p[0] = ListHead /\ p[n + 1] = ListHead
      /\ \A k \in 1..n : p[k] # ListHead
      /\ \A k \in 1..(n + 1) : p[k] = link[p[k - 1]]
  BY DEF Path
<1> DEFINE D == 0..(n + 1)
           at[k \in D] == IF k = 0 THEN ListHead ELSE link[at[k - 1]]
<1>1. p = [k \in D |-> IF k = 0 THEN ListHead ELSE link[p[k - 1]]]
  <2>1. \A k \in D : k # 0 => k \in 1..(n + 1)
    OBVIOUS
  <2>2. \A k \in D : p[k] = IF k = 0 THEN ListHead ELSE link[p[k - 1]]
    BY <1>0, <2>1, Zenon
  <2> QED
    BY <1>0, <2>2
<1>2. at = [k \in D |-> IF k = 0 THEN ListHead ELSE link[at[k - 1]]]
  BY <1>1, Zenon
<1> HIDE DEF at
<1>3. \A k \in D : at[k] = p[k]
  <2> DEFINE Wrong == {k \in D : at[k] # p[k]}
  <2> SUFFICES ASSUME Wrong # {} PROVE FALSE
    OBVIOUS
  <2>1. Wrong \in SUBSET Nat
    OBVIOUS
  <2>2. PICK k \in Wrong : \A j \in Wrong : k <= j
    <3> HIDE DEF Wrong
    <3> QED
      BY <2>1, LeastNumber
  <2>3. k \in D /\ k # 0 /\ at[k] # p[k]
    BY <1>0, <1>2
  <2>4. k - 1 \in D /\ ~(k <= k - 1) /\ k \in 1..(n + 1)
    BY <2>3
  <2>5. at[k - 1] = p[k - 1]
    BY <2>2, <2>4
  <2>6. at[k] = link[at[k - 1]]
    BY <1>2, <2>3
  <2> QED
    BY <1>0, <2>3, <2>4, <2>5, <2>6
<1> DEFINE stop == CHOOSE k \in 1..(n + 2) :
                     /\ k = n + 2 \/ at[k] = ListHead
                     /\ \A j \in 1..(k - 1) : at[j] # ListHead
<1>4. n + 1 - 1 = n /\ n + 1 \in D /\ n + 1 \in 1..(n + 2) /\ \A j \in 1..n : j \in D
  OBVIOUS
<1>5. at[n + 1] = ListHead /\ \A j \in 1..n : at[j] # ListHead
  BY <1>0, <1>4, <1>3
<1> HIDE DEF D
<1>6. stop = n + 1
  <2>1. n + 1 \in 1..(n + 2) /\ at[n + 1] = ListHead /\ \A j \in 1..(n + 1 - 1) : at[j] # ListHead
    BY <1>4, <1>5
  <2>2. ASSUME NEW k \in 1..(n + 2), k = n + 2 \/ at[k] = ListHead,
               \A j \in 1..(k - 1) : at[j] # ListHead
        PROVE  k = n + 1
    <3>1. CASE k \in 1..n
      BY <1>5, <2>2, <3>1
    <3>2. CASE k = n + 2
      <4>1. n + 1 \in 1..(k - 1)
        BY <3>2
      <4> QED
        BY <2>1, <2>2, <4>1
    <3> QED
      BY <3>1, <3>2
  <2> QED
    BY <2>1, <2>2
<1>7. Walk(link, n) = [k \in 1..(stop - 1) |-> at[k]]
  BY Zenon DEF Walk, at, stop, D
<1> HIDE DEF stop
<1>8. stop - 1 = n /\ \A k \in 1..n : at[k] = p[k]
  BY <1>4, <1>3, <1>6
<1> QED
  BY <1>7, <1>8
-----------------------------------------------------------------------------
(* The list of servers.                                                    *)

(* The node at place k of a ring of n nodes: the head is in front of the   *)
(* first and behind the last.                                              *)
At(n, k) == IF k = 0 \/ k = n + 1 THEN ListHead ELSE k

(* The list is the ring of the nodes 1, ..., n, in both directions.        *)
Ring(l, n) ==
  \A k \in 0..n : l.next[At(n, k)] = At(n, k + 1) /\ l.prev[At(n, k + 1)] = At(n, k)

(* Appending the next node to a ring gives the ring with it.               *)
LEMMA RingAppend ==
  ASSUME NEW l \in Lists, NEW n \in Nat, 1..(n + 1) \subseteq Elems, Ring(l, n)
  PROVE  /\ List_Append(l, ListHead, n + 1) \in Lists
         /\ Ring(List_Append(l, ListHead, n + 1), n + 1)
<1> DEFINE l2 == List_Append(l, ListHead, n + 1)
<1>1. /\ ListHead \in Nodes /\ n + 1 \in Nodes /\ n + 1 # ListHead
      /\ \A k \in 1..(n + 1) : k \in Nodes /\ k # ListHead
  BY LinkedListAssumption DEF Nodes
<1>2. l.next \in [Nodes -> Nodes] /\ l.prev \in [Nodes -> Nodes]
  BY DEF Lists
<1>3. l.prev[ListHead] = At(n, n) /\ l.next[At(n, n)] = ListHead
  <2>1. n \in 0..n /\ At(n, n + 1) = ListHead
    BY DEF At
  <2> QED
    BY <2>1 DEF Ring
<1>4. At(n, n) \in Nodes /\ At(n, n) # n + 1
  BY <1>1 DEF At
<1>5. /\ l2.next = [l.next EXCEPT ![At(n, n)] = n + 1, ![n + 1] = ListHead]
      /\ l2.prev = [l.prev EXCEPT ![ListHead] = n + 1, ![n + 1] = At(n, n)]
      /\ l2 = [next |-> l2.next, prev |-> l2.prev]
  BY <1>3 DEF List_Append, List_Link
<1> HIDE DEF l2
<1>6. l2 \in Lists
  BY <1>1, <1>2, <1>4, <1>5 DEF Lists
<1>7. ASSUME NEW k \in 0..(n + 1)
      PROVE  l2.next[At(n + 1, k)] = At(n + 1, k + 1) /\ l2.prev[At(n + 1, k + 1)] = At(n + 1, k)
  <2>1. CASE k = n + 1
    <3>1. At(n + 1, k) = n + 1 /\ At(n + 1, k + 1) = ListHead
      BY <2>1 DEF At
    <3> QED
      BY <1>1, <1>2, <1>5, <3>1
  <2>2. CASE k = n
    <3>1. At(n + 1, k) = At(n, n) /\ At(n + 1, k + 1) = n + 1
      BY <2>2 DEF At
    <3> QED
      BY <1>1, <1>2, <1>4, <1>5, <3>1
  <2>3. CASE k < n
    <3>1. k \in 0..n /\ At(n + 1, k) = At(n, k) /\ At(n + 1, k + 1) = At(n, k + 1)
          /\ At(n, k + 1) = k + 1 /\ k + 1 \in 1..n /\ k \in 0..(n - 1)
      BY <2>3 DEF At
    <3>2. /\ At(n, k) # At(n, n) /\ At(n, k) # n + 1 /\ At(n, k) \in Nodes
          /\ At(n, k + 1) # ListHead /\ At(n, k + 1) # n + 1 /\ At(n, k + 1) \in Nodes
      BY <1>1, <3>1 DEF At
    <3>3. l.next[At(n, k)] = At(n, k + 1) /\ l.prev[At(n, k + 1)] = At(n, k)
      BY <3>1 DEF Ring
    <3> QED
      BY <1>2, <1>5, <3>1, <3>2, <3>3
  <2> QED
    BY <2>1, <2>2, <2>3
<1> QED
  BY <1>6, <1>7 DEF Ring, l2

(* A ring is walked from the first node to the last, and back.             *)
LEMMA RingWalk ==
  ASSUME NEW l, NEW n \in Nat, 1..n \subseteq Elems, Ring(l, n)
  PROVE  /\ Walk(l.next, n) = [k \in 1..n |-> k]
         /\ Walk(l.prev, n) = [k \in 1..n |-> n + 1 - k]
<1>1. \A k \in 1..n : k # ListHead
  BY LinkedListAssumption
<1> DEFINE p == [k \in 0..(n + 1) |-> At(n, k)]
           q == [k \in 0..(n + 1) |-> At(n, n + 1 - k)]
<1>2. /\ p = [k \in 0..(n + 1) |-> p[k]] /\ p[0] = ListHead /\ p[n + 1] = ListHead
      /\ \A k \in 1..n : p[k] = k
  BY DEF At
<1>3. \A k \in 1..(n + 1) : p[k] = l.next[p[k - 1]]
  <2> SUFFICES ASSUME NEW k \in 1..(n + 1) PROVE p[k] = l.next[p[k - 1]]
    OBVIOUS
  <2>1. k - 1 \in 0..n /\ k \in 0..(n + 1) /\ k - 1 \in 0..(n + 1) /\ (k - 1) + 1 = k
    OBVIOUS
  <2>2. l.next[At(n, k - 1)] = At(n, k)
    BY <2>1 DEF Ring
  <2> QED
    BY <2>1, <2>2
<1>4. /\ q = [k \in 0..(n + 1) |-> q[k]] /\ q[0] = ListHead /\ q[n + 1] = ListHead
      /\ \A k \in 1..n : q[k] = n + 1 - k
  BY DEF At
<1>5. \A k \in 1..(n + 1) : q[k] = l.prev[q[k - 1]]
  <2> SUFFICES ASSUME NEW k \in 1..(n + 1) PROVE q[k] = l.prev[q[k - 1]]
    OBVIOUS
  <2>1. /\ k \in 0..(n + 1) /\ k - 1 \in 0..(n + 1) /\ n + 1 - k \in 0..n
        /\ n + 1 - (k - 1) = (n + 1 - k) + 1
    OBVIOUS
  <2>2. l.prev[At(n, (n + 1 - k) + 1)] = At(n, n + 1 - k)
    BY <2>1 DEF Ring
  <2> QED
    BY <2>1, <2>2
<1> HIDE DEF p, q
<1>6. \A k \in 1..n : p[k] # ListHead
  BY <1>1, <1>2
<1>7. \A k \in 1..n : q[k] # ListHead
  <2>1. \A k \in 1..n : n + 1 - k \in 1..n
    OBVIOUS
  <2> QED
    BY <1>1, <1>4, <2>1
<1>8. Walk(l.next, n) = [k \in 1..n |-> p[k]]
  <2>1. Path(l.next, n, p)
    BY <1>2, <1>3, <1>6, Zenon DEF Path
  <2> QED
    BY <2>1, WalkPath
<1>9. Walk(l.prev, n) = [k \in 1..n |-> q[k]]
  <2>1. Path(l.prev, n, q)
    BY <1>4, <1>5, <1>7, Zenon DEF Path
  <2> QED
    BY <2>1, WalkPath
<1> QED
  BY <1>2, <1>4, <1>8, <1>9

(* The rows taken so far, in their order, and the ring that was made of    *)
(* them.                                                                   *)
RowsInv ==
  /\ table \in Seq(BOOLEAN) /\ Len(table) <= Cardinality(Elems)
  /\ row \in 0..Len(table) /\ servers \in Seq(1..Len(table)) /\ Len(servers) <= row
  /\ list \in Lists /\ Ring(list, Len(servers))
  /\ {servers[k] : k \in 1..Len(servers)} = {k \in Enabled : k <= row}
  /\ \A j, k \in 1..Len(servers) : j < k => servers[j] < servers[k]

(* The step of main() at which the list is still empty, and those at which *)
(* it is complete unless SQLite failed.                                    *)
LoadInv ==
  /\ dbFailed \in BOOLEAN
  /\ pc \in {"main", "LoadConfig", "OpenDatabase", "Schema", "FailCloses", "FailForgets",
             "LoadServers"} => servers = <<>> /\ row = 0
  /\ pc \in {"FailCloses", "FailForgets"} => dbFailed
  /\ hthread # "main" /\ pc = "LoadServers" /\ db = NULL => dbFailed
  /\ pc \in {"RunServer", "socket", "poll"} => dbFailed \/ Rest = {}

(* The main loop, SIGINT and the handler leave table, list and servers.    *)
LEMMA RowsTouched ==
  ASSUME [Next]_vars
  PROVE  UNCHANGED listVars \/ LoadServers \/ Row
<1>1. ASSUME NEW k \in 0..MaxSockets, Remove(k) PROVE UNCHANGED listVars
  BY <1>1 DEF Remove
<1>2. ASSUME NEW t \in Threads, Sigint(t) PROVE UNCHANGED listVars
  BY <1>2 DEF Sigint
<1>3. CASE SignalCatcher
  BY <1>3 DEF SignalCatcher, CloseNext, LoopEnds, CloseDatabase, CloseForgets, Exit, Catcher
<1>4. CASE Signal \/ LoadConfig \/ OpenDatabase \/ Schema \/ FailCloses \/ FailForgets
           \/ Finalize \/ RunServer \/ Listen \/ NoListener \/ PollFails \/ Accept \/ SigintKills
  BY <1>4 DEF Signal, LoadConfig, OpenDatabase, Schema, FailCloses, FailForgets, Finalize,
              RunServer, Listen, NoListener, PollFails, Accept, SigintKills
<1>5. CASE UNCHANGED vars
  BY <1>5 DEF vars, listVars
<1> QED
  BY <1>1, <1>2, <1>3, <1>4, <1>5 DEF Next

(* The rows and the ring in the beginning.                                 *)
LEMMA RowsInit == Init => RowsInv
<1> SUFFICES ASSUME Init PROVE RowsInv
  OBVIOUS
<1>1. table \in Seq(BOOLEAN) /\ Len(table) <= Cardinality(Elems) /\ row = 0 /\ servers = <<>>
  BY InputAssumption DEF Init
<1>2. Len(servers) = 0 /\ Len(table) \in Nat /\ servers \in Seq(1..Len(table))
  BY <1>1
<1>3. list \in Lists /\ Ring(list, 0)
  <2>1. ListHead \in Nodes /\ list = [next |-> [n \in Nodes |-> ListHead], prev |-> [n \in Nodes |-> ListHead]]
    BY DEF Init, Nodes
  <2> QED
    BY <2>1 DEF Lists, Ring, At
<1>4. {k \in Enabled : k <= row} = {} /\ {servers[k] : k \in 1..Len(servers)} = {}
  BY <1>1, <1>2 DEF Enabled
<1> QED
  BY <1>1, <1>2, <1>3, <1>4 DEF RowsInv

(* Every step keeps them.                                                  *)
LEMMA RowsStep == RowsInv /\ LoadInv /\ [Next]_vars => RowsInv'
<1> SUFFICES ASSUME RowsInv, LoadInv, [Next]_vars PROVE RowsInv'
  OBVIOUS
<1>1. CASE UNCHANGED listVars
  BY <1>1 DEF listVars, RowsInv, Enabled
<1>2. CASE LoadServers
  <2>1. servers = <<>> /\ UNCHANGED <<table, row, servers>> /\ list' = List_Init(list)
    BY <1>2 DEF LoadServers, Main, LoadInv
  <2>2. Len(servers) = 0 /\ ListHead \in Nodes
    BY <2>1 DEF Nodes
  <2>3. list'.next = [list.next EXCEPT ![ListHead] = ListHead]
        /\ list'.prev = [list.prev EXCEPT ![ListHead] = ListHead]
        /\ list' = [next |-> list'.next, prev |-> list'.prev]
    BY <2>1 DEF List_Init
  <2>4. list' \in Lists /\ Ring(list', 0)
    BY <2>2, <2>3 DEF RowsInv, Lists, Ring, At
  <2> QED
    BY <2>1, <2>2, <2>4 DEF RowsInv, Enabled
<1>3. CASE Row
  <2> DEFINE n == Len(servers)
             next == CHOOSE k \in Rest : \A j \in Rest : k <= j
  <2>1. /\ Rest # {} /\ row' = next /\ servers' = Append(servers, row')
        /\ list' = List_Append(list, ListHead, Len(servers')) /\ table' = table
    BY <1>3 DEF Row
  <2>2. DOMAIN table = 1..Len(table) /\ Len(table) \in Nat /\ row \in Nat /\ n \in Nat /\ n <= row
        /\ servers \in Seq(1..Len(table))
    BY DEF RowsInv
  <2>3. row' \in Rest /\ \A j \in Rest : row' <= j
    <3>1. Rest \in SUBSET Nat
      BY <2>2 DEF Rest, Enabled
    <3>2. \E k \in Rest : \A j \in Rest : k <= j
      BY <2>1, <3>1, LeastNumber
    <3> QED
      BY <2>1, <3>2
  <2> HIDE DEF next
  <2>4. row' \in 1..Len(table) /\ row' > row /\ row' \in Enabled
    BY <2>2, <2>3 DEF Rest, Enabled
  <2>5. /\ servers' \in Seq(1..Len(table)) /\ Len(servers') = n + 1 /\ servers'[n + 1] = row'
        /\ \A k \in 1..n : servers'[k] = servers[k]
    BY <2>1, <2>2, <2>4
  <2>6. \A k \in 1..n : servers[k] \in Enabled /\ servers[k] <= row
    BY DEF RowsInv
  <2>7. n + 1 <= row' /\ n + 1 <= Cardinality(Elems)
    <3>1. Cardinality(Elems) \in Nat
      BY InputAssumption, FS_CardinalityType
    <3> QED
      BY <2>2, <2>4, <3>1 DEF RowsInv
  <2>8. list' \in Lists /\ Ring(list', n + 1)
    <3>1. list' = List_Append(list, ListHead, n + 1)
      BY <2>1, <2>5
    <3>2. 1..(n + 1) \subseteq Elems
      <4>1. Cardinality(Elems) \in Nat /\ Elems = 1..Cardinality(Elems)
        BY InputAssumption, FS_CardinalityType
      <4> QED
        BY <2>2, <2>7, <4>1
    <3> QED
      BY <2>2, <3>1, <3>2, RingAppend DEF RowsInv
  <2>9. {servers'[k] : k \in 1..(n + 1)} = {k \in Enabled : k <= row'}
    <3>1. ASSUME NEW k \in 1..(n + 1) PROVE servers'[k] \in Enabled /\ servers'[k] <= row'
      <4>1. CASE k = n + 1
        BY <2>2, <2>4, <2>5, <4>1
      <4>2. CASE k # n + 1
        <5>1. k \in 1..n
          BY <2>2, <4>2
        <5>2. servers'[k] \in Enabled /\ servers'[k] <= row
          BY <2>5, <2>6, <5>1
        <5>3. servers'[k] \in Nat
          BY <2>2, <5>2 DEF Enabled
        <5> QED
          BY <2>2, <2>4, <5>2, <5>3
      <4> QED
        BY <4>1, <4>2
    <3>2. ASSUME NEW x \in Enabled, x <= row' PROVE \E k \in 1..(n + 1) : servers'[k] = x
      <4>1. x \in Nat
        BY <2>2 DEF Enabled
      <4>2. CASE x <= row
        <5>1. x \in {servers[k] : k \in 1..n}
          BY <3>2, <4>2 DEF RowsInv
        <5>2. PICK k \in 1..n : servers[k] = x
          BY <5>1
        <5>3. k \in 1..(n + 1)
          BY <2>2
        <5> QED
          BY <2>5, <5>2, <5>3
      <4>3. CASE ~(x <= row)
        <5>1. x \in Rest
          BY <2>2, <3>2, <4>1, <4>3 DEF Rest
        <5>2. x = row'
          BY <2>3, <2>4, <3>2, <4>1, <5>1
        <5>3. n + 1 \in 1..(n + 1)
          BY <2>2
        <5> QED
          BY <2>5, <5>2, <5>3
      <4> QED
        BY <4>2, <4>3
    <3> QED
      BY <3>1, <3>2
  <2>10. ASSUME NEW j \in 1..(n + 1), NEW k \in 1..(n + 1), j < k PROVE servers'[j] < servers'[k]
    <3>1. j \in 1..n
      BY <2>2, <2>10
    <3>2. CASE k = n + 1
      <4>1. servers'[j] \in Enabled /\ servers'[j] <= row
        BY <2>5, <2>6, <3>1
      <4>2. servers'[j] \in Nat
        BY <2>2, <4>1 DEF Enabled
      <4> QED
        BY <2>2, <2>4, <2>5, <3>2, <4>1, <4>2
    <3>3. CASE k # n + 1
      <4>1. k \in 1..n
        BY <2>2, <3>3
      <4> QED
        BY <2>5, <2>10, <3>1, <4>1 DEF RowsInv
    <3> QED
      BY <3>2, <3>3
  <2>11. Enabled' = Enabled
    BY <2>1 DEF Enabled
  <2> HIDE DEF n
  <2>12. RowsInv'
    BY <2>1, <2>2, <2>4, <2>5, <2>7, <2>8, <2>9, <2>10, <2>11 DEF RowsInv
  <2> QED
    BY <2>12
<1> QED
  BY <1>1, <1>2, <1>3, RowsTouched

(* What is loaded in the beginning.                                        *)
LEMMA LoadInit == Init => LoadInv
  BY DEF Init, LoadInv

(* Every step keeps the list empty or complete where it should be.         *)
LEMMA LoadStep == DbInv /\ LoadInv /\ [Next]_vars => LoadInv'
<1> USE StartupAssumption
<1> SUFFICES ASSUME DbInv, LoadInv, [Next]_vars PROVE LoadInv'
  OBVIOUS
<1>1. UNCHANGED listVars => servers' = servers /\ row' = row /\ Rest' = Rest
  BY DEF listVars, Rest, Enabled
<1>2. CASE UNCHANGED listVars /\ UNCHANGED <<pc, dbFailed, db, hthread>>
  BY <1>1, <1>2 DEF LoadInv
<1>3. CASE Signal \/ LoadConfig
  BY <1>1, <1>3 DEF Signal, LoadConfig, Main, dbVars, LoadInv
<1>4. CASE OpenDatabase
  BY <1>1, <1>4 DEF OpenDatabase, Main, LoadInv
<1>5. CASE Schema
  <2>1. db # NULL
    BY <1>5 DEF Schema, Main, DbInv, PointerInv
  <2> QED
    BY <1>1, <1>5, <2>1 DEF Schema, Main, LoadInv
<1>6. CASE FailCloses
  BY <1>1, <1>6 DEF FailCloses, Main, LoadInv
<1>7. CASE FailForgets
  BY <1>1, <1>7 DEF FailForgets, Main, LoadInv
<1>8. CASE LoadServers
  BY <1>8 DEF LoadServers, Main, LoadInv
<1>9. CASE Row
  BY <1>9 DEF Row, Main, dbVars, LoadInv
<1>10. CASE Finalize
  BY <1>1, <1>10 DEF Finalize, Main, LoadInv
<1>11. CASE RunServer \/ Listen \/ NoListener \/ PollFails \/ Accept
  BY <1>1, <1>11 DEF RunServer, Listen, NoListener, PollFails, Accept, Main, dbVars, LoadInv
<1>12. ASSUME NEW k \in 0..MaxSockets, Remove(k) PROVE LoadInv'
  BY <1>1, <1>12 DEF Remove, Main, dbVars, LoadInv
<1>13. ASSUME NEW t \in Threads, Sigint(t) PROVE LoadInv'
  <2>1. hthread = NULL
    BY <1>13 DEF Sigint, DbInv, HandlerInv
  <2> QED
    BY <1>1, <1>13, <2>1 DEF Sigint, dbVars, LoadInv
<1>14. CASE SigintKills
  BY <1>2, <1>14 DEF SigintKills, dbVars, sigVars
<1>15. CASE CloseNext \/ LoopEnds \/ CloseDatabase \/ Exit
  BY <1>2, <1>15 DEF CloseNext, LoopEnds, CloseDatabase, Exit, Catcher, dbVars
<1>16. CASE CloseForgets
  <2>1. hthread = "main" \/ pc \in {"socket", "poll"}
    BY <1>16 DEF CloseForgets, Catcher, DbInv, HandlerInv
  <2> QED
    BY <1>1, <1>16, <2>1 DEF CloseForgets, Catcher, LoadInv
<1>17. CASE UNCHANGED vars
  BY <1>2, <1>17 DEF vars, dbVars, sigVars
<1> QED
  BY <1>3, <1>4, <1>5, <1>6, <1>7, <1>8, <1>9, <1>10, <1>11, <1>12, <1>13, <1>14, <1>15,
     <1>16, <1>17 DEF Next, SignalCatcher

(* Servers in a strictly increasing order, of every enabled row, are as    *)
(* many as these rows.                                                     *)
LEMMA AllServers ==
  ASSUME RowsInv, Rest = {}
  PROVE  Len(servers) = Cardinality(Enabled)
<1> DEFINE n == Len(servers)
<1>1. /\ n \in Nat /\ row \in Nat /\ Enabled \subseteq Nat
      /\ {servers[k] : k \in 1..n} = {k \in Enabled : k <= row}
      /\ \A j, k \in 1..n : j < k => servers[j] < servers[k]
  BY DEF RowsInv, Enabled
<1>2. {k \in Enabled : k <= row} = Enabled
  <2>1. ASSUME NEW x \in Enabled PROVE x <= row
    <3>1. ~(x > row)
      BY DEF Rest
    <3> QED
      BY <1>1, <3>1
  <2> QED
    BY <2>1
<1>3. {servers[k] : k \in 1..n} = Enabled
  BY <1>1, <1>2
<1> DEFINE f == [k \in 1..n |-> servers[k]]
<1>4. f \in [1..n -> Enabled]
  BY <1>3
<1>5. f \in Surjection(1..n, Enabled)
  BY <1>3, <1>4 DEF Surjection
<1>6. f \in Injection(1..n, Enabled)
  <2>1. ASSUME NEW j \in 1..n, NEW k \in 1..n, j < k PROVE f[j] # f[k]
    <3>1. f[j] \in Nat /\ f[k] \in Nat /\ f[j] < f[k]
      BY <1>1, <1>4, <2>1
    <3> QED
      BY <3>1
  <2>2. \A j, k \in 1..n : f[j] = f[k] => j = k
    BY <1>1, <2>1
  <2> QED
    BY <1>4, <2>2 DEF Injection, IsInjective
<1>7. f \in Bijection(1..n, Enabled)
  BY <1>5, <1>6 DEF Bijection
<1>8. ExistsBijection(1..n, Enabled)
  BY <1>7 DEF ExistsBijection
<1> QED
  BY <1>1, <1>8, FS_CountingElements

(* The list of servers is a ring that gives the enabled rows in the order  *)
(* of the table forward and in the opposite order backward, however many   *)
(* there are, and the main loop begins with all of them unless SQLite      *)
(* failed.                                                                 *)
THEOREM ServersLoaded == Spec => []ListLoaded
<1>1. Init => DbInv /\ RowsInv /\ LoadInv
  BY DbInit, RowsInit, LoadInit
<1>2. DbInv /\ RowsInv /\ LoadInv /\ [Next]_vars => (DbInv /\ RowsInv /\ LoadInv)'
  BY DbStep, RowsStep, LoadStep
<1>3. ASSUME RowsInv, LoadInv PROVE ListLoaded
  <2> DEFINE n == Len(servers)
  <2>1. n \in Nat /\ 1..n \subseteq Elems
    <3>1. Cardinality(Elems) \in Nat /\ Elems = 1..Cardinality(Elems)
      BY InputAssumption, FS_CardinalityType
    <3>2. n \in Nat /\ n <= Cardinality(Elems)
      BY <1>3, <3>1 DEF RowsInv
    <3> QED
      BY <3>1, <3>2
  <2>2. Ring(list, n)
    BY <1>3 DEF RowsInv
  <2>3. /\ Walk(list.next, n) = [k \in 1..n |-> k]
        /\ Walk(list.prev, n) = [k \in 1..n |-> n + 1 - k]
    BY <2>1, <2>2, RingWalk
  <2>4. pc = "poll" => (dbFailed \/ n = Cardinality(Enabled))
    BY <1>3, AllServers DEF LoadInv
  <2>5. /\ {servers[k] : k \in 1..n} = {k \in Enabled : k <= row}
        /\ \A j, k \in 1..n : j < k => servers[j] < servers[k]
    BY <1>3 DEF RowsInv
  <2> QED
    BY <2>3, <2>4, <2>5, Zenon DEF ListLoaded
<1> QED
  BY <1>1, <1>2, <1>3, PTL DEF Spec
-----------------------------------------------------------------------------
(* The configuration.                                                      *)

(* What the constants allow.                                               *)
LEMMA Limits ==
  /\ UINT8_MAX \in Nat /\ 1 <= UINT8_MAX /\ UINT16_MAX \in Nat
  /\ MaxThreads \in Nat /\ 2 <= MaxThreads /\ MaxThreads <= UINT8_MAX
  /\ MaxPort \in Nat /\ 9988 <= MaxPort /\ MaxPort <= UINT16_MAX
<1>1. UINT8_MAX \in Nat /\ 1 <= UINT8_MAX /\ UINT16_MAX \in Nat
  BY DEF UINT8_MAX, UINT16_MAX
<1> QED
  BY <1>1, InputAssumption

(* Every value of the configuration fits its type, and after a file that   *)
(* was missing or could be parsed its limits.                              *)
NumbersInv ==
  /\ config.port \in Nat /\ config.port <= UINT16_MAX
  /\ config.debug \in Nat /\ config.debug <= 1
  /\ config.threads \in Nat /\ config.threads <= UINT8_MAX
  /\ file \in {"missing", "read"} =>
       /\ 1 <= config.threads /\ config.threads <= MaxThreads
       /\ 1 <= config.port /\ config.port <= MaxPort

(* The database is opened after the file was read, and only by then has    *)
(* the pointer a value.                                                    *)
NamesInv ==
  /\ config = File(config.port, config.debug, config.threads, config.db_file,
                   config.private_key, config.public_key)
  /\ pc \in {"main", "LoadConfig", "OpenDatabase"} => db = NULL
  /\ db # NULL => config.db_file # NoName

(* The configuration in the beginning.                                     *)
LEMMA ConfigInit == Init => NumbersInv /\ NamesInv
  BY StartupAssumption, Limits DEF Init, Zeroed, File, NumbersInv, NamesInv

(* Reading the file sets every number within its limits.                   *)
LEMMA NumbersStep == NumbersInv /\ NamesInv /\ [Next]_vars => NumbersInv'
<1> SUFFICES ASSUME NumbersInv, NamesInv, [Next]_vars PROVE NumbersInv'
  OBVIOUS
<1>1. CASE UNCHANGED <<config, file>>
  BY <1>1 DEF NumbersInv
<1>2. CASE LoadConfig
  <2>1. CASE file' = "missing" /\ config' = Defaults
    BY <2>1, Limits DEF Defaults, File, NumbersInv
  <2>2. CASE file' = "unparsable" /\ UNCHANGED config
    BY <2>2 DEF NumbersInv
  <2>3. ASSUME NEW f \in Files, config' = Read(f) PROVE NumbersInv'
    <3>1. f.port \in Int /\ f.debug \in Int /\ f.threads \in Int
      BY InputAssumption
    <3>2. /\ config'.port = Number(f.port, 1, MaxPort, 9988)
          /\ config'.debug = Number(f.debug, 0, 1, 0)
          /\ config'.threads = Number(f.threads, 1, MaxThreads, 2)
      BY <2>3 DEF Read, File
    <3>3. config'.port \in Nat /\ 1 <= config'.port /\ config'.port <= MaxPort
      BY <3>1, <3>2, Limits DEF Number, Clamp
    <3>4. config'.debug \in Nat /\ config'.debug <= 1
      BY <3>1, <3>2 DEF Number, Clamp
    <3>5. config'.threads \in Nat /\ 1 <= config'.threads /\ config'.threads <= MaxThreads
      BY <3>1, <3>2, Limits DEF Number, Clamp
    <3> QED
      BY <3>3, <3>4, <3>5, Limits DEF NumbersInv
  <2> QED
    BY <1>2, <2>1, <2>2, <2>3 DEF LoadConfig
<1>3. CASE OpenDatabase
  <2>1. file' = file /\ config' = [config EXCEPT !.db_file = IF @ = NoName THEN Default ELSE @]
    BY <1>3 DEF OpenDatabase
  <2>2. config'.port = config.port /\ config'.debug = config.debug
        /\ config'.threads = config.threads
    BY <2>1 DEF NamesInv, File
  <2> QED
    BY <2>1, <2>2 DEF NumbersInv
<1>4. LoadConfig \/ OpenDatabase \/ UNCHANGED <<config, file>>
  BY DEF Next, SignalCatcher, Signal, Schema, FailCloses, FailForgets, LoadServers, Row,
         Finalize, RunServer, Listen, NoListener, PollFails, Accept, Remove, Sigint,
         SigintKills, CloseNext, LoopEnds, CloseDatabase, CloseForgets, Exit, Catcher,
         configVars, vars
<1> QED
  BY <1>1, <1>2, <1>3, <1>4

(* The database has a name when it is opened.                              *)
LEMMA NamesStep == DbInv /\ NamesInv /\ [Next]_vars => NamesInv'
<1> USE StartupAssumption
<1> SUFFICES ASSUME DbInv, NamesInv, [Next]_vars PROVE NamesInv'
  OBVIOUS
<1>1. CASE UNCHANGED config /\ db' \in {db, NULL}
           /\ pc' \notin {"main", "LoadConfig", "OpenDatabase"}
  BY <1>1 DEF NamesInv
<1>2. CASE UNCHANGED <<config, db, pc>>
  BY <1>2 DEF NamesInv
<1>3. CASE Signal
  BY <1>3 DEF Signal, Main, configVars, dbVars, NamesInv
<1>4. CASE LoadConfig
  <2>1. config' = File(config'.port, config'.debug, config'.threads, config'.db_file,
                       config'.private_key, config'.public_key)
    BY <1>4 DEF LoadConfig, Defaults, Read, File, NamesInv
  <2> QED
    BY <1>4, <2>1 DEF LoadConfig, Main, dbVars, NamesInv
<1>5. CASE OpenDatabase
  <2>1. config' = [config EXCEPT !.db_file = IF @ = NoName THEN Default ELSE @]
    BY <1>5 DEF OpenDatabase
  <2>2. config'.db_file # NoName
    BY <2>1 DEF NamesInv, File, NoName, Default
  <2>3. config' = File(config'.port, config'.debug, config'.threads, config'.db_file,
                       config'.private_key, config'.public_key)
    BY <2>1 DEF NamesInv, File
  <2>4. pc' \notin {"main", "LoadConfig", "OpenDatabase"}
    BY <1>5 DEF OpenDatabase, Main
  <2> QED
    BY <2>2, <2>3, <2>4 DEF NamesInv
<1>6. CASE Schema \/ FailCloses \/ FailForgets \/ LoadServers \/ Row \/ Finalize \/ RunServer
           \/ Listen \/ NoListener \/ PollFails \/ Accept
  BY <1>1, <1>6 DEF Schema, FailCloses, FailForgets, LoadServers, Row, Finalize, RunServer,
                    Listen, NoListener, PollFails, Accept, Main, configVars, dbVars
<1>7. ASSUME NEW k \in 0..MaxSockets, Remove(k) PROVE NamesInv'
  BY <1>2, <1>7 DEF Remove, Main, configVars, dbVars
<1>8. ASSUME NEW t \in Threads, Sigint(t) PROVE NamesInv'
  BY <1>2, <1>8 DEF Sigint, configVars, dbVars
<1>9. CASE SigintKills \/ CloseNext \/ LoopEnds \/ CloseDatabase \/ Exit
  BY <1>2, <1>9 DEF SigintKills, CloseNext, LoopEnds, CloseDatabase, Exit, Catcher, configVars,
                    dbVars
<1>10. CASE CloseForgets
  BY <1>10 DEF CloseForgets, Catcher, configVars, NamesInv
<1>11. CASE UNCHANGED vars
  BY <1>2, <1>11 DEF vars, configVars, dbVars
<1> QED
  BY <1>3, <1>4, <1>5, <1>6, <1>7, <1>8, <1>9, <1>10, <1>11 DEF Next, SignalCatcher

(* Whatever numbers and names a file holds, the limits hold for what the   *)
(* server starts with, and the database is never opened without a name.    *)
THEOREM ConfigIsSane == Spec => []ConfigSane
<1>1. Init => DbInv /\ NumbersInv /\ NamesInv
  BY DbInit, ConfigInit
<1>2. DbInv /\ NumbersInv /\ NamesInv /\ [Next]_vars => (DbInv /\ NumbersInv /\ NamesInv)'
  BY DbStep, NumbersStep, NamesStep
<1>3. ASSUME NumbersInv, NamesInv PROVE ConfigSane
  <2>1. file \in {"missing", "read"} =>
          config.threads \in 1..MaxThreads /\ config.port \in 1..MaxPort
    BY <1>3, Limits DEF NumbersInv
  <2>2. config.debug \in {0, 1}
    BY <1>3 DEF NumbersInv
  <2> QED
    BY <1>3, <2>1, <2>2 DEF NamesInv, ConfigSane
<1> QED
  BY <1>1, <1>2, <1>3, PTL DEF Spec
-----------------------------------------------------------------------------
(* The types.                                                              *)

(* The values of the variables of which no other invariant speaks.         *)
ValuesInv ==
  /\ ended \in {"no", "success", "failure", "killed"}
  /\ db \in {NULL, "connection"} /\ handle \in {"none", "open", "closed"}
  /\ open \subseteq Fd /\ Len(sockets) <= MaxSockets

(* These values in the beginning.                                          *)
LEMMA ValuesInit == Init => ValuesInv
  BY StartupAssumption DEF Init, ValuesInv

(* Every step keeps them; the poll array grows only while it has room.     *)
LEMMA ValuesStep == ClosedInv /\ ValuesInv /\ [Next]_vars => ValuesInv'
<1> USE StartupAssumption
<1> SUFFICES ASSUME ClosedInv, ValuesInv, [Next]_vars PROVE ValuesInv'
  OBVIOUS
<1>1. Len(sockets) \in Nat /\ DOMAIN sockets = 1..Len(sockets) /\ sockets \in Seq(Fd)
  BY DEF ClosedInv
<1>2. CASE UNCHANGED sockVars /\ ended' \in {ended, "success", "failure", "killed"}
           /\ db' \in {db, NULL, "connection"} /\ handle' \in {handle, "open", "closed"}
  BY <1>2 DEF sockVars, ValuesInv
<1>3. CASE Signal \/ LoadConfig \/ OpenDatabase \/ Schema \/ FailCloses \/ FailForgets
           \/ LoadServers \/ Row \/ Finalize \/ RunServer \/ NoListener \/ PollFails
  BY <1>2, <1>3 DEF Signal, LoadConfig, OpenDatabase, Schema, FailCloses, FailForgets, LoadServers,
                    Row, Finalize, RunServer, NoListener, PollFails, ExitFailure, Main, dbVars
<1>4. CASE Listen
  <2>1. FreshFd \in Fd /\ open' = open \cup {FreshFd} /\ sockets' = <<FreshFd>>
    BY <1>4 DEF Listen, FreshFd
  <2>2. open' \subseteq Fd /\ Len(sockets') <= MaxSockets
    BY <2>1 DEF ValuesInv
  <2> QED
    BY <1>4, <2>2 DEF Listen, Main, dbVars, ValuesInv
<1>5. CASE Accept
  <2>1. FreshFd \in Fd /\ open' = open \cup {FreshFd} /\ sockets' = Append(sockets, FreshFd)
        /\ Len(sockets) < MaxSockets
    BY <1>5 DEF Accept, FreshFd
  <2>2. open' \subseteq Fd /\ Len(sockets') <= MaxSockets
    BY <1>1, <2>1 DEF ValuesInv
  <2> QED
    BY <1>5, <2>2 DEF Accept, Main, dbVars, ValuesInv
<1>6. ASSUME NEW k \in 0..MaxSockets, Remove(k) PROVE ValuesInv'
  <2>1. open' \subseteq open /\ Len(sockets') \in Nat /\ Len(sockets') <= Len(sockets)
    BY <1>1, <1>6, RebuiltArray DEF Remove
  <2>4. open' \subseteq Fd /\ Len(sockets') <= MaxSockets
    BY <1>1, <2>1 DEF ValuesInv
  <2> QED
    BY <1>6, <2>4 DEF Remove, Main, dbVars, ValuesInv
<1>7. ASSUME NEW t \in Threads, Sigint(t) PROVE ValuesInv'
  BY <1>2, <1>7 DEF Sigint, dbVars
<1>8. CASE SigintKills
  BY <1>2, <1>8 DEF SigintKills, dbVars
<1>9. CASE LoopEnds \/ CloseDatabase \/ CloseForgets \/ Exit
  BY <1>2, <1>9 DEF LoopEnds, CloseDatabase, CloseForgets, Exit, Catcher, sockVars, dbVars
<1>10. CASE CloseNext
  BY <1>10 DEF CloseNext, Catcher, dbVars, ValuesInv
<1>11. CASE UNCHANGED vars
  BY <1>2, <1>11 DEF vars, dbVars
<1> QED
  BY <1>3, <1>4, <1>5, <1>6, <1>7, <1>8, <1>9, <1>10, <1>11 DEF Next, SignalCatcher

(* Every variable has its type in every reachable state, and the numbers   *)
(* of the configuration fit the fields they are stored in.                 *)
THEOREM StartupTypes == Spec => []TypeOK
<1> DEFINE Inv == DbInv /\ ClosedInv /\ RowsInv /\ LoadInv /\ NumbersInv /\ NamesInv /\ ValuesInv
<1>1. Init => Inv
  BY DbInit, ClosedInit, RowsInit, LoadInit, ConfigInit, ValuesInit
<1>2. Inv /\ [Next]_vars => Inv'
  BY DbStep, ClosedStep, RowsStep, LoadStep, NumbersStep, NamesStep, ValuesStep
<1>3. ASSUME Inv PROVE TypeOK
  <2>1. /\ config.port \in 0..UINT16_MAX
        /\ config.debug \in 0..UINT8_MAX /\ config.threads \in 0..UINT8_MAX
    BY <1>3, Limits DEF NumbersInv
  <2>2. /\ ended \in {"no", "success", "failure", "killed"}
        /\ db \in {NULL, "connection"} /\ handle \in {"none", "open", "closed"}
        /\ open \subseteq Fd /\ Len(sockets) <= MaxSockets
    BY <1>3 DEF ValuesInv
  <2>3. res \in BOOLEAN /\ dbFailed \in BOOLEAN /\ misused \in BOOLEAN /\ i \in 0..(ByteSize - 1)
    BY <1>3 DEF DbInv, OpenInv, LoadInv, ClosedInv
  <2>4. row \in 0..Len(table) /\ list \in Lists /\ Len(servers) <= row
    BY <1>3 DEF RowsInv
  <2> QED
    BY <2>1, <2>2, <2>3, <2>4 DEF TypeOK
<1> HIDE DEF Inv
<1> QED
  BY <1>1, <1>2, <1>3, PTL DEF Spec
=============================================================================
