-------------------------- MODULE ThreadPoolProofs --------------------------
(***************************************************************************)
(* Proofs about ThreadPool, for any finite number of threads, any set of   *)
(* jobs and any number of pauses.                                          *)
(***************************************************************************)
EXTENDS ThreadPool, TLAPS, FiniteSetTheorems

USE DEF At, Goto, MainGoto

(* What bsem_post does to the threads: it sends at most one blocked thread *)
(* back to the test of v, and one if there is any.                         *)
LEMMA PostEffect ==
  ASSUME TypeOK, NEW STATE locs, locs \in [Workers -> WorkerStates], Post(locs),
         \A w \in Workers : (pc[w] = "blocked") <=> (locs[w] = "blocked")
  PROVE  /\ v' = 1
         /\ pc' \in [Workers -> WorkerStates]
         /\ \A w \in Workers : pc'[w] = locs[w] \/ (pc[w] = "blocked" /\ pc'[w] = "wait")
         /\ Blocked # {} => \E w \in Workers : pc'[w] = "wait"
<1>1. CASE Blocked = {}
  BY <1>1 DEF Post
<1>2. CASE Blocked # {}
  <2>1. PICK w \in Blocked : pc' = [locs EXCEPT ![w] = "wait"]
    BY <1>2 DEF Post
  <2>2. w \in Workers /\ pc[w] = "blocked"
    BY DEF Blocked
  <2>3. v' = 1
    BY DEF Post
  <2> QED  BY <2>1, <2>2, <2>3 DEF WorkerStates
<1> QED  BY <1>1, <1>2

(* The places of the threads after a pull, before the semaphore is posted. *)
LEMMA AfterPullType ==
  ASSUME TypeOK, NEW w \in Workers, pc[w] = "pulled"
  PROVE  /\ AfterPull(w) \in [Workers -> WorkerStates]
         /\ \A x \in Workers : (pc[x] = "blocked") <=> (AfterPull(w)[x] = "blocked")
         /\ \A x \in Workers : x # w => AfterPull(w)[x] = pc[x]
         /\ AfterPull(w)[w] \in {"dec", "run"}
         /\ AfterPull(w)[w] = "run" => job[w] # NoJob
BY DEF AfterPull, TypeOK, WorkerStates
-----------------------------------------------------------------------------
(* The counters.                                                           *)

(* The threads that are counted form finite sets; a thread that is in one  *)
(* makes its counter positive.                                             *)
LEMMA CountsPositive ==
  ASSUME TypeOK, CountsExact
  PROVE  /\ IsFiniteSet(InJob) /\ IsFiniteSet(Counted)
         /\ \A w \in InJob : working >= 1
         /\ \A w \in Counted : alive >= 1
<1>1. IsFiniteSet(InJob) /\ IsFiniteSet(Counted)
  <2>1. InJob \in SUBSET Workers /\ Counted \in SUBSET Workers
    BY DEF InJob, Counted
  <2> QED  BY <2>1, PoolAssumption, FS_Subset
<1>2. working \in Nat /\ alive \in Nat
  BY DEF TypeOK
<1>3. (InJob # {} => working # 0) /\ (Counted # {} => alive # 0)
  BY <1>1, FS_EmptySet DEF CountsExact
<1> QED  BY <1>1, <1>2, <1>3

(* Every step keeps the types.                                             *)
LEMMA TypeStep ==
  ASSUME TypeOK, CountsExact, [Next]_vars
  PROVE  TypeOK'
<1> USE DEF WorkerStates, MainStates
<1>1. ASSUME NEW w \in Workers, Thread(w)
      PROVE  TypeOK'
  <2>1. CASE MarkAlive(w)
    BY <2>1 DEF MarkAlive, TypeOK, lockVars, queueVars, semVars, holdVars
  <2>2. CASE EnterLoop(w)
    BY <2>2 DEF EnterLoop, TypeOK, countVars, lockVars, queueVars, semVars, holdVars
  <2>3. CASE LeaveLoop(w)
    <3>1. alive >= 1
      BY <2>3, CountsPositive DEF LeaveLoop, Counted
    <3> QED
      BY <2>3, <3>1 DEF LeaveLoop, TypeOK, queueVars, semVars, holdVars
  <2>4. CASE ThreadExit(w)
    BY <2>4 DEF ThreadExit, TypeOK, countVars, queueVars, semVars, holdVars
  <2>5. CASE WaitTakes(w)
    BY <2>5 DEF WaitTakes, TypeOK, countVars, lockVars, queueVars, holdVars
  <2>6. CASE WaitBlocks(w)
    BY <2>6 DEF WaitBlocks, TypeOK, countVars, lockVars, queueVars, semVars, holdVars
  <2>7. CASE CountWorking(w)
    BY <2>7 DEF CountWorking, TypeOK, lockVars, queueVars, semVars, holdVars
  <2>8. CASE SkipJob(w)
    BY <2>8 DEF SkipJob, TypeOK, countVars, lockVars, queueVars, semVars, holdVars
  <2>9. CASE JobqueuePull(w)
    <3>1. queue \in Seq(Jobs)
      BY DEF TypeOK
    <3>2. queue' \in Seq(Jobs)
      BY <2>9, <3>1 DEF JobqueuePull
    <3>3. job' \in [Workers -> Jobs \cup {NoJob}]
      BY <2>9, <3>1 DEF JobqueuePull, TypeOK
    <3>4. \A x \in Workers : pc'[x] = "run" => job'[x] # NoJob
      BY <2>9 DEF JobqueuePull, TypeOK
    <3> QED
      BY <2>9, <3>2, <3>3, <3>4 DEF JobqueuePull, TypeOK, countVars, semVars, holdVars
  <2>10. CASE JobqueuePullPosts(w)
    <3>1. pc' \in [Workers -> WorkerStates] /\ v' \in {0, 1}
      BY <2>10, PostEffect, AfterPullType DEF JobqueuePullPosts, TypeOK
    <3>2. \A x \in Workers : pc'[x] = "run" => job[x] # NoJob
      <4>1. \A x \in Workers : pc'[x] = AfterPull(w)[x] \/ pc'[x] = "wait"
        BY <2>10, PostEffect, AfterPullType DEF JobqueuePullPosts
      <4> QED  BY <2>10, <4>1, AfterPullType DEF JobqueuePullPosts, TypeOK
    <3> QED
      BY <2>10, <3>1, <3>2 DEF JobqueuePullPosts, TypeOK, countVars, queueVars, holdVars
  <2>11. CASE RunJob(w)
    BY <2>11 DEF RunJob, TypeOK, countVars, lockVars, queueVars, semVars, holdVars
  <2>12. CASE CountIdle(w)
    <3>1. working >= 1
      BY <2>12, CountsPositive DEF CountIdle, InJob
    <3> QED
      BY <2>12, <3>1 DEF CountIdle, TypeOK, lockVars, queueVars, semVars, holdVars
  <2>13. CASE ThreadHold(w)
    BY <2>13 DEF ThreadHold, TypeOK, countVars, lockVars, queueVars, semVars
  <2>14. CASE ThreadReleased(w)
    BY <2>14 DEF ThreadReleased, TypeOK, countVars, lockVars, queueVars, semVars
  <2> QED
    BY <1>1, <2>1, <2>2, <2>3, <2>4, <2>5, <2>6, <2>7, <2>8, <2>9, <2>10, <2>11,
       <2>12, <2>13, <2>14 DEF Thread
<1>2. ASSUME NEW w \in Workers, SpuriousWakeup(w)
      PROVE  TypeOK'
  BY <1>2 DEF SpuriousWakeup, TypeOK, countVars, lockVars, queueVars, semVars, holdVars
<1>3. CASE InCall
  <2>1. CASE InitReturns
    BY <2>1 DEF InitReturns, TypeOK, countVars, lockVars, queueVars, semVars, holdVars
  <2>2. CASE JobqueuePush
    BY <2>2 DEF JobqueuePush, TypeOK, countVars, semVars, holdVars
  <2>3. CASE JobqueuePushPosts
    <3>1. /\ pc' \in [Workers -> WorkerStates] /\ v' \in {0, 1}
          /\ \A x \in Workers : pc'[x] = pc[x] \/ pc'[x] = "wait"
      BY <2>3, PostEffect DEF JobqueuePushPosts, TypeOK
    <3> QED
      BY <2>3, <3>1 DEF JobqueuePushPosts, TypeOK, countVars, holdVars
  <2>4. CASE WaitLocks
    BY <2>4 DEF WaitLocks, TypeOK, countVars, queueVars, semVars, holdVars
  <2>5. CASE WaitReadsLen
    BY <2>5 DEF WaitReadsLen, TypeOK, countVars, queueVars, semVars, holdVars
  <2>6. CASE WaitReadsWorking
    BY <2>6 DEF WaitReadsWorking, TypeOK, countVars, queueVars, semVars, holdVars
  <2>7. CASE DestroyPosts
    BY <2>7 DEF DestroyPosts, PostAll, TypeOK, countVars, lockVars, queueVars, holdVars
  <2>8. CASE DestroyFrees
    BY <2>8 DEF DestroyFrees, JobqueueClear, TypeOK, countVars, lockVars, holdVars
  <2> QED
    BY <1>3, <2>1, <2>2, <2>3, <2>4, <2>5, <2>6, <2>7, <2>8 DEF InCall
<1>4. CASE Call
  <2>1. ASSUME NEW j \in Jobs, AddWork(j)
        PROVE  TypeOK'
    BY <2>1 DEF AddWork, TypeOK, countVars, lockVars, semVars, holdVars
  <2>2. CASE ThpoolWait
    BY <2>2 DEF ThpoolWait, TypeOK, countVars, lockVars, queueVars, semVars, holdVars
  <2>3. CASE ThpoolPause
    BY <2>3 DEF ThpoolPause, TypeOK, countVars, lockVars, queueVars, semVars
  <2>4. CASE ThpoolResume
    BY <2>4 DEF ThpoolResume, TypeOK, countVars, lockVars, queueVars, semVars
  <2>5. CASE ThpoolDestroy
    BY <2>5 DEF ThpoolDestroy, TypeOK, countVars, lockVars, queueVars, semVars, holdVars
  <2> QED  BY <1>4, <2>1, <2>2, <2>3, <2>4, <2>5 DEF Call
<1>5. CASE WaitSpurious
  BY <1>5 DEF WaitSpurious, TypeOK, countVars, lockVars, queueVars, semVars, holdVars
<1>6. CASE UNCHANGED vars
  BY <1>6 DEF vars, TypeOK, countVars, lockVars, queueVars, semVars, holdVars
<1> QED  BY <1>1, <1>2, <1>3, <1>4, <1>5, <1>6 DEF Next

(* Every step keeps the counters exact: the two updates of a counter are   *)
(* the steps with which a thread joins and leaves the counted set, and a   *)
(* post moves threads inside one.                                          *)
LEMMA CountsStep ==
  ASSUME TypeOK, CountsExact, [Next]_vars
  PROVE  CountsExact'
<1> USE DEF WorkerStates
<1> DEFINE JobSame == InJob' = InJob /\ working' = working
           CountedSame == Counted' = Counted /\ alive' = alive
<1>1. IsFiniteSet(InJob) /\ IsFiniteSet(Counted)
  BY CountsPositive
<1>2. working \in Nat /\ alive \in Nat
  BY DEF TypeOK
<1>3. JobSame /\ CountedSame => CountsExact'
  BY DEF CountsExact
<1>4. ASSUME NEW w \in Workers, Thread(w)
      PROVE  CountsExact'
  <2>1. CASE MarkAlive(w)
    <3>1. Counted' = Counted \cup {w} /\ w \notin Counted /\ InJob' = InJob
      BY <2>1 DEF MarkAlive, Counted, InJob, TypeOK
    <3>2. alive' = alive + 1 /\ working' = working
      BY <2>1 DEF MarkAlive
    <3> QED  BY <1>1, <1>2, <3>1, <3>2, FS_AddElement DEF CountsExact
  <2>2. CASE LeaveLoop(w)
    <3>1. Counted' = Counted \ {w} /\ w \in Counted /\ InJob' = InJob
      BY <2>2 DEF LeaveLoop, Counted, InJob, TypeOK
    <3>2. alive' = alive - 1 /\ working' = working
      BY <2>2 DEF LeaveLoop
    <3> QED  BY <1>1, <1>2, <3>1, <3>2, FS_RemoveElement DEF CountsExact
  <2>3. CASE CountWorking(w)
    <3>1. InJob' = InJob \cup {w} /\ w \notin InJob /\ Counted' = Counted
      BY <2>3 DEF CountWorking, Counted, InJob, TypeOK
    <3>2. alive' = alive /\ working' = working + 1
      BY <2>3 DEF CountWorking
    <3> QED  BY <1>1, <1>2, <3>1, <3>2, FS_AddElement DEF CountsExact
  <2>4. CASE CountIdle(w)
    <3>1. InJob' = InJob \ {w} /\ w \in InJob /\ Counted' = Counted
      BY <2>4 DEF CountIdle, Counted, InJob, TypeOK
    <3>2. alive' = alive /\ working' = working - 1
      BY <2>4 DEF CountIdle
    <3> QED  BY <1>1, <1>2, <3>1, <3>2, FS_RemoveElement DEF CountsExact
  <2>5. CASE JobqueuePullPosts(w)
    <3>1. /\ AfterPull(w)[w] \in {"dec", "run"}
          /\ \A x \in Workers : x # w => AfterPull(w)[x] = pc[x]
      BY <2>5, AfterPullType DEF JobqueuePullPosts
    <3>2. /\ pc' \in [Workers -> WorkerStates]
          /\ \A x \in Workers : \/ pc'[x] = AfterPull(w)[x]
                                \/ pc[x] = "blocked" /\ pc'[x] = "wait"
      BY <2>5, PostEffect, AfterPullType DEF JobqueuePullPosts
    <3>3. pc[w] = "pulled" /\ working' = working /\ alive' = alive
      BY <2>5 DEF JobqueuePullPosts, countVars
    <3>4. InJob' = InJob /\ Counted' = Counted
      BY <3>1, <3>2, <3>3 DEF InJob, Counted
    <3> QED  BY <1>3, <3>3, <3>4
  <2>6. CASE \/ EnterLoop(w) \/ ThreadExit(w) \/ WaitTakes(w) \/ WaitBlocks(w)
             \/ SkipJob(w) \/ JobqueuePull(w) \/ RunJob(w)
    <3>1. working' = working /\ alive' = alive
      BY <2>6 DEF EnterLoop, ThreadExit, WaitTakes, WaitBlocks, SkipJob, JobqueuePull,
                  RunJob, countVars
    <3>2. InJob' = InJob /\ Counted' = Counted
      BY <2>6 DEF EnterLoop, ThreadExit, WaitTakes, WaitBlocks, SkipJob, JobqueuePull,
                  RunJob, InJob, Counted, TypeOK
    <3> QED  BY <1>3, <3>1, <3>2
  <2>7. CASE ThreadHold(w) \/ ThreadReleased(w)
    BY <1>3, <2>7 DEF ThreadHold, ThreadReleased, countVars, InJob, Counted
  <2> QED
    BY <1>4, <2>1, <2>2, <2>3, <2>4, <2>5, <2>6, <2>7 DEF Thread
<1>5. ASSUME NEW w \in Workers, SpuriousWakeup(w)
      PROVE  CountsExact'
  BY <1>3, <1>5 DEF SpuriousWakeup, countVars, InJob, Counted, TypeOK
<1>6. CASE InCall
  <2>1. working' = working /\ alive' = alive
    BY <1>6 DEF InCall, InitReturns, JobqueuePush, JobqueuePushPosts, WaitLocks,
                WaitReadsLen, WaitReadsWorking, DestroyPosts, DestroyFrees, countVars
  <2>2. CASE JobqueuePushPosts
    <3>1. /\ pc' \in [Workers -> WorkerStates]
          /\ \A x \in Workers : pc'[x] = pc[x] \/ (pc[x] = "blocked" /\ pc'[x] = "wait")
      BY <2>2, PostEffect DEF JobqueuePushPosts, TypeOK
    <3> QED  BY <1>3, <2>1, <3>1 DEF InJob, Counted
  <2>3. CASE DestroyPosts
    <3>1. InJob' = InJob /\ Counted' = Counted
      BY <2>3 DEF DestroyPosts, PostAll, Blocked, InJob, Counted, TypeOK
    <3> QED  BY <1>3, <2>1, <3>1
  <2>4. CASE ~JobqueuePushPosts /\ ~DestroyPosts
    <3>1. pc' = pc
      BY <1>6, <2>4 DEF InCall, InitReturns, JobqueuePush, WaitLocks, WaitReadsLen,
                        WaitReadsWorking, DestroyFrees
    <3> QED  BY <1>3, <2>1, <3>1 DEF InJob, Counted
  <2> QED  BY <2>2, <2>3, <2>4
<1>7. CASE Call \/ WaitSpurious \/ UNCHANGED vars
  <2>1. pc' = pc /\ working' = working /\ alive' = alive
    BY <1>7 DEF Call, AddWork, ThpoolWait, ThpoolPause, ThpoolResume, ThpoolDestroy,
                WaitSpurious, vars, countVars
  <2> QED  BY <1>3, <2>1 DEF InJob, Counted
<1> QED  BY <1>4, <1>5, <1>6, <1>7 DEF Next

(* Initially no thread is counted.                                         *)
LEMMA CountsInit ==
  ASSUME Init
  PROVE  TypeOK /\ CountsExact
<1>1. TypeOK
  <2>1. PICK failed : pc = [w \in Workers |-> IF w \in failed THEN "none" ELSE "init"]
    BY DEF Init, JobqueueInit, ThreadInit
  <2>2. pc \in [Workers -> WorkerStates] /\ \A w \in Workers : pc[w] # "run"
    BY <2>1 DEF WorkerStates
  <2>3. queue \in Seq(Jobs) /\ submitted \subseteq Jobs /\ done \subseteq Jobs
    BY DEF Init, JobqueueInit, ThreadInit
  <2>4. alive \in Nat /\ working \in Nat /\ v \in {0, 1} /\ pauses \in Nat
    BY DEF Init, JobqueueInit, ThreadInit
  <2>5. main \in MainStates /\ main # "push"
    BY DEF Init, JobqueueInit, ThreadInit, MainStates
  <2>6. /\ job \in [Workers -> Jobs \cup {NoJob}]
        /\ pending \in [Workers -> BOOLEAN] /\ held \in [Workers -> BOOLEAN]
    BY DEF Init, JobqueueInit, ThreadInit
  <2>7. /\ keepalive \in BOOLEAN /\ on_hold \in BOOLEAN /\ paused \in BOOLEAN
        /\ thcount_lock \in Workers \cup {Main, NoThread}
        /\ rwmutex \in Workers \cup {Main, NoThread}
        /\ newjob \in Jobs \cup {NoJob}
    BY DEF Init, JobqueueInit, ThreadInit
  <2> QED  BY <2>2, <2>3, <2>4, <2>5, <2>6, <2>7 DEF TypeOK
<1>2. InJob = {} /\ Counted = {}
  BY DEF Init, JobqueueInit, ThreadInit, InJob, Counted
<1>3. CountsExact
  BY <1>2, FS_EmptySet DEF CountsExact, Init, JobqueueInit, ThreadInit
<1> QED  BY <1>1, <1>3

(* Type correctness and the exactness of both counters hold together: that *)
(* a counter never drops below 0 rests on what it counts.                  *)
THEOREM CountsCorrect == Spec => [](TypeOK /\ CountsExact)
<1>1. Init => TypeOK /\ CountsExact
  BY CountsInit
<1>2. TypeOK /\ CountsExact /\ [Next]_vars => (TypeOK /\ CountsExact)'
  BY TypeStep, CountsStep
<1> QED  BY <1>1, <1>2, PTL DEF Spec

(* Every variable of the pool keeps its type; in particular neither        *)
(* counter, which the C code keeps as a volatile int, drops below 0.       *)
THEOREM TypesAreKept == Spec => []TypeOK
BY CountsCorrect, PTL
-----------------------------------------------------------------------------
(* The semaphore.                                                          *)

(* No step loses an announcement: a job that waits stays announced, and    *)
(* no thread is left asleep on a raised semaphore.                         *)
SemSound == WorkAnnounced /\ WakeupPending

(* Every step of the threads and of the caller keeps the semaphore's       *)
(* promise: a waiting job is announced, a raised semaphore wakes someone.  *)
LEMMA SemStep ==
  ASSUME TypeOK, SemSound, [Next]_vars
  PROVE  SemSound'
<1> USE DEF WorkerStates, MainStates
<1>1. ASSUME NEW w \in Workers, Thread(w)
      PROVE  SemSound'
  <2>1. CASE WaitTakes(w)
    <3>1. v' = 0 /\ pc'[w] = "got"
      BY <2>1 DEF WaitTakes, TypeOK
    <3> QED  BY <3>1 DEF SemSound, WorkAnnounced, WakeupPending
  <2>2. CASE WaitBlocks(w)
    <3>1. v = 0 /\ v' = 0 /\ queue' = queue /\ keepalive' = keepalive /\ main' = main
      BY <2>2 DEF WaitBlocks, semVars, queueVars, TypeOK
    <3>2. \A x \in Workers : pc[x] \in {"got", "pull", "pulled"} => pc'[x] = pc[x]
      BY <2>2 DEF WaitBlocks, TypeOK
    <3> QED  BY <3>1, <3>2 DEF SemSound, WorkAnnounced, WakeupPending
  <2>3. CASE JobqueuePull(w)
    <3>1. v' = v /\ pc'[w] = "pulled" /\ Blocked' = Blocked
      BY <2>3 DEF JobqueuePull, semVars, TypeOK, Blocked
    <3>2. \A x \in Workers : pc[x] = "wait" => pc'[x] = "wait"
      BY <2>3 DEF JobqueuePull, TypeOK
    <3> QED  BY <3>1, <3>2 DEF SemSound, WorkAnnounced, WakeupPending
  <2>4. CASE JobqueuePullPosts(w)
    <3>1. /\ AfterPull(w) \in [Workers -> WorkerStates]
          /\ \A x \in Workers : (pc[x] = "blocked") <=> (AfterPull(w)[x] = "blocked")
          /\ \A x \in Workers : x # w => AfterPull(w)[x] = pc[x]
      BY <2>4, AfterPullType DEF JobqueuePullPosts
    <3>2. CASE queue # <<>>
      <4>1. Post(AfterPull(w))
        BY <2>4, <3>2 DEF JobqueuePullPosts
      <4>2. /\ v' = 1
            /\ \A x \in Workers : \/ pc'[x] = AfterPull(w)[x]
                                  \/ pc[x] = "blocked" /\ pc'[x] = "wait"
            /\ Blocked # {} => \E x \in Workers : pc'[x] = "wait"
        BY <3>1, <4>1, PostEffect
      <4>3. Blocked = {} => Blocked' = {}
        BY <3>1, <4>2 DEF Blocked
      <4> QED  BY <4>2, <4>3 DEF SemSound, WorkAnnounced, WakeupPending
    <3>3. CASE queue = <<>>
      <4>1. v' = v /\ pc' = AfterPull(w) /\ queue' = queue /\ pc[w] = "pulled"
        BY <2>4, <3>3 DEF JobqueuePullPosts, queueVars
      <4>2. Blocked' = Blocked
        BY <3>1, <4>1 DEF Blocked
      <4>3. \A x \in Workers : pc[x] = "wait" => pc'[x] = "wait"
        BY <3>1, <4>1
      <4> QED  BY <3>3, <4>1, <4>2, <4>3 DEF SemSound, WorkAnnounced, WakeupPending
    <3> QED  BY <3>2, <3>3
  <2>5. CASE \/ MarkAlive(w) \/ EnterLoop(w) \/ LeaveLoop(w) \/ ThreadExit(w)
             \/ CountWorking(w) \/ SkipJob(w) \/ RunJob(w) \/ CountIdle(w)
    <3>1. v' = v /\ queue' = queue /\ keepalive' = keepalive
      BY <2>5 DEF MarkAlive, EnterLoop, LeaveLoop, ThreadExit, CountWorking, SkipJob,
                  RunJob, CountIdle, semVars, queueVars
    <3>2. main' # "post" => main # "post"
      BY <2>5 DEF MarkAlive, EnterLoop, LeaveLoop, ThreadExit, CountWorking, SkipJob,
                  RunJob, CountIdle
    <3>3. Blocked' = Blocked /\ \A x \in Workers : pc[x] = "wait" => pc'[x] = "wait"
      BY <2>5 DEF MarkAlive, EnterLoop, LeaveLoop, ThreadExit, CountWorking, SkipJob,
                  RunJob, CountIdle, TypeOK, Blocked
    <3>4. keepalive => \A x \in Workers : pc[x] \in {"got", "pull", "pulled"} =>
                                          pc'[x] \in {"got", "pull", "pulled"}
      BY <2>5 DEF MarkAlive, EnterLoop, LeaveLoop, ThreadExit, CountWorking, SkipJob,
                  RunJob, CountIdle, TypeOK
    <3> QED  BY <3>1, <3>2, <3>3, <3>4 DEF SemSound, WorkAnnounced, WakeupPending
  <2>6. CASE ThreadHold(w) \/ ThreadReleased(w)
    BY <2>6 DEF ThreadHold, ThreadReleased, semVars, queueVars, SemSound, WorkAnnounced,
                WakeupPending, Blocked
  <2> QED  BY <1>1, <2>1, <2>2, <2>3, <2>4, <2>5, <2>6 DEF Thread
<1>2. ASSUME NEW w \in Workers, SpuriousWakeup(w)
      PROVE  SemSound'
  <2>1. pc'[w] = "wait" /\ \A x \in Workers : x # w => pc'[x] = pc[x]
    BY <1>2 DEF SpuriousWakeup, TypeOK
  <2>2. v' = v /\ queue' = queue /\ keepalive' = keepalive /\ main' = main
    BY <1>2 DEF SpuriousWakeup, semVars, queueVars
  <2>3. pc[w] = "blocked"
    BY <1>2 DEF SpuriousWakeup
  <2> QED  BY <2>1, <2>2, <2>3 DEF SemSound, WorkAnnounced, WakeupPending
<1>3. CASE InCall
  <2>1. CASE JobqueuePush
    BY <2>1 DEF JobqueuePush, semVars, SemSound, WorkAnnounced, WakeupPending, Blocked
  <2>2. CASE JobqueuePushPosts
    <3>1. /\ v' = 1
          /\ \A x \in Workers : pc'[x] = pc[x] \/ (pc[x] = "blocked" /\ pc'[x] = "wait")
          /\ Blocked # {} => \E x \in Workers : pc'[x] = "wait"
      BY <2>2, PostEffect DEF JobqueuePushPosts, TypeOK
    <3>2. Blocked = {} => Blocked' = {}
      BY <3>1 DEF Blocked
    <3> QED  BY <3>1, <3>2 DEF SemSound, WorkAnnounced, WakeupPending
  <2>3. CASE DestroyPosts
    <3>1. v' = 1 /\ Blocked' = {}
      BY <2>3 DEF DestroyPosts, PostAll, Blocked
    <3> QED  BY <3>1 DEF SemSound, WorkAnnounced, WakeupPending
  <2>4. CASE DestroyFrees
    BY <2>4 DEF DestroyFrees, JobqueueClear, SemSound, WorkAnnounced, WakeupPending
  <2>5. CASE InitReturns \/ WaitLocks \/ WaitReadsLen \/ WaitReadsWorking
    <3>1. v' = v /\ queue' = queue /\ keepalive' = keepalive /\ pc' = pc
      BY <2>5 DEF InitReturns, WaitLocks, WaitReadsLen, WaitReadsWorking, semVars,
                  queueVars
    <3>2. main # "post"
      BY <2>5 DEF InitReturns, WaitLocks, WaitReadsLen, WaitReadsWorking
    <3> QED  BY <3>1, <3>2 DEF SemSound, WorkAnnounced, WakeupPending, Blocked
  <2> QED  BY <1>3, <2>1, <2>2, <2>3, <2>4, <2>5 DEF InCall
<1>4. CASE Call \/ WaitSpurious \/ UNCHANGED vars
  <2>1. v' = v /\ queue' = queue /\ pc' = pc
    BY <1>4 DEF Call, AddWork, ThpoolWait, ThpoolPause, ThpoolResume, ThpoolDestroy,
                WaitSpurious, vars, semVars, queueVars
  <2>2. (keepalive' => keepalive) /\ (main' # "post" => main # "post")
    BY <1>4 DEF Call, AddWork, ThpoolWait, ThpoolPause, ThpoolResume, ThpoolDestroy,
                WaitSpurious, vars
  <2> QED  BY <2>1, <2>2 DEF SemSound, WorkAnnounced, WakeupPending, Blocked
<1> QED  BY <1>1, <1>2, <1>3, <1>4 DEF Next

(* The binary semaphore loses no job: at every moment a waiting job is     *)
(* announced, and a raised semaphore has a thread awake to take it if any  *)
(* thread sleeps on it.                                                    *)
THEOREM NoLostWakeup == Spec => [](WorkAnnounced /\ WakeupPending)
<1>1. Init => SemSound
  BY DEF Init, JobqueueInit, ThreadInit, SemSound, WorkAnnounced, WakeupPending
<1>2. TypeOK /\ SemSound /\ [Next]_vars => SemSound'
  BY SemStep
<1>3. Spec => []TypeOK
  BY CountsCorrect, PTL
<1>4. Spec => []SemSound
  BY <1>1, <1>2, <1>3, PTL DEF Spec
<1>5. SemSound => WorkAnnounced /\ WakeupPending
  BY DEF SemSound
<1> QED  BY <1>4, <1>5, PTL

(* A raised semaphore is not left to threads that all sleep on it.         *)
THEOREM WakeupIsPending == Spec => []WakeupPending
BY NoLostWakeup, PTL
-----------------------------------------------------------------------------
(* The jobs.                                                               *)

(* Taking the front job off a queue that holds no job twice.               *)
LEMMA TailPlaces ==
  ASSUME NEW q \in Seq(Jobs), q # <<>>,
         \A m, n \in DOMAIN q : q[m] = q[n] => m = n
  PROVE  /\ Tail(q) \in Seq(Jobs) /\ Head(q) \in Jobs
         /\ \A m, n \in DOMAIN Tail(q) : Tail(q)[m] = Tail(q)[n] => m = n
         /\ \A j \in Jobs : (\E n \in DOMAIN q : q[n] = j)
                            <=> j = Head(q) \/ \E n \in DOMAIN Tail(q) : Tail(q)[n] = j
         /\ \A n \in DOMAIN Tail(q) : Tail(q)[n] # Head(q)
<1>1. /\ Tail(q) \in Seq(Jobs) /\ Head(q) \in Jobs /\ Len(q) \in Nat /\ Len(q) >= 1
      /\ Len(Tail(q)) = Len(q) - 1
      /\ DOMAIN q = 1..Len(q) /\ DOMAIN Tail(q) = 1..(Len(q) - 1)
      /\ Head(q) = q[1]
  OBVIOUS
<1>2. \A n \in 1..(Len(q) - 1) : Tail(q)[n] = q[n + 1]
  OBVIOUS
<1>3. \A m, n \in DOMAIN Tail(q) : Tail(q)[m] = Tail(q)[n] => m = n
  BY <1>1, <1>2
<1>4. \A n \in DOMAIN Tail(q) : Tail(q)[n] # Head(q)
  BY <1>1, <1>2
<1>5. ASSUME NEW j \in Jobs, NEW n \in DOMAIN q, q[n] = j, j # Head(q)
      PROVE  \E m \in DOMAIN Tail(q) : Tail(q)[m] = j
  <2>1. n # 1 /\ n - 1 \in 1..(Len(q) - 1)
    BY <1>1, <1>5
  <2>2. Tail(q)[n - 1] = j
    BY <1>1, <1>2, <1>5, <2>1
  <2> QED  BY <1>1, <2>1, <2>2
<1>6. ASSUME NEW j \in Jobs, NEW n \in DOMAIN Tail(q), Tail(q)[n] = j
      PROVE  \E m \in DOMAIN q : q[m] = j
  BY <1>1, <1>2, <1>6
<1>7. \E m \in DOMAIN q : q[m] = Head(q)
  BY <1>1
<1> QED  BY <1>1, <1>3, <1>4, <1>5, <1>6, <1>7

(* What makes the conservation of the jobs inductive: only a thread that   *)
(* has pulled and not finished holds a job, the caller pushes new jobs     *)
(* only, and between its two reads thpool_wait has seen an empty queue.    *)
Occurs(j, q) == \E n \in DOMAIN q : q[n] = j
InQueue(j) == Occurs(j, queue)
QueueDistinct == \A m, n \in DOMAIN queue : queue[m] = queue[n] => m = n
OneHolder == \A w, x \in Workers : job[w] = job[x] /\ job[w] # NoJob => w = x
OnePlace ==
  /\ \A w \in Workers : job[w] # NoJob => ~InQueue(job[w]) /\ job[w] \notin done
  /\ \A j \in Jobs : InQueue(j) => j \notin done
NoneLost ==
  \A j \in Jobs : main # "freed" =>
     (j \in submitted <=> InQueue(j) \/ (\E w \in Workers : job[w] = j) \/ j \in done)
InSubmitted ==
  \A j \in Jobs : InQueue(j) \/ (\E w \in Workers : job[w] = j) \/ j \in done
                  => j \in submitted
JobInv ==
  /\ QueueDistinct /\ OneHolder /\ OnePlace /\ NoneLost /\ InSubmitted
  /\ \A w \in Workers : job[w] # NoJob => pc[w] \in {"pulled", "run"}
  /\ main = "push" => newjob \notin submitted
  /\ main = "working" => queue = <<>>

(* The inductive invariant of the jobs implies what the runs check.        *)
LEMMA JobInvImplies ==
  ASSUME TypeOK, JobInv
  PROVE  JobsConserved
<1> SUFFICES ASSUME NEW j \in Jobs
             PROVE  /\ \A m, n \in Places(j) : m = n
                    /\ \A w, x \in Holders(j) : w = x
                    /\ (Places(j) # {} => Holders(j) = {} /\ j \notin done)
                    /\ (Holders(j) # {} => j \notin done)
                    /\ (main # "freed" =>
                         (j \in submitted <=> Places(j) # {} \/ Holders(j) # {} \/ j \in done))
  BY DEF JobsConserved
<1>1. j # NoJob
  BY PoolAssumption
<1>2. (Places(j) # {} <=> InQueue(j)) /\ (Holders(j) # {} <=> \E w \in Workers : job[w] = j)
  BY DEF Places, Holders, InQueue, Occurs
<1>3. \A m, n \in Places(j) : m = n
  BY DEF Places, JobInv, QueueDistinct
<1>4. \A w, x \in Holders(j) : w = x
  BY <1>1 DEF Holders, JobInv, OneHolder
<1>5. Places(j) # {} => Holders(j) = {} /\ j \notin done
  BY <1>1, <1>2 DEF Holders, JobInv, OnePlace
<1>6. Holders(j) # {} => j \notin done
  BY <1>1, <1>2 DEF JobInv, OnePlace
<1>7. main # "freed" =>
        (j \in submitted <=> Places(j) # {} \/ Holders(j) # {} \/ j \in done)
  BY <1>2 DEF JobInv, NoneLost
<1> QED  BY <1>3, <1>4, <1>5, <1>6, <1>7

(* A step that moves no job keeps JobInv.                                  *)
LEMMA JobFrame ==
  ASSUME JobInv, UNCHANGED <<queue, job, done, submitted>>,
         main = "freed" => main' = "freed",
         main' = "push" => (main = "push" /\ newjob' = newjob) \/ newjob' \notin submitted,
         main' = "working" => main = "working" \/ queue = <<>>,
         \A w \in Workers : pc[w] \in {"pulled", "run"} /\ job[w] # NoJob
                            => pc'[w] \in {"pulled", "run"}
  PROVE  JobInv'
<1>1. QueueDistinct' /\ OneHolder' /\ OnePlace' /\ InSubmitted'
  BY DEF JobInv, QueueDistinct, OneHolder, OnePlace, InSubmitted, InQueue
<1>2. NoneLost'
  BY DEF JobInv, NoneLost, InQueue
<1> QED  BY <1>1, <1>2 DEF JobInv

(* Every step of the threads and of the caller keeps a job in one place.   *)
LEMMA JobStep ==
  ASSUME TypeOK, JobInv, [Next]_vars
  PROVE  JobInv'
<1> USE DEF WorkerStates, MainStates
<1>1. ASSUME NEW w \in Workers, Thread(w)
      PROVE  JobInv'
  <2>1. CASE JobqueuePull(w)
    <3>1. /\ done' = done /\ submitted' = submitted /\ main' = main /\ newjob' = newjob
          /\ \A x \in Workers : x # w => job'[x] = job[x] /\ pc'[x] = pc[x]
          /\ pc[w] = "pull" /\ pc'[w] = "pulled"
      BY <2>1 DEF JobqueuePull, TypeOK
    <3>2. job[w] = NoJob
      BY <3>1 DEF JobInv
    <3>3. CASE queue = <<>>
      <4>1. queue' = queue /\ job'[w] = NoJob
        BY <2>1, <3>3 DEF JobqueuePull, TypeOK
      <4>2. job' = job
        BY <2>1, <3>2, <3>3 DEF JobqueuePull, TypeOK
      <4> QED  BY <3>1, <4>1, <4>2, JobFrame
    <3>4. CASE queue # <<>>
      <4>1. queue' = Tail(queue) /\ job'[w] = Head(queue)
        BY <2>1, <3>4 DEF JobqueuePull, TypeOK
      <4>2. queue \in Seq(Jobs) /\ \A m, n \in DOMAIN queue : queue[m] = queue[n] => m = n
        BY DEF TypeOK, JobInv, QueueDistinct
      <4>3. /\ Head(queue) \in Jobs /\ QueueDistinct'
            /\ \A j \in Jobs : InQueue(j) <=> j = Head(queue) \/ Occurs(j, queue')
            /\ ~Occurs(Head(queue), queue')
        BY <3>4, <4>1, <4>2, TailPlaces DEF QueueDistinct, InQueue, Occurs
      <4>4. \A x \in Workers : job[x] \in Jobs \cup {NoJob}
        BY DEF TypeOK
      <4>5. Head(queue) # NoJob
        BY <4>3, PoolAssumption
      <4>6. InQueue(Head(queue)) /\ \A x \in Workers : job[x] # Head(queue)
        BY <4>3, <4>5 DEF JobInv, OnePlace
      <4>7. OneHolder'
        BY <3>1, <4>1, <4>6 DEF JobInv, OneHolder
      <4>8. OnePlace'
        <5>1. \A x \in Workers : job'[x] # NoJob => ~Occurs(job'[x], queue') /\ job'[x] \notin done
          BY <3>1, <4>1, <4>3, <4>4, <4>6 DEF JobInv, OnePlace
        <5>2. \A j \in Jobs : Occurs(j, queue') => j \notin done
          BY <4>3 DEF JobInv, OnePlace
        <5> QED  BY <3>1, <5>1, <5>2 DEF OnePlace, InQueue
      <4>9. \A j \in Jobs : (\E x \in Workers : job'[x] = j)
                            <=> j = Head(queue) \/ \E x \in Workers : job[x] = j
        BY <3>1, <3>2, <4>1, PoolAssumption
      <4>10. NoneLost' /\ InSubmitted'
        BY <3>1, <4>3, <4>9 DEF JobInv, NoneLost, InSubmitted, InQueue
      <4>11. main' = "working" => queue' = <<>>
        BY <3>1, <3>4 DEF JobInv
      <4> QED  BY <3>1, <4>3, <4>7, <4>8, <4>10, <4>11 DEF JobInv
    <3> QED  BY <3>3, <3>4
  <2>2. CASE RunJob(w)
    <3>1. /\ done' = done \cup {job[w]} /\ submitted' = submitted /\ queue' = queue
          /\ main' = main /\ newjob' = newjob
          /\ \A x \in Workers : x # w => job'[x] = job[x] /\ pc'[x] = pc[x]
          /\ job'[w] = NoJob /\ pc[w] = "run"
      BY <2>2 DEF RunJob, queueVars, TypeOK
    <3>2. job[w] # NoJob /\ job[w] \in Jobs
      BY <3>1 DEF TypeOK
    <3>3. QueueDistinct' /\ \A j : InQueue(j)' <=> InQueue(j)
      BY <3>1 DEF JobInv, QueueDistinct, InQueue
    <3>4. OneHolder'
      BY <3>1 DEF JobInv, OneHolder
    <3>5. OnePlace'
      <4>1. \A x \in Workers : job'[x] # NoJob => ~InQueue(job'[x]) /\ job'[x] \notin done'
        BY <3>1, <3>2 DEF JobInv, OnePlace, OneHolder
      <4>2. \A j \in Jobs : InQueue(j) => j \notin done'
        BY <3>1, <3>2 DEF JobInv, OnePlace
      <4> QED  BY <3>3, <4>1, <4>2 DEF OnePlace
    <3>6. \A j \in Jobs : (\E x \in Workers : job[x] = j) \/ j \in done
                          <=> (\E x \in Workers : job'[x] = j) \/ j \in done'
      BY <3>1, <3>2, PoolAssumption
    <3>7. NoneLost' /\ InSubmitted'
      BY <3>1, <3>3, <3>6 DEF JobInv, NoneLost, InSubmitted
    <3> QED  BY <3>1, <3>3, <3>4, <3>5, <3>7 DEF JobInv
  <2>3. CASE JobqueuePullPosts(w)
    <3>1. /\ \A x \in Workers : x # w => AfterPull(w)[x] = pc[x]
          /\ job[w] # NoJob => AfterPull(w)[w] = "run"
      BY <2>3 DEF JobqueuePullPosts, AfterPull, TypeOK
    <3>2. \A x \in Workers : \/ pc'[x] = AfterPull(w)[x]
                             \/ pc[x] = "blocked" /\ pc'[x] = "wait"
      BY <2>3, PostEffect, AfterPullType DEF JobqueuePullPosts
    <3>3. \A x \in Workers : pc[x] \in {"pulled", "run"} /\ job[x] # NoJob
                             => pc'[x] \in {"pulled", "run"}
      BY <3>1, <3>2
    <3>4. UNCHANGED <<queue, job, done, submitted>> /\ main' = main /\ newjob' = newjob
      BY <2>3 DEF JobqueuePullPosts, queueVars
    <3> QED  BY <3>3, <3>4, JobFrame
  <2>4. CASE \/ MarkAlive(w) \/ EnterLoop(w) \/ LeaveLoop(w) \/ ThreadExit(w)
             \/ WaitTakes(w) \/ WaitBlocks(w) \/ CountWorking(w) \/ SkipJob(w)
             \/ CountIdle(w) \/ ThreadHold(w) \/ ThreadReleased(w)
    <3>1. UNCHANGED <<queue, job, done, submitted, newjob>>
      BY <2>4 DEF MarkAlive, EnterLoop, LeaveLoop, ThreadExit, WaitTakes, WaitBlocks,
                  CountWorking, SkipJob, CountIdle, ThreadHold, ThreadReleased, queueVars
    <3>2. main' = main \/ (main = "waiting" /\ main' = "wait")
      BY <2>4 DEF MarkAlive, EnterLoop, LeaveLoop, ThreadExit, WaitTakes, WaitBlocks,
                  CountWorking, SkipJob, CountIdle, ThreadHold, ThreadReleased
    <3>3. \A x \in Workers : pc[x] \in {"pulled", "run"} => pc'[x] = pc[x]
      BY <2>4 DEF MarkAlive, EnterLoop, LeaveLoop, ThreadExit, WaitTakes, WaitBlocks,
                  CountWorking, SkipJob, CountIdle, ThreadHold, ThreadReleased, TypeOK
    <3> QED  BY <3>1, <3>2, <3>3, JobFrame
  <2> QED  BY <1>1, <2>1, <2>2, <2>3, <2>4 DEF Thread
<1>2. ASSUME NEW w \in Workers, SpuriousWakeup(w)
      PROVE  JobInv'
  <2>1. UNCHANGED <<queue, job, done, submitted, newjob, main>>
    BY <1>2 DEF SpuriousWakeup, queueVars
  <2>2. \A x \in Workers : pc[x] \in {"pulled", "run"} => pc'[x] = pc[x]
    BY <1>2 DEF SpuriousWakeup, TypeOK
  <2> QED  BY <2>1, <2>2, JobFrame
<1>3. CASE JobqueuePush
  <2>1. /\ queue' = Append(queue, newjob) /\ submitted' = submitted \cup {newjob}
        /\ UNCHANGED <<job, done, pc, newjob>> /\ main = "push" /\ main' = "post"
    BY <1>3 DEF JobqueuePush
  <2>2. newjob \in Jobs /\ newjob \notin submitted /\ queue \in Seq(Jobs)
    BY <2>1 DEF TypeOK, JobInv
  <2>3. ~InQueue(newjob) /\ newjob \notin done /\ \A w \in Workers : job[w] # newjob
    BY <2>2 DEF JobInv, InSubmitted
  <2>4. /\ DOMAIN queue = 1..Len(queue) /\ Len(queue) \in Nat
        /\ DOMAIN queue' = 1..(Len(queue) + 1)
        /\ \A n \in 1..Len(queue) : queue'[n] = queue[n]
        /\ queue'[Len(queue) + 1] = newjob
    BY <2>1, <2>2
  <2>5. \A j : InQueue(j)' <=> InQueue(j) \/ j = newjob
    <3> SUFFICES ASSUME NEW j
                 PROVE  InQueue(j)' <=> InQueue(j) \/ j = newjob
      OBVIOUS
    <3>1. InQueue(j)' => InQueue(j) \/ j = newjob
      BY <2>4 DEF InQueue, Occurs
    <3>2. InQueue(j) => InQueue(j)'
      BY <2>4 DEF InQueue, Occurs
    <3>3. j = newjob => InQueue(j)'
      BY <2>4 DEF InQueue, Occurs
    <3> QED  BY <3>1, <3>2, <3>3
  <2>6. QueueDistinct'
    BY <2>3, <2>4 DEF JobInv, QueueDistinct, InQueue, Occurs
  <2>7. OneHolder' /\ OnePlace'
    BY <2>1, <2>3, <2>5 DEF JobInv, OneHolder, OnePlace
  <2>8. NoneLost' /\ InSubmitted'
    BY <2>1, <2>5 DEF JobInv, NoneLost, InSubmitted
  <2> QED  BY <2>1, <2>6, <2>7, <2>8 DEF JobInv
<1>4. CASE JobqueuePushPosts
  <2>1. \A x \in Workers : pc'[x] = pc[x] \/ (pc[x] = "blocked" /\ pc'[x] = "wait")
    BY <1>4, PostEffect DEF JobqueuePushPosts, TypeOK
  <2>2. UNCHANGED <<queue, job, done, submitted>> /\ main = "post" /\ main' = "idle"
    BY <1>4 DEF JobqueuePushPosts
  <2> QED  BY <2>1, <2>2, JobFrame
<1>5. CASE DestroyPosts
  <2>1. \A x \in Workers : pc[x] \in {"pulled", "run"} => pc'[x] = pc[x]
    BY <1>5 DEF DestroyPosts, PostAll, Blocked, TypeOK
  <2>2. UNCHANGED <<queue, job, done, submitted, main, newjob>>
    BY <1>5 DEF DestroyPosts, queueVars
  <2> QED  BY <2>1, <2>2, JobFrame
<1>6. CASE DestroyFrees
  <2>1. /\ queue' = <<>> /\ UNCHANGED <<submitted, pc, job, done>> /\ main' = "freed"
    BY <1>6 DEF DestroyFrees, JobqueueClear
  <2>2. \A j : ~InQueue(j)'
    BY <2>1 DEF InQueue, Occurs
  <2>3. QueueDistinct' /\ OneHolder' /\ OnePlace' /\ NoneLost' /\ InSubmitted'
    BY <2>1, <2>2 DEF JobInv, QueueDistinct, OneHolder, OnePlace, NoneLost, InSubmitted
  <2> QED  BY <2>1, <2>3 DEF JobInv
<1>7. CASE InitReturns \/ WaitLocks \/ WaitReadsLen \/ WaitReadsWorking
  BY <1>7, JobFrame DEF InitReturns, WaitLocks, WaitReadsLen, WaitReadsWorking, queueVars
<1>8. CASE Call \/ WaitSpurious \/ UNCHANGED vars
  <2>1. UNCHANGED <<queue, job, done, submitted, pc>>
    BY <1>8 DEF Call, AddWork, ThpoolWait, ThpoolPause, ThpoolResume, ThpoolDestroy,
                WaitSpurious, vars, queueVars
  <2>2. /\ main = "freed" => main' = "freed"
        /\ main' = "push" => (main = "push" /\ newjob' = newjob) \/ newjob' \notin submitted
        /\ main' = "working" => main = "working"
    BY <1>8 DEF Call, AddWork, ThpoolWait, ThpoolPause, ThpoolResume, ThpoolDestroy,
                WaitSpurious, vars, queueVars
  <2> QED  BY <2>1, <2>2, JobFrame
<1> QED
  BY <1>1, <1>2, <1>3, <1>4, <1>5, <1>6, <1>7, <1>8 DEF Next, InCall

(* thpool_init leaves an empty queue and no job with a thread.             *)
LEMMA JobInit ==
  ASSUME Init
  PROVE  JobInv
<1>1. \A j : ~InQueue(j)
  BY DEF Init, JobqueueInit, ThreadInit, InQueue, Occurs
<1>2. \A w \in Workers : job[w] = NoJob
  BY DEF Init, JobqueueInit, ThreadInit
<1> QED
  BY <1>1, <1>2, PoolAssumption DEF Init, JobqueueInit, ThreadInit, JobInv, QueueDistinct, OneHolder, OnePlace, NoneLost, InSubmitted

(* The pool neither loses a job nor runs one twice.                        *)
THEOREM JobsAreConserved == Spec => []JobsConserved
<1>1. Spec => []TypeOK
  BY CountsCorrect, PTL
<1>2. Spec => []JobInv
  BY <1>1, JobInit, JobStep, PTL DEF Spec
<1>3. TypeOK /\ JobInv => JobsConserved
  BY JobInvImplies
<1> QED  BY <1>1, <1>2, <1>3, PTL

(* thpool_wait returns only when every submitted job has finished: it has  *)
(* seen the queue empty, and a job that has left the queue belongs to a    *)
(* thread that the counter counts.                                         *)
THEOREM WaitIsSound == Spec => WaitSound
<1> DEFINE Sound == main = "working" /\ main' = "idle" => submitted \subseteq done
<1>1. TypeOK /\ CountsExact /\ JobInv /\ [Next]_vars => [Sound]_vars
  <2> SUFFICES ASSUME TypeOK, CountsExact, JobInv, Next, main = "working", main' = "idle"
               PROVE  submitted \subseteq done
    OBVIOUS
  <2>1. working = 0
    <3>1. ASSUME NEW w \in Workers, Thread(w)
          PROVE  FALSE
      BY <3>1 DEF Thread, MarkAlive, EnterLoop, LeaveLoop, ThreadExit, WaitTakes,
                  WaitBlocks, CountWorking, SkipJob, JobqueuePull, JobqueuePullPosts,
                  RunJob, CountIdle, ThreadHold, ThreadReleased
    <3>2. ASSUME NEW w \in Workers, SpuriousWakeup(w)
          PROVE  FALSE
      BY <3>2 DEF SpuriousWakeup
    <3>3. CASE InCall
      BY <3>3 DEF InCall, InitReturns, JobqueuePush, JobqueuePushPosts, WaitLocks,
                  WaitReadsLen, WaitReadsWorking, DestroyPosts, DestroyFrees
    <3>4. CASE Call \/ WaitSpurious
      BY <3>4 DEF Call, AddWork, ThpoolWait, ThpoolPause, ThpoolResume, ThpoolDestroy,
                  WaitSpurious
    <3> QED  BY <3>1, <3>2, <3>3, <3>4 DEF Next
  <2>2. \A w \in Workers : job[w] = NoJob
    <3>1. InJob = {}
      BY <2>1, CountsPositive
    <3> QED  BY <3>1 DEF InJob, JobInv
  <2>3. queue = <<>>
    BY DEF JobInv
  <2>4. \A j \in Jobs : ~InQueue(j)
    BY <2>3 DEF InQueue, Occurs
  <2> QED  BY <2>2, <2>4, PoolAssumption DEF JobInv, NoneLost, TypeOK
<1>2. Spec => [](TypeOK /\ CountsExact)
  BY CountsCorrect
<1>3. Spec => []JobInv
  BY <1>2, JobInit, JobStep, PTL DEF Spec
<1> QED  BY <1>1, <1>2, <1>3, PTL DEF Spec, WaitSound
-----------------------------------------------------------------------------
(* The refinement.                                                         *)

Running == {job[w] : w \in Workers} \ {NoJob}

(* A step of the pool is a step of the abstract pool or leaves its         *)
(* variables alone: pulling a job starts it, leaving rwmutex with a new    *)
(* job submits it, freeing the queue discards what waits.                  *)
LEMMA RefineStep ==
  ASSUME TypeOK, CountsExact, JobInv, [Next]_vars
  PROVE  [Abs!Next]_(Abs!vars)
<1> USE DEF WorkerStates, MainStates
<1>1. ASSUME NEW w \in Workers, JobqueuePull(w)
      PROVE  [Abs!Next]_(Abs!vars)
  <2>1. /\ done' = done /\ submitted' = submitted /\ pc[w] = "pull"
        /\ \A x \in Workers : x # w => job'[x] = job[x]
    BY <1>1 DEF JobqueuePull, TypeOK
  <2>2. job[w] = NoJob
    BY <2>1 DEF JobInv
  <2>3. CASE queue = <<>>
    <3>1. queue' = queue /\ job' = job
      BY <1>1, <2>2, <2>3 DEF JobqueuePull, TypeOK
    <3> QED  BY <2>1, <3>1 DEF Abs!vars
  <2>4. CASE queue # <<>>
    <3>1. queue' = Tail(queue) /\ job'[w] = Head(queue)
      BY <1>1, <2>4 DEF JobqueuePull, TypeOK
    <3>2. queue \in Seq(Jobs) /\ \A m, n \in DOMAIN queue : queue[m] = queue[n] => m = n
      BY DEF TypeOK, JobInv, QueueDistinct
    <3>3. Head(queue) \in Jobs /\ InQueue(Head(queue))
      BY <2>4, <3>2, TailPlaces DEF InQueue, Occurs
    <3>4. Head(queue) # NoJob
      BY <3>3, PoolAssumption
    <3>5. Head(queue) \notin Running \cup done
      BY <3>3 DEF JobInv, OnePlace, Running
    <3>6. Running' = Running \cup {Head(queue)}
      BY <2>1, <2>2, <3>1, <3>4 DEF Running
    <3>7. Abs!Start
      BY <2>1, <2>4, <3>1, <3>5, <3>6 DEF Abs!Start, Running
    <3> QED  BY <3>7 DEF Abs!Next
  <2> QED  BY <2>3, <2>4
<1>2. ASSUME NEW w \in Workers, RunJob(w)
      PROVE  [Abs!Next]_(Abs!vars)
  <2>1. /\ done' = done \cup {job[w]} /\ submitted' = submitted /\ queue' = queue
        /\ \A x \in Workers : x # w => job'[x] = job[x]
        /\ job'[w] = NoJob /\ pc[w] = "run"
    BY <1>2 DEF RunJob, queueVars, TypeOK
  <2>2. job[w] # NoJob /\ job[w] \in Jobs
    BY <2>1 DEF TypeOK
  <2>3. job[w] \in Running
    BY <2>2 DEF Running
  <2>4. Running' = Running \ {job[w]}
    BY <2>1, <2>2 DEF Running, JobInv, OneHolder
  <2>5. PICK j \in Jobs : j = job[w]
    BY <2>2
  <2>6. Abs!Finish(j)
    BY <2>1, <2>3, <2>4, <2>5 DEF Abs!Finish, Running
  <2> QED  BY <2>6 DEF Abs!Next
<1>3. CASE JobqueuePush
  <2>1. newjob \in Jobs /\ newjob \notin submitted
    BY <1>3 DEF JobqueuePush, TypeOK, JobInv
  <2>2. Abs!Submit(newjob)
    BY <1>3, <2>1 DEF JobqueuePush, Abs!Submit
  <2> QED  BY <2>1, <2>2 DEF Abs!Next
<1>4. CASE DestroyFrees
  <2>1. alive = 0 /\ queue' = <<>> /\ UNCHANGED <<submitted, job, done>>
    BY <1>4 DEF DestroyFrees, JobqueueClear
  <2>2. Counted = {}
    BY <2>1, CountsPositive
  <2>3. \A w \in Workers : job[w] = NoJob
    BY <2>2 DEF Counted, JobInv
  <2>4. Running = {} /\ Running' = {}
    BY <2>1, <2>3 DEF Running
  <2>5. Abs!Discard
    BY <2>1, <2>4 DEF Abs!Discard, Running
  <2> QED  BY <2>5 DEF Abs!Next
<1>5. CASE /\ ~JobqueuePush /\ ~DestroyFrees
           /\ \A w \in Workers : ~JobqueuePull(w) /\ ~RunJob(w)
  <2>1. UNCHANGED <<queue, job, done, submitted>>
    <3>1. ASSUME NEW w \in Workers, Thread(w)
          PROVE  UNCHANGED <<queue, job, done, submitted>>
      BY <1>5, <3>1 DEF Thread, MarkAlive, EnterLoop, LeaveLoop, ThreadExit, WaitTakes,
                        WaitBlocks, CountWorking, SkipJob, JobqueuePullPosts, CountIdle,
                        ThreadHold, ThreadReleased, queueVars
    <3>2. ASSUME NEW w \in Workers, SpuriousWakeup(w)
          PROVE  UNCHANGED <<queue, job, done, submitted>>
      BY <3>2 DEF SpuriousWakeup, queueVars
    <3>3. CASE InCall
      BY <1>5, <3>3 DEF InCall, InitReturns, JobqueuePushPosts, WaitLocks, WaitReadsLen,
                        WaitReadsWorking, DestroyPosts, queueVars
    <3>4. CASE Call \/ WaitSpurious \/ UNCHANGED vars
      BY <3>4 DEF Call, AddWork, ThpoolWait, ThpoolPause, ThpoolResume, ThpoolDestroy,
                  WaitSpurious, vars, queueVars
    <3> QED  BY <3>1, <3>2, <3>3, <3>4 DEF Next
  <2> QED  BY <2>1 DEF Abs!vars
<1> QED  BY <1>1, <1>2, <1>3, <1>4, <1>5

(* The thread pool implements the abstract job pool: jobs start in the     *)
(* order of submission, once each, and finish.                             *)
THEOREM PoolImplementsJobPool == Spec => ImplementsJobPool
<1>1. Init => Abs!Init
  BY PoolAssumption DEF Init, JobqueueInit, ThreadInit, Abs!Init
<1>2. TypeOK /\ CountsExact /\ JobInv /\ [Next]_vars => [Abs!Next]_(Abs!vars)
  BY RefineStep
<1>3. Spec => [](TypeOK /\ CountsExact)
  BY CountsCorrect
<1>4. Spec => []JobInv
  BY <1>3, JobInit, JobStep, PTL DEF Spec
<1> QED  BY <1>1, <1>2, <1>3, <1>4, PTL DEF Spec, ImplementsJobPool, Abs!Spec
-----------------------------------------------------------------------------
(* The end of the pool.                                                    *)

(* Once thpool_init has returned every thread has counted itself, a thread *)
(* on its way out has the mutex of the counts, and so has thpool_wait      *)
(* while it reads them; when the pool is freed no thread is counted, and   *)
(* none can be counted again.                                              *)
QuietInv ==
  /\ main # "init" => \A w \in Workers : pc[w] \notin {"none", "init"}
  /\ \A w \in Workers : pc[w] = "exiting" => thcount_lock = w
  /\ main \in {"len", "working"} => thcount_lock = Main
  /\ main = "freed" => Counted = {}

(* A thread's step keeps it: it is counted before thpool_init returns, and *)
(* it takes the mutex of the counts when that is free.                     *)
LEMMA QuietThread ==
  ASSUME TypeOK, QuietInv, NEW w \in Workers, Thread(w) \/ SpuriousWakeup(w)
  PROVE  QuietInv'
<1> USE PoolAssumption DEF QuietInv, Counted
<1>1. CASE MarkAlive(w)
  BY <1>1 DEF MarkAlive, TypeOK, lockVars
<1>2. CASE LeaveLoop(w)
  BY <1>2 DEF LeaveLoop, TypeOK
<1>3. CASE ThreadExit(w)
  BY <1>3 DEF ThreadExit, TypeOK
<1>4. CASE JobqueuePullPosts(w)
  <2>1. \A x \in Workers : pc[x] \in {"none", "init", "exiting", "dead"} <=>
                           pc'[x] \in {"none", "init", "exiting", "dead"}
    <3>1. CASE queue = <<>>
      BY <1>4, <3>1, AfterPullType DEF JobqueuePullPosts
    <3>2. CASE queue # <<>>
      BY <1>4, <3>2, PostEffect, AfterPullType DEF JobqueuePullPosts
    <3> QED  BY <3>1, <3>2
  <2>2. \A x \in Workers : pc'[x] = "exiting" => pc[x] = "exiting"
    <3>1. CASE queue = <<>>
      BY <1>4, <3>1, AfterPullType DEF JobqueuePullPosts
    <3>2. CASE queue # <<>>
      BY <1>4, <3>2, PostEffect, AfterPullType DEF JobqueuePullPosts
    <3> QED  BY <3>1, <3>2
  <2>3. \A x \in Workers : pc'[x] \in {"none", "init"} => pc[x] \in {"none", "init"}
    <3>1. CASE queue = <<>>
      BY <1>4, <3>1, AfterPullType DEF JobqueuePullPosts
    <3>2. CASE queue # <<>>
      BY <1>4, <3>2, PostEffect, AfterPullType DEF JobqueuePullPosts
    <3> QED  BY <3>1, <3>2
  <2> QED
    BY <1>4, <2>1, <2>2, <2>3 DEF JobqueuePullPosts
<1>5. CASE CountIdle(w)
  BY <1>5 DEF CountIdle, TypeOK, lockVars
<1>6. CASE \/ EnterLoop(w) \/ WaitTakes(w) \/ WaitBlocks(w) \/ SpuriousWakeup(w)
           \/ CountWorking(w) \/ SkipJob(w) \/ JobqueuePull(w) \/ RunJob(w)
  BY <1>6 DEF EnterLoop, WaitTakes, WaitBlocks, SpuriousWakeup, CountWorking, SkipJob,
              JobqueuePull, RunJob, TypeOK, lockVars
<1>7. CASE ThreadHold(w) \/ ThreadReleased(w)
  BY <1>7 DEF ThreadHold, ThreadReleased, lockVars
<1> QED
  BY <1>1, <1>2, <1>3, <1>4, <1>5, <1>6, <1>7 DEF Thread

(* So does a step of the caller: init ends when all are counted, destroy   *)
(* when nobody is.                                                         *)
LEMMA QuietMain ==
  ASSUME TypeOK, CountsExact, QuietInv, InCall \/ Call \/ WaitSpurious
  PROVE  QuietInv'
<1> USE PoolAssumption DEF QuietInv, Counted
<1>1. IsFiniteSet(Counted)
  BY CountsPositive
<1>2. CASE InitReturns
  <2>1. Counted \subseteq Workers /\ Cardinality(Counted) = Cardinality(Workers)
    BY <1>2 DEF InitReturns, CountsExact
  <2>2. Counted = Workers
    BY <2>1, FS_Subset
  <2> QED
    BY <1>2, <2>2 DEF InitReturns, lockVars
<1>3. CASE JobqueuePushPosts
  <2>1. pc' \in [Workers -> WorkerStates]
        /\ \A x \in Workers : pc'[x] = pc[x] \/ (pc[x] = "blocked" /\ pc'[x] = "wait")
    BY <1>3, PostEffect DEF JobqueuePushPosts, TypeOK
  <2> QED
    BY <1>3, <2>1 DEF JobqueuePushPosts
<1>4. CASE DestroyPosts
  BY <1>4 DEF DestroyPosts, PostAll, Blocked, lockVars, TypeOK
<1>5. CASE DestroyFrees
  <2>1. Counted = {}
    BY <1>1, <1>5, FS_EmptySet DEF DestroyFrees, CountsExact
  <2> QED
    BY <1>5, <2>1 DEF DestroyFrees, lockVars
<1>6. CASE \/ JobqueuePush \/ WaitLocks \/ WaitReadsLen \/ WaitReadsWorking
           \/ WaitSpurious \/ ThpoolWait \/ ThpoolPause \/ ThpoolResume \/ ThpoolDestroy
           \/ \E j \in Jobs : AddWork(j)
  BY <1>6 DEF JobqueuePush, WaitLocks, WaitReadsLen, WaitReadsWorking, WaitSpurious,
              ThpoolWait, ThpoolPause, ThpoolResume, ThpoolDestroy, AddWork, lockVars
<1> QED
  BY <1>2, <1>3, <1>4, <1>5, <1>6 DEF InCall, Call

(* When thpool_destroy has freed the pool, every thread has left its loop, *)
(* and at most one of them still has its mutex to give back.               *)
THEOREM FreedPoolIsQuiet == Spec => []FreedQuiet
<1>1. Init => QuietInv
  BY PoolAssumption DEF Init, ThreadInit, QuietInv
<1>2. TypeOK /\ CountsExact /\ QuietInv /\ [Next]_vars => QuietInv'
  <2>1. ASSUME QuietInv, UNCHANGED vars PROVE QuietInv'
    BY <2>1 DEF vars, lockVars, QuietInv, Counted
  <2> QED
    BY <2>1, QuietThread, QuietMain DEF Next
<1>3. TypeOK /\ QuietInv => FreedQuiet
  BY DEF FreedQuiet, QuietInv, Counted
<1> QED
  BY <1>1, <1>2, <1>3, CountsCorrect, PTL DEF Spec
=============================================================================
