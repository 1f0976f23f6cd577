----------------------------- MODULE ThreadPool -----------------------------
(***************************************************************************)
(* threadpool.c: the job queue, its binary semaphore, the worker threads   *)
(* and one thread (main) that calls the API.                               *)
(*                                                                         *)
(* A critical section that neither blocks nor is observed from outside is  *)
(* one step, guarded by the mutex being free.  A mutex has an owner where  *)
(* another thread can see it held: rwmutex while a job is pushed or pulled *)
(* (the semaphore is posted inside), thcount_lock while thpool_wait reads  *)
(* the queue length and then the number of working threads, and while a    *)
(* thread leaves.  The single reads of num_threads_alive and of the queue  *)
(* length take no mutex, as in the code.                                   *)
(***************************************************************************)
EXTENDS Naturals, Sequences, FiniteSets

CONSTANTS
  Workers,    (* the threads thpool_init is asked for                       *)
  Jobs,       (* jobs the caller may add (bounds the number of calls)       *)
  Main,       (* the calling thread                                         *)
  NoJob,      (* the NULL job_p                                             *)
  NoThread,   (* no owner of a mutex                                        *)
  CanFail,    (* whether pthread_create may fail                            *)
  MaxPauses   (* bound: calls of thpool_pause                               *)

ASSUME PoolAssumption ==
  /\ IsFiniteSet(Workers) /\ Workers # {}
  /\ Main \notin Workers /\ NoThread \notin Workers \cup {Main}
  /\ NoJob \notin Jobs
  /\ CanFail \in BOOLEAN /\ MaxPauses \in Nat

VARIABLES
  keepalive,     (* threads_keepalive                                       *)
  on_hold,       (* threads_on_hold                                         *)
  alive,         (* num_threads_alive                                       *)
  working,       (* num_threads_working                                     *)
  thcount_lock,  (* owner                                                   *)
  rwmutex,       (* owner                                                   *)
  queue,         (* jobs from front to rear; len is its length              *)
  v,             (* has_jobs->v                                             *)
  main,          (* where the caller is                                     *)
  newjob,        (* the job the caller is pushing                           *)
  pc,            (* where each worker is; "blocked" waits on has_jobs->cond *)
  job,           (* job_p of each worker                                    *)
  pending,       (* SIGUSR1 sent and not delivered yet                      *)
  held,          (* the worker is inside thread_hold                        *)
  submitted, done,
  paused,        (* the caller's last call of the two was thpool_pause      *)
  pauses         (* calls of thpool_pause so far                            *)

queueVars == <<queue, newjob, submitted>>
semVars   == <<v>>
countVars == <<alive, working>>
lockVars  == <<thcount_lock, rwmutex>>
holdVars  == <<on_hold, pending, held, paused, pauses>>
vars == <<keepalive, countVars, lockVars, queueVars, semVars, main, pc, job,
          done, holdVars>>

WorkerStates == {"none", "init", "loop", "wait", "blocked", "got", "pull",
                 "pulled", "run", "dec", "exiting", "dead"}
MainStates == {"init", "idle", "push", "post", "wait", "len", "working",
               "waiting", "destroy", "freed"}

(* A thread that could not be created is in "none": the result of          *)
(* pthread_create is not looked at.                                        *)
ThreadInit ==
  \E failed \in IF CanFail THEN SUBSET Workers ELSE {{}} :
    pc = [w \in Workers |-> IF w \in failed THEN "none" ELSE "init"]

JobqueueInit == queue = <<>> /\ rwmutex = NoThread /\ v = 0

(* thpool_init up to the wait for its threads.                             *)
Init ==
  /\ keepalive = TRUE /\ on_hold = FALSE
  /\ alive = 0 /\ working = 0
  /\ thcount_lock = NoThread
  /\ JobqueueInit /\ newjob = NoJob /\ submitted = {} /\ done = {}
  /\ main = "init"
  /\ ThreadInit
  /\ job = [w \in Workers |-> NoJob]
  /\ pending = [w \in Workers |-> FALSE] /\ held = [w \in Workers |-> FALSE]
  /\ paused = FALSE /\ pauses = 0

Blocked == {w \in Workers : pc[w] = "blocked"}

(* Mutant of Post: no thread is signalled.                                 *)
PostSilently(locs) == v' = 1 /\ pc' = locs

(* bsem_post: one of the threads blocked on the condition goes back to the *)
(* test of v.  locs is where the workers are apart from that.              *)
Post(locs) ==
  /\ v' = 1
  /\ IF Blocked = {} THEN pc' = locs
     ELSE \E w \in Blocked : pc' = [locs EXCEPT ![w] = "wait"]

(* bsem_post_all                                                           *)
PostAll ==
  /\ v' = 1
  /\ pc' = [w \in Workers |-> IF w \in Blocked THEN "wait" ELSE pc[w]]
-----------------------------------------------------------------------------
(* thread_do.  A thread takes a step only outside thread_hold.             *)

At(w, loc) == pc[w] = loc /\ ~held[w]
Goto(w, loc) == pc' = [pc EXCEPT ![w] = loc]

(* Mutant of MarkAlive: the counter is read and written without the mutex,  *)
(* and the update of another thread is lost.                               *)
MarkAliveRaces(w) ==
  /\ At(w, "init")
  /\ alive' \in {alive, alive + 1}
  /\ Goto(w, "loop")
  /\ UNCHANGED <<keepalive, working, lockVars, queueVars, semVars, main, job, done,
                 holdVars>>

MarkAlive(w) ==
  /\ At(w, "init") /\ thcount_lock = NoThread
  /\ alive' = alive + 1
  /\ Goto(w, "loop")
  /\ UNCHANGED <<keepalive, working, lockVars, queueVars, semVars, main, job, done,
                 holdVars>>

(* while (threads_keepalive); a thread that leaves takes itself off the    *)
(* count and still holds the mutex.                                        *)
EnterLoop(w) ==
  /\ At(w, "loop") /\ keepalive
  /\ Goto(w, "wait")
  /\ UNCHANGED <<keepalive, countVars, lockVars, queueVars, semVars, main, job, done,
                 holdVars>>

LeaveLoop(w) ==
  /\ At(w, "loop") /\ ~keepalive /\ thcount_lock = NoThread
  /\ alive' = alive - 1
  /\ thcount_lock' = w
  /\ Goto(w, "exiting")
  /\ UNCHANGED <<keepalive, working, rwmutex, queueVars, semVars, main, job, done,
                 holdVars>>

ThreadExit(w) ==
  /\ At(w, "exiting")
  /\ thcount_lock' = NoThread
  /\ Goto(w, "dead")
  /\ UNCHANGED <<keepalive, countVars, rwmutex, queueVars, semVars, main, job, done,
                 holdVars>>

(* bsem_wait                                                               *)
WaitTakes(w) ==
  /\ At(w, "wait") /\ v = 1
  /\ v' = 0
  /\ Goto(w, "got")
  /\ UNCHANGED <<keepalive, countVars, lockVars, queueVars, main, job, done, holdVars>>

WaitBlocks(w) ==
  /\ At(w, "wait") /\ v # 1
  /\ Goto(w, "blocked")
  /\ UNCHANGED <<keepalive, countVars, lockVars, queueVars, semVars, main, job, done,
                 holdVars>>

SpuriousWakeup(w) ==
  /\ At(w, "blocked")
  /\ Goto(w, "wait")
  /\ UNCHANGED <<keepalive, countVars, lockVars, queueVars, semVars, main, job, done,
                 holdVars>>

CountWorking(w) ==
  /\ At(w, "got") /\ keepalive /\ thcount_lock = NoThread
  /\ working' = working + 1
  /\ Goto(w, "pull")
  /\ UNCHANGED <<keepalive, alive, lockVars, queueVars, semVars, main, job, done,
                 holdVars>>

(* Mutant of SkipJob: the counter is decremented on this path too.         *)
SkipJobCounts(w) ==
  /\ At(w, "got") /\ ~keepalive
  /\ Goto(w, "dec")
  /\ UNCHANGED <<keepalive, countVars, lockVars, queueVars, semVars, main, job, done,
                 holdVars>>

SkipJob(w) ==
  /\ At(w, "got") /\ ~keepalive
  /\ Goto(w, "loop")
  /\ UNCHANGED <<keepalive, countVars, lockVars, queueVars, semVars, main, job, done,
                 holdVars>>

(* Mutant of JobqueuePull: the last job is left at the front.              *)
JobqueuePullKeepsLast(w) ==
  /\ At(w, "pull") /\ rwmutex = NoThread
  /\ rwmutex' = w
  /\ job' = [job EXCEPT ![w] = IF queue = <<>> THEN NoJob ELSE Head(queue)]
  /\ queue' = IF Len(queue) < 2 THEN queue ELSE Tail(queue)
  /\ Goto(w, "pulled")
  /\ UNCHANGED <<keepalive, countVars, thcount_lock, newjob, submitted, semVars, main,
                 done, holdVars>>

(* jobqueue_pull takes the front job, then posts the semaphore if more     *)
(* jobs are left, and releases rwmutex.                                    *)
JobqueuePull(w) ==
  /\ At(w, "pull") /\ rwmutex = NoThread
  /\ rwmutex' = w
  /\ job' = [job EXCEPT ![w] = IF queue = <<>> THEN NoJob ELSE Head(queue)]
  /\ queue' = IF queue = <<>> THEN queue ELSE Tail(queue)
  /\ Goto(w, "pulled")
  /\ UNCHANGED <<keepalive, countVars, thcount_lock, newjob, submitted, semVars, main,
                 done, holdVars>>

AfterPull(w) == [pc EXCEPT ![w] = IF job[w] = NoJob THEN "dec" ELSE "run"]

(* Mutant of JobqueuePullPosts: the jobs left are not announced.           *)
JobqueuePullNoPost(w) ==
  /\ At(w, "pulled")
  /\ rwmutex' = NoThread
  /\ UNCHANGED v /\ pc' = AfterPull(w)
  /\ UNCHANGED <<keepalive, countVars, thcount_lock, queueVars, main, job, done,
                 holdVars>>

JobqueuePullPosts(w) ==
  /\ At(w, "pulled")
  /\ rwmutex' = NoThread
  /\ IF queue # <<>> THEN Post(AfterPull(w)) ELSE UNCHANGED v /\ pc' = AfterPull(w)
  /\ UNCHANGED <<keepalive, countVars, thcount_lock, queueVars, main, job, done,
                 holdVars>>

RunJob(w) ==
  /\ At(w, "run")
  /\ done' = done \cup {job[w]}
  /\ job' = [job EXCEPT ![w] = NoJob]
  /\ Goto(w, "dec")
  /\ UNCHANGED <<keepalive, countVars, lockVars, queueVars, semVars, main, holdVars>>

(* Mutant of CountIdle: threads_all_idle is never signalled.               *)
CountIdleSilently(w) ==
  /\ At(w, "dec") /\ thcount_lock = NoThread
  /\ working' = working - 1
  /\ UNCHANGED main
  /\ Goto(w, "loop")
  /\ UNCHANGED <<keepalive, alive, lockVars, queueVars, semVars, job, done, holdVars>>

(* The last thread to go idle signals the caller of thpool_wait.           *)
CountIdle(w) ==
  /\ At(w, "dec") /\ thcount_lock = NoThread
  /\ working' = working - 1
  /\ main' = IF working = 1 /\ main = "waiting" THEN "wait" ELSE main
  /\ Goto(w, "loop")
  /\ UNCHANGED <<keepalive, alive, lockVars, queueVars, semVars, job, done, holdVars>>

(* thread_hold: the signal is delivered at any point outside the handler,  *)
(* whose first statement sets threads_on_hold; it returns once that is 0.  *)
ThreadHold(w) ==
  /\ pending[w] /\ ~held[w] /\ pc[w] \notin {"none", "dead"}
  /\ pending' = [pending EXCEPT ![w] = FALSE]
  /\ held' = [held EXCEPT ![w] = TRUE]
  /\ on_hold' = TRUE
  /\ UNCHANGED <<keepalive, countVars, lockVars, queueVars, semVars, main, pc, job,
                 done, paused, pauses>>

ThreadReleased(w) ==
  /\ held[w] /\ ~on_hold
  /\ held' = [held EXCEPT ![w] = FALSE]
  /\ UNCHANGED <<keepalive, countVars, lockVars, queueVars, semVars, main, pc, job,
                 done, on_hold, pending, paused, pauses>>
-----------------------------------------------------------------------------
(* The API, as the calling thread uses it.                                 *)

MainGoto(from, to) == main = from /\ main' = to

(* thpool_init spins until every thread has counted itself.                *)
InitReturns ==
  /\ MainGoto("init", "idle") /\ alive = Cardinality(Workers)
  /\ UNCHANGED <<keepalive, countVars, lockVars, queueVars, semVars, pc, job, done,
                 holdVars>>

AddWork(j) ==
  /\ MainGoto("idle", "push")
  /\ j \notin submitted
  /\ newjob' = j
  /\ UNCHANGED <<keepalive, countVars, lockVars, queue, submitted, semVars, pc, job, done,
                 holdVars>>

JobqueuePush ==
  /\ MainGoto("push", "post") /\ rwmutex = NoThread
  /\ rwmutex' = Main
  /\ queue' = Append(queue, newjob)
  /\ submitted' = submitted \cup {newjob}
  /\ UNCHANGED <<keepalive, countVars, thcount_lock, newjob, semVars, pc, job, done,
                 holdVars>>

JobqueuePushPosts ==
  /\ MainGoto("post", "idle")
  /\ Post(pc)
  /\ rwmutex' = NoThread
  /\ newjob' = NoJob
  /\ UNCHANGED <<keepalive, countVars, thcount_lock, queue, submitted, job, done,
                 holdVars>>

(* thpool_wait                                                             *)
ThpoolWait ==
  /\ MainGoto("idle", "wait")
  /\ UNCHANGED <<keepalive, countVars, lockVars, queueVars, semVars, pc, job, done,
                 holdVars>>

WaitLocks ==
  /\ MainGoto("wait", "len") /\ thcount_lock = NoThread
  /\ thcount_lock' = Main
  /\ UNCHANGED <<keepalive, countVars, rwmutex, queueVars, semVars, pc, job, done,
                 holdVars>>

WaitReadsLen ==
  /\ main = "len"
  /\ IF queue = <<>> THEN main' = "working" /\ UNCHANGED thcount_lock
     ELSE main' = "waiting" /\ thcount_lock' = NoThread
  /\ UNCHANGED <<keepalive, countVars, rwmutex, queueVars, semVars, pc, job, done,
                 holdVars>>

(* Mutant of WaitReadsWorking: only the queue length is tested.            *)
WaitIgnoresWorking ==
  /\ main = "working"
  /\ main' = "idle"
  /\ thcount_lock' = NoThread
  /\ UNCHANGED <<keepalive, countVars, rwmutex, queueVars, semVars, pc, job, done,
                 holdVars>>

WaitReadsWorking ==
  /\ main = "working"
  /\ main' = IF working = 0 THEN "idle" ELSE "waiting"
  /\ thcount_lock' = NoThread
  /\ UNCHANGED <<keepalive, countVars, rwmutex, queueVars, semVars, pc, job, done,
                 holdVars>>

WaitSpurious ==
  /\ MainGoto("waiting", "wait")
  /\ UNCHANGED <<keepalive, countVars, lockVars, queueVars, semVars, pc, job, done,
                 holdVars>>

ThpoolPause ==
  /\ main = "idle" /\ pauses < MaxPauses
  /\ pending' = [w \in Workers |-> TRUE]
  /\ paused' = TRUE /\ pauses' = pauses + 1
  /\ UNCHANGED <<keepalive, countVars, lockVars, queueVars, semVars, main, pc, job,
                 done, on_hold, held>>

ThpoolResume ==
  /\ main = "idle" /\ paused
  /\ on_hold' = FALSE /\ paused' = FALSE
  /\ UNCHANGED <<keepalive, countVars, lockVars, queueVars, semVars, main, pc, job,
                 done, pending, held, pauses>>

ThpoolDestroy ==
  /\ MainGoto("idle", "destroy")
  /\ keepalive' = FALSE
  /\ UNCHANGED <<countVars, lockVars, queueVars, semVars, pc, job, done, holdVars>>

(* The two loops that post to all threads until none is counted.           *)
DestroyPosts ==
  /\ main = "destroy" /\ alive # 0
  /\ PostAll
  /\ UNCHANGED <<keepalive, countVars, lockVars, queueVars, main, job, done, holdVars>>

(* jobqueue_clear: what waits is dropped and the semaphore is reset.       *)
JobqueueClear == queue' = <<>> /\ v' = 0

(* Mutant of DestroyFrees: only the first loop, which gives up after a      *)
(* second.                                                                 *)
DestroyFreesEarly ==
  /\ MainGoto("destroy", "freed")
  /\ JobqueueClear
  /\ UNCHANGED <<keepalive, countVars, lockVars, newjob, submitted, pc, job, done,
                 holdVars>>

(* jobqueue_destroy and the deallocations.                                 *)
DestroyFrees ==
  /\ MainGoto("destroy", "freed") /\ alive = 0
  /\ JobqueueClear
  /\ UNCHANGED <<keepalive, countVars, lockVars, newjob, submitted, pc, job, done,
                 holdVars>>
-----------------------------------------------------------------------------
Thread(w) ==
  \/ MarkAlive(w) \/ EnterLoop(w) \/ LeaveLoop(w) \/ ThreadExit(w)
  \/ WaitTakes(w) \/ WaitBlocks(w) \/ CountWorking(w) \/ SkipJob(w)
  \/ JobqueuePull(w) \/ JobqueuePullPosts(w) \/ RunJob(w) \/ CountIdle(w)
  \/ ThreadHold(w) \/ ThreadReleased(w)

(* The steps of a call that has begun.                                     *)
InCall ==
  \/ InitReturns \/ JobqueuePush \/ JobqueuePushPosts
  \/ WaitLocks \/ WaitReadsLen \/ WaitReadsWorking
  \/ DestroyPosts \/ DestroyFrees

Call ==
  \/ \E j \in Jobs : AddWork(j)
  \/ ThpoolWait \/ ThpoolPause \/ ThpoolResume \/ ThpoolDestroy

Next ==
  \/ \E w \in Workers : Thread(w) \/ SpuriousWakeup(w)
  \/ InCall \/ Call \/ WaitSpurious

Spec == Init /\ [][Next]_vars

(* The scheduler runs every thread that can take a step and every job      *)
(* returns; a mutex that is free again and again is acquired in the end    *)
(* (strong fairness); the caller finishes a call it has begun.             *)
FairSpec ==
  /\ Spec
  /\ \A w \in Workers : SF_vars(Thread(w))
  /\ SF_vars(InCall)
-----------------------------------------------------------------------------
(* Properties.                                                             *)

TypeOK ==
  /\ keepalive \in BOOLEAN /\ on_hold \in BOOLEAN
  /\ alive \in Nat /\ working \in Nat
  /\ thcount_lock \in Workers \cup {Main, NoThread}
  /\ rwmutex \in Workers \cup {Main, NoThread}
  /\ queue \in Seq(Jobs) /\ newjob \in Jobs \cup {NoJob}
  /\ (main = "push" => newjob \in Jobs)
  /\ submitted \subseteq Jobs /\ done \subseteq Jobs
  /\ v \in {0, 1}
  /\ main \in MainStates
  /\ pc \in [Workers -> WorkerStates]
  /\ job \in [Workers -> Jobs \cup {NoJob}]
  /\ \A w \in Workers : pc[w] = "run" => job[w] # NoJob
  /\ pending \in [Workers -> BOOLEAN] /\ held \in [Workers -> BOOLEAN]
  /\ paused \in BOOLEAN /\ pauses \in Nat

InJob == {w \in Workers : pc[w] \in {"pull", "pulled", "run", "dec"}}
Counted == {w \in Workers : pc[w] \notin {"none", "init", "exiting", "dead"}}

(* num_threads_working and num_threads_alive, which thpool_wait and        *)
(* thpool_destroy read, say exactly how many threads are between their two *)
(* updates of the counter.                                                 *)
CountsExact == working = Cardinality(InJob) /\ alive = Cardinality(Counted)

Places(j) == {n \in DOMAIN queue : queue[n] = j}
Holders(j) == {w \in Workers : job[w] = j}

(* A submitted job is in one place: once in the queue, or with one thread, *)
(* or finished.  None is lost before the pool is freed, none is run twice. *)
JobsConserved ==
  \A j \in Jobs :
    /\ \A m, n \in Places(j) : m = n
    /\ \A w, x \in Holders(j) : w = x
    /\ (Places(j) # {} => Holders(j) = {} /\ j \notin done)
    /\ (Holders(j) # {} => j \notin done)
    /\ (main # "freed" =>
          (j \in submitted <=> Places(j) # {} \/ Holders(j) # {} \/ j \in done))

(* A job that waits is announced: the semaphore is up, or a thread that    *)
(* went past it is about to take a job or to raise it again.  Two posts    *)
(* that fall together lose nothing.                                        *)
WorkAnnounced ==
  keepalive /\ queue # <<>> /\ main # "post" =>
    v = 1 \/ \E w \in Workers : pc[w] \in {"got", "pull", "pulled"}

(* No thread sleeps on a raised semaphore unless another one is awake to   *)
(* take it.                                                                *)
WakeupPending ==
  v = 1 /\ Blocked # {} => \E w \in Workers : pc[w] = "wait"

(* thpool_wait returns only when every job that was added has finished,    *)
(* though it reads the queue and the counter one after the other.          *)
WaitSound == [][main = "working" /\ main' = "idle" => submitted \subseteq done]_vars

(* When thpool_destroy frees the pool, every thread has done all it does    *)
(* with a job or the queue; one of them may still have to release          *)
(* thcount_lock, which is then part of memory already freed.               *)
FreedQuiet ==
  main = "freed" =>
    /\ \A w \in Workers : pc[w] \in {"exiting", "dead"}
    /\ \A w, x \in Workers : pc[w] = "exiting" /\ pc[x] = "exiting" => w = x

(* A paused thread stands wherever it was, with the mutex it holds, so the *)
(* calls are asked to return only if in the end no thread is held and no   *)
(* pause signal is on its way.                                             *)
Unheld == <>[](\A w \in Workers : ~held[w] /\ ~pending[w])

(* Every added job is run, unless the pool is destroyed first.             *)
JobsRun ==
  Unheld => \A j \in Jobs : j \in submitted ~> j \in done \/ ~keepalive

(* thpool_add_work, thpool_wait and thpool_destroy return.                 *)
CallsReturn ==
  Unheld =>
    /\ main \in {"push", "wait"} ~> main = "idle"
    /\ main = "destroy" ~> main = "freed"

(* thpool_init returns if every thread could be created.                   *)
PoolStarts == main = "init" ~> main = "idle" \/ \E w \in Workers : pc[w] = "none"

(* The pool implements the abstract job pool.                              *)
Abs == INSTANCE JobPool WITH
         waiting <- queue, running <- {job[w] : w \in Workers} \ {NoJob}
ImplementsJobPool == Abs!Spec
-----------------------------------------------------------------------------
(* What a comment of threadpool.h says and the code does not do; a run     *)
(* refutes it.                                                             *)

(* "The threads return to their previous states once thpool_resume is      *)
(* called": a thread is not held for ever when the pool is not paused.     *)
ResumeReleases == \A w \in Workers : held[w] /\ ~paused ~> ~held[w] \/ paused
=============================================================================
