----------------------------- MODULE ThreadPool -----------------------------
(***************************************************************************)
(* The thread pool of src/systems/thread_pool.c: a fixed set of workers    *)
(* that wait on one condition variable for jobs kept in a queue under one  *)
(* mutex, and the thread that owns the pool, which submits jobs (add_work),*)
(* may be interrupted by SIGINT at any point of that loop and then         *)
(* destroys the pool (thread_pool_destructor), or waits for it (wait_all). *)
(*                                                                         *)
(* A step is what one thread does between two points where another thread  *)
(* can notice: the mutex, the condition variable and the queue.            *)
(***************************************************************************)
EXTENDS Integers, Sequences, FiniteSets

CONSTANTS
  NumThreads,           \* the argument of thread_pool_constructor
  MaxJobs,              \* bound: how many jobs the owner submits
  MaxSpurious           \* bound: how many waits end without a signal

ASSUME NumThreadsAssumption == NumThreads \in Nat \ {0}
ASSUME BoundsAssumption == MaxJobs \in Nat /\ MaxSpurious \in Nat

Main    == 0                      \* the thread that owns the pool
Workers == 1..NumThreads          \* indexes of thread_pool->pool, from 1
Threads == 0..NumThreads
NoJob   == 0                      \* jobs are numbered from 1 as they are pushed

VARIABLES
  active,               \* thread_pool->active
  lock,                 \* the holder of thread_pool->lock: {} or a singleton
  work,                 \* thread_pool->work
  pc,                   \* where each thread is
  job,                  \* each worker's local copy of the job it took
  i,                    \* the loop counter of thread_pool_destructor
  cancelled,            \* workers with a pending pthread_cancel
  submitted,            \* how many jobs were pushed
  finished,             \* jobs that ran to their end
  spurious              \* how many waits ended without a signal

vars == <<active, lock, work, pc, job, i, cancelled, submitted, finished, spurious>>

WorkerPcs == {"test", "lock", "wait", "woken", "peek", "pop", "unlock",
              "run", "exited", "dead"}
AddPcs == {"accept", "addLock", "addPush", "addSignal", "addUnlock"}
DestroyPcs == {"destroy", "signalAll", "cancel", "join", "free", "freed"}
WaitPcs == {"waitTest", "wait", "woken", "waited"}
MainPcs == AddPcs \cup DestroyPcs \cup WaitPcs

Init ==
  /\ active = TRUE
  /\ lock = {}
  /\ work = <<>>
  /\ pc = [t \in Threads |-> IF t = Main THEN "accept" ELSE "test"]
  /\ job = [w \in Workers |-> NoJob]
  /\ i = 1
  /\ cancelled = {}
  /\ submitted = 0
  /\ finished = {}
  /\ spurious = 0

Goto(t, label) == pc' = [pc EXCEPT ![t] = label]

-----------------------------------------------------------------------------
(* The condition variable and the mutex. *)

Waiting == {t \in Threads : pc[t] = "wait"}

(* pthread_cond_signal wakes one waiter, whichever it likes, and is        *)
(* forgotten when nobody waits; t, the caller, moves on to label.          *)
SignalAndGoto(t, label) ==
  IF Waiting = {}
  THEN Goto(t, label)
  ELSE \E r \in Waiting : pc' = [pc EXCEPT ![r] = "woken", ![t] = label]

(* POSIX lets a wait end without a signal. *)
SpuriousWakeup(t) ==
  /\ spurious < MaxSpurious
  /\ pc[t] = "wait"
  /\ Goto(t, "woken")
  /\ spurious' = spurious + 1
  /\ UNCHANGED <<active, lock, work, job, i, cancelled, submitted, finished>>

-----------------------------------------------------------------------------
(* A worker: generic_thread_function. *)

TestActive(w) ==
  /\ pc[w] = "test"
  /\ Goto(w, IF active THEN "lock" ELSE "exited")
  /\ UNCHANGED <<active, lock, work, job, i, cancelled, submitted, finished, spurious>>

(* Lock and pthread_cond_wait, which gives the lock back as it blocks: the *)
(* queue is not looked at in between.                                      *)
LockAndWait(w) ==
  /\ pc[w] = "lock"
  /\ lock = {}
  /\ Goto(w, "wait")
  /\ UNCHANGED <<active, lock, work, job, i, cancelled, submitted, finished, spurious>>

Reacquire(w) ==
  /\ pc[w] = "woken"
  /\ lock = {}
  /\ lock' = {w}
  /\ Goto(w, "peek")
  /\ UNCHANGED <<active, work, job, i, cancelled, submitted, finished, spurious>>

Peek(w) ==
  /\ pc[w] = "peek"
  /\ IF work = <<>>
     THEN job' = [job EXCEPT ![w] = NoJob] /\ Goto(w, "unlock")
     ELSE job' = [job EXCEPT ![w] = Head(work)] /\ Goto(w, "pop")
  /\ UNCHANGED <<active, lock, work, i, cancelled, submitted, finished, spurious>>

(* Seeded fault: the job is looked at and never taken out. *)
PopForgotten(w) ==
  /\ pc[w] = "pop"
  /\ Goto(w, "unlock")
  /\ UNCHANGED <<active, lock, work, job, i, cancelled, submitted, finished, spurious>>

Pop(w) ==
  /\ pc[w] = "pop"
  /\ work # <<>>
  /\ work' = Tail(work)
  /\ Goto(w, "unlock")
  /\ UNCHANGED <<active, lock, job, i, cancelled, submitted, finished, spurious>>

(* Seeded fault: the lock is given back only when there was nothing to do. *)
UnlockIdle(w) ==
  /\ pc[w] = "unlock"
  /\ lock' = IF job[w] = NoJob THEN {} ELSE lock
  /\ Goto(w, IF job[w] = NoJob THEN "test" ELSE "run")
  /\ UNCHANGED <<active, work, job, i, cancelled, submitted, finished, spurious>>

Unlock(w) ==
  /\ pc[w] = "unlock"
  /\ lock' = {}
  /\ Goto(w, IF job[w] = NoJob THEN "test" ELSE "run")
  /\ UNCHANGED <<active, work, job, i, cancelled, submitted, finished, spurious>>

FinishJob(w) ==
  /\ pc[w] = "run"
  /\ finished' = finished \cup {job[w]}
  /\ job' = [job EXCEPT ![w] = NoJob]
  /\ Goto(w, "test")
  /\ UNCHANGED <<active, lock, work, i, cancelled, submitted, spurious>>

(* A cancelled worker dies inside pthread_cond_wait, which takes the mutex *)
(* back first; no cleanup handler gives it up.                             *)
DieWaiting(w) ==
  /\ w \in cancelled
  /\ pc[w] \in {"wait", "woken"}
  /\ lock = {}
  /\ lock' = {w}
  /\ Goto(w, "dead")
  /\ UNCHANGED <<active, work, job, i, cancelled, submitted, finished, spurious>>

(* A job blocks in recv, send, read, write: all cancellation points. *)
DieRunning(w) ==
  /\ w \in cancelled
  /\ pc[w] = "run"
  /\ Goto(w, "dead")
  /\ UNCHANGED <<active, lock, work, job, i, cancelled, submitted, finished, spurious>>

Worker(w) ==
  \/ TestActive(w) \/ LockAndWait(w) \/ Reacquire(w) \/ Peek(w) \/ Pop(w)
  \/ Unlock(w) \/ FinishJob(w) \/ DieWaiting(w) \/ DieRunning(w)

-----------------------------------------------------------------------------
(* The owner's launch loop, which calls add_work for every client. *)

Accept ==
  /\ pc[Main] = "accept"
  /\ submitted < MaxJobs
  /\ Goto(Main, "addLock")
  /\ UNCHANGED <<active, lock, work, job, i, cancelled, submitted, finished, spurious>>

(* Seeded fault: add_work does not wait for the mutex. *)
AddLockAtOnce ==
  /\ pc[Main] = "addLock"
  /\ lock' = {Main}
  /\ Goto(Main, "addPush")
  /\ UNCHANGED <<active, work, job, i, cancelled, submitted, finished, spurious>>

AddLock ==
  /\ pc[Main] = "addLock"
  /\ lock = {}
  /\ lock' = {Main}
  /\ Goto(Main, "addPush")
  /\ UNCHANGED <<active, work, job, i, cancelled, submitted, finished, spurious>>

(* Seeded fault: the job goes to the head of the queue. *)
AddPushFront ==
  /\ pc[Main] = "addPush"
  /\ submitted' = submitted + 1
  /\ work' = <<submitted + 1>> \o work
  /\ Goto(Main, "addSignal")
  /\ UNCHANGED <<active, lock, job, i, cancelled, finished, spurious>>

AddPush ==
  /\ pc[Main] = "addPush"
  /\ submitted' = submitted + 1
  /\ work' = Append(work, submitted + 1)
  /\ Goto(Main, "addSignal")
  /\ UNCHANGED <<active, lock, job, i, cancelled, finished, spurious>>

(* Seeded fault: pthread_cond_broadcast. *)
AddBroadcast ==
  /\ pc[Main] = "addSignal"
  /\ pc' = [t \in Threads |-> IF t = Main THEN "addUnlock"
                              ELSE IF t \in Waiting THEN "woken" ELSE pc[t]]
  /\ UNCHANGED <<active, lock, work, job, i, cancelled, submitted, finished, spurious>>

AddSignal ==
  /\ pc[Main] = "addSignal"
  /\ SignalAndGoto(Main, "addUnlock")
  /\ UNCHANGED <<active, lock, work, job, i, cancelled, submitted, finished, spurious>>

AddUnlock ==
  /\ pc[Main] = "addUnlock"
  /\ lock' = {}
  /\ Goto(Main, "accept")
  /\ UNCHANGED <<active, work, job, i, cancelled, submitted, finished, spurious>>

AddWork == AddLock \/ AddPush \/ AddSignal \/ AddUnlock

(* SIGINT: the handler jumps out of the loop, from wherever it is, to the  *)
(* code that destroys the pool.                                            *)
Interrupt ==
  /\ pc[Main] \in AddPcs
  /\ Goto(Main, "destroy")
  /\ UNCHANGED <<active, lock, work, job, i, cancelled, submitted, finished, spurious>>

-----------------------------------------------------------------------------
(* thread_pool_destructor. *)

Deactivate ==
  /\ pc[Main] = "destroy"
  /\ active' = FALSE
  /\ i' = 1
  /\ Goto(Main, "signalAll")
  /\ UNCHANGED <<lock, work, job, cancelled, submitted, finished, spurious>>

(* Seeded fault: the second loop starts where the first one stopped. *)
SignalNextNoReset ==
  /\ pc[Main] = "signalAll"
  /\ i' = i + 1
  /\ SignalAndGoto(Main, IF i = NumThreads THEN "cancel" ELSE "signalAll")
  /\ UNCHANGED <<active, lock, work, job, cancelled, submitted, finished, spurious>>

SignalNext ==
  /\ pc[Main] = "signalAll"
  /\ i' = IF i = NumThreads THEN 1 ELSE i + 1
  /\ SignalAndGoto(Main, IF i = NumThreads THEN "cancel" ELSE "signalAll")
  /\ UNCHANGED <<active, lock, work, job, cancelled, submitted, finished, spurious>>

CancelNext ==
  /\ pc[Main] = "cancel"
  /\ cancelled' = cancelled \cup {i}
  /\ Goto(Main, "join")
  /\ UNCHANGED <<active, lock, work, job, i, submitted, finished, spurious>>

(* Seeded fault: the workers are cancelled and not joined. *)
JoinNobody ==
  /\ pc[Main] = "join"
  /\ i' = IF i = NumThreads THEN i ELSE i + 1
  /\ Goto(Main, IF i = NumThreads THEN "free" ELSE "cancel")
  /\ UNCHANGED <<active, lock, work, job, cancelled, submitted, finished, spurious>>

JoinNext ==
  /\ pc[Main] = "join"
  /\ pc[i] \in {"exited", "dead"}
  /\ i' = IF i = NumThreads THEN i ELSE i + 1
  /\ Goto(Main, IF i = NumThreads THEN "free" ELSE "cancel")
  /\ UNCHANGED <<active, lock, work, job, cancelled, submitted, finished, spurious>>

FreePool ==
  /\ pc[Main] = "free"
  /\ work' = <<>>
  /\ Goto(Main, "freed")
  /\ UNCHANGED <<active, lock, job, i, cancelled, submitted, finished, spurious>>

Destroy == Deactivate \/ SignalNext \/ CancelNext \/ JoinNext \/ FreePool

-----------------------------------------------------------------------------
(* wait_all, which only the combined server's main() calls.                *)

CallWaitAll ==
  /\ pc[Main] = "accept"
  /\ Goto(Main, "waitTest")
  /\ UNCHANGED <<active, lock, work, job, i, cancelled, submitted, finished, spurious>>

(* The caller of pthread_cond_wait does not hold the mutex on the first    *)
(* turn. That is undefined; the C library's default mutex is left          *)
(* unlocked, whoever held it.                                              *)
WaitAllTest ==
  /\ pc[Main] = "waitTest"
  /\ IF active /\ Len(work) > 0
     THEN lock' = {} /\ Goto(Main, "wait")
     ELSE lock' = lock /\ Goto(Main, "waited")
  /\ UNCHANGED <<active, work, job, i, cancelled, submitted, finished, spurious>>

WaitAllWoken ==
  /\ pc[Main] = "woken"
  /\ lock = {}
  /\ lock' = {Main}
  /\ Goto(Main, "waitTest")
  /\ UNCHANGED <<active, work, job, i, cancelled, submitted, finished, spurious>>

WaitAll == CallWaitAll \/ WaitAllTest \/ WaitAllWoken

-----------------------------------------------------------------------------
(* Both servers use the pool through add_work and the destructor alone.    *)
Next ==
  \/ Accept \/ Interrupt \/ AddWork \/ Destroy
  \/ \E w \in Workers : Worker(w) \/ SpuriousWakeup(w)

(* Threads that can run do run, and a job that is not cancelled ends; no   *)
(* client need ever connect, and SIGINT or a spurious wakeup never has to  *)
(* come.                                                                   *)
Fairness ==
  /\ WF_vars(AddWork) /\ WF_vars(Destroy)
  /\ \A w \in Workers : WF_vars(Worker(w))

Spec == Init /\ [][Next]_vars
FairSpec == Spec /\ Fairness

(* The combined server's main(): it waits for the pool after adding work. *)
WaitNext == Next \/ WaitAll \/ SpuriousWakeup(Main)
WaitSpec == Init /\ [][WaitNext]_vars /\ Fairness /\ WF_vars(WaitAllTest \/ WaitAllWoken)

-----------------------------------------------------------------------------
(* Properties. *)

(* Every variable holds what the code can put there. *)
TypeOK ==
  /\ active \in BOOLEAN
  /\ lock \in {{}} \cup {{t} : t \in Threads}
  /\ submitted \in Nat
  /\ work \in Seq(1..submitted)
  /\ pc \in [Threads -> WorkerPcs \cup MainPcs]
  /\ pc[Main] \in MainPcs /\ \A w \in Workers : pc[w] \in WorkerPcs
  /\ job \in [Workers -> 0..submitted]
  /\ i \in Workers
  /\ cancelled \subseteq Workers
  /\ finished \subseteq 1..submitted
  /\ spurious \in Nat

Critical(t) == pc[t] \in {"peek", "pop", "unlock", "addPush", "addSignal", "addUnlock"}

(* The queue is read and changed by one thread at a time, the holder of    *)
(* the mutex; a mutex that is held by a thread outside those regions was   *)
(* abandoned, which only destroying the pool can cause: a worker cancelled *)
(* in pthread_cond_wait, or an add_work cut off by SIGINT.                 *)
MutualExclusion ==
  /\ \A t \in Threads : Critical(t) => lock = {t}
  /\ \A t \in lock : Critical(t) \/ pc[Main] \in DestroyPcs

Holding(w) == pc[w] # "pop" /\ job[w] # NoJob
Taken == 1..(submitted - Len(work))
HeldJobs == {job[w] : w \in {v \in Workers : Holding(v)}}
HeldOnce ==
  \A v, w \in Workers :
    Holding(v) => job[v] \notin finished /\ (Holding(w) /\ job[v] = job[w] => v = w)

(* Until the pool is freed the queue holds the jobs pushed last, in the    *)
(* order they were pushed; every earlier one has ended or is in the hands  *)
(* of one worker (dead ones included): add_work and the workers together   *)
(* lose no job, run none twice and start them in order.                    *)
JobsAccountedFor ==
  pc[Main] # "freed" =>
    /\ work = [k \in 1..Len(work) |-> submitted - Len(work) + k]
    /\ Taken = finished \cup HeldJobs
    /\ HeldOnce

(* thread_pool_destructor frees the pool only when no worker is left that  *)
(* could touch it: what the joins are for.                                 *)
FreedWhenQuiet ==
  pc[Main] \in {"free", "freed"} => \A w \in Workers : pc[w] \in {"exited", "dead"}

Pending == {w \in Workers : pc[w] \in {"woken", "peek", "pop"}}
Unserved(n, ws, m) == n - Cardinality(ws) - (IF m = "addSignal" THEN 1 ELSE 0)

(* A worker takes at most one job per wakeup, and add_work gives at most   *)
(* one wakeup per job: the number of queued jobs no wakeup is on its way   *)
(* for never shrinks while the pool is in use, except by wakeups nobody    *)
(* asked for. A signal that found no waiter is not made up for later.      *)
BacklogNeverRecovers ==
  [][\/ pc'[Main] \notin AddPcs
     \/ spurious' # spurious
     \/ Unserved(Len(work), Pending, pc[Main])
          <= Unserved(Len(work'), Pending', pc'[Main])]_vars

Started(j) == j <= submitted /\ \A k \in 1..Len(work) : work[k] # j

(* A job with as many wakeups under way as there are jobs up to and        *)
(* including it in the queue is started, unless the pool is destroyed.     *)
WakeupsServeJobs ==
  \A j \in 1..MaxJobs :
    (\E k \in 1..Len(work) : work[k] = j /\ k <= Cardinality(Pending))
      ~> (Started(j) \/ pc[Main] \in DestroyPcs)

(* The pool behaves as JobPool does, a worker being a slot that is taken   *)
(* from the pop to the end of the job.                                     *)
Promise == INSTANCE JobPool WITH
  Slots <- Workers,
  queued <- work,
  slot <- [w \in Workers |-> IF pc[w] \in {"unlock", "run"} THEN job[w] ELSE NoJob],
  closed <- pc[Main] = "freed"

(* Every step of the code is a step of the abstract pool or none of its. *)
ImplementsJobPool == Promise!Spec

-----------------------------------------------------------------------------
(* What the comments of thread_pool.c say, which the code does not do. *)

(* "It allows each thread to await a ThreadJob object and execute its      *)
(* contents": a job that was added is executed.                            *)
EveryJobStarts ==
  \A j \in 1..MaxJobs : (submitted >= j) ~> (Started(j) \/ pc[Main] \in DestroyPcs)

(* "signals all the threads to wake up, waits for them to finish, and then *)
(* frees the thread pool": a destructor that began ends.                   *)
DestructorEnds == (pc[Main] = "destroy") ~> (pc[Main] = "freed")

(* "Waits for all the threads in the pool to finish their current jobs". *)
WaitAllWaits == pc[Main] = "waited" => \A w \in Workers : job[w] = NoJob
=============================================================================
