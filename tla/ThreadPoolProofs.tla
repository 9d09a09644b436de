-------------------------- MODULE ThreadPoolProofs --------------------------
(***************************************************************************)
(* Proofs about ThreadPool for every number of workers and every bound.    *)
(***************************************************************************)
EXTENDS ThreadPool, FiniteSetTheorems, TLAPS

(* A worker has a job in hand from the pop to the end of the job and none  *)
(* while it waits.                                                         *)
HandsOK ==
  \A w \in Workers :
    /\ pc[w] \in {"pop", "run"} => job[w] # NoJob
    /\ pc[w] \in {"test", "lock", "wait", "woken", "peek", "exited"} => job[w] = NoJob

(* A worker that goes to one of its labels leaves every other thread alone. *)
LEMMA WorkerGoto ==
  ASSUME TypeOK, NEW w \in Workers, NEW label \in WorkerPcs, Goto(w, label)
  PROVE  /\ pc' \in [Threads -> WorkerPcs \cup MainPcs]
         /\ pc'[w] = label
         /\ pc'[Main] = pc[Main]
         /\ \A v \in Workers : pc'[v] \in WorkerPcs
         /\ \A v \in Workers \ {w} : pc'[v] = pc[v]
<1>1. w \in Threads /\ w # Main
  BY NumThreadsAssumption DEF Workers, Threads, Main
<1>2. pc \in [Threads -> WorkerPcs \cup MainPcs] /\ \A v \in Workers : pc[v] \in WorkerPcs
  BY DEF TypeOK
<1>3. Main \in Threads /\ Workers \subseteq Threads
  BY NumThreadsAssumption DEF Workers, Threads, Main
<1> QED
  BY <1>1, <1>2, <1>3 DEF Goto

(* A signal moves its caller on and at most wakes one waiting worker. *)
LEMMA SignalEffect ==
  ASSUME TypeOK, pc[Main] # "wait", NEW label \in MainPcs, SignalAndGoto(Main, label)
  PROVE  /\ pc' \in [Threads -> WorkerPcs \cup MainPcs]
         /\ pc'[Main] = label
         /\ \A w \in Workers : pc'[w] = pc[w] \/ (pc[w] = "wait" /\ pc'[w] = "woken")
<1> USE NumThreadsAssumption DEF TypeOK, Goto, Workers, Threads, Main
<1>1. CASE Waiting = {}
  BY <1>1 DEF SignalAndGoto
<1>2. CASE Waiting # {}
  <2>1. PICK r \in Waiting : pc' = [pc EXCEPT ![r] = "woken", ![Main] = label]
    BY <1>2 DEF SignalAndGoto
  <2>2. r \in Threads /\ pc[r] = "wait" /\ r # Main
    BY DEF Waiting
  <2> QED
    BY <2>1, <2>2 DEF WorkerPcs
<1> QED
  BY <1>1, <1>2

(* Every step the workers and the owner take keeps every variable typed. *)
LEMMA TypeStep == TypeOK /\ HandsOK /\ [Next]_vars => TypeOK'
<1> SUFFICES ASSUME TypeOK, HandsOK, [Next]_vars PROVE TypeOK'
  OBVIOUS
<1> USE NumThreadsAssumption DEF TypeOK, Goto, Workers, Threads, Main, NoJob,
        WorkerPcs, MainPcs, AddPcs, DestroyPcs, WaitPcs
<1>1. CASE Accept
  BY <1>1 DEF Accept
<1>2. CASE Interrupt
  BY <1>2 DEF Interrupt
<1>3. CASE AddWork
  <2>1. CASE AddLock
    BY <2>1 DEF AddLock
  <2>2. CASE AddPush
    <3>1. work' \in Seq(1..submitted')
      BY <2>2 DEF AddPush
    <3> QED
      BY <2>2, <3>1, SMTT(30) DEF AddPush
  <2>3. CASE AddSignal
    <3>1. "addUnlock" \in MainPcs /\ pc[Main] # "wait"
      BY <2>3 DEF AddSignal
    <3> QED
      BY <2>3, <3>1, SignalEffect DEF AddSignal
  <2>4. CASE AddUnlock
    BY <2>4 DEF AddUnlock
  <2> QED
    BY <1>3, <2>1, <2>2, <2>3, <2>4 DEF AddWork
<1>4. CASE Destroy
  <2>1. CASE Deactivate
    <3>1. i' \in Workers
      BY <2>1 DEF Deactivate
    <3>2. active' \in BOOLEAN
      BY <2>1 DEF Deactivate
    <3> QED
      BY <2>1, <3>1, <3>2 DEF Deactivate
  <2>2. CASE SignalNext
    <3>1. (IF i = NumThreads THEN "cancel" ELSE "signalAll") \in MainPcs /\ pc[Main] # "wait"
      BY <2>2 DEF SignalNext
    <3> QED
      <4>1. i' \in Workers
        BY <2>2 DEF SignalNext
      <4> QED
        BY <2>2, <3>1, <4>1, SignalEffect DEF SignalNext
  <2>3. CASE CancelNext
    BY <2>3 DEF CancelNext
  <2>4. CASE JoinNext
    BY <2>4 DEF JoinNext
  <2>5. CASE FreePool
    BY <2>5 DEF FreePool
  <2> QED
    BY <1>4, <2>1, <2>2, <2>3, <2>4, <2>5 DEF Destroy
<1>5. ASSUME NEW w \in Workers, Worker(w) PROVE TypeOK'
  <2>1. CASE TestActive(w)
    BY <2>1 DEF TestActive
  <2>2. CASE LockAndWait(w)
    BY <2>2 DEF LockAndWait
  <2>3. CASE Reacquire(w)
    BY <2>3 DEF Reacquire
  <2>4. CASE Peek(w)
    <3>1. work # <<>> => Head(work) \in 1..submitted
      OBVIOUS
    <3>2. CASE work = <<>>
      <4>1. job' = [job EXCEPT ![w] = NoJob] /\ Goto(w, "unlock")
        BY <2>4, <3>2 DEF Peek
      <4>2. job' \in [Workers -> 0..submitted]
        BY <4>1
      <4> QED
        BY <2>4, <4>1, <4>2, WorkerGoto DEF Peek
    <3>3. CASE work # <<>>
      <4>1. job' = [job EXCEPT ![w] = Head(work)] /\ Goto(w, "pop")
        BY <2>4, <3>3 DEF Peek
      <4>2. job' \in [Workers -> 0..submitted]
        BY <3>1, <3>3, <4>1
      <4> QED
        BY <2>4, <4>1, <4>2, WorkerGoto DEF Peek
    <3> QED
      BY <3>2, <3>3
  <2>5. CASE Pop(w)
    <3>1. work' \in Seq(1..submitted)
      BY <2>5 DEF Pop
    <3> QED
      BY <2>5, <3>1 DEF Pop
  <2>6. CASE Unlock(w)
    BY <2>6 DEF Unlock
  <2>7. CASE FinishJob(w)
    <3>1. job[w] \in 1..submitted
      BY <2>7, SMTT(30) DEF FinishJob, HandsOK
    <3>2. job' \in [Workers -> 0..submitted]
      BY <2>7, <3>1 DEF FinishJob
    <3>3. finished' \subseteq 1..submitted
      BY <2>7, <3>1 DEF FinishJob
    <3>4. Goto(w, "test")
      BY <2>7 DEF FinishJob
    <3> QED
      BY <2>7, <3>2, <3>3, <3>4, WorkerGoto DEF FinishJob
  <2>8. CASE DieWaiting(w)
    BY <2>8 DEF DieWaiting
  <2>9. CASE DieRunning(w)
    BY <2>9 DEF DieRunning
  <2> QED
    BY <1>5, <2>1, <2>2, <2>3, <2>4, <2>5, <2>6, <2>7, <2>8, <2>9 DEF Worker
<1>6. ASSUME NEW w \in Workers, SpuriousWakeup(w) PROVE TypeOK'
  BY <1>6 DEF SpuriousWakeup
<1>7. CASE UNCHANGED vars
  BY <1>7 DEF vars
<1> QED
  BY <1>1, <1>2, <1>3, <1>4, <1>5, <1>6, <1>7 DEF Next

Owner == Accept \/ Interrupt \/ AddWork \/ Destroy

(* Whatever the owner does, no worker moves but one that it may wake. *)
LEMMA OwnerMoves ==
  ASSUME TypeOK, Owner
  PROVE  /\ UNCHANGED job
         /\ \A w \in Workers : pc'[w] = pc[w] \/ (pc[w] = "wait" /\ pc'[w] = "woken")
<1>0. Main \notin Workers
  BY NumThreadsAssumption DEF Main, Workers
<1>1. UNCHANGED job
  BY DEF Owner, Accept, Interrupt, AddWork, AddLock, AddPush, AddSignal, AddUnlock,
         Destroy, Deactivate, SignalNext, CancelNext, JoinNext, FreePool
<1>2. CASE AddSignal \/ SignalNext
  <2>1. PICK label \in MainPcs : SignalAndGoto(Main, label)
    BY <1>2 DEF AddSignal, SignalNext, MainPcs, AddPcs, DestroyPcs
  <2>2. pc[Main] # "wait"
    BY <1>2 DEF AddSignal, SignalNext
  <2> QED
    BY <1>1, <2>1, <2>2, SignalEffect
<1>3. CASE ~(AddSignal \/ SignalNext)
  <2>1. PICK label \in MainPcs : Goto(Main, label)
    BY <1>3 DEF Owner, Accept, Interrupt, AddWork, AddLock, AddPush, AddUnlock,
            Destroy, Deactivate, CancelNext, JoinNext, FreePool, MainPcs, AddPcs, DestroyPcs
  <2>2. \A w \in Workers : pc'[w] = pc[w]
    BY <1>0, <2>1 DEF Goto, TypeOK, Workers, Threads
  <2> QED
    BY <1>1, <2>2
<1> QED
  BY <1>2, <1>3

(* No step leaves a waiting worker with a job or a running one without.    *)
LEMMA HandsStep == TypeOK /\ HandsOK /\ [Next]_vars => HandsOK'
<1> SUFFICES ASSUME TypeOK, HandsOK, [Next]_vars PROVE HandsOK'
  OBVIOUS
<1> USE DEF HandsOK
<1>1. ASSUME UNCHANGED job, \A w \in Workers : pc'[w] = pc[w] \/ (pc[w] = "wait" /\ pc'[w] = "woken")
      PROVE  HandsOK'
  BY <1>1
<1>2. CASE Owner
  BY <1>1, <1>2, OwnerMoves
<1>3. ASSUME NEW w \in Workers, Worker(w) PROVE HandsOK'
  <2> USE DEF TypeOK, WorkerPcs, NoJob
  <2>0. ASSUME NEW label \in WorkerPcs, Goto(w, label), NEW j \in Nat,
               job' = [job EXCEPT ![w] = j],
               label \in {"pop", "run"} => j # NoJob,
               label \in {"test", "lock", "wait", "woken", "peek", "exited"} => j = NoJob
        PROVE  HandsOK'
    BY <2>0, WorkerGoto
  <2>1. ASSUME NEW label \in WorkerPcs, Goto(w, label), UNCHANGED job,
               label \in {"pop", "run"} => job[w] # NoJob,
               label \in {"test", "lock", "wait", "woken", "peek", "exited"} => job[w] = NoJob
        PROVE  HandsOK'
    BY <2>1, WorkerGoto, SMTT(30)
  <2>2. CASE TestActive(w) \/ LockAndWait(w) \/ Reacquire(w) \/ Pop(w) \/ Unlock(w)
             \/ DieWaiting(w) \/ DieRunning(w)
    BY <2>1, <2>2 DEF TestActive, LockAndWait, Reacquire, Pop, Unlock, DieWaiting, DieRunning
  <2>3. CASE Peek(w)
    <3>1. work # <<>> => Head(work) \in 1..submitted
      OBVIOUS
    <3> QED
      BY <2>0, <2>3, <3>1 DEF Peek
  <2>4. CASE FinishJob(w)
    BY <2>0, <2>4 DEF FinishJob
  <2> QED
    BY <1>3, <2>2, <2>3, <2>4 DEF Worker
<1>4. ASSUME NEW w \in Workers, SpuriousWakeup(w) PROVE HandsOK'
  <2>1. \A v \in Workers : pc'[v] = pc[v] \/ (pc[v] = "wait" /\ pc'[v] = "woken")
    BY <1>4, WorkerGoto DEF SpuriousWakeup, WorkerPcs
  <2> QED
    BY <1>1, <1>4, <2>1 DEF SpuriousWakeup
<1>5. CASE UNCHANGED vars
  BY <1>5 DEF vars
<1> QED
  BY <1>2, <1>3, <1>4, <1>5 DEF Next, Owner

(* For every pool size and however its threads interleave, every variable  *)
(* keeps its type.                                                         *)
THEOREM TypeCorrect == Spec => [](TypeOK /\ HandsOK)
<1>1. Init => TypeOK /\ HandsOK
  <2> SUFFICES ASSUME Init PROVE TypeOK /\ HandsOK
    OBVIOUS
  <2> USE NumThreadsAssumption DEF Init, Workers, Threads, Main, NoJob
  <2>1. pc \in [Threads -> WorkerPcs \cup MainPcs] /\ pc[Main] \in MainPcs
        /\ \A w \in Workers : pc[w] \in WorkerPcs
    BY DEF WorkerPcs, MainPcs, AddPcs
  <2>2. active \in BOOLEAN /\ work \in Seq(1..submitted) /\ i \in Workers
    OBVIOUS
  <2> QED
    BY <2>1, <2>2 DEF TypeOK, HandsOK
<1>2. TypeOK /\ HandsOK /\ [Next]_vars => TypeOK' /\ HandsOK'
  BY TypeStep, HandsStep
<1> QED
  BY <1>1, <1>2, PTL DEF Spec

-----------------------------------------------------------------------------
(* The mutex, and what it takes to be the only reason it is ever abandoned. *)
LockInv == MutualExclusion /\ (cancelled # {} => pc[Main] \in DestroyPcs)

LEMMA LockStep == TypeOK /\ LockInv /\ [Next]_vars => LockInv'
<1> SUFFICES ASSUME TypeOK, LockInv, [Next]_vars PROVE LockInv'
  OBVIOUS
<1> USE DEF LockInv, MutualExclusion, Critical
<1>0. /\ Threads = {Main} \cup Workers /\ Main \notin Workers
      /\ pc \in [Threads -> WorkerPcs \cup MainPcs]
      /\ pc[Main] \in MainPcs
      /\ \A w \in Workers : pc[w] \in WorkerPcs
      /\ lock \subseteq Threads
  BY NumThreadsAssumption DEF Main, Workers, Threads, TypeOK
<1>1. CASE Owner
  <2>0. \A w \in Workers : pc'[w] = pc[w] \/ (pc[w] = "wait" /\ pc'[w] = "woken")
    BY <1>1, OwnerMoves
  <2>1. CASE Accept \/ Interrupt \/ AddLock \/ AddPush \/ AddUnlock
    <3>1. \A w \in Workers : pc'[w] = pc[w]
      BY <1>0, <2>1 DEF Accept, Interrupt, AddLock, AddPush, AddUnlock, Goto
    <3>2. UNCHANGED cancelled /\ cancelled = {}
      BY <2>1 DEF Accept, Interrupt, AddLock, AddPush, AddUnlock, AddPcs, DestroyPcs
    <3>3. CASE Accept \/ Interrupt
      <4>1. UNCHANGED lock /\ pc'[Main] \in {"addLock", "destroy"} /\ pc[Main] \in AddPcs
        BY <1>0, <3>3 DEF Accept, Interrupt, Goto, AddPcs
      <4>2. Critical(Main) => pc'[Main] = "destroy"
        BY <1>0, <3>3 DEF Accept, Interrupt, Goto
      <4>3. \A w \in Workers : Critical(w) <=> Critical(w)'
        BY <3>1
      <4>4. ~Critical(Main)'
        BY <4>1
      <4> QED
        BY <1>0, <3>2, <4>1, <4>2, <4>3, <4>4 DEF DestroyPcs, AddPcs
    <3>4. CASE AddLock
      BY <1>0, <3>1, <3>2, <3>4 DEF AddLock, Goto, WorkerPcs
    <3>5. CASE AddPush
      BY <1>0, <3>1, <3>2, <3>5 DEF AddPush, Goto, WorkerPcs
    <3>6. CASE AddUnlock
      <4>1. lock = {Main} /\ lock' = {} /\ pc'[Main] = "accept"
        BY <1>0, <3>6 DEF AddUnlock, Goto
      <4>2. \A w \in Workers : ~Critical(w)
        BY <1>0, <4>1
      <4> QED
        BY <1>0, <3>1, <3>2, <4>1, <4>2
    <3> QED
      BY <2>1, <3>3, <3>4, <3>5, <3>6
  <2>2. CASE AddSignal
    <3>1. "addUnlock" \in MainPcs /\ pc[Main] # "wait"
      BY <2>2 DEF AddSignal, MainPcs, AddPcs
    <3>2. pc'[Main] = "addUnlock"
      BY <2>2, <3>1, SignalEffect DEF AddSignal
    <3> QED
      BY <1>0, <2>0, <2>2, <3>2 DEF AddSignal, DestroyPcs
  <2>3. CASE Destroy
    <3>1. pc'[Main] \in DestroyPcs /\ pc[Main] \in DestroyPcs /\ UNCHANGED lock
      <4>1. CASE SignalNext
        <5>1. PICK label \in DestroyPcs : SignalAndGoto(Main, label)
          BY <4>1 DEF SignalNext, DestroyPcs
        <5>2. label \in MainPcs /\ pc[Main] # "wait"
          BY <4>1 DEF SignalNext, MainPcs
        <5> QED
          BY <4>1, <5>1, <5>2, SignalEffect DEF SignalNext, DestroyPcs
      <4>2. CASE Deactivate \/ CancelNext \/ JoinNext \/ FreePool
        BY <1>0, <4>2 DEF Deactivate, CancelNext, JoinNext, FreePool, Goto, DestroyPcs
      <4> QED
        BY <2>3, <4>1, <4>2 DEF Destroy
    <3> QED
      BY <1>0, <2>0, <3>1 DEF DestroyPcs
  <2> QED
    BY <1>1, <2>1, <2>2, <2>3 DEF Owner, AddWork
<1>2. ASSUME NEW w \in Workers, Worker(w) PROVE LockInv'
  <2> USE DEF WorkerPcs, MainPcs, AddPcs, DestroyPcs, WaitPcs
  <2>1. PICK label \in WorkerPcs : Goto(w, label) /\ pc'[w] = label
    BY <1>2, <1>0 DEF Worker, TestActive, LockAndWait, Reacquire, Peek, Pop, Unlock, FinishJob,
            DieWaiting, DieRunning, Goto
  <2>2. pc'[Main] = pc[Main] /\ \A v \in Workers \ {w} : pc'[v] = pc[v]
    BY <2>1, WorkerGoto
  <2>3. UNCHANGED cancelled
    BY <1>2 DEF Worker, TestActive, LockAndWait, Reacquire, Peek, Pop, Unlock, FinishJob,
            DieWaiting, DieRunning
  <2>4. CASE TestActive(w) \/ LockAndWait(w) \/ Peek(w) \/ Pop(w) \/ FinishJob(w) \/ DieRunning(w)
    <3>1. UNCHANGED lock /\ (Critical(w) <=> Critical(w)')
      BY <1>0, <2>4, <2>1 DEF TestActive, LockAndWait, Peek, Pop, FinishJob, DieRunning, Goto
    <3>2. \A t \in Threads : Critical(t) <=> Critical(t)'
      BY <1>0, <2>2, <3>1
    <3> QED
      BY <1>0, <2>2, <2>3, <3>1, <3>2
  <2>5. CASE Reacquire(w)
    <3>1. lock = {} /\ lock' = {w} /\ pc'[w] = "peek"
      BY <1>0, <2>5 DEF Reacquire, Goto
    <3> QED
      BY <1>0, <2>2, <2>3, <3>1
  <2>6. CASE Unlock(w)
    <3>1. lock = {w} /\ lock' = {} /\ pc'[w] \in {"run", "test"}
      BY <1>0, <2>6 DEF Unlock, Goto
    <3>2. \A t \in Threads \ {w} : ~Critical(t)
      BY <3>1
    <3>3. \A t \in Threads : ~Critical(t)'
      BY <1>0, <2>2, <3>1, <3>2
    <3> QED
      BY <2>2, <2>3, <3>1, <3>3
  <2>7. CASE DieWaiting(w)
    <3>1. lock = {} /\ lock' = {w} /\ pc'[w] = "dead" /\ w \in cancelled
      BY <1>0, <2>7 DEF DieWaiting, Goto
    <3> QED
      BY <1>0, <2>2, <2>3, <3>1
  <2> QED
    BY <1>2, <2>4, <2>5, <2>6, <2>7 DEF Worker
<1>3. ASSUME NEW w \in Workers, SpuriousWakeup(w) PROVE LockInv'
  BY <1>0, <1>3 DEF SpuriousWakeup, Goto
<1>4. CASE UNCHANGED vars
  BY <1>4 DEF vars
<1> QED
  BY <1>1, <1>2, <1>3, <1>4 DEF Next, Owner

(* The queue is touched by one thread at a time, for every pool size. *)
THEOREM QueueIsGuarded == Spec => []MutualExclusion
<1>1. Init => LockInv
  BY NumThreadsAssumption DEF Init, LockInv, MutualExclusion, Critical, Threads, Main
<1>2. Spec => []TypeOK
  BY TypeCorrect, PTL
<1>3. TypeOK /\ LockInv /\ [Next]_vars => LockInv'
  BY LockStep
<1>4. LockInv => MutualExclusion
  BY DEF LockInv
<1> QED
  BY <1>1, <1>2, <1>3, <1>4, PTL DEF Spec

-----------------------------------------------------------------------------
(* The joins: each worker the destructor has passed is gone for good. *)
Gone(w) == pc[w] \in {"exited", "dead"}

JoinInv ==
  /\ pc[Main] \in {"cancel", "join"} => \A w \in 1..(i - 1) : Gone(w)
  /\ pc[Main] \in {"free", "freed"} => \A w \in Workers : Gone(w)

(* A worker takes steps only while it is not gone; it leaves the owner and *)
(* the other workers where they are.                                       *)
LEMMA WorkerMoves ==
  ASSUME TypeOK, NEW w \in Workers, Worker(w) \/ SpuriousWakeup(w)
  PROVE  /\ ~Gone(w)
         /\ pc'[Main] = pc[Main]
         /\ \A v \in Workers \ {w} : pc'[v] = pc[v]
         /\ UNCHANGED <<active, i, cancelled, submitted>>
<1> USE DEF Worker, TestActive, LockAndWait, Reacquire, Peek, Pop, Unlock, FinishJob,
            DieWaiting, DieRunning, SpuriousWakeup
<1>1. ~Gone(w) /\ UNCHANGED <<active, i, cancelled, submitted>>
  BY DEF Gone
<1>2. PICK label \in WorkerPcs : Goto(w, label)
  BY DEF WorkerPcs
<1> QED
  BY <1>1, <1>2, WorkerGoto

LEMMA JoinStep == TypeOK /\ JoinInv /\ [Next]_vars => JoinInv'
<1> SUFFICES ASSUME TypeOK, JoinInv, [Next]_vars PROVE JoinInv'
  OBVIOUS
<1> USE DEF JoinInv
<1>0. /\ Main \in Threads /\ Main \notin Workers /\ pc \in [Threads -> WorkerPcs \cup MainPcs]
      /\ NumThreads \in Nat /\ NumThreads > 0 /\ i \in Workers
  BY NumThreadsAssumption DEF Main, Workers, Threads, TypeOK
<1>1. CASE Owner
  <2>0. \A w \in Workers : Gone(w) => Gone(w)'
    BY <1>1, OwnerMoves DEF Gone
  <2>1. CASE Accept \/ Interrupt \/ AddWork \/ Deactivate
    <3>1. pc'[Main] \notin {"cancel", "join", "free", "freed"}
      <4>1. CASE AddSignal
        BY <4>1, SignalEffect DEF AddSignal, MainPcs, AddPcs
      <4>2. CASE ~AddSignal
        BY <1>0, <2>1, <4>2 DEF Accept, Interrupt, AddWork, AddLock, AddPush, AddUnlock,
                Deactivate, Goto
      <4> QED
        BY <4>1, <4>2
    <3> QED
      BY <3>1
  <2>2. CASE SignalNext
    <3>1. (IF i = NumThreads THEN "cancel" ELSE "signalAll") \in MainPcs /\ pc[Main] # "wait"
      BY <2>2 DEF SignalNext, MainPcs, DestroyPcs
    <3>2. pc'[Main] = IF i = NumThreads THEN "cancel" ELSE "signalAll"
      BY <2>2, <3>1, SignalEffect DEF SignalNext
    <3>3. i = NumThreads => i' = 1
      BY <2>2 DEF SignalNext
    <3> QED
      BY <3>2, <3>3
  <2>3. CASE CancelNext
    <3>1. pc[Main] = "cancel" /\ pc'[Main] = "join" /\ i' = i
      BY <1>0, <2>3 DEF CancelNext, Goto
    <3> QED
      BY <1>0, <2>0, <3>1 DEF Workers
  <2>4. CASE JoinNext
    <3>1. pc[Main] = "join" /\ Gone(i)
      BY <2>4 DEF JoinNext, Gone
    <3>2. \A w \in 1..i : Gone(w)
      BY <1>0, <3>1 DEF Workers
    <3>3. CASE i = NumThreads
      <4>1. pc'[Main] = "free"
        BY <1>0, <2>4, <3>3 DEF JoinNext, Goto
      <4> QED
        BY <2>0, <3>2, <3>3, <4>1 DEF Workers
    <3>4. CASE i # NumThreads
      <4>1. pc'[Main] = "cancel" /\ i' = i + 1
        BY <1>0, <2>4, <3>4 DEF JoinNext, Goto
      <4> QED
        BY <1>0, <2>0, <3>2, <4>1 DEF Workers
    <3> QED
      BY <3>3, <3>4
  <2>5. CASE FreePool
    <3>1. pc[Main] = "free" /\ pc'[Main] = "freed"
      BY <1>0, <2>5 DEF FreePool, Goto
    <3> QED
      BY <2>0, <3>1
  <2> QED
    BY <1>1, <2>1, <2>2, <2>3, <2>4, <2>5 DEF Owner, Destroy
<1>2. ASSUME NEW w \in Workers, Worker(w) \/ SpuriousWakeup(w) PROVE JoinInv'
  <2>1. \A v \in Workers : Gone(v) => Gone(v)'
    BY <1>2, WorkerMoves DEF Gone
  <2>2. pc'[Main] = pc[Main] /\ i' = i
    BY <1>2, WorkerMoves
  <2> QED
    BY <1>0, <2>1, <2>2 DEF Workers
<1>3. CASE UNCHANGED vars
  BY <1>3 DEF vars, Gone
<1> QED
  BY <1>1, <1>2, <1>3 DEF Next, Owner

(* thread_pool_destructor frees nothing a worker could still reach. *)
THEOREM PoolFreedWhenQuiet == Spec => []FreedWhenQuiet
<1>1. Init => JoinInv
  BY NumThreadsAssumption DEF Init, JoinInv, Threads, Main
<1>2. Spec => []TypeOK
  BY TypeCorrect, PTL
<1>3. TypeOK /\ JoinInv /\ [Next]_vars => JoinInv'
  BY JoinStep
<1>4. JoinInv => FreedWhenQuiet
  BY DEF JoinInv, FreedWhenQuiet, Gone
<1> QED
  BY <1>1, <1>2, <1>3, <1>4, PTL DEF Spec

-----------------------------------------------------------------------------
(* The queue. A worker between peek and pop has the head in hand, because  *)
(* the mutex keeps everybody else away from the queue.                     *)
PopInv == \A w \in Workers : pc[w] = "pop" => work # <<>> /\ job[w] = Head(work)

Inv == TypeOK /\ HandsOK /\ LockInv /\ JoinInv

LEMMA PopStep == Inv /\ PopInv /\ [Next]_vars => PopInv'
<1> SUFFICES ASSUME Inv, PopInv, [Next]_vars PROVE PopInv'
  OBVIOUS
<1> USE DEF PopInv
<1>0. /\ Main \in Threads /\ Main \notin Workers /\ Workers \subseteq Threads
      /\ pc \in [Threads -> WorkerPcs \cup MainPcs] /\ job \in [Workers -> Nat]
      /\ work \in Seq(Nat)
  BY NumThreadsAssumption DEF Main, Workers, Threads, Inv, TypeOK
<1>1. \A v, w \in Workers : pc[v] = "pop" /\ pc[w] = "pop" => v = w
  BY <1>0 DEF Inv, LockInv, MutualExclusion, Critical
<1>2. CASE Owner
  <2>1. \A w \in Workers : pc'[w] = "pop" => pc[w] = "pop" /\ job'[w] = job[w]
    BY <1>2, OwnerMoves DEF Inv
  <2>2. CASE AddPush
    <3>1. work' = Append(work, submitted + 1) /\ submitted \in Nat
      BY <2>2 DEF AddPush, Inv, TypeOK
    <3>2. work # <<>> => work' # <<>> /\ Head(work') = Head(work)
      BY <1>0, <3>1
    <3> QED
      BY <2>1, <3>2
  <2>3. CASE FreePool
    <3>1. \A w \in Workers : pc[w] # "pop"
      BY <2>3 DEF FreePool, Inv, JoinInv, Gone
    <3> QED
      BY <2>1, <3>1
  <2>4. CASE ~AddPush /\ ~FreePool
    <3>1. UNCHANGED work
      BY <1>2, <2>4 DEF Owner, Accept, Interrupt, AddWork, AddLock, AddSignal, AddUnlock,
              Destroy, Deactivate, SignalNext, CancelNext, JoinNext
    <3> QED
      BY <2>1, <3>1
  <2> QED
    BY <2>2, <2>3, <2>4
<1>3. ASSUME NEW w \in Workers, Worker(w) \/ SpuriousWakeup(w) PROVE PopInv'
  <2>0. \A v \in Workers \ {w} : pc'[v] = pc[v]
    BY <1>3, WorkerMoves DEF Inv
  <2>1. CASE Peek(w)
    <3>1. UNCHANGED work /\ \A v \in Workers \ {w} : job'[v] = job[v]
      BY <1>0, <2>1 DEF Peek
    <3>2. pc'[w] = "pop" => work # <<>> /\ job'[w] = Head(work)
      BY <1>0, <2>1 DEF Peek, Goto
    <3> QED
      BY <2>0, <3>1, <3>2
  <2>2. CASE Pop(w)
    <3>1. pc[w] = "pop" /\ pc'[w] = "unlock"
      BY <1>0, <2>2 DEF Pop, Goto
    <3> QED
      BY <1>1, <2>0, <3>1
  <2>3. CASE ~Peek(w) /\ ~Pop(w)
    <3>1. UNCHANGED work /\ pc'[w] # "pop" /\ \A v \in Workers \ {w} : job'[v] = job[v]
      BY <1>0, <1>3, <2>3 DEF Worker, TestActive, LockAndWait, Reacquire, Unlock, FinishJob,
              DieWaiting, DieRunning, SpuriousWakeup, Goto
    <3> QED
      BY <2>0, <3>1
  <2> QED
    BY <2>1, <2>2, <2>3
<1>4. CASE UNCHANGED vars
  BY <1>4 DEF vars
<1> QED
  BY <1>2, <1>3, <1>4 DEF Next, Owner

LEMMA Invariant == Spec => [](Inv /\ PopInv)
<1>1. Init => LockInv /\ JoinInv /\ PopInv
  BY NumThreadsAssumption DEF Init, LockInv, MutualExclusion, Critical, JoinInv, PopInv,
     Threads, Workers, Main
<1>2. Spec => [](TypeOK /\ HandsOK)
  BY TypeCorrect
<1>3. TypeOK /\ LockInv /\ [Next]_vars => LockInv'
  BY LockStep
<1>4. TypeOK /\ JoinInv /\ [Next]_vars => JoinInv'
  BY JoinStep
<1>5. TypeOK /\ HandsOK /\ LockInv /\ JoinInv /\ PopInv /\ [Next]_vars => PopInv'
  BY PopStep DEF Inv
<1>6. Inv <=> TypeOK /\ HandsOK /\ LockInv /\ JoinInv
  BY DEF Inv
<1> QED
  BY <1>1, <1>2, <1>3, <1>4, <1>5, <1>6, PTL DEF Spec

-----------------------------------------------------------------------------
(* JobPool: every step of the code is one of the abstract pool's or none.  *)
PoolSlot == [w \in Workers |-> IF pc[w] \in {"unlock", "run"} THEN job[w] ELSE NoJob]

LEMMA StepImplements == Inv /\ PopInv /\ [Next]_vars => [Promise!Next]_(Promise!vars)
<1> SUFFICES ASSUME Inv, PopInv, [Next]_vars PROVE [Promise!Next]_(Promise!vars)
  OBVIOUS
<1>a. Main \in Threads /\ Main \notin Workers /\ Workers \subseteq Threads
  BY NumThreadsAssumption DEF Main, Workers, Threads
<1>b. TypeOK
  BY DEF Inv
<1>c. pc \in [Threads -> WorkerPcs \cup MainPcs] /\ job \in [Workers -> Nat]
  BY <1>b DEF TypeOK
<1>0. /\ Main \in Threads /\ Main \notin Workers /\ Workers \subseteq Threads
      /\ pc \in [Threads -> WorkerPcs \cup MainPcs] /\ job \in [Workers -> Nat]
      /\ TypeOK
  BY <1>a, <1>b, <1>c
<1> DEFINE slot == PoolSlot
           closed == pc[Main] = "freed"
<1>1. ASSUME UNCHANGED <<submitted, work>>, slot' = slot, closed' = closed
      PROVE  UNCHANGED Promise!vars
  BY <1>1 DEF Promise!vars, PoolSlot
<1>2. CASE Owner
  <2>1. slot' = slot
    BY <1>0, <1>2, OwnerMoves DEF PoolSlot
  <2>2. CASE AddPush
    <3>1. /\ submitted' = submitted + 1 /\ work' = Append(work, submitted + 1)
          /\ ~closed /\ ~closed'
      BY <1>0, <2>2 DEF AddPush, Goto
    <3>2. Promise!Submit
      BY <2>1, <3>1 DEF Promise!Submit, PoolSlot
    <3> QED
      BY <3>2 DEF Promise!Next
  <2>3. CASE FreePool
    <3>1. \A w \in Workers : pc[w] \in {"exited", "dead"}
      BY <2>3 DEF FreePool, Inv, JoinInv, Gone
    <3>2. slot = [w \in Workers |-> 0]
      BY <3>1 DEF PoolSlot, NoJob
    <3>3. ~closed /\ closed' /\ work' = <<>> /\ UNCHANGED submitted
      BY <1>0, <2>3 DEF FreePool, Goto
    <3>4. Promise!Close
      BY <2>1, <3>2, <3>3 DEF Promise!Close, Promise!NoJob, PoolSlot
    <3> QED
      BY <3>4 DEF Promise!Next
  <2>4. CASE ~AddPush /\ ~FreePool
    <3>1. UNCHANGED <<submitted, work>> /\ ~closed
      BY <1>2, <2>4 DEF Owner, Accept, Interrupt, AddWork, AddLock, AddSignal, AddUnlock,
              Destroy, Deactivate, SignalNext, CancelNext, JoinNext, AddPcs
    <3>2. ~closed'
      <4>1. CASE AddSignal
        BY <1>0, <4>1, SignalEffect DEF AddSignal, MainPcs, AddPcs
      <4>2. CASE SignalNext
        <5>1. PICK label \in DestroyPcs \ {"freed"} : SignalAndGoto(Main, label)
          BY <4>2 DEF SignalNext, DestroyPcs
        <5>2. label \in MainPcs /\ pc[Main] # "wait"
          BY <4>2 DEF SignalNext, MainPcs
        <5> QED
          BY <1>0, <5>1, <5>2, SignalEffect
      <4>3. CASE ~AddSignal /\ ~SignalNext
        BY <1>0, <1>2, <2>4, <4>3 DEF Owner, Accept, Interrupt, AddWork, AddLock, AddUnlock,
                Destroy, Deactivate, CancelNext, JoinNext, Goto
      <4> QED
        BY <4>1, <4>2, <4>3
    <3> QED
      BY <1>1, <2>1, <3>1, <3>2
  <2> QED
    BY <2>2, <2>3, <2>4
<1>3. ASSUME NEW w \in Workers, Worker(w) \/ SpuriousWakeup(w)
      PROVE  [Promise!Next]_(Promise!vars)
  <2>0. /\ ~Gone(w) /\ pc'[Main] = pc[Main] /\ UNCHANGED submitted
        /\ \A v \in Workers \ {w} : pc'[v] = pc[v]
    BY <1>0, <1>3, WorkerMoves
  <2>1. ~closed /\ ~closed'
    BY <2>0 DEF Inv, JoinInv
  <2>2. CASE Pop(w)
    <3>1. /\ work # <<>> /\ job[w] = Head(work) /\ work' = Tail(work) /\ UNCHANGED job
          /\ pc[w] = "pop" /\ pc'[w] = "unlock"
      BY <1>0, <2>2 DEF Pop, Goto, PopInv
    <3>2. slot' = [slot EXCEPT ![w] = Head(work)] /\ slot[w] = 0
      BY <2>0, <3>1 DEF PoolSlot, NoJob
    <3>3. Promise!Start(w)
      BY <2>0, <2>1, <3>1, <3>2 DEF Promise!Start, Promise!NoJob, PoolSlot
    <3> QED
      BY <3>3 DEF Promise!Next
  <2>3. CASE FinishJob(w) \/ DieRunning(w)
    <3>1. /\ UNCHANGED work /\ pc[w] = "run" /\ pc'[w] \notin {"unlock", "run"}
          /\ \A v \in Workers \ {w} : job'[v] = job[v]
      BY <1>0, <2>3 DEF FinishJob, DieRunning, Goto
    <3>2. slot' = [slot EXCEPT ![w] = 0] /\ slot[w] # 0
      BY <2>0, <3>1 DEF PoolSlot, NoJob, Inv, HandsOK
    <3>3. Promise!Release(w)
      BY <2>0, <2>1, <3>1, <3>2 DEF Promise!Release, Promise!NoJob, PoolSlot
    <3> QED
      BY <3>3 DEF Promise!Next
  <2>4. CASE Peek(w)
    <3>1. /\ UNCHANGED work /\ pc[w] = "peek" /\ (pc'[w] = "unlock" => job'[w] = 0)
          /\ pc'[w] \in {"unlock", "pop"} /\ \A v \in Workers \ {w} : job'[v] = job[v]
      BY <1>0, <2>4 DEF Peek, Goto, NoJob
    <3>2. slot' = slot
      BY <1>0, <2>0, <2>4, <3>1 DEF PoolSlot, NoJob, Peek
    <3> QED
      BY <1>1, <2>0, <2>1, <3>1, <3>2
  <2>5. CASE TestActive(w) \/ LockAndWait(w) \/ Reacquire(w) \/ DieWaiting(w) \/ SpuriousWakeup(w)
    <3>1. /\ UNCHANGED <<work, job>> /\ pc[w] \notin {"unlock", "run"}
          /\ pc'[w] \notin {"unlock", "run"}
      BY <1>0, <2>5 DEF TestActive, LockAndWait, Reacquire, DieWaiting, SpuriousWakeup, Goto
    <3>2. slot' = slot
      BY <2>0, <3>1 DEF PoolSlot
    <3> QED
      BY <1>1, <2>0, <2>1, <3>1, <3>2
  <2>6. CASE Unlock(w)
    <3>1. /\ UNCHANGED <<work, job>> /\ pc[w] = "unlock"
          /\ pc'[w] \in {"run", "test"} /\ (pc'[w] = "test" => job[w] = 0)
      BY <1>0, <2>6 DEF Unlock, Goto, NoJob
    <3>2. slot' = slot
      BY <2>0, <3>1 DEF PoolSlot, NoJob
    <3> QED
      BY <1>1, <2>0, <2>1, <3>1, <3>2
  <2> QED
    BY <1>3, <2>2, <2>3, <2>4, <2>5, <2>6 DEF Worker
<1>4. CASE UNCHANGED vars
  BY <1>1, <1>4 DEF vars, PoolSlot
<1> QED
  BY <1>2, <1>3, <1>4 DEF Next, Owner

(* The code's pool is an abstract job pool: for any number of workers and  *)
(* any interleaving, jobs start in the order they were added, each once,   *)
(* at most one per worker, and none after the pool is gone.                *)
THEOREM Implements == Spec => ImplementsJobPool
<1>1. Init => Promise!Init
  BY NumThreadsAssumption DEF Init, Promise!Init, Promise!NoJob, Workers, Threads, Main, NoJob
<1>2. Inv /\ PopInv /\ [Next]_vars => [Promise!Next]_(Promise!vars)
  BY StepImplements
<1> QED
  BY <1>1, <1>2, Invariant, PTL DEF Spec, ImplementsJobPool, Promise!Spec

-----------------------------------------------------------------------------
(* Every job pushed is queued, in one pair of hands, or over: steps that   *)
(* leave the queue and the hands alone keep it so.                         *)
LEMMA JobsKept ==
  ASSUME JobsAccountedFor, UNCHANGED <<work, submitted, finished>>,
         \A w \in Workers : (Holding(w)' <=> Holding(w)) /\ (Holding(w) => job'[w] = job[w]),
         pc[Main] # "freed"
  PROVE  JobsAccountedFor'
<1>1. HeldJobs' = HeldJobs
  BY DEF HeldJobs
<1> QED
  BY <1>1 DEF JobsAccountedFor, HeldOnce, Taken

LEMMA JobsStep == Inv /\ PopInv /\ JobsAccountedFor /\ [Next]_vars => JobsAccountedFor'
<1> SUFFICES ASSUME Inv, PopInv, JobsAccountedFor, [Next]_vars PROVE JobsAccountedFor'
  OBVIOUS
<1>0. /\ Main \in Threads /\ Main \notin Workers /\ Workers \subseteq Threads
      /\ pc \in [Threads -> WorkerPcs \cup MainPcs] /\ job \in [Workers -> Nat]
      /\ TypeOK /\ work \in Seq(1..submitted) /\ submitted \in Nat /\ finished \subseteq Nat
  BY NumThreadsAssumption DEF Main, Workers, Threads, Inv, TypeOK
<1>1. CASE UNCHANGED vars
  BY <1>1 DEF vars, JobsAccountedFor, Holding, Taken, HeldJobs, HeldOnce
<1>2. CASE pc[Main] = "freed" /\ Next
  <2>1. pc'[Main] = "freed"
    <3>1. ~Owner
      BY <1>2 DEF Owner, Accept, Interrupt, AddWork, AddLock, AddPush, AddSignal, AddUnlock,
              Destroy, Deactivate, SignalNext, CancelNext, JoinNext, FreePool, AddPcs
    <3> QED
      BY <1>0, <1>2, <3>1, WorkerMoves DEF Next, Owner
  <2> QED
    BY <2>1 DEF JobsAccountedFor
<1>3. CASE pc[Main] # "freed" /\ Owner
  <2>1. \A w \in Workers : (Holding(w)' <=> Holding(w)) /\ job'[w] = job[w]
    BY <1>0, <1>3, OwnerMoves DEF Holding
  <2>2. CASE AddPush
    <3>1. /\ work' = Append(work, submitted + 1) /\ submitted' = submitted + 1
          /\ finished' = finished /\ Len(work) \in Nat
      BY <1>0, <2>2 DEF AddPush
    <3>2. Len(work') = Len(work) + 1
      BY <1>0, <3>1
    <3>3. work = [k \in 1..Len(work) |-> submitted - Len(work) + k]
      BY <1>3 DEF JobsAccountedFor
    <3>4. \A k \in 1..Len(work') : work'[k] = submitted' - Len(work') + k
      BY <1>0, <3>1, <3>2, <3>3
    <3>5. work' = [k \in 1..Len(work') |-> submitted' - Len(work') + k]
      BY <1>0, <3>1, <3>4
    <3>6. Taken' = Taken /\ HeldJobs' = HeldJobs
      BY <1>0, <2>1, <3>1, <3>2, SMTT(30) DEF Taken, HeldJobs
    <3> QED
      BY <1>3, <2>1, <3>1, <3>5, <3>6 DEF JobsAccountedFor, HeldOnce
  <2>3. CASE FreePool
    BY <1>0, <2>3 DEF FreePool, Goto, JobsAccountedFor
  <2>4. CASE ~AddPush /\ ~FreePool
    <3>1. UNCHANGED <<work, submitted, finished>>
      BY <1>3, <2>4 DEF Owner, Accept, Interrupt, AddWork, AddLock, AddSignal, AddUnlock,
              Destroy, Deactivate, SignalNext, CancelNext, JoinNext
    <3> QED
      BY <1>3, <2>1, <3>1, JobsKept
  <2> QED
    BY <2>2, <2>3, <2>4
<1>4. ASSUME NEW w \in Workers, Worker(w) \/ SpuriousWakeup(w), pc[Main] # "freed"
      PROVE  JobsAccountedFor'
  <2>0. \A v \in Workers \ {w} : pc'[v] = pc[v]
    BY <1>0, <1>4, WorkerMoves
  <2>1. CASE Pop(w)
    <3>1. /\ work # <<>> /\ job[w] = Head(work) /\ work' = Tail(work)
          /\ UNCHANGED <<job, submitted, finished>>
          /\ pc[w] = "pop" /\ pc'[w] = "unlock"
      BY <1>0, <2>1 DEF Pop, Goto, PopInv
    <3>2. Len(work) \in Nat \ {0} /\ Len(work') = Len(work) - 1
      BY <1>0, <3>1
    <3>3. work = [k \in 1..Len(work) |-> submitted - Len(work) + k]
      BY <1>4 DEF JobsAccountedFor
    <3>4. job[w] = submitted - Len(work) + 1 /\ job[w] \in 1..submitted
      BY <1>0, <3>1, <3>2, <3>3
    <3>5. \A k \in 1..Len(work') : work'[k] = submitted' - Len(work') + k
      BY <1>0, <3>1, <3>2, <3>3
    <3>6. work' = [k \in 1..Len(work') |-> submitted' - Len(work') + k]
      <4>1. work' \in Seq(1..submitted)
        BY <1>0, <3>1
      <4> QED
        BY <3>5, <4>1
    <3>7. Taken' = Taken \cup {job[w]} /\ job[w] \notin Taken
      BY <1>0, <3>1, <3>2, <3>4 DEF Taken
    <3>8. \A v \in Workers \ {w} : Holding(v)' <=> Holding(v)
      BY <2>0, <3>1 DEF Holding
    <3>9. ~Holding(w) /\ Holding(w)'
      BY <3>1, <3>4 DEF Holding, NoJob
    <3>10. HeldJobs' = HeldJobs \cup {job[w]}
      BY <3>1, <3>8, <3>9 DEF HeldJobs
    <3>11. Taken = finished \cup HeldJobs /\ HeldOnce
      BY <1>4 DEF JobsAccountedFor
    <3>12. Taken' = finished' \cup HeldJobs'
      BY <3>1, <3>7, <3>10, <3>11
    <3>13. HeldOnce'
      <4>1. job[w] \notin finished /\ job[w] \notin HeldJobs
        BY <3>7, <3>11
      <4>2. \A v \in Workers \ {w} : Holding(v) => job[v] # job[w]
        BY <4>1 DEF HeldJobs
      <4> QED
        BY <3>1, <3>8, <3>11, <4>1, <4>2 DEF HeldOnce
    <3> QED
      BY <3>6, <3>12, <3>13 DEF JobsAccountedFor
  <2>2. CASE FinishJob(w)
    <3>1. /\ UNCHANGED <<work, submitted>> /\ finished' = finished \cup {job[w]}
          /\ job' = [job EXCEPT ![w] = NoJob]
          /\ pc[w] = "run" /\ pc'[w] = "test" /\ job[w] # NoJob
      BY <1>0, <2>2 DEF FinishJob, Goto, Inv, HandsOK
    <3>2. \A v \in Workers \ {w} : (Holding(v)' <=> Holding(v)) /\ job'[v] = job[v]
      BY <1>0, <2>0, <3>1 DEF Holding
    <3>3. Holding(w) /\ ~Holding(w)'
      BY <1>0, <3>1 DEF Holding
    <3>4. /\ work = [k \in 1..Len(work) |-> submitted - Len(work) + k]
          /\ Taken = finished \cup HeldJobs /\ HeldOnce
      BY <1>4 DEF JobsAccountedFor
    <3>5. HeldJobs = HeldJobs' \cup {job[w]}
      BY <3>2, <3>3 DEF HeldJobs
    <3>6. Taken' = finished' \cup HeldJobs'
      BY <3>1, <3>4, <3>5 DEF Taken
    <3>7. HeldOnce'
      BY <3>1, <3>2, <3>3, <3>4 DEF HeldOnce
    <3>8. work' = [k \in 1..Len(work') |-> submitted' - Len(work') + k]
      BY <3>1, <3>4
    <3> QED
      BY <3>6, <3>7, <3>8 DEF JobsAccountedFor
  <2>3. CASE Peek(w)
    <3>1. /\ UNCHANGED <<work, submitted, finished>> /\ pc[w] = "peek" /\ job[w] = NoJob
          /\ \A v \in Workers \ {w} : job'[v] = job[v]
          /\ pc'[w] = "pop" \/ job'[w] = NoJob
      BY <1>0, <2>3 DEF Peek, Goto, Inv, HandsOK
    <3>2. \A v \in Workers : (Holding(v)' <=> Holding(v)) /\ (Holding(v) => job'[v] = job[v])
      BY <2>0, <3>1 DEF Holding
    <3> QED
      BY <1>4, <3>1, <3>2, JobsKept
  <2>4. CASE ~Pop(w) /\ ~FinishJob(w) /\ ~Peek(w)
    <3>1. UNCHANGED <<work, submitted, finished, job>> /\ pc[w] # "pop" /\ pc'[w] # "pop"
      BY <1>0, <1>4, <2>4 DEF Worker, TestActive, LockAndWait, Reacquire, Unlock,
              DieWaiting, DieRunning, SpuriousWakeup, Goto
    <3>2. \A v \in Workers : Holding(v)' <=> Holding(v)
      BY <2>0, <3>1 DEF Holding
    <3> QED
      BY <1>4, <3>1, <3>2, JobsKept
  <2> QED
    BY <2>1, <2>2, <2>3, <2>4
<1> QED
  BY <1>1, <1>2, <1>3, <1>4 DEF Next, Owner

(* No job is lost, duplicated or overtaken until the pool is freed. *)
THEOREM JobsAccounted == Spec => []JobsAccountedFor
<1>1. Init => JobsAccountedFor
  BY NumThreadsAssumption DEF Init, JobsAccountedFor, Holding, Taken, HeldJobs, HeldOnce
<1>2. Inv /\ PopInv /\ JobsAccountedFor /\ [Next]_vars => JobsAccountedFor'
  BY JobsStep
<1> QED
  BY <1>1, <1>2, Invariant, PTL DEF Spec

-----------------------------------------------------------------------------
(* The backlog: how many jobs no wakeup is on its way for. *)

Backlog == Unserved(Len(work), Pending, pc[Main])

(* What one wakeup more or less does to the backlog. *)
LEMMA PendingCounts ==
  ASSUME NEW ws \in SUBSET Workers, NEW w \in Workers
  PROVE  /\ Cardinality(ws) \in Nat
         /\ Cardinality(ws \cup {w}) = Cardinality(ws) + (IF w \in ws THEN 0 ELSE 1)
         /\ Cardinality(ws \ {w}) = Cardinality(ws) - (IF w \in ws THEN 1 ELSE 0)
<1>1. IsFiniteSet(Workers)
  BY NumThreadsAssumption, FS_Interval DEF Workers
<1>2. IsFiniteSet(ws)
  BY <1>1, FS_Subset
<1>3. Cardinality(ws) \in Nat
  BY <1>2, FS_CardinalityType
<1>4. Cardinality(ws \cup {w}) = Cardinality(ws) + (IF w \in ws THEN 0 ELSE 1)
  BY <1>2, <1>3, FS_AddElement
<1>5. Cardinality(ws \ {w}) = Cardinality(ws) - (IF w \in ws THEN 1 ELSE 0)
  <2>1. CASE w \in ws
    <3>1. IsFiniteSet(ws \ {w}) /\ Cardinality(ws \ {w}) \in Nat
      BY <1>2, FS_RemoveElement, FS_CardinalityType
    <3>2. Cardinality((ws \ {w}) \cup {w}) = Cardinality(ws \ {w}) + 1
      BY <3>1, FS_AddElement
    <3>3. (ws \ {w}) \cup {w} = ws
      BY <2>1
    <3>4. Cardinality(ws) = Cardinality(ws \ {w}) + 1
      BY <3>2, <3>3, Zenon
    <3> QED
      BY <2>1, <3>1, <3>4
  <2>2. CASE w \notin ws
    <3>1. ws \ {w} = ws
      BY <2>2
    <3> QED
      BY <1>3, <2>2, <3>1
  <2> QED
    BY <2>1, <2>2
<1> QED
  BY <1>3, <1>4, <1>5

(* A step of a worker: a wakeup is used up with at most one job, and one   *)
(* that is not used up is left. No worker wakes by itself.                 *)
LEMMA WorkerBacklog ==
  ASSUME TypeOK, NEW w \in Workers, Worker(w)
  PROVE  Backlog <= Backlog'
<1>0. Len(work) \in Nat /\ w \in Threads /\ Main \in Threads /\ w # Main
  BY NumThreadsAssumption DEF TypeOK, Workers, Threads, Main
<1>1. PICK label \in WorkerPcs : Goto(w, label)
  BY DEF Worker, TestActive, LockAndWait, Reacquire, Peek, Pop, Unlock, FinishJob,
         DieWaiting, DieRunning, WorkerPcs
<1>2. /\ pc'[w] = label /\ pc'[Main] = pc[Main]
      /\ \A v \in Workers \ {w} : pc'[v] = pc[v]
  BY <1>1, WorkerGoto
<1>3. Pending' = IF label \in {"woken", "peek", "pop"} THEN Pending \cup {w} ELSE Pending \ {w}
  BY <1>2 DEF Pending
<1>4. Pending \in SUBSET Workers
  BY DEF Pending
<1>5. /\ Cardinality(Pending) \in Nat
      /\ Cardinality(Pending \cup {w}) = Cardinality(Pending) + (IF w \in Pending THEN 0 ELSE 1)
      /\ Cardinality(Pending \ {w}) = Cardinality(Pending) - (IF w \in Pending THEN 1 ELSE 0)
  BY <1>4, PendingCounts
<1>6. CASE Pop(w)
  <2>1. w \in Pending /\ label = "unlock" /\ work # <<>> /\ work' = Tail(work)
    BY <1>0, <1>2, <1>6 DEF Pop, Goto, Pending, TypeOK
  <2>2. Len(work') = Len(work) - 1
    BY <2>1 DEF TypeOK
  <2> QED
    BY <1>0, <1>2, <1>3, <1>5, <2>1, <2>2 DEF Backlog, Unserved
<1>7. CASE ~Pop(w)
  <2>1. work' = work /\ (label \in {"woken", "peek", "pop"} => w \in Pending)
    BY <1>0, <1>2, <1>7 DEF Worker, TestActive, LockAndWait, Reacquire, Peek, Unlock,
           FinishJob, DieWaiting, DieRunning, Goto, Pending, TypeOK
  <2> QED
    BY <1>0, <1>2, <1>3, <1>5, <2>1 DEF Backlog, Unserved
<1> QED
  BY <1>6, <1>7

(* A step of the owner that stays in add_work's loop: a job is pushed with *)
(* the signal still to come, and the signal wakes at most one worker.      *)
LEMMA OwnerBacklog ==
  ASSUME TypeOK, Owner, pc'[Main] \in AddPcs
  PROVE  Backlog <= Backlog'
<1>0. Len(work) \in Nat /\ Main \in Threads /\ Workers \subseteq Threads /\ Main \notin Workers
  BY NumThreadsAssumption DEF TypeOK, Workers, Threads, Main
<1>1. Pending \in SUBSET Workers /\ Pending' \in SUBSET Workers
  BY DEF Pending
<1>2. Cardinality(Pending) \in Nat
  <2>1. 1 \in Workers
    BY NumThreadsAssumption DEF Workers
  <2> QED
    BY <1>1, <2>1, PendingCounts
<1>3. CASE AddSignal
  <2>1. work' = work /\ pc[Main] = "addSignal" /\ SignalAndGoto(Main, "addUnlock")
    BY <1>3 DEF AddSignal
  <2>2. CASE Waiting = {}
    <3>1. pc'[Main] = "addUnlock" /\ \A w \in Workers : pc'[w] = pc[w]
      BY <1>0, <2>1, <2>2 DEF SignalAndGoto, Goto, TypeOK
    <3>2. Pending' = Pending
      BY <3>1 DEF Pending
    <3> QED
      BY <1>0, <1>2, <2>1, <3>1, <3>2 DEF Backlog, Unserved
  <2>3. CASE Waiting # {}
    <3>1. PICK r \in Waiting : pc' = [pc EXCEPT ![r] = "woken", ![Main] = "addUnlock"]
      BY <2>1, <2>3 DEF SignalAndGoto
    <3>2. r \in Workers /\ pc[r] = "wait"
      BY <2>1 DEF Waiting, Workers, Threads, Main
    <3>3. /\ pc'[Main] = "addUnlock" /\ pc'[r] = "woken"
          /\ \A w \in Workers \ {r} : pc'[w] = pc[w]
      BY <1>0, <3>1, <3>2 DEF TypeOK
    <3>4. Pending' = Pending \cup {r} /\ r \notin Pending
      BY <3>2, <3>3 DEF Pending
    <3>5. Cardinality(Pending') = Cardinality(Pending) + 1
      BY <1>1, <3>2, <3>4, PendingCounts
    <3> QED
      BY <1>0, <1>2, <2>1, <3>3, <3>5 DEF Backlog, Unserved
  <2> QED
    BY <2>2, <2>3
<1>4. CASE ~AddSignal
  <2>1. Accept \/ AddLock \/ AddPush \/ AddUnlock
    BY <1>4, <1>0 DEF Owner, Interrupt, AddWork, Destroy, Deactivate, SignalNext, CancelNext,
           JoinNext, FreePool, SignalAndGoto, Waiting, Goto, TypeOK, AddPcs
  <2>2. \A w \in Workers : pc'[w] = pc[w]
    BY <1>0, <2>1 DEF Accept, AddLock, AddPush, AddUnlock, Goto, TypeOK
  <2>3. Pending' = Pending
    BY <2>2 DEF Pending
  <2>4. CASE AddPush
    <3>1. Len(work') = Len(work) + 1 /\ pc[Main] = "addPush" /\ pc'[Main] = "addSignal"
      BY <1>0, <2>4 DEF AddPush, Goto, TypeOK
    <3> QED
      BY <1>0, <1>2, <2>3, <3>1 DEF Backlog, Unserved
  <2>5. CASE Accept \/ AddLock \/ AddUnlock
    <3>1. work' = work /\ pc[Main] # "addSignal" /\ pc'[Main] # "addSignal"
      BY <1>0, <2>5 DEF Accept, AddLock, AddUnlock, Goto, TypeOK
    <3> QED
      BY <1>0, <1>2, <2>3, <3>1 DEF Backlog, Unserved
  <2> QED
    BY <2>1, <2>4, <2>5
<1> QED
  BY <1>3, <1>4

(* While the pool is in use, the jobs no wakeup is on its way for never    *)
(* become fewer, unless a wait ends without a signal: for any number of    *)
(* workers, a lost wakeup is not made up for.                              *)
THEOREM BacklogStays == Spec => BacklogNeverRecovers
<1>1. TypeOK /\ [Next]_vars
        => [\/ pc'[Main] \notin AddPcs
            \/ spurious' # spurious
            \/ Unserved(Len(work), Pending, pc[Main])
                 <= Unserved(Len(work'), Pending', pc'[Main])]_vars
  <2> SUFFICES ASSUME TypeOK, [Next]_vars, pc'[Main] \in AddPcs, spurious' = spurious,
                      vars' # vars
               PROVE  Backlog <= Backlog'
    BY DEF Backlog
  <2>1. CASE Owner
    BY <2>1, OwnerBacklog
  <2>2. ASSUME NEW w \in Workers, Worker(w) PROVE Backlog <= Backlog'
    BY <2>2, WorkerBacklog
  <2>3. ASSUME NEW w \in Workers, SpuriousWakeup(w) PROVE FALSE
    BY <2>3 DEF SpuriousWakeup, TypeOK
  <2> QED
    BY <2>1, <2>2, <2>3 DEF Next, Owner
<1>2. Spec => []TypeOK
  BY TypeCorrect, PTL
<1> QED
  BY <1>1, <1>2, PTL DEF Spec, BacklogNeverRecovers
=============================================================================
