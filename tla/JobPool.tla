------------------------------ MODULE JobPool ------------------------------
(***************************************************************************)
(* What a thread pool promises to the code that hands it work, with no     *)
(* threads, lock or condition variable: jobs wait in the order they were   *)
(* submitted, each leaves the queue once, into a free slot, and whatever   *)
(* is still queued when the pool is closed is discarded.                   *)
(***************************************************************************)
EXTENDS Naturals, Sequences

CONSTANT Slots          \* the pool's threads, each of which runs one job at a time

NoJob == 0              \* jobs are numbered from 1 in the order of submission

VARIABLES
  submitted,            \* how many jobs were submitted
  queued,               \* jobs waiting for a slot, oldest first
  slot,                 \* the job each slot runs, or NoJob
  closed                \* the pool was destroyed

vars == <<submitted, queued, slot, closed>>

Init ==
  /\ submitted = 0
  /\ queued = <<>>
  /\ slot = [s \in Slots |-> NoJob]
  /\ closed = FALSE

Submit ==
  /\ ~closed
  /\ submitted' = submitted + 1
  /\ queued' = Append(queued, submitted + 1)
  /\ UNCHANGED <<slot, closed>>

Start(s) ==
  /\ ~closed
  /\ queued # <<>>
  /\ slot[s] = NoJob
  /\ slot' = [slot EXCEPT ![s] = Head(queued)]
  /\ queued' = Tail(queued)
  /\ UNCHANGED <<submitted, closed>>

Release(s) ==
  /\ ~closed
  /\ slot[s] # NoJob
  /\ slot' = [slot EXCEPT ![s] = NoJob]
  /\ UNCHANGED <<submitted, queued, closed>>

Close ==
  /\ ~closed
  /\ slot = [s \in Slots |-> NoJob]
  /\ queued' = <<>>
  /\ closed' = TRUE
  /\ UNCHANGED <<submitted, slot>>

Next == Submit \/ Close \/ \E s \in Slots : Start(s) \/ Release(s)

Spec == Init /\ [][Next]_vars
=============================================================================
