------------------------------ MODULE ThreadPool ------------------------------
(***************************************************************************)
(* The task pool of ijkavutil/ijkthreadpool.c: a ring of tasks guarded by  *)
(* one mutex, worker threads that sleep on one condition variable while it *)
(* is empty, and a destroy that stops them and joins them.  Every section  *)
(* under ctx->lock is one step; a worker gives the mutex up in             *)
(* pthread_cond_wait only.  The pool is created with all its threads.      *)
(***************************************************************************)
EXTENDS Naturals, FiniteSets

CONSTANTS Workers,    \* the threads of the pool
          QueueSize,  \* queue_size given to ijk_threadpool_create
          MaxQueue,   \* MAX_QUEUE, the size growth stops at
          MaxAdds     \* bound: tasks the model accepts

ASSUME ThreadPoolAssumption ==
  /\ IsFiniteSet(Workers) /\ Workers # {}
  /\ QueueSize \in Nat /\ MaxQueue \in Nat /\ 0 < QueueSize /\ QueueSize <= MaxQueue
  /\ MaxAdds \in Nat

VARIABLES
  queue,          \* the task in each slot, numbered as accepted; Garbage if never written
  queue_size,     \* slots allocated
  queue_head, queue_tail, pending_count,
  shutdown,       \* "no", "immediate" or "leisurely"
  worker,         \* what each thread does: "lock", "asleep", "runs" or "left"
  task,           \* the task each thread took last; Garbage before the first
  accepted,       \* tasks accepted so far
  destroyer       \* the caller of destroy: "none", "joins" or "freed"

ring == <<queue, queue_size, queue_head, queue_tail, pending_count>>
vars == <<ring, shutdown, worker, task, accepted, destroyer>>

Garbage == 0
Started == accepted - pending_count    \* tasks the workers have taken

Init ==
  /\ queue = [i \in 0..MaxQueue - 1 |-> Garbage]
  /\ queue_size = QueueSize
  /\ queue_head = 0 /\ queue_tail = 0 /\ pending_count = 0
  /\ shutdown = "no"
  /\ worker = [w \in Workers |-> "lock"]
  /\ task = [w \in Workers |-> Garbage]
  /\ accepted = 0
  /\ destroyer = "none"

--------------------------------------------------------------------------------
(* Workers: ijk_threadpool_thread. *)

\* The conditions tested under the mutex, before the wait and after it.
MustSleep == pending_count = 0 /\ shutdown = "no"
\* Mutant: every shutdown is immediate.
MustLeaveAtOnce == shutdown # "no"

MustLeave == \/ shutdown = "immediate"
             \/ shutdown = "leisurely" /\ pending_count = 0

Sleep(w) ==
  /\ worker[w] = "lock" /\ MustSleep
  /\ worker' = [worker EXCEPT ![w] = "asleep"]
  /\ UNCHANGED <<ring, shutdown, task, accepted, destroyer>>

Leave(w) ==
  /\ worker[w] = "lock" /\ MustLeave
  /\ worker' = [worker EXCEPT ![w] = "left"]
  /\ UNCHANGED <<ring, shutdown, task, accepted, destroyer>>

\* Mutants: the head runs off the ring; the head stays.
GrabUnwrapped(w) ==
  /\ worker[w] = "lock" /\ ~MustSleep /\ ~MustLeave
  /\ task' = [task EXCEPT ![w] = queue[queue_head]]
  /\ queue_head' = queue_head + 1
  /\ pending_count' = pending_count - 1
  /\ worker' = [worker EXCEPT ![w] = "runs"]
  /\ UNCHANGED <<queue, queue_size, queue_tail, shutdown, accepted, destroyer>>

GrabInPlace(w) ==
  /\ worker[w] = "lock" /\ ~MustSleep /\ ~MustLeave
  /\ task' = [task EXCEPT ![w] = queue[queue_head]]
  /\ pending_count' = pending_count - 1
  /\ worker' = [worker EXCEPT ![w] = "runs"]
  /\ UNCHANGED <<queue, queue_size, queue_head, queue_tail, shutdown, accepted, destroyer>>

Grab(w) ==
  /\ worker[w] = "lock" /\ ~MustSleep /\ ~MustLeave
  /\ task' = [task EXCEPT ![w] = queue[queue_head]]
  /\ queue_head' = (queue_head + 1) % queue_size
  /\ pending_count' = pending_count - 1
  /\ worker' = [worker EXCEPT ![w] = "runs"]
  /\ UNCHANGED <<queue, queue_size, queue_tail, shutdown, accepted, destroyer>>

\* The task returns; the thread goes back for the mutex.
Finish(w) ==
  /\ worker[w] = "runs"
  /\ worker' = [worker EXCEPT ![w] = "lock"]
  /\ UNCHANGED <<ring, shutdown, task, accepted, destroyer>>

--------------------------------------------------------------------------------
(* Callers: ijk_threadpool_add and ijk_threadpool_destroy. *)

\* Mutant: a full ring takes one more.
FullTooLate == pending_count > MaxQueue \/ pending_count > queue_size

Full == pending_count = MaxQueue \/ pending_count = queue_size

\* The ring is doubled when one slot is left, and stays where it is in memory order.
Grown ==
  IF pending_count # queue_size - 1 THEN queue_size
  ELSE IF 2 * queue_size > MaxQueue THEN MaxQueue ELSE 2 * queue_size

\* Mutant: only the first task of an empty ring is signalled.
SignalFirst ==
  IF pending_count > 0 THEN UNCHANGED worker
  ELSE \/ \E w \in Workers : worker[w] = "asleep" /\ worker' = [worker EXCEPT ![w] = "lock"]
       \/ (\A w \in Workers : worker[w] # "asleep") /\ UNCHANGED worker

\* pthread_cond_signal wakes one sleeper if there is one.
Signal ==
  \/ \E w \in Workers : worker[w] = "asleep" /\ worker' = [worker EXCEPT ![w] = "lock"]
  \/ (\A w \in Workers : worker[w] # "asleep") /\ UNCHANGED worker

Add ==
  /\ destroyer # "freed" /\ accepted < MaxAdds
  /\ ~Full /\ shutdown = "no"
  /\ queue_size' \in {queue_size, Grown}          \* realloc may fail
  /\ queue' = [queue EXCEPT ![queue_tail] = accepted + 1]
  /\ queue_tail' = (queue_tail + 1) % queue_size'
  /\ pending_count' = pending_count + 1
  /\ accepted' = accepted + 1
  /\ Signal
  /\ UNCHANGED <<queue_head, shutdown, task, destroyer>>

\* A pool that is shutting down refuses the task, after the ring has grown for it.
AddRefused ==
  /\ destroyer # "freed" /\ ~Full /\ shutdown # "no"
  /\ queue_size' \in {queue_size, Grown}
  /\ UNCHANGED <<queue, queue_head, queue_tail, pending_count,
                 shutdown, worker, task, accepted, destroyer>>

\* Mutant: destroy wakes one worker.
DestroySignals(flags) ==
  /\ destroyer = "none"
  /\ destroyer' = "joins"
  /\ shutdown' = flags
  /\ Signal
  /\ UNCHANGED <<ring, task, accepted>>

\* destroy sets the flag and wakes every worker; then it joins them.
Destroy(flags) ==
  /\ destroyer = "none"
  /\ destroyer' = "joins"
  /\ shutdown' = flags
  /\ worker' = [w \in Workers |-> IF worker[w] = "asleep" THEN "lock" ELSE worker[w]]
  /\ UNCHANGED <<ring, task, accepted>>

Joined ==
  /\ destroyer = "joins"
  /\ \A w \in Workers : worker[w] = "left"
  /\ destroyer' = "freed"
  /\ UNCHANGED <<ring, shutdown, worker, task, accepted>>

WorkerStep(w) == Sleep(w) \/ Leave(w) \/ Grab(w) \/ Finish(w)

Next ==
  \/ \E w \in Workers : WorkerStep(w)
  \/ Add \/ AddRefused
  \/ \E flags \in {"immediate", "leisurely"} : Destroy(flags)
  \/ Joined

\* Every thread of the pool is scheduled, and every task returns.
Fairness == (\A w \in Workers : WF_vars(WorkerStep(w))) /\ WF_vars(Joined)

Spec == Init /\ [][Next]_vars /\ Fairness

--------------------------------------------------------------------------------
(* Properties. *)

\* Indices stay inside the allocated ring and the counts inside their bounds.
TypeOK ==
  /\ queue \in [0..MaxQueue - 1 -> 0..MaxAdds]
  /\ queue_size \in QueueSize..MaxQueue
  /\ queue_head \in 0..queue_size - 1 /\ queue_tail \in 0..queue_size - 1
  /\ pending_count \in 0..queue_size
  /\ accepted \in 0..MaxAdds /\ pending_count <= accepted
  /\ shutdown \in {"no", "immediate", "leisurely"}
  /\ worker \in [Workers -> {"lock", "asleep", "runs", "left"}]
  /\ task \in [Workers -> 0..MaxAdds]
  /\ destroyer \in {"none", "joins", "freed"}

\* queue_head is "Index of the first element" and pending_count "Number of pending
\* tasks" (ijkthreadpool.h:65-67): from the head on, the ring holds the tasks accepted
\* and not yet run, in the order of ijk_threadpool_add, whatever the laps of both indices.
PendingInOrder ==
  \A i \in 0..pending_count - 1 :
    queue[(queue_head + i) % queue_size] = Started + 1 + i

\* No task is run twice and none is made up: what the workers hold was accepted,
\* is no longer pending, and differs from one worker to the next.
TakenOnce ==
  \A w \in Workers : worker[w] = "runs" =>
    /\ task[w] \in 1..Started
    /\ \A v \in Workers \ {w} : task[v] # task[w]

\* add signals once per task and destroy broadcasts: no worker stays asleep while
\* more tasks are pending than workers are awake for them, nor in a shutdown.
IdleWorkersAreWoken ==
  LET asleep == {w \in Workers : worker[w] = "asleep"}
      awake == {w \in Workers : worker[w] = "lock"}
  IN asleep # {} => shutdown = "no" /\ pending_count <= Cardinality(awake)

\* Every accepted task is taken by a worker unless the pool is shut down at once:
\* with IJK_LEISURELY_SHUTDOWN too, the workers drain the queue before they leave.
AcceptedTasksRun ==
  \A t \in 1..MaxAdds : (accepted >= t) ~> (Started >= t \/ shutdown = "immediate")

\* destroy returns: each worker sees the flag, asleep or between two tasks.
DestroyReturns == (destroyer = "joins") ~> (destroyer = "freed")
================================================================================
