--------------------------- MODULE ThreadPoolProofs ---------------------------
(***************************************************************************)
(* Theorems about ThreadPool for any number of workers and any ring.       *)
(***************************************************************************)
EXTENDS ThreadPool, FiniteSetTheorems, TLAPS

Asleep == {w \in Workers : worker[w] = "asleep"}
Awake == {w \in Workers : worker[w] = "lock"}

\* The tail is just behind the pending tasks.
TailFollows == queue_tail = (queue_head + pending_count) % queue_size

OrderInv == TypeOK /\ TailFollows /\ PendingInOrder

\* What is allocated anew for the ring, if anything is, is put behind its last task.
Straight == queue_size' = queue_size \/ queue_head <= queue_tail
GrowsStraight == [][Straight]_vars

\* The pending tasks and the free slot behind them are where they belong in a ring of
\* n slots.
InPlace(n) ==
  /\ n \in Nat /\ queue_size <= n /\ n <= MaxQueue /\ pending_count < n
  /\ queue_tail = (queue_head + pending_count) % n
  /\ \A i \in 0 .. pending_count - 1 :
       /\ (queue_head + i) % n \in DOMAIN queue
       /\ (queue_head + i) % n # queue_tail
       /\ queue[(queue_head + i) % n] = Started + 1 + i

\* TakenOnce needs the tasks of the idle workers too: the last task of a worker is
\* nobody else's, whether it still runs or not.
LastTasks ==
  \A w \in Workers :
    /\ task[w] <= Started
    /\ worker[w] = "runs" => task[w] # Garbage
    /\ \A v \in Workers \ {w} : task[v] = task[w] => task[w] = Garbage

LEMMA Bounds ==
  /\ QueueSize \in Nat /\ MaxQueue \in Nat /\ MaxAdds \in Nat
  /\ 0 < QueueSize /\ QueueSize <= MaxQueue
  BY ThreadPoolAssumption DEF ThreadPoolAssumption

\* An index plus an offset of at most one lap, folded back into the ring.
LEMMA Folded ==
  ASSUME NEW n \in Nat, 0 < n, NEW h \in Nat, NEW i \in Nat, h + i < 2 * n
  PROVE  (h + i) % n = IF h + i < n THEN h + i ELSE h + i - n
  OBVIOUS

LEMMA NextIndex ==
  ASSUME NEW n \in Nat, NEW i \in Nat, 0 < n
  PROVE  i % n \in 0 .. n - 1
  OBVIOUS

\* TypeOK, for the arithmetic of the indices.
LEMMA Indices ==
  ASSUME TypeOK
  PROVE  /\ queue_size \in Nat /\ QueueSize <= queue_size /\ queue_size <= MaxQueue
         /\ queue_head \in Nat /\ queue_head < queue_size
         /\ queue_tail \in Nat /\ queue_tail < queue_size
         /\ pending_count \in Nat /\ pending_count <= queue_size
         /\ accepted \in Nat /\ pending_count <= accepted /\ accepted <= MaxAdds
  BY Bounds DEF TypeOK

\* A ring that is not full grows within MAX_QUEUE, or stays.
LEMMA GrownRange ==
  ASSUME TypeOK, ~Full
  PROVE  /\ queue_size \in Nat /\ Grown \in Nat
         /\ queue_size <= Grown /\ Grown <= MaxQueue
         /\ pending_count < queue_size
         /\ 0 < queue_size
  BY Bounds DEF TypeOK, Full, Grown

\* A worker that takes a task finds one.
LEMMA GrabHasTask ==
  ASSUME TypeOK, ~MustSleep, ~MustLeave
  PROVE  pending_count > 0
  BY Bounds DEF TypeOK, MustSleep, MustLeave

LEMMA SignalTypes ==
  ASSUME TypeOK, Signal
  PROVE  worker' \in [Workers -> {"lock", "asleep", "runs", "left"}]
  BY DEF TypeOK, Signal

LEMMA InitTypes == Init => TypeOK
  BY Bounds DEF Init, TypeOK, Garbage

LEMMA TypesKept == TypeOK /\ [Next]_vars => TypeOK'
<1> SUFFICES ASSUME TypeOK, [Next]_vars PROVE TypeOK'
  OBVIOUS
<1>1. ASSUME NEW w \in Workers, WorkerStep(w) PROVE TypeOK'
  <2>1. CASE Sleep(w)
    BY <2>1 DEF Sleep, TypeOK, ring
  <2>2. CASE Leave(w)
    BY <2>2 DEF Leave, TypeOK, ring
  <2>3. CASE Grab(w)
    <3>1. pending_count > 0 /\ queue_size > 0 /\ queue_size \in Nat
      BY <2>3, GrabHasTask, Bounds DEF Grab, TypeOK
    <3>2. queue_head' \in 0 .. queue_size - 1
      BY <2>3, <3>1, NextIndex DEF Grab, TypeOK
    <3>3. queue[queue_head] \in 0 .. MaxAdds
      BY Bounds DEF TypeOK
    <3>4. task' \in [Workers -> 0 .. MaxAdds]
      BY <2>3, <3>3 DEF Grab, TypeOK
    <3>5. worker' \in [Workers -> {"lock", "asleep", "runs", "left"}]
      BY <2>3 DEF Grab, TypeOK
    <3>6. pending_count' \in 0 .. queue_size /\ pending_count' <= accepted
      BY <2>3, <3>1, Bounds DEF Grab, TypeOK
    <3> QED
      BY <2>3, <3>2, <3>4, <3>5, <3>6 DEF Grab, TypeOK
  <2>4. CASE Finish(w)
    BY <2>4 DEF Finish, TypeOK, ring
  <2> QED
    BY <1>1, <2>1, <2>2, <2>3, <2>4 DEF WorkerStep
<1>2. CASE Add
  <2>1. /\ queue_size \in Nat /\ queue_size' \in Nat
        /\ queue_size <= queue_size' /\ queue_size' <= MaxQueue
        /\ pending_count < queue_size /\ 0 < queue_size
    BY <1>2, GrownRange, Bounds DEF Add, TypeOK
  <2>2. queue_tail' \in 0 .. queue_size' - 1
    BY <1>2, <2>1, Indices, NextIndex DEF Add
  <2>3. queue' \in [0 .. MaxQueue - 1 -> 0 .. MaxAdds]
    BY <1>2, Bounds DEF Add, TypeOK
  <2>4. worker' \in [Workers -> {"lock", "asleep", "runs", "left"}]
    BY <1>2, SignalTypes DEF Add
  <2>5. queue_size' \in QueueSize .. MaxQueue /\ queue_head \in 0 .. queue_size' - 1
    BY <2>1, Indices, Bounds
  <2>6. /\ pending_count' \in 0 .. queue_size' /\ pending_count' <= accepted'
        /\ accepted' \in 0 .. MaxAdds
    BY <1>2, <2>1, Indices, Bounds DEF Add
  <2> QED
    BY <1>2, <2>2, <2>3, <2>4, <2>5, <2>6 DEF Add, TypeOK
<1>3. CASE AddRefused
  <2>1. /\ queue_size \in Nat /\ queue_size' \in Nat
        /\ queue_size <= queue_size' /\ queue_size' <= MaxQueue
    BY <1>3, GrownRange, Bounds DEF AddRefused, TypeOK
  <2>2. /\ queue_size' \in QueueSize .. MaxQueue
        /\ queue_head \in 0 .. queue_size' - 1 /\ queue_tail \in 0 .. queue_size' - 1
        /\ pending_count \in 0 .. queue_size'
    BY <2>1, Indices, Bounds
  <2> QED
    BY <1>3, <2>2 DEF AddRefused, TypeOK
<1>4. ASSUME NEW flags \in {"immediate", "leisurely"}, Destroy(flags) PROVE TypeOK'
  BY <1>4 DEF Destroy, TypeOK, ring
<1>5. CASE Joined
  BY <1>5 DEF Joined, TypeOK, ring
<1>6. CASE UNCHANGED vars
  BY <1>6 DEF TypeOK, vars, ring
<1> QED
  BY <1>1, <1>2, <1>3, <1>4, <1>5, <1>6 DEF Next

\* ijkthreadpool.c: the indices of the ring stay inside what is allocated, through
\* every growth, and the count inside the ring (TypeOK).
THEOREM Typing == Spec => []TypeOK
  BY InitTypes, TypesKept, PTL DEF Spec

--------------------------------------------------------------------------------
(* No worker sleeps while there is work for it. *)

LEMMA FiniteWorkers ==
  /\ IsFiniteSet(Asleep) /\ IsFiniteSet(Awake)
  /\ Cardinality(Awake) \in Nat
<1>1. Asleep \in SUBSET Workers /\ Awake \in SUBSET Workers /\ IsFiniteSet(Workers)
  BY ThreadPoolAssumption DEF ThreadPoolAssumption, Asleep, Awake
<1> QED
  BY <1>1, FS_Subset, FS_CardinalityType

LEMMA WokenForm ==
  IdleWorkersAreWoken <=>
    (Asleep # {} => shutdown = "no" /\ pending_count <= Cardinality(Awake))
  BY DEF IdleWorkersAreWoken, Asleep, Awake

LEMMA WokenKept ==
  TypeOK /\ IdleWorkersAreWoken /\ [Next]_vars => IdleWorkersAreWoken'
<1> SUFFICES ASSUME TypeOK, IdleWorkersAreWoken, [Next]_vars,
                    (Asleep # {})'
             PROVE  (shutdown = "no" /\ pending_count <= Cardinality(Awake))'
  BY DEF IdleWorkersAreWoken, Asleep, Awake
<1>0. /\ Asleep # {} => shutdown = "no" /\ pending_count <= Cardinality(Awake)
      /\ IsFiniteSet(Awake) /\ Cardinality(Awake) \in Nat
      /\ pending_count \in Nat
  BY WokenForm, FiniteWorkers, Bounds DEF TypeOK
<1>1. ASSUME NEW w \in Workers, WorkerStep(w)
      PROVE  shutdown' = "no" /\ pending_count' <= Cardinality(Awake')
  <2>1. CASE Sleep(w)
    <3>1. pending_count' = 0 /\ shutdown' = "no"
      BY <2>1 DEF Sleep, MustSleep, ring
    <3>2. Awake' = Awake \ {w}
      BY <2>1 DEF Sleep, TypeOK, Awake
    <3>3. Cardinality(Awake') \in Nat
      BY <3>2, <1>0, FS_RemoveElement, FS_CardinalityType
    <3> QED
      BY <3>1, <3>3
  <2>2. CASE Leave(w)
    <3>1. Asleep' = Asleep /\ shutdown # "no"
      BY <2>2 DEF Leave, MustLeave, TypeOK, Asleep
    <3> QED
      BY <3>1, <1>0
  <2>3. CASE Grab(w)
    <3>1. Asleep' = Asleep
      BY <2>3 DEF Grab, TypeOK, Asleep
    <3>2. Awake' = Awake \ {w} /\ w \in Awake
      BY <2>3 DEF Grab, TypeOK, Awake
    <3>3. Cardinality(Awake') = Cardinality(Awake) - 1
      BY <3>2, <1>0, FS_RemoveElement
    <3> QED
      BY <2>3, <3>1, <3>3, <1>0 DEF Grab
  <2>4. CASE Finish(w)
    <3>1. Asleep' = Asleep
      BY <2>4 DEF Finish, TypeOK, Asleep
    <3>2. Awake' = Awake \cup {w} /\ w \notin Awake
      BY <2>4 DEF Finish, TypeOK, Awake
    <3>3. Cardinality(Awake') = Cardinality(Awake) + 1
      BY <3>2, <1>0, FS_AddElement
    <3> QED
      BY <2>4, <3>1, <3>3, <1>0 DEF Finish, ring
  <2> QED
    BY <1>1, <2>1, <2>2, <2>3, <2>4 DEF WorkerStep
<1>2. ASSUME Add
      PROVE  shutdown' = "no" /\ pending_count' <= Cardinality(Awake')
  <2>1. CASE \E w \in Workers : worker[w] = "asleep" /\ worker' = [worker EXCEPT ![w] = "lock"]
    <3>1. PICK w \in Workers : worker[w] = "asleep" /\ worker' = [worker EXCEPT ![w] = "lock"]
      BY <2>1
    <3>2. Awake' = Awake \cup {w} /\ w \notin Awake /\ w \in Asleep
      BY <3>1 DEF TypeOK, Awake, Asleep
    <3>3. Cardinality(Awake') = Cardinality(Awake) + 1
      BY <3>2, <1>0, FS_AddElement
    <3> QED
      BY <1>2, <3>2, <3>3, <1>0 DEF Add
  <2>2. CASE (\A w \in Workers : worker[w] # "asleep") /\ UNCHANGED worker
    <3>1. Asleep' = {}
      BY <2>2 DEF Asleep
    <3> QED
      BY <3>1
  <2> QED
    BY <1>2, <2>1, <2>2 DEF Add, Signal
<1>3. ASSUME AddRefused
      PROVE  shutdown' = "no" /\ pending_count' <= Cardinality(Awake')
  BY <1>3, <1>0 DEF AddRefused, Asleep, Awake
<1>4. ASSUME NEW flags \in {"immediate", "leisurely"}, Destroy(flags)
      PROVE  shutdown' = "no" /\ pending_count' <= Cardinality(Awake')
  <2>1. Asleep' = {}
    BY <1>4 DEF Destroy, TypeOK, Asleep
  <2> QED
    BY <2>1
<1>5. ASSUME Joined
      PROVE  shutdown' = "no" /\ pending_count' <= Cardinality(Awake')
  BY <1>5, <1>0 DEF Joined, Asleep, Awake, ring
<1>6. ASSUME UNCHANGED vars
      PROVE  shutdown' = "no" /\ pending_count' <= Cardinality(Awake')
  BY <1>6, <1>0 DEF vars, Asleep, Awake, ring
<1> QED
  BY <1>1, <1>2, <1>3, <1>4, <1>5, <1>6 DEF Next

\* ijkthreadpool.c:41-43, 184, 231: one signal for each task and a broadcast at the end
\* are enough, with any number of workers: nobody sleeps on more tasks than there are
\* workers on their way to them, nor through a shutdown (IdleWorkersAreWoken).
THEOREM WorkersAreWoken == Spec => []IdleWorkersAreWoken
<1>1. Init => IdleWorkersAreWoken
  BY WokenForm DEF Init, Asleep
<1> QED
  BY <1>1, WokenKept, Typing, PTL DEF Spec

--------------------------------------------------------------------------------
(* The order of the tasks.  A ring that grows while it is wrapped loses it (the run
   thread_pool_growth); nothing else does. *)

\* The pending tasks and the slot behind them are different slots of a ring with room.
LEMMA TailIsFree ==
  ASSUME TypeOK, TailFollows, pending_count < queue_size,
         NEW i \in 0 .. pending_count - 1
  PROVE  (queue_head + i) % queue_size # queue_tail
<1>1. /\ queue_head \in Nat /\ i \in Nat /\ queue_head + i < 2 * queue_size
      /\ pending_count \in Nat /\ queue_head + pending_count < 2 * queue_size
      /\ 0 < queue_size /\ queue_size \in Nat
  BY Indices
<1>2. (queue_head + i) % queue_size
        = IF queue_head + i < queue_size THEN queue_head + i ELSE queue_head + i - queue_size
  BY <1>1, Folded
<1>3. queue_tail = IF queue_head + pending_count < queue_size
                   THEN queue_head + pending_count
                   ELSE queue_head + pending_count - queue_size
  BY <1>1, Folded DEF TailFollows
<1> QED
  BY <1>2, <1>3, Indices

\* What follows the head follows its successor, one place earlier.
LEMMA Advance ==
  ASSUME NEW n \in Nat, NEW h \in 0 .. n - 1, NEW i \in 0 .. n - 1
  PROVE  (((h + 1) % n) + i) % n = (h + (i + 1)) % n
<1>1. /\ (h + 1) % n = IF h + 1 < n THEN h + 1 ELSE 0
      /\ (h + (i + 1)) % n = IF h + i + 1 < n THEN h + i + 1 ELSE h + i + 1 - n
  BY Folded
<1>2. CASE h + 1 < n
  BY <1>1, <1>2
<1>3. CASE h + 1 = n
  <2>1. ((h + 1) % n) + i = i /\ h + i + 1 - n = i
    BY <1>1, <1>3
  <2>2. i % n = i
    BY Folded
  <2> QED
    BY <1>1, <1>3, <2>1, <2>2
<1> QED
  BY <1>2, <1>3

\* The slot behind p tasks is followed by the slot behind p + 1.
LEMMA StepBehind ==
  ASSUME NEW n \in Nat, NEW h \in Nat, NEW p \in Nat, h < n, p < n
  PROVE  (((h + p) % n) + 1) % n = (h + (p + 1)) % n
<1>1. CASE h + p < n
  <2>1. (h + p) % n = h + p
    BY <1>1
  <2> QED
    BY <2>1
<1>2. CASE h + p >= n
  <2>1. (h + p) % n = h + p - n
    BY <1>2
  <2>2. (h + (p + 1)) % n = h + p + 1 - n
    BY <1>2
  <2>3. (h + p - n + 1) % n = h + p - n + 1
    BY <1>2
  <2> QED
    BY <2>1, <2>2, <2>3
<1> QED
  BY <1>1, <1>2

LEMMA GrabKeepsOrder ==
  ASSUME OrderInv, NEW w \in Workers, Grab(w)
  PROVE  /\ (TailFollows /\ PendingInOrder)'
         /\ task' = [task EXCEPT ![w] = Started + 1]
         /\ Started' = Started + 1
<1>1. /\ pending_count > 0 /\ pending_count' = pending_count - 1
      /\ queue_head' = (queue_head + 1) % queue_size
      /\ UNCHANGED <<queue, queue_size, queue_tail, accepted>>
  BY GrabHasTask DEF OrderInv, Grab
<1>2. Started' = Started + 1
  BY <1>1, Indices DEF OrderInv, Started
<1>3. queue[queue_head] = Started + 1
  <2>1. queue[(queue_head + 0) % queue_size] = Started + 1 + 0
    BY <1>1, Indices DEF OrderInv, PendingInOrder
  <2>2. queue_head % queue_size = queue_head
    BY Indices, Folded DEF OrderInv
  <2>3. queue_head + 0 = queue_head /\ Started + 1 + 0 = Started + 1
    BY Indices DEF OrderInv, Started
  <2> QED
    BY <2>1, <2>2, <2>3
<1>4. TailFollows'
  <2>1. queue_tail = (queue_head + (pending_count - 1 + 1)) % queue_size
    BY Indices DEF OrderInv, TailFollows
  <2>2. queue_tail = (((queue_head + 1) % queue_size) + (pending_count - 1)) % queue_size
    BY <1>1, <2>1, Indices, Advance DEF OrderInv
  <2> QED
    BY <1>1, <2>2 DEF OrderInv, TailFollows
<1>5. ASSUME NEW i \in 0 .. pending_count' - 1
      PROVE  queue'[(queue_head' + i) % queue_size'] = Started' + 1 + i
  <2>1. queue[(queue_head + (i + 1)) % queue_size] = Started + 1 + (i + 1)
    BY <1>1, Indices DEF OrderInv, PendingInOrder
  <2>2. (((queue_head + 1) % queue_size) + i) % queue_size = (queue_head + (i + 1)) % queue_size
    BY <1>1, Indices, Advance DEF OrderInv
  <2>3. Started + 1 + (i + 1) = Started + 1 + 1 + i
    BY Indices DEF OrderInv, Started
  <2> QED
    BY <1>1, <1>2, <2>1, <2>2, <2>3
<1> QED
  BY <1>2, <1>3, <1>4, <1>5 DEF PendingInOrder, Grab

\* A ring that grows straight, or stays, has its tasks where they were.
LEMMA GrowthKeepsPlaces ==
  ASSUME OrderInv, ~Full, NEW n \in {queue_size, Grown},
         n = queue_size \/ queue_head <= queue_tail
  PROVE  InPlace(n)
<1>0. /\ n \in Nat /\ queue_size <= n /\ n <= MaxQueue
      /\ pending_count < queue_size /\ 0 < queue_size
  BY GrownRange, Bounds DEF OrderInv
<1>1. ASSUME NEW i \in 0 .. pending_count
      PROVE  (queue_head + i) % n = (queue_head + i) % queue_size
  <2>1. CASE n = queue_size
    BY <2>1
  <2>2. CASE queue_head <= queue_tail
    <3>1. /\ queue_head \in Nat /\ queue_tail \in Nat /\ pending_count \in Nat
          /\ queue_size \in Nat /\ queue_head < queue_size
      BY Indices DEF OrderInv
    <3>2. queue_tail = IF queue_head + pending_count < queue_size
                       THEN queue_head + pending_count
                       ELSE queue_head + pending_count - queue_size
      BY <1>0, <3>1, Folded DEF OrderInv, TailFollows
    <3>3. queue_head + pending_count < queue_size
      BY <1>0, <2>2, <3>1, <3>2
    <3>4. queue_head + i < queue_size /\ queue_head + i < n /\ i \in Nat
      BY <1>0, <3>1, <3>3
    <3>5. (queue_head + i) % queue_size = queue_head + i
      BY <1>0, <3>1, <3>4, Folded
    <3>6. (queue_head + i) % n = queue_head + i
      BY <1>0, <3>1, <3>4, Folded
    <3> QED
      BY <3>5, <3>6
  <2> QED
    BY <2>1, <2>2
<1>2. queue_tail = (queue_head + pending_count) % n
  BY <1>1, Indices DEF OrderInv, TailFollows
<1>3. ASSUME NEW i \in 0 .. pending_count - 1
      PROVE  /\ (queue_head + i) % n \in DOMAIN queue
             /\ (queue_head + i) % n # queue_tail
             /\ queue[(queue_head + i) % n] = Started + 1 + i
  <2>1. (queue_head + i) % n = (queue_head + i) % queue_size
    BY <1>1, Indices DEF OrderInv
  <2>2. (queue_head + i) % queue_size \in DOMAIN queue
    <3>1. queue_head + i \in Nat /\ queue_size \in Nat \ {0}
      BY <1>0, Indices DEF OrderInv
    <3>2. (queue_head + i) % queue_size \in 0 .. queue_size - 1
      BY <3>1
    <3>3. DOMAIN queue = 0 .. MaxQueue - 1 /\ queue_size - 1 <= MaxQueue - 1
      BY <1>0, <3>1, Bounds DEF OrderInv, TypeOK
    <3> QED
      BY <3>1, <3>2, <3>3, Bounds
  <2>3. (queue_head + i) % queue_size # queue_tail
    BY <1>0, TailIsFree DEF OrderInv
  <2>4. queue[(queue_head + i) % queue_size] = Started + 1 + i
    BY DEF OrderInv, PendingInOrder
  <2> QED
    BY <2>1, <2>2, <2>3, <2>4
<1>4. pending_count < n
  BY <1>0, Indices DEF OrderInv
<1> QED
  BY <1>0, <1>2, <1>3, <1>4 DEF InPlace

LEMMA AddKeepsOrder ==
  ASSUME OrderInv, Add, Straight
  PROVE  /\ (TailFollows /\ PendingInOrder)'
         /\ Started' = Started
<1>1. /\ InPlace(queue_size')
      /\ pending_count' = pending_count + 1 /\ accepted' = accepted + 1
      /\ queue_tail' = (queue_tail + 1) % queue_size'
      /\ queue' = [queue EXCEPT ![queue_tail] = accepted + 1]
      /\ UNCHANGED queue_head
  BY GrowthKeepsPlaces DEF Add, Straight
<1>2. Started' = Started
  BY <1>1, Indices DEF OrderInv, Started
<1>3. TailFollows'
  <2>1. /\ queue_size' \in Nat /\ queue_head \in Nat /\ pending_count \in Nat
        /\ queue_head < queue_size' /\ pending_count < queue_size'
    BY <1>1, Indices DEF OrderInv, InPlace
  <2>2. queue_tail = (queue_head + pending_count) % queue_size'
    BY <1>1 DEF InPlace
  <2> QED
    BY <1>1, <2>1, <2>2, StepBehind DEF TailFollows
<1>4. ASSUME NEW i \in 0 .. pending_count' - 1
      PROVE  queue'[(queue_head' + i) % queue_size'] = Started' + 1 + i
  <2>1. CASE i = pending_count
    <3>1. queue_tail \in DOMAIN queue
      BY Indices, Bounds DEF OrderInv, TypeOK
    <3>2. Started + 1 + pending_count = accepted + 1
      BY Indices DEF OrderInv, Started
    <3> QED
      BY <1>1, <1>2, <2>1, <3>1, <3>2 DEF InPlace
  <2>2. CASE i # pending_count
    <3>1. i \in 0 .. pending_count - 1
      BY <1>1, <2>2, Indices DEF OrderInv
    <3> QED
      BY <1>1, <1>2, <3>1 DEF InPlace
  <2> QED
    BY <2>1, <2>2
<1> QED
  BY <1>2, <1>3, <1>4 DEF PendingInOrder

\* Every other step leaves the tasks alone; a refused task may still grow the ring.
LEMMA OthersKeepOrder ==
  ASSUME OrderInv, [Next]_vars, [Straight]_vars, ~Add, \A w \in Workers : ~Grab(w)
  PROVE  /\ (TailFollows /\ PendingInOrder)'
         /\ UNCHANGED <<accepted, pending_count, task>>
<1>1. CASE AddRefused
  <2>1. InPlace(queue_size')
    BY <1>1, GrowthKeepsPlaces DEF AddRefused, Straight, vars, ring
  <2>2. UNCHANGED <<queue, queue_head, queue_tail, pending_count, accepted, task>>
    BY <1>1 DEF AddRefused
  <2> QED
    BY <2>1, <2>2 DEF InPlace, TailFollows, PendingInOrder, Started
<1>2. CASE ~AddRefused
  <2>1. UNCHANGED <<ring, accepted, task>>
    BY <1>2 DEF Next, WorkerStep, Sleep, Leave, Finish, Destroy, Joined, vars
  <2> QED
    BY <2>1 DEF OrderInv, TailFollows, PendingInOrder, Started, ring
<1> QED
  BY <1>1, <1>2

LEMMA OrderKept == OrderInv /\ [Next]_vars /\ [Straight]_vars => OrderInv'
<1> SUFFICES ASSUME OrderInv, [Next]_vars, [Straight]_vars PROVE OrderInv'
  OBVIOUS
<1>1. TypeOK'
  BY TypesKept DEF OrderInv
<1>2. ASSUME NEW w \in Workers, Grab(w) PROVE (TailFollows /\ PendingInOrder)'
  BY <1>2, GrabKeepsOrder
<1>3. ASSUME Add PROVE (TailFollows /\ PendingInOrder)'
  BY <1>3, AddKeepsOrder DEF vars, ring, Straight
<1> QED
  BY <1>1, <1>2, <1>3, OthersKeepOrder DEF OrderInv

LEMMA OrderInvariant == Spec /\ GrowsStraight => []OrderInv
<1>1. Init => OrderInv
  <2> SUFFICES ASSUME Init PROVE OrderInv
    OBVIOUS
  <2>1. PendingInOrder
    BY Bounds DEF Init, PendingInOrder
  <2>2. TailFollows
    BY Bounds, Folded DEF Init, TailFollows
  <2> QED
    BY <2>1, <2>2, InitTypes DEF OrderInv
<1> QED
  BY <1>1, OrderKept, PTL DEF Spec, GrowsStraight

\* A ring created with its last size does not grow.
LEMMA FixedGrowsStraight == ASSUME QueueSize = MaxQueue PROVE Spec => GrowsStraight
<1>1. TypeOK /\ TypeOK' => Straight
  BY Bounds DEF TypeOK, Straight
<1> QED
  BY <1>1, Typing, PTL DEF GrowsStraight

\* ijkthreadpool.h:65-67 against 159-166: from the head on, the ring holds the accepted
\* tasks nobody has taken, in order, however often both indices have lapped and the ring
\* has grown, as long as it never grows while it is wrapped (PendingInOrder).
THEOREM OrderUntilWrappedGrowth == Spec /\ GrowsStraight => []PendingInOrder
<1>1. OrderInv => PendingInOrder
  BY DEF OrderInv
<1> QED
  BY <1>1, OrderInvariant, PTL

\* ijkthreadpool.h:65-67, in a ring of MAX_QUEUE slots: from the head on, the ring holds
\* the accepted tasks nobody has taken, in order, however often both indices have lapped
\* (PendingInOrder).
THEOREM FirstInFirstOut == ASSUME QueueSize = MaxQueue PROVE Spec => []PendingInOrder
  BY FixedGrowsStraight, OrderUntilWrappedGrowth, PTL

LEMMA LastTasksKept ==
  OrderInv /\ LastTasks /\ [Next]_vars /\ [Straight]_vars => LastTasks'
<1> SUFFICES ASSUME OrderInv, LastTasks, [Next]_vars, [Straight]_vars PROVE LastTasks'
  OBVIOUS
<1>0. Started \in Nat /\ task \in [Workers -> 0 .. MaxAdds]
  BY Indices DEF OrderInv, TypeOK, Started
<1>1. ASSUME NEW w \in Workers, Grab(w) PROVE LastTasks'
  <2>1. /\ task' = [task EXCEPT ![w] = Started + 1] /\ Started' = Started + 1
        /\ worker' = [worker EXCEPT ![w] = "runs"]
    BY <1>1, GrabKeepsOrder DEF Grab
  <2>2. \A v \in Workers : task[v] <= Started /\ task[v] \in Nat
    BY <1>0 DEF LastTasks
  <2>3. \A v \in Workers : task'[v] = IF v = w THEN Started + 1 ELSE task[v]
    BY <1>0, <2>1
  <2>4. \A v \in Workers \ {w} : worker'[v] = worker[v]
    BY <2>1 DEF OrderInv, TypeOK
  <2>5. \A v \in Workers : task'[v] <= Started'
    BY <1>0, <2>1, <2>2, <2>3
  <2>6. \A v \in Workers : worker'[v] = "runs" => task'[v] # Garbage
    BY <1>0, <2>3, <2>4 DEF LastTasks, Garbage
  <2>7. \A v \in Workers : \A u \in Workers \ {v} : task'[u] = task'[v] => task'[v] = Garbage
    BY <1>0, <2>2, <2>3 DEF LastTasks, Garbage
  <2> QED
    BY <2>5, <2>6, <2>7 DEF LastTasks
<1>2. CASE Add
  <2>1. Started' = Started /\ task' = task
    BY <1>2, AddKeepsOrder DEF Add, vars, ring, Straight
  <2>2. \A v \in Workers : worker'[v] = "runs" => worker[v] = "runs"
    BY <1>2 DEF Add, Signal, OrderInv, TypeOK
  <2> QED
    BY <2>1, <2>2 DEF LastTasks
<1>3. ASSUME ~Add, \A w \in Workers : ~Grab(w) PROVE LastTasks'
  <2>1. UNCHANGED <<accepted, pending_count, task>>
    BY <1>3, OthersKeepOrder
  <2>2. \A v \in Workers : worker'[v] = "runs" => worker[v] = "runs"
    BY <1>3 DEF Next, WorkerStep, Sleep, Leave, Finish, AddRefused, Destroy, Joined, vars,
                OrderInv, TypeOK
  <2> QED
    BY <2>1, <2>2 DEF LastTasks, Started
<1> QED
  BY <1>1, <1>2, <1>3

\* ijkthreadpool.c:51-59: a task is given to one worker, once, and only after it was
\* accepted, as long as the ring never grows while it is wrapped (TakenOnce).
THEOREM OnceUntilWrappedGrowth == Spec /\ GrowsStraight => []TakenOnce
<1>1. Init => LastTasks
  BY DEF Init, LastTasks, Started, Garbage
<1>2. OrderInv /\ LastTasks => TakenOnce
  <2> SUFFICES ASSUME OrderInv, LastTasks, NEW w \in Workers, worker[w] = "runs"
               PROVE  /\ task[w] \in 1 .. Started
                      /\ \A v \in Workers \ {w} : task[v] # task[w]
    BY DEF TakenOnce
  <2>1. Started \in Nat /\ task[w] \in Nat
    BY Indices DEF OrderInv, TypeOK, Started
  <2> QED
    BY <2>1 DEF LastTasks, Garbage
<1> QED
  BY <1>1, <1>2, LastTasksKept, OrderInvariant, PTL DEF Spec, GrowsStraight

\* The same in a ring of MAX_QUEUE slots, which cannot grow.
THEOREM TasksRunOnce == ASSUME QueueSize = MaxQueue PROVE Spec => []TakenOnce
  BY FixedGrowsStraight, OnceUntilWrappedGrowth, PTL

--------------------------------------------------------------------------------
(* The end of a pool. *)

\* ijk_threadpool_free comes after the last worker, and with IJK_LEISURELY_SHUTDOWN the
\* first worker to leave leaves no task behind.
NothingLeftBehind ==
  /\ destroyer = "freed" => \A w \in Workers : worker[w] = "left"
  /\ shutdown = "leisurely" /\ (\E w \in Workers : worker[w] = "left")
       => Started = accepted

\* Workers leave in a shutdown only, which begins with the destroy.
Ending ==
  /\ destroyer = "none" => shutdown = "no"
  /\ shutdown = "no" => \A w \in Workers : worker[w] # "left"
  /\ destroyer = "freed" => \A w \in Workers : worker[w] = "left"
  /\ shutdown = "leisurely" /\ (\E w \in Workers : worker[w] = "left")
       => pending_count = 0

LEMMA EndingKept == TypeOK /\ Ending /\ [Next]_vars => Ending'
<1> SUFFICES ASSUME TypeOK, Ending, [Next]_vars PROVE Ending'
  OBVIOUS
<1>1. ASSUME NEW w \in Workers, WorkerStep(w) PROVE Ending'
  <2>1. CASE Sleep(w)
    BY <2>1 DEF Sleep, MustSleep, TypeOK, Ending, ring
  <2>2. CASE Leave(w)
    BY <2>2 DEF Leave, MustLeave, TypeOK, Ending, ring
  <2>3. CASE Grab(w)
    <3>1. pending_count > 0
      BY <2>3, GrabHasTask DEF Grab
    <3>2. pending_count \in Nat
      BY Indices
    <3>3. \A v \in Workers : worker'[v] = "left" <=> worker[v] = "left"
      BY <2>3 DEF Grab, TypeOK
    <3>4. UNCHANGED <<shutdown, destroyer>>
      BY <2>3 DEF Grab
    <3> QED
      BY <3>1, <3>2, <3>3, <3>4 DEF Ending
  <2>4. CASE Finish(w)
    BY <2>4 DEF Finish, TypeOK, Ending, ring
  <2> QED
    BY <1>1, <2>1, <2>2, <2>3, <2>4 DEF WorkerStep
<1>2. CASE Add
  <2>1. \A v \in Workers : worker'[v] = "left" <=> worker[v] = "left"
    BY <1>2 DEF Add, Signal, TypeOK
  <2> QED
    BY <1>2, <2>1 DEF Add, Ending
<1>3. CASE AddRefused
  BY <1>3 DEF AddRefused, Ending
<1>4. ASSUME NEW flags \in {"immediate", "leisurely"}, Destroy(flags) PROVE Ending'
  <2>1. \A v \in Workers : worker'[v] = "left" <=> worker[v] = "left"
    BY <1>4 DEF Destroy, TypeOK
  <2> QED
    BY <1>4, <2>1 DEF Destroy, Ending
<1>5. CASE Joined
  BY <1>5 DEF Joined, Ending, ring
<1>6. CASE UNCHANGED vars
  BY <1>6 DEF vars, ring, Ending
<1> QED
  BY <1>1, <1>2, <1>3, <1>4, <1>5, <1>6 DEF Next

\* ijkthreadpool.c:49-66, 225-251: the memory of a pool goes when all its threads have, and
\* a leisurely shutdown runs every task that was accepted, whatever was pending and
\* whoever was asleep when it began (NothingLeftBehind).
THEOREM DestroyLeavesNothing == Spec => []NothingLeftBehind
<1>1. Init => Ending
  BY DEF Init, Ending
<1>2. TypeOK /\ Ending => NothingLeftBehind
  BY Indices DEF Ending, NothingLeftBehind, Started
<1> QED
  BY <1>1, <1>2, EndingKept, Typing, PTL DEF Spec
================================================================================
