--------------------------- MODULE ThreadPoolProofs ---------------------------
(***************************************************************************)
(* Theorems about ThreadPool for every number of workers, every queue size *)
(* and every set of jobs.                                                  *)
(***************************************************************************)
EXTENDS ThreadPool, FiniteSetTheorems, SequenceTheorems, TLAPS

-----------------------------------------------------------------------------
(* Arithmetic of the circular array.                                       *)

LEMMA ModSmall ==
  ASSUME NEW n \in Nat \ {0}, NEW h \in 0 .. n - 1, NEW i \in 0 .. n,
         h + i < n
  PROVE  (h + i) % n = h + i
BY SMT

LEMMA ModWrap ==
  ASSUME NEW n \in Nat \ {0}, NEW h \in 0 .. n - 1, NEW i \in 0 .. n,
         ~(h + i < n)
  PROVE  (h + i) % n = h + i - n
BY SMT

(* The slot that lies i after slot h. *)
LEMMA SlotAfter ==
  ASSUME NEW h \in Slots, NEW i \in 0 .. QueueSize
  PROVE  /\ (h + i) % QueueSize \in Slots
         /\ (h + i) % QueueSize = IF h + i < QueueSize
                                  THEN h + i ELSE h + i - QueueSize
<1>1. QueueSize \in Nat \ {0} /\ h \in 0 .. QueueSize - 1
  BY PoolAssumption DEF Slots
<1>2. (h + i) % QueueSize = IF h + i < QueueSize
                            THEN h + i ELSE h + i - QueueSize
  BY <1>1, ModSmall, ModWrap
<1>3. (IF h + i < QueueSize THEN h + i ELSE h + i - QueueSize)
        \in 0 .. QueueSize - 1
  BY <1>1
<1> QED
  BY <1>2, <1>3 DEF Slots

LEMMA NextSlot ==
  ASSUME NEW h \in Slots
  PROVE  /\ Next1(h) \in Slots
         /\ Next1(h) = IF h + 1 < QueueSize THEN h + 1 ELSE h + 1 - QueueSize
<1>1. 1 \in 0 .. QueueSize
  BY PoolAssumption
<1> QED
  BY <1>1, SlotAfter DEF Next1

(* The tail slot holds none of the jobs of a queue that is not full. *)
LEMMA TailIsFree ==
  ASSUME NEW h \in Slots, NEW c \in 0 .. QueueSize - 1, NEW i \in 1 .. c
  PROVE  (h + i - 1) % QueueSize # (h + c) % QueueSize
<1>1. QueueSize \in Nat \ {0} /\ h \in 0 .. QueueSize - 1
  BY PoolAssumption DEF Slots
<1>2. i - 1 \in 0 .. QueueSize /\ c \in 0 .. QueueSize
  BY <1>1
<1>3. h + i - 1 = h + (i - 1)
  BY <1>1
<1> QED
  BY <1>1, <1>2, <1>3, SlotAfter

(* Seen from the next slot everything is one nearer. *)
LEMMA FromNextSlot ==
  ASSUME NEW h \in Slots, NEW i \in 0 .. QueueSize - 1
  PROVE  (Next1(h) + i) % QueueSize = (h + i + 1) % QueueSize
<1>1. QueueSize \in Nat \ {0} /\ h \in 0 .. QueueSize - 1
  BY PoolAssumption DEF Slots
<1>2. Next1(h) \in Slots /\ Next1(h) \in Int
  BY <1>1, NextSlot DEF Slots
<1>3. i \in 0 .. QueueSize /\ i + 1 \in 0 .. QueueSize
  BY <1>1
<1>4. (Next1(h) + i) % QueueSize
        = IF Next1(h) + i < QueueSize THEN Next1(h) + i
                                      ELSE Next1(h) + i - QueueSize
  BY <1>2, <1>3, SlotAfter
<1>5. (h + (i + 1)) % QueueSize
        = IF h + (i + 1) < QueueSize THEN h + (i + 1)
                                     ELSE h + (i + 1) - QueueSize
  BY <1>3, SlotAfter
<1>6. h + i + 1 = h + (i + 1)
  BY <1>1
<1>7. CASE h + 1 < QueueSize
  BY <1>1, <1>4, <1>5, <1>6, <1>7, NextSlot
<1>8. CASE ~(h + 1 < QueueSize)
  <2>1. h + 1 = QueueSize /\ Next1(h) = 0
    BY <1>1, <1>8, NextSlot
  <2>2. i < QueueSize
    BY <1>1
  <2> QED
    BY <1>1, <1>4, <1>5, <1>6, <2>1, <2>2
<1> QED
  BY <1>7, <1>8

(* The slot after the tail. *)
LEMMA TailMoves ==
  ASSUME NEW h \in Slots, NEW c \in 0 .. QueueSize - 1
  PROVE  Next1((h + c) % QueueSize) = (h + c + 1) % QueueSize
<1>1. QueueSize \in Nat \ {0} /\ h \in 0 .. QueueSize - 1
  BY PoolAssumption DEF Slots
<1>2. c \in 0 .. QueueSize /\ c + 1 \in 0 .. QueueSize
  BY <1>1
<1>3. /\ (h + c) % QueueSize \in Slots
      /\ (h + c) % QueueSize = IF h + c < QueueSize
                               THEN h + c ELSE h + c - QueueSize
  BY <1>2, SlotAfter
<1>4. (h + (c + 1)) % QueueSize
        = IF h + (c + 1) < QueueSize THEN h + (c + 1)
                                     ELSE h + (c + 1) - QueueSize
  BY <1>2, SlotAfter
<1>5. h + c + 1 = h + (c + 1)
  BY <1>1
<1> QED
  BY <1>1, <1>3, <1>4, <1>5, NextSlot

-----------------------------------------------------------------------------
(* The inductive invariant.                                                *)

Ready == {w \in Workers : worker[w] = "ready"}

Stopped == {"aborting", "reaping", "failed", "joining", "joined"}

PoolInv ==
  /\ TypeOK
  /\ tail = (head + count) % QueueSize
  /\ shutdown <=> caller \in Stopped
  /\ MutexFree \/ count = 0
  /\ SleepsOnlyWhenFull
  /\ DrainedBeforeExit
  /\ NoJobAmongSleepers

LEMMA ReadyFinite ==
  ASSUME NEW S \in SUBSET Workers
  PROVE  IsFiniteSet(S) /\ Cardinality(S) \in Nat
BY PoolAssumption, FS_Subset, FS_CardinalityType

LEMMA PoolInit == Init => PoolInv
<1> SUFFICES ASSUME Init PROVE PoolInv
  OBVIOUS
<1>1. QueueSize \in Nat \ {0}
  BY PoolAssumption
<1>2. AnyJob \in Jobs
  BY PoolAssumption DEF AnyJob
<1>3. TypeOK
  <2>1. 0 \in Slots /\ 0 \in 0 .. QueueSize
    BY <1>1 DEF Slots
  <2>2. /\ queue \in [Slots -> Jobs]
        /\ worker \in [Workers -> WorkerStates]
        /\ job \in [Workers -> Jobs]
    BY <1>2 DEF Init, WorkerStates
  <2> QED
    BY <1>2, <2>1, <2>2 DEF Init, TypeOK, CallerStates
<1>4. tail = (head + count) % QueueSize
  <2>1. (0 + 0) % QueueSize = 0
    BY <1>1, ModSmall
  <2> QED
    BY <2>1 DEF Init
<1>5. NoJobAmongSleepers
  BY DEF Init, NoJobAmongSleepers, Sleepers
<1> QED
  BY <1>3, <1>4, <1>5
     DEF Init, PoolInv, Stopped, SleepsOnlyWhenFull, DrainedBeforeExit

LEMMA PoolType ==
  ASSUME TypeOK, [Next]_pool
  PROVE  TypeOK'
<1> USE DEF TypeOK, WorkerStates, CallerStates
<1>q. QueueSize \in Nat \ {0}
  BY PoolAssumption
<1>1. CASE CreateWorker \/ CreateFailed \/ Reap \/ WaitNotFull \/ Join
  BY <1>1 DEF CreateWorker, CreateFailed, Reap, WaitNotFull, Join
<1>2. CASE AbortBroadcast \/ Shutdown
  BY <1>2 DEF AbortBroadcast, Shutdown, WakeAll
<1>3. CASE \E j \in Jobs : AddJob(j)
  BY <1>3 DEF AddJob
<1>4. CASE Enqueue
  BY <1>4, <1>q, NextSlot DEF Enqueue, WakeOne, Sleepers
<1>5. CASE \E w \in Workers : TakeJob(w)
  <2>1. queue[head] \in Jobs
    OBVIOUS
  <2> QED
    BY <1>5, <1>q, <2>1, NextSlot DEF TakeJob, SignalNotFull
<1>6. CASE \E w \in Workers : \/ Check(w) \/ Wait(w) \/ WakeUp(w)
                               \/ FinishJob(w) \/ Exit(w)
  BY <1>6 DEF Check, Wait, WakeUp, FinishJob, Exit
<1>7. CASE UNCHANGED pool
  BY <1>7 DEF pool
<1> QED
  BY <1>1, <1>2, <1>3, <1>4, <1>5, <1>6, <1>7
     DEF Next, Worker, Caller, Asked

(* The number of ready workers when one of them is added or removed. *)
LEMMA OneMoreReady ==
  ASSUME TypeOK, NEW w \in Workers, worker[w] # "ready",
         worker' = [worker EXCEPT ![w] = "ready"]
  PROVE  Cardinality(Ready') = Cardinality(Ready) + 1
<1>1. IsFiniteSet(Ready) /\ w \notin Ready
  BY ReadyFinite DEF Ready
<1>2. Ready' = Ready \cup {w}
  BY DEF Ready, TypeOK
<1> QED
  BY <1>1, <1>2, FS_AddElement

LEMMA OneLessReady ==
  ASSUME TypeOK, NEW w \in Workers, worker[w] = "ready", NEW state,
         state # "ready", worker' = [worker EXCEPT ![w] = state]
  PROVE  Cardinality(Ready') = Cardinality(Ready) - 1
<1>1. IsFiniteSet(Ready) /\ w \in Ready
  BY ReadyFinite DEF Ready
<1>2. Ready' = Ready \ {w}
  BY DEF Ready, TypeOK
<1> QED
  BY <1>1, <1>2, FS_RemoveElement

(* NoJobAmongSleepers, in the words of Ready. *)
LEMMA AwakeEnough ==
  NoJobAmongSleepers <=> (Sleepers = {} \/ count <= Cardinality(Ready))
BY DEF NoJobAmongSleepers, Ready

LEMMA AwakeStep ==
  ASSUME PoolInv, [Next]_pool
  PROVE  NoJobAmongSleepers'
<1> USE DEF PoolInv
<1>c. count \in Nat /\ Cardinality(Ready) \in Nat
  BY PoolAssumption, ReadyFinite DEF TypeOK, Ready
<1>s. SUFFICES (Sleepers = {} \/ count <= Cardinality(Ready))'
  BY DEF NoJobAmongSleepers, Ready
<1>o. Sleepers = {} \/ count <= Cardinality(Ready)
  BY AwakeEnough
<1>1. CASE CreateWorker
  <2>1. PICK w \in Workers : /\ worker[w] = "absent"
                             /\ worker' = [worker EXCEPT ![w] = "ready"]
    BY <1>1 DEF CreateWorker
  <2>2. Cardinality(Ready') = Cardinality(Ready) + 1
    BY <2>1, OneMoreReady
  <2>3. Sleepers' = Sleepers /\ count' = count
    BY <1>1, <2>1 DEF Sleepers, TypeOK, CreateWorker
  <2> QED
    BY <1>c, <1>o, <2>2, <2>3
<1>2. CASE \/ CreateFailed \/ Reap \/ WaitNotFull \/ Join
           \/ (\E j \in Jobs : AddJob(j)) \/ UNCHANGED pool
  <2>1. worker' = worker /\ count' = count
    BY <1>2 DEF CreateFailed, Reap, WaitNotFull, Join, AddJob, pool
  <2> QED
    BY <1>o, <2>1 DEF Sleepers, Ready
<1>3. CASE AbortBroadcast \/ Shutdown
  <2>1. worker' = WakeAll
    BY <1>3 DEF AbortBroadcast, Shutdown
  <2>2. Sleepers' = {}
    BY <2>1 DEF WakeAll, Sleepers
  <2> QED
    BY <2>2
<1>4. CASE Enqueue
  <2>1. count' = count + 1
    BY <1>4 DEF Enqueue
  <2>2. CASE Sleepers = {}
    <3>1. worker' = worker
      BY <1>4, <2>2 DEF Enqueue, WakeOne
    <3> QED
      BY <2>2, <3>1 DEF Sleepers
  <2>3. CASE Sleepers # {}
    <3>1. PICK w \in Sleepers : worker' = [worker EXCEPT ![w] = "ready"]
      BY <1>4, <2>3 DEF Enqueue, WakeOne
    <3>2. w \in Workers /\ worker[w] # "ready"
      BY DEF Sleepers
    <3>3. Cardinality(Ready') = Cardinality(Ready) + 1
      BY <3>1, <3>2, OneMoreReady
    <3> QED
      BY <1>c, <1>o, <2>1, <2>3, <3>3
  <2> QED
    BY <2>2, <2>3
<1>5. CASE \E w \in Workers : WakeUp(w) \/ FinishJob(w)
  <2>1. PICK w \in Workers : WakeUp(w) \/ FinishJob(w)
    BY <1>5
  <2>2. Cardinality(Ready') = Cardinality(Ready) + 1
    BY <2>1, OneMoreReady DEF WakeUp, FinishJob
  <2>3. count' = count /\ Sleepers' \subseteq Sleepers
    BY <2>1 DEF WakeUp, FinishJob, Sleepers, TypeOK
  <2> QED
    BY <1>c, <1>o, <2>2, <2>3
<1>6. CASE \E w \in Workers : TakeJob(w)
  <2>1. PICK w \in Workers : TakeJob(w)
    BY <1>6
  <2>2. Cardinality(Ready') = Cardinality(Ready) - 1
    BY <2>1, OneLessReady DEF TakeJob
  <2>3. count' = count - 1 /\ Sleepers' = Sleepers
    BY <2>1 DEF TakeJob, Sleepers, TypeOK
  <2> QED
    BY <1>c, <1>o, <2>2, <2>3
<1>7. CASE \E w \in Workers : Check(w) \/ Wait(w) \/ Exit(w)
  <2>1. count' = 0
    BY <1>7 DEF Check, Wait, Exit, MutexFree
  <2>2. Cardinality(Ready') \in Nat
    BY ReadyFinite DEF Ready
  <2> QED
    BY <2>1, <2>2
<1> QED
  BY <1>1, <1>2, <1>3, <1>4, <1>5, <1>6, <1>7 DEF Next, Worker, Caller, Asked

LEMMA TailStep ==
  ASSUME PoolInv, [Next]_pool
  PROVE  tail' = (head' + count') % QueueSize
<1> USE DEF PoolInv
<1>q. QueueSize \in Nat \ {0} /\ head \in Nat /\ count \in Nat
  BY PoolAssumption DEF TypeOK, Slots
<1>1. CASE Enqueue
  <2>1. count \in 0 .. QueueSize - 1
    BY <1>1, <1>q DEF TypeOK, Enqueue
  <2>2. Next1((head + count) % QueueSize) = (head + count + 1) % QueueSize
    BY <2>1, TailMoves DEF TypeOK
  <2>3. head + count + 1 = head + (count + 1)
    BY <1>q
  <2> QED
    BY <1>1, <2>2, <2>3 DEF Enqueue
<1>2. CASE \E w \in Workers : TakeJob(w)
  <2>1. head' = Next1(head) /\ count' = count - 1 /\ tail' = tail /\ count > 0
    BY <1>2 DEF TakeJob
  <2>2. count - 1 \in 0 .. QueueSize - 1
    BY <1>q, <2>1 DEF TypeOK
  <2>3. (Next1(head) + (count - 1)) % QueueSize
          = (head + (count - 1) + 1) % QueueSize
    BY <2>2, FromNextSlot DEF TypeOK
  <2>4. head + (count - 1) + 1 = head + count
    BY <1>q
  <2> QED
    BY <2>1, <2>3, <2>4
<1>3. CASE UNCHANGED <<head, tail, count>>
  BY <1>3
<1>4. Enqueue \/ (\E w \in Workers : TakeJob(w)) \/ UNCHANGED <<head, tail, count>>
  BY DEF Next, Worker, Caller, Asked, pool, CreateWorker, CreateFailed,
     AbortBroadcast, Reap, AddJob, WaitNotFull, Check, Wait, WakeUp, FinishJob,
     Exit, Shutdown, Join
<1> QED
  BY <1>1, <1>2, <1>3, <1>4

LEMMA ControlStep ==
  ASSUME PoolInv, [Next]_pool
  PROVE  /\ (shutdown <=> caller \in Stopped)'
         /\ (MutexFree \/ count = 0)'
         /\ SleepsOnlyWhenFull'
         /\ DrainedBeforeExit'
<1> USE DEF PoolInv, Stopped, MutexFree, SleepsOnlyWhenFull, DrainedBeforeExit
<1>q. QueueSize \in Nat \ {0} /\ count \in 0 .. QueueSize
  BY PoolAssumption DEF TypeOK
<1>1. CASE CreateWorker
  <2>1. PICK w \in Workers : worker' = [worker EXCEPT ![w] = "ready"]
    BY <1>1 DEF CreateWorker
  <2>2. \A v \in Workers : worker'[v] \in {worker[v], "ready"}
    BY <2>1 DEF TypeOK
  <2>3. /\ UNCHANGED <<count, shutdown>>
        /\ caller = "creating"
        /\ caller' \in {"idle", "creating"}
    BY <1>1 DEF CreateWorker
  <2> QED
    BY <2>2, <2>3
<1>2. CASE CreateFailed \/ Reap \/ Join
  BY <1>2 DEF CreateFailed, Reap, Join
<1>3. CASE AbortBroadcast \/ Shutdown
  BY <1>3 DEF TypeOK, AbortBroadcast, Shutdown, WakeAll, Sleepers
<1>4. CASE (\E j \in Jobs : AddJob(j)) \/ UNCHANGED pool
  BY <1>4 DEF AddJob, pool
<1>5. CASE WaitNotFull
  BY <1>5, <1>q DEF WaitNotFull
<1>6. CASE Enqueue
  <2>1. \A w \in Workers : worker'[w] \in {worker[w], "ready"}
    BY <1>6 DEF Enqueue, WakeOne, Sleepers, TypeOK
  <2>2. ~shutdown /\ \A w \in Workers : worker[w] \notin {"checked", "exited"}
    BY <1>6 DEF Enqueue
  <2> QED
    BY <1>6, <2>1, <2>2 DEF Enqueue
<1>7. CASE \E w \in Workers : TakeJob(w)
  <2>1. PICK w \in Workers : TakeJob(w)
    BY <1>7
  <2>2. \A v \in Workers : worker'[v] \in {worker[v], "handling"}
    BY <2>1 DEF TakeJob, SignalNotFull, TypeOK
  <2>3. \A v \in Workers : worker[v] \notin {"checked", "exited"}
    BY <2>1, <1>q DEF TakeJob
  <2>4. shutdown' = shutdown
        /\ caller' = IF caller = "waiting" THEN "adding" ELSE caller
    BY <2>1 DEF TakeJob, SignalNotFull
  <2> QED
    BY <2>2, <2>3, <2>4
<1>8. CASE \E w \in Workers : \/ Check(w) \/ Wait(w) \/ WakeUp(w)
                               \/ FinishJob(w) \/ Exit(w)
  <2>1. PICK w \in Workers : \/ Check(w) \/ Wait(w) \/ WakeUp(w)
                             \/ FinishJob(w) \/ Exit(w)
    BY <1>8
  <2>2. UNCHANGED <<count, shutdown, caller>>
    BY <2>1 DEF Check, Wait, WakeUp, FinishJob, Exit
  <2>3. CASE Check(w)
    BY <2>2, <2>3 DEF Check, TypeOK
  <2>4. CASE Wait(w) \/ WakeUp(w) \/ FinishJob(w)
    BY <2>2, <2>4 DEF Wait, WakeUp, FinishJob, TypeOK
  <2>5. CASE Exit(w)
    BY <2>2, <2>5 DEF Exit, TypeOK
  <2> QED
    BY <2>1, <2>3, <2>4, <2>5
<1> QED
  BY <1>1, <1>2, <1>3, <1>4, <1>5, <1>6, <1>7, <1>8
     DEF Next, Worker, Caller, Asked

LEMMA PoolStep == PoolInv /\ [Next]_pool => PoolInv'
BY PoolType, TailStep, ControlStep, AwakeStep DEF PoolInv

LEMMA PoolInvariant == Spec => []PoolInv
BY PoolInit, PoolStep, PTL DEF Spec

(* The indices stay inside the array and count never exceeds its size.     *)
THEOREM PoolTypes == Spec => []TypeOK
BY PoolInvariant, PTL DEF PoolInv

(* One signal for each job added is enough: as long as some worker sleeps, *)
(* every job in the queue has an awake worker of its own.                  *)
THEOREM OneSignalIsEnough == Spec => []NoJobAmongSleepers
BY PoolInvariant, PTL DEF PoolInv

(* The main thread sleeps on not_full only while the queue is full.        *)
THEOREM SleepsWhenFull == Spec => []SleepsOnlyWhenFull
BY PoolInvariant, PTL DEF PoolInv

(* Workers leave a pool that is shut down, and leave no job behind.        *)
THEOREM PoolDrained == Spec => []DrainedBeforeExit
BY PoolInvariant, PTL DEF PoolInv

-----------------------------------------------------------------------------
(* Refinement: the circular array is the abstract queue.                   *)

LEMMA PendingInit == Init => Queue!Init
<1> SUFFICES ASSUME Init PROVE Queue!Init
  OBVIOUS
<1>1. Pending = <<>>
  BY DEF Init, Pending
<1> QED
  BY <1>1 DEF Init, Queue!Init

(* The jobs in an array q with c jobs from slot h on. *)
LEMMA ArrayType ==
  ASSUME NEW q \in [Slots -> Jobs], NEW h \in Slots, NEW c \in 0 .. QueueSize
  PROVE  /\ [i \in 1 .. c |-> q[(h + i - 1) % QueueSize]] \in Seq(Jobs)
         /\ Len([i \in 1 .. c |-> q[(h + i - 1) % QueueSize]]) = c
<1>1. /\ QueueSize \in Nat \ {0}
      /\ h \in 0 .. QueueSize - 1
      /\ c \in Nat
  BY PoolAssumption DEF Slots
<1>2. ASSUME NEW i \in 1 .. c
      PROVE  q[(h + i - 1) % QueueSize] \in Jobs
  <2>1. i - 1 \in 0 .. QueueSize /\ h + i - 1 = h + (i - 1)
    BY <1>1
  <2>2. (h + i - 1) % QueueSize \in Slots
    BY <2>1, SlotAfter
  <2> QED
    BY <2>2
<1> QED
  BY <1>1, <1>2

LEMMA PendingType ==
  ASSUME TypeOK
  PROVE  Pending \in Seq(Jobs) /\ Len(Pending) = count
BY ArrayType DEF Pending, TypeOK

LEMMA PendingTypeNext ==
  ASSUME TypeOK'
  PROVE  Pending' \in Seq(Jobs) /\ Len(Pending') = count'
BY ArrayType DEF Pending, TypeOK

LEMMA EnqueuePuts ==
  ASSUME PoolInv, Enqueue
  PROVE  Queue!Put(request)
<1> USE DEF PoolInv
<1>1. QueueSize \in Nat \ {0} /\ count \in 0 .. QueueSize - 1
  BY PoolAssumption DEF TypeOK, Enqueue
<1>2. head' = head /\ count' = count + 1
      /\ queue' = [queue EXCEPT ![tail] = request]
  BY DEF Enqueue
<1>3. ASSUME NEW i \in 1 .. count
      PROVE  Pending'[i] = Pending[i]
  <2>1. (head + i - 1) % QueueSize # tail
    BY <1>1, TailIsFree DEF TypeOK
  <2>2. i \in 1 .. count'
    BY <1>1, <1>2
  <2> QED
    BY <1>2, <2>1, <2>2 DEF Pending, TypeOK
<1>4. Pending'[count + 1] = request
  <2>1. head + (count + 1) - 1 = head + count /\ count + 1 \in 1 .. count'
    BY <1>1, <1>2 DEF TypeOK, Slots
  <2>2. tail \in Slots /\ tail = (head + count) % QueueSize
    BY DEF TypeOK
  <2> QED
    BY <1>2, <2>1, <2>2 DEF Pending, TypeOK
<1>5. Pending' = Append(Pending, request)
  <2>1. Pending \in Seq(Jobs) /\ Len(Pending) = count
    BY PendingType
  <2>2. Pending' \in Seq(Jobs) /\ Len(Pending') = count + 1
    <3>1. TypeOK'
      BY PoolType DEF Next, Caller
    <3> QED
      BY <1>2, <3>1, PendingTypeNext
  <2>3. /\ Append(Pending, request) \in Seq(Jobs)
        /\ Len(Append(Pending, request)) = count + 1
        /\ \A i \in 1 .. count : Append(Pending, request)[i] = Pending[i]
        /\ Append(Pending, request)[count + 1] = request
    BY <2>1, AppendProperties DEF TypeOK
  <2>4. \A i \in 1 .. count + 1 : Pending'[i] = Append(Pending, request)[i]
    BY <1>1, <1>3, <1>4, <2>3
  <2> QED
    BY <2>2, <2>3, <2>4, SeqEqual
<1> QED
  BY <1>1, <1>5, PendingType DEF Queue!Put, Enqueue, Stopped

LEMMA TakeTakes ==
  ASSUME PoolInv, NEW w \in Workers, TakeJob(w)
  PROVE  Queue!Take(w)
<1> USE DEF PoolInv
<1>1. QueueSize \in Nat \ {0} /\ count \in 1 .. QueueSize
      /\ head \in 0 .. QueueSize - 1
  BY PoolAssumption DEF TypeOK, TakeJob, Slots
<1>2. head' = Next1(head) /\ count' = count - 1 /\ queue' = queue
  BY DEF TakeJob
<1>3. ASSUME NEW i \in 1 .. count - 1
      PROVE  Pending'[i] = Pending[i + 1]
  <2>1. i - 1 \in 0 .. QueueSize - 1
    BY <1>1
  <2>2. (Next1(head) + (i - 1)) % QueueSize = (head + (i - 1) + 1) % QueueSize
    BY <2>1, FromNextSlot DEF TypeOK
  <2>3. Next1(head) \in Int
    BY NextSlot DEF TypeOK, Slots
  <2>4. Next1(head) + (i - 1) = Next1(head) + i - 1
        /\ head + (i - 1) + 1 = head + (i + 1) - 1
    BY <1>1, <2>3
  <2>5. i \in 1 .. count' /\ i + 1 \in 1 .. count
    BY <1>1, <1>2
  <2> QED
    BY <1>2, <2>2, <2>4, <2>5 DEF Pending
<1>4. Pending[1] = queue[head]
  <2>1. head + 1 - 1 = head + 0 /\ 0 \in 0 .. QueueSize
    BY <1>1
  <2>2. (head + 0) % QueueSize = head
    BY <1>1, <2>1, SlotAfter DEF TypeOK
  <2> QED
    BY <1>1, <2>1, <2>2 DEF Pending
<1>5. Pending \in Seq(Jobs) /\ Len(Pending) = count /\ Pending # <<>>
  BY <1>1, PendingType, EmptySeq
<1>6. Pending' = Tail(Pending)
  <2>1. Pending' \in Seq(Jobs) /\ Len(Pending') = count - 1
    <3>1. TypeOK'
      BY PoolType DEF Next, Worker
    <3> QED
      BY <1>2, <3>1, PendingTypeNext
  <2>2. /\ Tail(Pending) \in Seq(Jobs)
        /\ Len(Tail(Pending)) = count - 1
        /\ \A i \in 1 .. count - 1 : Tail(Pending)[i] = Pending[i + 1]
    BY <1>5, HeadTailProperties
  <2>3. \A i \in 1 .. count - 1 : Pending'[i] = Tail(Pending)[i]
    BY <1>3, <2>2
  <2> QED
    BY <2>1, <2>2, <2>3, SeqEqual
<1>7. Head(Pending) = queue[head]
  BY <1>4, <1>5
<1> QED
  BY <1>5, <1>6, <1>7 DEF Queue!Take, TakeJob

(* Steps that leave the queue alone leave the abstract queue alone, or     *)
(* close it.                                                               *)
LEMMA OtherSteps ==
  ASSUME UNCHANGED <<queue, head, count, job>>,
         shutdown' \in {shutdown, TRUE}, shutdown \in BOOLEAN
  PROVE  Queue!Close \/ UNCHANGED <<Pending, job, shutdown>>
<1>1. Pending' = Pending
  BY DEF Pending
<1> QED
  BY <1>1 DEF Queue!Close

LEMMA PendingStep ==
  ASSUME PoolInv, [Next]_pool
  PROVE  [Queue!Next]_<<Pending, job, shutdown>>
<1>1. CASE Enqueue
  BY <1>1, EnqueuePuts DEF Queue!Next, PoolInv, TypeOK
<1>2. CASE \E w \in Workers : TakeJob(w)
  BY <1>2, TakeTakes DEF Queue!Next
<1>3. CASE \/ (\E w \in Workers : \/ Check(w) \/ Wait(w) \/ WakeUp(w)
                                 \/ FinishJob(w) \/ Exit(w))
           \/ CreateWorker \/ CreateFailed \/ AbortBroadcast \/ Reap
           \/ WaitNotFull \/ Join \/ Shutdown \/ (\E j \in Jobs : AddJob(j))
           \/ UNCHANGED pool
  <2>1. /\ UNCHANGED <<queue, head, count, job>>
        /\ shutdown' \in {shutdown, TRUE}
    BY <1>3 DEF Check, Wait, WakeUp, FinishJob, Exit, CreateWorker,
       CreateFailed, AbortBroadcast, Reap, WaitNotFull, Join, Shutdown, AddJob,
       pool
  <2> QED
    BY <2>1, OtherSteps DEF Queue!Next, PoolInv, TypeOK
<1> QED
  BY <1>1, <1>2, <1>3 DEF Next, Worker, Caller, Asked

(* Whatever the order the threads run in, the circular array behaves as a  *)
(* bounded FIFO queue: no job is lost, duplicated, overwritten or          *)
(* overtaken, and none is accepted after shutdown.                         *)
THEOREM PoolImplementsQueue == Spec => ImplementsQueue
BY PendingInit, PendingStep, PoolInvariant, PTL
   DEF Spec, ImplementsQueue, Queue!Spec
=============================================================================
