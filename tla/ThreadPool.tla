----------------------------- MODULE ThreadPool -----------------------------
(***************************************************************************)
(* The thread pool (thread_pool.c): one main thread that creates the       *)
(* workers, adds jobs to a circular queue and at last shuts the pool down, *)
(* and the workers that take the jobs.  The queue is protected by one      *)
(* mutex with two condition variables.  A critical section is one action,  *)
(* except where a thread reads a flag that is also written without the     *)
(* mutex: there the test of the flag and the wait are two.                 *)
(***************************************************************************)
EXTENDS Integers, Sequences, FiniteSets

CONSTANTS
  Workers,       \* the threads of the pool (NUM_WORKER_THREADS)
  Jobs,          \* what the main thread may add
  QueueSize,     \* MAX_QUEUE_SIZE
  CreateFails    \* TRUE iff pthread_create may fail

ASSUME PoolAssumption ==
  /\ Workers # {}
  /\ IsFiniteSet(Workers)
  /\ Jobs # {}
  /\ QueueSize \in Nat \ {0}
  /\ CreateFails \in BOOLEAN

VARIABLES
  queue, head, tail, count,   \* the fields of JobQueue
  shutdown,
  worker,     \* what each worker thread does
  job,        \* the local variable job of each worker
  caller,     \* where the main thread is inside the pool's functions
  request     \* the job it is adding

pool == <<queue, head, tail, count, shutdown, worker, job, caller, request>>

Slots == 0 .. QueueSize - 1
AnyJob == CHOOSE j \in Jobs : TRUE

(* absent: not created.  ready: about to lock the mutex, for the first     *)
(* time or after a wait.  checked: holds the mutex and found no job and no *)
(* shutdown.  waiting: in pthread_cond_wait(not_empty).  handling: in      *)
(* handle_client_request.                                                  *)
WorkerStates == {"absent", "ready", "checked", "waiting", "handling", "exited"}

(* creating, aborting, reaping and failed belong to thread_pool_init,      *)
(* adding and waiting (for not_full) to thread_pool_add_job, joining and   *)
(* joined to thread_pool_shutdown; in idle the main thread is elsewhere.   *)
CallerStates == {"creating", "aborting", "reaping", "failed", "idle", "adding",
                 "waiting", "joining", "joined"}

(* The workers that a signal or a broadcast of not_empty may wake. *)
Sleepers == {w \in Workers : worker[w] = "waiting"}

MutexFree == \A w \in Workers : worker[w] # "checked"

(* Mutant of Next1: the index does not wrap around. *)
NextNoWrap(i) == i + 1

Next1(i) == (i + 1) % QueueSize

-----------------------------------------------------------------------------
(* thread_pool_init *)

CreateWorker ==
  /\ caller = "creating"
  /\ \E w \in Workers :
       /\ worker[w] = "absent"
       /\ worker' = [worker EXCEPT ![w] = "ready"]
       /\ caller' = IF Cardinality({v \in Workers : worker[v] = "absent"}) = 1
                    THEN "idle" ELSE "creating"
  /\ UNCHANGED <<queue, head, tail, count, shutdown, job, request>>

(* pthread_create fails: the flag is set without the mutex, ...            *)
CreateFailed ==
  /\ CreateFails
  /\ caller = "creating"
  /\ shutdown' = TRUE
  /\ caller' = "aborting"
  /\ UNCHANGED <<queue, head, tail, count, worker, job, request>>

(* Mutant of WakeAll: no broadcast. *)
WakeNobody == worker

WakeAll == [w \in Workers |-> IF w \in Sleepers THEN "ready" ELSE worker[w]]

(* ... then the workers that wait by now are woken ...                     *)
AbortBroadcast ==
  /\ caller = "aborting"
  /\ worker' = WakeAll
  /\ caller' = "reaping"
  /\ UNCHANGED <<queue, head, tail, count, shutdown, job, request>>

(* ... and joined. *)
Reap ==
  /\ caller = "reaping"
  /\ \A w \in Workers : worker[w] \in {"absent", "exited"}
  /\ caller' = "failed"
  /\ UNCHANGED <<queue, head, tail, count, shutdown, worker, job, request>>

-----------------------------------------------------------------------------
(* thread_pool_add_job.  Nobody but the main thread calls it, and not once *)
(* it has called thread_pool_shutdown: its path for a pool that is being   *)
(* shut down is never taken.                                               *)

AddJob(j) ==
  /\ caller = "idle"
  /\ caller' = "adding"
  /\ request' = j
  /\ UNCHANGED <<queue, head, tail, count, shutdown, worker, job>>

WaitNotFull ==
  /\ caller = "adding"
  /\ MutexFree
  /\ count >= QueueSize
  /\ caller' = "waiting"
  /\ UNCHANGED <<queue, head, tail, count, shutdown, worker, job, request>>

(* Mutant of WakeOne: no signal. *)
WakeNone == UNCHANGED worker

(* pthread_cond_signal(not_empty) wakes one of the waiting workers. *)
WakeOne ==
  \/ /\ Sleepers = {}
     /\ UNCHANGED worker
  \/ \E w \in Sleepers : worker' = [worker EXCEPT ![w] = "ready"]

Enqueue ==
  /\ caller = "adding"
  /\ MutexFree
  /\ count < QueueSize
  /\ queue' = [queue EXCEPT ![tail] = request]
  /\ tail' = Next1(tail)
  /\ count' = count + 1
  /\ WakeOne
  /\ caller' = "idle"
  /\ UNCHANGED <<head, shutdown, job, request>>

-----------------------------------------------------------------------------
(* worker_thread *)

(* The queue is empty and shutdown is not set: the worker is going to wait,*)
Check(w) ==
  /\ worker[w] = "ready"
  /\ MutexFree
  /\ count = 0
  /\ ~shutdown
  /\ worker' = [worker EXCEPT ![w] = "checked"]
  /\ UNCHANGED <<queue, head, tail, count, shutdown, job, caller, request>>

(* and waits, which releases the mutex. *)
Wait(w) ==
  /\ worker[w] = "checked"
  /\ worker' = [worker EXCEPT ![w] = "waiting"]
  /\ UNCHANGED <<queue, head, tail, count, shutdown, job, caller, request>>

(* A spurious wakeup, which POSIX permits and the loop provides for. *)
WakeUp(w) ==
  /\ worker[w] = "waiting"
  /\ worker' = [worker EXCEPT ![w] = "ready"]
  /\ UNCHANGED <<queue, head, tail, count, shutdown, job, caller, request>>

(* Mutant of SignalNotFull: no signal. *)
SignalNobody == caller

(* pthread_cond_signal(not_full): only the main thread can be waiting. *)
SignalNotFull == IF caller = "waiting" THEN "adding" ELSE caller

(* Mutant of TakeJob: head stays where it was. *)
TakeJobAgain(w) ==
  /\ worker[w] = "ready"
  /\ MutexFree
  /\ count > 0
  /\ job' = [job EXCEPT ![w] = queue[head]]
  /\ count' = count - 1
  /\ worker' = [worker EXCEPT ![w] = "handling"]
  /\ caller' = SignalNotFull
  /\ UNCHANGED <<queue, head, tail, shutdown, request>>

TakeJob(w) ==
  /\ worker[w] = "ready"
  /\ MutexFree
  /\ count > 0
  /\ job' = [job EXCEPT ![w] = queue[head]]
  /\ head' = Next1(head)
  /\ count' = count - 1
  /\ worker' = [worker EXCEPT ![w] = "handling"]
  /\ caller' = SignalNotFull
  /\ UNCHANGED <<queue, tail, shutdown, request>>

(* handle_client_request has returned. *)
FinishJob(w) ==
  /\ worker[w] = "handling"
  /\ worker' = [worker EXCEPT ![w] = "ready"]
  /\ UNCHANGED <<queue, head, tail, count, shutdown, job, caller, request>>

(* Mutant of Exit: shutdown is enough. *)
ExitAtOnce(w) ==
  /\ worker[w] = "ready"
  /\ MutexFree
  /\ shutdown
  /\ worker' = [worker EXCEPT ![w] = "exited"]
  /\ UNCHANGED <<queue, head, tail, count, shutdown, job, caller, request>>

Exit(w) ==
  /\ worker[w] = "ready"
  /\ MutexFree
  /\ shutdown
  /\ count = 0
  /\ worker' = [worker EXCEPT ![w] = "exited"]
  /\ UNCHANGED <<queue, head, tail, count, shutdown, job, caller, request>>

-----------------------------------------------------------------------------
(* thread_pool_shutdown *)

Shutdown ==
  /\ caller = "idle"
  /\ MutexFree
  /\ shutdown' = TRUE
  /\ worker' = WakeAll
  /\ caller' = "joining"
  /\ UNCHANGED <<queue, head, tail, count, job, request>>

Join ==
  /\ caller = "joining"
  /\ \A w \in Workers : worker[w] = "exited"
  /\ caller' = "joined"
  /\ UNCHANGED <<queue, head, tail, count, shutdown, worker, job, request>>

-----------------------------------------------------------------------------
Init ==
  /\ queue = [i \in Slots |-> AnyJob]
  /\ head = 0
  /\ tail = 0
  /\ count = 0
  /\ shutdown = FALSE
  /\ worker = [w \in Workers |-> "absent"]
  /\ job = [w \in Workers |-> AnyJob]
  /\ caller = "creating"
  /\ request = AnyJob

(* What the pool's code does by itself, and what is asked of it. *)
Worker(w) == Check(w) \/ Wait(w) \/ TakeJob(w) \/ FinishJob(w) \/ Exit(w)
Caller == CreateWorker \/ AbortBroadcast \/ Reap \/ WaitNotFull \/ Enqueue \/ Join
Asked == (\E j \in Jobs : AddJob(j)) \/ Shutdown \/ CreateFailed

Next == (\E w \in Workers : Worker(w) \/ WakeUp(w)) \/ Caller \/ Asked

Spec == Init /\ [][Next]_pool

(* Every thread that can run is scheduled, handlers return, and a thread   *)
(* that finds the mutex free again and again locks it in the end (strong   *)
(* fairness: others may lock it in between).  Nothing promises a spurious  *)
(* wakeup, another job or a shutdown.                                      *)
Fairness == SF_pool(Caller) /\ \A w \in Workers : SF_pool(Worker(w))

FairSpec == Spec /\ Fairness

-----------------------------------------------------------------------------
(* Properties *)

(* The fields of the queue and the threads' states keep their ranges; the  *)
(* indices never leave the array and count never exceeds its size.         *)
TypeOK ==
  /\ queue \in [Slots -> Jobs]
  /\ head \in Slots
  /\ tail \in Slots
  /\ count \in 0 .. QueueSize
  /\ shutdown \in BOOLEAN
  /\ worker \in [Workers -> WorkerStates]
  /\ job \in [Workers -> Jobs]
  /\ caller \in CallerStates
  /\ request \in Jobs

(* The jobs in the circular array, oldest first. *)
Pending == [i \in 1 .. count |-> queue[(head + i - 1) % QueueSize]]

Queue == INSTANCE JobQueue WITH Bound   <- QueueSize,
                                pending <- Pending,
                                taken   <- job,
                                closed  <- shutdown

(* The circular array is a bounded FIFO queue: no job is lost, duplicated, *)
(* overwritten or overtaken, whatever the order the threads run in.        *)
ImplementsQueue == Queue!Spec

(* Every job in the queue has an awake worker of its own to take it, unless*)
(* no worker sleeps: one signal per job, given before the mutex is         *)
(* released, is enough although the woken worker may find its job gone.    *)
NoJobAmongSleepers ==
  Sleepers # {} =>
    count <= Cardinality({w \in Workers : worker[w] = "ready"})

(* The main thread sleeps only while the queue is full: one signal per job *)
(* taken is enough for the only thread that waits for room.                *)
SleepsOnlyWhenFull == caller = "waiting" => count = QueueSize

(* A worker leaves only an empty queue, and a pool that is joined has no   *)
(* job left: shutdown drains what was accepted.                            *)
DrainedBeforeExit ==
  (\E w \in Workers : worker[w] = "exited") => shutdown /\ count = 0

(* thread_pool_shutdown returns: the broadcast reaches every worker, even  *)
(* one that was about to wait.                                             *)
ShutdownReturns == caller = "joining" ~> caller = "joined"

(* A job that is being added is accepted, and the queue drains: the main   *)
(* thread is never left waiting for room.                                  *)
JobAccepted == caller \in {"adding", "waiting"} ~> caller = "idle"
=============================================================================
