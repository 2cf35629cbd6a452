------------------------------- MODULE ThPool -------------------------------
(***************************************************************************)
(* The mutex-locked thread pool of src/src/threads/thpool.c.               *)
(*                                                                         *)
(* Background workers run _thpool_worker; client threads call the API.     *)
(* Everything under pool->lock is protected by the mutex; hold, shutdown   *)
(* and running_count are also touched without it.  A step is the longest   *)
(* stretch of code with at most one access to an unprotected variable, so  *)
(* a critical section is one step when it makes one such access and two    *)
(* steps, with the mutex held in between, when it makes two.               *)
(*                                                                         *)
(* A thread blocked in pthread_cond_wait is one whose pc is the name of    *)
(* the condition variable.                                                 *)
(***************************************************************************)
EXTENDS Integers, Sequences, FiniteSets

CONSTANTS
  Workers,    (* the threads created by thpool_create                        *)
  Clients,    (* the threads that call the API                               *)
  Tasks,      (* identities of (function, argument) pairs, each added once   *)
  QueueSize,  (* queue_size of thpool_create                                 *)
  MaxTry,     (* the max_try every thpool_add_task_try call passes           *)
  Calls,      (* which API functions each client may call                    *)
  None        (* no thread, no task                                          *)

Threads == Workers \cup Clients

ApiNames ==
  {"add_task", "add_task_try", "pause", "resume", "wait", "try_once", "shutdown"}

ASSUME ThPoolAssumption ==
  /\ IsFiniteSet(Workers) /\ Workers # {}
  /\ IsFiniteSet(Clients)
  /\ Workers \cap Clients = {}
  /\ QueueSize \in Nat \ {0}
  /\ MaxTry \in Nat
  /\ Calls \in [Clients -> SUBSET ApiNames]
  /\ None \notin Tasks \cup Threads

VARIABLES
  lock,           (* holder of pool->lock between two steps, or None         *)
  hold,           (* pool->hold                                              *)
  shutdown,       (* pool->shutdown                                          *)
  running_count,  (* pool->running_count                                     *)
  task_queue,     (* pool->task_queue, the ring                              *)
  head, tail,     (* pool->head, pool->tail                                  *)
  queue_count,    (* pool->queue_count                                       *)
  pc,             (* where each thread is                                    *)
  task,           (* the local variable task of each thread                  *)
  max_try,        (* the local variable max_try of thpool_add_task_try       *)
  done,           (* history: the tasks whose function returned              *)
  parked,         (* history: the tasks added while the pool was on hold     *)
  due             (* history: the tasks accepted when shutdown was called    *)

poolVars == <<lock, hold, shutdown, running_count>>
queueVars == <<task_queue, head, tail, queue_count>>
history == <<done, parked, due>>
dataVars == <<poolVars, queueVars, task, max_try, history>>
vars == <<pc, dataVars>>

WorkerPC == {"top", "empty", "take", "notify", "run", "dec", "exited"}
ClientPC == {"idle", "try", "resume", "wait", "notify_empty", "run", "dec",
             "broadcast", "join"}
Slots == 0..(QueueSize - 1)

TypeOK ==
  /\ lock \in Workers \cup {None}
  /\ hold \in BOOLEAN
  /\ shutdown \in BOOLEAN
  /\ running_count \in Int
  /\ task_queue \in [Slots -> Tasks \cup {None}]
  /\ head \in Slots
  /\ tail \in Slots
  /\ queue_count \in 0..QueueSize
  /\ pc \in [Threads -> WorkerPC \cup ClientPC]
  /\ \A w \in Workers : pc[w] \in WorkerPC
  /\ \A c \in Clients : pc[c] \in ClientPC
  /\ task \in [Threads -> Tasks \cup {None}]
  /\ max_try \in [Clients -> -1..MaxTry]
  /\ done \subseteq Tasks
  /\ parked \subseteq Tasks
  /\ due \subseteq Tasks

(* thpool_create: an empty ring, no flag set, every worker at the top of its loop. *)
Init ==
  /\ lock = None
  /\ hold = FALSE
  /\ shutdown = FALSE
  /\ running_count = 0
  /\ task_queue = [s \in Slots |-> None]
  /\ head = 0
  /\ tail = 0
  /\ queue_count = 0
  /\ pc = [p \in Threads |-> IF p \in Workers THEN "top" ELSE "idle"]
  /\ task = [p \in Threads |-> None]
  /\ max_try = [c \in Clients |-> MaxTry]
  /\ done = {}
  /\ parked = {}
  /\ due = {}

-----------------------------------------------------------------------------
(* The tasks the pool knows of. *)

QueueSeq == [i \in 1..queue_count |-> task_queue[(head + i - 1) % QueueSize]]
Queued == {QueueSeq[i] : i \in 1..queue_count}
Executing == {p \in Threads : pc[p] = "run"}
InHand == {task[p] : p \in Executing}
Accepted == Queued \cup InHand \cup done

(* A client adds each task once, so that it can be told apart from the others. *)
Fresh(t) == t \notin Accepted /\ \A p \in Threads : task[p] # t

-----------------------------------------------------------------------------
(* pthread primitives *)

Unlocked == lock = None

(* pthread_cond_signal: of the threads blocked on the condition variable cv  *)
(* one goes on at label next; with none blocked the signal is lost.  p is    *)
(* the pc the caller would leave behind.                                     *)
Signal(cv, next, p) ==
  LET blocked == {x \in Threads : p[x] = cv}
  IN  \/ /\ blocked = {}
         /\ pc' = p
      \/ \E x \in blocked : pc' = [p EXCEPT ![x] = next]

(* pthread_cond_broadcast: every thread blocked on cv goes on. *)
Broadcast(cv, next, p) ==
  pc' = [x \in Threads |-> IF p[x] = cv THEN next ELSE p[x]]

(* pthread_cond_wait may return without a signal. *)
SpuriousWakeup(p) ==
  /\ \/ pc[p] = "notify" /\ pc' = [pc EXCEPT ![p] = "top"]
     \/ pc[p] = "notify_empty" /\ pc' = [pc EXCEPT ![p] = "wait"]
  /\ UNCHANGED dataVars

-----------------------------------------------------------------------------
(* Ring operations, executed with the mutex held. *)

(* Add the task at the tail. *)
Insert(t) ==
  /\ task_queue' = [task_queue EXCEPT ![tail] = t]
  /\ tail' = (tail + 1) % QueueSize
  /\ queue_count' = queue_count + 1
  /\ parked' = IF hold THEN parked \cup {t} ELSE parked
  /\ UNCHANGED head

(* Mutants: nobody is told of the new task; only that of an empty queue is told. *)
EnqueueSilently(t, p) == Insert(t) /\ pc' = p
EnqueueSignalsFirst(t, p) ==
  Insert(t) /\ IF queue_count = 0 THEN Signal("notify", "top", p) ELSE pc' = p

(* Add the task and signal notify. *)
Enqueue(t, p) == Insert(t) /\ Signal("notify", "top", p)

(* Mutant: the head is advanced before the task is copied out. *)
DequeueAdvancesFirst(p) ==
  /\ running_count' = running_count + 1
  /\ task' = [task EXCEPT ![p] = task_queue[(head + 1) % QueueSize]]
  /\ head' = (head + 1) % QueueSize
  /\ queue_count' = queue_count - 1
  /\ UNCHANGED <<task_queue, tail>>

(* Count the thread as active and copy the task at the head out. *)
Dequeue(p) ==
  /\ running_count' = running_count + 1
  /\ task' = [task EXCEPT ![p] = task_queue[head]]
  /\ head' = (head + 1) % QueueSize
  /\ queue_count' = queue_count - 1
  /\ UNCHANGED <<task_queue, tail>>

(* Execute the task; its function returns. *)
Execute(p) ==
  /\ pc[p] = "run"
  /\ done' = done \cup {task[p]}
  /\ task' = [task EXCEPT ![p] = None]
  /\ pc' = [pc EXCEPT ![p] = "dec"]
  /\ UNCHANGED <<poolVars, queueVars, max_try, parked, due>>

(* Mutant: only workers count themselves off. *)
ReleaseOfWorkers(p) ==
  /\ pc[p] = "dec"
  /\ running_count' = IF p \in Workers THEN running_count - 1 ELSE running_count
  /\ pc' = [pc EXCEPT ![p] = IF p \in Workers THEN "top" ELSE "idle"]
  /\ UNCHANGED <<lock, hold, shutdown, queueVars, task, max_try, history>>

(* Decrement the active tasks count, outside the mutex. *)
Release(p) ==
  /\ pc[p] = "dec"
  /\ running_count' = running_count - 1
  /\ pc' = [pc EXCEPT ![p] = IF p \in Workers THEN "top" ELSE "idle"]
  /\ UNCHANGED <<lock, hold, shutdown, queueVars, task, max_try, history>>

-----------------------------------------------------------------------------
(* _thpool_worker *)

(* Mutant: notify_empty is signalled when the last task is about to end. *)
WorkerSignalsEarly(w) ==
  /\ pc[w] = "top"
  /\ Unlocked
  /\ queue_count = 0
  /\ lock' = w
  /\ IF running_count = 1
     THEN Signal("notify_empty", "wait", [pc EXCEPT ![w] = "empty"])
     ELSE pc' = [pc EXCEPT ![w] = "empty"]
  /\ UNCHANGED <<hold, shutdown, running_count, queueVars, task, max_try, history>>

(* Lock; the queue is empty.  With no active task, signal notify_empty. *)
WorkerFindsEmpty(w) ==
  /\ pc[w] = "top"
  /\ Unlocked
  /\ queue_count = 0
  /\ lock' = w
  /\ IF running_count = 0
     THEN Signal("notify_empty", "wait", [pc EXCEPT ![w] = "empty"])
     ELSE pc' = [pc EXCEPT ![w] = "empty"]
  /\ UNCHANGED <<hold, shutdown, running_count, queueVars, task, max_try, history>>

(* Still in that critical section: leave when shut down, else wait on notify. *)
WorkerChecksShutdown(w) ==
  /\ pc[w] = "empty"
  /\ lock' = None
  /\ pc' = [pc EXCEPT ![w] = IF shutdown THEN "exited" ELSE "notify"]
  /\ UNCHANGED <<hold, shutdown, running_count, queueVars, task, max_try, history>>

(* Mutant: hold is read before the mutex is locked. *)
WorkerReadsHoldFirst(w) ==
  /\ pc[w] = "top"
  /\ Unlocked
  /\ queue_count # 0
  /\ ~hold
  /\ pc' = [pc EXCEPT ![w] = "take"]
  /\ UNCHANGED dataVars

(* Mutant: shutdown is tested before the queue. *)
WorkerLeavesTasks(w) ==
  /\ pc[w] = "top"
  /\ Unlocked
  /\ queue_count # 0
  /\ IF shutdown
     THEN /\ pc' = [pc EXCEPT ![w] = "exited"]
          /\ UNCHANGED lock
     ELSE /\ ~hold
          /\ lock' = w
          /\ pc' = [pc EXCEPT ![w] = "take"]
  /\ UNCHANGED <<hold, shutdown, running_count, queueVars, task, max_try, history>>

(* Lock; the queue holds tasks.  When on hold unlock, sleep(1) and start over. *)
WorkerChecksHold(w) ==
  /\ pc[w] = "top"
  /\ Unlocked
  /\ queue_count # 0
  /\ IF hold
     THEN UNCHANGED <<lock, pc>>
     ELSE /\ lock' = w
          /\ pc' = [pc EXCEPT ![w] = "take"]
  /\ UNCHANGED <<hold, shutdown, running_count, queueVars, task, max_try, history>>

(* Still in that critical section: take the task at the head and unlock. *)
WorkerTakes(w) ==
  /\ pc[w] = "take"
  /\ Dequeue(w)
  /\ lock' = None
  /\ pc' = [pc EXCEPT ![w] = "run"]
  /\ UNCHANGED <<hold, shutdown, max_try, history>>

-----------------------------------------------------------------------------
(* The API.  A client that is idle may call any function Calls lets it call. *)

MayCall(c, api) == pc[c] = "idle" /\ api \in Calls[c]

(* thpool_add_task: on a full queue the call returns -1 and changes nothing. *)
AddTask(c, t) ==
  /\ MayCall(c, "add_task")
  /\ Fresh(t)
  /\ Unlocked
  /\ IF queue_count = QueueSize
     THEN UNCHANGED <<queueVars, pc, parked>>
     ELSE Enqueue(t, pc)
  /\ UNCHANGED <<poolVars, task, max_try, done, due>>

AddTaskTry(c, t) ==
  /\ MayCall(c, "add_task_try")
  /\ Fresh(t)
  /\ pc' = [pc EXCEPT ![c] = "try"]
  /\ task' = [task EXCEPT ![c] = t]
  /\ max_try' = [max_try EXCEPT ![c] = MaxTry]
  /\ UNCHANGED <<poolVars, queueVars, history>>

(* One round of the for loop of thpool_add_task_try: give up with EAGAIN,    *)
(* or find the queue full and count down, or enqueue.                        *)
TryAgain(c) ==
  /\ pc[c] = "try"
  /\ \/ /\ max_try[c] < 0
        /\ pc' = [pc EXCEPT ![c] = "idle"]
        /\ task' = [task EXCEPT ![c] = None]
        /\ UNCHANGED <<queueVars, max_try, parked>>
     \/ /\ max_try[c] >= 0
        /\ Unlocked
        /\ queue_count = QueueSize
        /\ max_try' = [max_try EXCEPT ![c] = @ - 1]
        /\ UNCHANGED <<queueVars, pc, task, parked>>
     \/ /\ max_try[c] >= 0
        /\ Unlocked
        /\ queue_count # QueueSize
        /\ Enqueue(task[c], [pc EXCEPT ![c] = "idle"])
        /\ task' = [task EXCEPT ![c] = None]
        /\ UNCHANGED max_try
  /\ UNCHANGED <<poolVars, done, due>>

(* thpool_pause *)
Pause(c) ==
  /\ MayCall(c, "pause")
  /\ hold' = TRUE
  /\ UNCHANGED <<lock, shutdown, running_count, queueVars, pc, task, max_try, history>>

(* thpool_resume: the store, then the signal under the mutex. *)
Resume(c) ==
  /\ MayCall(c, "resume")
  /\ hold' = FALSE
  /\ parked' = {}
  /\ pc' = [pc EXCEPT ![c] = "resume"]
  /\ UNCHANGED <<lock, shutdown, running_count, queueVars, task, max_try, done, due>>

ResumeSignals(c) ==
  /\ pc[c] = "resume"
  /\ Unlocked
  /\ Signal("notify", "top", [pc EXCEPT ![c] = "idle"])
  /\ UNCHANGED dataVars

(* thpool_wait: the call, then rounds of its loop. *)
Wait(c) ==
  /\ MayCall(c, "wait")
  /\ pc' = [pc EXCEPT ![c] = "wait"]
  /\ UNCHANGED dataVars

(* Mutant: only the queue is tested. *)
WaitChecksQueue(c) ==
  /\ pc[c] = "wait"
  /\ Unlocked
  /\ pc' = [pc EXCEPT ![c] = IF queue_count = 0 THEN "idle" ELSE "notify_empty"]
  /\ UNCHANGED dataVars

WaitChecks(c) ==
  /\ pc[c] = "wait"
  /\ Unlocked
  /\ pc' = [pc EXCEPT ![c] =
              IF queue_count = 0 /\ running_count = 0 THEN "idle" ELSE "notify_empty"]
  /\ UNCHANGED dataVars

(* thpool_worker_try_once: ignores hold; on an empty queue it returns -1. *)
TryOnce(c) ==
  /\ MayCall(c, "try_once")
  /\ Unlocked
  /\ IF queue_count = 0
     THEN UNCHANGED <<running_count, queueVars, task, pc>>
     ELSE /\ Dequeue(c)
          /\ pc' = [pc EXCEPT ![c] = "run"]
  /\ UNCHANGED <<lock, hold, shutdown, max_try, history>>

(* thpool_shutdown: the store, the broadcast under the mutex, the joins.     *)
(* A worker can be joined once, so a pool is shut down once.                 *)
Shutdown(c) ==
  /\ MayCall(c, "shutdown")
  /\ ~shutdown
  /\ shutdown' = TRUE
  /\ due' = Accepted
  /\ pc' = [pc EXCEPT ![c] = "broadcast"]
  /\ UNCHANGED <<lock, hold, running_count, queueVars, task, max_try, done, parked>>

(* Mutant: a signal instead of the broadcast. *)
ShutdownSignals(c) ==
  /\ pc[c] = "broadcast"
  /\ Unlocked
  /\ Signal("notify", "top", [pc EXCEPT ![c] = "join"])
  /\ UNCHANGED dataVars

ShutdownBroadcasts(c) ==
  /\ pc[c] = "broadcast"
  /\ Unlocked
  /\ Broadcast("notify", "top", [pc EXCEPT ![c] = "join"])
  /\ UNCHANGED dataVars

ShutdownJoins(c) ==
  /\ pc[c] = "join"
  /\ \A w \in Workers : pc[w] = "exited"
  /\ pc' = [pc EXCEPT ![c] = "idle"]
  /\ UNCHANGED dataVars

-----------------------------------------------------------------------------
WorkerNext(w) ==
  \/ WorkerFindsEmpty(w)
  \/ WorkerChecksShutdown(w)
  \/ WorkerChecksHold(w)
  \/ WorkerTakes(w)

ClientNext(c) ==
  \/ \E t \in Tasks : AddTask(c, t) \/ AddTaskTry(c, t)
  \/ TryAgain(c)
  \/ Pause(c)
  \/ Resume(c)
  \/ ResumeSignals(c)
  \/ Wait(c)
  \/ WaitChecks(c)
  \/ TryOnce(c)
  \/ Shutdown(c)
  \/ ShutdownBroadcasts(c)
  \/ ShutdownJoins(c)

Next ==
  \/ \E w \in Workers : WorkerNext(w)
  \/ \E c \in Clients : ClientNext(c)
  \/ \E p \in Threads : Execute(p) \/ Release(p) \/ SpuriousWakeup(p)

(* The steps that begin with pthread_mutex_lock. *)
WorkerLocks(w) == WorkerFindsEmpty(w) \/ WorkerChecksHold(w)
ClientLocks(c) ==
  TryAgain(c) \/ ResumeSignals(c) \/ WaitChecks(c) \/ ShutdownBroadcasts(c)

(* Fairness: a runnable thread is scheduled and a task's function returns    *)
(* (weak fairness); a thread that finds the mutex free again and again gets  *)
(* it (strong fairness).  No call, and no spurious wakeup, has to happen.    *)
Fairness ==
  /\ \A w \in Workers :
       /\ SF_vars(WorkerLocks(w))
       /\ WF_vars(WorkerChecksShutdown(w))
       /\ WF_vars(WorkerTakes(w))
  /\ \A p \in Threads : WF_vars(Execute(p)) /\ WF_vars(Release(p))
  /\ \A c \in Clients : SF_vars(ClientLocks(c)) /\ WF_vars(ShutdownJoins(c))

Spec == Init /\ [][Next]_vars
FairSpec == Spec /\ Fairness
-----------------------------------------------------------------------------
(* Properties *)

(* The counters the API reports are exact at every moment: running_count is  *)
(* the number of threads between taking a task and counting it off (workers  *)
(* and thpool_worker_try_once callers alike), and head, tail and queue_count *)
(* delimit the same stretch of the ring (lines 153-154, 274-290, 334-351).   *)
CountsExact ==
  /\ running_count = Cardinality({p \in Threads : pc[p] \in {"run", "dec"}})
  /\ tail = (head + queue_count) % QueueSize

(* What a worker saw when it took the mutex is still so when it acts on it:  *)
(* a worker about to sleep or leave faces an empty queue, and one about to   *)
(* take a task faces a queue without parked tasks, although pause, resume    *)
(* and shutdown change their flags in between (lines 306-345).               *)
CriticalSections ==
  /\ \A w \in Workers : lock = w <=> pc[w] \in {"empty", "take"}
  /\ \A w \in Workers : pc[w] = "empty" => queue_count = 0
  /\ \A w \in Workers : pc[w] = "take" => queue_count > 0 /\ parked = {}
  /\ ~hold => parked = {}

(* No wakeup of a worker is lost: as long as some worker sleeps on notify,   *)
(* there is an awake worker for every queued task, so a queued task never    *)
(* depends on a later thpool_add_task, and the tasks spread over the pool    *)
(* (signal in line 156, test in line 309, wait in line 324).                 *)
NoStrandedTask ==
  LET sleeping == {w \in Workers : pc[w] = "notify"}
      awake    == {w \in Workers : pc[w] \notin {"notify", "exited"}}
  IN  sleeping # {} => queue_count <= Cardinality(awake)

(* Nobody sleeps forgotten.  A blocked thpool_wait has a worker that will    *)
(* find the pool drained and signal notify_empty, unless all workers have    *)
(* left and a task accepted after that is queued for ever (lines 146, 221,   *)
(* 310-324).  This needs what README.md:49 does not say: one waiter, and no  *)
(* thpool_worker_try_once.  And once thpool_shutdown joins, no worker sleeps *)
(* on notify, though shutdown is stored without the mutex (lines 235-239).   *)
WaiterHasWaker ==
  (\E c \in Clients : pc[c] = "notify_empty") =>
    \/ \E w \in Workers : pc[w] \in {"top", "take", "run", "dec"}
    \/ (\A w \in Workers : pc[w] = "exited") /\ queue_count > 0
JoinFindsNoSleeper ==
  (\E c \in Clients : pc[c] = "join") => \A w \in Workers : pc[w] # "notify"
NobodyForgotten == WaiterHasWaker /\ JoinFindsNoSleeper

(* A task added while the pool is on hold is not started by a worker before  *)
(* thpool_resume, although the worker reads hold before it takes the task    *)
(* and thpool_pause stores hold without the mutex (lines 193, 327-342).      *)
ParkedTasksStay ==
  [][\A w \in Workers : pc[w] = "take" /\ pc'[w] = "run" => task'[w] \notin parked]_vars

(* When thpool_wait returns, the function of every task accepted so far has  *)
(* returned, although running_count is changed by threads that do not hold   *)
(* the mutex thpool_wait holds (lines 217-230).                              *)
WaitSeesAllDone ==
  [][\A c \in Clients : pc[c] = "wait" /\ pc'[c] = "idle" => Accepted \subseteq done]_vars

(* When thpool_shutdown returns, every task accepted before the call was     *)
(* executed, except for those a thpool_worker_try_once caller still executes *)
(* (a worker tests shutdown only on an empty queue, lines 309-317).          *)
ShutdownDrains ==
  [][\A c \in Clients : pc[c] = "join" /\ pc'[c] = "idle"
       => due \subseteq done \cup {task[p] : p \in Executing \cap Clients}]_vars

(* The pool implements the abstract task pool: FIFO, bounded, every accepted *)
(* task handed out once.                                                     *)
Abstract == INSTANCE TaskPool
              WITH Capacity <- QueueSize, queue <- QueueSeq, active <- InHand
ImplementsTaskPool == Abstract!Spec

(* A pool that is neither shut down nor paused for ever. *)
Working == []~shutdown /\ <>[]~hold

(* A queued task of a working pool is eventually executed.                   *)
QueuedTasksRun ==
  Working => \A t \in Tasks : t \in Queued ~> t \in done

(* A call of thpool_wait on a working pool returns: tasks are finitely many. *)
(* README.md:49 "Will wait for all jobs (both in queue and currently         *)
(* running) to finish."                                                      *)
WaitReturns ==
  Working => \A c \in Clients : pc[c] = "wait" ~> pc[c] = "idle"

(* A call of thpool_shutdown returns if the pool is not paused for ever: the *)
(* queue is drained and every worker is woken once more and leaves           *)
(* (lines 232-241, 313-325).                                                 *)
ShutdownReturnsUnpaused ==
  <>[]~hold => \A c \in Clients : pc[c] = "broadcast" ~> pc[c] = "idle"
=============================================================================
