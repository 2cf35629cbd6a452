------------------------------ MODULE LfThPool ------------------------------
(***************************************************************************)
(* The lock-free thread pool of src/src/threads/lfthpool.c.                *)
(*                                                                         *)
(* There is no mutex: workers poll shutdown, hold and the queue one after  *)
(* the other, and every read or write of a shared variable is a step.  The *)
(* queue is libconcurrent's mpmc_ring_queue, taken to be a linearizable    *)
(* bounded FIFO of pointers.  Each accepted task lives in a node that      *)
(* add_task allocates and the thread that executes the task frees.         *)
(***************************************************************************)
EXTENDS Integers, Sequences, FiniteSets

CONSTANTS
  Workers,    (* the threads created by lfthpool_create_sched                *)
  Clients,    (* the threads that call the API                               *)
  Tasks,      (* identities of (function, argument) pairs, each added once   *)
  QueueSize,  (* the queue_size passed to lfthpool_create_sched              *)
  MaxTry,     (* the max_try every lfthpool_add_task_try call passes         *)
  QueueErrors, (* whether an enqueue may fail for another reason than a full *)
              (* queue                                                       *)
  Calls,      (* which API functions each client may call                    *)
  None        (* no task                                                     *)

Threads == Workers \cup Clients

ApiNames == {"add_task", "add_task_try", "pause", "resume", "wait", "try_once",
             "shutdown", "destroy"}

ASSUME LfThPoolAssumption ==
  /\ IsFiniteSet(Workers) /\ Workers # {}
  /\ IsFiniteSet(Clients)
  /\ Workers \cap Clients = {}
  /\ QueueSize \in Nat /\ QueueSize >= 2
  /\ MaxTry \in Nat
  /\ QueueErrors \in BOOLEAN
  /\ Calls \in [Clients -> SUBSET ApiNames]
  /\ None \notin Tasks

VARIABLES
  hold, shutdown, running_count,  (* the fields of struct lfthpool           *)
  handles,        (* the workers whose entry in pool->lfthpool is not 0      *)
  queue,          (* the content of pool->task_queue                         *)
  heap,           (* the tasks whose node is allocated                       *)
  destroyed,      (* lfthpool_destroy was called                             *)
  pc, task,       (* where each thread is, and its local variable task       *)
  max_try,        (* the local variable max_try of lfthpool_add_task_try     *)
  done,           (* history: the tasks whose function returned              *)
  due,            (* history: the tasks accepted when the client's call of   *)
                  (* lfthpool_wait began                                     *)
  late            (* history: the workers that took a task while on hold     *)

poolVars == <<hold, shutdown, running_count, handles, destroyed>>
threadVars == <<pc, task, max_try>>
history == <<done, due, late>>
vars == <<poolVars, queue, heap, threadVars, history>>

WorkerPC == {"top", "hold", "dequeue", "count", "run", "dec", "free", "exited"}
ClientPC == {"idle", "try", "active", "len", "recheck", "count", "run", "free", "dec",
             "join", "delete"}

(* size_to_power_of_2: the smallest power of two that is not below n. *)
size_to_power_of_2(n) == CHOOSE p \in {2^k : k \in 0..n} :
                           p >= n /\ \A k \in 0..n : 2^k >= n => p <= 2^k
Capacity == size_to_power_of_2(QueueSize)

(* The queue's size is a number, which the provers cannot see from the       *)
(* powers above.                                                             *)
ASSUME CapacityAssumption == Capacity \in Nat

Queued == {queue[i] : i \in 1..Len(queue)}
Uncounted == {task[p] : p \in {x \in Threads : pc[x] = "count"}}
InHand == {task[p] : p \in {x \in Threads : pc[x] \in {"count", "run"}}}
Accepted == Queued \cup InHand \cup done

TypeOK ==
  /\ hold \in BOOLEAN /\ shutdown \in BOOLEAN /\ destroyed \in BOOLEAN
  /\ running_count \in Int
  /\ handles \subseteq Workers
  /\ queue \in Seq(Tasks) /\ Len(queue) <= Capacity
  /\ heap \subseteq Tasks
  /\ pc \in [Threads -> WorkerPC \cup ClientPC]
  /\ \A w \in Workers : pc[w] \in WorkerPC
  /\ \A c \in Clients : pc[c] \in ClientPC
  /\ task \in [Threads -> Tasks \cup {None}]
  /\ max_try \in [Clients -> -1..MaxTry]
  /\ done \subseteq Tasks /\ late \subseteq Workers
  /\ due \in [Clients -> SUBSET Tasks]

(* lfthpool_create_sched: every worker is at the top of its loop. *)
Init ==
  /\ hold = FALSE /\ shutdown = FALSE /\ destroyed = FALSE
  /\ running_count = 0
  /\ handles = Workers
  /\ queue = <<>>
  /\ heap = {}
  /\ pc = [p \in Threads |-> IF p \in Workers THEN "top" ELSE "idle"]
  /\ task = [p \in Threads |-> None]
  /\ max_try = [c \in Clients |-> MaxTry]
  /\ done = {} /\ late = {}
  /\ due = [c \in Clients |-> {}]

Goto(p, label) == pc' = [pc EXCEPT ![p] = label]

-----------------------------------------------------------------------------
(* The queue of libconcurrent *)

(* mpmc_ring_queue_enqueue: QERR_OK, or QERR_FULL. *)
Full == Len(queue) = Capacity
Enqueue(t) ==
  /\ ~Full
  /\ queue' = Append(queue, t)

(* mpmc_ring_queue_dequeue of a queue that is not empty. *)
Dequeue(p) ==
  /\ queue # <<>>
  /\ task' = [task EXCEPT ![p] = Head(queue)]
  /\ queue' = Tail(queue)

-----------------------------------------------------------------------------
(* _lfthpool_worker *)

WorkerChecksShutdown(w) ==
  /\ pc[w] = "top"
  /\ Goto(w, IF shutdown THEN "exited" ELSE "hold")
  /\ UNCHANGED <<poolVars, queue, heap, task, max_try, history>>

(* Mutants: on hold a worker returns, or polls hold without testing shutdown. *)
WorkerLeavesOnHold(w) ==
  /\ pc[w] = "hold"
  /\ Goto(w, IF hold THEN "exited" ELSE "dequeue")
  /\ UNCHANGED <<poolVars, queue, heap, task, max_try, history>>
WorkerPollsHold(w) ==
  /\ pc[w] = "hold"
  /\ Goto(w, IF hold THEN "hold" ELSE "dequeue")
  /\ UNCHANGED <<poolVars, queue, heap, task, max_try, history>>

(* When on hold sleep(1) and start over. *)
WorkerChecksHold(w) ==
  /\ pc[w] = "hold"
  /\ Goto(w, IF hold THEN "top" ELSE "dequeue")
  /\ UNCHANGED <<poolVars, queue, heap, task, max_try, history>>

(* On an empty queue usleep(1) and start over. *)
WorkerDequeues(w) ==
  /\ pc[w] = "dequeue"
  /\ \/ /\ queue = <<>>
        /\ Goto(w, "top")
        /\ UNCHANGED <<queue, task, late>>
     \/ /\ Dequeue(w)
        /\ Goto(w, "count")
        /\ late' = IF hold THEN late \cup {w} ELSE late
  /\ UNCHANGED <<poolVars, heap, max_try, done, due>>

-----------------------------------------------------------------------------
(* What workers and callers of lfthpool_worker_try_once do with a task.  A    *)
(* worker counts itself off before it frees the node, a caller after that.    *)

Count(p) ==
  /\ pc[p] = "count"
  /\ running_count' = running_count + 1
  /\ Goto(p, "run")
  /\ UNCHANGED <<hold, shutdown, handles, destroyed, queue, heap, task, max_try, history>>

(* Execute the task; its function returns. *)
Execute(p) ==
  /\ pc[p] = "run"
  /\ done' = done \cup {task[p]}
  /\ Goto(p, IF p \in Workers THEN "dec" ELSE "free")
  /\ UNCHANGED <<poolVars, queue, heap, task, max_try, due, late>>

(* Mutant: only workers count themselves off. *)
ReleaseOfWorkers(p) ==
  /\ pc[p] = "dec"
  /\ running_count' = IF p \in Workers THEN running_count - 1 ELSE running_count
  /\ Goto(p, IF p \in Workers THEN "free" ELSE "idle")
  /\ UNCHANGED <<hold, shutdown, handles, destroyed, queue, heap, task, max_try, history>>

Release(p) ==
  /\ pc[p] = "dec"
  /\ running_count' = running_count - 1
  /\ Goto(p, IF p \in Workers THEN "free" ELSE "idle")
  /\ UNCHANGED <<hold, shutdown, handles, destroyed, queue, heap, task, max_try, history>>

(* Mutant: a worker looks for the next task at once. *)
FreeAndGoOn(p) ==
  /\ pc[p] = "free"
  /\ heap' = heap \ {task[p]}
  /\ task' = [task EXCEPT ![p] = None]
  /\ Goto(p, IF p \in Workers THEN "dequeue" ELSE "dec")
  /\ UNCHANGED <<poolVars, queue, max_try, history>>

Free(p) ==
  /\ pc[p] = "free"
  /\ heap' = heap \ {task[p]}
  /\ task' = [task EXCEPT ![p] = None]
  /\ Goto(p, IF p \in Workers THEN "top" ELSE "dec")
  /\ UNCHANGED <<poolVars, queue, max_try, history>>

-----------------------------------------------------------------------------
(* The API.  A client that is idle may call any function Calls lets it call.  *)
(* Nobody calls a function of a pool that was destroyed.                      *)

MayCall(c, api) == pc[c] = "idle" /\ api \in Calls[c] /\ ~destroyed

(* A client adds each task once, so that it can be told apart from the others. *)
Fresh(t) == t \notin heap \cup done

(* lfthpool_add_task: on a full queue, and on any other error of the queue,   *)
(* the node is freed again, which leaves everything as it was.                *)
AddTask(c, t) ==
  /\ MayCall(c, "add_task")
  /\ Fresh(t)
  /\ Enqueue(t)
  /\ heap' = heap \cup {t}
  /\ UNCHANGED <<poolVars, threadVars, done, due, late>>

AddTaskTry(c, t) ==
  /\ MayCall(c, "add_task_try")
  /\ Fresh(t)
  /\ heap' = heap \cup {t}
  /\ task' = [task EXCEPT ![c] = t]
  /\ max_try' = [max_try EXCEPT ![c] = MaxTry]
  /\ Goto(c, "try")
  /\ UNCHANGED <<poolVars, queue, history>>

(* Mutants: the node is not freed when the call gives up; it never gives up. *)
TryAgainLeaks(c) ==
  /\ pc[c] = "try"
  /\ \/ /\ Enqueue(task[c])
        /\ Goto(c, "idle")
        /\ task' = [task EXCEPT ![c] = None]
        /\ UNCHANGED max_try
     \/ /\ Full
        /\ max_try' = [max_try EXCEPT ![c] = IF @ < 0 THEN @ ELSE @ - 1]
        /\ task' = [task EXCEPT ![c] = IF max_try[c] < 0 THEN None ELSE @]
        /\ Goto(c, IF max_try[c] < 0 THEN "idle" ELSE "try")
        /\ UNCHANGED <<queue>>
  /\ UNCHANGED <<poolVars, heap, done, due, late>>
TryForever(c) ==
  /\ pc[c] = "try"
  /\ \/ /\ Enqueue(task[c])
        /\ Goto(c, "idle")
        /\ task' = [task EXCEPT ![c] = None]
        /\ UNCHANGED max_try
     \/ /\ Full
        /\ max_try' = [max_try EXCEPT ![c] = @ - 1]
        /\ UNCHANGED <<queue, pc, task>>
  /\ UNCHANGED <<poolVars, heap, done, due, late>>

(* One round of the loop of lfthpool_add_task_try: enqueue, or on a full      *)
(* queue sleep and count down, or with no try left free the node; on any      *)
(* other error of the queue free it at once.                                  *)
TryAgain(c) ==
  /\ pc[c] = "try"
  /\ \/ /\ Enqueue(task[c])
        /\ Goto(c, "idle")
        /\ task' = [task EXCEPT ![c] = None]
        /\ UNCHANGED <<heap, max_try>>
     \/ /\ Full
        /\ max_try[c] >= 0
        /\ max_try' = [max_try EXCEPT ![c] = @ - 1]
        /\ UNCHANGED <<queue, heap, pc, task>>
     \/ /\ (Full /\ max_try[c] < 0) \/ QueueErrors
        /\ heap' = heap \ {task[c]}
        /\ task' = [task EXCEPT ![c] = None]
        /\ Goto(c, "idle")
        /\ UNCHANGED <<queue, max_try>>
  /\ UNCHANGED <<poolVars, done, due, late>>

(* lfthpool_pause, lfthpool_resume *)
Pause(c) ==
  /\ MayCall(c, "pause")
  /\ hold' = TRUE
  /\ UNCHANGED <<shutdown, running_count, handles, destroyed, queue, heap, threadVars, history>>

Resume(c) ==
  /\ MayCall(c, "resume")
  /\ hold' = FALSE
  /\ late' = {}
  /\ UNCHANGED <<shutdown, running_count, handles, destroyed, queue, heap, threadVars, done, due>>

(* lfthpool_wait: no active task, then no queued task, then again no active   *)
(* task; otherwise sleep and start over.                                      *)
Wait(c) ==
  /\ MayCall(c, "wait")
  /\ due' = [due EXCEPT ![c] = Accepted]
  /\ Goto(c, "active")
  /\ UNCHANGED <<poolVars, queue, heap, task, max_try, done, late>>

WaitChecksActive(c) ==
  /\ pc[c] = "active"
  /\ running_count <= 0
  /\ Goto(c, "len")
  /\ UNCHANGED <<poolVars, queue, heap, task, max_try, history>>

WaitChecksQueue(c) ==
  /\ pc[c] = "len"
  /\ Goto(c, IF queue # <<>> THEN "active" ELSE "recheck")
  /\ UNCHANGED <<poolVars, queue, heap, task, max_try, history>>

(* Mutant: the second test for active tasks is missing. *)
WaitDoesNotRecheck(c) ==
  /\ pc[c] = "recheck"
  /\ Goto(c, "idle")
  /\ due' = [due EXCEPT ![c] = {}]
  /\ UNCHANGED <<poolVars, queue, heap, task, max_try, done, late>>

WaitRechecksActive(c) ==
  /\ pc[c] = "recheck"
  /\ \/ /\ running_count > 0
        /\ Goto(c, "active")
        /\ UNCHANGED due
     \/ /\ running_count <= 0
        /\ Goto(c, "idle")
        /\ due' = [due EXCEPT ![c] = {}]
  /\ UNCHANGED <<poolVars, queue, heap, task, max_try, done, late>>

(* lfthpool_worker_try_once: ignores hold and shutdown; with nothing queued   *)
(* it returns -1, which leaves everything as it was.                          *)
TryOnce(c) ==
  /\ MayCall(c, "try_once")
  /\ Dequeue(c)
  /\ Goto(c, "count")
  /\ UNCHANGED <<poolVars, heap, max_try, history>>

(* Mutant: lfthpool_shutdown drops the queued tasks, as lfthpool_destroy does. *)
ShutdownDrops(c) ==
  /\ MayCall(c, "shutdown")
  /\ \A d \in Clients : pc[d] # "join"
  /\ shutdown' = TRUE
  /\ heap' = heap \ Queued
  /\ queue' = <<>>
  /\ Goto(c, "join")
  /\ UNCHANGED <<hold, running_count, handles, destroyed, task, max_try, history>>

(* lfthpool_shutdown: the store, then the joins of the workers not yet joined.*)
(* Two clients do not shut the pool down at the same time.                    *)
Shutdown(c) ==
  /\ MayCall(c, "shutdown")
  /\ \A d \in Clients : pc[d] # "join"
  /\ shutdown' = TRUE
  /\ Goto(c, "join")
  /\ UNCHANGED <<hold, running_count, handles, destroyed, queue, heap, task, max_try, history>>

(* lfthpool_destroy begins with lfthpool_shutdown.  No other client is inside *)
(* a call, or makes one later, since it would use the pool after it is freed. *)
Destroy(c) ==
  /\ MayCall(c, "destroy")
  /\ \A d \in Clients : pc[d] = "idle"
  /\ shutdown' = TRUE
  /\ destroyed' = TRUE
  /\ Goto(c, "join")
  /\ UNCHANGED <<hold, running_count, handles, queue, heap, task, max_try, history>>

ShutdownJoins(c) ==
  /\ pc[c] = "join"
  /\ \A w \in handles : pc[w] = "exited"
  /\ handles' = {}
  /\ Goto(c, IF destroyed THEN "delete" ELSE "idle")
  /\ UNCHANGED <<hold, shutdown, running_count, destroyed, queue, heap, task, max_try, history>>

(* mpmc_ring_queue_delete of lfthpool_destroy frees the nodes still queued.   *)
Delete(c) ==
  /\ pc[c] = "delete"
  /\ heap' = heap \ Queued
  /\ queue' = <<>>
  /\ Goto(c, "idle")
  /\ UNCHANGED <<poolVars, task, max_try, history>>

-----------------------------------------------------------------------------
WorkerNext(w) == WorkerChecksShutdown(w) \/ WorkerChecksHold(w) \/ WorkerDequeues(w)

Handle(p) == Count(p) \/ Execute(p) \/ Release(p) \/ Free(p)

(* The steps of a client inside a call. *)
InCall(c) ==
  \/ TryAgain(c)
  \/ WaitChecksActive(c)
  \/ WaitChecksQueue(c)
  \/ WaitRechecksActive(c)
  \/ ShutdownJoins(c)
  \/ Delete(c)

ClientNext(c) ==
  \/ \E t \in Tasks : AddTask(c, t) \/ AddTaskTry(c, t)
  \/ Pause(c)
  \/ Resume(c)
  \/ Wait(c)
  \/ TryOnce(c)
  \/ Shutdown(c)
  \/ Destroy(c)
  \/ InCall(c)

Next ==
  \/ \E w \in Workers : WorkerNext(w)
  \/ \E c \in Clients : ClientNext(c)
  \/ \E p \in Threads : Handle(p)

Spec == Init /\ [][Next]_vars

(* Fairness: a runnable thread is scheduled and a task's function returns.    *)
(* There is no lock to be won, so weak fairness is enough.                    *)
Fairness ==
  /\ \A w \in Workers : WF_vars(WorkerNext(w))
  /\ \A p \in Threads : WF_vars(Handle(p))
  /\ \A c \in Clients : WF_vars(InCall(c))

FairSpec == Spec /\ Fairness

-----------------------------------------------------------------------------
(* Properties *)

(* running_count is the number of threads that counted themselves on and not *)
(* yet off, so the unsigned counter never wraps (lines 243-252, 282-288).    *)
Counted == {w \in Workers : pc[w] \in {"run", "dec"}}
             \cup {c \in Clients : pc[c] \in {"run", "free", "dec"}}
CountExact == running_count = Cardinality(Counted)

(* Every allocated node has exactly one owner, the queue or one thread, and  *)
(* every owned node is allocated: none leaks, is freed twice or is used      *)
(* after it was freed; a destroyed pool leaves none (lines 129-142, 148-167, *)
(* 226, 250, 290).                                                           *)
Holders == {p \in Threads : task[p] # None}
NodesOwned ==
  /\ heap = Queued \cup {task[p] : p \in Holders}
  /\ \A i, j \in 1..Len(queue) : queue[i] = queue[j] => i = j
  /\ \A p, q \in Holders : task[p] = task[q] => p = q
  /\ \A p \in Holders : task[p] \notin Queued
  /\ destroyed /\ (\A c \in Clients : pc[c] = "idle") => heap = {}

(* When lfthpool_wait returns, every task accepted before the call has been  *)
(* executed, except for one a thread has dequeued but not counted yet        *)
(* (lines 190-209; lfthpool.h:108 "Can return when task dequeue/increment    *)
(* active task count").                                                      *)
WaitSeesCounted ==
  [][\A c \in Clients : pc[c] = "recheck" /\ pc'[c] = "idle"
       => due[c] \subseteq done \cup Uncounted]_vars

(* While the pool stays on hold a worker takes at most one more task, the    *)
(* one it was already about to dequeue (lines 264-294).                      *)
OneLateTask ==
  [][\A w \in Workers : hold /\ pc[w] = "dequeue" /\ pc'[w] = "count" => w \notin late]_vars

(* The pool implements the abstract task pool with the rounded capacity,     *)
(* until lfthpool_destroy drops what is still queued.                        *)
Abstract == INSTANCE TaskPool WITH active <- InHand
ImplementsTaskPool == Abstract!Init /\ [][Abstract!Next \/ \E c \in Clients : Delete(c)]_Abstract!vars

(* On a pool that is neither shut down nor paused for ever a queued task is  *)
(* executed and every call of lfthpool_wait returns, whoever else waits or   *)
(* executes tasks.                                                           *)
Working == []~shutdown /\ <>[]~hold
QueuedTasksRun == Working => \A t \in Tasks : t \in Queued ~> t \in done
WaitReturns == Working => \A c \in Clients : pc[c] = "active" ~> pc[c] = "idle"

(* lfthpool_shutdown returns, also on a paused pool with queued tasks.       *)
ShutdownReturns == \A c \in Clients : pc[c] = "join" ~> pc[c] = "idle"
=============================================================================
