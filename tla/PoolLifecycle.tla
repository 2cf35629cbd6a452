---------------------------- MODULE PoolLifecycle ----------------------------
(***************************************************************************)
(* The life of a pool from its creation to its destruction, for both       *)
(* pools: src/src/threads/thpool.c and src/src/threads/lfthpool.c.  Any    *)
(* step of the creation may fail, and the error path is the destruction of *)
(* whatever there is by then.                                              *)
(*                                                                         *)
(* What POSIX leaves undefined (locking a mutex that was never             *)
(* initialised, joining no thread or a thread twice) ends the behaviour:   *)
(* fault then names the place.                                             *)
(*                                                                         *)
(* A worker of thpool leaves only when it is awake and the queue is empty, *)
(* so of its tasks the number that are queued is kept, whether the pool is *)
(* paused, and who sleeps on notify.  What is done under the mutex is one  *)
(* step: the others can only store shutdown or hold meanwhile, and those   *)
(* stores may as well come before or after it.  A worker of lfthpool       *)
(* sleeps on nothing and tests shutdown first in each round, before hold   *)
(* and before the queue (lfthpool.c:264-276): the use of that pool is left *)
(* to LfThPool.                                                            *)
(***************************************************************************)
EXTENDS Integers, FiniteSets

CONSTANTS
  Impls,      (* the pools looked at: thpool, lfthpool or both               *)
  N,          (* the number of workers                                       *)
  QueueSize,  (* queue_size                                                  *)
  Clients,    (* the threads that create, shut down and destroy the pool     *)
  Failures,   (* the steps of the creation that may fail                     *)
  None        (* no failure, no fault                                        *)

Steps == {"pool", "arrays", "lock", "notify", "notify_empty", "spawn"}
Objects == {"pool", "handles", "queue", "lock", "notify", "notify_empty"}

ASSUME PoolLifecycleAssumption ==
  /\ Impls \subseteq {"thpool", "lfthpool"} /\ Impls # {}
  /\ N \in Nat /\ N >= 1
  /\ QueueSize \in Nat /\ QueueSize >= 1
  /\ Failures \subseteq Steps
  /\ None \notin Steps

VARIABLES
  impl,       (* which pool                                                  *)
  status,     (* the pool is not there, being created, up, or gone           *)
  live,       (* the objects that are allocated or initialised               *)
  handle,     (* pool->thpool[i]: junk, null or set by pthread_create        *)
  worker,     (* the worker threads: none, running, exited, joined           *)
  shutdown,   (* pool->shutdown                                              *)
  pc,         (* where each client is                                        *)
  op,         (* the function it called                                      *)
  i,          (* its loop variable i, counted from 1                         *)
  failed,     (* history: the step of the creation that failed               *)
  misuse,     (* history: whether shutdown was called again, or by two       *)
              (* threads at once                                             *)
  fault,      (* where something undefined was done                          *)
  hold,       (* thpool: pool->hold                                          *)
  queued,     (* thpool: pool->queue_count                                   *)
  asleep      (* thpool: the workers that wait on notify                     *)

lifeVars == <<impl, status, live, handle, worker, shutdown, pc, op, i, failed, misuse, fault>>
useVars == <<hold, queued, asleep>>
vars == <<lifeVars, useVars>>

Workers == 1..N
Synchronisation == {"lock", "notify", "notify_empty"}
Places == {"idle", "shutdown", "wake", "loop", "join", "zero", "free"} \cup Steps
Ops == {"create", "shutdown", "destroy"}

Init ==
  /\ impl \in Impls
  /\ status = "none"
  /\ live = {}
  /\ handle = [w \in Workers |-> "junk"]
  /\ worker = [w \in Workers |-> "none"]
  /\ shutdown = 0
  /\ pc = [c \in Clients |-> "idle"]
  /\ op = [c \in Clients |-> "create"]
  /\ i = [c \in Clients |-> 1]
  /\ failed = None
  /\ misuse = "none"
  /\ fault = None
  /\ hold = FALSE
  /\ queued = 0
  /\ asleep = {}

Busy == {c \in Clients : pc[c] # "idle"}

(* c is at a label, and nothing undefined has happened so far. *)
At(c, label) == pc[c] = label /\ fault = None
Goto(c, label) == pc' = [pc EXCEPT ![c] = label]
StartLoop(c) == i' = [i EXCEPT ![c] = 1]

-----------------------------------------------------------------------------
(* thpool_create, lfthpool_create_sched *)

Create(c) ==
  /\ status = "none"
  /\ status' = "creating"
  /\ Goto(c, "pool")
  /\ UNCHANGED <<impl, live, handle, worker, shutdown, op, i, failed, misuse, fault, useVars>>

(* The label ERROR: the pool is there and is destroyed as it is. *)
Fails(c, step) ==
  /\ step \in Failures
  /\ failed' = step
  /\ Goto(c, "shutdown")

(* Without memory for the pool itself there is nothing to destroy. *)
MallocPool(c) ==
  /\ At(c, "pool")
  /\ \/ /\ live' = {"pool"}
        /\ Goto(c, "arrays")
        /\ UNCHANGED <<status, failed>>
     \/ /\ "pool" \in Failures
        /\ failed' = "pool"
        /\ status' = "down"
        /\ Goto(c, "idle")
        /\ UNCHANGED live
  /\ UNCHANGED <<impl, handle, worker, shutdown, op, i, misuse, fault, useVars>>

(* Both arrays are asked for before either is tested.  The handles are       *)
(* cleared only when both are there; until then they hold what malloc left.  *)
MallocArrays(c) ==
  /\ At(c, "arrays")
  /\ \/ /\ live' = live \cup {"handles", "queue"}
        /\ handle' = [w \in Workers |-> "null"]
        /\ Goto(c, IF impl = "thpool" THEN "lock" ELSE "spawn")
        /\ UNCHANGED failed
     \/ /\ Fails(c, "arrays")
        /\ \E there \in {{}, {"handles"}, {"queue"}} : live' = live \cup there
        /\ handle' \in [Workers -> {"junk", "null"}]
  /\ UNCHANGED <<impl, status, worker, shutdown, op, i, misuse, fault, useVars>>

(* pthread_mutex_init and pthread_cond_init of thpool_create, in order *)
After == [lock |-> "notify", notify |-> "notify_empty", notify_empty |-> "spawn"]
InitSync(c) ==
  /\ \E o \in Synchronisation :
       /\ At(c, o)
       /\ \/ /\ live' = live \cup {o}
             /\ Goto(c, After[o])
             /\ UNCHANGED failed
          \/ /\ Fails(c, o)
             /\ UNCHANGED live
  /\ UNCHANGED <<impl, status, handle, worker, shutdown, op, i, misuse, fault, useVars>>

(* Mutant: after a failure NULL is returned at once. *)
SpawnGivesUp(c) ==
  /\ At(c, "spawn")
  /\ \/ /\ worker' = [worker EXCEPT ![i[c]] = "running"]
        /\ handle' = [handle EXCEPT ![i[c]] = "set"]
        /\ i' = [i EXCEPT ![c] = @ + 1]
        /\ IF i[c] < N
           THEN UNCHANGED <<pc, status>>
           ELSE Goto(c, "idle") /\ status' = "up"
        /\ UNCHANGED failed
     \/ /\ "spawn" \in Failures
        /\ failed' = "spawn"
        /\ Goto(c, "idle")
        /\ status' = "down"
        /\ UNCHANGED <<handle, worker, i>>
  /\ UNCHANGED <<impl, live, shutdown, op, misuse, fault, useVars>>

(* A pthread_create that fails leaves its handle undefined. *)
Spawn(c) ==
  /\ At(c, "spawn")
  /\ \/ /\ worker' = [worker EXCEPT ![i[c]] = "running"]
        /\ handle' = [handle EXCEPT ![i[c]] = "set"]
        /\ i' = [i EXCEPT ![c] = @ + 1]
        /\ IF i[c] < N
           THEN UNCHANGED <<pc, status>>
           ELSE Goto(c, "idle") /\ status' = "up"
        /\ UNCHANGED failed
     \/ /\ Fails(c, "spawn")
        /\ \E h \in {"junk", "null"} : handle' = [handle EXCEPT ![i[c]] = h]
        /\ UNCHANGED <<worker, i, status>>
  /\ UNCHANGED <<impl, live, shutdown, op, misuse, fault, useVars>>

-----------------------------------------------------------------------------
(* thpool_shutdown, thpool_destroy and their lock-free counterparts *)

Enters(c, name) ==
  /\ status = "up"
  /\ pc[c] = "idle" /\ fault = None
  /\ op' = [op EXCEPT ![c] = name]
  /\ Goto(c, "shutdown")
  /\ misuse' = IF Busy # {} THEN "overlap"
               ELSE IF shutdown = 1 /\ misuse = "none" THEN "again" ELSE misuse
  /\ UNCHANGED <<impl, status, live, handle, worker, shutdown, i, failed, fault, useVars>>

Shutdown(c) ==
  /\ \A d \in Busy : op[d] # "destroy"
  /\ Enters(c, "shutdown")

(* Whoever destroys the pool knows that nobody else uses it. *)
Destroy(c) ==
  /\ Busy = {}
  /\ Enters(c, "destroy")

StoresShutdown(c) ==
  /\ At(c, "shutdown")
  /\ shutdown' = 1
  /\ Goto(c, IF impl = "thpool" THEN "wake" ELSE "loop")
  /\ StartLoop(c)
  /\ UNCHANGED <<impl, status, live, handle, worker, op, failed, misuse, fault, useVars>>

(* Mutant: the broadcast is forgotten. *)
WakesNobody(c) ==
  /\ At(c, "wake")
  /\ {"lock", "notify"} \subseteq live
  /\ Goto(c, "loop")
  /\ UNCHANGED <<impl, status, live, handle, worker, shutdown, op, i, failed, misuse, fault, useVars>>

(* The broadcast of thpool_shutdown, under the mutex. *)
Wakes(c) ==
  /\ At(c, "wake")
  /\ {"lock", "notify"} \subseteq live
  /\ asleep' = {}
  /\ Goto(c, "loop")
  /\ UNCHANGED <<impl, status, live, handle, worker, shutdown, op, i, failed, misuse, fault, hold, queued>>

(* lfthpool_shutdown passes over a handle that is 0. *)
SkipsHandle(c) ==
  /\ impl = "lfthpool"
  /\ handle[i[c]] = "null"

(* pthread_join may be called for a worker that nobody joins or has joined.  *)
MayJoin(c) ==
  /\ handle[i[c]] = "set"
  /\ worker[i[c]] # "joined"
  /\ \A d \in Clients \ {c} : ~(pc[d] = "join" /\ i[d] = i[c])

(* The loop that joins the workers, up to pthread_join. *)
CallsJoin(c) ==
  /\ At(c, "loop")
  /\ i[c] <= N
  /\ "handles" \in live
  /\ \/ SkipsHandle(c) /\ i' = [i EXCEPT ![c] = @ + 1] /\ UNCHANGED pc
     \/ MayJoin(c) /\ Goto(c, "join") /\ UNCHANGED i
  /\ UNCHANGED <<impl, status, live, handle, worker, shutdown, op, failed, misuse, fault, useVars>>

(* Mutant: the thread is not waited for. *)
JoinDetaches(c) ==
  /\ At(c, "join")
  /\ UNCHANGED worker
  /\ IF impl = "thpool"
     THEN Goto(c, "loop") /\ i' = [i EXCEPT ![c] = @ + 1]
     ELSE Goto(c, "zero") /\ UNCHANGED i
  /\ UNCHANGED <<impl, status, live, handle, shutdown, op, failed, misuse, fault, useVars>>

(* pthread_join returns when the worker has returned. *)
Joins(c) ==
  /\ At(c, "join")
  /\ worker[i[c]] = "exited"
  /\ worker' = [worker EXCEPT ![i[c]] = "joined"]
  /\ IF impl = "thpool"
     THEN Goto(c, "loop") /\ i' = [i EXCEPT ![c] = @ + 1]
     ELSE Goto(c, "zero") /\ UNCHANGED i
  /\ UNCHANGED <<impl, status, live, handle, shutdown, op, failed, misuse, fault, useVars>>

(* Mutant: the handle is kept. *)
KeepsHandle(c) ==
  /\ At(c, "zero")
  /\ i' = [i EXCEPT ![c] = @ + 1]
  /\ Goto(c, "loop")
  /\ UNCHANGED <<impl, status, live, handle, worker, shutdown, op, failed, misuse, fault, useVars>>

(* lfthpool_shutdown remembers that it has joined the worker. *)
ZeroesHandle(c) ==
  /\ At(c, "zero")
  /\ handle' = [handle EXCEPT ![i[c]] = "null"]
  /\ i' = [i EXCEPT ![c] = @ + 1]
  /\ Goto(c, "loop")
  /\ UNCHANGED <<impl, status, live, worker, shutdown, op, failed, misuse, fault, useVars>>

EndsLoop(c) ==
  /\ At(c, "loop")
  /\ i[c] > N
  /\ Goto(c, IF op[c] = "shutdown" THEN "idle" ELSE "free")
  /\ UNCHANGED <<impl, status, live, handle, worker, shutdown, op, i, failed, misuse, fault, useVars>>

(* What is destroyed and not merely freed has to be there. *)
Destroyed == IF impl = "thpool" THEN Synchronisation ELSE {"queue"}
Frees(c) ==
  /\ At(c, "free")
  /\ Destroyed \subseteq live
  /\ live' = {}
  /\ status' = "down"
  /\ Goto(c, "idle")
  /\ UNCHANGED <<impl, handle, worker, shutdown, op, i, failed, misuse, fault, useVars>>

-----------------------------------------------------------------------------
(* Nothing tells what happens when a step uses what is not there. *)
Undefined(c) ==
  /\ \/ At(c, "wake") /\ ~({"lock", "notify"} \subseteq live)
     \/ At(c, "loop") /\ i[c] <= N /\ "handles" \notin live
     \/ At(c, "loop") /\ i[c] <= N /\ ~SkipsHandle(c) /\ ~MayJoin(c)
     \/ At(c, "free") /\ ~(Destroyed \subseteq live)
  /\ fault' = pc[c]
  /\ UNCHANGED <<impl, status, live, handle, worker, shutdown, pc, op, i, failed, misuse, useVars>>

-----------------------------------------------------------------------------
(* The use of a thpool, by any thread, until somebody destroys it *)

InUse ==
  /\ impl = "thpool" /\ status = "up" /\ fault = None
  /\ \A c \in Busy : op[c] # "destroy"

(* pthread_cond_signal on notify *)
Signal ==
  \/ \E w \in asleep : asleep' = asleep \ {w}
  \/ asleep = {} /\ UNCHANGED asleep

AddTask ==
  /\ InUse
  /\ queued < QueueSize
  /\ queued' = queued + 1
  /\ Signal
  /\ UNCHANGED <<lifeVars, hold>>

Pause ==
  /\ InUse
  /\ hold' = TRUE
  /\ UNCHANGED <<lifeVars, queued, asleep>>

Resume ==
  /\ InUse
  /\ hold' = FALSE
  /\ Signal
  /\ UNCHANGED <<lifeVars, queued>>

(* thpool_worker_try_once does not look at hold. *)
TryOnce ==
  /\ InUse
  /\ queued > 0
  /\ queued' = queued - 1
  /\ UNCHANGED <<lifeVars, hold, asleep>>

-----------------------------------------------------------------------------
(* The worker threads *)

(* w has the mutex, or for lfthpool is at the top of its loop. *)
Awake(w) == worker[w] = "running" /\ w \notin asleep /\ fault = None

(* While the pool is paused a worker with tasks polls. *)
WorkerTakes(w) ==
  /\ impl = "thpool" /\ Awake(w)
  /\ queued > 0 /\ ~hold
  /\ queued' = queued - 1
  /\ UNCHANGED <<lifeVars, hold, asleep>>

WorkerSleeps(w) ==
  /\ impl = "thpool" /\ Awake(w)
  /\ queued = 0 /\ shutdown = 0
  /\ asleep' = asleep \cup {w}
  /\ UNCHANGED <<lifeVars, hold, queued>>

SpuriousWakeup(w) ==
  /\ fault = None
  /\ w \in asleep
  /\ asleep' = asleep \ {w}
  /\ UNCHANGED <<lifeVars, hold, queued>>

(* Here alone the two pools differ: thpool drains its queue first. *)
WorkerExits(w) ==
  /\ Awake(w)
  /\ shutdown = 1
  /\ impl = "thpool" => queued = 0
  /\ worker' = [worker EXCEPT ![w] = "exited"]
  /\ UNCHANGED <<impl, status, live, handle, shutdown, pc, op, i, failed, misuse, fault, useVars>>

InCall(c) ==
  \/ MallocPool(c)
  \/ MallocArrays(c)
  \/ InitSync(c)
  \/ Spawn(c)
  \/ StoresShutdown(c)
  \/ Wakes(c)
  \/ CallsJoin(c)
  \/ Joins(c)
  \/ ZeroesHandle(c)
  \/ EndsLoop(c)
  \/ Frees(c)
  \/ Undefined(c)

WorkerNext(w) == WorkerTakes(w) \/ WorkerSleeps(w) \/ WorkerExits(w)

Next ==
  \/ \E c \in Clients : Create(c) \/ Shutdown(c) \/ Destroy(c) \/ InCall(c)
  \/ AddTask \/ Pause \/ Resume \/ TryOnce
  \/ \E w \in Workers : WorkerNext(w) \/ SpuriousWakeup(w)

Spec == Init /\ [][Next]_vars

(* Every thread that can run is scheduled; nobody has to call anything, and  *)
(* nobody has to wake up unasked.                                            *)
Fairness ==
  /\ \A c \in Clients : WF_vars(InCall(c))
  /\ \A w \in Workers : WF_vars(WorkerNext(w))

FairSpec == Spec /\ Fairness

-----------------------------------------------------------------------------
(* Properties *)

(* What a worker uses outlives it, also when the creation fails after some   *)
(* workers have started (thpool.c:119-127, 239-252).                         *)
Used == {"pool", "queue"} \cup (IF impl = "thpool" THEN Synchronisation ELSE {})
WorkersOnLivePool == \A w \in Workers : worker[w] = "running" => Used \subseteq live

(* A pool that was destroyed, or whose creation failed, leaves neither       *)
(* memory nor a thread behind.                                               *)
NothingLeaks ==
  status = "down" => live = {} /\ \A w \in Workers : worker[w] \in {"none", "joined"}

(* Nothing undefined is done unless the creation failed after the pool was   *)
(* allocated, or thpool_shutdown was called again, thpool_destroy counting   *)
(* as a call (thpool.c:238-240), or two threads were in it at once.          *)
(* lfthpool_shutdown may be called again and again (lfthpool.c:214-219).     *)
FaultsConfined ==
  fault # None =>
    \/ failed \notin {None, "pool"}
    \/ impl = "thpool" /\ misuse # "none"
    \/ misuse = "overlap"

(* Unless thpool is left paused, or its users add tasks for ever, every call *)
(* returns, whatever a creation failed at and whatever is queued: shutdown   *)
(* wakes the workers that sleep, and they drain the queue and leave          *)
(* (thpool.c:234-240, 309-331).  lfthpool needs neither of the two.          *)
Quiet == <>[]~hold /\ <>[][queued' <= queued]_vars
CallsReturn == Quiet => \A c \in Clients : c \in Busy ~> (c \notin Busy \/ fault # None)

(* A creation that fails returns NULL instead of doing something undefined.  *)
(* thpool.h:27-28 "Returns a pointer to an initialised threadpool on success *)
(* or NULL on error (error code stored in errno)."                           *)
FailedCreateIsSafe == status = "creating" => fault = None
=============================================================================
