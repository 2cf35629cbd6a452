# A verification development of libthreads

libthreads is a small C library: two thread pools, three semaphores, a barrier
for platforms that have none, and a processor count. This directory holds TLA+
modules translated from its source, TLC configurations that check them on small
instances, and TLAPS proofs about them. Paths below are relative to the
directory that holds `src/` and `tla/`; `thpool.c` is `src/src/threads/thpool.c`,
and so on. Source lines are given as `file:line`.

    tlc -workers 2 -config ThPool_safety.cfg MCThPool     # one run
    tlapm ThPoolRing.tla                                  # the ring of thpool
    tlapm ThPoolProofs.tla                                # thpool: counters, wakeups, pauses
    tlapm ThPoolTaskProofs.tla                            # thpool: the fate of a task
    tlapm LfThPoolProofs.tla                              # lfthpool
    tlapm PoolLifecycleProofs.tla                         # creation and destruction of both
    tlapm LuSemProofs.tla                                 # lusem
    tlapm USemDeadlineProofs.tla                          # the deadline of usem
    tlapm MonitorsProofs.tla                              # the barrier, psem, both together

## 1. Inventory

| component | state | operations | hard behaviour | what makes it correct |
|---|---|---|---|---|
| **thpool** (`thpool.c`) | ring `task_queue`, `head`, `tail`, `queue_count` under the mutex `lock`; condition variables `notify`, `notify_empty`; flags `hold`, `shutdown` and counter `running_count`, accessed atomically with and without the mutex; worker handles | `create`, `add_task`, `add_task_try`, `pause`, `resume`, `wait`, `worker_try_once`, `shutdown`, `destroy`, three getters; the background worker | lost wakeups on either condition variable; flags changed between two steps of a critical section; counters changed outside the mutex; pause, shutdown and helpers meeting each other; a creation that fails half-way | an accepted task is executed once, in FIFO order; counters exact; a queued task never waits behind sleeping workers; `wait` returns when, and only when, everything is done; a paused pool starts no new task; `shutdown` drains the queue and returns; nothing leaks, and no worker outlives the pool |
| **lfthpool** (`lfthpool.c`) | libconcurrent's bounded MPMC queue of pointers to heap nodes; `hold`, `shutdown`, `running_count`; worker handles | as above, with `create_sched` | every pair of accesses interleaves: the gap between dequeue and count, the gap between hold test and dequeue; a node freed by whoever executes it; `shutdown` and `destroy` joining the same workers | as above, and: no node leaks, is freed twice or used after it was freed |
| **lusem** (`lusem.c`, `lusem.h`) | `m_count`, `max_spins`, a usem | `init`, `destroy`, `try_wait`, `wait`, `timed_wait`, `signal`, `signal_count` | a timed wait that gives up while a signal is under way; spinning; the initial count | a wait that succeeds takes a token, one that gives up does not; no token is lost or made; nobody sleeps beside a token; a timed wait returns |
| **usem** (`usem.h`) | a POSIX semaphore (or a dispatch semaphore on macOS) | `init`, `destroy`, `wait`, `try_wait`, `timed_wait`, `signal`, `signal_count` | calls interrupted and repeated; normalisation of the deadline; `SEM_VALUE_MAX` | the deadline is a valid timespec at `timeout_usecs` from the call, also after interruptions; no call fails early; a late call returns |
| **psem** (`psem.h`) | a mutex and a condition variable, no predicate | `init`, `destroy`, `signal`, `broadcast`, `wait` | a signal before the wait is lost; spurious wakeups | a broadcast releases everybody who waits; signals sent in a loop release everybody in the end |
| **pthread_barrier** (`pthread_barrier.c`) | `count`, `left`, `round` under a mutex, a condition variable | `init`, `destroy`, `wait` | a thread enters the next round before the last one has drained; `round` wraps | nobody leaves a round before all have arrived; one serial thread per round; everybody leaves |
| **utils** (`utils.c`) | none | `threads_cpu_count` | none | - |
| tests, benchmarks, `ctest.h`, build files, `doc/` | - | - | - | - |

How they interact. Client threads call a pool; the workers a pool created share
its struct with them and call back the functions of the tasks. The pools rely
on pthreads and, for `lfthpool`, on libconcurrent. `lusem` is built on `usem`.
The pools use neither semaphores nor the barrier; the tests use all of them, and
`psem_test.c` uses the barrier and psem together.

## 2. Plan

All of it is done.

1. `TaskPool`, what a pool promises; `ThPool`, the mutex-locked pool, and
   `LfThPool`, the lock-free one, each checked against it.
2. `Semaphore`, an abstract counting semaphore; `LuSem`, the light-weight
   semaphore over `USem`, checked against it.
3. `AbstractBarrier` and `Barrier`, over a condition variable with spurious
   wakeups; `PSem`; `Monitors`, the two together.
4. `USemDeadline`, the arithmetic and the retries of `usem_timed_wait`.
5. `PoolLifecycle`: creation with a failure at every step, destruction of what
   was built, repeated and concurrent shutdowns.
6. Proofs: the counters, wakeups and pauses of `ThPool` (`ThPoolRing`,
   `ThPoolProofs`); one owner for each of its tasks, and with it the refinement
   and the draining shutdown (`ThPoolTaskProofs`); `LuSemProofs`;
   `LfThPoolProofs`; `MonitorsProofs`; `USemDeadlineProofs`;
   `PoolLifecycleProofs`.

What a continuation could add: threads that leave the barrier while the serial
one destroys it (section 7), tasks that call their own pool, and a model of
memory weaker than sequential consistency.

## 3. Modules

### TaskPool: what a pool promises

`queue`, `active`, `done`; `Submit`, `Start`, `Finish`. A task is accepted when
there is room, tasks are handed out in the order of acceptance, each once.

### ThPool: the mutex-locked pool

State: the fields of `struct thpool` (`thpool.c:37-52`) under their own names;
`lock` is the holder of the mutex between two steps; `pc`, `task` and `max_try`
are the program counters and locals of the threads. A thread blocked in
`pthread_cond_wait` has the condition variable's name as its `pc`. `done`,
`parked` and `due` are history variables: they record what the properties speak
about and no guard reads them, except that a task is submitted once.

Grain: what happens under the mutex is invisible to the others except through
`hold`, `shutdown` and `running_count`, which are accessed without it as well.
So a step is the longest stretch of code with at most one such access. The
worker's two-access critical sections are two steps with the mutex held:

| code | actions |
|---|---|
| worker, `thpool.c:306-312`, then `313-325` | `WorkerFindsEmpty` (reads `running_count`, may signal `notify_empty`), `WorkerChecksShutdown` (reads `shutdown`; leaves or sleeps on `notify`) |
| worker, `306-331`, then `333-345` | `WorkerChecksHold` (reads `hold`), `WorkerTakes` (increments `running_count`) |
| `347-348` and `287-288`; `351` and `290` | `Execute`, `Release` |
| `thpool_add_task`, `thpool_add_task_try` | `AddTask`; `AddTaskTry`, then a `TryAgain` per round of its loop |
| `thpool_pause`; `thpool_resume` | `Pause`; `Resume` (the store), `ResumeSignals` (under the mutex) |
| `thpool_wait` | `Wait` (the call), a `WaitChecks` per round |
| `thpool_worker_try_once` | `TryOnce`, `Execute`, `Release` |
| `thpool_shutdown` | `Shutdown` (the store), `ShutdownBroadcasts`, `ShutdownJoins` |
| pthreads | `Signal` (wakes any one blocked thread, or nobody), `Broadcast`, `SpuriousWakeup` of any thread at any time |

A woken thread has to win the mutex again before it goes on, so it goes back to
the label at which the mutex is taken: `top` for a worker, which then tests
`queue_count` again like the `while` in line 309, `wait` for `thpool_wait`.

Which function a client may call is the constant `Calls`, so that a run can ask
about one waiter or two, with or without helpers. The theorems hold for every
value of it.

### LfThPool: the lock-free pool

There is no mutex, so every access to a shared variable is a step: a worker
tests `shutdown`, tests `hold`, dequeues, counts, executes, counts off, frees.
`lfthpool_wait` reads `running_count`, the length of the queue and
`running_count` again in three steps. `heap` is the set of tasks whose node is
allocated. `handles` are the workers not joined yet (`lfthpool.c:215-217`).
`Destroy` is `lfthpool_destroy`, which its caller uses when all others are done
with the pool; `Delete` is the `mpmc_ring_queue_delete(queue, free)` at its end.
The history variables are `done`; `due`, for each client the tasks that had been
accepted when its `lfthpool_wait` began; and `late`, the workers that took a task
while the pool was on hold. The queue is external: a linearizable bounded FIFO
whose capacity is the smallest power of two not below `queue_size`. An enqueue may
also fail for another reason than a full queue (`QueueErrors`), upon which
`lfthpool_add_task_try` frees the node and returns at once (`lfthpool.c:160-162`).

### PoolLifecycle: creation, shutdown, destruction

Both pools, `impl` says which. The state is what the other two modules take for
granted: `status` (the pool is not there, being created, up, gone), `live` (what
is allocated or initialised), `handle` (each entry of the array of handles: junk,
null or set), `worker` (each thread: none, running, exited, joined), and for each
client the function it called and its loop variable. `failed` and `misuse` are
history: which step of the creation failed; whether shutdown was called again
(`again`; `thpool_destroy` calls it too) or by two threads at once (`overlap`).

Each allocation, each `pthread_*_init` and each `pthread_create` succeeds or
fails if the constant `Failures` has it. After a failure the creating thread goes
to the label `ERROR` (`thpool.c:119-127`, `lfthpool.c:113-121`), which is
destruction: the same `StoresShutdown`, `Wakes`, `CallsJoin`, `Joins`,
`ZeroesHandle`, `EndsLoop` and `Frees` that `Shutdown` and `Destroy` lead to, on
whatever there is. A pool without memory for the struct is never destroyed.
`lfthpool` has no `wake`, passes over a handle that is 0 and zeroes the handle of
each worker it joined; `thpool` does none of this.

A worker of `thpool` leaves only awake and on an empty queue (`thpool.c:309-331`),
so what its users do decides whether a join returns. `queued` is `queue_count`,
`hold` the pause, `asleep` the workers that wait on `notify`; `AddTask`, `Pause`,
`Resume` and `TryOnce` may come at any time until somebody destroys the pool, also
while it is shut down, and a worker `WorkerTakes`, `WorkerSleeps`, wakes up for no
reason or `WorkerExits`. What is done under the mutex is one step here; `ThPool` has
the steps in between. A worker of `lfthpool` sleeps on nothing and tests `shutdown`
before anything else in each round (`lfthpool.c:264-276`), so it leaves whatever
`hold` and the queue are, and the use of that pool is left to `LfThPool`.

What POSIX leaves undefined (a mutex never initialised, a join of no thread, of a
joined thread or of one another thread is joining) sets `fault` to its place and
ends the behaviour: there is nothing to say about what the program does
afterwards.

### Semaphore, USem, LuSem: the light-weight semaphore

`Semaphore` is what a counting semaphore promises: `value`, the threads that are
`calling`, what their last wait returned (`rc`); `Call`, `Succeed` (takes a
token), `GiveUp` (takes none), `Signal`.

`USem` holds the operations of `usem.h` on the value `sem` of a POSIX semaphore.
A call interrupted by a signal handler and repeated changes nothing, so an
operation is one step. `UsemExpire` has no guard: a deadline may pass at any
moment, also when a token has just come.

`LuSem` composes the counter with the usem. Every access to `m_count` and every
call of the usem is a step; `pc` names the place of a thread in the code:

| code | labels and actions |
|---|---|
| `lusem_try_wait`, `lusem.h:31-39`, with which all three waits begin | `try`: `TryReads`; `trycas`: `TrySwaps`, a weak compare-and-exchange that may fail for no reason |
| spin loop, `lusem.c:6-12` | `spin`: `SpinReads`; `spincas`: `SpinSwaps` |
| `lusem.c:13-15` | `spin`, no rounds left: `Decrements` |
| `lusem.c:16-23` | `block`: `Wakes`, or `Expires` for a timed wait |
| after the deadline, `lusem.c:31-38` | `adjust`: `AdjustReads`; `retry`: `Retries`; `undo`: `Undoes` |
| `lusem_signal`, `lusem_signal_count`, `lusem.h:45-59` | `Signal` (raises `m_count` by `n` and computes `to_release`), then one `Posts` per post |

`mode` tells the three kinds of wait apart; `lusem_timed_wait` with a timeout of
0 is a wait without a deadline (`lusem.c:16`). A thread may signal and wait as it
likes. `signalled` and `taken` are history variables and no guard reads them,
except that `MaxSignals` bounds the tokens signalled.

### USemDeadline: the deadline of usem_timed_wait

`LuSem` lets a deadline pass at any moment; this module has the clock. `Calls`
reads it and computes `ts` (`usem.h:116-125`): two sums and one carry.
`GetsToken`, `GivesUp` and `Interrupted` are the three ways `sem_timedwait`
returns, `Repeats` the loop around it. `ClockMoves` sets `now` to any reading,
forward or back, as `CLOCK_REALTIME` may. A `sem_timedwait` whose `tv_nsec` is
out of range fails at once, as the comment in `usem.h` fears.

### AbstractBarrier, Barrier: the barrier

`AbstractBarrier` has `arrived`, the threads waiting in the current round, and
`released`, those of the last round that have not left; `Arrive`, `Complete`,
`Leave`. In `Barrier` each critical section of `pthread_barrier_wait` is a step:
`Blocks` and `Completes` from the entry, `SleepsAgain` and `Leaves` from a wakeup.
`round` wraps at `RoundMod`. The refinement maps `arrived` and `released` to the
threads inside whose `my_round` is, or is not, `round`.

### PSem: condition variable with its mutex

`WaitLocks`, `WaitSleeps`, `WaitReturns` are `psem_wait`; `pthread_cond_wait`
gives up the mutex and sleeps in one step and returns when it has the mutex again.
A `PsemSignal` that finds nobody asleep changes nothing. `due` is history: the
threads that were in `psem_wait` when a broadcast came.

### Monitors: the barrier and psem together

`Monitors` lets the same threads use the barrier and psem, each in one call at a
time, next to a thread that signals in a loop as `psem_test.c:40-56` does.

### MCThPool, MCLfThPool, MCDeadline

Instances: which client calls what; clock readings and timeouts.

### The proof modules

`ThPoolRing`, `ThPoolProofs`, `ThPoolTaskProofs`, `LfThPoolProofs`,
`PoolLifecycleProofs`, `LuSemProofs`, `USemDeadlineProofs`, `MonitorsProofs`; see
section 6.

Definitions in the models that a comment calls a mutant are the code with a
plausible bug. No specification uses them; put in the place of the definition
that follows them, they make a property of a run fail.

## 4. Runs

All pass runs explore the complete state space of their instance.

| run | instance | shows |
|---|---|---|
| `thpool_safety` | 2 workers, 3 clients, 3 tasks, queue of 2; the whole API, two waiters, two helpers, two that retry for the last slot | `CountsExact`, `CriticalSections`, `NoStrandedTask`, `ParkedTasksStay`, `WaitSeesAllDone`, `ShutdownDrains`, and that `ThPool` implements `TaskPool` |
| `thpool_liveness` | the same sizes; one waiter, no helper, pause, resume, shutdown | `NobodyForgotten`: a blocked waiter has a worker that will wake it, and a joining shutdown finds no worker asleep; queued tasks run; `thpool_wait` returns; `thpool_shutdown` returns unless the pool stays paused |
| `thpool_two_waiters` | 2 waiters | **violated**: `WaitReturns` |
| `thpool_helper` | a waiter and a helper | **violated**: `WaitReturns` |
| `lfthpool_safety` | 2 workers, 3 clients, 3 tasks, queue of 2; the whole API | `TypeOK`, `CountExact`, `NodesOwned`, `WaitSeesCounted`, `OneLateTask`, and that `LfThPool` implements `TaskPool` until it is destroyed |
| `lfthpool_liveness` | 2 workers, 3 clients, 2 tasks; two waiters, one helping, pause, resume, shutdown, destroy | queued tasks run and waiters return on a working pool; `lfthpool_shutdown` and `lfthpool_destroy` return, paused or not |
| `lifecycle` | both pools; 2 workers, 2 clients, a queue of 2, a failure at any step; tasks, pauses and helpers at any time | `WorkersOnLivePool`, `NothingLeaks`, `FaultsConfined`; `CallsReturn`: unless a `thpool` stays paused or is given tasks for ever, every call returns, or did something undefined |
| `lifecycle_create` | `thpool`, 2 workers, 1 client; `pthread_create` may fail | **violated**: `FailedCreateIsSafe` |
| `lusem` | 2 threads, initial count 1, 1 spin, 3 signals, the smallest `SEM_VALUE_MAX` that the proof allows | `TokensConserved`, `PostsSucceed`, that `LuSem` implements `Semaphore`; `TokensWake`: nobody sleeps beside a token; `TimedWaitReturns`: a timed wait returns once the semaphore is left alone |
| `lusem_initial` | 2 threads, initial count 1 | **violated**: `NoExtraTokens` |
| `deadline` | 2 threads, 4 clock readings, 4 timeouts | `DeadlineExact`; `NotEarly`, also not by a deadline that `sem_timedwait` refuses; that `USemDeadline` implements `Semaphore`; `LateCallsReturn` |
| `monitors` | 3 threads, `round` modulo 2, 1 thread that signals | `NobodyLeftAsleep`: neither a round nor a broadcast leaves a thread asleep; of the barrier `LeftCounts`, `NoStragglers`, that it implements `AbstractBarrier`, `ReleasedLeave`; of psem `BroadcastReleases`, `SignalsRelease` |

The types of `ThPool`, `LuSem`, `PoolLifecycle`, `USemDeadline`, `Barrier` and
`PSem` are proved and not run. Deadlock is not checked: the system may stop. Clients need not call anything,
a task is added once, and a pool that was shut down is finished.

### What the violated runs show

* **Two waiters.** The last worker to find the pool drained signals
  `notify_empty` once (`thpool.c:311`) and sleeps on `notify`. The waiter it
  woke returns; the other sleeps until some other task wakes a worker. README
  line 49 promises that the call waits for the jobs to finish, and they have.
* **A helper.** `thpool_worker_try_once` decrements `running_count`
  (`thpool.c:290`) and signals nobody. If the workers went to sleep while the
  helper executed the last task, a waiter sleeps for ever. Nothing
  else makes a pool that is not shut down forget a waiter: `NobodyEverForgotten`
  proves that one waiter without helpers always has a worker that will signal.
* **lusem_initial.** `lusem_init` gives `initial_count` to `m_count` and to the
  usem (`lusem.h:23-24`). A waiter that finds `m_count` at 0 goes on to the usem,
  which has tokens of its own: a semaphore of n lets 2n waits through. The
  library's tests initialise it to 0 only. `Semaphore` is therefore implemented
  with the initial count `2 * InitialCount`.
* **lifecycle_create.** When `pthread_create` fails, `thpool_create` destroys
  what it has built, and the loop in `thpool.c:238-240` joins all
  `thread_count` handles, also those of threads that were never started. A
  failure before that is as bad: without its mutex, or without its arrays, the
  pool is shut down all the same (`FaultsConfined` allows faults after each
  failure but the first). `lfthpool` passes over handles that are 0 and is safe
  when the handle of the failed `pthread_create` was left at 0; POSIX leaves it
  undefined. When only one of its two arrays could be allocated, it too goes on
  with an array that is not there or was never cleared.

Further deviations the models contain, with what holds in spite of them:

* **Shutdown of a paused thpool.** A worker tests `shutdown` on an empty queue
  only. With a task queued on a paused pool it polls `hold` (`thpool.c:327-330`)
  and `thpool_shutdown` waits for it as long as nobody resumes the pool.
  `ShutdownReturnsUnpaused` has the condition that is needed.
* **Late tasks of thpool.** `thpool_add_task` accepts tasks after
  `thpool_shutdown`, and returns 0 (`thpool.c:146-160`). Once the workers have
  left nobody executes them (`LateTasksNeverRun`), and a `thpool_wait` blocks on
  them for ever: the exception in `NobodyForgotten`.
* **Late tasks of lfthpool.** A worker that passed the test of `hold`
  (`lfthpool.c:270`) takes one more task (`276`), also one added after
  `lfthpool_pause` has returned. `OneLateTask` says that each worker takes at
  most one.
* **lfthpool drops what is queued.** Workers leave without draining the queue
  (`lfthpool.c:265`) and `lfthpool_destroy` frees its nodes. `thpool` drains.
* **A wait of lfthpool misses a task.** Between the dequeue (`lfthpool.c:276`)
  and the increment (`282`) a task is neither queued nor active, so
  `lfthpool_wait` may return before it has started. `lfthpool.h:108` says so, the
  README of the library does not. `WaitSeesCounted` says that nothing else is
  missed.
* **Shutting down twice.** `thpool_destroy` after `thpool_shutdown` joins every
  worker a second time; `lfthpool` may be shut down again and again, but not by
  two threads at once. `FaultsConfined`.

Two more things were read off the code and are in no model: `pthread_create`
returns its error and does not set `errno`, which is printed and handed on
(`thpool.c:113`, `120`, `lfthpool.c:107`, `114`); and a number of workers below 1
is refused with EINVAL, where `thpool.h:26` promises the number of processors.

### Bounds

Two workers are the smallest pool in which one worker can be woken, or go
astray, in place of another; three clients let a submitter, a waiter or helper
and a pauser run at once; a queue of two slots is the smallest ring with a wrap
that is neither full nor empty, and three tasks fill it, are refused and wrap
it. The bounds are `Workers`, `Clients`, `Tasks`, `QueueSize`, `MaxTry` and
`Calls`; nothing else is cut. A task is added at most once, so at most
`Cardinality(Tasks)` tasks are ever accepted. `MaxTry = 0` is one retry round of
`lfthpool_add_task_try`, which tests `max_try` after the attempt, and one attempt
of `thpool_add_task_try`. `QueueErrors` is true in both runs of `LfThPool`.

For `PoolLifecycle` two workers give a `pthread_create` that fails first and one
that fails after a worker has started; two clients shut down one after the other
or at once; a queue of two holds more tasks than one worker takes. The queue's
limit cuts nothing the code does not: an add that finds it full changes nothing. One
pool is created.

For `LuSem`, two threads let a signal meet a waiter that expires, one that blocks
or one that spins; three signals make one `lusem_signal_count` with several posts
or signals that overlap; one spin shows both an exhausted and an unfinished loop;
an initial count of 1 puts tokens into both counters. The bounds are `Threads`,
`InitialCount`, `MaxSpins`, `MaxSignals` and `SemValueMax`, of which only
`MaxSignals` cuts behaviours. A negative `max_spins` behaves as 0. The theorems
lift the bounds.

For `Barrier` three threads let one be late, one early and one asleep; `round`
modulo 2 is the hardest width, since it wraps every other round. For `PSem` the
same three threads wait, sleep and return while others signal. For `USemDeadline`
the readings lie just before, at and past the carry of the nanoseconds, and the
timeouts make the sum fall short of a second, hit it and exceed it. TLC has 32-bit
integers and `NotEarly` counts nanoseconds, so all of it fits into 2.1 seconds;
the theorems have no such limit.

## 5. Fairness

Liveness assumes what an operating system gives its threads: a thread that can
run is scheduled (weak fairness of each step of a thread), and the function of
a task returns (weak fairness of `Execute`). For `ThPool` the steps that begin
with `pthread_mutex_lock` get strong fairness, one formula per thread: a thread
that finds the mutex free again and again gets it. No call is ever required to
happen: a client may stop calling at any time, and the pauses of a run end only
where a property says so (`<>[]~hold`). Spurious wakeups may happen and need not.
`LfThPool` polls and has no lock, so weak fairness is enough.

`PoolLifecycle` has weak fairness of the steps inside a call and of what each worker
does next. A critical section is one step there, so weak fairness of it includes that
a thread which waits for a mutex others only hold for a moment gets it, as in
`ThPool`. `CallsReturn` supposes `Quiet`, which no scheduler can give: the pool does
not stay paused, and tasks are not added for ever. Without either of the two TLC finds
a shutdown that does not return: a worker with tasks polls `hold` for as long as the
pool is paused (`thpool.c:327-331`), and one that always finds a task never tests
`shutdown`.

`LuSem` assumes that a thread inside a call is scheduled (weak fairness of
`InCall`), that a deadline passes (weak fairness of `Expires`), and that a thread
that blocks on the usem while its value is above 0 again and again gets past it
(strong fairness of `Wakes`). `TokensWake` lets others take the tokens first.
`TimedWaitReturns` supposes that calls stop at some time (`Quiet`): the loop after
the deadline compares and exchanges, and others may win each time.

`Barrier` has weak fairness of `SleepsAgain(t) \/ Leaves(t)`: the critical sections
are single steps, so the mutex is free whenever a woken thread wants it. In `PSem`
the mutex is held between two steps, so the return of `psem_wait` and the signals
of the thread that signals in a loop get strong fairness. The latter is the one
call that has to happen: without it nobody is released, as in the code.
`SignalsRelease` supposes that no new waits begin from some time on, since
`pthread_cond_signal` may always choose another.

`USemDeadline` has weak fairness of `Repeats` and strong fairness of `GivesUp`: a
`sem_timedwait` whose deadline has passed is not interrupted each time it is
called.

## 6. Proofs

### thpool

`ThPoolProofs` and `ThPoolTaskProofs` prove, for every number of workers, clients,
tasks and queue slots, every `MaxTry` and every assignment of API functions to
clients:

| theorem | says |
|---|---|
| `Invariance` | `Spec => []IInv` |
| `TypeCorrect` | `Spec => []TypeOK` |
| `CountsAlwaysExact` | `Spec => []CountsExact` |
| `CriticalSectionsHold` | `Spec => []CriticalSections` |
| `NoTaskStranded` | `Spec => []NoStrandedTask` |
| `ParkedTasksAlwaysStay` | `Spec => ParkedTasksStay` |
| `WaitAlwaysSeesAllDone` | `Spec => WaitSeesAllDone` |
| `TaskInvariance` | `Spec => []TaskInv` |
| `TaskPoolImplemented` | `Spec => ImplementsTaskPool` |
| `ShutdownAlwaysDrains` | `Spec => ShutdownDrains` |
| `JoinNeverFindsSleeper` | `Spec => [](Callers /\ JoinFindsNoSleeper)` |
| `NobodyEverForgotten` | `Spec => []NobodyForgotten`, with one waiter and no helper |
| `WaitNeedsIdlePool` | no `thpool_wait` returns while a thread is between taking a task and counting it off |
| `LateTasksNeverRun` | without helpers, once all workers have left, what is queued stays queued and nothing more is done |

The assumption is `ThPoolAssumption`: workers and clients are finite and
disjoint, there is a worker, and the queue has a slot (`thpool.c:65` refuses
anything less).

    IInv == TypeOK /\ TasksKnown /\ CriticalSections /\ CountsExact /\ NoStrandedTask

Why the parts need each other. `TypeOK` alone is not inductive: that
`queue_count` stays at or above 0 when a worker takes a task needs
`CriticalSections` (the queue seen non-empty two steps earlier still is), and
that a thread's task is a task, not an empty slot, needs `TasksKnown`, which
speaks about the live part of the ring. `ThPoolRing` therefore proves what
`Insert` and `Dequeue` do to the sequence `QueueSeq` in terms of `head`, `tail`
and `queue_count` modulo `queue_size`: an enqueue appends, a dequeue takes the
head. `NoStrandedTask` is a counting argument: a signal moves one sleeper to the
awake workers just when the queue grows by one, a worker falls asleep or leaves
only when the queue is empty (`CriticalSections` again), and a worker that takes
a task stays awake. `WaitSeesAllDone` follows from `CountsExact`: if
`running_count` is 0 then no thread is executing, and if the queue is empty as
well nothing accepted is left. `ParkedTasksStay` combines `CriticalSections` (no
parked task is queued behind a worker that passed the test of `hold`) with what
`Dequeue` takes. Each part has one lemma with one step per action.

    TaskInv == IInv /\ OneOwner /\ DueDrained

`ThPoolTaskProofs` first shows that each step has one of seven effects on the
tasks: none, a task is added, offered to `thpool_add_task_try`, added after being
offered, withdrawn, taken, finished. `OneOwner` (the queue has no task twice, and
shares none with a thread or another one) and the refinement then follow from the
effects, with facts about sequences without repetition. `DueDrained` says that a
worker leaves only when what `thpool_shutdown` found has left the queue; that the
queue is still empty two steps after the worker saw it is `CriticalSections`.

`NobodyForgotten` is the safety behind `WaitReturns` and
`ShutdownReturnsUnpaused`. Its proof is about moves: `StepKinds` shows once, action
by action, how far any thread gets in a step (`MoveOf`) and that only two actions
touch what a waiter relies on, `WorkerFindsEmpty` and `WaitChecks`. `Callers` ties
the place of a client to what `Calls` lets it call, so `OneWaiter` and `NoHelper`,
the hypotheses of `NobodyEverForgotten`, become facts about the state. They are
what the two violated runs show to be needed. When the one waiter goes to sleep,
either a worker is active (`CountsExact`) or the queue has a task and some worker is
awake for it (`NoStrandedTask`); when a worker finds the queue empty, either it
wakes the one waiter or another worker is active and will look after it.
`JoinFindsNoSleeper` has no hypotheses: after the broadcast a worker that was not
asleep finds `shutdown` set before it can sleep.

`LateTasksNeverRun` combines the seven effects with the moves: without workers and
helpers neither "taken" nor "finished" is left.

### lfthpool

`LfThPoolProofs`, from `LfThPoolAssumption` (as above, and `lfthpool.c:67` wants a
queue of at least two) and `CapacityAssumption` (the rounded size is a number):
`Invariance`, `TypeCorrect`, `CountAlwaysExact` (`CountExact`),
`NodesAlwaysOwned` (`NodesOwned`), `WaitAlwaysSees` (`WaitSeesCounted`),
`OneLateTaskOnly` (`OneLateTask`), `TaskPoolImplemented` (`ImplementsTaskPool`).

    IInv == TypeOK /\ TasksHeld /\ TriedNotDone /\ Ownership /\ CountExact
              /\ Destruction /\ WaitsKnow /\ LateTakeNoMore

`TasksHeld` ties the local variable `task` to the program counter: a worker frees
its node after it counted itself off, a helper before. `Ownership` is `NodesOwned`
without the end of the pool, for which `Destruction` is needed: the client that
destroys is alone, and frees the queue when all workers have left, so nobody holds
a node then. `WaitsKnow` keeps apart what a wait still has to see: when it has seen
the queue empty, none of those tasks can be queued again, so each is in a thread's
hand or done; `CountExact` does the rest. `LateTakeNoMore` says that a worker which
has been late is not at its dequeue, since it tests `hold` first.

### Creation and destruction

`PoolLifecycleProofs`, for both pools, any number of workers and clients and any
set of failures (`PoolLifecycleAssumption`): `Invariance`,
`WorkersAlwaysOnLivePool` (`WorkersOnLivePool`), `NothingEverLeaks`
(`NothingLeaks`), `FaultsAlwaysConfined` (`FaultsConfined`),
`NobodyEverOversleeps`, `CreatedPoolStaffed`.

    IInv == TypeOK /\ Alone /\ Fresh /\ Stages /\ Standing /\ Joining /\ JoinedOnce
              /\ WorkersOnLivePool /\ NothingLeaks /\ FaultsConfined

`Alone`: two clients are inside only when both shut down, and this is noted.
`Fresh` and `Stages` say what there is at each step of the creation, `Standing`
that a pool that is up has all of it. `Joining` has what makes the loop safe to
free after: the workers it has passed are joined, or were never started, because
a handle that is 0 never belongs to a running worker. `JoinedOnce` is why a `thpool`
closed once joins each worker once. Faults then reduce to one lemma, `JoinedTwice`:
in a complete pool only a second closer can have joined, or be joining, the worker.

Adding tasks, pausing and all that workers do short of leaving does not touch these
variables (`LifeStep`), so each lemma looks at the steps of the lifecycle only.

`NobodyEverOversleeps` is the safety behind `CallsReturn`: once `shutdown` is set a
worker sleeps only if somebody still has the broadcast before him, and whoever has
done his finds nobody asleep, so a join waits for no sleeper. It holds however many
close the pool, one after the other or at once, and for a creation that failed while
the first workers were asleep already; it needs the store before the broadcast, the
broadcast itself, and a worker that tests `shutdown` each time before it sleeps. It
adds to the invariant `Handles` (a handle that is set is that of a started worker, and
`shutdown` is set before the broadcast and the first join) and `Sleepers` (only
workers of a `thpool` that have not left sleep). `CreatedPoolStaffed` follows from
`Handles` and `Joining`: a pool that was handed to its caller, and that nobody has
closed, has all its workers.

### lusem

`LuSemProofs` proves, for any finite set of threads and every initial count,
number of spins and bound on the signals:

| theorem | says |
|---|---|
| `Invariance` | `Spec => []IInv` |
| `TypeCorrect` | `Spec => []TypeOK` |
| `TokensAlwaysConserved` | `Spec => []TokensConserved` |
| `PostsAlwaysSucceed` | `Spec => []PostsSucceed` |
| `SemaphoreImplemented` | `Spec => ImplementsSemaphore` |
| `WaitersAlwaysServed` | `Spec => []WaitersServed` |

`LuSemAssumption` says that the threads are finite and that `SEM_VALUE_MAX` leaves
room for the initial count and one token for each thread; without that
`usem_signal` could spin. The invariant is

    IInv == TypeOK /\ ReadCounts /\ TokensConserved

`TokensConserved` needs `ReadCounts`: that a compare-and-exchange takes a token,
and not a waiter's place, follows from the sign of the count it compares with.
`TokensConserved` itself is two equations, one per counter; `m_count` alone says
nothing about the usem, and the second equation holds only with the first one's
`Waiting` in it. The proof first shows that each of the eleven steps of a wait has
one of five effects on the counters (`WaitHasEffect`) and one of three on the
abstract semaphore (`WaitHasCallEffect`); the rest is arithmetic on the effects.
That the abstract semaphore has a token whenever a wait succeeds is
`TokensLeft`: the tokens are those in `m_count`, in the usem and owed to it.

`WaitersServed` is the safety behind `TokensWake` and `TimedWaitReturns`: while the
semaphore has a token, a thread that blocks on the usem has one there or owed to it,
and a thread in the loop after its deadline finds a token in the usem (one that is
owed arrives) or a count below 0, which it can restore.

### usem's deadline

`USemDeadlineProofs`, for every set of clock readings that are timespecs and every
set of timeouts (`USemDeadlineAssumption`): `TypeCorrect` (`TypeOK`: one carry
normalises the sum), `DeadlineAlwaysExact` (`DeadlineExact`), `NeverEarly`
(`NotEarly`), `SemaphoreImplemented` (`ImplementsSemaphore`: a call takes a token if
and only if it returns 0). `IInv == TypeOK /\ DeadlineExact`.

`DeadlineFits` is about the arithmetic alone, for every reading and timeout: the sum
of the nanoseconds before the carry stays below 2^31, so it fits the smallest
`long`; the seconds fit any `time_t` with room for clock and timeout; and a
`time_t` of 64 bits has room for every `uint64_t` of microseconds.

### The barrier and psem

`MonitorsProofs`, for any finite set of threads and any `RoundMod` from 2 on
(`BarrierAssumption`): `TypeCorrect`, `LeftAlwaysCounts` (`LeftCounts`),
`NoStragglersEver` (`NoStragglers`), `BarrierImplemented` (`ImplementsBarrier`).

    IInv == TypeOK /\ LeftCounts /\ LeavingWoken

The last arriver finds `left = 1`, so by `LeftCounts` all others are waiting in
this round, so none is still leaving the last one. Hence one earlier value of
`round` is all there ever is, and the counter may wrap at 2.

`PsemInvariance` proves `PsemInv == PsemTypeOK /\ DueWoken` of psem alone: a
broadcast takes the mutex, so nobody is between locking it and sleeping, and all who
sleep are woken. `ComponentsImplemented` shows that a behaviour of the composition
is one of each component (`MonitorsSpec => Spec /\ PsemSpec`), from which
`NobodyEverLeftAsleep` (`NobodyLeftAsleep` and all types) and `BarrierInComposition`
(the three properties of the barrier) follow without looking at a step again.

### Model-checked only

The liveness properties, since liveness under fairness is out of the prover's reach.
For most of them the safety they rest on is proved: whoever waits has somebody who
will end the wait, and what remains to TLC is that this somebody gets there.

| liveness | proved safety behind it |
|---|---|
| `QueuedTasksRun` of `ThPool` | `NoStrandedTask`, `CriticalSections` |
| `WaitReturns`, `ShutdownReturnsUnpaused` of `ThPool` | `NobodyForgotten` |
| `QueuedTasksRun`, `WaitReturns`, `ShutdownReturns` of `LfThPool` | `CountExact` and the refinement; these loops poll and nobody has to be woken |
| `CallsReturn` of `PoolLifecycle` | `NobodyOversleeps` |
| `TokensWake`, `TimedWaitReturns` of `LuSem` | `WaitersServed` |
| `LateCallsReturn` of `USemDeadline` | `DeadlineExact` |
| `ReleasedLeave` of `Barrier`, `BroadcastReleases` of `PSem` | `NobodyLeftAsleep` |
| `SignalsRelease` of `PSem` | the types of `PSem`: the mutex has one holder |

## 7. Assumptions and what is not modelled

* Memory is sequentially consistent. The `__atomic` calls use weaker orders;
  their effects on `hold`, `shutdown` and the counters as single variables are
  the same, but reorderings between them are not explored.
* pthreads and POSIX semaphores do what POSIX says; lock, unlock, signal and wait
  fail for no other reason than a deadline, an interruption or a full semaphore.
  Allocations and initialisations fail in `PoolLifecycle` only: a failing
  `usem_init` is passed on by `lusem_init` and nothing is used then.
* libconcurrent's queue is linearizable, and its length is exact when read.
* `malloc` in `lfthpool_add_task` succeeds. When it fails the call returns -1
  before it has changed anything.
* Tasks return and do not call the pool that executes them. A task that waits for
  its own pool waits for itself: `WaitNeedsIdlePool`.
* Nobody uses a pool, a semaphore or a barrier after it was destroyed. In `ThPool`
  the pool is shut down once and in `LfThPool` by one thread at a time;
  `PoolLifecycle` has all orders of shutting down.
* The serial thread may destroy the barrier as soon as its wait has returned, while
  the others still have to leave; `pthread_barrier_destroy` (`pthread_barrier.c:51-60`)
  does not wait for them. In `Barrier` it is called when nobody is inside.
* A timeout near 2^64 microseconds overflows `tv_sec` where `time_t` is narrow;
  `USemDeadline` has unbounded seconds, and `DeadlineFits` says which deadlines fit.
* The sleeps (`usleep`, `sched_yield`, `sleep(1)`, `sleep_func`) are no steps:
  a thread may pause between any two steps anyway.
* Not modelled: the getters (`*_workers_count`, `*_active_tasks`, `*_total_tasks`),
  which change nothing; `errno`; `utils.c`, one system call; tests, benchmarks,
  `ctest.h` and the build; `lusem_destroy` and `usem_destroy`, which only end the
  semaphore's life; the `__MACH__` branch of `usem.h`, which wraps another library.
