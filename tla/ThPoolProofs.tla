---------------------------- MODULE ThPoolProofs ----------------------------
(***************************************************************************)
(* Safety of the thread pool of ThPool for any number of workers, clients, *)
(* tasks and queue slots.                                                  *)
(*                                                                         *)
(* The inductive invariant IInv joins the type invariant, the tasks that   *)
(* the queue and the threads hold, the discipline of the critical          *)
(* sections, the exactness of the counters and the absence of stranded     *)
(* tasks.  Each part is preserved by a lemma of its own.                   *)
(*                                                                         *)
(* That nobody sleeps forgotten is proved from it at the end, about the    *)
(* moves threads make (StepKinds) rather than about the actions.           *)
(***************************************************************************)
EXTENDS ThPoolRing, FiniteSetTheorems

(* The queue holds tasks, and so does a thread that executes or submits one. *)
TasksKnown ==
  /\ QueueSeq \in Seq(Tasks)
  /\ \A p \in Threads : pc[p] \in {"run", "try"} => task[p] \in Tasks

IInv == TypeOK /\ TasksKnown /\ CriticalSections /\ CountsExact /\ NoStrandedTask

-----------------------------------------------------------------------------
(* The wakeup of a signal moves one thread, if any, from cv to next. *)
LEMMA SignalMoves ==
  ASSUME NEW cv, NEW next, NEW q \in [Threads -> WorkerPC \cup ClientPC],
         next \in WorkerPC \cup ClientPC, Signal(cv, next, q)
  PROVE  /\ pc' \in [Threads -> WorkerPC \cup ClientPC]
         /\ \A x \in Threads : pc'[x] = q[x] \/ (q[x] = cv /\ pc'[x] = next)
         /\ \/ pc' = q /\ \A x \in Threads : q[x] # cv
            \/ \E x \in Threads : q[x] = cv /\ pc' = [q EXCEPT ![x] = next]
BY DEF Signal

(* The ring operations keep the variables of the ring within their types. *)
LEMMA EnqueueTypes ==
  ASSUME TypeOK, queue_count # QueueSize, NEW t \in Tasks, NEW q, Enqueue(t, q)
  PROVE  /\ task_queue' \in [Slots -> Tasks \cup {None}]
         /\ head' \in Slots
         /\ tail' \in Slots
         /\ queue_count' \in 0..QueueSize
         /\ parked' \subseteq Tasks
         /\ Signal("notify", "top", q)
BY ThPoolAssumption, ModRange DEF TypeOK, Slots, Enqueue, Insert

LEMMA DequeueTypes ==
  ASSUME TypeOK, queue_count # 0, NEW p \in Threads, Dequeue(p)
  PROVE  /\ task_queue' \in [Slots -> Tasks \cup {None}]
         /\ head' \in Slots
         /\ tail' \in Slots
         /\ queue_count' \in 0..QueueSize
         /\ running_count' \in Int
         /\ task' \in [Threads -> Tasks \cup {None}]
BY ThPoolAssumption, ModRange DEF TypeOK, Slots, Dequeue

(* The two signals of the pool, as far as single threads can tell. *)
LEMMA SignalWakes ==
  ASSUME NEW q \in [Threads -> WorkerPC \cup ClientPC],
         \/ Signal("notify", "top", q)
         \/ Signal("notify_empty", "wait", q)
  PROVE  /\ pc' \in [Threads -> WorkerPC \cup ClientPC]
         /\ \A x \in Threads : \/ pc'[x] = q[x]
                               \/ q[x] = "notify" /\ pc'[x] = "top"
                               \/ q[x] = "notify_empty" /\ pc'[x] = "wait"
<1>1. "top" \in WorkerPC \cup ClientPC /\ "wait" \in WorkerPC \cup ClientPC
  BY DEF WorkerPC, ClientPC
<1>2. CASE Signal("notify", "top", q)
  BY <1>1, <1>2, SignalMoves
<1>3. CASE Signal("notify_empty", "wait", q)
  BY <1>1, <1>3, SignalMoves
<1>4. QED BY <1>2, <1>3

(* A signal keeps every thread at a label of its own code. *)
LEMMA SignalTypes ==
  ASSUME NEW q \in [Threads -> WorkerPC \cup ClientPC],
         \A w \in Workers : q[w] \in WorkerPC,
         \A c \in Clients : q[c] \in ClientPC,
         \/ Signal("notify", "top", q)
         \/ Signal("notify_empty", "wait", q)
  PROVE  /\ pc' \in [Threads -> WorkerPC \cup ClientPC]
         /\ \A w \in Workers : pc'[w] \in WorkerPC
         /\ \A c \in Clients : pc'[c] \in ClientPC
BY ThPoolAssumption, SignalMoves DEF Threads, WorkerPC, ClientPC

(* Every step preserves the type invariant. *)
LEMMA TypeOKStep ==
  ASSUME TypeOK, TasksKnown, CriticalSections, [Next]_vars
  PROVE  TypeOK'
<1> USE ThPoolAssumption DEF TypeOK, Threads, Slots, WorkerPC, ClientPC,
           dataVars, poolVars, queueVars, history
<1>a. Queued \subseteq Tasks /\ Accepted \subseteq Tasks
  BY QueueSeqType DEF TasksKnown, Queued, Accepted, InHand, Executing
<1>1. ASSUME NEW w \in Workers, WorkerFindsEmpty(w)
      PROVE  TypeOK'
  BY <1>1 DEF WorkerFindsEmpty, Signal
<1>2. ASSUME NEW w \in Workers, WorkerChecksShutdown(w)
      PROVE  TypeOK'
  BY <1>2 DEF WorkerChecksShutdown
<1>3. ASSUME NEW w \in Workers, WorkerChecksHold(w)
      PROVE  TypeOK'
  BY <1>3 DEF WorkerChecksHold
<1>4. ASSUME NEW w \in Workers, WorkerTakes(w)
      PROVE  TypeOK'
  <2>1. queue_count > 0
    BY <1>4 DEF WorkerTakes, CriticalSections
  <2>2. QED BY <1>4, <2>1 DEF WorkerTakes, Dequeue
<1>5. ASSUME NEW c \in Clients, NEW t \in Tasks, AddTask(c, t)
      PROVE  TypeOK'
  <2>1. CASE queue_count = QueueSize
    BY <1>5, <2>1 DEF AddTask
  <2>2. CASE queue_count # QueueSize
    <3>1. Enqueue(t, pc)
      BY <1>5, <2>2 DEF AddTask
    <3>2. QED BY <1>5, <2>2, <3>1, EnqueueTypes, SignalTypes DEF AddTask
  <2>3. QED BY <2>1, <2>2
<1>6. ASSUME NEW c \in Clients, NEW t \in Tasks, AddTaskTry(c, t)
      PROVE  TypeOK'
  BY <1>6 DEF AddTaskTry
<1>7. ASSUME NEW c \in Clients, TryAgain(c)
      PROVE  TypeOK'
  <2> DEFINE q == [pc EXCEPT ![c] = "idle"]
  <2>0. max_try[c] \in -1..MaxTry
    OBVIOUS
  <2>1. CASE max_try[c] < 0
    <3>1. /\ pc' = q
          /\ task' = [task EXCEPT ![c] = None]
          /\ UNCHANGED <<task_queue, head, tail, queue_count, max_try, parked>>
          /\ UNCHANGED <<lock, hold, shutdown, running_count, done, due>>
      BY <1>7, <2>0, <2>1 DEF TryAgain
    <3>2. QED BY <3>1
  <2>2. CASE max_try[c] >= 0 /\ queue_count = QueueSize
    <3>1. /\ max_try' = [max_try EXCEPT ![c] = @ - 1]
          /\ UNCHANGED <<task_queue, head, tail, queue_count, pc, task, parked>>
          /\ UNCHANGED <<lock, hold, shutdown, running_count, done, due>>
      BY <1>7, <2>0, <2>2 DEF TryAgain
    <3>2. QED BY <2>0, <2>2, <3>1
  <2>3. CASE max_try[c] >= 0 /\ queue_count # QueueSize
    <3>1. Enqueue(task[c], q) /\ task[c] \in Tasks
      BY <1>7, <2>3 DEF TryAgain, TasksKnown
    <3>2. /\ q \in [Threads -> WorkerPC \cup ClientPC]
          /\ \A w \in Workers : q[w] \in WorkerPC
          /\ \A d \in Clients : q[d] \in ClientPC
      OBVIOUS
    <3>3. Signal("notify", "top", q)
      BY <2>3, <3>1, EnqueueTypes
    <3> HIDE DEF q
    <3>4. QED BY <1>7, <2>3, <3>1, <3>2, <3>3, EnqueueTypes, SignalTypes DEF TryAgain
  <2>4. QED BY <2>1, <2>2, <2>3
<1>8. ASSUME NEW c \in Clients, Pause(c)
      PROVE  TypeOK'
  BY <1>8 DEF Pause
<1>9. ASSUME NEW c \in Clients, Resume(c)
      PROVE  TypeOK'
  BY <1>9 DEF Resume
<1>10. ASSUME NEW c \in Clients, ResumeSignals(c)
      PROVE  TypeOK'
  BY <1>10 DEF ResumeSignals, Signal
<1>11. ASSUME NEW c \in Clients, Wait(c)
      PROVE  TypeOK'
  BY <1>11 DEF Wait
<1>12. ASSUME NEW c \in Clients, WaitChecks(c)
      PROVE  TypeOK'
  BY <1>12 DEF WaitChecks
<1>13. ASSUME NEW c \in Clients, TryOnce(c)
      PROVE  TypeOK'
  <2>1. CASE queue_count = 0
    BY <1>13, <2>1 DEF TryOnce
  <2>2. CASE queue_count # 0
    BY <1>13, <2>2, DequeueTypes DEF TryOnce
  <2>3. QED BY <2>1, <2>2
<1>14. ASSUME NEW c \in Clients, Shutdown(c)
      PROVE  TypeOK'
  BY <1>14, <1>a DEF Shutdown
<1>15. ASSUME NEW c \in Clients, ShutdownBroadcasts(c)
      PROVE  TypeOK'
  BY <1>15 DEF ShutdownBroadcasts, Broadcast
<1>16. ASSUME NEW c \in Clients, ShutdownJoins(c)
      PROVE  TypeOK'
  BY <1>16 DEF ShutdownJoins
<1>17. ASSUME NEW p \in Threads, Execute(p)
      PROVE  TypeOK'
  BY <1>17 DEF Execute, TasksKnown
<1>18. ASSUME NEW p \in Threads, Release(p)
      PROVE  TypeOK'
  BY <1>18 DEF Release
<1>19. ASSUME NEW p \in Threads, SpuriousWakeup(p)
      PROVE  TypeOK'
  BY <1>19 DEF SpuriousWakeup
<1>20. CASE UNCHANGED vars
  BY <1>20 DEF vars, dataVars, poolVars, queueVars, history
<1>21. QED
  BY <1>1, <1>2, <1>3, <1>4, <1>5, <1>6, <1>7, <1>8, <1>9, <1>10, <1>11,
     <1>12, <1>13, <1>14, <1>15, <1>16, <1>17, <1>18, <1>19, <1>20 DEF Next,
     WorkerNext, ClientNext

(* The steps that add a task and the steps that take one, seen as operations  *)
(* on the sequence of queued tasks.                                           *)
LEMMA EnqueueKnown ==
  ASSUME TypeOK, TasksKnown, CountsExact, queue_count # QueueSize,
         NEW t \in Tasks, NEW q, Enqueue(t, q)
  PROVE  QueueSeq' = Append(QueueSeq, t) /\ QueueSeq' \in Seq(Tasks)
<1>1. tail = (head + queue_count) % QueueSize /\ queue_count < QueueSize
  BY ThPoolAssumption DEF TypeOK, CountsExact
<1>2. QueueSeq' = Append(QueueSeq, t)
  BY <1>1, EnqueueAppends
<1>3. QED BY <1>2 DEF TasksKnown

LEMMA DequeueKnown ==
  ASSUME TypeOK, TasksKnown, queue_count # 0, NEW p \in Threads, Dequeue(p)
  PROVE  /\ QueueSeq' = Tail(QueueSeq)
         /\ QueueSeq' \in Seq(Tasks)
         /\ Head(QueueSeq) \in Tasks
         /\ task' = [task EXCEPT ![p] = Head(QueueSeq)]
<1>1. queue_count > 0
  BY ThPoolAssumption DEF TypeOK
<1>2. QueueSeq' = Tail(QueueSeq) /\ task' = [task EXCEPT ![p] = Head(QueueSeq)]
  BY <1>1, DequeueTakesHead
<1>3. QueueSeq \in Seq(Tasks) /\ QueueSeq # <<>>
  BY <1>1, QueueSeqType DEF TasksKnown
<1>4. QED BY <1>2, <1>3

(* Every step leaves only tasks in the queue and with the threads. *)
LEMMA TasksKnownStep ==
  ASSUME TypeOK, TasksKnown, CriticalSections, CountsExact, [Next]_vars
  PROVE  TasksKnown'
<1> USE DEF TypeOK, Threads, WorkerPC, ClientPC,
           dataVars, poolVars, queueVars, history
<1>1. ASSUME NEW w \in Workers, WorkerFindsEmpty(w)
      PROVE  TasksKnown'
  <2> DEFINE q == [pc EXCEPT ![w] = "empty"]
  <2>1. QueueSeq' = QueueSeq /\ task' = task
    BY <1>1 DEF WorkerFindsEmpty, QueueSeq
  <2>2. \A x \in Threads : pc'[x] \in {"run", "try"} => pc[x] \in {"run", "try"}
    <3>1. q \in [Threads -> WorkerPC \cup ClientPC]
      OBVIOUS
    <3>2. \A x \in Threads : q[x] \in {"run", "try"} => pc[x] \in {"run", "try"}
      OBVIOUS
    <3>3. Signal("notify_empty", "wait", q) \/ pc' = q
      BY <1>1 DEF WorkerFindsEmpty
    <3> HIDE DEF q
    <3>4. QED BY <3>1, <3>2, <3>3, SignalWakes
  <2>3. QED BY <2>1, <2>2 DEF TasksKnown
<1>2. ASSUME NEW w \in Workers, WorkerChecksShutdown(w)
      PROVE  TasksKnown'
  <2>1. QueueSeq' = QueueSeq
    BY <1>2 DEF WorkerChecksShutdown, QueueSeq
  <2>2. QED BY <1>2, <2>1 DEF WorkerChecksShutdown, TasksKnown
<1>3. ASSUME NEW w \in Workers, WorkerChecksHold(w)
      PROVE  TasksKnown'
  <2>1. QueueSeq' = QueueSeq
    BY <1>3 DEF WorkerChecksHold, QueueSeq
  <2>2. QED BY <1>3, <2>1 DEF WorkerChecksHold, TasksKnown
<1>4. ASSUME NEW w \in Workers, WorkerTakes(w)
      PROVE  TasksKnown'
  <2>1. queue_count # 0 /\ Dequeue(w) /\ pc' = [pc EXCEPT ![w] = "run"]
    BY <1>4 DEF WorkerTakes, CriticalSections
  <2>2. QED BY <2>1, DequeueKnown DEF TasksKnown
<1>5. ASSUME NEW c \in Clients, NEW t \in Tasks, AddTask(c, t)
      PROVE  TasksKnown'
  <2>1. CASE queue_count = QueueSize
    <3>1. QueueSeq' = QueueSeq
      BY <1>5, <2>1 DEF AddTask, QueueSeq
    <3>2. QED BY <1>5, <2>1, <3>1 DEF AddTask, TasksKnown
  <2>2. CASE queue_count # QueueSize
    <3>1. Enqueue(t, pc) /\ task' = task
      BY <1>5, <2>2 DEF AddTask
    <3>2. pc' \in [Threads -> WorkerPC \cup ClientPC]
          /\ \A x \in Threads : pc'[x] = pc[x] \/ pc'[x] \in {"top", "wait"}
      BY <2>2, <3>1, EnqueueTypes, SignalWakes
    <3>3. QED BY <2>2, <3>1, <3>2, EnqueueKnown DEF TasksKnown
  <2>3. QED BY <2>1, <2>2
<1>6. ASSUME NEW c \in Clients, NEW t \in Tasks, AddTaskTry(c, t)
      PROVE  TasksKnown'
  <2>1. QueueSeq' = QueueSeq
    BY <1>6 DEF AddTaskTry, QueueSeq
  <2>2. QED BY <1>6, <2>1 DEF AddTaskTry, TasksKnown
<1>7. ASSUME NEW c \in Clients, TryAgain(c)
      PROVE  TasksKnown'
  <2> DEFINE q == [pc EXCEPT ![c] = "idle"]
  <2>1. CASE UNCHANGED queueVars
    <3>1. QueueSeq' = QueueSeq
      BY <2>1 DEF QueueSeq
    <3>2. \/ pc' = q /\ task' = [task EXCEPT ![c] = None]
          \/ pc' = pc /\ task' = task
          \/ Enqueue(task[c], q) /\ queue_count # QueueSize
      BY <1>7 DEF TryAgain
    <3>3. CASE Enqueue(task[c], q)
      BY <2>1, <3>3 DEF Enqueue, Insert
    <3>4. QED BY <3>1, <3>2, <3>3 DEF TasksKnown
  <2>2. CASE ~UNCHANGED queueVars
    <3>1. /\ Enqueue(task[c], q)
          /\ queue_count # QueueSize
          /\ task' = [task EXCEPT ![c] = None]
          /\ pc[c] = "try"
      BY <1>7, <2>2 DEF TryAgain
    <3>2. task[c] \in Tasks
      BY <3>1 DEF TasksKnown
    <3>3. q \in [Threads -> WorkerPC \cup ClientPC]
      OBVIOUS
    <3>4. \A x \in Threads : q[x] = IF x = c THEN "idle" ELSE pc[x]
      OBVIOUS
    <3>5. Signal("notify", "top", q)
      BY <3>1, <3>2, EnqueueTypes
    <3>6. QueueSeq' \in Seq(Tasks)
      <4> HIDE DEF TypeOK
      <4>1. TypeOK
        OBVIOUS
      <4>2. QED BY <4>1, <3>1, <3>2, EnqueueKnown
    <3> HIDE DEF q
    <3>7. /\ pc' \in [Threads -> WorkerPC \cup ClientPC]
          /\ \A x \in Threads : pc'[x] = q[x] \/ pc'[x] \in {"top", "wait"}
      BY <3>3, <3>5, SignalWakes
    <3>8. \A x \in Threads : pc'[x] \in {"run", "try"} => x # c /\ pc[x] = pc'[x]
      BY <3>4, <3>7
    <3>9. QED BY <3>1, <3>6, <3>8 DEF TasksKnown
  <2>3. QED BY <2>1, <2>2
<1>8. ASSUME NEW c \in Clients, Pause(c)
      PROVE  TasksKnown'
  <2>1. QueueSeq' = QueueSeq
    BY <1>8 DEF Pause, QueueSeq
  <2>2. QED BY <1>8, <2>1 DEF Pause, TasksKnown
<1>9. ASSUME NEW c \in Clients, Resume(c)
      PROVE  TasksKnown'
  <2>1. QueueSeq' = QueueSeq
    BY <1>9 DEF Resume, QueueSeq
  <2>2. QED BY <1>9, <2>1 DEF Resume, TasksKnown
<1>10. ASSUME NEW c \in Clients, ResumeSignals(c)
      PROVE  TasksKnown'
  <2> DEFINE q == [pc EXCEPT ![c] = "idle"]
  <2>1. QueueSeq' = QueueSeq /\ task' = task
    BY <1>10 DEF ResumeSignals, QueueSeq
  <2>2. \A x \in Threads : pc'[x] \in {"run", "try"} => pc[x] \in {"run", "try"}
    <3>1. q \in [Threads -> WorkerPC \cup ClientPC]
      OBVIOUS
    <3>2. \A x \in Threads : q[x] \in {"run", "try"} => pc[x] \in {"run", "try"}
      OBVIOUS
    <3>3. Signal("notify", "top", q)
      BY <1>10 DEF ResumeSignals
    <3> HIDE DEF q
    <3>4. QED BY <3>1, <3>2, <3>3, SignalWakes
  <2>3. QED BY <2>1, <2>2 DEF TasksKnown
<1>11. ASSUME NEW c \in Clients, Wait(c)
      PROVE  TasksKnown'
  <2>1. QueueSeq' = QueueSeq
    BY <1>11 DEF Wait, QueueSeq
  <2>2. QED BY <1>11, <2>1 DEF Wait, TasksKnown
<1>12. ASSUME NEW c \in Clients, WaitChecks(c)
      PROVE  TasksKnown'
  <2>1. QueueSeq' = QueueSeq
    BY <1>12 DEF WaitChecks, QueueSeq
  <2>2. QED BY <1>12, <2>1 DEF WaitChecks, TasksKnown
<1>13. ASSUME NEW c \in Clients, TryOnce(c)
      PROVE  TasksKnown'
  <2>1. CASE queue_count = 0
    <3>1. QueueSeq' = QueueSeq
      BY <1>13, <2>1 DEF TryOnce, QueueSeq
    <3>2. QED BY <1>13, <2>1, <3>1 DEF TryOnce, TasksKnown
  <2>2. CASE queue_count # 0
    <3>1. Dequeue(c) /\ pc' = [pc EXCEPT ![c] = "run"]
      BY <1>13, <2>2 DEF TryOnce
    <3>2. QED BY <2>2, <3>1, DequeueKnown DEF TasksKnown
  <2>3. QED BY <2>1, <2>2
<1>14. ASSUME NEW c \in Clients, Shutdown(c)
      PROVE  TasksKnown'
  <2>1. QueueSeq' = QueueSeq
    BY <1>14 DEF Shutdown, QueueSeq
  <2>2. QED BY <1>14, <2>1 DEF Shutdown, TasksKnown
<1>15. ASSUME NEW c \in Clients, ShutdownBroadcasts(c)
      PROVE  TasksKnown'
  <2>1. QueueSeq' = QueueSeq /\ task' = task
    BY <1>15 DEF ShutdownBroadcasts, QueueSeq
  <2>2. \A x \in Threads : pc'[x] \in {"run", "try"} => pc[x] \in {"run", "try"}
    BY <1>15 DEF ShutdownBroadcasts, Broadcast
  <2>3. QED BY <2>1, <2>2 DEF TasksKnown
<1>16. ASSUME NEW c \in Clients, ShutdownJoins(c)
      PROVE  TasksKnown'
  <2>1. QueueSeq' = QueueSeq
    BY <1>16 DEF ShutdownJoins, QueueSeq
  <2>2. QED BY <1>16, <2>1 DEF ShutdownJoins, TasksKnown
<1>17. ASSUME NEW p \in Threads, Execute(p)
      PROVE  TasksKnown'
  <2>1. QueueSeq' = QueueSeq
    BY <1>17 DEF Execute, QueueSeq
  <2>2. QED BY <1>17, <2>1 DEF Execute, TasksKnown
<1>18. ASSUME NEW p \in Threads, Release(p)
      PROVE  TasksKnown'
  <2>1. QueueSeq' = QueueSeq
    BY <1>18 DEF Release, QueueSeq
  <2>2. QED BY <1>18, <2>1 DEF Release, TasksKnown
<1>19. ASSUME NEW p \in Threads, SpuriousWakeup(p)
      PROVE  TasksKnown'
  <2>1. QueueSeq' = QueueSeq
    BY <1>19 DEF SpuriousWakeup, QueueSeq
  <2>2. QED BY <1>19, <2>1 DEF SpuriousWakeup, TasksKnown
<1>20. CASE UNCHANGED vars
  BY <1>20 DEF vars, dataVars, poolVars, queueVars, history, TasksKnown, QueueSeq
<1>21. QED
  BY <1>1, <1>2, <1>3, <1>4, <1>5, <1>6, <1>7, <1>8, <1>9, <1>10, <1>11,
     <1>12, <1>13, <1>14, <1>15, <1>16, <1>17, <1>18, <1>19, <1>20 DEF Next,
     WorkerNext, ClientNext

(* The tests made when the mutex was taken outlast every step of the others,  *)
(* since only its holder may add, take or leave.                              *)
LEMMA CriticalSectionsStep ==
  ASSUME TypeOK, CriticalSections, [Next]_vars
  PROVE  CriticalSections'
<1> USE ThPoolAssumption DEF TypeOK, CriticalSections, Threads, WorkerPC, ClientPC,
           dataVars, poolVars, queueVars, history, Unlocked
<1>1. ASSUME NEW w \in Workers, WorkerFindsEmpty(w)
      PROVE  CriticalSections'
  <2> DEFINE q == [pc EXCEPT ![w] = "empty"]
  <2>1. q \in [Threads -> WorkerPC \cup ClientPC]
    OBVIOUS
  <2>2. \A x \in Threads : q[x] = IF x = w THEN "empty" ELSE pc[x]
    OBVIOUS
  <2>3. Signal("notify_empty", "wait", q) \/ pc' = q
    BY <1>1 DEF WorkerFindsEmpty
  <2> HIDE DEF q
  <2>4. \A x \in Threads : \/ pc'[x] = q[x]
                           \/ q[x] \in {"notify", "notify_empty"} /\ pc'[x] \in {"top", "wait"}
    BY <2>1, <2>3, SignalWakes
  <2>5. QED BY <1>1, <2>2, <2>4 DEF WorkerFindsEmpty
<1>2. ASSUME NEW w \in Workers, WorkerChecksShutdown(w)
      PROVE  CriticalSections'
  BY <1>2 DEF WorkerChecksShutdown
<1>3. ASSUME NEW w \in Workers, WorkerChecksHold(w)
      PROVE  CriticalSections'
  BY <1>3 DEF WorkerChecksHold
<1>4. ASSUME NEW w \in Workers, WorkerTakes(w)
      PROVE  CriticalSections'
  BY <1>4 DEF WorkerTakes, Dequeue
<1>5. ASSUME NEW c \in Clients, NEW t \in Tasks, AddTask(c, t)
      PROVE  CriticalSections'
  <2>1. CASE queue_count = QueueSize
    BY <1>5, <2>1 DEF AddTask
  <2>2. CASE queue_count # QueueSize
    <3>1. Enqueue(t, pc)
      BY <1>5, <2>2 DEF AddTask
    <3>2. /\ parked' = IF hold THEN parked \cup {t} ELSE parked
          /\ Signal("notify", "top", pc)
      BY <3>1 DEF Enqueue, Insert
    <3>3. \A x \in Threads : \/ pc'[x] = pc[x]
                             \/ pc[x] \in {"notify", "notify_empty"} /\ pc'[x] \in {"top", "wait"}
      BY <3>2, SignalWakes
    <3>4. QED BY <1>5, <3>2, <3>3 DEF AddTask
  <2>3. QED BY <2>1, <2>2
<1>6. ASSUME NEW c \in Clients, NEW t \in Tasks, AddTaskTry(c, t)
      PROVE  CriticalSections'
  BY <1>6 DEF AddTaskTry
<1>7. ASSUME NEW c \in Clients, TryAgain(c)
      PROVE  CriticalSections'
  <2> DEFINE q == [pc EXCEPT ![c] = "idle"]
  <2>1. /\ pc[c] = "try"
        /\ \/ pc' = q /\ UNCHANGED <<parked, queue_count>>
           \/ pc' = pc /\ UNCHANGED <<parked, queue_count>>
           \/ Enqueue(task[c], q) /\ Unlocked
        /\ UNCHANGED <<lock, hold>>
    BY <1>7 DEF TryAgain
  <2>2. \A x \in Threads : q[x] = IF x = c THEN "idle" ELSE pc[x]
    OBVIOUS
  <2>3. CASE pc' = q /\ UNCHANGED <<parked, queue_count>>
    BY <2>1, <2>2, <2>3
  <2>4. CASE pc' = pc /\ UNCHANGED <<parked, queue_count>>
    BY <2>1, <2>4
  <2>5. CASE Enqueue(task[c], q) /\ Unlocked
    <3>1. /\ parked' = IF hold THEN parked \cup {task[c]} ELSE parked
          /\ Signal("notify", "top", q)
      BY <2>5 DEF Enqueue, Insert
    <3>2. q \in [Threads -> WorkerPC \cup ClientPC]
      OBVIOUS
    <3> HIDE DEF q
    <3>3. \A x \in Threads : \/ pc'[x] = q[x]
                             \/ q[x] \in {"notify", "notify_empty"} /\ pc'[x] \in {"top", "wait"}
      BY <3>1, <3>2, SignalWakes
    <3>4. QED BY <2>1, <2>2, <2>5, <3>1, <3>3
  <2>6. QED BY <2>1, <2>3, <2>4, <2>5
<1>8. ASSUME NEW c \in Clients, Pause(c)
      PROVE  CriticalSections'
  BY <1>8 DEF Pause
<1>9. ASSUME NEW c \in Clients, Resume(c)
      PROVE  CriticalSections'
  BY <1>9 DEF Resume
<1>10. ASSUME NEW c \in Clients, ResumeSignals(c)
      PROVE  CriticalSections'
  <2> DEFINE q == [pc EXCEPT ![c] = "idle"]
  <2>1. q \in [Threads -> WorkerPC \cup ClientPC]
    OBVIOUS
  <2>2. \A x \in Threads : q[x] = IF x = c THEN "idle" ELSE pc[x]
    OBVIOUS
  <2>3. Signal("notify", "top", q) \/ pc' = q
    BY <1>10 DEF ResumeSignals
  <2> HIDE DEF q
  <2>4. \A x \in Threads : \/ pc'[x] = q[x]
                           \/ q[x] \in {"notify", "notify_empty"} /\ pc'[x] \in {"top", "wait"}
    BY <2>1, <2>3, SignalWakes
  <2>5. QED BY <1>10, <2>2, <2>4 DEF ResumeSignals
<1>11. ASSUME NEW c \in Clients, Wait(c)
      PROVE  CriticalSections'
  BY <1>11 DEF Wait
<1>12. ASSUME NEW c \in Clients, WaitChecks(c)
      PROVE  CriticalSections'
  BY <1>12 DEF WaitChecks
<1>13. ASSUME NEW c \in Clients, TryOnce(c)
      PROVE  CriticalSections'
  BY <1>13 DEF TryOnce, Dequeue
<1>14. ASSUME NEW c \in Clients, Shutdown(c)
      PROVE  CriticalSections'
  BY <1>14 DEF Shutdown
<1>15. ASSUME NEW c \in Clients, ShutdownBroadcasts(c)
      PROVE  CriticalSections'
  BY <1>15 DEF ShutdownBroadcasts, Broadcast
<1>16. ASSUME NEW c \in Clients, ShutdownJoins(c)
      PROVE  CriticalSections'
  BY <1>16 DEF ShutdownJoins
<1>17. ASSUME NEW p \in Threads, Execute(p)
      PROVE  CriticalSections'
  BY <1>17 DEF Execute
<1>18. ASSUME NEW p \in Threads, Release(p)
      PROVE  CriticalSections'
  BY <1>18 DEF Release
<1>19. ASSUME NEW p \in Threads, SpuriousWakeup(p)
      PROVE  CriticalSections'
  BY <1>19 DEF SpuriousWakeup
<1>20. CASE UNCHANGED vars
  BY <1>20 DEF vars, dataVars, poolVars, queueVars, history
<1>21. QED
  BY <1>1, <1>2, <1>3, <1>4, <1>5, <1>6, <1>7, <1>8, <1>9, <1>10, <1>11,
     <1>12, <1>13, <1>14, <1>15, <1>16, <1>17, <1>18, <1>19, <1>20 DEF Next,
     WorkerNext, ClientNext

-----------------------------------------------------------------------------
(* Counting threads. *)

LEMMA ThreadsFinite == IsFiniteSet(Threads) /\ IsFiniteSet(Workers)
BY ThPoolAssumption, FS_Union DEF Threads

(* The threads between taking a task and counting it off. *)
Active == {p \in Threads : pc[p] \in {"run", "dec"}}

LEMMA ActiveFinite == IsFiniteSet(Active)
BY ThreadsFinite, FS_Subset DEF Active

LEMMA TailAdvances ==
  ASSUME TypeOK, CountsExact, queue_count # QueueSize, NEW t, NEW q, Enqueue(t, q)
  PROVE  tail' = (head' + queue_count') % QueueSize
<1>1. /\ QueueSize \in Nat \ {0}
      /\ head \in 0..(QueueSize - 1)
      /\ queue_count \in 0..QueueSize
      /\ queue_count < QueueSize
      /\ tail = (head + queue_count) % QueueSize
  BY ThPoolAssumption DEF TypeOK, Slots, CountsExact
<1>2. head' = head /\ tail' = (tail + 1) % QueueSize /\ queue_count' = queue_count + 1
  BY DEF Enqueue, Insert
<1>3. head + (queue_count + 1) = head + queue_count + 1
  BY <1>1
<1>4. QED BY <1>1, <1>2, <1>3, ModAdvance

LEMMA HeadAdvances ==
  ASSUME TypeOK, CountsExact, queue_count # 0, NEW p, Dequeue(p)
  PROVE  tail' = (head' + queue_count') % QueueSize
<1>1. /\ QueueSize \in Nat \ {0}
      /\ head \in 0..(QueueSize - 1)
      /\ queue_count \in 0..QueueSize
      /\ queue_count > 0
      /\ tail = (head + queue_count) % QueueSize
  BY ThPoolAssumption DEF TypeOK, Slots, CountsExact
<1>2. head' = (head + 1) % QueueSize /\ tail' = tail /\ queue_count' = queue_count - 1
  BY DEF Dequeue
<1>3. (((head + 1) % QueueSize) + queue_count - 1) % QueueSize = (head + queue_count) % QueueSize
  BY <1>1, ModAdvance
<1>4. head' + queue_count' = head' + queue_count - 1
  BY <1>1, <1>2
<1>5. QED BY <1>1, <1>2, <1>3, <1>4

(* Every step keeps the counters exact. *)
LEMMA CountsExactStep ==
  ASSUME TypeOK, CriticalSections, CountsExact, [Next]_vars
  PROVE  CountsExact'
<1>pc. pc \in [Threads -> WorkerPC \cup ClientPC]
  BY DEF TypeOK
<1>int. running_count \in Int
  BY DEF TypeOK
<1>thr. Threads = Workers \cup Clients
  BY DEF Threads
<1> USE <1>pc, <1>int, <1>thr DEF dataVars, poolVars, queueVars, history
<1>1. ASSUME NEW w \in Workers, WorkerFindsEmpty(w)
      PROVE  CountsExact'
  <2> DEFINE q == [pc EXCEPT ![w] = "empty"]
  <2>1. Active' = Active
    <3>1. q \in [Threads -> WorkerPC \cup ClientPC]
      BY DEF WorkerPC, ClientPC
    <3>2. \A x \in Threads : q[x] = IF x = w THEN "empty" ELSE pc[x]
      OBVIOUS
    <3>3. Signal("notify_empty", "wait", q) \/ pc' = q
      BY <1>1 DEF WorkerFindsEmpty
    <3> HIDE DEF q
    <3>4. \A x \in Threads : \/ pc'[x] = q[x]
                             \/ q[x] \in {"notify", "notify_empty"} /\ pc'[x] \in {"top", "wait"}
      BY <3>1, <3>3, SignalWakes
    <3>5. QED BY <1>1, <3>2, <3>4 DEF WorkerFindsEmpty, Active
  <2>2. QED BY <1>1, <2>1 DEF WorkerFindsEmpty, CountsExact, Active
<1>2. ASSUME NEW w \in Workers, WorkerChecksShutdown(w)
      PROVE  CountsExact'
  <2>1. Active' = Active
    BY <1>2 DEF WorkerChecksShutdown, Active
  <2>2. QED BY <1>2, <2>1 DEF WorkerChecksShutdown, CountsExact, Active
<1>3. ASSUME NEW w \in Workers, WorkerChecksHold(w)
      PROVE  CountsExact'
  <2>1. Active' = Active
    BY <1>3 DEF WorkerChecksHold, Active
  <2>2. QED BY <1>3, <2>1 DEF WorkerChecksHold, CountsExact, Active
<1>4. ASSUME NEW w \in Workers, WorkerTakes(w)
      PROVE  CountsExact'
  <2>1. queue_count # 0
    BY <1>4 DEF WorkerTakes, CriticalSections
  <2>2. QED
    <3>1. /\ queue_count # 0
          /\ Dequeue(w)
          /\ pc[w] \notin {"run", "dec"}
          /\ pc' = [pc EXCEPT ![w] = "run"]
          /\ running_count' = running_count + 1
      BY <1>4, <2>1 DEF WorkerTakes, Dequeue
    <3>2. Active' = Active \cup {w} /\ w \notin Active
      BY <3>1 DEF Active
    <3>3. Cardinality(Active') = Cardinality(Active) + 1
      BY <3>2, ActiveFinite, FS_AddElement
    <3>4. running_count' = Cardinality(Active')
      BY <3>1, <3>3 DEF CountsExact, Active
    <3>5. QED BY <3>1, <3>4, HeadAdvances DEF CountsExact, Active
<1>5. ASSUME NEW c \in Clients, NEW t \in Tasks, AddTask(c, t)
      PROVE  CountsExact'
  <2>1. CASE queue_count = QueueSize
    <3>1. Active' = Active
      BY <1>5, <2>1 DEF AddTask, Active
    <3>2. QED BY <1>5, <2>1, <3>1 DEF AddTask, CountsExact, Active
  <2>2. CASE queue_count # QueueSize
    <3>1. Enqueue(t, pc) /\ running_count' = running_count
      BY <1>5, <2>2 DEF AddTask
    <3>2. \A x \in Threads : \/ pc'[x] = pc[x]
                             \/ pc[x] \in {"notify", "notify_empty"} /\ pc'[x] \in {"top", "wait"}
      BY <3>1, SignalWakes DEF Enqueue, Insert
    <3>3. Active' = Active
      BY <3>2 DEF Active
    <3>4. QED BY <2>2, <3>1, <3>3, TailAdvances DEF CountsExact, Active
  <2>3. QED BY <2>1, <2>2
<1>6. ASSUME NEW c \in Clients, NEW t \in Tasks, AddTaskTry(c, t)
      PROVE  CountsExact'
  <2>1. Active' = Active
    BY <1>6 DEF AddTaskTry, MayCall, Active
  <2>2. QED BY <1>6, <2>1 DEF AddTaskTry, CountsExact, Active
<1>7. ASSUME NEW c \in Clients, TryAgain(c)
      PROVE  CountsExact'
  <2> DEFINE q == [pc EXCEPT ![c] = "idle"]
  <2>1. /\ pc[c] = "try"
        /\ \/ pc' = q /\ UNCHANGED <<head, tail, queue_count>>
           \/ pc' = pc /\ UNCHANGED <<head, tail, queue_count>>
           \/ Enqueue(task[c], q) /\ queue_count # QueueSize
        /\ running_count' = running_count
    BY <1>7 DEF TryAgain
  <2>2. \A x \in Threads : q[x] = IF x = c THEN "idle" ELSE pc[x]
    OBVIOUS
  <2>3. CASE pc' \in {pc, q} /\ UNCHANGED <<head, tail, queue_count>>
    <3>1. Active' = Active
      BY <2>1, <2>2, <2>3 DEF Active
    <3>2. QED BY <2>1, <2>3, <3>1 DEF CountsExact, Active
  <2>4. CASE Enqueue(task[c], q) /\ queue_count # QueueSize
    <3>1. tail' = (head' + queue_count') % QueueSize
      BY <2>4, TailAdvances
    <3>2. q \in [Threads -> WorkerPC \cup ClientPC] /\ Signal("notify", "top", q)
      BY <2>4 DEF Enqueue, Insert, WorkerPC, ClientPC
    <3> HIDE DEF q
    <3>3. \A x \in Threads : \/ pc'[x] = q[x]
                             \/ q[x] \in {"notify", "notify_empty"} /\ pc'[x] \in {"top", "wait"}
      BY <3>2, SignalWakes
    <3>4. Active' = Active
      BY <2>1, <2>2, <3>3 DEF Active
    <3>5. QED BY <2>1, <3>1, <3>4 DEF CountsExact, Active
  <2>5. QED BY <2>1, <2>3, <2>4
<1>8. ASSUME NEW c \in Clients, Pause(c)
      PROVE  CountsExact'
  <2>1. Active' = Active
    BY <1>8 DEF Pause, Active
  <2>2. QED BY <1>8, <2>1 DEF Pause, CountsExact, Active
<1>9. ASSUME NEW c \in Clients, Resume(c)
      PROVE  CountsExact'
  <2>1. Active' = Active
    BY <1>9 DEF Resume, MayCall, Active
  <2>2. QED BY <1>9, <2>1 DEF Resume, CountsExact, Active
<1>10. ASSUME NEW c \in Clients, ResumeSignals(c)
      PROVE  CountsExact'
  <2> DEFINE q == [pc EXCEPT ![c] = "idle"]
  <2>1. Active' = Active
    <3>1. q \in [Threads -> WorkerPC \cup ClientPC]
      BY DEF WorkerPC, ClientPC
    <3>2. \A x \in Threads : q[x] = IF x = c THEN "idle" ELSE pc[x]
      OBVIOUS
    <3>3. Signal("notify", "top", q) \/ pc' = q
      BY <1>10 DEF ResumeSignals
    <3> HIDE DEF q
    <3>4. \A x \in Threads : \/ pc'[x] = q[x]
                             \/ q[x] \in {"notify", "notify_empty"} /\ pc'[x] \in {"top", "wait"}
      BY <3>1, <3>3, SignalWakes
    <3>5. QED BY <1>10, <3>2, <3>4 DEF ResumeSignals, Active
  <2>2. QED BY <1>10, <2>1 DEF ResumeSignals, CountsExact, Active
<1>11. ASSUME NEW c \in Clients, Wait(c)
      PROVE  CountsExact'
  <2>1. Active' = Active
    BY <1>11 DEF Wait, MayCall, Active
  <2>2. QED BY <1>11, <2>1 DEF Wait, CountsExact, Active
<1>12. ASSUME NEW c \in Clients, WaitChecks(c)
      PROVE  CountsExact'
  <2>1. Active' = Active
    BY <1>12 DEF WaitChecks, Active
  <2>2. QED BY <1>12, <2>1 DEF WaitChecks, CountsExact, Active
<1>13. ASSUME NEW c \in Clients, TryOnce(c)
      PROVE  CountsExact'
  <2>1. CASE queue_count = 0
    <3>1. Active' = Active
      BY <1>13, <2>1 DEF TryOnce, Active
    <3>2. QED BY <1>13, <2>1, <3>1 DEF TryOnce, CountsExact, Active
  <2>2. CASE queue_count # 0
    <3>1. /\ queue_count # 0
          /\ Dequeue(c)
          /\ pc[c] \notin {"run", "dec"}
          /\ pc' = [pc EXCEPT ![c] = "run"]
          /\ running_count' = running_count + 1
      BY <1>13, <2>2 DEF TryOnce, MayCall, Dequeue
    <3>2. Active' = Active \cup {c} /\ c \notin Active
      BY <3>1 DEF Active
    <3>3. Cardinality(Active') = Cardinality(Active) + 1
      BY <3>2, ActiveFinite, FS_AddElement
    <3>4. running_count' = Cardinality(Active')
      BY <3>1, <3>3 DEF CountsExact, Active
    <3>5. QED BY <3>1, <3>4, HeadAdvances DEF CountsExact, Active
  <2>3. QED BY <2>1, <2>2
<1>14. ASSUME NEW c \in Clients, Shutdown(c)
      PROVE  CountsExact'
  <2>1. Active' = Active
    BY <1>14 DEF Shutdown, MayCall, Active
  <2>2. QED BY <1>14, <2>1 DEF Shutdown, CountsExact, Active
<1>15. ASSUME NEW c \in Clients, ShutdownBroadcasts(c)
      PROVE  CountsExact'
  <2>1. Active' = Active
    BY <1>15 DEF ShutdownBroadcasts, Broadcast, Active
  <2>2. QED BY <1>15, <2>1 DEF ShutdownBroadcasts, CountsExact, Active
<1>16. ASSUME NEW c \in Clients, ShutdownJoins(c)
      PROVE  CountsExact'
  <2>1. Active' = Active
    BY <1>16 DEF ShutdownJoins, Active
  <2>2. QED BY <1>16, <2>1 DEF ShutdownJoins, CountsExact, Active
<1>17. ASSUME NEW p \in Threads, Execute(p)
      PROVE  CountsExact'
  <2>1. Active' = Active
    BY <1>17 DEF Execute, Active
  <2>2. QED BY <1>17, <2>1 DEF Execute, CountsExact, Active
<1>18. ASSUME NEW p \in Threads, Release(p)
      PROVE  CountsExact'
  <2>1. Active' = Active \ {p} /\ p \in Active
    BY <1>18 DEF Release, Active
  <2>2. Cardinality(Active') = Cardinality(Active) - 1
    BY <2>1, ActiveFinite, FS_RemoveElement
  <2>3. running_count' = Cardinality(Active')
    BY <1>18, <2>2 DEF Release, CountsExact, Active
  <2>4. QED BY <1>18, <2>3 DEF Release, CountsExact, Active
<1>19. ASSUME NEW p \in Threads, SpuriousWakeup(p)
      PROVE  CountsExact'
  <2>1. Active' = Active
    BY <1>19 DEF SpuriousWakeup, Active
  <2>2. QED BY <1>19, <2>1 DEF SpuriousWakeup, CountsExact, Active
<1>20. CASE UNCHANGED vars
  BY <1>20 DEF vars, dataVars, poolVars, queueVars, history, CountsExact
<1>21. QED
  BY <1>1, <1>2, <1>3, <1>4, <1>5, <1>6, <1>7, <1>8, <1>9, <1>10, <1>11,
     <1>12, <1>13, <1>14, <1>15, <1>16, <1>17, <1>18, <1>19, <1>20 DEF Next,
     WorkerNext, ClientNext

-----------------------------------------------------------------------------
(* The workers that are not asleep and have not left. *)
Awake == {w \in Workers : pc[w] \notin {"notify", "exited"}}
Asleep == {w \in Workers : pc[w] = "notify"}

LEMMA AwakeFinite ==
  /\ IsFiniteSet(Awake) /\ IsFiniteSet(Awake')
  /\ Cardinality(Awake) \in Nat /\ Cardinality(Awake') \in Nat
<1>1. IsFiniteSet(Awake) /\ IsFiniteSet(Awake')
  BY ThreadsFinite, FS_Subset DEF Awake
<1>2. QED BY <1>1, FS_CardinalityType

LEMMA StrandedByCounting ==
  /\ NoStrandedTask <=> (Asleep # {} => queue_count <= Cardinality(Awake))
  /\ NoStrandedTask' <=> (Asleep' # {} => queue_count' <= Cardinality(Awake'))
BY DEF NoStrandedTask, Asleep, Awake

(* A step after which no fewer workers are awake, no more tasks queued and no  *)
(* more workers asleep strands no task.                                        *)
LEMMA MoreAwake ==
  ASSUME TypeOK, NoStrandedTask,
         Awake \subseteq Awake', Asleep' \subseteq Asleep,
         queue_count' \in Int, queue_count' <= queue_count
  PROVE  NoStrandedTask'
<1>1. Cardinality(Awake) <= Cardinality(Awake')
  BY AwakeFinite, FS_Subset
<1>2. queue_count \in Int
  BY ThPoolAssumption DEF TypeOK
<1>3. QED BY <1>1, <1>2, AwakeFinite, StrandedByCounting

(* So does one that adds a task: it wakes a worker, unless all are awake.      *)
LEMMA EnqueueWakes ==
  ASSUME TypeOK, NoStrandedTask, NEW q \in [Threads -> WorkerPC \cup ClientPC],
         \A w \in Workers : q[w] = pc[w],
         \A c \in Clients : q[c] # "notify",
         NEW t, Enqueue(t, q)
  PROVE  NoStrandedTask'
<1>1. queue_count' = queue_count + 1 /\ queue_count \in Int
  BY ThPoolAssumption DEF TypeOK, Enqueue, Insert
<1>2. CASE pc' = q /\ \A x \in Threads : q[x] # "notify"
  <2>1. Asleep' = {}
    BY <1>2 DEF Asleep, Threads
  <2>2. QED BY <2>1, StrandedByCounting
<1>3. CASE \E x \in Threads : q[x] = "notify" /\ pc' = [q EXCEPT ![x] = "top"]
  <2>1. PICK x \in Workers : q[x] = "notify" /\ pc' = [q EXCEPT ![x] = "top"]
    BY <1>3 DEF Threads
  <2>2. Awake' = Awake \cup {x} /\ x \notin Awake
    BY <2>1 DEF Awake, Threads
  <2>3. Cardinality(Awake') = Cardinality(Awake) + 1
    BY <2>2, AwakeFinite, FS_AddElement
  <2>4. Asleep # {}
    BY <2>1 DEF Asleep
  <2>5. QED BY <1>1, <2>3, <2>4, AwakeFinite, StrandedByCounting
<1>4. "top" \in WorkerPC \cup ClientPC
  BY DEF WorkerPC
<1>5. Signal("notify", "top", q)
  BY DEF Enqueue, Insert
<1>6. QED BY <1>2, <1>3, <1>4, <1>5, SignalMoves

(* Every step leaves an awake worker for every queued task, or none asleep. *)
LEMMA NoStrandedTaskStep ==
  ASSUME TypeOK, CriticalSections, NoStrandedTask, [Next]_vars
  PROVE  NoStrandedTask'
<1>pc. pc \in [Threads -> WorkerPC \cup ClientPC]
  BY DEF TypeOK
<1>cnt. queue_count \in Int
  BY ThPoolAssumption DEF TypeOK
<1>thr. Threads = Workers \cup Clients
  BY DEF Threads
<1> USE <1>pc, <1>cnt, <1>thr DEF dataVars, poolVars, queueVars, history
<1>1. ASSUME NEW w \in Workers, WorkerFindsEmpty(w)
      PROVE  NoStrandedTask'
  <2> DEFINE q == [pc EXCEPT ![w] = "empty"]
  <2>1. Awake \subseteq Awake' /\ Asleep' \subseteq Asleep /\ queue_count' = queue_count
    <3>1. q \in [Threads -> WorkerPC \cup ClientPC]
      BY DEF WorkerPC, ClientPC
    <3>2. \A x \in Threads : q[x] = IF x = w THEN "empty" ELSE pc[x]
      OBVIOUS
    <3>3. Signal("notify_empty", "wait", q) \/ pc' = q
      BY <1>1 DEF WorkerFindsEmpty
    <3> HIDE DEF q
    <3>4. \A x \in Threads : \/ pc'[x] = q[x]
                             \/ q[x] \in {"notify", "notify_empty"} /\ pc'[x] \in {"top", "wait"}
      BY <3>1, <3>3, SignalWakes
    <3>5. QED BY <1>1, <3>2, <3>4 DEF WorkerFindsEmpty, Awake, Asleep
  <2>2. QED BY <2>1, MoreAwake
<1>2. ASSUME NEW w \in Workers, WorkerChecksShutdown(w)
      PROVE  NoStrandedTask'
  <2>1. queue_count' = 0
    BY <1>2 DEF WorkerChecksShutdown, CriticalSections
  <2>2. QED BY <2>1, AwakeFinite, StrandedByCounting
<1>3. ASSUME NEW w \in Workers, WorkerChecksHold(w)
      PROVE  NoStrandedTask'
  <2>1. Awake \subseteq Awake' /\ Asleep' \subseteq Asleep /\ queue_count' = queue_count
    BY <1>3 DEF WorkerChecksHold, Awake, Asleep
  <2>2. QED BY <2>1, MoreAwake
<1>4. ASSUME NEW w \in Workers, WorkerTakes(w)
      PROVE  NoStrandedTask'
  <2>1. Awake \subseteq Awake' /\ Asleep' \subseteq Asleep /\ queue_count' = queue_count - 1
    BY <1>4 DEF WorkerTakes, Dequeue, Awake, Asleep
  <2>2. QED BY <2>1, MoreAwake
<1>5. ASSUME NEW c \in Clients, NEW t \in Tasks, AddTask(c, t)
      PROVE  NoStrandedTask'
  <2>1. CASE queue_count = QueueSize
    <3>1. Awake' = Awake /\ Asleep' = Asleep /\ queue_count' = queue_count
      BY <1>5, <2>1 DEF AddTask, Awake, Asleep
    <3>2. QED BY <3>1, MoreAwake
  <2>2. CASE queue_count # QueueSize
    <3>1. Enqueue(t, pc)
      BY <1>5, <2>2 DEF AddTask
    <3>2. \A d \in Clients : pc[d] # "notify"
      BY DEF TypeOK, ClientPC
    <3>3. QED BY <3>1, <3>2, EnqueueWakes
  <2>3. QED BY <2>1, <2>2
<1>6. ASSUME NEW c \in Clients, NEW t \in Tasks, AddTaskTry(c, t)
      PROVE  NoStrandedTask'
  <2>1. Awake \subseteq Awake' /\ Asleep' \subseteq Asleep /\ queue_count' = queue_count
    BY <1>6 DEF AddTaskTry, MayCall, Awake, Asleep
  <2>2. QED BY <2>1, MoreAwake
<1>7. ASSUME NEW c \in Clients, TryAgain(c)
      PROVE  NoStrandedTask'
  <2> DEFINE q == [pc EXCEPT ![c] = "idle"]
  <2>1. /\ pc[c] = "try"
        /\ \/ pc' = q /\ UNCHANGED queue_count
           \/ pc' = pc /\ UNCHANGED queue_count
           \/ Enqueue(task[c], q)
    BY <1>7 DEF TryAgain
  <2>2. /\ q \in [Threads -> WorkerPC \cup ClientPC]
        /\ \A w \in Workers : q[w] = pc[w]
        /\ \A d \in Clients : q[d] # "notify"
    BY ThPoolAssumption DEF TypeOK, WorkerPC, ClientPC
  <2>3. CASE pc' \in {pc, q} /\ UNCHANGED queue_count
    <3>1. Awake' = Awake /\ Asleep' = Asleep
      BY <2>2, <2>3 DEF Awake, Asleep
    <3>2. QED BY <2>3, <3>1, MoreAwake
  <2>4. CASE Enqueue(task[c], q)
    <3> HIDE DEF q
    <3>1. QED BY <2>2, <2>4, EnqueueWakes
  <2>5. QED BY <2>1, <2>3, <2>4
<1>8. ASSUME NEW c \in Clients, Pause(c)
      PROVE  NoStrandedTask'
  <2>1. Awake \subseteq Awake' /\ Asleep' \subseteq Asleep /\ queue_count' = queue_count
    BY <1>8 DEF Pause, MayCall, Awake, Asleep
  <2>2. QED BY <2>1, MoreAwake
<1>9. ASSUME NEW c \in Clients, Resume(c)
      PROVE  NoStrandedTask'
  <2>1. Awake \subseteq Awake' /\ Asleep' \subseteq Asleep /\ queue_count' = queue_count
    BY <1>9 DEF Resume, MayCall, Awake, Asleep
  <2>2. QED BY <2>1, MoreAwake
<1>10. ASSUME NEW c \in Clients, ResumeSignals(c)
      PROVE  NoStrandedTask'
  <2> DEFINE q == [pc EXCEPT ![c] = "idle"]
  <2>1. Awake \subseteq Awake' /\ Asleep' \subseteq Asleep /\ queue_count' = queue_count
    <3>1. q \in [Threads -> WorkerPC \cup ClientPC]
      BY DEF WorkerPC, ClientPC
    <3>2. \A x \in Threads : q[x] = IF x = c THEN "idle" ELSE pc[x]
      OBVIOUS
    <3>3. Signal("notify", "top", q) \/ pc' = q
      BY <1>10 DEF ResumeSignals
    <3> HIDE DEF q
    <3>4. \A x \in Threads : \/ pc'[x] = q[x]
                             \/ q[x] \in {"notify", "notify_empty"} /\ pc'[x] \in {"top", "wait"}
      BY <3>1, <3>3, SignalWakes
    <3>5. QED BY <1>10, <3>2, <3>4 DEF ResumeSignals, Awake, Asleep
  <2>2. QED BY <2>1, MoreAwake
<1>11. ASSUME NEW c \in Clients, Wait(c)
      PROVE  NoStrandedTask'
  <2>1. Awake \subseteq Awake' /\ Asleep' \subseteq Asleep /\ queue_count' = queue_count
    BY <1>11 DEF Wait, MayCall, Awake, Asleep
  <2>2. QED BY <2>1, MoreAwake
<1>12. ASSUME NEW c \in Clients, WaitChecks(c)
      PROVE  NoStrandedTask'
  <2>1. Awake \subseteq Awake' /\ Asleep' \subseteq Asleep /\ queue_count' = queue_count
    BY <1>12 DEF WaitChecks, Awake, Asleep
  <2>2. QED BY <2>1, MoreAwake
<1>13. ASSUME NEW c \in Clients, TryOnce(c)
      PROVE  NoStrandedTask'
  <2>1. /\ Awake \subseteq Awake'
        /\ Asleep' \subseteq Asleep
        /\ queue_count' \in {queue_count, queue_count - 1}
    BY <1>13 DEF TryOnce, MayCall, Dequeue, Awake, Asleep
  <2>2. QED BY <2>1, MoreAwake
<1>14. ASSUME NEW c \in Clients, Shutdown(c)
      PROVE  NoStrandedTask'
  <2>1. Awake \subseteq Awake' /\ Asleep' \subseteq Asleep /\ queue_count' = queue_count
    BY <1>14 DEF Shutdown, MayCall, Awake, Asleep
  <2>2. QED BY <2>1, MoreAwake
<1>15. ASSUME NEW c \in Clients, ShutdownBroadcasts(c)
      PROVE  NoStrandedTask'
  <2>1. Awake \subseteq Awake' /\ Asleep' \subseteq Asleep /\ queue_count' = queue_count
    BY <1>15 DEF ShutdownBroadcasts, Broadcast, Awake, Asleep
  <2>2. QED BY <2>1, MoreAwake
<1>16. ASSUME NEW c \in Clients, ShutdownJoins(c)
      PROVE  NoStrandedTask'
  <2>1. Awake \subseteq Awake' /\ Asleep' \subseteq Asleep /\ queue_count' = queue_count
    BY <1>16 DEF ShutdownJoins, Awake, Asleep
  <2>2. QED BY <2>1, MoreAwake
<1>17. ASSUME NEW p \in Threads, Execute(p)
      PROVE  NoStrandedTask'
  <2>1. Awake \subseteq Awake' /\ Asleep' \subseteq Asleep /\ queue_count' = queue_count
    BY <1>17 DEF Execute, Awake, Asleep
  <2>2. QED BY <2>1, MoreAwake
<1>18. ASSUME NEW p \in Threads, Release(p)
      PROVE  NoStrandedTask'
  <2>1. Awake \subseteq Awake' /\ Asleep' \subseteq Asleep /\ queue_count' = queue_count
    BY <1>18 DEF Release, Awake, Asleep
  <2>2. QED BY <2>1, MoreAwake
<1>19. ASSUME NEW p \in Threads, SpuriousWakeup(p)
      PROVE  NoStrandedTask'
  <2>1. Awake \subseteq Awake' /\ Asleep' \subseteq Asleep /\ queue_count' = queue_count
    BY <1>19 DEF SpuriousWakeup, Awake, Asleep
  <2>2. QED BY <2>1, MoreAwake
<1>20. CASE UNCHANGED vars
  BY <1>20 DEF vars, dataVars, poolVars, queueVars, history, NoStrandedTask
<1>21. QED
  BY <1>1, <1>2, <1>3, <1>4, <1>5, <1>6, <1>7, <1>8, <1>9, <1>10, <1>11,
     <1>12, <1>13, <1>14, <1>15, <1>16, <1>17, <1>18, <1>19, <1>20 DEF Next,
     WorkerNext, ClientNext

-----------------------------------------------------------------------------
(* The initial state. *)
LEMMA InitIInv == Init => IInv
<1> SUFFICES ASSUME Init PROVE IInv
  OBVIOUS
<1> USE ThPoolAssumption DEF Init
<1>1. TypeOK
  <2>1. /\ head \in Slots /\ tail \in Slots
        /\ queue_count \in 0..QueueSize
        /\ running_count \in Int
        /\ max_try \in [Clients -> -1..MaxTry]
    BY DEF Slots
  <2>2. /\ pc \in [Threads -> WorkerPC \cup ClientPC]
        /\ \A w \in Workers : pc[w] \in WorkerPC
        /\ \A c \in Clients : pc[c] \in ClientPC
    BY DEF WorkerPC, ClientPC, Threads
  <2>3. QED BY <2>1, <2>2 DEF TypeOK
<1>2. TasksKnown
  <2>1. QueueSeq = <<>>
    BY QueueSeqType, <1>1
  <2>2. QED BY <2>1 DEF Threads, TasksKnown
<1>3. CriticalSections
  BY DEF CriticalSections, Threads
<1>4. CountsExact
  <2>1. Active = {}
    BY DEF Active, Threads
  <2>2. Cardinality(Active) = 0
    BY <2>1, FS_EmptySet
  <2>3. 0 = (0 + 0) % QueueSize
    BY ModSmall
  <2>4. QED BY <2>2, <2>3 DEF CountsExact, Active
<1>5. NoStrandedTask
  <2>1. Asleep = {}
    BY DEF Asleep, Threads
  <2>2. QED BY <2>1, StrandedByCounting
<1>6. QED BY <1>1, <1>2, <1>3, <1>4, <1>5 DEF IInv

LEMMA NextIInv == IInv /\ [Next]_vars => IInv'
BY TypeOKStep, TasksKnownStep, CriticalSectionsStep, CountsExactStep, NoStrandedTaskStep
   DEF IInv

THEOREM Invariance == Spec => []IInv
<1>1. QED BY InitIInv, NextIInv, PTL DEF Spec

(* Every variable keeps its type: in particular the ring indices stay inside   *)
(* the allocated task_queue and every stored or executed task is a real one.   *)
THEOREM TypeCorrect == Spec => []TypeOK
<1>1. IInv => TypeOK
  BY DEF IInv
<1>2. QED BY <1>1, Invariance, PTL

(* running_count is the number of threads that took a task and have not        *)
(* counted it off, and head, tail and queue_count agree, at every moment.      *)
THEOREM CountsAlwaysExact == Spec => []CountsExact
<1>1. IInv => CountsExact
  BY DEF IInv
<1>2. QED BY <1>1, Invariance, PTL

(* What a worker tested when it took the mutex still holds when it acts on it. *)
THEOREM CriticalSectionsHold == Spec => []CriticalSections
<1>1. IInv => CriticalSections
  BY DEF IInv
<1>2. QED BY <1>1, Invariance, PTL

(* As long as a worker sleeps there is an awake worker for every queued task,  *)
(* for any number of workers, submitters, helpers and pauses: one              *)
(* pthread_cond_signal per task never loses a wakeup.                          *)
THEOREM NoTaskStranded == Spec => []NoStrandedTask
<1>1. IInv => NoStrandedTask
  BY DEF IInv
<1>2. QED BY <1>1, Invariance, PTL

-----------------------------------------------------------------------------
(* A worker never starts a task that was added while the pool was on hold and  *)
(* has not been resumed since.                                                 *)
THEOREM ParkedTasksAlwaysStay == Spec => ParkedTasksStay
<1> DEFINE A == \A w \in Workers : pc[w] = "take" /\ pc'[w] = "run" => task'[w] \notin parked
<1>1. IInv => A
  BY DEF IInv, CriticalSections
<1> HIDE DEF A
<1>2. IInv => [A]_vars
  BY <1>1
<1>3. Spec => [][A]_vars
  BY <1>2, Invariance, PTL DEF Spec
<1>4. QED BY <1>3 DEF ParkedTasksStay, A

-----------------------------------------------------------------------------
(* A client that leaves thpool_wait leaves behind no unfinished task and no    *)
(* thread that has not counted its task off.                                   *)
WaitCompletes ==
  \A c \in Clients :
    pc[c] = "wait" /\ pc'[c] = "idle" => Accepted \subseteq done /\ Active = {}

LEMMA NothingLeft ==
  ASSUME IInv, queue_count = 0, running_count = 0
  PROVE  Accepted \subseteq done /\ Active = {}
<1>1. Queued = {}
  BY DEF Queued
<1>2. Active = {}
  <2>1. Cardinality(Active) = 0
    BY DEF IInv, CountsExact, Active
  <2>2. QED BY <2>1, ActiveFinite, FS_EmptySet
<1>3. InHand = {}
  BY <1>2 DEF InHand, Executing, Active
<1>4. QED BY <1>1, <1>2, <1>3 DEF Accepted

(* Only the test of WaitChecks leads out of thpool_wait. *)
LEMMA WaitStep ==
  ASSUME IInv, [Next]_vars
  PROVE  WaitCompletes
<1>pc. pc \in [Threads -> WorkerPC \cup ClientPC]
  BY DEF IInv, TypeOK
<1>thr. Threads = Workers \cup Clients
  BY DEF Threads
<1> USE <1>pc, <1>thr DEF WaitCompletes
<1>1. ASSUME NEW w \in Workers, WorkerFindsEmpty(w)
      PROVE  WaitCompletes
  <2> DEFINE q == [pc EXCEPT ![w] = "empty"]
  <2>1. q \in [Threads -> WorkerPC \cup ClientPC]
    BY DEF WorkerPC, ClientPC
  <2>2. \A x \in Threads : q[x] = IF x = w THEN "empty" ELSE pc[x]
    OBVIOUS
  <2>3. Signal("notify_empty", "wait", q) \/ pc' = q
    BY <1>1 DEF WorkerFindsEmpty
  <2> HIDE DEF q
  <2>4. \A x \in Threads : pc'[x] = q[x] \/ pc'[x] \in {"top", "wait"}
    BY <2>1, <2>3, SignalWakes
  <2>5. QED BY <1>1, <2>2, <2>4 DEF WorkerFindsEmpty
<1>2. ASSUME NEW w \in Workers, WorkerChecksShutdown(w)
      PROVE  WaitCompletes
  BY <1>2 DEF WorkerChecksShutdown
<1>3. ASSUME NEW w \in Workers, WorkerChecksHold(w)
      PROVE  WaitCompletes
  BY <1>3 DEF WorkerChecksHold
<1>4. ASSUME NEW w \in Workers, WorkerTakes(w)
      PROVE  WaitCompletes
  BY <1>4 DEF WorkerTakes, Dequeue
<1>5. ASSUME NEW c \in Clients, NEW t \in Tasks, AddTask(c, t)
      PROVE  WaitCompletes
  <2>1. \A x \in Threads : pc'[x] = pc[x] \/ pc'[x] \in {"top", "wait"}
    BY <1>5, SignalWakes DEF AddTask, Enqueue
  <2>2. QED BY <2>1
<1>6. ASSUME NEW c \in Clients, NEW t \in Tasks, AddTaskTry(c, t)
      PROVE  WaitCompletes
  BY <1>6 DEF AddTaskTry, MayCall
<1>7. ASSUME NEW c \in Clients, TryAgain(c)
      PROVE  WaitCompletes
  <2> DEFINE q == [pc EXCEPT ![c] = "idle"]
  <2>1. q \in [Threads -> WorkerPC \cup ClientPC]
    BY DEF WorkerPC, ClientPC
  <2>2. \A x \in Threads : q[x] = IF x = c THEN "idle" ELSE pc[x]
    OBVIOUS
  <2>3. pc[c] = "try" /\ (Signal("notify", "top", q) \/ pc' \in {pc, q})
    BY <1>7 DEF TryAgain, Enqueue
  <2> HIDE DEF q
  <2>4. \A x \in Threads : pc'[x] \in {pc[x], q[x], "top", "wait"}
    BY <2>1, <2>3, SignalWakes
  <2>5. QED BY <2>2, <2>3, <2>4
<1>8. ASSUME NEW c \in Clients, Pause(c)
      PROVE  WaitCompletes
  BY <1>8 DEF Pause, MayCall
<1>9. ASSUME NEW c \in Clients, Resume(c)
      PROVE  WaitCompletes
  BY <1>9 DEF Resume, MayCall
<1>10. ASSUME NEW c \in Clients, ResumeSignals(c)
      PROVE  WaitCompletes
  <2> DEFINE q == [pc EXCEPT ![c] = "idle"]
  <2>1. q \in [Threads -> WorkerPC \cup ClientPC]
    BY DEF WorkerPC, ClientPC
  <2>2. \A x \in Threads : q[x] = IF x = c THEN "idle" ELSE pc[x]
    OBVIOUS
  <2>3. Signal("notify", "top", q) \/ pc' = q
    BY <1>10 DEF ResumeSignals
  <2> HIDE DEF q
  <2>4. \A x \in Threads : pc'[x] = q[x] \/ pc'[x] \in {"top", "wait"}
    BY <2>1, <2>3, SignalWakes
  <2>5. QED BY <1>10, <2>2, <2>4 DEF ResumeSignals
<1>11. ASSUME NEW c \in Clients, Wait(c)
      PROVE  WaitCompletes
  BY <1>11 DEF Wait, MayCall
<1>12. ASSUME NEW c \in Clients, WaitChecks(c)
      PROVE  WaitCompletes
  <2>1. CASE queue_count = 0 /\ running_count = 0
    BY <2>1, NothingLeft
  <2>2. CASE ~(queue_count = 0 /\ running_count = 0)
    BY <1>12, <2>2 DEF WaitChecks
  <2>3. QED BY <2>1, <2>2
<1>13. ASSUME NEW c \in Clients, TryOnce(c)
      PROVE  WaitCompletes
  BY <1>13 DEF TryOnce, MayCall, Dequeue
<1>14. ASSUME NEW c \in Clients, Shutdown(c)
      PROVE  WaitCompletes
  BY <1>14 DEF Shutdown, MayCall
<1>15. ASSUME NEW c \in Clients, ShutdownBroadcasts(c)
      PROVE  WaitCompletes
  BY <1>15 DEF ShutdownBroadcasts, Broadcast
<1>16. ASSUME NEW c \in Clients, ShutdownJoins(c)
      PROVE  WaitCompletes
  BY <1>16 DEF ShutdownJoins
<1>17. ASSUME NEW p \in Threads, Execute(p)
      PROVE  WaitCompletes
  BY <1>17 DEF Execute
<1>18. ASSUME NEW p \in Threads, Release(p)
      PROVE  WaitCompletes
  BY <1>18 DEF Release
<1>19. ASSUME NEW p \in Threads, SpuriousWakeup(p)
      PROVE  WaitCompletes
  BY <1>19 DEF SpuriousWakeup
<1>20. CASE UNCHANGED vars
  BY <1>20 DEF vars
<1>21. QED
  BY <1>1, <1>2, <1>3, <1>4, <1>5, <1>6, <1>7, <1>8, <1>9, <1>10, <1>11,
     <1>12, <1>13, <1>14, <1>15, <1>16, <1>17, <1>18, <1>19, <1>20 DEF Next,
     WorkerNext, ClientNext

(* When thpool_wait returns, every task accepted so far has been executed,     *)
(* whichever thread executed it and whoever submits meanwhile.                 *)
THEOREM WaitAlwaysSeesAllDone == Spec => WaitSeesAllDone
<1> DEFINE A == \A c \in Clients : pc[c] = "wait" /\ pc'[c] = "idle" => Accepted \subseteq done
<1>1. IInv /\ [Next]_vars => A
  BY WaitStep DEF WaitCompletes
<1> HIDE DEF A
<1>2. IInv /\ [Next]_vars => [A]_vars
  BY <1>1
<1>3. Spec => [][A]_vars
  BY <1>2, Invariance, PTL DEF Spec
<1>4. QED BY <1>3, PTL DEF WaitSeesAllDone, A

(* No thpool_wait returns while a thread is between taking a task and counting *)
(* it off.  So a task that calls thpool_wait on the pool that executes it, and *)
(* is counted itself, keeps its own call and all others from returning         *)
(* (lines 221, 344-351).                                                       *)
THEOREM WaitNeedsIdlePool ==
  Spec => [][\A c \in Clients : pc[c] = "wait" /\ pc'[c] = "idle" => Active = {}]_vars
<1> DEFINE A == \A c \in Clients : pc[c] = "wait" /\ pc'[c] = "idle" => Active = {}
<1>1. IInv /\ [Next]_vars => A
  BY WaitStep DEF WaitCompletes
<1> HIDE DEF A
<1>2. IInv /\ [Next]_vars => [A]_vars
  BY <1>1
<1>3. Spec => [][A]_vars
  BY <1>2, Invariance, PTL DEF Spec
<1>4. QED BY <1>3, PTL DEF A

-----------------------------------------------------------------------------
(* How far a thread may move in one step of anybody.                          *)
MoveOf(p) ==
  \/ pc'[p] = pc[p]
  \/ pc[p] = "top" /\ pc'[p] \in {"empty", "take"}
  \/ pc[p] = "empty" /\ pc'[p] = IF shutdown THEN "exited" ELSE "notify"
  \/ pc[p] = "notify" /\ pc'[p] = "top"
  \/ pc[p] = "take" /\ pc'[p] = "run"
  \/ pc[p] = "run" /\ pc'[p] = "dec"
  \/ pc[p] = "dec" /\ pc'[p] = IF p \in Workers THEN "top" ELSE "idle"
  \/ pc[p] = "idle" /\ "add_task_try" \in Calls[p] /\ pc'[p] = "try"
  \/ pc[p] = "idle" /\ "resume" \in Calls[p] /\ pc'[p] = "resume"
  \/ pc[p] = "idle" /\ "wait" \in Calls[p] /\ pc'[p] = "wait"
  \/ pc[p] = "idle" /\ "try_once" \in Calls[p] /\ pc'[p] = "run"
  \/ pc[p] = "idle" /\ shutdown' /\ pc'[p] = "broadcast"
  \/ pc[p] \in {"try", "resume", "wait", "join"} /\ pc'[p] = "idle"
  \/ pc[p] = "wait" /\ pc'[p] = "notify_empty"
  \/ pc[p] = "notify_empty" /\ pc'[p] = "wait"
  \/ pc[p] = "broadcast" /\ pc'[p] = "join"

(* What holds of a step of anybody: threads move along their code, shutdown    *)
(* is for good, and the broadcast of thpool_shutdown leaves no worker asleep.  *)
Moves ==
  /\ \A p \in Threads : MoveOf(p)
  /\ shutdown => shutdown'
  /\ \A c \in Clients :
       pc[c] = "broadcast" /\ pc'[c] = "join" => \A w \in Workers : pc'[w] # "notify"

(* No worker sees an empty queue, no client starts to wait, and only a worker  *)
(* or a helper takes a task.                                                   *)
LeavesWaitersAlone ==
  /\ \A w \in Workers : pc'[w] = "empty" => pc[w] = "empty"
  /\ \A c \in Clients : pc'[c] = "notify_empty" => pc[c] = "notify_empty"
  /\ \/ queue_count' >= queue_count
     \/ \E w \in Workers : pc[w] = "take"
     \/ \E c \in Clients : "try_once" \in Calls[c]

(* The steps that do not leave waiters alone are two.                          *)
StepKind ==
  /\ Moves
  /\ \/ \E w \in Workers : WorkerFindsEmpty(w)
     \/ \E c \in Clients : WaitChecks(c)
     \/ LeavesWaitersAlone

LEMMA StepKinds ==
  ASSUME TypeOK, CriticalSections, [Next]_vars
  PROVE  StepKind
<1>pc. pc \in [Threads -> WorkerPC \cup ClientPC]
  BY DEF TypeOK
<1>own. /\ \A w \in Workers : pc[w] \in WorkerPC
        /\ \A c \in Clients : pc[c] \in ClientPC
  BY DEF TypeOK
<1>thr. Threads = Workers \cup Clients /\ Workers \cap Clients = {}
  BY ThPoolAssumption DEF Threads
<1>cnt. queue_count \in Int
  BY ThPoolAssumption DEF TypeOK
<1> USE <1>pc, <1>own, <1>thr, <1>cnt DEF dataVars, poolVars, queueVars, history
<1>1. ASSUME NEW w \in Workers, WorkerFindsEmpty(w)
      PROVE  StepKind
  <2> DEFINE q == [pc EXCEPT ![w] = "empty"]
  <2>1. q \in [Threads -> WorkerPC \cup ClientPC]
    BY DEF WorkerPC, ClientPC
  <2>2. \A x \in Threads : q[x] = IF x = w THEN "empty" ELSE pc[x]
    OBVIOUS
  <2>3. pc[w] = "top" /\ shutdown' = shutdown
        /\ (Signal("notify_empty", "wait", q) \/ pc' = q)
    BY <1>1 DEF WorkerFindsEmpty
  <2> HIDE DEF q
  <2>4. \A x \in Threads : \/ pc'[x] = q[x]
                           \/ pc'[x] = pc[x]
                           \/ q[x] = "notify" /\ pc'[x] = "top"
                           \/ q[x] = "notify_empty" /\ pc'[x] = "wait"
    BY <2>1, <2>3, SignalWakes
  <2>5. \A x \in Threads : \/ pc'[x] = pc[x]
                           \/ x = w /\ pc'[x] = "empty"
                           \/ pc[x] = "notify" /\ pc'[x] = "top"
                           \/ pc[x] = "notify_empty" /\ pc'[x] = "wait"
    BY <2>2, <2>4
  <2>6. QED BY <1>1, <2>3, <2>5 DEF StepKind, Moves, MoveOf, LeavesWaitersAlone, WorkerPC, ClientPC
<1>2. ASSUME NEW w \in Workers, WorkerChecksShutdown(w)
      PROVE  StepKind
  BY <1>2 DEF WorkerChecksShutdown, MayCall, StepKind, Moves, MoveOf, LeavesWaitersAlone, WorkerPC, ClientPC
<1>3. ASSUME NEW w \in Workers, WorkerChecksHold(w)
      PROVE  StepKind
  BY <1>3 DEF WorkerChecksHold, MayCall, StepKind, Moves, MoveOf, LeavesWaitersAlone, WorkerPC, ClientPC
<1>4. ASSUME NEW w \in Workers, WorkerTakes(w)
      PROVE  StepKind
  BY <1>4 DEF WorkerTakes, MayCall, Dequeue, StepKind, Moves, MoveOf, LeavesWaitersAlone, WorkerPC, ClientPC
<1>5. ASSUME NEW c \in Clients, NEW t \in Tasks, AddTask(c, t)
      PROVE  StepKind
  <2>1. /\ \A x \in Threads : \/ pc'[x] = pc[x]
                              \/ pc[x] = "notify" /\ pc'[x] = "top"
                              \/ pc[x] = "notify_empty" /\ pc'[x] = "wait"
        /\ queue_count' >= queue_count
    <3>1. CASE queue_count = QueueSize
      BY <1>5, <3>1 DEF AddTask
    <3>2. CASE queue_count # QueueSize
      <4>1. Signal("notify", "top", pc) /\ queue_count' = queue_count + 1
        BY <1>5, <3>2 DEF AddTask, Enqueue, Insert
      <4>2. QED BY <4>1, SignalWakes
    <3>3. QED BY <3>1, <3>2
  <2>2. shutdown' = shutdown
    BY <1>5 DEF AddTask
  <2>3. QED BY <2>1, <2>2 DEF StepKind, Moves, MoveOf, LeavesWaitersAlone, WorkerPC, ClientPC
<1>6. ASSUME NEW c \in Clients, NEW t \in Tasks, AddTaskTry(c, t)
      PROVE  StepKind
  BY <1>6 DEF AddTaskTry, MayCall, StepKind, Moves, MoveOf, LeavesWaitersAlone, WorkerPC, ClientPC
<1>7. ASSUME NEW c \in Clients, TryAgain(c)
      PROVE  StepKind
  <2> DEFINE q == [pc EXCEPT ![c] = "idle"]
  <2>1. q \in [Threads -> WorkerPC \cup ClientPC]
    BY DEF WorkerPC, ClientPC
  <2>2. \A x \in Threads : q[x] = IF x = c THEN "idle" ELSE pc[x]
    OBVIOUS
  <2>3. pc[c] = "try" /\ shutdown' = shutdown /\ queue_count' >= queue_count
        /\ (Signal("notify", "top", q) \/ pc' \in {pc, q})
    BY <1>7 DEF TryAgain, Enqueue, Insert
  <2> HIDE DEF q
  <2>4. \A x \in Threads : \/ pc'[x] = q[x]
                           \/ pc'[x] = pc[x]
                           \/ q[x] = "notify" /\ pc'[x] = "top"
                           \/ q[x] = "notify_empty" /\ pc'[x] = "wait"
    BY <2>1, <2>3, SignalWakes
  <2>5. \A x \in Threads : \/ pc'[x] = pc[x]
                           \/ x = c /\ pc'[x] = "idle"
                           \/ pc[x] = "notify" /\ pc'[x] = "top"
                           \/ pc[x] = "notify_empty" /\ pc'[x] = "wait"
    BY <2>2, <2>4
  <2>6. QED BY <1>7, <2>3, <2>5 DEF StepKind, Moves, MoveOf, LeavesWaitersAlone, WorkerPC, ClientPC
<1>8. ASSUME NEW c \in Clients, Pause(c)
      PROVE  StepKind
  BY <1>8 DEF Pause, MayCall, StepKind, Moves, MoveOf, LeavesWaitersAlone, WorkerPC, ClientPC
<1>9. ASSUME NEW c \in Clients, Resume(c)
      PROVE  StepKind
  BY <1>9 DEF Resume, MayCall, StepKind, Moves, MoveOf, LeavesWaitersAlone, WorkerPC, ClientPC
<1>10. ASSUME NEW c \in Clients, ResumeSignals(c)
      PROVE  StepKind
  <2> DEFINE q == [pc EXCEPT ![c] = "idle"]
  <2>1. q \in [Threads -> WorkerPC \cup ClientPC]
    BY DEF WorkerPC, ClientPC
  <2>2. \A x \in Threads : q[x] = IF x = c THEN "idle" ELSE pc[x]
    OBVIOUS
  <2>3. pc[c] = "resume" /\ shutdown' = shutdown /\ queue_count' = queue_count
        /\ Signal("notify", "top", q)
    BY <1>10 DEF ResumeSignals
  <2> HIDE DEF q
  <2>4. \A x \in Threads : \/ pc'[x] = q[x]
                           \/ pc'[x] = pc[x]
                           \/ q[x] = "notify" /\ pc'[x] = "top"
                           \/ q[x] = "notify_empty" /\ pc'[x] = "wait"
    BY <2>1, <2>3, SignalWakes
  <2>5. \A x \in Threads : \/ pc'[x] = pc[x]
                           \/ x = c /\ pc'[x] = "idle"
                           \/ pc[x] = "notify" /\ pc'[x] = "top"
                           \/ pc[x] = "notify_empty" /\ pc'[x] = "wait"
    BY <2>2, <2>4
  <2>6. QED BY <1>10, <2>3, <2>5 DEF StepKind, Moves, MoveOf, LeavesWaitersAlone, WorkerPC, ClientPC
<1>11. ASSUME NEW c \in Clients, Wait(c)
      PROVE  StepKind
  BY <1>11 DEF Wait, MayCall, StepKind, Moves, MoveOf, LeavesWaitersAlone, WorkerPC, ClientPC
<1>12. ASSUME NEW c \in Clients, WaitChecks(c)
      PROVE  StepKind
  BY <1>12 DEF WaitChecks, MayCall, StepKind, Moves, MoveOf, LeavesWaitersAlone, WorkerPC, ClientPC
<1>13. ASSUME NEW c \in Clients, TryOnce(c)
      PROVE  StepKind
  BY <1>13 DEF TryOnce, MayCall, Dequeue, StepKind, Moves, MoveOf, LeavesWaitersAlone, WorkerPC, ClientPC
<1>14. ASSUME NEW c \in Clients, Shutdown(c)
      PROVE  StepKind
  BY <1>14 DEF Shutdown, MayCall, StepKind, Moves, MoveOf, LeavesWaitersAlone, WorkerPC, ClientPC
<1>15. ASSUME NEW c \in Clients, ShutdownBroadcasts(c)
      PROVE  StepKind
  BY <1>15 DEF ShutdownBroadcasts, MayCall, Broadcast, StepKind, Moves, MoveOf, LeavesWaitersAlone, WorkerPC, ClientPC
<1>16. ASSUME NEW c \in Clients, ShutdownJoins(c)
      PROVE  StepKind
  BY <1>16 DEF ShutdownJoins, MayCall, StepKind, Moves, MoveOf, LeavesWaitersAlone, WorkerPC, ClientPC
<1>17. ASSUME NEW p \in Threads, Execute(p)
      PROVE  StepKind
  BY <1>17 DEF Execute, MayCall, StepKind, Moves, MoveOf, LeavesWaitersAlone, WorkerPC, ClientPC
<1>18. ASSUME NEW p \in Threads, Release(p)
      PROVE  StepKind
  BY <1>18 DEF Release, MayCall, StepKind, Moves, MoveOf, LeavesWaitersAlone, WorkerPC, ClientPC
<1>19. ASSUME NEW p \in Threads, SpuriousWakeup(p)
      PROVE  StepKind
  BY <1>19 DEF SpuriousWakeup, MayCall, StepKind, Moves, MoveOf, LeavesWaitersAlone, WorkerPC, ClientPC
<1>20. CASE UNCHANGED vars
  BY <1>20 DEF vars, StepKind, Moves, MoveOf, LeavesWaitersAlone
<1>21. QED
  BY <1>1, <1>2, <1>3, <1>4, <1>5, <1>6, <1>7, <1>8, <1>9, <1>10, <1>11,
     <1>12, <1>13, <1>14, <1>15, <1>16, <1>17, <1>18, <1>19, <1>20 DEF Next,
     WorkerNext, ClientNext

(* Who is where in a call, and that a shutdown that got past its store is one. *)
Callers ==
  \A c \in Clients :
    /\ pc[c] \in {"wait", "notify_empty"} => "wait" \in Calls[c]
    /\ pc[c] \in {"run", "dec"} => "try_once" \in Calls[c]
    /\ pc[c] \in {"broadcast", "join"} => shutdown

LEMMA CallersStep ==
  ASSUME TypeOK, Callers, StepKind
  PROVE  Callers'
<1>1. Threads = Workers \cup Clients
  BY DEF Threads
<1>2. \A c \in Clients : pc[c] \in ClientPC
  BY DEF TypeOK
<1>3. (\A c \in Clients : MoveOf(c)) /\ (shutdown => shutdown')
  BY <1>1 DEF StepKind, Moves
<1>4. QED BY <1>2, <1>3 DEF Callers, MoveOf, ClientPC

LEMMA JoinStep ==
  ASSUME TypeOK, Callers, JoinFindsNoSleeper, StepKind
  PROVE  JoinFindsNoSleeper'
<1>1. Threads = Workers \cup Clients
  BY DEF Threads
<1>2. /\ \A w \in Workers : pc[w] \in WorkerPC
      /\ \A c \in Clients : pc[c] \in ClientPC
  BY DEF TypeOK
<1>3. SUFFICES ASSUME NEW c \in Clients, pc'[c] = "join"
               PROVE  \A w \in Workers : pc'[w] # "notify"
  BY DEF JoinFindsNoSleeper
<1>4. MoveOf(c) /\ \A w \in Workers : MoveOf(w)
  BY <1>1 DEF StepKind, Moves
<1>5. pc[c] = "join" \/ pc[c] = "broadcast"
  BY <1>2, <1>3, <1>4 DEF MoveOf, ClientPC
<1>6. CASE pc[c] = "broadcast"
  BY <1>3, <1>6 DEF StepKind, Moves
<1>7. CASE pc[c] = "join"
  <2>1. shutdown /\ \A w \in Workers : pc[w] # "notify"
    BY <1>7 DEF Callers, JoinFindsNoSleeper
  <2>2. QED BY <1>2, <1>4, <2>1 DEF MoveOf, WorkerPC
<1>8. QED BY <1>5, <1>6, <1>7

-----------------------------------------------------------------------------
(* What WaiterHasWaker rests on: at most one client calls thpool_wait, and     *)
(* none calls thpool_worker_try_once.                                          *)
OneWaiter == \A c, d \in Clients : "wait" \in Calls[c] \cap Calls[d] => c = d
NoHelper == \A c \in Clients : "try_once" \notin Calls[c]

(* A worker that has a task in hand is the waker of whoever starts to wait.    *)
LEMMA ActiveWorker ==
  ASSUME TypeOK, CountsExact, Callers, NoHelper, running_count # 0
  PROVE  \E w \in Workers : pc[w] \in {"run", "dec"}
<1>1. Active # {}
  BY FS_EmptySet DEF CountsExact, Active
<1>2. QED BY <1>1 DEF Active, Threads, Callers, NoHelper

(* So is, for a queued task, a worker that is not asleep and has not left.     *)
LEMMA AwakeWorker ==
  ASSUME TypeOK, CriticalSections, NoStrandedTask, queue_count # 0
  PROVE  \/ \E w \in Workers : pc[w] \in {"top", "take", "run", "dec"}
         \/ (\A w \in Workers : pc[w] = "exited") /\ queue_count > 0
<1>1. queue_count \in Nat /\ queue_count > 0
  BY ThPoolAssumption DEF TypeOK
<1>2. \A w \in Workers : pc[w] \in WorkerPC /\ pc[w] # "empty"
  BY <1>1 DEF TypeOK, CriticalSections
<1>3. CASE Asleep # {}
  <2>1. Awake # {}
    <3>1. Cardinality(Awake) # 0
      BY <1>1, <1>3, AwakeFinite, StrandedByCounting
    <3>2. QED BY <3>1, FS_EmptySet
  <2>2. QED BY <1>2, <2>1 DEF Awake, WorkerPC
<1>4. CASE Asleep = {}
  BY <1>1, <1>2, <1>4 DEF Asleep, WorkerPC
<1>5. QED BY <1>3, <1>4

LEMMA WakerStep ==
  ASSUME IInv, TypeOK', Callers, WaiterHasWaker, StepKind, OneWaiter, NoHelper
  PROVE  WaiterHasWaker'
<1>typ. TypeOK /\ CriticalSections /\ CountsExact /\ NoStrandedTask
  BY DEF IInv
<1>pc. /\ pc \in [Threads -> WorkerPC \cup ClientPC]
       /\ \A w \in Workers : pc[w] \in WorkerPC
       /\ \A c \in Clients : pc[c] \in ClientPC
       /\ Threads = Workers \cup Clients /\ Workers \cap Clients = {}
  BY <1>typ, ThPoolAssumption DEF TypeOK, Threads
<1>cnt. queue_count \in Int /\ queue_count' \in Int
  BY <1>typ, ThPoolAssumption DEF TypeOK
<1>1. ASSUME NEW w \in Workers, WorkerFindsEmpty(w)
      PROVE  WaiterHasWaker'
  <2> DEFINE q == [pc EXCEPT ![w] = "empty"]
  <2>1. CASE running_count = 0
    <3>1. Signal("notify_empty", "wait", q)
      BY <1>1, <2>1 DEF WorkerFindsEmpty
    <3>2. /\ q \in [Threads -> WorkerPC \cup ClientPC]
          /\ \A x \in Threads : q[x] = "notify_empty" <=> pc[x] = "notify_empty"
      BY <1>1, <1>pc DEF WorkerFindsEmpty, WorkerPC
    <3> HIDE DEF q
    <3>3. "wait" \in WorkerPC \cup ClientPC
      BY DEF ClientPC
    <3>4. \/ pc' = q /\ \A x \in Threads : q[x] # "notify_empty"
          \/ \E x \in Threads : q[x] = "notify_empty" /\ pc' = [q EXCEPT ![x] = "wait"]
      BY <3>1, <3>2, <3>3, SignalMoves
    <3>5. \A c \in Clients : pc'[c] # "notify_empty"
      <4>1. CASE pc' = q /\ \A x \in Threads : q[x] # "notify_empty"
        BY <1>pc, <4>1
      <4>2. ASSUME NEW x \in Threads, q[x] = "notify_empty", pc' = [q EXCEPT ![x] = "wait"],
                   NEW c \in Clients, pc'[c] = "notify_empty"
            PROVE  FALSE
        <5>1. c # x /\ pc[c] = "notify_empty" /\ pc[x] = "notify_empty"
          BY <1>pc, <3>2, <4>2
        <5>2. x \in Clients
          BY <1>pc, <5>1 DEF WorkerPC
        <5>3. QED BY <5>1, <5>2 DEF Callers, OneWaiter
      <4>3. QED BY <3>4, <4>1, <4>2
    <3>6. QED BY <3>5 DEF WaiterHasWaker
  <2>2. CASE running_count # 0
    <3>1. PICK v \in Workers : pc[v] \in {"run", "dec"}
      BY <1>typ, <2>2, ActiveWorker
    <3>2. pc'[v] = pc[v]
      BY <1>1, <1>pc, <2>2, <3>1 DEF WorkerFindsEmpty
    <3>3. QED BY <3>1, <3>2 DEF WaiterHasWaker
  <2>3. QED BY <2>1, <2>2
<1>2. ASSUME NEW c \in Clients, WaitChecks(c)
      PROVE  WaiterHasWaker'
  <2>1. /\ \A w \in Workers : pc'[w] = pc[w]
        /\ queue_count' = queue_count
        /\ \A d \in Clients : pc'[d] = "notify_empty" =>
              pc[d] = "notify_empty" \/ queue_count # 0 \/ running_count # 0
    BY <1>2, <1>pc DEF WaitChecks, dataVars, queueVars
  <2>2. CASE queue_count # 0
    BY <1>typ, <2>1, <2>2, AwakeWorker DEF WaiterHasWaker
  <2>3. CASE running_count # 0
    BY <1>typ, <2>1, <2>3, ActiveWorker DEF WaiterHasWaker
  <2>4. CASE queue_count = 0 /\ running_count = 0
    BY <2>1, <2>4 DEF WaiterHasWaker
  <2>5. QED BY <2>2, <2>3, <2>4
<1>3. CASE LeavesWaitersAlone
  <2>1. \A w \in Workers : MoveOf(w)
    BY <1>pc DEF StepKind, Moves
  <2>2. ASSUME NEW w \in Workers, pc[w] \in {"top", "take", "run", "dec"}
        PROVE  pc'[w] \in {"top", "take", "run", "dec"}
    BY <1>3, <2>1, <2>2 DEF MoveOf, LeavesWaitersAlone
  <2>3. ASSUME \A w \in Workers : pc[w] = "exited"
        PROVE  (\A w \in Workers : pc'[w] = "exited") /\ queue_count' >= queue_count
    BY <1>3, <2>1, <2>3 DEF MoveOf, LeavesWaitersAlone, NoHelper
  <2>4. CASE \E c \in Clients : pc'[c] = "notify_empty"
    <3>1. \E c \in Clients : pc[c] = "notify_empty"
      BY <1>3, <2>4 DEF LeavesWaitersAlone
    <3>2. CASE \E w \in Workers : pc[w] \in {"top", "take", "run", "dec"}
      BY <2>2, <3>2 DEF WaiterHasWaker
    <3>3. CASE (\A w \in Workers : pc[w] = "exited") /\ queue_count > 0
      BY <1>cnt, <2>3, <3>3 DEF WaiterHasWaker
    <3>4. QED BY <3>1, <3>2, <3>3 DEF WaiterHasWaker
  <2>5. QED BY <2>4 DEF WaiterHasWaker
<1>4. QED BY <1>1, <1>2, <1>3 DEF StepKind

-----------------------------------------------------------------------------
(* Once thpool_shutdown waits for the workers to end, none of them sleeps on   *)
(* notify, whoever calls what: the store of shutdown, which is made without    *)
(* the mutex, never slips past a worker on its way to sleep.                   *)
THEOREM JoinNeverFindsSleeper == Spec => [](Callers /\ JoinFindsNoSleeper)
<1>1. Init => Callers /\ JoinFindsNoSleeper
  BY DEF Init, Callers, JoinFindsNoSleeper, Threads
<1>2. IInv /\ Callers /\ JoinFindsNoSleeper /\ [Next]_vars
        => (Callers /\ JoinFindsNoSleeper)'
  BY StepKinds, CallersStep, JoinStep DEF IInv
<1>3. QED BY <1>1, <1>2, Invariance, PTL DEF Spec

(* With one waiter and no helper, a thpool_wait that blocks always has a       *)
(* worker that will wake it, for any number of workers, submitters, pauses and *)
(* a shutdown at any moment; the exception are tasks that thpool_add_task      *)
(* accepts when all workers have left.                                         *)
THEOREM NobodyEverForgotten ==
  ASSUME OneWaiter, NoHelper
  PROVE  Spec => []NobodyForgotten
<1>1. Init => WaiterHasWaker
  BY DEF Init, WaiterHasWaker, Threads
<1>2. IInv /\ Callers /\ WaiterHasWaker /\ [Next]_vars => WaiterHasWaker'
  BY StepKinds, WakerStep, NextIInv DEF IInv
<1>3. Spec => []WaiterHasWaker
  BY <1>1, <1>2, Invariance, JoinNeverFindsSleeper, PTL DEF Spec
<1>4. QED BY <1>3, JoinNeverFindsSleeper, PTL DEF NobodyForgotten
=============================================================================
