--------------------------- MODULE LfThPoolProofs ---------------------------
(***************************************************************************)
(* The lock-free pool, for any numbers of workers, clients and tasks and   *)
(* any queue size: its nodes have one owner each, running_count is exact,  *)
(* a wait misses only what is between the queue and the counter, a pause   *)
(* is overtaken by one task of each worker, and the pool is a task pool.   *)
(***************************************************************************)
EXTENDS LfThPool, FiniteSetTheorems, SequenceTheorems, TLAPS

(* Exactly the threads that are about to use or free a task hold one.        *)
TasksHeld ==
  \A p \in Threads :
    task[p] # None <=> \/ pc[p] \in {"try", "count", "run", "free"}
                       \/ p \in Workers /\ pc[p] = "dec"

(* A task that is still tried to be added has not been executed.             *)
TriedNotDone == \A c \in Clients : pc[c] = "try" => task[c] \notin done

DistinctQueue == \A i, j \in 1..Len(queue) : queue[i] = queue[j] => i = j

Ownership ==
  /\ heap = Queued \cup {task[p] : p \in Holders}
  /\ DistinctQueue
  /\ \A p, q \in Holders : task[p] = task[q] => p = q
  /\ \A p \in Holders : task[p] \notin Queued

(* One client destroys the pool, when all others are done with it, and frees *)
(* what is left when all workers have left.                                  *)
Destruction ==
  /\ \A w \in Workers : w \notin handles => pc[w] = "exited"
  /\ \A c \in Clients : pc[c] = "delete" => destroyed /\ \A w \in Workers : pc[w] = "exited"
  /\ destroyed =>
       /\ \A c \in Clients : pc[c] \in {"idle", "join", "delete"}
       /\ \A c, d \in Clients : pc[c] # "idle" /\ pc[d] # "idle" => c = d
       /\ (\A c \in Clients : pc[c] = "idle") => heap = {}

(* What a wait has to see executed was accepted, is not added again, and has *)
(* left the queue once the wait found the queue empty.                       *)
WaitsKnow ==
  /\ \A c \in Clients : due[c] # {} => pc[c] \in {"active", "len", "recheck"}
  /\ \A c \in Clients : due[c] \subseteq Accepted
  /\ \A c \in Clients : pc[c] = "recheck" => due[c] \cap Queued = {}
  /\ \A c, d \in Clients : pc[d] = "try" => task[d] \notin due[c]

LateTakeNoMore == \A w \in late : hold /\ pc[w] # "dequeue"

IInv ==
  /\ TypeOK
  /\ TasksHeld
  /\ TriedNotDone
  /\ Ownership
  /\ CountExact
  /\ Destruction
  /\ WaitsKnow
  /\ LateTakeNoMore

-----------------------------------------------------------------------------
(* The queue *)

LEMMA EmptyQueue ==
  ASSUME queue = <<>>
  PROVE  Queued = {} /\ DistinctQueue
BY DEF Queued, DistinctQueue

LEMMA AppendQueue ==
  ASSUME queue \in Seq(Tasks), NEW t \in Tasks, queue' = Append(queue, t)
  PROVE  /\ queue' \in Seq(Tasks)
         /\ Len(queue') = Len(queue) + 1
         /\ Queued' = Queued \cup {t}
         /\ DistinctQueue /\ t \notin Queued => DistinctQueue'
<1>1. /\ queue' \in Seq(Tasks)
      /\ Len(queue') = Len(queue) + 1
      /\ Len(queue) \in Nat
      /\ queue'[Len(queue) + 1] = t
      /\ \A i \in 1..Len(queue) : queue'[i] = queue[i]
  BY AppendProperties, LenProperties
<1>2. Queued' = Queued \cup {t}
  <2>1. Queued \cup {t} \subseteq Queued'
    BY <1>1 DEF Queued
  <2>2. ASSUME NEW i \in 1..Len(queue')
        PROVE  queue'[i] \in Queued \cup {t}
    <3>1. i \in 1..Len(queue) \/ i = Len(queue) + 1
      BY <1>1
    <3>2. QED
      BY <1>1, <3>1 DEF Queued
  <2>3. QED
    BY <2>1, <2>2 DEF Queued
<1>3. ASSUME DistinctQueue, t \notin Queued
      PROVE  DistinctQueue'
  <2>1. SUFFICES ASSUME NEW i \in 1..Len(queue'), NEW j \in 1..Len(queue'),
                        queue'[i] = queue'[j]
                 PROVE  i = j
    BY DEF DistinctQueue
  <2>2. \A k \in 1..Len(queue) : queue[k] # t
    BY <1>3 DEF Queued
  <2>3. /\ i \in 1..Len(queue) \/ i = Len(queue) + 1
        /\ j \in 1..Len(queue) \/ j = Len(queue) + 1
    BY <1>1
  <2>4. QED
    BY <1>1, <1>3, <2>1, <2>2, <2>3 DEF DistinctQueue
<1>4. QED
  BY <1>1, <1>2, <1>3

LEMMA TailQueue ==
  ASSUME queue \in Seq(Tasks), queue # <<>>, queue' = Tail(queue)
  PROVE  /\ queue' \in Seq(Tasks)
         /\ Len(queue) \in Nat /\ Len(queue') = Len(queue) - 1
         /\ Head(queue) \in Tasks /\ Head(queue) \in Queued
         /\ Queued \subseteq Queued' \cup {Head(queue)} /\ Queued' \subseteq Queued
         /\ DistinctQueue => DistinctQueue' /\ Head(queue) \notin Queued'
<1>1. /\ queue' \in Seq(Tasks)
      /\ Len(queue) \in Nat /\ Len(queue) >= 1
      /\ Len(queue') = Len(queue) - 1
      /\ \A i \in 1..Len(queue') : queue'[i] = queue[i + 1]
      /\ Head(queue) = queue[1]
      /\ Head(queue) \in Tasks
  BY HeadTailProperties, EmptySeq, LenProperties
<1>2. Head(queue) \in Queued
  BY <1>1 DEF Queued
<1>3. \A i \in 1..Len(queue') : i + 1 \in 1..Len(queue)
  BY <1>1
<1>4. Queued' \subseteq Queued
  BY <1>1, <1>3 DEF Queued
<1>5. Queued \subseteq Queued' \cup {Head(queue)}
  <2>1. ASSUME NEW i \in 1..Len(queue)
        PROVE  queue[i] \in Queued' \cup {Head(queue)}
    <3>1. CASE i = 1
      BY <1>1, <3>1
    <3>2. CASE i # 1
      <4>1. i - 1 \in 1..Len(queue') /\ (i - 1) + 1 = i
        BY <1>1, <3>2
      <4>2. queue'[i - 1] = queue[i]
        BY <1>1, <4>1
      <4>3. QED
        BY <4>1, <4>2 DEF Queued
    <3>3. QED
      BY <3>1, <3>2
  <2>2. QED
    BY <2>1 DEF Queued
<1>6. ASSUME DistinctQueue
      PROVE  DistinctQueue' /\ Head(queue) \notin Queued'
  <2>1. DistinctQueue'
    <3>1. SUFFICES ASSUME NEW i \in 1..Len(queue'), NEW j \in 1..Len(queue'),
                          queue'[i] = queue'[j]
                   PROVE  i = j
      BY DEF DistinctQueue
    <3>2. queue[i + 1] = queue[j + 1]
      BY <1>1, <3>1
    <3>3. i + 1 = j + 1
      BY <1>3, <1>6, <3>2 DEF DistinctQueue
    <3>4. QED
      BY <1>1, <3>3
  <2>2. ASSUME NEW i \in 1..Len(queue'), queue'[i] = Head(queue)
        PROVE  FALSE
    <3>1. queue[i + 1] = queue[1] /\ i + 1 \in 1..Len(queue) /\ 1 \in 1..Len(queue)
      BY <1>1, <1>3, <2>2
    <3>2. i + 1 = 1
      BY <1>6, <3>1 DEF DistinctQueue
    <3>3. QED
      BY <1>1, <3>2
  <2>3. QED
    BY <2>1, <2>2 DEF Queued
<1>7. QED
  BY <1>1, <1>2, <1>4, <1>5, <1>6

-----------------------------------------------------------------------------
(* Types, and who holds a task *)

LEMMA ThreadKinds ==
  /\ \A p \in Threads : p \in Workers <=> p \notin Clients
  /\ Workers \subseteq Threads /\ Clients \subseteq Threads
BY LfThPoolAssumption DEF Threads

LEMMA GotoEffect ==
  ASSUME TypeOK, NEW p \in Threads, NEW l, Goto(p, l)
  PROVE  \A x \in Threads : pc'[x] = IF x = p THEN l ELSE pc[x]
BY DEF TypeOK, Goto

LEMMA GotoType ==
  ASSUME TypeOK, NEW p \in Threads, NEW l, Goto(p, l),
         p \in Workers => l \in WorkerPC, p \in Clients => l \in ClientPC
  PROVE  /\ pc' \in [Threads -> WorkerPC \cup ClientPC]
         /\ \A w \in Workers : pc'[w] \in WorkerPC
         /\ \A c \in Clients : pc'[c] \in ClientPC
<1>1. l \in WorkerPC \cup ClientPC
  BY ThreadKinds
<1>2. pc' \in [Threads -> WorkerPC \cup ClientPC]
  BY <1>1 DEF TypeOK, Goto
<1>3. QED
  BY <1>2, GotoEffect, ThreadKinds DEF TypeOK

(* A thread that holds a task holds a task of the program.                   *)
LEMMA HeldIsTask ==
  ASSUME TypeOK, TasksHeld, NEW p \in Threads, pc[p] \in {"try", "count", "run", "free"}
  PROVE  task[p] \in Tasks /\ p \in Holders
BY LfThPoolAssumption DEF TypeOK, TasksHeld, Holders

(* Every step keeps the types. *)
LEMMA TypeStep ==
  ASSUME TypeOK, TasksHeld, [Next]_vars
  PROVE  TypeOK'
<1>1. ASSUME NEW w \in Workers, WorkerChecksShutdown(w)
      PROVE  TypeOK'
  BY <1>1, GotoType, ThreadKinds DEF TypeOK, WorkerChecksShutdown, WorkerPC, ClientPC, poolVars, threadVars, history
<1>2. ASSUME NEW w \in Workers, WorkerChecksHold(w)
      PROVE  TypeOK'
  BY <1>2, GotoType, ThreadKinds DEF TypeOK, WorkerChecksHold, WorkerPC, ClientPC, poolVars, threadVars, history
<1>3. ASSUME NEW w \in Workers, WorkerDequeues(w)
      PROVE  TypeOK'
  <2>1. CASE queue = <<>>
    BY <1>3, <2>1, GotoType, ThreadKinds DEF TypeOK, WorkerDequeues, Dequeue, WorkerPC, poolVars
  <2>2. CASE queue # <<>>
    <3>1. /\ queue' = Tail(queue) /\ Goto(w, "count")
          /\ task' = [task EXCEPT ![w] = Head(queue)]
          /\ late' \in {late, late \cup {w}}
          /\ UNCHANGED <<poolVars, heap, max_try, done, due>>
      BY <1>3, <2>2 DEF WorkerDequeues, Dequeue
    <3>2. queue' \in Seq(Tasks) /\ Len(queue') <= Capacity /\ Head(queue) \in Tasks
      BY <2>2, <3>1, TailQueue, CapacityAssumption DEF TypeOK
    <3>3. QED
      BY <3>1, <3>2, GotoType, ThreadKinds DEF TypeOK, WorkerPC, poolVars
  <2>3. QED
    BY <2>1, <2>2
<1>4. ASSUME NEW c \in Clients, NEW t \in Tasks, AddTask(c, t)
      PROVE  TypeOK'
  <2>1. queue' = Append(queue, t) /\ Len(queue) # Capacity
    BY <1>4 DEF AddTask, Enqueue, Full
  <2>2. queue' \in Seq(Tasks) /\ Len(queue') <= Capacity
    BY <2>1, AppendQueue, LenProperties, CapacityAssumption DEF TypeOK
  <2>3. QED
    BY <1>4, <2>2 DEF TypeOK, AddTask, poolVars, threadVars
<1>5. ASSUME NEW c \in Clients, NEW t \in Tasks, AddTaskTry(c, t)
      PROVE  TypeOK'
  BY <1>5, GotoType, ThreadKinds, LfThPoolAssumption DEF TypeOK, AddTaskTry, ClientPC, poolVars, history
<1>6. ASSUME NEW c \in Clients, Pause(c)
      PROVE  TypeOK'
  BY <1>6 DEF TypeOK, Pause, threadVars, history
<1>7. ASSUME NEW c \in Clients, Resume(c)
      PROVE  TypeOK'
  BY <1>7 DEF TypeOK, Resume, threadVars
<1>8. ASSUME NEW c \in Clients, Wait(c)
      PROVE  TypeOK'
  <2>1. Accepted \subseteq Tasks
    <3>1. InHand \subseteq Tasks
      BY HeldIsTask DEF InHand
    <3>2. Queued \subseteq Tasks
      BY ElementOfSeq DEF TypeOK, Queued
    <3>3. QED
      BY <3>1, <3>2 DEF Accepted, TypeOK
  <2>2. QED
    BY <1>8, <2>1, GotoType, ThreadKinds DEF TypeOK, Wait, ClientPC, poolVars
<1>9. ASSUME NEW c \in Clients, TryOnce(c)
      PROVE  TypeOK'
  <2>1. /\ queue # <<>> /\ queue' = Tail(queue) /\ Goto(c, "count")
        /\ task' = [task EXCEPT ![c] = Head(queue)]
        /\ UNCHANGED <<poolVars, heap, max_try, history>>
    BY <1>9 DEF TryOnce, Dequeue
  <2>2. queue' \in Seq(Tasks) /\ Len(queue') <= Capacity /\ Head(queue) \in Tasks
    BY <2>1, TailQueue, CapacityAssumption DEF TypeOK
  <2>3. QED
    BY <2>1, <2>2, GotoType, ThreadKinds DEF TypeOK, ClientPC, poolVars, history
<1>10. ASSUME NEW c \in Clients, Shutdown(c)
      PROVE  TypeOK'
  BY <1>10, GotoType, ThreadKinds DEF TypeOK, Shutdown, WorkerPC, ClientPC, poolVars, threadVars, history
<1>11. ASSUME NEW c \in Clients, Destroy(c)
      PROVE  TypeOK'
  BY <1>11, GotoType, ThreadKinds DEF TypeOK, Destroy, WorkerPC, ClientPC, poolVars, threadVars, history
<1>12. ASSUME NEW c \in Clients, TryAgain(c)
      PROVE  TypeOK'
  <2>1. task[c] \in Tasks
    BY <1>12, HeldIsTask, ThreadKinds DEF TryAgain
  <2>2. CASE Enqueue(task[c])
    <3>1. /\ queue' = Append(queue, task[c]) /\ Len(queue) # Capacity
          /\ Goto(c, "idle")
          /\ task' = [task EXCEPT ![c] = None]
          /\ UNCHANGED <<poolVars, heap, max_try, done, due, late>>
      BY <1>12, <2>2 DEF TryAgain, Enqueue, Full
    <3>2. queue' \in Seq(Tasks) /\ Len(queue') <= Capacity
      BY <2>1, <3>1, AppendQueue, LenProperties, CapacityAssumption DEF TypeOK
    <3>3. QED
      BY <3>1, <3>2, GotoType, ThreadKinds DEF TypeOK, ClientPC, poolVars
  <2>3. CASE /\ max_try[c] >= 0
             /\ max_try' = [max_try EXCEPT ![c] = @ - 1]
             /\ UNCHANGED <<queue, heap, pc, task>>
    BY <1>12, <2>3, LfThPoolAssumption DEF TryAgain, TypeOK, poolVars
  <2>4. CASE /\ Goto(c, "idle")
             /\ heap' = heap \ {task[c]}
             /\ task' = [task EXCEPT ![c] = None]
             /\ UNCHANGED <<queue, max_try>>
    <3>1. UNCHANGED <<poolVars, done, due, late>>
      BY <1>12 DEF TryAgain
    <3>2. QED
      BY <2>4, <3>1, GotoType, ThreadKinds DEF TypeOK, ClientPC, poolVars
  <2>5. QED
    BY <1>12, <2>2, <2>3, <2>4 DEF TryAgain
<1>13. ASSUME NEW c \in Clients, WaitChecksActive(c)
      PROVE  TypeOK'
  BY <1>13, GotoType, ThreadKinds DEF TypeOK, WaitChecksActive, WorkerPC, ClientPC, poolVars, threadVars, history
<1>14. ASSUME NEW c \in Clients, WaitChecksQueue(c)
      PROVE  TypeOK'
  BY <1>14, GotoType, ThreadKinds DEF TypeOK, WaitChecksQueue, WorkerPC, ClientPC, poolVars, threadVars, history
<1>15. ASSUME NEW c \in Clients, WaitRechecksActive(c)
      PROVE  TypeOK'
  BY <1>15, GotoType, ThreadKinds DEF TypeOK, WaitRechecksActive, WorkerPC, ClientPC, poolVars, threadVars, history
<1>16. ASSUME NEW c \in Clients, ShutdownJoins(c)
      PROVE  TypeOK'
  BY <1>16, GotoType, ThreadKinds DEF TypeOK, ShutdownJoins, WorkerPC, ClientPC, poolVars, threadVars, history
<1>17. ASSUME NEW c \in Clients, Delete(c)
      PROVE  TypeOK'
  <2>1. <<>> \in Seq(Tasks) /\ Len(<<>>) <= Capacity
    BY EmptySeq, CapacityAssumption
  <2>2. QED
    BY <1>17, <2>1, GotoType, ThreadKinds DEF TypeOK, Delete, ClientPC, poolVars, history
<1>18. ASSUME NEW p \in Threads, Count(p)
      PROVE  TypeOK'
  BY <1>18, GotoType, ThreadKinds DEF TypeOK, Count, WorkerPC, ClientPC, poolVars, threadVars, history
<1>19. ASSUME NEW p \in Threads, Execute(p)
      PROVE  TypeOK'
  <2>1. task[p] \in Tasks
    BY <1>19, HeldIsTask DEF Execute
  <2>2. QED
    BY <1>19, <2>1, GotoType, ThreadKinds DEF TypeOK, Execute, WorkerPC, ClientPC, poolVars
<1>20. ASSUME NEW p \in Threads, Release(p)
      PROVE  TypeOK'
  BY <1>20, GotoType, ThreadKinds DEF TypeOK, Release, WorkerPC, ClientPC, poolVars, threadVars, history
<1>21. ASSUME NEW p \in Threads, Free(p)
      PROVE  TypeOK'
  BY <1>21, GotoType, ThreadKinds DEF TypeOK, Free, WorkerPC, ClientPC, poolVars, threadVars, history
<1>22. CASE UNCHANGED vars
  BY <1>22 DEF TypeOK, vars, poolVars, threadVars, history
<1>23. QED
  BY <1>1, <1>2, <1>3, <1>4, <1>5, <1>6, <1>7, <1>8, <1>9, <1>10, <1>11,
     <1>12, <1>13, <1>14, <1>15, <1>16, <1>17, <1>18, <1>19, <1>20, <1>21, <1>22
  DEF Next, WorkerNext, ClientNext, InCall, Handle

(* A task is held from the dequeue, or the first try, to its end. *)
LEMMA HeldStep ==
  ASSUME TypeOK, TasksHeld, [Next]_vars
  PROVE  TasksHeld'
<1>1. ASSUME NEW w \in Workers, WorkerChecksShutdown(w)
      PROVE  TasksHeld'
  BY <1>1, GotoEffect, ThreadKinds DEF TypeOK, TasksHeld, WorkerChecksShutdown
<1>2. ASSUME NEW w \in Workers, WorkerChecksHold(w)
      PROVE  TasksHeld'
  BY <1>2, GotoEffect, ThreadKinds DEF TypeOK, TasksHeld, WorkerChecksHold
<1>3. ASSUME NEW w \in Workers, WorkerDequeues(w)
      PROVE  TasksHeld'
  <2>1. CASE queue = <<>>
    BY <1>3, <2>1, GotoEffect, ThreadKinds DEF TypeOK, TasksHeld, WorkerDequeues, Dequeue
  <2>2. CASE queue # <<>>
    <3>1. Head(queue) \in Tasks
      BY <2>2, HeadTailProperties DEF TypeOK
    <3>2. Goto(w, "count") /\ \A x \in Threads : task'[x] = IF x = w THEN Head(queue) ELSE task[x]
      BY <1>3, <2>2, ThreadKinds DEF TypeOK, WorkerDequeues, Dequeue
    <3>3. QED
      BY <3>1, <3>2, GotoEffect, ThreadKinds, LfThPoolAssumption DEF TasksHeld
  <2>3. QED
    BY <2>1, <2>2
<1>4. ASSUME NEW c \in Clients, NEW t \in Tasks, AddTask(c, t)
      PROVE  TasksHeld'
  BY <1>4 DEF TasksHeld, AddTask, threadVars
<1>5. ASSUME NEW c \in Clients, NEW t \in Tasks, AddTaskTry(c, t)
      PROVE  TasksHeld'
  <2>1. \A x \in Threads : task'[x] = IF x = c THEN t ELSE task[x]
    BY <1>5, ThreadKinds DEF TypeOK, AddTaskTry
  <2>2. QED
    BY <1>5, <2>1, GotoEffect, ThreadKinds, LfThPoolAssumption DEF TasksHeld, AddTaskTry
<1>6. ASSUME NEW c \in Clients, Pause(c)
      PROVE  TasksHeld'
  BY <1>6 DEF TasksHeld, Pause, threadVars
<1>7. ASSUME NEW c \in Clients, Resume(c)
      PROVE  TasksHeld'
  BY <1>7 DEF TasksHeld, Resume, threadVars
<1>8. ASSUME NEW c \in Clients, Wait(c)
      PROVE  TasksHeld'
  BY <1>8, GotoEffect, ThreadKinds DEF TypeOK, TasksHeld, Wait, MayCall
<1>9. ASSUME NEW c \in Clients, TryOnce(c)
      PROVE  TasksHeld'
  <2>1. Head(queue) \in Tasks
    BY <1>9, HeadTailProperties DEF TypeOK, TryOnce, Dequeue
  <2>2. Goto(c, "count") /\ \A x \in Threads : task'[x] = IF x = c THEN Head(queue) ELSE task[x]
    BY <1>9, ThreadKinds DEF TypeOK, TryOnce, Dequeue
  <2>3. QED
    BY <2>1, <2>2, GotoEffect, ThreadKinds, LfThPoolAssumption DEF TasksHeld
<1>10. ASSUME NEW c \in Clients, Shutdown(c)
      PROVE  TasksHeld'
  BY <1>10, GotoEffect, ThreadKinds DEF TypeOK, TasksHeld, Shutdown, MayCall
<1>11. ASSUME NEW c \in Clients, Destroy(c)
      PROVE  TasksHeld'
  BY <1>11, GotoEffect, ThreadKinds DEF TypeOK, TasksHeld, Destroy, MayCall
<1>12. ASSUME NEW c \in Clients, TryAgain(c)
      PROVE  TasksHeld'
  <2>1. CASE UNCHANGED <<pc, task>>
    BY <2>1 DEF TasksHeld
  <2>2. CASE Goto(c, "idle") /\ task' = [task EXCEPT ![c] = None]
    <3>1. \A x \in Threads : task'[x] = IF x = c THEN None ELSE task[x]
      BY <2>2, ThreadKinds DEF TypeOK
    <3>2. QED
      BY <2>2, <3>1, GotoEffect, ThreadKinds DEF TasksHeld
  <2>3. QED
    BY <1>12, <2>1, <2>2 DEF TryAgain
<1>13. ASSUME NEW c \in Clients, WaitChecksActive(c)
      PROVE  TasksHeld'
  BY <1>13, GotoEffect, ThreadKinds DEF TypeOK, TasksHeld, WaitChecksActive
<1>14. ASSUME NEW c \in Clients, WaitChecksQueue(c)
      PROVE  TasksHeld'
  BY <1>14, GotoEffect, ThreadKinds DEF TypeOK, TasksHeld, WaitChecksQueue
<1>15. ASSUME NEW c \in Clients, WaitRechecksActive(c)
      PROVE  TasksHeld'
  <2>1. PICK l \in {"active", "idle"} : Goto(c, l)
    BY <1>15 DEF WaitRechecksActive
  <2>2. QED
    BY <1>15, <2>1, GotoEffect, ThreadKinds DEF TasksHeld, WaitRechecksActive
<1>16. ASSUME NEW c \in Clients, ShutdownJoins(c)
      PROVE  TasksHeld'
  BY <1>16, GotoEffect, ThreadKinds DEF TypeOK, TasksHeld, ShutdownJoins
<1>17. ASSUME NEW c \in Clients, Delete(c)
      PROVE  TasksHeld'
  BY <1>17, GotoEffect, ThreadKinds DEF TypeOK, TasksHeld, Delete, poolVars
<1>18. ASSUME NEW p \in Threads, Count(p)
      PROVE  TasksHeld'
  BY <1>18, GotoEffect, ThreadKinds DEF TypeOK, TasksHeld, Count
<1>19. ASSUME NEW p \in Threads, Execute(p)
      PROVE  TasksHeld'
  BY <1>19, GotoEffect, ThreadKinds DEF TypeOK, TasksHeld, Execute
<1>20. ASSUME NEW p \in Threads, Release(p)
      PROVE  TasksHeld'
  BY <1>20, GotoEffect, ThreadKinds DEF TypeOK, TasksHeld, Release
<1>21. ASSUME NEW p \in Threads, Free(p)
      PROVE  TasksHeld'
  <2>1. \A x \in Threads : task'[x] = IF x = p THEN None ELSE task[x]
    BY <1>21 DEF TypeOK, Free
  <2>2. QED
    BY <1>21, <2>1, GotoEffect, ThreadKinds DEF TasksHeld, Free
<1>22. CASE UNCHANGED vars
  BY <1>22 DEF TasksHeld, vars, threadVars
<1>23. QED
  BY <1>1, <1>2, <1>3, <1>4, <1>5, <1>6, <1>7, <1>8, <1>9, <1>10, <1>11,
     <1>12, <1>13, <1>14, <1>15, <1>16, <1>17, <1>18, <1>19, <1>20, <1>21, <1>22
  DEF Next, WorkerNext, ClientNext, InCall, Handle

-----------------------------------------------------------------------------
(* The nodes *)

LEMMA OwnersKept ==
  ASSUME Ownership, UNCHANGED <<queue, heap, task>>
  PROVE  Ownership'
BY DEF Ownership, DistinctQueue, Queued, Holders

(* A new node goes into the queue, or to a thread that held none.            *)
LEMMA OwnersAddQueued ==
  ASSUME TypeOK, Ownership, NEW t \in Tasks, t \notin heap,
         queue' = Append(queue, t), heap' = heap \cup {t}, UNCHANGED task
  PROVE  Ownership'
<1>1. Queued' = Queued \cup {t} /\ DistinctQueue'
  BY AppendQueue DEF TypeOK, Ownership
<1>2. Holders' = Holders
  BY DEF Holders
<1>3. QED
  BY <1>1, <1>2 DEF Ownership

LEMMA OwnersAddHeld ==
  ASSUME TypeOK, Ownership, NEW t \in Tasks, t \notin heap,
         NEW p \in Threads, p \notin Holders,
         task' = [task EXCEPT ![p] = t], heap' = heap \cup {t}, UNCHANGED queue
  PROVE  Ownership'
<1>1. \A x \in Threads : task'[x] = IF x = p THEN t ELSE task[x]
  BY DEF TypeOK
<1>2. Holders' = Holders \cup {p}
  BY <1>1, LfThPoolAssumption DEF Holders
<1>3. Queued' = Queued /\ DistinctQueue'
  BY DEF Queued, DistinctQueue, Ownership
<1>4. Holders \subseteq Threads
  BY DEF Holders
<1>5. QED
  BY <1>1, <1>2, <1>3, <1>4 DEF Ownership

(* A held node is freed, put into the queue, or taken from it.               *)
LEMMA OwnersDrop ==
  ASSUME TypeOK, Ownership, NEW p \in Holders,
         task' = [task EXCEPT ![p] = None], heap' = heap \ {task[p]}, UNCHANGED queue
  PROVE  Ownership'
<1>1. p \in Threads /\ Holders \subseteq Threads
  BY DEF Holders
<1>2. \A x \in Threads : task'[x] = IF x = p THEN None ELSE task[x]
  BY DEF TypeOK
<1>3. Holders' = Holders \ {p}
  BY <1>1, <1>2 DEF Holders
<1>4. Queued' = Queued /\ DistinctQueue'
  BY DEF Queued, DistinctQueue, Ownership
<1>5. QED
  BY <1>1, <1>2, <1>3, <1>4 DEF Ownership

LEMMA OwnersPut ==
  ASSUME TypeOK, Ownership, NEW p \in Holders,
         task' = [task EXCEPT ![p] = None], queue' = Append(queue, task[p]), UNCHANGED heap
  PROVE  Ownership'
<1>1. p \in Threads /\ Holders \subseteq Threads /\ task[p] \in Tasks
  BY DEF Holders, TypeOK
<1>2. \A x \in Threads : task'[x] = IF x = p THEN None ELSE task[x]
  BY DEF TypeOK
<1>3. Holders' = Holders \ {p}
  BY <1>1, <1>2 DEF Holders
<1>4. Queued' = Queued \cup {task[p]} /\ DistinctQueue'
  BY <1>1, AppendQueue DEF TypeOK, Ownership
<1>5. QED
  BY <1>1, <1>2, <1>3, <1>4 DEF Ownership

LEMMA OwnersTake ==
  ASSUME TypeOK, Ownership, NEW p \in Threads, p \notin Holders, queue # <<>>,
         task' = [task EXCEPT ![p] = Head(queue)], queue' = Tail(queue), UNCHANGED heap
  PROVE  Ownership'
<1>1. /\ Head(queue) \in Tasks /\ Head(queue) \in Queued
      /\ Queued \subseteq Queued' \cup {Head(queue)} /\ Queued' \subseteq Queued
      /\ DistinctQueue' /\ Head(queue) \notin Queued'
  BY TailQueue DEF TypeOK, Ownership
<1>2. \A x \in Threads : task'[x] = IF x = p THEN Head(queue) ELSE task[x]
  BY DEF TypeOK
<1>3. Holders' = Holders \cup {p} /\ Holders \subseteq Threads
  BY <1>1, <1>2, LfThPoolAssumption DEF Holders
<1>4. QED
  BY <1>1, <1>2, <1>3 DEF Ownership

(* No node is leaked, freed twice or shared by a step.                       *)
LEMMA OwnershipStep ==
  ASSUME TypeOK, TasksHeld, Ownership, [Next]_vars
  PROVE  Ownership'
<1>1. ASSUME NEW w \in Workers, WorkerChecksShutdown(w)
      PROVE  Ownership'
  BY <1>1, OwnersKept DEF WorkerChecksShutdown, poolVars, threadVars, history
<1>2. ASSUME NEW w \in Workers, WorkerChecksHold(w)
      PROVE  Ownership'
  BY <1>2, OwnersKept DEF WorkerChecksHold, poolVars, threadVars, history
<1>3. ASSUME NEW w \in Workers, WorkerDequeues(w)
      PROVE  Ownership'
  <2>1. CASE queue = <<>>
    BY <1>3, <2>1, OwnersKept DEF WorkerDequeues, Dequeue
  <2>2. CASE queue # <<>>
    <3>1. w \in Threads /\ w \notin Holders
      BY <1>3, ThreadKinds DEF WorkerDequeues, TasksHeld, Holders
    <3>2. QED
      BY <1>3, <2>2, <3>1, OwnersTake DEF WorkerDequeues, Dequeue
  <2>3. QED
    BY <2>1, <2>2
<1>4. ASSUME NEW c \in Clients, NEW t \in Tasks, AddTask(c, t)
      PROVE  Ownership'
  BY <1>4, OwnersAddQueued DEF AddTask, Fresh, Enqueue, threadVars
<1>5. ASSUME NEW c \in Clients, NEW t \in Tasks, AddTaskTry(c, t)
      PROVE  Ownership'
  <2>1. c \in Threads /\ c \notin Holders
    BY <1>5, ThreadKinds DEF AddTaskTry, MayCall, TasksHeld, Holders
  <2>2. QED
    BY <1>5, <2>1, OwnersAddHeld DEF AddTaskTry, Fresh
<1>6. ASSUME NEW c \in Clients, Pause(c)
      PROVE  Ownership'
  BY <1>6, OwnersKept DEF Pause, poolVars, threadVars, history
<1>7. ASSUME NEW c \in Clients, Resume(c)
      PROVE  Ownership'
  BY <1>7, OwnersKept DEF Resume, poolVars, threadVars, history
<1>8. ASSUME NEW c \in Clients, Wait(c)
      PROVE  Ownership'
  BY <1>8, OwnersKept DEF Wait, poolVars, threadVars, history
<1>9. ASSUME NEW c \in Clients, TryOnce(c)
      PROVE  Ownership'
  <2>1. c \in Threads /\ c \notin Holders
    BY <1>9, ThreadKinds DEF TryOnce, MayCall, TasksHeld, Holders
  <2>2. QED
    BY <1>9, <2>1, OwnersTake DEF TryOnce, Dequeue
<1>10. ASSUME NEW c \in Clients, Shutdown(c)
      PROVE  Ownership'
  BY <1>10, OwnersKept DEF Shutdown, poolVars, threadVars, history
<1>11. ASSUME NEW c \in Clients, Destroy(c)
      PROVE  Ownership'
  BY <1>11, OwnersKept DEF Destroy, poolVars, threadVars, history
<1>12. ASSUME NEW c \in Clients, TryAgain(c)
      PROVE  Ownership'
  <2>1. c \in Holders
    BY <1>12, HeldIsTask, ThreadKinds DEF TryAgain
  <2>2. CASE UNCHANGED <<queue, heap, task>>
    BY <2>2, OwnersKept
  <2>3. CASE Enqueue(task[c]) /\ task' = [task EXCEPT ![c] = None] /\ UNCHANGED heap
    BY <2>1, <2>3, OwnersPut DEF Enqueue
  <2>4. CASE heap' = heap \ {task[c]} /\ task' = [task EXCEPT ![c] = None] /\ UNCHANGED queue
    BY <2>1, <2>4, OwnersDrop
  <2>5. QED
    BY <1>12, <2>2, <2>3, <2>4 DEF TryAgain
<1>13. ASSUME NEW c \in Clients, WaitChecksActive(c)
      PROVE  Ownership'
  BY <1>13, OwnersKept DEF WaitChecksActive, poolVars, threadVars, history
<1>14. ASSUME NEW c \in Clients, WaitChecksQueue(c)
      PROVE  Ownership'
  BY <1>14, OwnersKept DEF WaitChecksQueue, poolVars, threadVars, history
<1>15. ASSUME NEW c \in Clients, WaitRechecksActive(c)
      PROVE  Ownership'
  BY <1>15, OwnersKept DEF WaitRechecksActive, poolVars, threadVars, history
<1>16. ASSUME NEW c \in Clients, ShutdownJoins(c)
      PROVE  Ownership'
  BY <1>16, OwnersKept DEF ShutdownJoins, poolVars, threadVars, history
<1>17. ASSUME NEW c \in Clients, Delete(c)
      PROVE  Ownership'
  <2>1. Queued' = {} /\ DistinctQueue'
    BY <1>17 DEF Delete, Queued, DistinctQueue
  <2>2. Holders' = Holders /\ \A p \in Holders : task'[p] = task[p]
    BY <1>17 DEF Delete, Holders
  <2>3. QED
    BY <1>17, <2>1, <2>2 DEF Delete, Ownership
<1>18. ASSUME NEW p \in Threads, Count(p)
      PROVE  Ownership'
  BY <1>18, OwnersKept DEF Count, poolVars, threadVars, history
<1>19. ASSUME NEW p \in Threads, Execute(p)
      PROVE  Ownership'
  BY <1>19, OwnersKept DEF Execute, poolVars, threadVars, history
<1>20. ASSUME NEW p \in Threads, Release(p)
      PROVE  Ownership'
  BY <1>20, OwnersKept DEF Release, poolVars, threadVars, history
<1>21. ASSUME NEW p \in Threads, Free(p)
      PROVE  Ownership'
  <2>1. p \in Holders
    BY <1>21, HeldIsTask DEF Free
  <2>2. QED
    BY <1>21, <2>1, OwnersDrop DEF Free
<1>22. CASE UNCHANGED vars
  BY <1>22, OwnersKept DEF vars, threadVars
<1>23. QED
  BY <1>1, <1>2, <1>3, <1>4, <1>5, <1>6, <1>7, <1>8, <1>9, <1>10, <1>11,
     <1>12, <1>13, <1>14, <1>15, <1>16, <1>17, <1>18, <1>19, <1>20, <1>21, <1>22
  DEF Next, WorkerNext, ClientNext, InCall, Handle

(* What is still tried to be added was not executed in the meantime.         *)
LEMMA TriedStep ==
  ASSUME TypeOK, TasksHeld, Ownership, TriedNotDone, [Next]_vars
  PROVE  TriedNotDone'
<1>1. ASSUME NEW w \in Workers, WorkerChecksShutdown(w)
      PROVE  TriedNotDone'
  BY <1>1, GotoEffect, ThreadKinds DEF TriedNotDone, WorkerChecksShutdown, poolVars, threadVars, history
<1>2. ASSUME NEW w \in Workers, WorkerChecksHold(w)
      PROVE  TriedNotDone'
  BY <1>2, GotoEffect, ThreadKinds DEF TriedNotDone, WorkerChecksHold, poolVars, threadVars, history
<1>3. ASSUME NEW w \in Workers, WorkerDequeues(w)
      PROVE  TriedNotDone'
  <2>1. \A x \in Clients : task'[x] = task[x]
    BY <1>3, ThreadKinds DEF TypeOK, WorkerDequeues, Dequeue
  <2>2. \A x \in Clients : pc'[x] = pc[x]
    BY <1>3, GotoEffect, ThreadKinds DEF WorkerDequeues
  <2>3. QED
    BY <1>3, <2>1, <2>2 DEF TriedNotDone, WorkerDequeues
<1>4. ASSUME NEW c \in Clients, NEW t \in Tasks, AddTask(c, t)
      PROVE  TriedNotDone'
  BY <1>4, GotoEffect, ThreadKinds DEF TriedNotDone, AddTask, poolVars, threadVars, history
<1>5. ASSUME NEW c \in Clients, NEW t \in Tasks, AddTaskTry(c, t)
      PROVE  TriedNotDone'
  <2>1. \A x \in Threads : task'[x] = IF x = c THEN t ELSE task[x]
    BY <1>5 DEF TypeOK, AddTaskTry
  <2>2. t \notin done /\ UNCHANGED done
    BY <1>5 DEF AddTaskTry, Fresh, history
  <2>3. QED
    BY <1>5, <2>1, <2>2, GotoEffect, ThreadKinds DEF TriedNotDone, AddTaskTry
<1>6. ASSUME NEW c \in Clients, Pause(c)
      PROVE  TriedNotDone'
  BY <1>6, GotoEffect, ThreadKinds DEF TriedNotDone, Pause, poolVars, threadVars, history
<1>7. ASSUME NEW c \in Clients, Resume(c)
      PROVE  TriedNotDone'
  BY <1>7, GotoEffect, ThreadKinds DEF TriedNotDone, Resume, poolVars, threadVars, history
<1>8. ASSUME NEW c \in Clients, Wait(c)
      PROVE  TriedNotDone'
  BY <1>8, GotoEffect, ThreadKinds DEF TriedNotDone, Wait, poolVars, threadVars, history
<1>9. ASSUME NEW c \in Clients, TryOnce(c)
      PROVE  TriedNotDone'
  <2>1. \A x \in Clients : pc'[x] = "try" => pc[x] = "try" /\ task'[x] = task[x]
    BY <1>9, GotoEffect, ThreadKinds DEF TypeOK, TryOnce, Dequeue
  <2>2. QED
    BY <1>9, <2>1 DEF TriedNotDone, TryOnce, history
<1>10. ASSUME NEW c \in Clients, Shutdown(c)
      PROVE  TriedNotDone'
  BY <1>10, GotoEffect, ThreadKinds DEF TriedNotDone, Shutdown, poolVars, threadVars, history
<1>11. ASSUME NEW c \in Clients, Destroy(c)
      PROVE  TriedNotDone'
  BY <1>11, GotoEffect, ThreadKinds DEF TriedNotDone, Destroy, poolVars, threadVars, history
<1>12. ASSUME NEW c \in Clients, TryAgain(c)
      PROVE  TriedNotDone'
  <2>1. \A x \in Clients : pc'[x] = "try" => pc[x] = "try" /\ task'[x] = task[x]
    BY <1>12, GotoEffect, ThreadKinds DEF TypeOK, TryAgain
  <2>2. QED
    BY <1>12, <2>1 DEF TriedNotDone, TryAgain
<1>13. ASSUME NEW c \in Clients, WaitChecksActive(c)
      PROVE  TriedNotDone'
  BY <1>13, GotoEffect, ThreadKinds DEF TriedNotDone, WaitChecksActive, poolVars, threadVars, history
<1>14. ASSUME NEW c \in Clients, WaitChecksQueue(c)
      PROVE  TriedNotDone'
  BY <1>14, GotoEffect, ThreadKinds DEF TriedNotDone, WaitChecksQueue, poolVars, threadVars, history
<1>15. ASSUME NEW c \in Clients, WaitRechecksActive(c)
      PROVE  TriedNotDone'
  BY <1>15, GotoEffect, ThreadKinds DEF TriedNotDone, WaitRechecksActive, poolVars, threadVars, history
<1>16. ASSUME NEW c \in Clients, ShutdownJoins(c)
      PROVE  TriedNotDone'
  BY <1>16, GotoEffect, ThreadKinds DEF TriedNotDone, ShutdownJoins, poolVars, threadVars, history
<1>17. ASSUME NEW c \in Clients, Delete(c)
      PROVE  TriedNotDone'
  BY <1>17, GotoEffect, ThreadKinds DEF TriedNotDone, Delete, history
<1>18. ASSUME NEW p \in Threads, Count(p)
      PROVE  TriedNotDone'
  BY <1>18, GotoEffect, ThreadKinds DEF TriedNotDone, Count, poolVars, threadVars, history
<1>19. ASSUME NEW p \in Threads, Execute(p)
      PROVE  TriedNotDone'
  <2>1. \A x \in Clients : pc'[x] = "try" => pc[x] = "try" /\ task'[x] = task[x] /\ x # p
    BY <1>19, GotoEffect, ThreadKinds DEF Execute
  <2>2. \A x \in Clients : pc[x] = "try" /\ x # p => task[x] # task[p]
    BY <1>19, HeldIsTask, ThreadKinds DEF Execute, Ownership
  <2>3. QED
    BY <1>19, <2>1, <2>2 DEF TriedNotDone, Execute
<1>20. ASSUME NEW p \in Threads, Release(p)
      PROVE  TriedNotDone'
  BY <1>20, GotoEffect, ThreadKinds DEF TriedNotDone, Release, poolVars, threadVars, history
<1>21. ASSUME NEW p \in Threads, Free(p)
      PROVE  TriedNotDone'
  <2>1. \A x \in Clients : pc'[x] = "try" => pc[x] = "try" /\ task'[x] = task[x]
    BY <1>21, GotoEffect, ThreadKinds DEF TypeOK, Free
  <2>2. QED
    BY <1>21, <2>1 DEF TriedNotDone, Free, history
<1>22. CASE UNCHANGED vars
  BY <1>22 DEF TriedNotDone, vars, threadVars, history
<1>23. QED
  BY <1>1, <1>2, <1>3, <1>4, <1>5, <1>6, <1>7, <1>8, <1>9, <1>10, <1>11,
     <1>12, <1>13, <1>14, <1>15, <1>16, <1>17, <1>18, <1>19, <1>20, <1>21, <1>22
  DEF Next, WorkerNext, ClientNext, InCall, Handle

-----------------------------------------------------------------------------
(* The counter *)

LEMMA CountedFinite == IsFiniteSet(Counted) /\ Cardinality(Counted) \in Nat
BY LfThPoolAssumption, FS_Union, FS_Subset, FS_CardinalityType DEF Counted

LEMMA CountKept ==
  ASSUME CountExact, UNCHANGED running_count, Counted' = Counted
  PROVE  CountExact'
BY DEF CountExact

(* A move to or from neither "run", "dec" nor, for a client, "free".         *)
LEMMA CountedKept ==
  ASSUME TypeOK, NEW p \in Threads, NEW l, Goto(p, l),
         p \in Workers => (pc[p] \in {"run", "dec"} <=> l \in {"run", "dec"}),
         p \in Clients => (pc[p] \in {"run", "free", "dec"} <=> l \in {"run", "free", "dec"})
  PROVE  Counted' = Counted
BY GotoEffect, ThreadKinds DEF Counted

(* The counter follows the threads through every step.                       *)
LEMMA CountStep ==
  ASSUME TypeOK, CountExact, [Next]_vars
  PROVE  CountExact'
<1>1. ASSUME NEW w \in Workers, WorkerChecksShutdown(w)
      PROVE  CountExact'
  <2>1. Counted' = Counted
    BY <1>1, CountedKept, ThreadKinds DEF WorkerChecksShutdown, MayCall
  <2>2. QED
    BY <1>1, <2>1, CountKept DEF WorkerChecksShutdown, poolVars
<1>2. ASSUME NEW w \in Workers, WorkerChecksHold(w)
      PROVE  CountExact'
  <2>1. Counted' = Counted
    BY <1>2, CountedKept, ThreadKinds DEF WorkerChecksHold, MayCall
  <2>2. QED
    BY <1>2, <2>1, CountKept DEF WorkerChecksHold, poolVars
<1>3. ASSUME NEW w \in Workers, WorkerDequeues(w)
      PROVE  CountExact'
  <2>1. Counted' = Counted
    BY <1>3, CountedKept, ThreadKinds DEF WorkerDequeues, MayCall
  <2>2. QED
    BY <1>3, <2>1, CountKept DEF WorkerDequeues, poolVars
<1>4. ASSUME NEW c \in Clients, NEW t \in Tasks, AddTask(c, t)
      PROVE  CountExact'
  BY <1>4 DEF CountExact, Counted, AddTask, poolVars, threadVars
<1>5. ASSUME NEW c \in Clients, NEW t \in Tasks, AddTaskTry(c, t)
      PROVE  CountExact'
  <2>1. Counted' = Counted
    BY <1>5, CountedKept, ThreadKinds DEF AddTaskTry, MayCall
  <2>2. QED
    BY <1>5, <2>1, CountKept DEF AddTaskTry, poolVars
<1>6. ASSUME NEW c \in Clients, Pause(c)
      PROVE  CountExact'
  BY <1>6 DEF CountExact, Counted, Pause, poolVars, threadVars
<1>7. ASSUME NEW c \in Clients, Resume(c)
      PROVE  CountExact'
  BY <1>7 DEF CountExact, Counted, Resume, poolVars, threadVars
<1>8. ASSUME NEW c \in Clients, Wait(c)
      PROVE  CountExact'
  <2>1. Counted' = Counted
    BY <1>8, CountedKept, ThreadKinds DEF Wait, MayCall
  <2>2. QED
    BY <1>8, <2>1, CountKept DEF Wait, poolVars
<1>9. ASSUME NEW c \in Clients, TryOnce(c)
      PROVE  CountExact'
  <2>1. Counted' = Counted
    BY <1>9, CountedKept, ThreadKinds DEF TryOnce, MayCall
  <2>2. QED
    BY <1>9, <2>1, CountKept DEF TryOnce, poolVars
<1>10. ASSUME NEW c \in Clients, Shutdown(c)
      PROVE  CountExact'
  <2>1. Counted' = Counted
    BY <1>10, CountedKept, ThreadKinds DEF Shutdown, MayCall
  <2>2. QED
    BY <1>10, <2>1, CountKept DEF Shutdown, poolVars
<1>11. ASSUME NEW c \in Clients, Destroy(c)
      PROVE  CountExact'
  <2>1. Counted' = Counted
    BY <1>11, CountedKept, ThreadKinds DEF Destroy, MayCall
  <2>2. QED
    BY <1>11, <2>1, CountKept DEF Destroy, poolVars
<1>12. ASSUME NEW c \in Clients, TryAgain(c)
      PROVE  CountExact'
  <2>1. CASE UNCHANGED pc
    BY <1>12, <2>1 DEF CountExact, Counted, TryAgain, poolVars
  <2>2. CASE Goto(c, "idle")
    <3>1. Counted' = Counted
      BY <1>12, <2>2, CountedKept, ThreadKinds DEF TryAgain
    <3>2. QED
      BY <1>12, <3>1, CountKept DEF TryAgain, poolVars
  <2>3. QED
    BY <1>12, <2>1, <2>2 DEF TryAgain
<1>13. ASSUME NEW c \in Clients, WaitChecksActive(c)
      PROVE  CountExact'
  <2>1. Counted' = Counted
    BY <1>13, CountedKept, ThreadKinds DEF WaitChecksActive, MayCall
  <2>2. QED
    BY <1>13, <2>1, CountKept DEF WaitChecksActive, poolVars
<1>14. ASSUME NEW c \in Clients, WaitChecksQueue(c)
      PROVE  CountExact'
  <2>1. Counted' = Counted
    BY <1>14, CountedKept, ThreadKinds DEF WaitChecksQueue, MayCall
  <2>2. QED
    BY <1>14, <2>1, CountKept DEF WaitChecksQueue, poolVars
<1>15. ASSUME NEW c \in Clients, WaitRechecksActive(c)
      PROVE  CountExact'
  <2>1. Counted' = Counted
    BY <1>15, CountedKept, ThreadKinds DEF WaitRechecksActive, MayCall
  <2>2. QED
    BY <1>15, <2>1, CountKept DEF WaitRechecksActive, poolVars
<1>16. ASSUME NEW c \in Clients, ShutdownJoins(c)
      PROVE  CountExact'
  <2>1. Counted' = Counted
    BY <1>16, CountedKept, ThreadKinds DEF ShutdownJoins, MayCall
  <2>2. QED
    BY <1>16, <2>1, CountKept DEF ShutdownJoins, poolVars
<1>17. ASSUME NEW c \in Clients, Delete(c)
      PROVE  CountExact'
  <2>1. Counted' = Counted
    BY <1>17, CountedKept, ThreadKinds DEF Delete, MayCall
  <2>2. QED
    BY <1>17, <2>1, CountKept DEF Delete, poolVars
<1>18. ASSUME NEW p \in Threads, Count(p)
      PROVE  CountExact'
  <2>1. Counted' = Counted \cup {p} /\ p \notin Counted
    BY <1>18, GotoEffect, ThreadKinds DEF Count, Counted
  <2>2. Cardinality(Counted') = Cardinality(Counted) + 1
    BY <2>1, CountedFinite, FS_AddElement
  <2>3. QED
    BY <1>18, <2>2, CountedFinite DEF CountExact, Count
<1>19. ASSUME NEW p \in Threads, Execute(p)
      PROVE  CountExact'
  <2>1. Counted' = Counted
    BY <1>19, CountedKept, ThreadKinds DEF Execute, MayCall
  <2>2. QED
    BY <1>19, <2>1, CountKept DEF Execute, poolVars
<1>20. ASSUME NEW p \in Threads, Release(p)
      PROVE  CountExact'
  <2>1. Counted' = Counted \ {p} /\ p \in Counted
    BY <1>20, GotoEffect, ThreadKinds DEF Release, Counted
  <2>2. Cardinality(Counted') = Cardinality(Counted) - 1
    BY <2>1, CountedFinite, FS_RemoveElement
  <2>3. QED
    BY <1>20, <2>2, CountedFinite DEF CountExact, Release
<1>21. ASSUME NEW p \in Threads, Free(p)
      PROVE  CountExact'
  <2>1. Counted' = Counted
    BY <1>21, CountedKept, ThreadKinds DEF Free, MayCall
  <2>2. QED
    BY <1>21, <2>1, CountKept DEF Free, poolVars
<1>22. CASE UNCHANGED vars
  BY <1>22 DEF CountExact, Counted, vars, poolVars, threadVars
<1>23. QED
  BY <1>1, <1>2, <1>3, <1>4, <1>5, <1>6, <1>7, <1>8, <1>9, <1>10, <1>11,
     <1>12, <1>13, <1>14, <1>15, <1>16, <1>17, <1>18, <1>19, <1>20, <1>21, <1>22
  DEF Next, WorkerNext, ClientNext, InCall, Handle

-----------------------------------------------------------------------------
(* lfthpool_destroy *)

(* Nobody but the destroying client does anything but leave, so a step that  *)
(* does not join or delete is a worker's or starts from an intact pool.      *)
LEMMA DestructionKept ==
  ASSUME TypeOK, Destruction, NEW p \in Threads, NEW l, Goto(p, l),
         UNCHANGED <<handles, destroyed>>, destroyed => heap' \subseteq heap,
         p \in Workers => pc[p] # "exited",
         p \in Clients => l # "delete" /\ ~destroyed
  PROVE  Destruction'
BY GotoEffect, ThreadKinds DEF Destruction

(* The pool is taken down once, by one client, after its workers.            *)
LEMMA DestructionStep ==
  ASSUME TypeOK, TasksHeld, Ownership, Destruction, [Next]_vars
  PROVE  Destruction'
<1>1. ASSUME NEW w \in Workers, WorkerChecksShutdown(w)
      PROVE  Destruction'
  BY <1>1, DestructionKept, ThreadKinds DEF Destruction, WorkerChecksShutdown, MayCall, poolVars
<1>2. ASSUME NEW w \in Workers, WorkerChecksHold(w)
      PROVE  Destruction'
  BY <1>2, DestructionKept, ThreadKinds DEF Destruction, WorkerChecksHold, MayCall, poolVars
<1>3. ASSUME NEW w \in Workers, WorkerDequeues(w)
      PROVE  Destruction'
  BY <1>3, DestructionKept, ThreadKinds DEF Destruction, WorkerDequeues, MayCall, poolVars
<1>4. ASSUME NEW c \in Clients, NEW t \in Tasks, AddTask(c, t)
      PROVE  Destruction'
  BY <1>4 DEF Destruction, AddTask, MayCall, poolVars, threadVars
<1>5. ASSUME NEW c \in Clients, NEW t \in Tasks, AddTaskTry(c, t)
      PROVE  Destruction'
  BY <1>5, DestructionKept, ThreadKinds DEF Destruction, AddTaskTry, MayCall, poolVars
<1>6. ASSUME NEW c \in Clients, Pause(c)
      PROVE  Destruction'
  BY <1>6 DEF Destruction, Pause, MayCall, poolVars, threadVars
<1>7. ASSUME NEW c \in Clients, Resume(c)
      PROVE  Destruction'
  BY <1>7 DEF Destruction, Resume, MayCall, poolVars, threadVars
<1>8. ASSUME NEW c \in Clients, Wait(c)
      PROVE  Destruction'
  BY <1>8, DestructionKept, ThreadKinds DEF Destruction, Wait, MayCall, poolVars
<1>9. ASSUME NEW c \in Clients, TryOnce(c)
      PROVE  Destruction'
  BY <1>9, DestructionKept, ThreadKinds DEF Destruction, TryOnce, MayCall, poolVars
<1>10. ASSUME NEW c \in Clients, Shutdown(c)
      PROVE  Destruction'
  <2>1. ~destroyed /\ UNCHANGED <<handles, destroyed>> /\ Goto(c, "join")
    BY <1>10 DEF Shutdown, MayCall
  <2>2. QED
    BY <2>1, DestructionKept, ThreadKinds
<1>11. ASSUME NEW c \in Clients, Destroy(c)
      PROVE  Destruction'
  <2>1. \A x \in Threads : pc'[x] = IF x = c THEN "join" ELSE pc[x]
    BY <1>11, GotoEffect, ThreadKinds DEF Destroy
  <2>2. QED
    BY <1>11, <2>1, ThreadKinds DEF Destruction, Destroy
<1>12. ASSUME NEW c \in Clients, TryAgain(c)
      PROVE  Destruction'
  <2>1. ~destroyed /\ UNCHANGED <<handles, destroyed>>
    BY <1>12 DEF Destruction, TryAgain, poolVars
  <2>2. CASE UNCHANGED pc
    BY <2>1, <2>2 DEF Destruction
  <2>3. CASE Goto(c, "idle")
    BY <2>1, <2>3, DestructionKept, ThreadKinds
  <2>4. QED
    BY <1>12, <2>2, <2>3 DEF TryAgain
<1>13. ASSUME NEW c \in Clients, WaitChecksActive(c)
      PROVE  Destruction'
  BY <1>13, DestructionKept, ThreadKinds DEF Destruction, WaitChecksActive, MayCall, poolVars
<1>14. ASSUME NEW c \in Clients, WaitChecksQueue(c)
      PROVE  Destruction'
  BY <1>14, DestructionKept, ThreadKinds DEF Destruction, WaitChecksQueue, MayCall, poolVars
<1>15. ASSUME NEW c \in Clients, WaitRechecksActive(c)
      PROVE  Destruction'
  <2>1. ~destroyed /\ UNCHANGED <<handles, destroyed>>
    BY <1>15 DEF Destruction, WaitRechecksActive, poolVars
  <2>2. PICK l \in {"active", "idle"} : Goto(c, l)
    BY <1>15 DEF WaitRechecksActive
  <2>3. QED
    BY <2>1, <2>2, DestructionKept, ThreadKinds
<1>16. ASSUME NEW c \in Clients, ShutdownJoins(c)
      PROVE  Destruction'
  <2>1. \A x \in Threads : pc'[x] = IF x = c THEN IF destroyed THEN "delete" ELSE "idle" ELSE pc[x]
    BY <1>16, GotoEffect, ThreadKinds DEF ShutdownJoins
  <2>2. \A w \in Workers : pc[w] = "exited" /\ pc'[w] = "exited"
    BY <1>16, <2>1, ThreadKinds DEF ShutdownJoins, Destruction
  <2>3. QED
    BY <1>16, <2>1, <2>2, ThreadKinds DEF Destruction, ShutdownJoins
<1>17. ASSUME NEW c \in Clients, Delete(c)
      PROVE  Destruction'
  <2>1. \A x \in Threads : pc'[x] = IF x = c THEN "idle" ELSE pc[x]
    BY <1>17, GotoEffect, ThreadKinds DEF Delete
  <2>2. destroyed /\ \A w \in Workers : pc[w] = "exited"
    BY <1>17 DEF Destruction, Delete
  <2>3. Holders = {}
    BY <2>2, ThreadKinds DEF Holders, TasksHeld, Destruction
  <2>4. heap' = {}
    BY <1>17, <2>3 DEF Ownership, Delete
  <2>5. QED
    BY <1>17, <2>1, <2>2, <2>4, ThreadKinds DEF Destruction, Delete, poolVars
<1>18. ASSUME NEW p \in Threads, Count(p)
      PROVE  Destruction'
  <2>1. ~destroyed \/ p \in Workers
    BY <1>18, ThreadKinds DEF Destruction, Count
  <2>2. PICK l \in {"run", "dec", "free", "top"} : Goto(p, l) /\ (p \in Workers => pc[p] # "exited")
    BY <1>18 DEF Count
  <2>3. UNCHANGED <<handles, destroyed>> /\ heap' \subseteq heap
    BY <1>18 DEF Count, poolVars
  <2>4. QED
    BY <2>1, <2>2, <2>3, DestructionKept, ThreadKinds
<1>19. ASSUME NEW p \in Threads, Execute(p)
      PROVE  Destruction'
  <2>1. ~destroyed \/ p \in Workers
    BY <1>19, ThreadKinds DEF Destruction, Execute
  <2>2. PICK l \in {"run", "dec", "free", "top"} : Goto(p, l) /\ (p \in Workers => pc[p] # "exited")
    BY <1>19 DEF Execute
  <2>3. UNCHANGED <<handles, destroyed>> /\ heap' \subseteq heap
    BY <1>19 DEF Execute, poolVars
  <2>4. QED
    BY <2>1, <2>2, <2>3, DestructionKept, ThreadKinds
<1>20. ASSUME NEW p \in Threads, Release(p)
      PROVE  Destruction'
  <2>1. ~destroyed \/ p \in Workers
    BY <1>20, ThreadKinds DEF Destruction, Release
  <2>2. PICK l \in {"run", "dec", "free", "top", "idle"} : Goto(p, l) /\ (p \in Workers => pc[p] # "exited")
    BY <1>20 DEF Release
  <2>3. UNCHANGED <<handles, destroyed>> /\ heap' \subseteq heap
    BY <1>20 DEF Release, poolVars
  <2>4. QED
    BY <2>1, <2>2, <2>3, DestructionKept, ThreadKinds
<1>21. ASSUME NEW p \in Threads, Free(p)
      PROVE  Destruction'
  <2>1. ~destroyed \/ p \in Workers
    BY <1>21, ThreadKinds DEF Destruction, Free
  <2>2. PICK l \in {"run", "dec", "free", "top"} : Goto(p, l) /\ (p \in Workers => pc[p] # "exited")
    BY <1>21 DEF Free
  <2>3. UNCHANGED <<handles, destroyed>> /\ heap' \subseteq heap
    BY <1>21 DEF Free, poolVars
  <2>4. QED
    BY <2>1, <2>2, <2>3, DestructionKept, ThreadKinds
<1>22. CASE UNCHANGED vars
  BY <1>22 DEF Destruction, vars, poolVars, threadVars
<1>23. QED
  BY <1>1, <1>2, <1>3, <1>4, <1>5, <1>6, <1>7, <1>8, <1>9, <1>10, <1>11,
     <1>12, <1>13, <1>14, <1>15, <1>16, <1>17, <1>18, <1>19, <1>20, <1>21, <1>22
  DEF Next, WorkerNext, ClientNext, InCall, Handle

-----------------------------------------------------------------------------
(* lfthpool_pause *)

(* A worker that took a task on hold sees hold before it takes another.      *)
LEMMA LateStep ==
  ASSUME TypeOK, LateTakeNoMore, [Next]_vars
  PROVE  LateTakeNoMore'
<1>1. ASSUME NEW w \in Workers, WorkerChecksShutdown(w)
      PROVE  LateTakeNoMore'
  BY <1>1, GotoEffect, ThreadKinds DEF LateTakeNoMore, WorkerChecksShutdown, MayCall, poolVars, threadVars, history, TypeOK
<1>2. ASSUME NEW w \in Workers, WorkerChecksHold(w)
      PROVE  LateTakeNoMore'
  BY <1>2, GotoEffect, ThreadKinds DEF LateTakeNoMore, WorkerChecksHold, MayCall, poolVars, threadVars, history, TypeOK
<1>3. ASSUME NEW w \in Workers, WorkerDequeues(w)
      PROVE  LateTakeNoMore'
  <2>1. pc'[w] # "dequeue" /\ \A x \in Workers : x # w => pc'[x] = pc[x]
    <3>1. PICK l \in {"top", "count"} : Goto(w, l)
      BY <1>3 DEF WorkerDequeues
    <3>2. QED
      BY <3>1, GotoEffect, ThreadKinds
  <2>2. late' = late \/ (hold /\ late' = late \cup {w})
    BY <1>3 DEF WorkerDequeues
  <2>3. QED
    BY <1>3, <2>1, <2>2 DEF LateTakeNoMore, WorkerDequeues, poolVars, TypeOK
<1>4. ASSUME NEW c \in Clients, NEW t \in Tasks, AddTask(c, t)
      PROVE  LateTakeNoMore'
  BY <1>4 DEF LateTakeNoMore, AddTask, poolVars, threadVars
<1>5. ASSUME NEW c \in Clients, NEW t \in Tasks, AddTaskTry(c, t)
      PROVE  LateTakeNoMore'
  BY <1>5, GotoEffect, ThreadKinds DEF LateTakeNoMore, AddTaskTry, MayCall, poolVars, threadVars, history, TypeOK
<1>6. ASSUME NEW c \in Clients, Pause(c)
      PROVE  LateTakeNoMore'
  BY <1>6 DEF LateTakeNoMore, Pause, threadVars, history
<1>7. ASSUME NEW c \in Clients, Resume(c)
      PROVE  LateTakeNoMore'
  BY <1>7 DEF LateTakeNoMore, Resume
<1>8. ASSUME NEW c \in Clients, Wait(c)
      PROVE  LateTakeNoMore'
  BY <1>8, GotoEffect, ThreadKinds DEF LateTakeNoMore, Wait, MayCall, poolVars, threadVars, history, TypeOK
<1>9. ASSUME NEW c \in Clients, TryOnce(c)
      PROVE  LateTakeNoMore'
  BY <1>9, GotoEffect, ThreadKinds DEF LateTakeNoMore, TryOnce, MayCall, poolVars, threadVars, history, TypeOK
<1>10. ASSUME NEW c \in Clients, Shutdown(c)
      PROVE  LateTakeNoMore'
  BY <1>10, GotoEffect, ThreadKinds DEF LateTakeNoMore, Shutdown, MayCall, poolVars, threadVars, history, TypeOK
<1>11. ASSUME NEW c \in Clients, Destroy(c)
      PROVE  LateTakeNoMore'
  BY <1>11, GotoEffect, ThreadKinds DEF LateTakeNoMore, Destroy, MayCall, poolVars, threadVars, history, TypeOK
<1>12. ASSUME NEW c \in Clients, TryAgain(c)
      PROVE  LateTakeNoMore'
  <2>1. CASE UNCHANGED pc
    BY <1>12, <2>1 DEF LateTakeNoMore, TryAgain, poolVars
  <2>2. CASE Goto(c, "idle")
    BY <1>12, <2>2, GotoEffect, ThreadKinds DEF LateTakeNoMore, TryAgain, poolVars, TypeOK
  <2>3. QED
    BY <1>12, <2>1, <2>2 DEF TryAgain
<1>13. ASSUME NEW c \in Clients, WaitChecksActive(c)
      PROVE  LateTakeNoMore'
  BY <1>13, GotoEffect, ThreadKinds DEF LateTakeNoMore, WaitChecksActive, MayCall, poolVars, threadVars, history, TypeOK
<1>14. ASSUME NEW c \in Clients, WaitChecksQueue(c)
      PROVE  LateTakeNoMore'
  BY <1>14, GotoEffect, ThreadKinds DEF LateTakeNoMore, WaitChecksQueue, MayCall, poolVars, threadVars, history, TypeOK
<1>15. ASSUME NEW c \in Clients, WaitRechecksActive(c)
      PROVE  LateTakeNoMore'
  BY <1>15, GotoEffect, ThreadKinds DEF LateTakeNoMore, WaitRechecksActive, MayCall, poolVars, threadVars, history, TypeOK
<1>16. ASSUME NEW c \in Clients, ShutdownJoins(c)
      PROVE  LateTakeNoMore'
  BY <1>16, GotoEffect, ThreadKinds DEF LateTakeNoMore, ShutdownJoins, MayCall, poolVars, threadVars, history, TypeOK
<1>17. ASSUME NEW c \in Clients, Delete(c)
      PROVE  LateTakeNoMore'
  BY <1>17, GotoEffect, ThreadKinds DEF LateTakeNoMore, Delete, MayCall, poolVars, threadVars, history, TypeOK
<1>18. ASSUME NEW p \in Threads, Count(p)
      PROVE  LateTakeNoMore'
  BY <1>18, GotoEffect, ThreadKinds DEF LateTakeNoMore, Count, MayCall, poolVars, threadVars, history, TypeOK
<1>19. ASSUME NEW p \in Threads, Execute(p)
      PROVE  LateTakeNoMore'
  BY <1>19, GotoEffect, ThreadKinds DEF LateTakeNoMore, Execute, MayCall, poolVars, threadVars, history, TypeOK
<1>20. ASSUME NEW p \in Threads, Release(p)
      PROVE  LateTakeNoMore'
  BY <1>20, GotoEffect, ThreadKinds DEF LateTakeNoMore, Release, MayCall, poolVars, threadVars, history, TypeOK
<1>21. ASSUME NEW p \in Threads, Free(p)
      PROVE  LateTakeNoMore'
  BY <1>21, GotoEffect, ThreadKinds DEF LateTakeNoMore, Free, MayCall, poolVars, threadVars, history, TypeOK
<1>22. CASE UNCHANGED vars
  BY <1>22 DEF LateTakeNoMore, vars, poolVars, threadVars, history
<1>23. QED
  BY <1>1, <1>2, <1>3, <1>4, <1>5, <1>6, <1>7, <1>8, <1>9, <1>10, <1>11,
     <1>12, <1>13, <1>14, <1>15, <1>16, <1>17, <1>18, <1>19, <1>20, <1>21, <1>22
  DEF Next, WorkerNext, ClientNext, InCall, Handle

-----------------------------------------------------------------------------
(* The tasks in threads' hands, and the abstract pool *)

LEMMA HandHeld ==
  ASSUME TypeOK, TasksHeld, Ownership
  PROVE  /\ InHand \subseteq heap /\ Queued \subseteq heap
         /\ \A p \in Threads : pc[p] = "try" => task[p] \notin InHand \cup Queued
<1>1. \A p \in Threads : pc[p] \in {"try", "count", "run"} => task[p] \in Tasks /\ p \in Holders
  BY HeldIsTask
<1>2. QED
  BY <1>1 DEF InHand, Ownership

LEMMA HandKept ==
  ASSUME TypeOK, NEW p \in Threads, NEW l, Goto(p, l),
         pc[p] \in {"count", "run"} <=> l \in {"count", "run"},
         \A x \in Threads : pc[x] \in {"count", "run"} => task'[x] = task[x]
  PROVE  InHand' = InHand
<1>1. \A x \in Threads : pc'[x] \in {"count", "run"} <=> pc[x] \in {"count", "run"}
  BY GotoEffect
<1>2. QED
  BY <1>1 DEF InHand

LEMMA HandTakes ==
  ASSUME TypeOK, NEW p \in Threads, Goto(p, "count"), pc[p] \notin {"count", "run"},
         NEW t, task' = [task EXCEPT ![p] = t]
  PROVE  InHand' = InHand \cup {t}
<1>1. \A x \in Threads : task'[x] = IF x = p THEN t ELSE task[x]
  BY DEF TypeOK
<1>2. \A x \in Threads : pc'[x] = IF x = p THEN "count" ELSE pc[x]
  BY GotoEffect
<1>3. QED
  BY <1>1, <1>2 DEF InHand

LEMMA HandGives ==
  ASSUME TypeOK, TasksHeld, Ownership, NEW p \in Threads, pc[p] = "run",
         NEW l \in {"dec", "free"}, Goto(p, l), UNCHANGED task
  PROVE  InHand' = InHand \ {task[p]} /\ task[p] \in InHand
<1>1. \A x \in Threads : pc[x] \in {"count", "run"} /\ x # p => task[x] # task[p]
  BY HeldIsTask DEF Ownership
<1>2. \A x \in Threads : pc'[x] = IF x = p THEN l ELSE pc[x]
  BY GotoEffect
<1>3. QED
  BY <1>1, <1>2 DEF InHand

(* Every step but the last one of lfthpool_destroy is one of a task pool.    *)
LEMMA PoolStep ==
  ASSUME TypeOK, TasksHeld, TriedNotDone, Ownership, \A d \in Clients : ~Delete(d), [Next]_vars
  PROVE  [Abstract!Next]_(Abstract!vars)
<1>1. ASSUME NEW w \in Workers, WorkerChecksShutdown(w)
      PROVE  [Abstract!Next]_(Abstract!vars)
  <2>1. InHand' = InHand
    BY <1>1, HandKept, ThreadKinds DEF WorkerChecksShutdown, MayCall, threadVars
  <2>2. QED
    BY <1>1, <2>1 DEF WorkerChecksShutdown, Abstract!vars, poolVars, history
<1>2. ASSUME NEW w \in Workers, WorkerChecksHold(w)
      PROVE  [Abstract!Next]_(Abstract!vars)
  <2>1. InHand' = InHand
    BY <1>2, HandKept, ThreadKinds DEF WorkerChecksHold, MayCall, threadVars
  <2>2. QED
    BY <1>2, <2>1 DEF WorkerChecksHold, Abstract!vars, poolVars, history
<1>3. ASSUME NEW w \in Workers, WorkerDequeues(w)
      PROVE  [Abstract!Next]_(Abstract!vars)
  <2>1. CASE queue = <<>>
    <3>1. InHand' = InHand
      BY <1>3, <2>1, HandKept, ThreadKinds DEF WorkerDequeues, Dequeue
    <3>2. QED
      BY <1>3, <2>1, <3>1 DEF WorkerDequeues, Dequeue, Abstract!vars
  <2>2. CASE queue # <<>>
    <3>1. InHand' = InHand \cup {Head(queue)}
      BY <1>3, <2>2, HandTakes, ThreadKinds DEF WorkerDequeues, Dequeue
    <3>2. QED
      BY <1>3, <2>2, <3>1 DEF WorkerDequeues, Dequeue, Abstract!Next, Abstract!Start
  <2>3. QED
    BY <2>1, <2>2
<1>4. ASSUME NEW c \in Clients, NEW t \in Tasks, AddTask(c, t)
      PROVE  [Abstract!Next]_(Abstract!vars)
  <2>1. t \notin Abstract!Waiting \cup InHand \cup done
    BY <1>4, HandHeld DEF AddTask, Fresh, Abstract!Waiting, Queued
  <2>2. Len(queue) < Capacity
    BY <1>4, CapacityAssumption, LenProperties DEF AddTask, Enqueue, Full, TypeOK
  <2>3. InHand' = InHand
    BY <1>4 DEF AddTask, InHand, threadVars
  <2>4. QED
    BY <1>4, <2>1, <2>2, <2>3 DEF AddTask, Enqueue, Abstract!Next, Abstract!Submit
<1>5. ASSUME NEW c \in Clients, NEW t \in Tasks, AddTaskTry(c, t)
      PROVE  [Abstract!Next]_(Abstract!vars)
  <2>1. \A x \in Threads : pc[x] \in {"count", "run"} => task'[x] = task[x]
    BY <1>5 DEF AddTaskTry, MayCall, TypeOK
  <2>2. InHand' = InHand
    BY <1>5, <2>1, HandKept, ThreadKinds DEF AddTaskTry, MayCall
  <2>3. QED
    BY <1>5, <2>2 DEF AddTaskTry, Abstract!vars, history
<1>6. ASSUME NEW c \in Clients, Pause(c)
      PROVE  [Abstract!Next]_(Abstract!vars)
  BY <1>6 DEF Abstract!vars, InHand, Pause, threadVars, history
<1>7. ASSUME NEW c \in Clients, Resume(c)
      PROVE  [Abstract!Next]_(Abstract!vars)
  BY <1>7 DEF Abstract!vars, InHand, Resume, threadVars, history
<1>8. ASSUME NEW c \in Clients, Wait(c)
      PROVE  [Abstract!Next]_(Abstract!vars)
  <2>1. InHand' = InHand
    BY <1>8, HandKept, ThreadKinds DEF Wait, MayCall, threadVars
  <2>2. QED
    BY <1>8, <2>1 DEF Wait, Abstract!vars, poolVars, history
<1>9. ASSUME NEW c \in Clients, TryOnce(c)
      PROVE  [Abstract!Next]_(Abstract!vars)
  <2>1. InHand' = InHand \cup {Head(queue)}
    BY <1>9, HandTakes, ThreadKinds DEF TryOnce, Dequeue, MayCall
  <2>2. QED
    BY <1>9, <2>1 DEF TryOnce, Dequeue, Abstract!Next, Abstract!Start, history
<1>10. ASSUME NEW c \in Clients, Shutdown(c)
      PROVE  [Abstract!Next]_(Abstract!vars)
  <2>1. InHand' = InHand
    BY <1>10, HandKept, ThreadKinds DEF Shutdown, MayCall, threadVars
  <2>2. QED
    BY <1>10, <2>1 DEF Shutdown, Abstract!vars, poolVars, history
<1>11. ASSUME NEW c \in Clients, Destroy(c)
      PROVE  [Abstract!Next]_(Abstract!vars)
  <2>1. InHand' = InHand
    BY <1>11, HandKept, ThreadKinds DEF Destroy, MayCall, threadVars
  <2>2. QED
    BY <1>11, <2>1 DEF Destroy, Abstract!vars, poolVars, history
<1>12. ASSUME NEW c \in Clients, TryAgain(c)
      PROVE  [Abstract!Next]_(Abstract!vars)
  <2>1. c \in Threads /\ task[c] \in Tasks /\ pc[c] = "try"
    BY <1>12, HeldIsTask, ThreadKinds DEF TryAgain
  <2>2. InHand' = InHand
    <3>1. CASE UNCHANGED <<pc, task>>
      BY <3>1 DEF InHand
    <3>2. CASE Goto(c, "idle") /\ task' = [task EXCEPT ![c] = None]
      BY <2>1, <3>2, HandKept DEF TypeOK
    <3>3. QED
      BY <1>12, <3>1, <3>2 DEF TryAgain
  <2>3. CASE Enqueue(task[c])
    <3>1. task[c] \notin Abstract!Waiting \cup InHand \cup done
      BY <1>12, <2>1, HandHeld DEF TriedNotDone, Abstract!Waiting, Queued
    <3>2. Len(queue) < Capacity
      BY <2>3, CapacityAssumption, LenProperties DEF Enqueue, Full, TypeOK
    <3>3. QED
      BY <1>12, <2>1, <2>2, <2>3, <3>1, <3>2 DEF TryAgain, Enqueue, Abstract!Next, Abstract!Submit
  <2>4. CASE UNCHANGED queue
    BY <1>12, <2>2, <2>4 DEF TryAgain, Abstract!vars
  <2>5. QED
    BY <1>12, <2>3, <2>4 DEF TryAgain
<1>13. ASSUME NEW c \in Clients, WaitChecksActive(c)
      PROVE  [Abstract!Next]_(Abstract!vars)
  <2>1. InHand' = InHand
    BY <1>13, HandKept, ThreadKinds DEF WaitChecksActive, MayCall, threadVars
  <2>2. QED
    BY <1>13, <2>1 DEF WaitChecksActive, Abstract!vars, poolVars, history
<1>14. ASSUME NEW c \in Clients, WaitChecksQueue(c)
      PROVE  [Abstract!Next]_(Abstract!vars)
  <2>1. InHand' = InHand
    BY <1>14, HandKept, ThreadKinds DEF WaitChecksQueue, MayCall, threadVars
  <2>2. QED
    BY <1>14, <2>1 DEF WaitChecksQueue, Abstract!vars, poolVars, history
<1>15. ASSUME NEW c \in Clients, WaitRechecksActive(c)
      PROVE  [Abstract!Next]_(Abstract!vars)
  <2>1. PICK l \in {"active", "idle"} : Goto(c, l)
    BY <1>15 DEF WaitRechecksActive
  <2>2. InHand' = InHand
    BY <1>15, <2>1, HandKept, ThreadKinds DEF WaitRechecksActive
  <2>3. QED
    BY <1>15, <2>2 DEF WaitRechecksActive, Abstract!vars
<1>16. ASSUME NEW c \in Clients, ShutdownJoins(c)
      PROVE  [Abstract!Next]_(Abstract!vars)
  <2>1. InHand' = InHand
    BY <1>16, HandKept, ThreadKinds DEF ShutdownJoins, MayCall, threadVars
  <2>2. QED
    BY <1>16, <2>1 DEF ShutdownJoins, Abstract!vars, poolVars, history
<1>17. ASSUME NEW c \in Clients, Delete(c)
      PROVE  [Abstract!Next]_(Abstract!vars)
  BY <1>17
<1>18. ASSUME NEW p \in Threads, Count(p)
      PROVE  [Abstract!Next]_(Abstract!vars)
  <2>1. InHand' = InHand
    BY <1>18, HandKept, ThreadKinds DEF Count, MayCall, threadVars
  <2>2. QED
    BY <1>18, <2>1 DEF Count, Abstract!vars, poolVars, history
<1>19. ASSUME NEW p \in Threads, Execute(p)
      PROVE  [Abstract!Next]_(Abstract!vars)
  <2>1. PICK l \in {"dec", "free"} : Goto(p, l)
    BY <1>19 DEF Execute
  <2>2. InHand' = InHand \ {task[p]} /\ task[p] \in InHand
    BY <1>19, <2>1, HandGives DEF Execute
  <2>3. task[p] \in Tasks
    BY <1>19, HeldIsTask DEF Execute
  <2>4. QED
    BY <1>19, <2>2, <2>3 DEF Execute, Abstract!Next, Abstract!Finish
<1>20. ASSUME NEW p \in Threads, Release(p)
      PROVE  [Abstract!Next]_(Abstract!vars)
  <2>1. InHand' = InHand
    BY <1>20, HandKept, ThreadKinds DEF Release, MayCall, threadVars
  <2>2. QED
    BY <1>20, <2>1 DEF Release, Abstract!vars, poolVars, history
<1>21. ASSUME NEW p \in Threads, Free(p)
      PROVE  [Abstract!Next]_(Abstract!vars)
  <2>1. \A x \in Threads : pc[x] \in {"count", "run"} => task'[x] = task[x]
    BY <1>21 DEF Free, TypeOK
  <2>2. InHand' = InHand
    BY <1>21, <2>1, HandKept DEF Free
  <2>3. QED
    BY <1>21, <2>2 DEF Free, Abstract!vars, history
<1>22. CASE UNCHANGED vars
  BY <1>22 DEF vars, threadVars, history, InHand, Abstract!vars
<1>23. QED
  BY <1>1, <1>2, <1>3, <1>4, <1>5, <1>6, <1>7, <1>8, <1>9, <1>10, <1>11,
     <1>12, <1>13, <1>14, <1>15, <1>16, <1>17, <1>18, <1>19, <1>20, <1>21, <1>22
  DEF Next, WorkerNext, ClientNext, InCall, Handle

-----------------------------------------------------------------------------
(* lfthpool_wait *)

(* An accepted task stays accepted.                                          *)
LEMMA AcceptedStays ==
  ASSUME TypeOK, [Abstract!Next]_(Abstract!vars)
  PROVE  Accepted \subseteq Accepted'
<1>1. ASSUME NEW t \in Tasks, Abstract!Submit(t)
      PROVE  Accepted \subseteq Accepted'
  <2>1. Queued \subseteq Queued'
    BY <1>1, AppendQueue DEF TypeOK, Abstract!Submit
  <2>2. QED
    BY <1>1, <2>1 DEF Abstract!Submit, Accepted
<1>2. ASSUME NEW t \in Tasks, Abstract!Finish(t)
      PROVE  Accepted \subseteq Accepted'
  BY <1>2 DEF Abstract!Finish, Accepted, Queued
<1>3. CASE Abstract!Start
  <2>1. Queued \subseteq Queued' \cup {Head(queue)}
    BY <1>3, TailQueue DEF TypeOK, Abstract!Start
  <2>2. QED
    BY <1>3, <2>1 DEF Abstract!Start, Accepted
<1>4. CASE UNCHANGED Abstract!vars
  BY <1>4 DEF Abstract!vars, Accepted, Queued
<1>5. QED
  BY <1>1, <1>2, <1>3, <1>4 DEF Abstract!Next

(* A step that neither adds a task nor moves a wait past one of its tests.   *)
LEMMA WaitsKept ==
  ASSUME WaitsKnow, Accepted \subseteq Accepted', UNCHANGED due, Queued' \subseteq Queued,
         \A c \in Clients :
           /\ pc'[c] = "try" => pc[c] = "try" /\ task'[c] = task[c]
           /\ pc'[c] = "recheck" => pc[c] = "recheck"
           /\ pc[c] \in {"active", "len", "recheck"} => pc'[c] \in {"active", "len", "recheck"}
  PROVE  WaitsKnow'
BY DEF WaitsKnow

(* What a wait has to see executed is not lost on the way.                   *)
LEMMA WaitsStep ==
  ASSUME TypeOK, TasksHeld, TriedNotDone, Ownership, WaitsKnow, Accepted \subseteq Accepted', [Next]_vars
  PROVE  WaitsKnow'
<1>1. ASSUME NEW w \in Workers, WorkerChecksShutdown(w)
      PROVE  WaitsKnow'
  <2>1. \A x \in Clients :
          /\ pc'[x] = "try" => pc[x] = "try" /\ task'[x] = task[x]
          /\ pc'[x] = "recheck" => pc[x] = "recheck"
          /\ pc[x] \in {"active", "len", "recheck"} => pc'[x] \in {"active", "len", "recheck"}
    BY <1>1, GotoEffect, ThreadKinds DEF WorkerChecksShutdown, MayCall, threadVars
  <2>2. Queued' = Queued /\ UNCHANGED due
    BY <1>1 DEF WorkerChecksShutdown, Queued, history
  <2>3. QED
    BY <2>1, <2>2, WaitsKept
<1>2. ASSUME NEW w \in Workers, WorkerChecksHold(w)
      PROVE  WaitsKnow'
  <2>1. \A x \in Clients :
          /\ pc'[x] = "try" => pc[x] = "try" /\ task'[x] = task[x]
          /\ pc'[x] = "recheck" => pc[x] = "recheck"
          /\ pc[x] \in {"active", "len", "recheck"} => pc'[x] \in {"active", "len", "recheck"}
    BY <1>2, GotoEffect, ThreadKinds DEF WorkerChecksHold, MayCall, threadVars
  <2>2. Queued' = Queued /\ UNCHANGED due
    BY <1>2 DEF WorkerChecksHold, Queued, history
  <2>3. QED
    BY <2>1, <2>2, WaitsKept
<1>3. ASSUME NEW w \in Workers, WorkerDequeues(w)
      PROVE  WaitsKnow'
  <2>1. \A x \in Clients :
          /\ pc'[x] = "try" => pc[x] = "try" /\ task'[x] = task[x]
          /\ pc'[x] = "recheck" => pc[x] = "recheck"
          /\ pc[x] \in {"active", "len", "recheck"} => pc'[x] \in {"active", "len", "recheck"}
    BY <1>3, GotoEffect, ThreadKinds DEF TypeOK, WorkerDequeues, Dequeue
  <2>2. Queued' \subseteq Queued /\ UNCHANGED due
    BY <1>3, TailQueue DEF TypeOK, WorkerDequeues, Dequeue, Queued, history
  <2>3. QED
    BY <2>1, <2>2, WaitsKept
<1>4. ASSUME NEW c \in Clients, NEW t \in Tasks, AddTask(c, t)
      PROVE  WaitsKnow'
  <2>1. Queued' = Queued \cup {t}
    BY <1>4, AppendQueue DEF TypeOK, AddTask, Enqueue
  <2>2. t \notin Accepted
    BY <1>4, HandHeld DEF AddTask, Fresh, Accepted
  <2>3. QED
    BY <1>4, <2>1, <2>2 DEF WaitsKnow, AddTask, threadVars
<1>5. ASSUME NEW c \in Clients, NEW t \in Tasks, AddTaskTry(c, t)
      PROVE  WaitsKnow'
  <2>1. \A x \in Threads : task'[x] = IF x = c THEN t ELSE task[x]
    BY <1>5 DEF TypeOK, AddTaskTry
  <2>2. \A x \in Threads : pc'[x] = IF x = c THEN "try" ELSE pc[x]
    BY <1>5, GotoEffect, ThreadKinds DEF AddTaskTry
  <2>3. t \notin Accepted /\ Queued' = Queued /\ UNCHANGED due /\ pc[c] = "idle"
    BY <1>5, HandHeld DEF AddTaskTry, Fresh, Accepted, Queued, history, MayCall
  <2>4. QED
    BY <2>1, <2>2, <2>3, ThreadKinds DEF WaitsKnow
<1>6. ASSUME NEW c \in Clients, Pause(c)
      PROVE  WaitsKnow'
  BY <1>6 DEF WaitsKnow, Accepted, InHand, Queued, Pause, threadVars, history
<1>7. ASSUME NEW c \in Clients, Resume(c)
      PROVE  WaitsKnow'
  BY <1>7 DEF WaitsKnow, Accepted, InHand, Queued, Resume, threadVars, history
<1>8. ASSUME NEW c \in Clients, Wait(c)
      PROVE  WaitsKnow'
  <2>1. \A x \in Threads : pc'[x] = IF x = c THEN "active" ELSE pc[x]
    BY <1>8, GotoEffect, ThreadKinds DEF Wait
  <2>2. \A x \in Clients : due'[x] = IF x = c THEN Accepted ELSE due[x]
    BY <1>8 DEF Wait, TypeOK
  <2>3. \A x \in Clients : pc[x] = "try" => task[x] \notin Accepted
    BY HandHeld, ThreadKinds DEF TriedNotDone, Accepted
  <2>4. Queued' = Queued /\ UNCHANGED task
    BY <1>8 DEF Wait, Queued
  <2>5. QED
    BY <2>1, <2>2, <2>3, <2>4, ThreadKinds DEF WaitsKnow
<1>9. ASSUME NEW c \in Clients, TryOnce(c)
      PROVE  WaitsKnow'
  <2>1. \A x \in Clients :
          /\ pc'[x] = "try" => pc[x] = "try" /\ task'[x] = task[x]
          /\ pc'[x] = "recheck" => pc[x] = "recheck"
          /\ pc[x] \in {"active", "len", "recheck"} => pc'[x] \in {"active", "len", "recheck"}
    BY <1>9, GotoEffect, ThreadKinds DEF TypeOK, TryOnce, Dequeue, MayCall
  <2>2. Queued' \subseteq Queued /\ UNCHANGED due
    BY <1>9, TailQueue DEF TypeOK, TryOnce, Dequeue, Queued, history
  <2>3. QED
    BY <2>1, <2>2, WaitsKept
<1>10. ASSUME NEW c \in Clients, Shutdown(c)
      PROVE  WaitsKnow'
  <2>1. \A x \in Clients :
          /\ pc'[x] = "try" => pc[x] = "try" /\ task'[x] = task[x]
          /\ pc'[x] = "recheck" => pc[x] = "recheck"
          /\ pc[x] \in {"active", "len", "recheck"} => pc'[x] \in {"active", "len", "recheck"}
    BY <1>10, GotoEffect, ThreadKinds DEF Shutdown, MayCall, threadVars
  <2>2. Queued' = Queued /\ UNCHANGED due
    BY <1>10 DEF Shutdown, Queued, history
  <2>3. QED
    BY <2>1, <2>2, WaitsKept
<1>11. ASSUME NEW c \in Clients, Destroy(c)
      PROVE  WaitsKnow'
  <2>1. \A x \in Clients :
          /\ pc'[x] = "try" => pc[x] = "try" /\ task'[x] = task[x]
          /\ pc'[x] = "recheck" => pc[x] = "recheck"
          /\ pc[x] \in {"active", "len", "recheck"} => pc'[x] \in {"active", "len", "recheck"}
    BY <1>11, GotoEffect, ThreadKinds DEF Destroy, MayCall, threadVars
  <2>2. Queued' = Queued /\ UNCHANGED due
    BY <1>11 DEF Destroy, Queued, history
  <2>3. QED
    BY <2>1, <2>2, WaitsKept
<1>12. ASSUME NEW c \in Clients, TryAgain(c)
      PROVE  WaitsKnow'
  <2>1. \A x \in Clients :
          /\ pc'[x] = "try" => pc[x] = "try" /\ task'[x] = task[x]
          /\ pc'[x] = "recheck" => pc[x] = "recheck"
          /\ pc[x] \in {"active", "len", "recheck"} => pc'[x] \in {"active", "len", "recheck"}
    BY <1>12, GotoEffect, ThreadKinds DEF TryAgain, TypeOK
  <2>2. UNCHANGED due
    BY <1>12 DEF TryAgain
  <2>3. CASE UNCHANGED queue
    BY <2>1, <2>2, <2>3, WaitsKept DEF Queued
  <2>4. CASE Enqueue(task[c])
    <3>1. task[c] \in Tasks /\ \A x \in Clients : task[c] \notin due[x]
      BY <1>12, HeldIsTask, ThreadKinds DEF TryAgain, WaitsKnow
    <3>2. Queued' = Queued \cup {task[c]}
      BY <2>4, <3>1, AppendQueue DEF TypeOK, Enqueue
    <3>3. QED
      BY <2>1, <2>2, <3>1, <3>2 DEF WaitsKnow
  <2>5. QED
    BY <1>12, <2>3, <2>4 DEF TryAgain
<1>13. ASSUME NEW c \in Clients, WaitChecksActive(c)
      PROVE  WaitsKnow'
  <2>1. \A x \in Clients :
          /\ pc'[x] = "try" => pc[x] = "try" /\ task'[x] = task[x]
          /\ pc'[x] = "recheck" => pc[x] = "recheck"
          /\ pc[x] \in {"active", "len", "recheck"} => pc'[x] \in {"active", "len", "recheck"}
    BY <1>13, GotoEffect, ThreadKinds DEF WaitChecksActive, MayCall, threadVars
  <2>2. Queued' = Queued /\ UNCHANGED due
    BY <1>13 DEF WaitChecksActive, Queued, history
  <2>3. QED
    BY <2>1, <2>2, WaitsKept
<1>14. ASSUME NEW c \in Clients, WaitChecksQueue(c)
      PROVE  WaitsKnow'
  <2>1. \A x \in Threads : pc'[x] = IF x = c THEN IF queue # <<>> THEN "active" ELSE "recheck" ELSE pc[x]
    BY <1>14, GotoEffect, ThreadKinds DEF WaitChecksQueue
  <2>2. Queued' = Queued /\ UNCHANGED <<task, due>> /\ (queue = <<>> => Queued = {})
    BY <1>14, EmptyQueue DEF WaitChecksQueue, Queued, history
  <2>3. QED
    BY <1>14, <2>1, <2>2, ThreadKinds DEF WaitsKnow, WaitChecksQueue
<1>15. ASSUME NEW c \in Clients, WaitRechecksActive(c)
      PROVE  WaitsKnow'
  <2>1. Queued' = Queued /\ UNCHANGED task
    BY <1>15 DEF WaitRechecksActive, Queued
  <2>2. CASE Goto(c, "active") /\ UNCHANGED due
    <3>1. \A x \in Threads : pc'[x] = IF x = c THEN "active" ELSE pc[x]
      BY <2>2, GotoEffect, ThreadKinds
    <3>2. QED
      BY <2>1, <2>2, <3>1, ThreadKinds DEF WaitsKnow
  <2>3. CASE Goto(c, "idle") /\ due' = [due EXCEPT ![c] = {}]
    <3>1. \A x \in Threads : pc'[x] = IF x = c THEN "idle" ELSE pc[x]
      BY <2>3, GotoEffect, ThreadKinds
    <3>2. \A x \in Clients : due'[x] = IF x = c THEN {} ELSE due[x]
      BY <2>3 DEF TypeOK
    <3>3. QED
      BY <2>1, <3>1, <3>2, ThreadKinds DEF WaitsKnow
  <2>4. QED
    BY <1>15, <2>2, <2>3 DEF WaitRechecksActive
<1>16. ASSUME NEW c \in Clients, ShutdownJoins(c)
      PROVE  WaitsKnow'
  <2>1. \A x \in Clients :
          /\ pc'[x] = "try" => pc[x] = "try" /\ task'[x] = task[x]
          /\ pc'[x] = "recheck" => pc[x] = "recheck"
          /\ pc[x] \in {"active", "len", "recheck"} => pc'[x] \in {"active", "len", "recheck"}
    BY <1>16, GotoEffect, ThreadKinds DEF ShutdownJoins, MayCall, threadVars
  <2>2. Queued' = Queued /\ UNCHANGED due
    BY <1>16 DEF ShutdownJoins, Queued, history
  <2>3. QED
    BY <2>1, <2>2, WaitsKept
<1>17. ASSUME NEW c \in Clients, Delete(c)
      PROVE  WaitsKnow'
  <2>1. \A x \in Clients :
          /\ pc'[x] = "try" => pc[x] = "try" /\ task'[x] = task[x]
          /\ pc'[x] = "recheck" => pc[x] = "recheck"
          /\ pc[x] \in {"active", "len", "recheck"} => pc'[x] \in {"active", "len", "recheck"}
    BY <1>17, GotoEffect, ThreadKinds DEF Delete
  <2>2. Queued' \subseteq Queued /\ UNCHANGED due
    BY <1>17 DEF Delete, Queued, history
  <2>3. QED
    BY <2>1, <2>2, WaitsKept
<1>18. ASSUME NEW p \in Threads, Count(p)
      PROVE  WaitsKnow'
  <2>1. \A x \in Clients :
          /\ pc'[x] = "try" => pc[x] = "try" /\ task'[x] = task[x]
          /\ pc'[x] = "recheck" => pc[x] = "recheck"
          /\ pc[x] \in {"active", "len", "recheck"} => pc'[x] \in {"active", "len", "recheck"}
    BY <1>18, GotoEffect, ThreadKinds DEF Count, MayCall, threadVars
  <2>2. Queued' = Queued /\ UNCHANGED due
    BY <1>18 DEF Count, Queued, history
  <2>3. QED
    BY <2>1, <2>2, WaitsKept
<1>19. ASSUME NEW p \in Threads, Execute(p)
      PROVE  WaitsKnow'
  <2>1. PICK l \in {"dec", "free"} : Goto(p, l)
    BY <1>19 DEF Execute
  <2>2. \A x \in Clients :
          /\ pc'[x] = "try" => pc[x] = "try" /\ task'[x] = task[x]
          /\ pc'[x] = "recheck" => pc[x] = "recheck"
          /\ pc[x] \in {"active", "len", "recheck"} => pc'[x] \in {"active", "len", "recheck"}
    BY <1>19, <2>1, GotoEffect, ThreadKinds DEF Execute
  <2>3. Queued' = Queued /\ UNCHANGED due
    BY <1>19 DEF Execute, Queued
  <2>4. QED
    BY <2>2, <2>3, WaitsKept
<1>20. ASSUME NEW p \in Threads, Release(p)
      PROVE  WaitsKnow'
  <2>1. \A x \in Clients :
          /\ pc'[x] = "try" => pc[x] = "try" /\ task'[x] = task[x]
          /\ pc'[x] = "recheck" => pc[x] = "recheck"
          /\ pc[x] \in {"active", "len", "recheck"} => pc'[x] \in {"active", "len", "recheck"}
    BY <1>20, GotoEffect, ThreadKinds DEF Release
  <2>2. Queued' = Queued /\ UNCHANGED due
    BY <1>20 DEF Release, Queued, history
  <2>3. QED
    BY <2>1, <2>2, WaitsKept
<1>21. ASSUME NEW p \in Threads, Free(p)
      PROVE  WaitsKnow'
  <2>1. \A x \in Clients :
          /\ pc'[x] = "try" => pc[x] = "try" /\ task'[x] = task[x]
          /\ pc'[x] = "recheck" => pc[x] = "recheck"
          /\ pc[x] \in {"active", "len", "recheck"} => pc'[x] \in {"active", "len", "recheck"}
    BY <1>21, GotoEffect, ThreadKinds DEF Free, TypeOK
  <2>2. Queued' = Queued /\ UNCHANGED due
    BY <1>21 DEF Free, Queued, history
  <2>3. QED
    BY <2>1, <2>2, WaitsKept
<1>22. CASE UNCHANGED vars
  BY <1>22 DEF WaitsKnow, Accepted, InHand, Queued, vars, threadVars, history
<1>23. QED
  BY <1>1, <1>2, <1>3, <1>4, <1>5, <1>6, <1>7, <1>8, <1>9, <1>10, <1>11,
     <1>12, <1>13, <1>14, <1>15, <1>16, <1>17, <1>18, <1>19, <1>20, <1>21, <1>22
  DEF Next, WorkerNext, ClientNext, InCall, Handle

-----------------------------------------------------------------------------
(* The invariant *)

LEMMA InitInvariant == Init => IInv
<1>1. SUFFICES ASSUME Init PROVE IInv
  OBVIOUS
<1>2. queue = <<>> /\ Queued = {} /\ DistinctQueue /\ heap = {}
  BY <1>1, EmptyQueue DEF Init
<1>3. \A p \in Threads : pc[p] = (IF p \in Workers THEN "top" ELSE "idle") /\ task[p] = None
  BY <1>1 DEF Init
<1>4. TypeOK
  <2>1. queue \in Seq(Tasks) /\ Len(queue) <= Capacity
    BY <1>2, EmptySeq, CapacityAssumption
  <2>2. /\ pc \in [Threads -> WorkerPC \cup ClientPC]
        /\ \A w \in Workers : pc[w] \in WorkerPC
        /\ \A c \in Clients : pc[c] \in ClientPC
    BY <1>1, ThreadKinds DEF Init, WorkerPC, ClientPC
  <2>3. task \in [Threads -> Tasks \cup {None}]
    BY <1>1 DEF Init
  <2>4. max_try \in [Clients -> -1..MaxTry]
    BY <1>1, LfThPoolAssumption DEF Init
  <2>5. due \in [Clients -> SUBSET Tasks]
    BY <1>1 DEF Init
  <2>6. hold \in BOOLEAN /\ shutdown \in BOOLEAN /\ destroyed \in BOOLEAN
    BY <1>1 DEF Init
  <2>7. handles \subseteq Workers /\ heap \subseteq Tasks
    BY <1>1 DEF Init
  <2>8. done \subseteq Tasks /\ late \subseteq Workers
    BY <1>1 DEF Init
  <2>9. running_count \in Int
    BY <1>1 DEF Init
  <2>10. QED
    BY <2>1, <2>2, <2>3, <2>4, <2>5, <2>6, <2>7, <2>8, <2>9 DEF TypeOK
<1>5. TasksHeld
  BY <1>3 DEF TasksHeld
<1>6. TriedNotDone
  BY <1>3, ThreadKinds DEF TriedNotDone
<1>7. Ownership
  BY <1>2, <1>3 DEF Ownership, Holders
<1>8. CountExact
  <2>1. Counted = {}
    BY <1>3, ThreadKinds DEF Counted
  <2>2. QED
    BY <1>1, <2>1, FS_EmptySet DEF CountExact, Init
<1>9. Destruction
  BY <1>1, <1>3, ThreadKinds DEF Destruction, Init
<1>10. WaitsKnow
  BY <1>1, <1>3, ThreadKinds DEF WaitsKnow, Init
<1>11. LateTakeNoMore
  BY <1>1 DEF LateTakeNoMore, Init
<1>12. QED
  BY <1>4, <1>5, <1>6, <1>7, <1>8, <1>9, <1>10, <1>11 DEF IInv

LEMMA NextInvariant == IInv /\ [Next]_vars => IInv'
<1>1. SUFFICES ASSUME IInv, [Next]_vars PROVE IInv'
  OBVIOUS
<1>2. TypeOK' /\ TasksHeld' /\ TriedNotDone' /\ Ownership' /\ CountExact' /\ Destruction' /\ LateTakeNoMore'
  BY <1>1, TypeStep, HeldStep, TriedStep, OwnershipStep, CountStep, DestructionStep, LateStep DEF IInv
<1>3. WaitsKnow'
  <2>1. CASE \A d \in Clients : ~Delete(d)
    <3>1. Accepted \subseteq Accepted'
      BY <1>1, <2>1, PoolStep, AcceptedStays DEF IInv
    <3>2. QED
      BY <1>1, <3>1, WaitsStep DEF IInv
  <2>2. ASSUME NEW d \in Clients, Delete(d)
        PROVE  WaitsKnow'
    <3>1. \A x \in Threads : pc'[x] = IF x = d THEN "idle" ELSE pc[x]
      BY <1>1, <2>2, GotoEffect, ThreadKinds DEF Delete, IInv
    <3>2. \A c \in Clients : due[c] = {} /\ pc'[c] \in {"idle", "join", "delete"}
      BY <1>1, <2>2, <3>1, ThreadKinds DEF Delete, IInv, Destruction, WaitsKnow
    <3>3. QED
      BY <2>2, <3>2 DEF Delete, WaitsKnow, history
  <2>3. QED
    BY <2>1, <2>2
<1>4. QED
  BY <1>2, <1>3 DEF IInv

(* The invariant from which all that follows is drawn: nodes, counter, waits, *)
(* pauses and the end of the pool, as every step of _lfthpool_worker and of   *)
(* the API leaves them (lines 129-295).                                       *)
THEOREM Invariance == Spec => []IInv
<1>1. QED
  BY InitInvariant, NextInvariant, PTL DEF Spec

-----------------------------------------------------------------------------
(* The properties *)

(* The pool keeps its types (the fields of struct lfthpool, lines 25-52).    *)
THEOREM TypeCorrect == Spec => []TypeOK
<1>1. IInv => TypeOK
  BY DEF IInv
<1>2. QED
  BY <1>1, Invariance, PTL

(* running_count counts exactly the threads between their two updates of it  *)
(* (lines 243-252, 282-288).                                                 *)
THEOREM CountAlwaysExact == Spec => []CountExact
<1>1. IInv => CountExact
  BY DEF IInv
<1>2. QED
  BY <1>1, Invariance, PTL

(* A node is allocated while exactly one owner has it, and all are freed     *)
(* when lfthpool_destroy has returned (lines 129-167, 226, 250, 290).        *)
THEOREM NodesAlwaysOwned == Spec => []NodesOwned
<1>1. IInv => NodesOwned
  BY DEF IInv, Ownership, DistinctQueue, Destruction, NodesOwned
<1>2. QED
  BY <1>1, Invariance, PTL

(* lfthpool_wait returns when every task accepted before it was executed,    *)
(* or dequeued but not yet counted (lines 190-209).                          *)
THEOREM WaitAlwaysSees == Spec => WaitSeesCounted
<1>1. ASSUME IInv, Next, NEW c \in Clients, pc[c] = "recheck", pc'[c] = "idle"
      PROVE  due[c] \subseteq done \cup Uncounted
  <2>1. running_count <= 0
    <3>1. TypeOK
      BY <1>1 DEF IInv
    <3>2. CASE \E w \in Workers : WorkerNext(w)
      BY <1>1, <3>1, <3>2, GotoEffect, ThreadKinds DEF WorkerNext, WorkerChecksShutdown, WorkerChecksHold, WorkerDequeues
    <3>3. CASE \E p \in Threads : Handle(p)
      BY <1>1, <3>1, <3>3, GotoEffect, ThreadKinds DEF Handle, Count, Execute, Release, Free
    <3>4. ASSUME NEW d \in Clients, ClientNext(d)
          PROVE  running_count <= 0
      <4>1. CASE d = c
        BY <1>1, <3>1, <3>4, <4>1, GotoEffect, ThreadKinds
        DEF ClientNext, InCall, MayCall, AddTask, AddTaskTry, Pause, Resume, Wait, TryOnce, Shutdown, Destroy,
            TryAgain, WaitChecksActive, WaitChecksQueue, WaitRechecksActive, ShutdownJoins, Delete
      <4>2. CASE d # c
        BY <1>1, <3>1, <3>4, <4>2, GotoEffect, ThreadKinds
        DEF ClientNext, InCall, AddTask, AddTaskTry, Pause, Resume, Wait, TryOnce, Shutdown, Destroy,
            TryAgain, WaitChecksActive, WaitChecksQueue, WaitRechecksActive, ShutdownJoins, Delete, threadVars
      <4>3. QED
        BY <4>1, <4>2
    <3>5. QED
      BY <1>1, <3>2, <3>3, <3>4 DEF Next
  <2>2. Counted = {}
    BY <1>1, <2>1, CountedFinite, FS_EmptySet DEF IInv, CountExact
  <2>3. \A p \in Threads : pc[p] # "run"
    BY <2>2, ThreadKinds DEF Counted
  <2>4. InHand \subseteq Uncounted
    BY <2>3 DEF InHand, Uncounted
  <2>5. QED
    BY <1>1, <2>4 DEF IInv, WaitsKnow, Accepted
<1>2. IInv /\ [Next]_vars => [\A c \in Clients : pc[c] = "recheck" /\ pc'[c] = "idle"
                               => due[c] \subseteq done \cup Uncounted]_vars
  BY <1>1
<1>3. QED
  BY <1>2, Invariance, PTL DEF Spec, WaitSeesCounted

(* A pause is overtaken by at most one task of each worker (lines 264-294).  *)
THEOREM OneLateTaskOnly == Spec => OneLateTask
<1>1. IInv /\ [Next]_vars => [\A w \in Workers : hold /\ pc[w] = "dequeue" /\ pc'[w] = "count"
                               => w \notin late]_vars
  BY DEF IInv, LateTakeNoMore
<1>2. QED
  BY <1>1, Invariance, PTL DEF Spec, OneLateTask

(* What the callers see is a task pool: a bounded queue whose tasks are      *)
(* handed out in order and executed once.                                    *)
THEOREM TaskPoolImplemented == Spec => ImplementsTaskPool
<1>1. Init => Abstract!Init
  <2>1. SUFFICES ASSUME Init PROVE InHand = {}
    BY DEF Init, Abstract!Init
  <2>2. \A p \in Threads : pc[p] \notin {"count", "run"}
    BY <2>1 DEF Init
  <2>3. QED
    BY <2>2 DEF InHand
<1>2. IInv /\ [Next]_vars => [Abstract!Next \/ \E c \in Clients : Delete(c)]_(Abstract!vars)
  BY PoolStep DEF IInv
<1>3. QED
  BY <1>1, <1>2, Invariance, PTL DEF Spec, ImplementsTaskPool
=============================================================================
