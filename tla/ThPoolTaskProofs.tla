-------------------------- MODULE ThPoolTaskProofs --------------------------
(***************************************************************************)
(* What happens to a task of ThPool, for any number of workers, clients,   *)
(* tasks and queue slots: it has one owner at a time, so the pool is a     *)
(* FIFO task pool, and thpool_shutdown returns after the tasks it found.   *)
(*                                                                         *)
(* Every step has one of seven effects on the tasks; the invariants and    *)
(* the refinement are about the effects, not about the code.               *)
(***************************************************************************)
EXTENDS ThPoolProofs

(* A thread that executes a task or tries to add one holds it. *)
Holding(p) == pc[p] \in {"run", "try"}

Distinct(s) == \A i, j \in 1..Len(s) : s[i] = s[j] => i = j
Elements(s) == {s[i] : i \in 1..Len(s)}

OneOwner ==
  /\ \A p, q \in Threads : Holding(p) /\ Holding(q) /\ task[p] = task[q] => p = q
  /\ \A p \in Threads : Holding(p) => task[p] \notin Queued
  /\ Distinct(QueueSeq)
  /\ \A p \in Threads : pc[p] = "try" => task[p] \notin done

(* A worker has left only after shutdown and when everything that thpool_    *)
(* shutdown found had left the queue.                                        *)
DueDrained ==
  /\ due \subseteq Accepted
  /\ (\E w \in Workers : pc[w] = "exited") => shutdown /\ due \cap Queued = {}

TaskInv == IInv /\ OneOwner /\ DueDrained

-----------------------------------------------------------------------------
(* The seven effects *)

(* Nobody outside S changes its task, or whether it executes or tries one. *)
Quiet(S) ==
  \A x \in Threads \ S :
    /\ Holding(x) => task'[x] = task[x]
    /\ pc'[x] = "run" <=> pc[x] = "run"
    /\ pc'[x] = "try" <=> pc[x] = "try"

New(t) == t \in Tasks /\ t \notin Accepted /\ \A x \in Threads : task[x] # t

Nothing == QueueSeq' = QueueSeq /\ done' = done /\ Quiet({})

Adds(t) ==
  /\ New(t)
  /\ Len(QueueSeq) < QueueSize
  /\ QueueSeq' = Append(QueueSeq, t) /\ done' = done
  /\ Quiet({})

Offers(p, t) ==
  /\ New(t)
  /\ ~Holding(p)
  /\ pc'[p] = "try" /\ task'[p] = t
  /\ QueueSeq' = QueueSeq /\ done' = done
  /\ Quiet({p})

AddsOffered(p) ==
  /\ pc[p] = "try" /\ ~Holding(p)'
  /\ Len(QueueSeq) < QueueSize
  /\ QueueSeq' = Append(QueueSeq, task[p]) /\ done' = done
  /\ Quiet({p})

Withdraws(p) ==
  /\ pc[p] = "try" /\ ~Holding(p)'
  /\ QueueSeq' = QueueSeq /\ done' = done
  /\ Quiet({p})

Takes(p) ==
  /\ ~Holding(p)
  /\ QueueSeq # <<>>
  /\ pc'[p] = "run" /\ task'[p] = Head(QueueSeq)
  /\ QueueSeq' = Tail(QueueSeq) /\ done' = done
  /\ Quiet({p})

Finishes(p) ==
  /\ pc[p] = "run" /\ ~Holding(p)'
  /\ QueueSeq' = QueueSeq /\ done' = done \cup {task[p]}
  /\ Quiet({p})

Effect ==
  \/ Nothing
  \/ \E t \in Tasks : Adds(t)
  \/ \E p \in Threads :
       \/ \E t \in Tasks : Offers(p, t)
       \/ AddsOffered(p)
       \/ Withdraws(p)
       \/ Takes(p)
       \/ Finishes(p)

-----------------------------------------------------------------------------
(* Sequences without repetition *)

LEMMA AppendElements ==
  ASSUME NEW s \in Seq(Tasks), NEW t \in Tasks, NEW u, u = Append(s, t)
  PROVE  /\ u \in Seq(Tasks)
         /\ Elements(u) = Elements(s) \cup {t}
         /\ Distinct(s) /\ t \notin Elements(s) => Distinct(u)
<1>1. /\ u \in Seq(Tasks)
      /\ Len(u) = Len(s) + 1 /\ Len(s) \in Nat
      /\ u[Len(s) + 1] = t
      /\ \A i \in 1..Len(s) : u[i] = s[i]
  BY AppendProperties, LenProperties
<1>2. \A i \in 1..Len(u) : i \in 1..Len(s) \/ i = Len(s) + 1
  BY <1>1
<1>3. Elements(s) \cup {t} \subseteq Elements(u)
  BY <1>1 DEF Elements
<1>4. Elements(u) \subseteq Elements(s) \cup {t}
  BY <1>1, <1>2 DEF Elements
<1>5. ASSUME Distinct(s), t \notin Elements(s)
      PROVE  Distinct(u)
  <2>1. \A k \in 1..Len(s) : s[k] # t
    BY <1>5 DEF Elements
  <2>2. SUFFICES ASSUME NEW i \in 1..Len(u), NEW j \in 1..Len(u), u[i] = u[j]
                 PROVE  i = j
    BY DEF Distinct
  <2>3. QED
    BY <1>1, <1>2, <1>5, <2>1, <2>2 DEF Distinct
<1>6. QED
  BY <1>1, <1>3, <1>4, <1>5

LEMMA TailElements ==
  ASSUME NEW s \in Seq(Tasks), s # <<>>, NEW u, u = Tail(s)
  PROVE  /\ u \in Seq(Tasks)
         /\ Head(s) \in Tasks
         /\ Elements(s) = Elements(u) \cup {Head(s)}
         /\ Distinct(s) => Distinct(u) /\ Head(s) \notin Elements(u)
<1>1. /\ u \in Seq(Tasks)
      /\ Len(s) \in Nat /\ Len(s) >= 1 /\ Len(u) = Len(s) - 1
      /\ \A i \in 1..Len(u) : u[i] = s[i + 1]
      /\ Head(s) = s[1] /\ Head(s) \in Tasks
  BY HeadTailProperties, EmptySeq, LenProperties
<1>2. \A i \in 1..Len(u) : i + 1 \in 1..Len(s) /\ i + 1 # 1
  BY <1>1
<1>3. Elements(u) \cup {Head(s)} \subseteq Elements(s)
  BY <1>1, <1>2 DEF Elements
<1>4. ASSUME NEW i \in 1..Len(s)
      PROVE  s[i] \in Elements(u) \cup {Head(s)}
  <2>1. CASE i = 1
    BY <1>1, <2>1
  <2>2. CASE i # 1
    <3>1. i - 1 \in 1..Len(u) /\ (i - 1) + 1 = i
      BY <1>1, <2>2
    <3>2. u[i - 1] = s[i]
      BY <1>1, <3>1
    <3>3. QED
      BY <3>1, <3>2 DEF Elements
  <2>3. QED
    BY <2>1, <2>2
<1>5. Elements(s) \subseteq Elements(u) \cup {Head(s)}
  BY <1>4 DEF Elements
<1>6. ASSUME Distinct(s)
      PROVE  Distinct(u) /\ Head(s) \notin Elements(u)
  <2>1. ASSUME NEW i \in 1..Len(u), NEW j \in 1..Len(u), u[i] = u[j]
        PROVE  i = j
    <3>1. i + 1 = j + 1
      BY <1>1, <1>2, <1>6, <2>1 DEF Distinct
    <3>2. QED
      BY <3>1
  <2>2. ASSUME NEW i \in 1..Len(u)
        PROVE  u[i] # Head(s)
    BY <1>1, <1>2, <1>6 DEF Distinct
  <2>3. QED
    BY <2>1, <2>2 DEF Distinct, Elements
<1>7. QED
  BY <1>1, <1>3, <1>5, <1>6

LEMMA QueuedElements ==
  /\ TypeOK => Queued = Elements(QueueSeq)
  /\ TypeOK' => Queued' = Elements(QueueSeq')
<1>1. TypeOK => Queued = Elements(QueueSeq)
  BY QueueSeqType DEF Queued, Elements
<1>2. (TypeOK => Queued = Elements(QueueSeq))'
  BY <1>1, PTL
<1>3. QED
  BY <1>1, <1>2

-----------------------------------------------------------------------------
(* Every step has one of the effects. *)

(* A signal changes no thread that holds a task, and makes none hold one. *)
LEMMA SignalKeeps ==
  ASSUME NEW q \in [Threads -> WorkerPC \cup ClientPC],
         \/ Signal("notify", "top", q)
         \/ Signal("notify_empty", "wait", q)
         \/ pc' = q
  PROVE  \A x \in Threads : /\ pc'[x] = "run" <=> q[x] = "run"
                            /\ pc'[x] = "try" <=> q[x] = "try"
                            /\ pc'[x] = "exited" <=> q[x] = "exited"
BY SignalWakes

(* A step that touches neither the queue nor the tasks has no effect. *)
LEMMA NothingDone ==
  ASSUME UNCHANGED <<queueVars, task, done>>,
         \A x \in Threads : /\ pc'[x] = "run" <=> pc[x] = "run"
                            /\ pc'[x] = "try" <=> pc[x] = "try"
  PROVE  Effect
<1>1. QueueSeq' = QueueSeq
  BY DEF QueueSeq, queueVars
<1>2. QED
  BY <1>1 DEF Effect, Nothing, Quiet

LEMMA EnqueueSeq ==
  ASSUME TypeOK, TasksKnown, CountsExact, queue_count # QueueSize,
         NEW t \in Tasks, NEW q, Enqueue(t, q)
  PROVE  QueueSeq' = Append(QueueSeq, t) /\ Len(QueueSeq) < QueueSize
<1>1. Len(QueueSeq) < QueueSize
  BY ThPoolAssumption, QueueSeqType DEF TypeOK
<1>2. QED
  BY <1>1, EnqueueKnown

LEMMA DequeueEffect ==
  ASSUME TypeOK, TasksKnown, queue_count # 0, NEW p \in Threads, Dequeue(p), ~Holding(p),
         pc' = [pc EXCEPT ![p] = "run"], done' = done
  PROVE  Effect
<1>1. /\ QueueSeq' = Tail(QueueSeq)
      /\ task' = [task EXCEPT ![p] = Head(QueueSeq)]
  BY DequeueKnown
<1>2. QueueSeq # <<>>
  BY QueueSeqType
<1>3. pc \in [Threads -> WorkerPC \cup ClientPC] /\ task \in [Threads -> Tasks \cup {None}]
  BY DEF TypeOK
<1>4. Takes(p)
  BY <1>1, <1>2, <1>3 DEF Takes, Quiet
<1>5. QED
  BY <1>4 DEF Effect

LEMMA StepEffect ==
  ASSUME IInv, [Next]_vars
  PROVE  Effect
<1>types. /\ pc \in [Threads -> WorkerPC \cup ClientPC]
          /\ task \in [Threads -> Tasks \cup {None}]
          /\ Threads = Workers \cup Clients
          /\ TypeOK /\ TasksKnown /\ CountsExact
  BY DEF IInv, TypeOK, Threads
<1>1. ASSUME NEW w \in Workers, WorkerFindsEmpty(w)
      PROVE  Effect
  <2> DEFINE q == [pc EXCEPT ![w] = "empty"]
  <2>1. q \in [Threads -> WorkerPC \cup ClientPC]
    BY <1>types DEF WorkerPC, ClientPC
  <2>2. \A x \in Threads : q[x] = IF x = w THEN "empty" ELSE pc[x]
    BY <1>types
  <2>3. Signal("notify_empty", "wait", q) \/ pc' = q
    BY <1>1 DEF WorkerFindsEmpty
  <2> HIDE DEF q
  <2>4. \A x \in Threads : /\ pc'[x] = "run" <=> pc[x] = "run"
                           /\ pc'[x] = "try" <=> pc[x] = "try"
    BY <1>1, <2>1, <2>2, <2>3, SignalKeeps DEF WorkerFindsEmpty
  <2>5. QED
    BY <1>1, <2>4, NothingDone DEF WorkerFindsEmpty, history
<1>2. ASSUME NEW w \in Workers, WorkerChecksShutdown(w)
      PROVE  Effect
  BY <1>2, <1>types, NothingDone DEF WorkerChecksShutdown, history
<1>3. ASSUME NEW w \in Workers, WorkerChecksHold(w)
      PROVE  Effect
  BY <1>3, <1>types, NothingDone DEF WorkerChecksHold, history
<1>4. ASSUME NEW w \in Workers, WorkerTakes(w)
      PROVE  Effect
  <2>1. queue_count # 0
    BY <1>4 DEF WorkerTakes, IInv, CriticalSections, TypeOK
  <2>2. QED
    BY <1>4, <1>types, <2>1, DequeueEffect DEF WorkerTakes, Holding, history
<1>5. ASSUME NEW c \in Clients, NEW t \in Tasks, AddTask(c, t)
      PROVE  Effect
  <2>1. CASE queue_count = QueueSize
    BY <1>5, <1>types, <2>1, NothingDone DEF AddTask
  <2>2. CASE queue_count # QueueSize
    <3>1. Enqueue(t, pc) /\ task' = task /\ done' = done /\ New(t)
      BY <1>5, <2>2 DEF AddTask, Fresh, New
    <3>2. \A x \in Threads : /\ pc'[x] = "run" <=> pc[x] = "run"
                             /\ pc'[x] = "try" <=> pc[x] = "try"
      BY <1>types, <3>1, SignalKeeps DEF Enqueue
    <3>3. Adds(t)
      BY <1>types, <2>2, <3>1, <3>2, EnqueueSeq DEF Adds, Quiet
    <3>4. QED
      BY <3>3 DEF Effect
  <2>3. QED
    BY <2>1, <2>2
<1>6. ASSUME NEW c \in Clients, NEW t \in Tasks, AddTaskTry(c, t)
      PROVE  Effect
  <2>1. QueueSeq' = QueueSeq /\ done' = done
    BY <1>6 DEF AddTaskTry, QueueSeq, queueVars, history
  <2>2. Offers(c, t)
    BY <1>6, <1>types, <2>1
    DEF AddTaskTry, MayCall, Fresh, Offers, New, Holding, Quiet
  <2>3. QED
    BY <1>types, <2>2 DEF Effect
<1>7. ASSUME NEW c \in Clients, TryAgain(c)
      PROVE  Effect
  <2> DEFINE q == [pc EXCEPT ![c] = "idle"]
  <2>1. q \in [Threads -> WorkerPC \cup ClientPC]
    BY <1>types DEF WorkerPC, ClientPC
  <2>2. \A x \in Threads : q[x] = IF x = c THEN "idle" ELSE pc[x]
    BY <1>types
  <2>3. pc[c] = "try" /\ c \in Threads /\ task[c] \in Tasks /\ done' = done
    BY <1>7, <1>types DEF TryAgain, TasksKnown
  <2>4. CASE UNCHANGED <<queueVars, max_try, parked>> /\ pc' = q
             /\ task' = [task EXCEPT ![c] = None]
    <3>1. QueueSeq' = QueueSeq
      BY <2>4 DEF QueueSeq, queueVars
    <3>2. Withdraws(c)
      BY <1>types, <2>2, <2>3, <2>4, <3>1 DEF Withdraws, Quiet, Holding
    <3>3. QED
      BY <2>3, <3>2 DEF Effect
  <2>5. CASE UNCHANGED <<queueVars, pc, task, parked>>
    BY <2>3, <2>5, NothingDone
  <2>6. CASE queue_count # QueueSize /\ Enqueue(task[c], q)
             /\ task' = [task EXCEPT ![c] = None]
    <3>1. \A x \in Threads : /\ pc'[x] = "run" <=> q[x] = "run"
                             /\ pc'[x] = "try" <=> q[x] = "try"
      <4>1. Signal("notify", "top", q)
        BY <2>6 DEF Enqueue
      <4> HIDE DEF q
      <4>2. QED
        BY <2>1, <4>1, SignalKeeps
    <3>2. QueueSeq' = Append(QueueSeq, task[c]) /\ Len(QueueSeq) < QueueSize
      BY <1>types, <2>3, <2>6, EnqueueSeq
    <3> HIDE DEF q
    <3>3. AddsOffered(c)
      BY <1>types, <2>2, <2>3, <2>6, <3>1, <3>2 DEF AddsOffered, Quiet, Holding
    <3>4. QED
      BY <2>3, <3>3 DEF Effect
  <2>7. QED
    BY <1>7, <2>4, <2>5, <2>6 DEF TryAgain
<1>8. ASSUME NEW c \in Clients, Pause(c)
      PROVE  Effect
  BY <1>8, NothingDone DEF Pause, history
<1>9. ASSUME NEW c \in Clients, Resume(c)
      PROVE  Effect
  BY <1>9, <1>types, NothingDone DEF Resume, MayCall
<1>10. ASSUME NEW c \in Clients, ResumeSignals(c)
      PROVE  Effect
  <2> DEFINE q == [pc EXCEPT ![c] = "idle"]
  <2>1. q \in [Threads -> WorkerPC \cup ClientPC]
    BY <1>types DEF WorkerPC, ClientPC
  <2>2. \A x \in Threads : q[x] = IF x = c THEN "idle" ELSE pc[x]
    BY <1>types
  <2>3. Signal("notify", "top", q) /\ pc[c] = "resume"
    BY <1>10 DEF ResumeSignals
  <2> HIDE DEF q
  <2>4. \A x \in Threads : /\ pc'[x] = "run" <=> pc[x] = "run"
                           /\ pc'[x] = "try" <=> pc[x] = "try"
    BY <2>1, <2>2, <2>3, SignalKeeps
  <2>5. QED
    BY <1>10, <2>4, NothingDone DEF ResumeSignals, dataVars, history
<1>11. ASSUME NEW c \in Clients, Wait(c)
      PROVE  Effect
  BY <1>11, <1>types, NothingDone DEF Wait, MayCall, dataVars, history
<1>12. ASSUME NEW c \in Clients, WaitChecks(c)
      PROVE  Effect
  BY <1>12, <1>types, NothingDone DEF WaitChecks, dataVars, history
<1>13. ASSUME NEW c \in Clients, TryOnce(c)
      PROVE  Effect
  <2>1. CASE queue_count = 0
    BY <1>13, <2>1, NothingDone DEF TryOnce, history
  <2>2. CASE queue_count # 0
    BY <1>13, <1>types, <2>2, DequeueEffect DEF TryOnce, MayCall, Holding, history
  <2>3. QED
    BY <2>1, <2>2
<1>14. ASSUME NEW c \in Clients, Shutdown(c)
      PROVE  Effect
  BY <1>14, <1>types, NothingDone DEF Shutdown, MayCall
<1>15. ASSUME NEW c \in Clients, ShutdownBroadcasts(c)
      PROVE  Effect
  BY <1>15, <1>types, NothingDone DEF ShutdownBroadcasts, Broadcast, dataVars, history
<1>16. ASSUME NEW c \in Clients, ShutdownJoins(c)
      PROVE  Effect
  BY <1>16, <1>types, NothingDone DEF ShutdownJoins, dataVars, history
<1>17. ASSUME NEW p \in Threads, Execute(p)
      PROVE  Effect
  <2>1. QueueSeq' = QueueSeq
    BY <1>17 DEF Execute, QueueSeq, queueVars
  <2>2. Finishes(p)
    BY <1>17, <1>types, <2>1 DEF Execute, Finishes, Quiet, Holding
  <2>3. QED
    BY <2>2 DEF Effect
<1>18. ASSUME NEW p \in Threads, Release(p)
      PROVE  Effect
  BY <1>18, <1>types, NothingDone DEF Release, history
<1>19. ASSUME NEW p \in Threads, SpuriousWakeup(p)
      PROVE  Effect
  BY <1>19, <1>types, NothingDone DEF SpuriousWakeup, dataVars, history
<1>20. CASE UNCHANGED vars
  BY <1>20, NothingDone DEF vars, dataVars, history
<1>21. QED
  BY <1>1, <1>2, <1>3, <1>4, <1>5, <1>6, <1>7, <1>8, <1>9, <1>10, <1>11,
     <1>12, <1>13, <1>14, <1>15, <1>16, <1>17, <1>18, <1>19, <1>20 DEF Next,
     WorkerNext, ClientNext

-----------------------------------------------------------------------------
(* One owner *)

LEMMA OwnerStep ==
  ASSUME IInv, IInv', OneOwner, Effect
  PROVE  OneOwner'
<1>q. /\ QueueSeq \in Seq(Tasks)
      /\ Queued = Elements(QueueSeq) /\ Queued' = Elements(QueueSeq')
      /\ \A p \in Threads : Holding(p) => task[p] \in Tasks
  BY QueuedElements DEF IInv, TasksKnown, Holding
<1>a. /\ Queued \subseteq Accepted /\ done \subseteq Accepted
      /\ \A p \in Threads : pc[p] = "run" => task[p] \in Accepted
  BY DEF Accepted, InHand, Executing
<1>1. CASE Nothing
  BY <1>1, <1>q DEF Nothing, Quiet, OneOwner, Holding
<1>2. ASSUME NEW t \in Tasks, Adds(t)
      PROVE  OneOwner'
  <2>1. Queued' = Queued \cup {t} /\ Distinct(QueueSeq')
    BY <1>2, <1>q, <1>a, AppendElements DEF Adds, New, OneOwner
  <2>2. QED
    BY <1>2, <1>q, <1>a, <2>1 DEF Adds, New, Quiet, OneOwner, Holding
<1>3. ASSUME NEW p \in Threads, NEW t \in Tasks, Offers(p, t)
      PROVE  OneOwner'
  <2>1. Queued' = Queued
    BY <1>3, <1>q DEF Offers
  <2>2. QED
    BY <1>3, <1>q, <1>a, <2>1 DEF Offers, New, Quiet, OneOwner, Holding
<1>4. ASSUME NEW p \in Threads, AddsOffered(p)
      PROVE  OneOwner'
  <2>1. /\ Queued' = Queued \cup {task[p]}
        /\ Distinct(QueueSeq')
    BY <1>4, <1>q, AppendElements DEF AddsOffered, OneOwner, Holding
  <2>2. QED
    BY <1>4, <1>q, <2>1 DEF AddsOffered, Quiet, OneOwner, Holding
<1>5. ASSUME NEW p \in Threads, Withdraws(p)
      PROVE  OneOwner'
  BY <1>5, <1>q DEF Withdraws, Quiet, OneOwner, Holding
<1>6. ASSUME NEW p \in Threads, Takes(p)
      PROVE  OneOwner'
  <2>1. /\ Queued = Queued' \cup {Head(QueueSeq)}
        /\ Head(QueueSeq) \notin Queued'
        /\ Distinct(QueueSeq')
    BY <1>6, <1>q, TailElements DEF Takes, OneOwner
  <2>2. QED
    BY <1>6, <1>q, <2>1 DEF Takes, Quiet, OneOwner, Holding
<1>7. ASSUME NEW p \in Threads, Finishes(p)
      PROVE  OneOwner'
  <2>1. Queued' = Queued
    BY <1>7, <1>q DEF Finishes
  <2>2. QED
    BY <1>7, <1>q, <2>1 DEF Finishes, Quiet, OneOwner, Holding
<1>8. QED
  BY <1>1, <1>2, <1>3, <1>4, <1>5, <1>6, <1>7 DEF Effect

-----------------------------------------------------------------------------
(* The effects as steps of the abstract task pool *)

(* The tasks in hand are those of the threads that execute one. *)
LEMMA HandByThread ==
  /\ \A t : t \in InHand <=> \E x \in Threads : pc[x] = "run" /\ task[x] = t
  /\ \A t : t \in InHand' <=> \E x \in Threads : pc'[x] = "run" /\ task'[x] = t
BY DEF InHand, Executing

LEMMA HandKept ==
  ASSUME NEW S, Quiet(S), \A p \in S : pc[p] # "run" /\ pc'[p] # "run"
  PROVE  InHand' = InHand
BY HandByThread DEF Quiet, Holding

LEMMA EffectRefines ==
  ASSUME IInv, OneOwner, Effect
  PROVE  [Abstract!Next]_(Abstract!vars)
<1>q. /\ QueueSeq \in Seq(Tasks)
      /\ Abstract!Waiting = Elements(QueueSeq)
      /\ Queued = Elements(QueueSeq)
      /\ \A p \in Threads : Holding(p) => task[p] \in Tasks
  BY QueuedElements DEF IInv, TasksKnown, Abstract!Waiting, Elements, Holding
<1>1. CASE Nothing
  BY <1>1, HandKept DEF Nothing, Abstract!vars
<1>2. ASSUME NEW t \in Tasks, Adds(t)
      PROVE  [Abstract!Next]_(Abstract!vars)
  <2>1. InHand' = InHand
    BY <1>2, HandKept DEF Adds
  <2>2. Abstract!Submit(t)
    BY <1>2, <1>q, <2>1 DEF Adds, New, Accepted, Abstract!Submit
  <2>3. QED
    BY <2>2 DEF Abstract!Next
<1>3. ASSUME NEW p \in Threads, NEW t \in Tasks, Offers(p, t)
      PROVE  [Abstract!Next]_(Abstract!vars)
  BY <1>3, HandKept DEF Offers, Holding, Abstract!vars
<1>4. ASSUME NEW p \in Threads, AddsOffered(p)
      PROVE  [Abstract!Next]_(Abstract!vars)
  <2>1. InHand' = InHand
    BY <1>4, HandKept DEF AddsOffered, Holding
  <2>2. task[p] \notin InHand
    BY <1>4, HandByThread DEF AddsOffered, OneOwner, Holding
  <2>3. Abstract!Submit(task[p])
    BY <1>4, <1>q, <2>1, <2>2 DEF AddsOffered, OneOwner, Holding, Abstract!Submit
  <2>4. QED
    BY <1>4, <1>q, <2>3 DEF AddsOffered, Holding, Abstract!Next
<1>5. ASSUME NEW p \in Threads, Withdraws(p)
      PROVE  [Abstract!Next]_(Abstract!vars)
  BY <1>5, HandKept DEF Withdraws, Holding, Abstract!vars
<1>6. ASSUME NEW p \in Threads, Takes(p)
      PROVE  [Abstract!Next]_(Abstract!vars)
  <2>1. InHand' = InHand \cup {Head(QueueSeq)}
    BY <1>6, HandByThread DEF Takes, Quiet, Holding
  <2>2. QED
    BY <1>6, <2>1 DEF Takes, Abstract!Start, Abstract!Next
<1>7. ASSUME NEW p \in Threads, Finishes(p)
      PROVE  [Abstract!Next]_(Abstract!vars)
  <2>1. InHand' = InHand \ {task[p]} /\ task[p] \in InHand
    BY <1>7, HandByThread DEF Finishes, Quiet, OneOwner, Holding
  <2>2. Abstract!Finish(task[p])
    BY <1>7, <2>1 DEF Finishes, Abstract!Finish
  <2>3. QED
    BY <1>7, <1>q, <2>2 DEF Finishes, Holding, Abstract!Next
<1>8. QED
  BY <1>1, <1>2, <1>3, <1>4, <1>5, <1>6, <1>7 DEF Effect

-----------------------------------------------------------------------------
(* Shutdown *)

(* Accepted tasks stay accepted, and only others are added to the queue. *)
LEMMA AcceptedGrows ==
  ASSUME IInv, IInv', OneOwner, Effect
  PROVE  /\ Accepted \subseteq Accepted'
         /\ Accepted \cap Queued' \subseteq Queued
<1>q. /\ QueueSeq \in Seq(Tasks)
      /\ Queued = Elements(QueueSeq) /\ Queued' = Elements(QueueSeq')
      /\ \A p \in Threads : Holding(p) => task[p] \in Tasks
  BY QueuedElements DEF IInv, TasksKnown, Holding
<1>a. /\ Accepted = Queued \cup InHand \cup done
      /\ Accepted' = Queued' \cup InHand' \cup done'
  BY DEF Accepted
<1>1. CASE Nothing
  BY <1>1, <1>a, <1>q, HandKept DEF Nothing
<1>2. ASSUME NEW t \in Tasks, Adds(t)
      PROVE  /\ Accepted \subseteq Accepted'
             /\ Accepted \cap Queued' \subseteq Queued
  <2>1. Queued' = Queued \cup {t}
    BY <1>2, <1>q, AppendElements DEF Adds
  <2>2. QED
    BY <1>2, <1>a, <2>1, HandKept DEF Adds, New
<1>3. ASSUME NEW p \in Threads, NEW t \in Tasks, Offers(p, t)
      PROVE  /\ Accepted \subseteq Accepted'
             /\ Accepted \cap Queued' \subseteq Queued
  BY <1>3, <1>a, <1>q, HandKept DEF Offers, Holding
<1>4. ASSUME NEW p \in Threads, AddsOffered(p)
      PROVE  /\ Accepted \subseteq Accepted'
             /\ Accepted \cap Queued' \subseteq Queued
  <2>1. Queued' = Queued \cup {task[p]}
    BY <1>4, <1>q, AppendElements DEF AddsOffered, Holding
  <2>2. task[p] \notin InHand
    BY <1>4, HandByThread DEF AddsOffered, OneOwner, Holding
  <2>3. task[p] \notin Accepted
    BY <1>4, <1>a, <2>2 DEF AddsOffered, OneOwner, Holding
  <2>4. InHand' = InHand
    BY <1>4, HandKept DEF AddsOffered, Holding
  <2>5. QED
    BY <1>4, <1>a, <2>1, <2>3, <2>4 DEF AddsOffered
<1>5. ASSUME NEW p \in Threads, Withdraws(p)
      PROVE  /\ Accepted \subseteq Accepted'
             /\ Accepted \cap Queued' \subseteq Queued
  BY <1>5, <1>a, <1>q, HandKept DEF Withdraws, Holding
<1>6. ASSUME NEW p \in Threads, Takes(p)
      PROVE  /\ Accepted \subseteq Accepted'
             /\ Accepted \cap Queued' \subseteq Queued
  <2>1. Queued = Queued' \cup {Head(QueueSeq)}
    BY <1>6, <1>q, TailElements DEF Takes
  <2>2. InHand' = InHand \cup {Head(QueueSeq)}
    BY <1>6, HandByThread DEF Takes, Quiet, Holding
  <2>3. QED
    BY <1>6, <1>a, <2>1, <2>2 DEF Takes
<1>7. ASSUME NEW p \in Threads, Finishes(p)
      PROVE  /\ Accepted \subseteq Accepted'
             /\ Accepted \cap Queued' \subseteq Queued
  <2>1. InHand \subseteq InHand' \cup {task[p]}
    BY <1>7, HandByThread DEF Finishes, Quiet, Holding
  <2>2. QED
    BY <1>7, <1>a, <1>q, <2>1 DEF Finishes
<1>8. QED
  BY <1>1, <1>2, <1>3, <1>4, <1>5, <1>6, <1>7 DEF Effect


(* A step changes due only when it sets shutdown, a worker leaves only when  *)
(* shutdown is set and the queue is empty, and thpool_shutdown returns only  *)
(* when all have left.                                                       *)
DrainStep ==
  /\ UNCHANGED <<due, shutdown>> \/ (~shutdown /\ due' = Accepted)
  /\ \A w \in Workers : pc'[w] = "exited" /\ pc[w] # "exited" => shutdown /\ Queued = {}
  /\ \A c \in Clients : pc[c] = "join" /\ pc'[c] = "idle" =>
       \A w \in Workers : pc[w] = "exited"

LEMMA StepDrains ==
  ASSUME IInv, [Next]_vars
  PROVE  DrainStep
<1>types. /\ pc \in [Threads -> WorkerPC \cup ClientPC]
          /\ Threads = Workers \cup Clients
          /\ Workers \cap Clients = {}
  BY ThPoolAssumption DEF IInv, TypeOK, Threads
<1> USE <1>types DEF DrainStep
<1>1. ASSUME NEW w \in Workers, WorkerFindsEmpty(w)
      PROVE  DrainStep
  <2> DEFINE q == [pc EXCEPT ![w] = "empty"]
  <2>1. q \in [Threads -> WorkerPC \cup ClientPC]
    BY <1>types DEF WorkerPC, ClientPC
  <2>2. \A x \in Threads : q[x] = IF x = w THEN "empty" ELSE pc[x]
    BY <1>types
  <2>3. Signal("notify_empty", "wait", q) \/ pc' = q
    BY <1>1 DEF WorkerFindsEmpty
  <2> HIDE DEF q
  <2>4. \A x \in Threads : pc'[x] \in {pc[x], q[x], "top", "wait"}
    BY <2>1, <2>3, SignalWakes
  <2>5. QED
    BY <1>1, <2>2, <2>3, <2>4 DEF WorkerFindsEmpty, history
<1>2. ASSUME NEW w \in Workers, WorkerChecksShutdown(w)
      PROVE  DrainStep
  <2>1. Queued = {}
    BY <1>2 DEF WorkerChecksShutdown, IInv, CriticalSections, Queued
  <2>2. QED
    BY <1>2, <2>1 DEF WorkerChecksShutdown, history
<1>3. ASSUME NEW w \in Workers, WorkerChecksHold(w)
      PROVE  DrainStep
  BY <1>3 DEF WorkerChecksHold, MayCall, Broadcast, Dequeue, dataVars, poolVars, history
<1>4. ASSUME NEW w \in Workers, WorkerTakes(w)
      PROVE  DrainStep
  BY <1>4 DEF WorkerTakes, MayCall, Broadcast, Dequeue, dataVars, poolVars, history
<1>5. ASSUME NEW c \in Clients, NEW t \in Tasks, AddTask(c, t)
      PROVE  DrainStep
  <2>1. \A x \in Threads : pc'[x] \in {pc[x], "top", "wait"}
    BY <1>5, SignalWakes DEF AddTask, Enqueue
  <2>2. QED
    BY <1>5, <2>1 DEF AddTask, poolVars
<1>6. ASSUME NEW c \in Clients, NEW t \in Tasks, AddTaskTry(c, t)
      PROVE  DrainStep
  BY <1>6 DEF AddTaskTry, MayCall, Broadcast, Dequeue, dataVars, poolVars, history
<1>7. ASSUME NEW c \in Clients, TryAgain(c)
      PROVE  DrainStep
  <2> DEFINE q == [pc EXCEPT ![c] = "idle"]
  <2>1. q \in [Threads -> WorkerPC \cup ClientPC]
    BY <1>types DEF WorkerPC, ClientPC
  <2>2. \A x \in Threads : q[x] = IF x = c THEN "idle" ELSE pc[x]
    BY <1>types
  <2>3. (Signal("notify", "top", q) \/ pc' \in {pc, q}) /\ pc[c] = "try"
    BY <1>7 DEF TryAgain, Enqueue
  <2> HIDE DEF q
  <2>4. \A x \in Threads : pc'[x] \in {pc[x], q[x], "top", "wait"}
    BY <2>1, <2>3, SignalWakes
  <2>5. QED
    BY <1>7, <2>2, <2>3, <2>4 DEF TryAgain, poolVars
<1>8. ASSUME NEW c \in Clients, Pause(c)
      PROVE  DrainStep
  BY <1>8 DEF Pause, MayCall, Broadcast, Dequeue, dataVars, poolVars, history
<1>9. ASSUME NEW c \in Clients, Resume(c)
      PROVE  DrainStep
  BY <1>9 DEF Resume, MayCall, Broadcast, Dequeue, dataVars, poolVars, history
<1>10. ASSUME NEW c \in Clients, ResumeSignals(c)
      PROVE  DrainStep
  <2> DEFINE q == [pc EXCEPT ![c] = "idle"]
  <2>1. q \in [Threads -> WorkerPC \cup ClientPC]
    BY <1>types DEF WorkerPC, ClientPC
  <2>2. \A x \in Threads : q[x] = IF x = c THEN "idle" ELSE pc[x]
    BY <1>types
  <2>3. Signal("notify", "top", q) /\ pc[c] = "resume"
    BY <1>10 DEF ResumeSignals
  <2> HIDE DEF q
  <2>4. \A x \in Threads : pc'[x] \in {pc[x], q[x], "top", "wait"}
    BY <2>1, <2>3, SignalWakes
  <2>5. QED
    BY <1>10, <2>2, <2>3, <2>4 DEF ResumeSignals, dataVars, poolVars, history
<1>11. ASSUME NEW c \in Clients, Wait(c)
      PROVE  DrainStep
  BY <1>11 DEF Wait, MayCall, Broadcast, Dequeue, dataVars, poolVars, history
<1>12. ASSUME NEW c \in Clients, WaitChecks(c)
      PROVE  DrainStep
  BY <1>12 DEF WaitChecks, MayCall, Broadcast, Dequeue, dataVars, poolVars, history
<1>13. ASSUME NEW c \in Clients, TryOnce(c)
      PROVE  DrainStep
  BY <1>13 DEF TryOnce, MayCall, Broadcast, Dequeue, dataVars, poolVars, history
<1>14. ASSUME NEW c \in Clients, Shutdown(c)
      PROVE  DrainStep
  BY <1>14 DEF Shutdown, MayCall, Broadcast, Dequeue, dataVars, poolVars, history
<1>15. ASSUME NEW c \in Clients, ShutdownBroadcasts(c)
      PROVE  DrainStep
  BY <1>15 DEF ShutdownBroadcasts, MayCall, Broadcast, Dequeue, dataVars, poolVars, history
<1>16. ASSUME NEW c \in Clients, ShutdownJoins(c)
      PROVE  DrainStep
  BY <1>16 DEF ShutdownJoins, MayCall, Broadcast, Dequeue, dataVars, poolVars, history
<1>17. ASSUME NEW p \in Threads, Execute(p)
      PROVE  DrainStep
  BY <1>17 DEF Execute, MayCall, Broadcast, Dequeue, dataVars, poolVars, history
<1>18. ASSUME NEW p \in Threads, Release(p)
      PROVE  DrainStep
  BY <1>18 DEF Release, MayCall, Broadcast, Dequeue, dataVars, poolVars, history
<1>19. ASSUME NEW p \in Threads, SpuriousWakeup(p)
      PROVE  DrainStep
  BY <1>19 DEF SpuriousWakeup, MayCall, Broadcast, Dequeue, dataVars, poolVars, history
<1>20. CASE UNCHANGED vars
  BY <1>20 DEF vars, dataVars, poolVars, history
<1>21. QED
  BY <1>1, <1>2, <1>3, <1>4, <1>5, <1>6, <1>7, <1>8, <1>9, <1>10, <1>11,
     <1>12, <1>13, <1>14, <1>15, <1>16, <1>17, <1>18, <1>19, <1>20 DEF Next,
     WorkerNext, ClientNext

LEMMA DrainedStep ==
  ASSUME IInv, IInv', OneOwner, DueDrained, [Next]_vars
  PROVE  DueDrained'
<1>1. /\ Accepted \subseteq Accepted'
      /\ Accepted \cap Queued' \subseteq Queued
  BY StepEffect, AcceptedGrows
<1>2. DrainStep
  BY StepDrains
<1>3. CASE UNCHANGED <<due, shutdown>>
  BY <1>1, <1>2, <1>3 DEF DrainStep, DueDrained
<1>4. CASE ~shutdown /\ due' = Accepted
  BY <1>1, <1>2, <1>4 DEF DrainStep, DueDrained
<1>5. QED
  BY <1>2, <1>3, <1>4 DEF DrainStep

-----------------------------------------------------------------------------
LEMMA InitTaskInv == Init => TaskInv
<1> SUFFICES ASSUME Init PROVE TaskInv
  OBVIOUS
<1>1. IInv
  BY InitIInv
<1>2. QueueSeq = <<>> /\ Queued = {}
  <2>1. queue_count = 0
    BY DEF Init
  <2>2. QED
    BY <1>1, <2>1, QueueSeqType, EmptySeq DEF Queued, IInv
<1>3. \A p \in Threads : pc[p] \in {"top", "idle"}
  BY DEF Init
<1>4. OneOwner
  BY <1>2, <1>3 DEF OneOwner, Holding, Distinct
<1>5. DueDrained
  BY <1>3 DEF DueDrained, Init, Threads
<1>6. QED
  BY <1>1, <1>4, <1>5 DEF TaskInv

LEMMA NextTaskInv == TaskInv /\ [Next]_vars => TaskInv'
BY NextIInv, StepEffect, OwnerStep, DrainedStep DEF TaskInv

(* At every moment a task is in the queue once, or with one thread, or done,   *)
(* and no worker has left before the tasks that thpool_shutdown found.         *)
THEOREM TaskInvariance == Spec => []TaskInv
BY InitTaskInv, NextTaskInv, PTL DEF Spec

(* To its callers the pool is a bounded FIFO that hands every accepted task    *)
(* to one thread, in the order of acceptance, and executes it once.            *)
THEOREM TaskPoolImplemented == Spec => ImplementsTaskPool
<1>1. Init => Abstract!Init
  <2>1. SUFFICES ASSUME Init PROVE Abstract!Init
    OBVIOUS
  <2>2. QueueSeq = <<>>
    BY <2>1, InitIInv, QueueSeqType, EmptySeq DEF Init, IInv
  <2>3. \A p \in Threads : pc[p] # "run"
    BY <2>1 DEF Init
  <2>4. InHand = {}
    BY <2>3 DEF InHand, Executing
  <2>5. QED
    BY <2>1, <2>2, <2>4 DEF Init, Abstract!Init
<1>2. TaskInv /\ [Next]_vars => [Abstract!Next]_(Abstract!vars)
  BY StepEffect, EffectRefines DEF TaskInv
<1>3. QED
  BY <1>1, <1>2, TaskInvariance, PTL DEF Spec, ImplementsTaskPool, Abstract!Spec

(* When thpool_shutdown returns, the tasks accepted before the call have been  *)
(* executed, or are just being executed by clients in thpool_worker_try_once.  *)
THEOREM ShutdownAlwaysDrains == Spec => ShutdownDrains
<1> DEFINE A == \A c \in Clients : pc[c] = "join" /\ pc'[c] = "idle"
                  => due \subseteq done \cup {task[p] : p \in Executing \cap Clients}
<1>1. TaskInv /\ [Next]_vars => A
  <2>1. SUFFICES ASSUME TaskInv, [Next]_vars, NEW c \in Clients,
                        pc[c] = "join", pc'[c] = "idle"
                 PROVE  due \subseteq done \cup {task[p] : p \in Executing \cap Clients}
    OBVIOUS
  <2>2. \A w \in Workers : pc[w] = "exited"
    BY <2>1, StepDrains DEF TaskInv, DrainStep
  <2>3. due \cap Queued = {} /\ due \subseteq Accepted
    BY <2>1, <2>2, ThPoolAssumption DEF TaskInv, DueDrained
  <2>4. Executing \subseteq Clients
    BY <2>2 DEF Executing, Threads
  <2>5. QED
    BY <2>3, <2>4 DEF Accepted, InHand
<1> HIDE DEF A
<1>2. TaskInv /\ [Next]_vars => [A]_vars
  BY <1>1
<1>3. Spec => [][A]_vars
  BY <1>2, TaskInvariance, PTL DEF Spec
<1>4. QED
  BY <1>3, PTL DEF ShutdownDrains, A

-----------------------------------------------------------------------------
(* Tasks that come too late *)

Abandoned == \A w \in Workers : pc[w] = "exited"

(* Without workers and helpers nobody takes or finishes a task. *)
LEMMA AbandonedStep ==
  ASSUME TaskInv, TaskInv', Callers, StepKind, Effect, NoHelper, Abandoned
  PROVE  Abandoned' /\ Queued \subseteq Queued' /\ done' = done
<1>1. Threads = Workers \cup Clients /\ Workers \cap Clients = {}
  BY ThPoolAssumption DEF Threads
<1>2. \A p \in Threads : MoveOf(p)
  BY DEF StepKind, Moves
<1>3. Abandoned'
  BY <1>1, <1>2 DEF Abandoned, MoveOf
<1>4. \A p \in Threads : pc[p] # "run"
  BY <1>1 DEF Abandoned, Callers, NoHelper
<1>5. \A p \in Threads : pc'[p] # "run"
  <2>1. \A w \in Workers : pc'[w] # "run"
    BY <1>3 DEF Abandoned
  <2>2. \A c \in Clients : pc[c] # "take"
    BY DEF TaskInv, IInv, TypeOK, ClientPC
  <2>3. \A c \in Clients : pc'[c] # "run"
    BY <1>1, <1>2, <1>4, <2>2 DEF MoveOf, NoHelper
  <2>4. QED BY <1>1, <2>1, <2>3
<1>6. /\ QueueSeq \in Seq(Tasks)
      /\ Queued = Elements(QueueSeq) /\ Queued' = Elements(QueueSeq')
      /\ \A p \in Threads : Holding(p) => task[p] \in Tasks
  BY QueuedElements DEF TaskInv, IInv, TasksKnown, Holding
<1>7. done' = done /\ (QueueSeq' = QueueSeq \/ \E t \in Tasks : QueueSeq' = Append(QueueSeq, t))
  BY <1>4, <1>5, <1>6 DEF Effect, Nothing, Adds, Offers, AddsOffered, Withdraws, Takes,
     Finishes, Holding
<1>8. Queued \subseteq Queued'
  BY <1>6, <1>7, AppendElements
<1>9. QED BY <1>3, <1>7, <1>8

(* A pool that is shut down accepts tasks as before, but once its workers have *)
(* left a task that is queued stays queued and is never executed, although     *)
(* thpool_add_task returned 0 (lines 146-160, 313-317).                        *)
THEOREM LateTasksNeverRun ==
  ASSUME NoHelper
  PROVE  Spec => [][Abandoned => Abandoned' /\ Queued \subseteq Queued' /\ done' = done]_vars
<1> DEFINE A == Abandoned => Abandoned' /\ Queued \subseteq Queued' /\ done' = done
<1>1. TaskInv /\ TaskInv' /\ Callers /\ [Next]_vars => A
  BY StepKinds, StepEffect, AbandonedStep DEF TaskInv, IInv
<1> HIDE DEF A
<1>2. TaskInv /\ TaskInv' /\ Callers /\ [Next]_vars => [A]_vars
  BY <1>1
<1>3. Spec => [][A]_vars
  BY <1>2, TaskInvariance, JoinNeverFindsSleeper, PTL DEF Spec
<1>4. QED BY <1>3, PTL DEF A
=============================================================================
