------------------------ MODULE PoolLifecycleProofs ------------------------
(***************************************************************************)
(* The life of a pool, for any number of workers and clients and any steps *)
(* of the creation that may fail: nothing a worker uses is freed before    *)
(* the worker has left, nothing leaks, undefined behaviour needs a         *)
(* creation that failed or a pool that is shut down twice, and no worker   *)
(* sleeps through a shutdown.                                              *)
(***************************************************************************)
EXTENDS PoolLifecycle, TLAPS

Closing == {"shutdown", "wake", "loop", "join", "zero", "free"}

TypeOK ==
  /\ impl \in {"thpool", "lfthpool"}
  /\ status \in {"none", "creating", "up", "down"}
  /\ live \subseteq Objects
  /\ handle \in [Workers -> {"junk", "null", "set"}]
  /\ worker \in [Workers -> {"none", "running", "exited", "joined"}]
  /\ shutdown \in {0, 1}
  /\ pc \in [Clients -> Places]
  /\ op \in [Clients -> Ops]
  /\ i \in [Clients -> 1..(N + 1)]
  /\ misuse \in {"none", "again", "overlap"}

(* Whoever creates or destroys the pool is alone with it; two are inside     *)
(* only when both shut it down, and this is noted.                           *)
Alone ==
  /\ \A c \in Clients : pc[c] \in Steps => status = "creating"
  /\ \A c \in Clients : pc[c] # "idle" => status \in {"creating", "up"}
  /\ \A c \in Clients : pc[c] # "idle" => (op[c] = "create" <=> status = "creating")
  /\ status = "none" => \A c \in Clients : op[c] = "create"
  /\ \A c, d \in Clients : pc[c] # "idle" /\ pc[d] # "idle" /\ c # d =>
       op[c] = "shutdown" /\ op[d] = "shutdown" /\ misuse = "overlap"

(* The creation starts from nothing, and nobody has closed the pool. *)
Fresh ==
  /\ status = "none" => /\ live = {} /\ misuse = "none" /\ shutdown = 0 /\ failed = None
                        /\ \A w \in Workers : worker[w] = "none"
                        /\ \A c \in Clients : i[c] = 1
  /\ \A c \in Clients : pc[c] \in Steps => shutdown = 0 /\ failed = None
  /\ \A c \in Clients : pc[c] \in Steps \ {"spawn"} =>
       i[c] = 1 /\ \A w \in Workers : worker[w] = "none"

(* What is there at each step of the creation. *)
Complete == Used \cup {"handles"} \subseteq live
Stages ==
  /\ \A c \in Clients : pc[c] = "pool" => live = {}
  /\ \A c \in Clients : pc[c] = "arrays" => live = {"pool"}
  /\ \A c \in Clients : pc[c] \in Synchronisation =>
       impl = "thpool" /\ {"pool", "handles", "queue"} \subseteq live
  /\ \A c \in Clients : pc[c] \in {"notify", "notify_empty"} => "lock" \in live
  /\ \A c \in Clients : pc[c] = "notify_empty" => "notify" \in live
  /\ \A c \in Clients : pc[c] \in Synchronisation => \A w \in Workers : handle[w] = "null"
  /\ \A c \in Clients : pc[c] = "spawn" =>
       /\ Complete
       /\ i[c] <= N
       /\ \A w \in Workers : w < i[c] => handle[w] = "set"
       /\ \A w \in Workers : w >= i[c] => handle[w] = "null" /\ worker[w] = "none"

(* A pool that is up has all it needs; whoever closes one that is not up     *)
(* does so after a failure.                                                  *)
Standing ==
  /\ status = "up" => Complete
  /\ status = "up" => \A w \in Workers : handle[w] = "set" \/
                                         (impl = "lfthpool" /\ handle[w] = "null")
  /\ \A c \in Clients : pc[c] \in Closing => status = "up" \/ failed \notin {None, "pool"}

(* The loop that joins the workers leaves none behind, and lfthpool forgets  *)
(* the handle of each one it joins.                                          *)
Behind(c) == \A w \in Workers : w < i[c] => worker[w] \in {"none", "joined"}
Joining ==
  /\ shutdown = 0 => \A w \in Workers : worker[w] \in {"none", "running"}
  /\ \A w \in Workers : handle[w] = "null" => worker[w] \in {"none", "joined"}
  /\ \A c \in Clients : pc[c] = "wake" => impl = "thpool" /\ i[c] = 1
  /\ \A c \in Clients : pc[c] \in {"join", "zero"} => i[c] <= N
  /\ \A c \in Clients : pc[c] = "zero" => impl = "lfthpool" /\ worker[i[c]] = "joined"
  /\ \A c \in Clients : pc[c] = "free" => i[c] > N /\ op[c] # "shutdown"
  /\ \A c \in Clients : pc[c] \in {"loop", "join", "zero", "free"} /\ op[c] # "shutdown" => Behind(c)
  /\ impl = "lfthpool" => \A w \in Workers : handle[w] = "set" /\ worker[w] = "joined" =>
       \E c \in Clients : pc[c] = "zero" /\ i[c] = w

(* Without misuse a worker of thpool that the loop has not reached yet has   *)
(* not been joined.                                                          *)
Ahead(c) == \A w \in Workers : w >= i[c] => worker[w] # "joined"
JoinedOnce ==
  impl = "thpool" /\ misuse = "none" =>
    /\ \A c \in Clients : pc[c] = "shutdown" => shutdown = 0
    /\ \A c \in Clients : pc[c] \in {"wake", "loop", "join"} => Ahead(c)

IInv ==
  /\ TypeOK
  /\ Alone
  /\ Fresh
  /\ Stages
  /\ Standing
  /\ Joining
  /\ JoinedOnce
  /\ WorkersOnLivePool
  /\ NothingLeaks
  /\ FaultsConfined

-----------------------------------------------------------------------------
(* The use of the pool, by its users and its workers, does not touch its     *)
(* life; a worker that leaves does.                                          *)
LifeNext ==
  \/ \E c \in Clients : Create(c) \/ Shutdown(c) \/ Destroy(c) \/ InCall(c)
  \/ \E w \in Workers : WorkerExits(w)

LEMMA LifeStep == [Next]_vars => [LifeNext]_lifeVars
<1>1. AddTask \/ Pause \/ Resume \/ TryOnce => UNCHANGED lifeVars
  BY DEF AddTask, Pause, Resume, TryOnce
<1>2. \A w \in Workers : WorkerTakes(w) \/ WorkerSleeps(w) \/ SpuriousWakeup(w) => UNCHANGED lifeVars
  BY DEF WorkerTakes, WorkerSleeps, SpuriousWakeup
<1>3. UNCHANGED vars => UNCHANGED lifeVars
  BY DEF vars
<1>4. QED
  BY <1>1, <1>2, <1>3 DEF Next, LifeNext, WorkerNext

(* A client goes to a place of the program and nobody else moves. *)
LEMMA GotoMoves ==
  ASSUME pc \in [Clients -> Places], NEW c \in Clients, NEW label \in Places, Goto(c, label)
  PROVE  /\ pc' \in [Clients -> Places]
         /\ \A d \in Clients : pc'[d] = IF d = c THEN label ELSE pc[d]
BY DEF Goto

LEMMA PlaceNames ==
  /\ {"idle", "shutdown", "wake", "loop", "join", "zero", "free"} \subseteq Places
  /\ {"pool", "arrays", "lock", "notify", "notify_empty", "spawn"} \subseteq Places
BY DEF Places, Steps

(* Where the two loops over pthread_*_init and the handles can be. *)
LEMMA InitSyncMoves ==
  ASSUME TypeOK, NEW c \in Clients, InitSync(c)
  PROVE  /\ pc[c] \in Synchronisation
         /\ UNCHANGED <<impl, status, handle, worker, shutdown, op, i, misuse, fault, useVars>>
         /\ \/ /\ live' = live \cup {pc[c]}
               /\ failed' = failed
               /\ \/ pc[c] = "lock" /\ Goto(c, "notify")
                  \/ pc[c] = "notify" /\ Goto(c, "notify_empty")
                  \/ pc[c] = "notify_empty" /\ Goto(c, "spawn")
            \/ live' = live /\ failed' \in Steps \ {"pool"} /\ Goto(c, "shutdown")
<1>1. After["lock"] = "notify" /\ After["notify"] = "notify_empty" /\ After["notify_empty"] = "spawn"
  BY DEF After
<1>2. QED
  BY <1>1 DEF InitSync, At, Fails, Synchronisation, Steps

(* Every step preserves the types. *)
LEMMA TypeStep ==
  ASSUME TypeOK, Stages, Joining, [Next]_vars
  PROVE  TypeOK'
<1> USE PoolLifecycleAssumption DEF TypeOK, Workers
<1>1. ASSUME NEW c \in Clients, Create(c)
      PROVE  TypeOK'
  BY <1>1, GotoMoves, PlaceNames DEF Create
<1>2. ASSUME NEW c \in Clients, Shutdown(c)
      PROVE  TypeOK'
  BY <1>2, GotoMoves, PlaceNames DEF Shutdown, Enters, Ops
<1>3. ASSUME NEW c \in Clients, Destroy(c)
      PROVE  TypeOK'
  BY <1>3, GotoMoves, PlaceNames DEF Destroy, Enters, Ops
<1>4. ASSUME NEW c \in Clients, MallocPool(c)
      PROVE  TypeOK'
  BY <1>4, GotoMoves, PlaceNames DEF MallocPool, Objects
<1>5. ASSUME NEW c \in Clients, MallocArrays(c)
      PROVE  TypeOK'
  <2>1. pc' \in [Clients -> Places]
    BY <1>5, GotoMoves, PlaceNames DEF MallocArrays, Fails
  <2>2. live' \subseteq Objects
    BY <1>5 DEF MallocArrays, Objects
  <2>3. handle' \in [Workers -> {"junk", "null", "set"}]
    BY <1>5 DEF MallocArrays
  <2>4. QED
    BY <1>5, <2>1, <2>2, <2>3 DEF MallocArrays
<1>6. ASSUME NEW c \in Clients, InitSync(c)
      PROVE  TypeOK'
  <2>1. pc' \in [Clients -> Places]
    BY <1>6, InitSyncMoves, GotoMoves, PlaceNames
  <2>2. live' \subseteq Objects
    BY <1>6, InitSyncMoves DEF Objects, Synchronisation
  <2>3. QED
    BY <1>6, <2>1, <2>2, InitSyncMoves
<1>7. ASSUME NEW c \in Clients, Spawn(c)
      PROVE  TypeOK'
  <2>1. pc' \in [Clients -> Places]
    BY <1>7, GotoMoves, PlaceNames DEF Spawn, Fails
  <2>2. i[c] \in 1..N
    BY <1>7 DEF Spawn, At, Stages
  <2>3. i' \in [Clients -> 1..(N + 1)]
    BY <1>7, <2>2 DEF Spawn
  <2>4. /\ handle' \in [Workers -> {"junk", "null", "set"}]
        /\ worker' \in [Workers -> {"none", "running", "exited", "joined"}]
    BY <1>7 DEF Spawn
  <2>5. QED
    BY <1>7, <2>1, <2>3, <2>4 DEF Spawn
<1>8. ASSUME NEW c \in Clients, StoresShutdown(c)
      PROVE  TypeOK'
  BY <1>8, GotoMoves, PlaceNames DEF StoresShutdown, StartLoop
<1>9. ASSUME NEW c \in Clients, Wakes(c)
      PROVE  TypeOK'
  BY <1>9, GotoMoves, PlaceNames DEF Wakes
<1>10. ASSUME NEW c \in Clients, CallsJoin(c)
      PROVE  TypeOK'
  <2>1. pc' \in [Clients -> Places]
    BY <1>10, GotoMoves, PlaceNames DEF CallsJoin
  <2>2. i' \in [Clients -> 1..(N + 1)]
    BY <1>10 DEF CallsJoin
  <2>3. QED
    BY <1>10, <2>1, <2>2 DEF CallsJoin
<1>11. ASSUME NEW c \in Clients, Joins(c)
      PROVE  TypeOK'
  <2>1. pc' \in [Clients -> Places]
    BY <1>11, GotoMoves, PlaceNames DEF Joins
  <2>2. i[c] \in 1..N
    BY <1>11 DEF Joins, At, Joining
  <2>a. i' \in [Clients -> 1..(N + 1)]
    <3>1. i' = i \/ i' = [i EXCEPT ![c] = i[c] + 1]
      BY <1>11 DEF Joins
    <3>2. QED
      BY <2>2, <3>1
  <2>3. worker' \in [Workers -> {"none", "running", "exited", "joined"}]
    BY <1>11 DEF Joins
  <2>4. QED
    BY <1>11, <2>1, <2>a, <2>3 DEF Joins
<1>12. ASSUME NEW c \in Clients, ZeroesHandle(c)
      PROVE  TypeOK'
  <2>1. pc' \in [Clients -> Places]
    BY <1>12, GotoMoves, PlaceNames DEF ZeroesHandle
  <2>2. i' \in [Clients -> 1..(N + 1)]
    BY <1>12 DEF ZeroesHandle, At, Joining
  <2>3. handle' \in [Workers -> {"junk", "null", "set"}]
    BY <1>12 DEF ZeroesHandle
  <2>4. QED
    BY <1>12, <2>1, <2>2, <2>3 DEF ZeroesHandle
<1>13. ASSUME NEW c \in Clients, EndsLoop(c)
      PROVE  TypeOK'
  BY <1>13, GotoMoves, PlaceNames DEF EndsLoop
<1>14. ASSUME NEW c \in Clients, Frees(c)
      PROVE  TypeOK'
  BY <1>14, GotoMoves, PlaceNames DEF Frees
<1>15. ASSUME NEW c \in Clients, Undefined(c)
      PROVE  TypeOK'
  BY <1>15 DEF Undefined, At
<1>16. ASSUME NEW w \in Workers, WorkerExits(w)
      PROVE  TypeOK'
  BY <1>16 DEF WorkerExits, Awake
<1>17. CASE UNCHANGED lifeVars
  BY <1>17 DEF lifeVars
<1>18. QED
  BY <1>1, <1>2, <1>3, <1>4, <1>5, <1>6, <1>7, <1>8, <1>9, <1>10, <1>11,
     <1>12, <1>13, <1>14, <1>15, <1>16, <1>17, LifeStep DEF LifeNext, InCall

(* Who creates, or closes without being in thpool_shutdown alone, has no     *)
(* company, and nobody creates a pool that somebody closes.                  *)
LEMMA Company ==
  ASSUME Alone, NEW c \in Clients, pc[c] # "idle"
  PROVE  /\ pc[c] \in Steps \/ op[c] # "shutdown" => \A d \in Clients \ {c} : pc[d] = "idle"
         /\ pc[c] \notin Steps => \A d \in Clients : pc[d] \notin Steps
BY DEF Alone, Steps

LEMMA StepNames ==
  /\ {"pool", "arrays", "lock", "notify", "notify_empty", "spawn"} \subseteq Steps
  /\ \A s \in {"idle", "shutdown", "wake", "loop", "join", "zero", "free"} : s \notin Steps
  /\ \A s \in Steps : s # "spawn" => s \in {"pool", "arrays", "lock", "notify", "notify_empty"}
BY DEF Steps

(* Nobody joins whoever creates or destroys the pool. *)
LEMMA AloneStep ==
  ASSUME TypeOK, Alone, Joining, [Next]_vars
  PROVE  Alone'
<1> USE PoolLifecycleAssumption DEF TypeOK, Alone, Places, Ops, Steps
<1>1. ASSUME NEW c \in Clients, Create(c)
      PROVE  Alone'
  BY <1>1 DEF Create, Goto
<1>2. ASSUME NEW c \in Clients, Shutdown(c)
      PROVE  Alone'
  BY <1>2 DEF Shutdown, Enters, Goto, Busy
<1>3. ASSUME NEW c \in Clients, Destroy(c)
      PROVE  Alone'
  BY <1>3 DEF Destroy, Enters, Goto, Busy
<1>4. ASSUME NEW c \in Clients, MallocPool(c)
      PROVE  Alone'
  BY <1>4 DEF MallocPool, At, Goto
<1>5. ASSUME NEW c \in Clients, MallocArrays(c)
      PROVE  Alone'
  BY <1>5 DEF MallocArrays, At, Goto, Fails
<1>6. ASSUME NEW c \in Clients, InitSync(c)
      PROVE  Alone'
  <2>1. pc[c] \in Steps /\ pc' = [pc EXCEPT ![c] = pc'[c]] /\ pc'[c] # "idle"
        /\ UNCHANGED <<status, op, misuse>>
    BY <1>6, InitSyncMoves DEF Goto, Synchronisation
  <2>2. QED
    BY <2>1, Company
<1>7. ASSUME NEW c \in Clients, Spawn(c)
      PROVE  Alone'
  BY <1>7 DEF Spawn, At, Goto, Fails
<1>8. ASSUME NEW c \in Clients, StoresShutdown(c)
      PROVE  Alone'
  BY <1>8 DEF StoresShutdown, At, Goto, StartLoop
<1>9. ASSUME NEW c \in Clients, Wakes(c)
      PROVE  Alone'
  BY <1>9 DEF Wakes, At, Goto
<1>10. ASSUME NEW c \in Clients, CallsJoin(c)
      PROVE  Alone'
  BY <1>10 DEF CallsJoin, At, Goto
<1>11. ASSUME NEW c \in Clients, Joins(c)
      PROVE  Alone'
  BY <1>11 DEF Joins, At, Goto
<1>12. ASSUME NEW c \in Clients, ZeroesHandle(c)
      PROVE  Alone'
  BY <1>12 DEF ZeroesHandle, At, Goto
<1>13. ASSUME NEW c \in Clients, EndsLoop(c)
      PROVE  Alone'
  BY <1>13 DEF EndsLoop, At, Goto
<1>14. ASSUME NEW c \in Clients, Frees(c)
      PROVE  Alone'
  <2>1. \A d \in Clients \ {c} : pc[d] = "idle"
    BY <1>14, Company DEF Frees, At, Joining
  <2>2. QED
    BY <1>14, <2>1 DEF Frees, Goto
<1>15. ASSUME NEW c \in Clients, Undefined(c)
      PROVE  Alone'
  BY <1>15 DEF Undefined, At
<1>16. ASSUME NEW w \in Workers, WorkerExits(w)
      PROVE  Alone'
  BY <1>16 DEF WorkerExits, Awake
<1>17. CASE UNCHANGED lifeVars
  BY <1>17 DEF lifeVars
<1>18. QED
  BY <1>1, <1>2, <1>3, <1>4, <1>5, <1>6, <1>7, <1>8, <1>9, <1>10, <1>11,
     <1>12, <1>13, <1>14, <1>15, <1>16, <1>17, LifeStep DEF LifeNext, InCall

(* Nothing happens to a pool that is being created but its creation. *)
LEMMA FreshStep ==
  ASSUME TypeOK, Alone, Fresh, [Next]_vars
  PROVE  Fresh'
<1> USE PoolLifecycleAssumption DEF TypeOK, Alone, Fresh
<1>1. ASSUME NEW c \in Clients, Create(c)
      PROVE  Fresh'
  BY <1>1 DEF Create, Goto
<1>2. ASSUME NEW c \in Clients, Shutdown(c)
      PROVE  Fresh'
  <2>1. \A d \in Clients : pc[d] \notin Steps /\ pc'[d] \notin Steps
    BY <1>2, StepNames DEF Shutdown, Enters, Goto
  <2>2. QED
    BY <1>2, <2>1 DEF Shutdown, Enters
<1>3. ASSUME NEW c \in Clients, Destroy(c)
      PROVE  Fresh'
  <2>1. \A d \in Clients : pc[d] \notin Steps /\ pc'[d] \notin Steps
    BY <1>3, StepNames DEF Destroy, Enters, Goto
  <2>2. QED
    BY <1>3, <2>1 DEF Destroy, Enters
<1>4. ASSUME NEW c \in Clients, MallocPool(c)
      PROVE  Fresh'
  <2>1. \A d \in Clients \ {c} : pc[d] = "idle"
    BY <1>4, Company, StepNames DEF MallocPool, At
  <2>2. \A d \in Clients \ {c} : pc'[d] = "idle" /\ i'[d] = i[d]
    BY <1>4, <2>1 DEF MallocPool, Goto, Fails

  <2>3. i[c] = 1 /\ shutdown = 0 /\ failed = None /\ \A w \in Workers : worker[w] = "none"
    BY <1>4, StepNames DEF MallocPool, At
  <2>4. QED
    BY <1>4, <2>2, <2>3, StepNames DEF MallocPool, At, Goto
<1>5. ASSUME NEW c \in Clients, MallocArrays(c)
      PROVE  Fresh'
  <2>1. \A d \in Clients \ {c} : pc[d] = "idle"
    BY <1>5, Company, StepNames DEF MallocArrays, At
  <2>2. \A d \in Clients \ {c} : pc'[d] = "idle" /\ i'[d] = i[d]
    BY <1>5, <2>1 DEF MallocArrays, Goto, Fails

  <2>3. i[c] = 1 /\ shutdown = 0 /\ failed = None /\ \A w \in Workers : worker[w] = "none"
    BY <1>5, StepNames DEF MallocArrays, At
  <2>4. status' = "creating" /\ (failed' = failed \/ pc'[c] = "shutdown")
    BY <1>5, StepNames DEF MallocArrays, At, Goto, Fails
  <2>5. QED
    BY <1>5, <2>2, <2>3, <2>4, StepNames DEF MallocArrays
<1>6. ASSUME NEW c \in Clients, InitSync(c)
      PROVE  Fresh'
  <2>1. pc[c] \in Steps \ {"spawn"}
    BY <1>6, InitSyncMoves, StepNames DEF Synchronisation
  <2>2. \A d \in Clients \ {c} : pc[d] = "idle" /\ pc'[d] = "idle" /\ i'[d] = i[d]
    BY <1>6, <2>1, Company, StepNames, InitSyncMoves DEF Goto
  <2>3. i[c] = 1 /\ shutdown = 0 /\ failed = None /\ \A w \in Workers : worker[w] = "none"
    BY <2>1
  <2>4. status' = "creating" /\ (failed' = failed \/ pc'[c] = "shutdown")
    BY <1>6, <2>1, InitSyncMoves DEF Goto
  <2>5. QED
    BY <1>6, <2>2, <2>3, <2>4, StepNames, InitSyncMoves
<1>7. ASSUME NEW c \in Clients, Spawn(c)
      PROVE  Fresh'
  <2>1. \A d \in Clients \ {c} : pc[d] = "idle"
    BY <1>7, Company, StepNames DEF Spawn, At
  <2>2. \A d \in Clients \ {c} : pc'[d] = "idle"
    BY <1>7, <2>1 DEF Spawn, Goto, Fails
  <2>3. shutdown = 0 /\ failed = None /\ status = "creating"
    BY <1>7, StepNames DEF Spawn, At
  <2>4. /\ pc'[c] \in {"spawn", "shutdown", "idle"}
        /\ status' # "none" /\ shutdown' = 0
        /\ failed' = None \/ pc'[c] = "shutdown"
    BY <1>7, <2>3 DEF Spawn, At, Goto, Fails
  <2>5. QED
    BY <2>2, <2>4, StepNames
<1>8. ASSUME NEW c \in Clients, StoresShutdown(c)
      PROVE  Fresh'
  <2>1. \A d \in Clients : pc[d] \notin Steps /\ pc'[d] \notin Steps
    BY <1>8, Company, StepNames DEF StoresShutdown, At, Goto
  <2>2. status # "none" /\ status' # "none"
    BY <1>8 DEF StoresShutdown, At
  <2>3. QED
    BY <1>8, <2>1, <2>2 DEF StoresShutdown
<1>9. ASSUME NEW c \in Clients, Wakes(c)
      PROVE  Fresh'
  <2>1. \A d \in Clients : pc[d] \notin Steps /\ pc'[d] \notin Steps
    BY <1>9, Company, StepNames DEF Wakes, At, Goto
  <2>2. status # "none" /\ status' # "none"
    BY <1>9 DEF Wakes, At
  <2>3. QED
    BY <1>9, <2>1, <2>2 DEF Wakes
<1>10. ASSUME NEW c \in Clients, CallsJoin(c)
      PROVE  Fresh'
  <2>1. \A d \in Clients : pc[d] \notin Steps /\ pc'[d] \notin Steps
    BY <1>10, Company, StepNames DEF CallsJoin, At, Goto
  <2>2. status # "none" /\ status' # "none"
    BY <1>10 DEF CallsJoin, At
  <2>3. QED
    BY <1>10, <2>1, <2>2 DEF CallsJoin
<1>11. ASSUME NEW c \in Clients, Joins(c)
      PROVE  Fresh'
  <2>1. \A d \in Clients : pc[d] \notin Steps /\ pc'[d] \notin Steps
    BY <1>11, Company, StepNames DEF Joins, At, Goto
  <2>2. status # "none" /\ status' # "none"
    BY <1>11 DEF Joins, At
  <2>3. QED
    BY <1>11, <2>1, <2>2 DEF Joins
<1>12. ASSUME NEW c \in Clients, ZeroesHandle(c)
      PROVE  Fresh'
  <2>1. \A d \in Clients : pc[d] \notin Steps /\ pc'[d] \notin Steps
    BY <1>12, Company, StepNames DEF ZeroesHandle, At, Goto
  <2>2. status # "none" /\ status' # "none"
    BY <1>12 DEF ZeroesHandle, At
  <2>3. QED
    BY <1>12, <2>1, <2>2 DEF ZeroesHandle
<1>13. ASSUME NEW c \in Clients, EndsLoop(c)
      PROVE  Fresh'
  <2>1. \A d \in Clients : pc[d] \notin Steps /\ pc'[d] \notin Steps
    BY <1>13, Company, StepNames DEF EndsLoop, At, Goto
  <2>2. status # "none" /\ status' # "none"
    BY <1>13 DEF EndsLoop, At
  <2>3. QED
    BY <1>13, <2>1, <2>2 DEF EndsLoop
<1>14. ASSUME NEW c \in Clients, Frees(c)
      PROVE  Fresh'
  <2>1. \A d \in Clients : pc[d] \notin Steps /\ pc'[d] \notin Steps
    BY <1>14, Company, StepNames DEF Frees, At, Goto
  <2>2. status # "none" /\ status' # "none"
    BY <1>14 DEF Frees, At
  <2>3. QED
    BY <1>14, <2>1, <2>2 DEF Frees
<1>15. ASSUME NEW c \in Clients, Undefined(c)
      PROVE  Fresh'
  BY <1>15 DEF Undefined, At
<1>16. ASSUME NEW w \in Workers, WorkerExits(w)
      PROVE  Fresh'
  <2>1. status # "none" /\ \A d \in Clients : pc[d] \notin Steps \ {"spawn"}
    BY <1>16 DEF WorkerExits, Awake
  <2>2. QED
    BY <1>16, <2>1 DEF WorkerExits, Awake
<1>17. CASE UNCHANGED lifeVars
  BY <1>17 DEF lifeVars
<1>18. QED
  BY <1>1, <1>2, <1>3, <1>4, <1>5, <1>6, <1>7, <1>8, <1>9, <1>10, <1>11,
     <1>12, <1>13, <1>14, <1>15, <1>16, <1>17, LifeStep DEF LifeNext, InCall

(* As long as nobody is creating the pool Stages says nothing. *)
LEMMA NoStage ==
  ASSUME \A d \in Clients : pc'[d] \notin Steps
  PROVE  Stages'
BY DEF Stages, Steps, Synchronisation

(* Each step of the creation adds what it is for. *)
LEMMA StagesStep ==
  ASSUME TypeOK, Alone, Fresh, Stages, [Next]_vars
  PROVE  Stages'
<1> USE PoolLifecycleAssumption DEF TypeOK
<1>1. ASSUME NEW c \in Clients, Create(c)
      PROVE  Stages'
  <2>1. \A d \in Clients : pc'[d] = IF d = c THEN "pool" ELSE "idle"
    BY <1>1 DEF Create, Goto, Alone
  <2>2. live' = {}
    BY <1>1 DEF Create, Fresh
  <2>3. QED
    BY <2>1, <2>2 DEF Stages, Synchronisation
<1>2. ASSUME NEW c \in Clients, Shutdown(c)
      PROVE  Stages'
  <2>1. \A d \in Clients : pc'[d] \notin Steps
    BY <1>2, StepNames DEF Shutdown, Enters, Goto, Alone
  <2>2. QED
    BY <2>1, NoStage
<1>3. ASSUME NEW c \in Clients, Destroy(c)
      PROVE  Stages'
  <2>1. \A d \in Clients : pc'[d] \notin Steps
    BY <1>3, StepNames DEF Destroy, Enters, Goto, Alone
  <2>2. QED
    BY <2>1, NoStage
<1>4. ASSUME NEW c \in Clients, MallocPool(c)
      PROVE  Stages'
  <2>1. \A d \in Clients \ {c} : pc'[d] = "idle"
    BY <1>4, Company, StepNames DEF MallocPool, At, Goto, Fails

  <2>2. (pc'[c] = "arrays" /\ live' = {"pool"}) \/ pc'[c] = "idle"
    BY <1>4 DEF MallocPool, At, Goto
  <2>3. QED
    BY <2>1, <2>2 DEF Stages, Synchronisation
<1>5. ASSUME NEW c \in Clients, MallocArrays(c)
      PROVE  Stages'
  <2>1. \A d \in Clients \ {c} : pc'[d] = "idle"
    BY <1>5, Company, StepNames DEF MallocArrays, At, Goto, Fails

  <2>2. i[c] = 1 /\ live = {"pool"} /\ \A w \in Workers : worker[w] = "none"
    BY <1>5, StepNames DEF MallocArrays, At, Fresh, Stages
  <2>3. CASE pc'[c] = "shutdown"
    BY <2>1, <2>3, StepNames, NoStage
  <2>4. CASE pc'[c] # "shutdown"
    <3>1. /\ live' = {"pool", "handles", "queue"}
          /\ \A w \in Workers : handle'[w] = "null" /\ worker'[w] = "none"
          /\ impl' = impl /\ i' = i
          /\ pc'[c] = IF impl = "thpool" THEN "lock" ELSE "spawn"
      BY <1>5, <2>2, <2>4 DEF MallocArrays, Fails, Goto
    <3>2. CASE impl = "thpool"
      BY <2>1, <3>1, <3>2 DEF Stages, Synchronisation
    <3>3. CASE impl # "thpool"
      <4>1. Complete'
        BY <3>1, <3>3 DEF Complete, Used
      <4>2. 1 <= N /\ \A w \in Workers : w >= 1 /\ ~(w < 1)
        BY PoolLifecycleAssumption DEF Workers
      <4>3. i'[c] = 1 /\ pc'[c] = "spawn"
        BY <2>2, <3>1, <3>3
      <4>4. QED
        BY <2>1, <3>1, <4>1, <4>2, <4>3 DEF Stages, Synchronisation
    <3>4. QED
      BY <3>2, <3>3
  <2>5. QED
    BY <2>3, <2>4
<1>6. ASSUME NEW c \in Clients, InitSync(c)
      PROVE  Stages'
  <2>1. pc[c] \in Synchronisation /\ pc[c] \in Steps \ {"spawn"}
    BY <1>6, InitSyncMoves, StepNames DEF Synchronisation
  <2>a. \A d \in Clients \ {c} : pc[d] = "idle"
    BY <2>1, Company, StepNames
  <2>b. pc' \in {[pc EXCEPT ![c] = label] : label \in {"notify", "notify_empty", "spawn", "shutdown"}}
    BY <1>6, InitSyncMoves DEF Goto
  <2>2. \A d \in Clients \ {c} : pc'[d] = "idle"
    BY <2>a, <2>b
  <2>3. /\ i[c] = 1 /\ impl = "thpool"
        /\ {"pool", "handles", "queue"} \subseteq live
        /\ pc[c] \in {"notify", "notify_empty"} => "lock" \in live
        /\ pc[c] = "notify_empty" => "notify" \in live
        /\ \A w \in Workers : worker[w] = "none" /\ handle[w] = "null"
    BY <2>1 DEF Fresh, Stages
  <2>4. UNCHANGED <<impl, handle, worker, i>>
    BY <1>6, InitSyncMoves
  <2>5. CASE live' = live \cup {pc[c]} /\ pc[c] = "lock" /\ pc'[c] = "notify"
    BY <2>2, <2>3, <2>4, <2>5 DEF Stages, Synchronisation
  <2>6. CASE live' = live \cup {pc[c]} /\ pc[c] = "notify" /\ pc'[c] = "notify_empty"
    BY <2>2, <2>3, <2>4, <2>6 DEF Stages, Synchronisation
  <2>7. CASE live' = live \cup {pc[c]} /\ pc[c] = "notify_empty" /\ pc'[c] = "spawn"
    <3>1. Complete'
      BY <2>3, <2>4, <2>7 DEF Complete, Used, Synchronisation
    <3>2. i'[c] = 1 /\ 1 <= N /\ \A w \in Workers : w >= 1 /\ ~(w < 1)
      BY <2>3, <2>4, PoolLifecycleAssumption DEF Workers
    <3>3. QED
      BY <2>2, <2>3, <2>4, <2>7, <3>1, <3>2 DEF Stages, Synchronisation
  <2>8. CASE pc'[c] = "shutdown"
    BY <2>2, <2>8, StepNames, NoStage
  <2>9. QED
    BY <1>6, <2>5, <2>6, <2>7, <2>8, InitSyncMoves DEF Goto
<1>7. ASSUME NEW c \in Clients, Spawn(c)
      PROVE  Stages'
  <2>1. \A d \in Clients \ {c} : pc'[d] = "idle"
    BY <1>7, Company, StepNames DEF Spawn, At, Goto, Fails

  <2>2. CASE pc'[c] # "spawn"
    <3>1. pc'[c] \in {"idle", "shutdown"}
      BY <1>7, <2>2 DEF Spawn, At, Goto, Fails
    <3>2. QED
      BY <2>1, <3>1, StepNames, NoStage
  <2>3. CASE pc'[c] = "spawn"
    <3>1. /\ Complete
          /\ \A w \in Workers : w < i[c] => handle[w] = "set"
          /\ \A w \in Workers : w >= i[c] => handle[w] = "null" /\ worker[w] = "none"
      BY <1>7 DEF Spawn, At, Stages
    <3>2. /\ i[c] < N /\ i' = [i EXCEPT ![c] = i[c] + 1]
          /\ worker' = [worker EXCEPT ![i[c]] = "running"]
          /\ handle' = [handle EXCEPT ![i[c]] = "set"]
          /\ UNCHANGED <<impl, live>>
      BY <1>7, <2>3 DEF Spawn, Goto, Fails
    <3>3. i[c] \in Nat /\ i'[c] = i[c] + 1 /\ i'[c] <= N /\ Workers \subseteq Int
      BY <3>2, PoolLifecycleAssumption DEF Workers
    <3>4. \A w \in Workers : w < i'[c] => handle'[w] = "set"
      BY <3>1, <3>2, <3>3
    <3>5. \A w \in Workers : w >= i'[c] => handle'[w] = "null" /\ worker'[w] = "none"
      BY <3>1, <3>2, <3>3
    <3>6. Complete'
      BY <3>1, <3>2 DEF Complete, Used
    <3>7. QED
      BY <2>1, <2>3, <3>3, <3>4, <3>5, <3>6 DEF Stages, Synchronisation
  <2>4. QED
    BY <2>2, <2>3
<1>8. ASSUME NEW c \in Clients, StoresShutdown(c)
      PROVE  Stages'
  <2>1. \A d \in Clients : pc'[d] \notin Steps
    BY <1>8, Company, StepNames DEF StoresShutdown, At, Goto
  <2>2. QED
    BY <2>1, NoStage
<1>9. ASSUME NEW c \in Clients, Wakes(c)
      PROVE  Stages'
  <2>1. \A d \in Clients : pc'[d] \notin Steps
    BY <1>9, Company, StepNames DEF Wakes, At, Goto
  <2>2. QED
    BY <2>1, NoStage
<1>10. ASSUME NEW c \in Clients, CallsJoin(c)
      PROVE  Stages'
  <2>1. \A d \in Clients : pc'[d] \notin Steps
    BY <1>10, Company, StepNames DEF CallsJoin, At, Goto
  <2>2. QED
    BY <2>1, NoStage
<1>11. ASSUME NEW c \in Clients, Joins(c)
      PROVE  Stages'
  <2>1. \A d \in Clients : pc'[d] \notin Steps
    BY <1>11, Company, StepNames DEF Joins, At, Goto
  <2>2. QED
    BY <2>1, NoStage
<1>12. ASSUME NEW c \in Clients, ZeroesHandle(c)
      PROVE  Stages'
  <2>1. \A d \in Clients : pc'[d] \notin Steps
    BY <1>12, Company, StepNames DEF ZeroesHandle, At, Goto
  <2>2. QED
    BY <2>1, NoStage
<1>13. ASSUME NEW c \in Clients, EndsLoop(c)
      PROVE  Stages'
  <2>1. \A d \in Clients : pc'[d] \notin Steps
    BY <1>13, Company, StepNames DEF EndsLoop, At, Goto
  <2>2. QED
    BY <2>1, NoStage
<1>14. ASSUME NEW c \in Clients, Frees(c)
      PROVE  Stages'
  <2>1. \A d \in Clients : pc'[d] \notin Steps
    BY <1>14, Company, StepNames DEF Frees, At, Goto
  <2>2. QED
    BY <2>1, NoStage
<1>15. ASSUME NEW c \in Clients, Undefined(c)
      PROVE  Stages'
  BY <1>15 DEF Undefined, Stages, Complete, Used
<1>16. ASSUME NEW w \in Workers, WorkerExits(w)
      PROVE  Stages'
  <2>1. \A d \in Clients : pc'[d] \notin Steps
    BY <1>16 DEF WorkerExits, Awake, Fresh
  <2>2. QED
    BY <2>1, NoStage
<1>17. CASE UNCHANGED lifeVars
  BY <1>17 DEF lifeVars, Stages, Complete, Used
<1>18. QED
  BY <1>1, <1>2, <1>3, <1>4, <1>5, <1>6, <1>7, <1>8, <1>9, <1>10, <1>11,
     <1>12, <1>13, <1>14, <1>15, <1>16, <1>17, LifeStep DEF LifeNext, InCall

(* A pool that is up stays complete. *)
LEMMA StandingStep ==
  ASSUME TypeOK, Alone, Fresh, Stages, Standing, Joining, [Next]_vars
  PROVE  Standing'
<1> USE PoolLifecycleAssumption DEF TypeOK, Alone, Fresh, Stages, Standing, Closing, Complete, Used, Steps, Workers
<1>1. ASSUME NEW c \in Clients, Create(c)
      PROVE  Standing'
  BY <1>1 DEF Create, Goto
<1>2. ASSUME NEW c \in Clients, Shutdown(c)
      PROVE  Standing'
  BY <1>2 DEF Shutdown, Enters, Goto, Busy
<1>3. ASSUME NEW c \in Clients, Destroy(c)
      PROVE  Standing'
  BY <1>3 DEF Destroy, Enters, Goto, Busy
<1>4. ASSUME NEW c \in Clients, MallocPool(c)
      PROVE  Standing'
  BY <1>4 DEF MallocPool, At, Goto
<1>5. ASSUME NEW c \in Clients, MallocArrays(c)
      PROVE  Standing'
  BY <1>5 DEF MallocArrays, At, Goto, Fails
<1>6. ASSUME NEW c \in Clients, InitSync(c)
      PROVE  Standing'
  <2>1. status' = "creating" /\ \A d \in Clients \ {c} : pc[d] = "idle"
    BY <1>6, InitSyncMoves, Company DEF Synchronisation
  <2>2. CASE pc' = [pc EXCEPT ![c] = "shutdown"] /\ failed' \in Steps \ {"pool"}
    BY <2>1, <2>2
  <2>3. CASE pc' \in {[pc EXCEPT ![c] = label] : label \in {"notify", "notify_empty", "spawn"}}
    BY <2>1, <2>3
  <2>4. QED
    BY <1>6, <2>2, <2>3, InitSyncMoves DEF Goto
<1>7. ASSUME NEW c \in Clients, Spawn(c)
      PROVE  Standing'
  BY <1>7 DEF Spawn, At, Goto, Fails
<1>8. ASSUME NEW c \in Clients, StoresShutdown(c)
      PROVE  Standing'
  BY <1>8 DEF StoresShutdown, At, Goto, StartLoop
<1>9. ASSUME NEW c \in Clients, Wakes(c)
      PROVE  Standing'
  BY <1>9 DEF Wakes, At, Goto
<1>10. ASSUME NEW c \in Clients, CallsJoin(c)
      PROVE  Standing'
  BY <1>10 DEF CallsJoin, At, Goto
<1>11. ASSUME NEW c \in Clients, Joins(c)
      PROVE  Standing'
  BY <1>11 DEF Joins, At, Goto
<1>12. ASSUME NEW c \in Clients, ZeroesHandle(c)
      PROVE  Standing'
  <2>1. impl = "lfthpool"
    BY <1>12 DEF ZeroesHandle, At, Joining
  <2>2. \A w \in Workers : handle'[w] = handle[w] \/ handle'[w] = "null"
    BY <1>12 DEF ZeroesHandle
  <2>3. QED
    BY <1>12, <2>1, <2>2 DEF ZeroesHandle, At, Goto
<1>13. ASSUME NEW c \in Clients, EndsLoop(c)
      PROVE  Standing'
  BY <1>13 DEF EndsLoop, At, Goto
<1>14. ASSUME NEW c \in Clients, Frees(c)
      PROVE  Standing'
  <2>1. \A d \in Clients : pc'[d] = "idle"
    BY <1>14, Company DEF Frees, At, Goto, Joining
  <2>2. status' = "down"
    BY <1>14 DEF Frees
  <2>3. QED
    BY <2>1, <2>2
<1>15. ASSUME NEW c \in Clients, Undefined(c)
      PROVE  Standing'
  BY <1>15 DEF Undefined, At
<1>16. ASSUME NEW w \in Workers, WorkerExits(w)
      PROVE  Standing'
  BY <1>16 DEF WorkerExits, Awake
<1>17. CASE UNCHANGED lifeVars
  BY <1>17 DEF lifeVars
<1>18. QED
  BY <1>1, <1>2, <1>3, <1>4, <1>5, <1>6, <1>7, <1>8, <1>9, <1>10, <1>11,
     <1>12, <1>13, <1>14, <1>15, <1>16, <1>17, LifeStep DEF LifeNext, InCall

(* Nobody who is not closing the pool matters to the loops. *)
LEMMA NobodyJoins ==
  ASSUME \A d \in Clients : pc'[d] \notin {"wake", "loop", "join", "zero", "free"},
         shutdown' = 0 => \A w \in Workers : worker'[w] \in {"none", "running"},
         \A w \in Workers : handle'[w] = "null" => worker'[w] \in {"none", "joined"},
         \A w \in Workers : worker'[w] # "joined"
  PROVE  Joining'
BY DEF Joining

(* The step that joins a worker puts it behind the loop, and before the      *)
(* handle is forgotten the thread is there to forget it.                     *)
LEMMA JoinsJoining ==
  ASSUME TypeOK, Joining, NEW c \in Clients, Joins(c)
  PROVE  Joining'
<1>1. /\ pc[c] = "join" /\ i[c] \in Workers /\ worker[i[c]] = "exited"
      /\ worker' = [worker EXCEPT ![i[c]] = "joined"]
      /\ UNCHANGED <<impl, shutdown, handle, op>>
  BY DEF Joins, At, Joining, TypeOK, Workers
<1>2. \A w \in Workers : worker'[w] = IF w = i[c] THEN "joined" ELSE worker[w]
  BY <1>1 DEF TypeOK
<1>3. /\ i[c] \in 1..N
      /\ \A d \in Clients : pc'[d] = IF d # c THEN pc[d] ELSE IF impl = "thpool" THEN "loop" ELSE "zero"
      /\ \A d \in Clients : i'[d] = IF d = c /\ impl = "thpool" THEN i[c] + 1 ELSE i[d]
  BY <1>1 DEF Joins, Goto, TypeOK, Workers
<1>4. shutdown # 0
  BY <1>1 DEF Joining
<1>5. \A w \in Workers : handle'[w] = "null" => worker'[w] \in {"none", "joined"}
  BY <1>1, <1>2 DEF Joining
<1>6. \A d \in Clients : pc'[d] = "wake" => impl' = "thpool" /\ i'[d] = 1
  BY <1>1, <1>3 DEF Joining
<1>7. \A d \in Clients : pc'[d] \in {"join", "zero"} => i'[d] <= N
  BY <1>1, <1>3 DEF Joining
<1>8. \A d \in Clients : pc'[d] = "zero" => impl' = "lfthpool" /\ worker'[i'[d]] = "joined"
  <2>1. CASE impl = "thpool"
    BY <1>3, <2>1 DEF Joining
  <2>2. ASSUME impl = "lfthpool", NEW d \in Clients, pc'[d] = "zero"
        PROVE  worker'[i'[d]] = "joined"
    <3>1. CASE d = c
      BY <1>1, <1>2, <1>3, <2>2, <3>1
    <3>2. CASE d # c
      <4>1. pc[d] = "zero" /\ i'[d] = i[d] /\ i[d] \in Workers /\ worker[i[d]] = "joined"
        BY <1>3, <2>2, <3>2 DEF Joining, TypeOK, Workers
      <4>2. QED
        BY <1>2, <4>1
    <3>3. QED
      BY <3>1, <3>2
  <2>3. QED
    BY <1>1, <2>1, <2>2 DEF TypeOK
<1>9. \A d \in Clients : pc'[d] = "free" => i'[d] > N /\ op'[d] # "shutdown"
  BY <1>1, <1>3 DEF Joining
<1>10. ASSUME NEW d \in Clients, pc'[d] \in {"loop", "join", "zero", "free"}, op'[d] # "shutdown"
       PROVE  Behind(d)'
  <2>1. Behind(d)
    BY <1>1, <1>3, <1>10 DEF Joining
  <2>2. SUFFICES ASSUME NEW w \in Workers, w < i'[d]
                 PROVE  worker'[w] \in {"none", "joined"}
    BY DEF Behind, Workers
  <2>3. w < i[d] \/ w = i[c]
    BY <1>3, <2>2 DEF Workers
  <2>4. QED
    BY <1>2, <2>1, <2>2, <2>3 DEF Behind
<1>11. ASSUME impl' = "lfthpool", NEW w \in Workers, handle'[w] = "set", worker'[w] = "joined"
       PROVE  \E d \in Clients : pc'[d] = "zero" /\ i'[d] = w
  <2>1. CASE w = i[c]
    BY <1>1, <1>3, <1>11, <2>1
  <2>2. CASE w # i[c]
    <3>1. PICK d \in Clients : pc[d] = "zero" /\ i[d] = w
      BY <1>1, <1>2, <1>11, <2>2 DEF Joining
    <3>2. QED
      BY <1>1, <1>3, <1>11, <3>1
  <2>3. QED
    BY <2>1, <2>2
<1>12. QED
  BY <1>1, <1>4, <1>5, <1>6, <1>7, <1>8, <1>9, <1>10, <1>11 DEF Joining, Workers

(* A worker that the loop has passed is not running. *)
LEMMA JoiningStep ==
  ASSUME TypeOK, Alone, Fresh, Stages, Standing, Joining, [Next]_vars
  PROVE  Joining'
<1> USE PoolLifecycleAssumption DEF TypeOK, Alone, Fresh, Stages, Standing, Joining, Behind, Steps, Workers
<1>1. ASSUME NEW c \in Clients, Create(c)
      PROVE  Joining'
  BY <1>1 DEF Create, Goto
<1>2. ASSUME NEW c \in Clients, Shutdown(c)
      PROVE  Joining'
  BY <1>2 DEF Shutdown, Enters, Goto, Busy
<1>3. ASSUME NEW c \in Clients, Destroy(c)
      PROVE  Joining'
  BY <1>3 DEF Destroy, Enters, Goto, Busy
<1>4. ASSUME NEW c \in Clients, MallocPool(c)
      PROVE  Joining'
  BY <1>4 DEF MallocPool, At, Goto
<1>5. ASSUME NEW c \in Clients, MallocArrays(c)
      PROVE  Joining'
  BY <1>5 DEF MallocArrays, At, Goto, Fails
<1>6. ASSUME NEW c \in Clients, InitSync(c)
      PROVE  Joining'
  <2>1. \A d \in Clients \ {c} : pc[d] = "idle"
    BY <1>6, InitSyncMoves, Company DEF Synchronisation
  <2>2. pc' \in {[pc EXCEPT ![c] = label] : label \in {"notify", "notify_empty", "spawn", "shutdown"}}
    BY <1>6, InitSyncMoves DEF Goto
  <2>3. \A w \in Workers : worker'[w] = "none"
    BY <1>6, InitSyncMoves DEF Synchronisation
  <2>4. \A d \in Clients : pc'[d] \notin {"wake", "loop", "join", "zero", "free"}
    BY <2>1, <2>2
  <2> HIDE DEF Joining
  <2>5. QED
    BY <2>3, <2>4, NobodyJoins
<1>7. ASSUME NEW c \in Clients, Spawn(c)
      PROVE  Joining'
  <2>1. \A d \in Clients \ {c} : pc[d] = "idle"
    BY <1>7, Company DEF Spawn, At
  <2>2. pc' \in {[pc EXCEPT ![c] = label] : label \in {"spawn", "idle", "shutdown"}}
    BY <1>7 DEF Spawn, At, Goto, Fails
  <2>3. \A w \in Workers : worker[w] \in {"none", "running"}
    BY <1>7 DEF Spawn, At
  <2>4. i[c] \in Workers /\ worker[i[c]] = "none"
    BY <1>7 DEF Spawn, At
  <2>5. \A w \in Workers : worker'[w] = worker[w] \/ worker'[w] = "running"
    BY <1>7 DEF Spawn
  <2>6. \A w \in Workers : handle'[w] = "null" => worker'[w] \in {"none", "joined"}
    <3>1. CASE worker' = [worker EXCEPT ![i[c]] = "running"] /\ handle' = [handle EXCEPT ![i[c]] = "set"]
      BY <2>4, <3>1
    <3>2. CASE worker' = worker /\ \E h \in {"junk", "null"} : handle' = [handle EXCEPT ![i[c]] = h]
      BY <2>4, <3>2
    <3>3. QED
      BY <1>7, <3>1, <3>2 DEF Spawn
  <2>7. \A d \in Clients : pc'[d] \notin {"wake", "loop", "join", "zero", "free"}
    BY <2>1, <2>2
  <2>8. \A w \in Workers : worker'[w] \in {"none", "running"} /\ worker'[w] # "joined"
    BY <2>3, <2>5
  <2> HIDE DEF Joining
  <2>9. QED
    BY <2>6, <2>7, <2>8, NobodyJoins
<1>8. ASSUME NEW c \in Clients, StoresShutdown(c)
      PROVE  Joining'
  BY <1>8 DEF StoresShutdown, At, Goto, StartLoop
<1>9. ASSUME NEW c \in Clients, Wakes(c)
      PROVE  Joining'
  BY <1>9 DEF Wakes, At, Goto
<1>10. ASSUME NEW c \in Clients, CallsJoin(c)
      PROVE  Joining'
  <2>1. CASE SkipsHandle(c) /\ i' = [i EXCEPT ![c] = i[c] + 1] /\ UNCHANGED pc
    <3>1. i[c] \in Workers /\ worker[i[c]] \in {"none", "joined"} /\ impl = "lfthpool" /\ pc[c] = "loop"
      BY <1>10, <2>1 DEF CallsJoin, At, SkipsHandle
    <3>2. op[c] # "shutdown" => Behind(c)'
      BY <1>10, <2>1, <3>1 DEF CallsJoin
    <3>3. QED
      BY <1>10, <2>1, <3>1, <3>2 DEF CallsJoin
  <2>2. CASE Goto(c, "join") /\ UNCHANGED i
    BY <1>10, <2>2 DEF CallsJoin, At, Goto
  <2>3. QED
    BY <1>10, <2>1, <2>2 DEF CallsJoin
<1>11. ASSUME NEW c \in Clients, Joins(c)
      PROVE  Joining'
  BY <1>11, JoinsJoining
<1>12. ASSUME NEW c \in Clients, ZeroesHandle(c)
      PROVE  Joining'
  BY <1>12 DEF ZeroesHandle, At, Goto
<1>13. ASSUME NEW c \in Clients, EndsLoop(c)
      PROVE  Joining'
  BY <1>13 DEF EndsLoop, At, Goto
<1>14. ASSUME NEW c \in Clients, Frees(c)
      PROVE  Joining'
  BY <1>14 DEF Frees, At, Goto
<1>15. ASSUME NEW c \in Clients, Undefined(c)
      PROVE  Joining'
  BY <1>15 DEF Undefined, At
<1>16. ASSUME NEW w \in Workers, WorkerExits(w)
      PROVE  Joining'
  BY <1>16 DEF WorkerExits, Awake
<1>17. CASE UNCHANGED lifeVars
  BY <1>17 DEF lifeVars
<1>18. QED
  BY <1>1, <1>2, <1>3, <1>4, <1>5, <1>6, <1>7, <1>8, <1>9, <1>10, <1>11,
     <1>12, <1>13, <1>14, <1>15, <1>16, <1>17, LifeStep DEF LifeNext, InCall

(* Nor does JoinedOnce say anything when nobody is in those loops. *)
LEMMA NobodyCloses ==
  ASSUME \A d \in Clients : pc'[d] \notin {"wake", "loop", "join"},
         shutdown' = 0
  PROVE  JoinedOnce'
BY DEF JoinedOnce

(* Without misuse the loop of thpool_shutdown has every worker still ahead.  *)
LEMMA JoinedOnceStep ==
  ASSUME TypeOK, Alone, Fresh, Joining, JoinedOnce, [Next]_vars
  PROVE  JoinedOnce'
<1> USE PoolLifecycleAssumption DEF TypeOK, Alone, Fresh, Joining, JoinedOnce, Ahead, Steps, Workers
<1>1. ASSUME NEW c \in Clients, Create(c)
      PROVE  JoinedOnce'
  BY <1>1 DEF Create, Goto
<1>2. ASSUME NEW c \in Clients, Shutdown(c)
      PROVE  JoinedOnce'
  BY <1>2 DEF Shutdown, Enters, Goto, Busy
<1>3. ASSUME NEW c \in Clients, Destroy(c)
      PROVE  JoinedOnce'
  BY <1>3 DEF Destroy, Enters, Goto, Busy
<1>4. ASSUME NEW c \in Clients, MallocPool(c)
      PROVE  JoinedOnce'
  BY <1>4 DEF MallocPool, At, Goto
<1>5. ASSUME NEW c \in Clients, MallocArrays(c)
      PROVE  JoinedOnce'
  BY <1>5 DEF MallocArrays, At, Goto, Fails
<1>6. ASSUME NEW c \in Clients, InitSync(c)
      PROVE  JoinedOnce'
  <2>1. \A d \in Clients \ {c} : pc[d] = "idle"
    BY <1>6, InitSyncMoves, Company DEF Synchronisation
  <2>2. pc' \in {[pc EXCEPT ![c] = label] : label \in {"notify", "notify_empty", "spawn", "shutdown"}}
    BY <1>6, InitSyncMoves DEF Goto
  <2>3. \A d \in Clients : pc'[d] \notin {"wake", "loop", "join"}
    BY <2>1, <2>2
  <2>4. shutdown' = 0
    BY <1>6, InitSyncMoves DEF Synchronisation
  <2> HIDE DEF TypeOK, Alone, Fresh, Joining, JoinedOnce
  <2>5. QED
    BY <2>3, <2>4, NobodyCloses
<1>7. ASSUME NEW c \in Clients, Spawn(c)
      PROVE  JoinedOnce'
  <2>1. \A d \in Clients \ {c} : pc[d] = "idle"
    BY <1>7, Company DEF Spawn, At
  <2>2. pc' \in {[pc EXCEPT ![c] = label] : label \in {"spawn", "idle", "shutdown"}}
    BY <1>7 DEF Spawn, At, Goto, Fails
  <2>3. shutdown' = 0
    BY <1>7 DEF Spawn, At
  <2>4. \A d \in Clients : pc'[d] \notin {"wake", "loop", "join"}
    BY <2>1, <2>2
  <2> HIDE DEF TypeOK, Alone, Fresh, Joining, JoinedOnce
  <2>5. QED
    BY <2>3, <2>4, NobodyCloses
<1>8. ASSUME NEW c \in Clients, StoresShutdown(c)
      PROVE  JoinedOnce'
  BY <1>8 DEF StoresShutdown, At, Goto, StartLoop
<1>9. ASSUME NEW c \in Clients, Wakes(c)
      PROVE  JoinedOnce'
  BY <1>9 DEF Wakes, At, Goto
<1>10. ASSUME NEW c \in Clients, CallsJoin(c)
      PROVE  JoinedOnce'
  <2>1. SUFFICES ASSUME impl = "thpool", misuse = "none"
                 PROVE  JoinedOnce'
    BY <1>10 DEF CallsJoin
  <2>2. pc[c] = "loop" /\ pc' = [pc EXCEPT ![c] = "join"]
        /\ UNCHANGED <<impl, worker, shutdown, i, misuse>>
    BY <1>10, <2>1 DEF CallsJoin, At, Goto, SkipsHandle
  <2>3. \A d \in Clients : pc'[d] = IF d = c THEN "join" ELSE pc[d]
    BY <2>2
  <2>4. QED
    BY <2>1, <2>2, <2>3
<1>11. ASSUME NEW c \in Clients, Joins(c)
      PROVE  JoinedOnce'
  <2>1. SUFFICES ASSUME impl = "thpool", misuse = "none"
                 PROVE  JoinedOnce'
    BY <1>11 DEF Joins
  <2>2. /\ pc[c] = "join"
        /\ pc' = [pc EXCEPT ![c] = "loop"]
        /\ i' = [i EXCEPT ![c] = i[c] + 1]
        /\ worker' = [worker EXCEPT ![i[c]] = "joined"]
    BY <1>11, <2>1 DEF Joins, At, Goto
  <2>3. \A d \in Clients \ {c} : pc'[d] = "idle"
    BY <2>1, <2>2
  <2>4. pc'[c] = "loop" /\ i'[c] = i[c] + 1
    BY <2>2
  <2>5. \A w \in Workers : w >= i[c] + 1 => worker'[w] = worker[w]
    BY <2>2
  <2>6. Ahead(c)
    BY <2>1, <2>2
  <2>7. Ahead(c)'
    BY <2>4, <2>5, <2>6
  <2>8. QED
    BY <2>3, <2>4, <2>7
<1>12. ASSUME NEW c \in Clients, ZeroesHandle(c)
      PROVE  JoinedOnce'
  BY <1>12 DEF ZeroesHandle, At, Goto
<1>13. ASSUME NEW c \in Clients, EndsLoop(c)
      PROVE  JoinedOnce'
  BY <1>13 DEF EndsLoop, At, Goto
<1>14. ASSUME NEW c \in Clients, Frees(c)
      PROVE  JoinedOnce'
  BY <1>14 DEF Frees, At, Goto
<1>15. ASSUME NEW c \in Clients, Undefined(c)
      PROVE  JoinedOnce'
  BY <1>15 DEF Undefined, At
<1>16. ASSUME NEW w \in Workers, WorkerExits(w)
      PROVE  JoinedOnce'
  BY <1>16 DEF WorkerExits, Awake
<1>17. CASE UNCHANGED lifeVars
  BY <1>17 DEF lifeVars
<1>18. QED
  BY <1>1, <1>2, <1>3, <1>4, <1>5, <1>6, <1>7, <1>8, <1>9, <1>10, <1>11,
     <1>12, <1>13, <1>14, <1>15, <1>16, <1>17, LifeStep DEF LifeNext, InCall

(* The pool is freed when the loop has passed every worker. *)
LEMMA LivePoolStep ==
  ASSUME TypeOK, Alone, Fresh, Stages, Joining, WorkersOnLivePool, [Next]_vars
  PROVE  WorkersOnLivePool'
<1> USE PoolLifecycleAssumption DEF WorkersOnLivePool, Used, Workers, TypeOK
<1>1. ASSUME NEW c \in Clients, Create(c)
      PROVE  WorkersOnLivePool'
  BY <1>1 DEF Create, Goto
<1>2. ASSUME NEW c \in Clients, Shutdown(c)
      PROVE  WorkersOnLivePool'
  BY <1>2 DEF Shutdown, Enters, Goto, Busy
<1>3. ASSUME NEW c \in Clients, Destroy(c)
      PROVE  WorkersOnLivePool'
  BY <1>3 DEF Destroy, Enters, Goto, Busy
<1>4. ASSUME NEW c \in Clients, MallocPool(c)
      PROVE  WorkersOnLivePool'
  <2>1. \A w \in Workers : worker'[w] = "none"
    BY <1>4, StepNames DEF MallocPool, At, Fresh
  <2>2. QED
    BY <2>1
<1>5. ASSUME NEW c \in Clients, MallocArrays(c)
      PROVE  WorkersOnLivePool'
  <2>1. \A w \in Workers : worker'[w] = "none"
    BY <1>5, StepNames DEF MallocArrays, At, Fresh
  <2>2. QED
    BY <2>1
<1>6. ASSUME NEW c \in Clients, InitSync(c)
      PROVE  WorkersOnLivePool'
  <2>1. \A w \in Workers : worker'[w] = "none"
    BY <1>6, StepNames, InitSyncMoves DEF Fresh, Synchronisation
  <2>2. QED
    BY <2>1
<1>7. ASSUME NEW c \in Clients, Spawn(c)
      PROVE  WorkersOnLivePool'
  <2>1. Used \subseteq live
    BY <1>7 DEF Spawn, At, Stages, Complete
  <2>2. QED
    BY <1>7, <2>1 DEF Spawn
<1>8. ASSUME NEW c \in Clients, StoresShutdown(c)
      PROVE  WorkersOnLivePool'
  BY <1>8 DEF StoresShutdown, At, Goto, StartLoop
<1>9. ASSUME NEW c \in Clients, Wakes(c)
      PROVE  WorkersOnLivePool'
  BY <1>9 DEF Wakes, At, Goto
<1>10. ASSUME NEW c \in Clients, CallsJoin(c)
      PROVE  WorkersOnLivePool'
  BY <1>10 DEF CallsJoin, At, Goto
<1>11. ASSUME NEW c \in Clients, Joins(c)
      PROVE  WorkersOnLivePool'
  BY <1>11 DEF Joins, At, Goto
<1>12. ASSUME NEW c \in Clients, ZeroesHandle(c)
      PROVE  WorkersOnLivePool'
  BY <1>12 DEF ZeroesHandle, At, Goto
<1>13. ASSUME NEW c \in Clients, EndsLoop(c)
      PROVE  WorkersOnLivePool'
  BY <1>13 DEF EndsLoop, At, Goto
<1>14. ASSUME NEW c \in Clients, Frees(c)
      PROVE  WorkersOnLivePool'
  <2>1. Behind(c) /\ i[c] > N
    BY <1>14 DEF Frees, At, Joining
  <2>2. \A w \in Workers : worker'[w] # "running"
    BY <1>14, <2>1 DEF Frees, Behind
  <2>3. QED
    BY <2>2
<1>15. ASSUME NEW c \in Clients, Undefined(c)
      PROVE  WorkersOnLivePool'
  BY <1>15 DEF Undefined, At
<1>16. ASSUME NEW w \in Workers, WorkerExits(w)
      PROVE  WorkersOnLivePool'
  BY <1>16 DEF WorkerExits, Awake
<1>17. CASE UNCHANGED lifeVars
  BY <1>17 DEF lifeVars
<1>18. QED
  BY <1>1, <1>2, <1>3, <1>4, <1>5, <1>6, <1>7, <1>8, <1>9, <1>10, <1>11,
     <1>12, <1>13, <1>14, <1>15, <1>16, <1>17, LifeStep DEF LifeNext, InCall

(* Nor does the freed pool leave a thread that nobody has joined. *)
LEMMA NothingLeaksStep ==
  ASSUME TypeOK, Alone, Fresh, Stages, Joining, NothingLeaks, [Next]_vars
  PROVE  NothingLeaks'
<1> USE PoolLifecycleAssumption DEF NothingLeaks, Workers, TypeOK, Alone
<1>1. ASSUME NEW c \in Clients, Create(c)
      PROVE  NothingLeaks'
  BY <1>1 DEF Create, Goto
<1>2. ASSUME NEW c \in Clients, Shutdown(c)
      PROVE  NothingLeaks'
  BY <1>2 DEF Shutdown, Enters, Goto, Busy
<1>3. ASSUME NEW c \in Clients, Destroy(c)
      PROVE  NothingLeaks'
  BY <1>3 DEF Destroy, Enters, Goto, Busy
<1>4. ASSUME NEW c \in Clients, MallocPool(c)
      PROVE  NothingLeaks'
  <2>1. live = {} /\ \A w \in Workers : worker[w] = "none"
    BY <1>4, StepNames DEF MallocPool, At, Fresh, Stages
  <2>2. status = "creating"
    BY <1>4, StepNames DEF MallocPool, At
  <2>3. QED
    BY <1>4, <2>1, <2>2 DEF MallocPool
<1>5. ASSUME NEW c \in Clients, MallocArrays(c)
      PROVE  NothingLeaks'
  <2>1. status' = "creating"
    BY <1>5, StepNames DEF MallocArrays, At
  <2>2. QED
    BY <2>1
<1>6. ASSUME NEW c \in Clients, InitSync(c)
      PROVE  NothingLeaks'
  <2>1. status' = "creating"
    BY <1>6, StepNames, InitSyncMoves DEF Synchronisation
  <2>2. QED
    BY <2>1
<1>7. ASSUME NEW c \in Clients, Spawn(c)
      PROVE  NothingLeaks'
  <2>1. status' \in {"creating", "up"}
    BY <1>7, StepNames DEF Spawn, At, Fails
  <2>2. QED
    BY <2>1
<1>8. ASSUME NEW c \in Clients, StoresShutdown(c)
      PROVE  NothingLeaks'
  BY <1>8 DEF StoresShutdown, At, Goto, StartLoop
<1>9. ASSUME NEW c \in Clients, Wakes(c)
      PROVE  NothingLeaks'
  BY <1>9 DEF Wakes, At, Goto
<1>10. ASSUME NEW c \in Clients, CallsJoin(c)
      PROVE  NothingLeaks'
  BY <1>10 DEF CallsJoin, At, Goto
<1>11. ASSUME NEW c \in Clients, Joins(c)
      PROVE  NothingLeaks'
  BY <1>11 DEF Joins, At, Goto
<1>12. ASSUME NEW c \in Clients, ZeroesHandle(c)
      PROVE  NothingLeaks'
  BY <1>12 DEF ZeroesHandle, At, Goto
<1>13. ASSUME NEW c \in Clients, EndsLoop(c)
      PROVE  NothingLeaks'
  BY <1>13 DEF EndsLoop, At, Goto
<1>14. ASSUME NEW c \in Clients, Frees(c)
      PROVE  NothingLeaks'
  <2>1. Behind(c) /\ i[c] > N
    BY <1>14 DEF Frees, At, Joining
  <2>2. live' = {} /\ \A w \in Workers : worker'[w] \in {"none", "joined"}
    BY <1>14, <2>1 DEF Frees, Behind
  <2>3. QED
    BY <2>2
<1>15. ASSUME NEW c \in Clients, Undefined(c)
      PROVE  NothingLeaks'
  BY <1>15 DEF Undefined, At
<1>16. ASSUME NEW w \in Workers, WorkerExits(w)
      PROVE  NothingLeaks'
  BY <1>16 DEF WorkerExits, Awake
<1>17. CASE UNCHANGED lifeVars
  BY <1>17 DEF lifeVars
<1>18. QED
  BY <1>1, <1>2, <1>3, <1>4, <1>5, <1>6, <1>7, <1>8, <1>9, <1>10, <1>11,
     <1>12, <1>13, <1>14, <1>15, <1>16, <1>17, LifeStep DEF LifeNext, InCall

(* What is undefined in the loop of a complete pool: someone else has joined *)
(* the worker, or is joining it.                                             *)
LEMMA JoinedTwice ==
  ASSUME TypeOK, Alone, Standing, Joining, JoinedOnce, NEW c \in Clients,
         status = "up", pc[c] = "loop", i[c] <= N, ~SkipsHandle(c), ~MayJoin(c)
  PROVE  misuse = "overlap" \/ (impl = "thpool" /\ misuse # "none")
<1>1. i[c] \in Workers
  BY PoolLifecycleAssumption DEF TypeOK, Workers
<1>2. handle[i[c]] = "set"
  BY <1>1 DEF Standing, SkipsHandle
<1>3. CASE worker[i[c]] = "joined"
  <2>1. CASE impl = "thpool"
    <3>1. SUFFICES ASSUME misuse = "none"
                   PROVE  FALSE
      BY <2>1
    <3>2. Ahead(c)
      BY <2>1, <3>1 DEF JoinedOnce
    <3>3. i[c] >= i[c]
      BY <1>1, PoolLifecycleAssumption DEF Workers
    <3>4. QED
      BY <1>1, <1>3, <3>2, <3>3 DEF Ahead
  <2>2. CASE impl = "lfthpool"
    <3>1. PICK d \in Clients : pc[d] = "zero" /\ i[d] = i[c]
      BY <1>1, <1>2, <1>3, <2>2 DEF Joining
    <3>2. QED
      BY <3>1 DEF Alone
  <2>3. QED
    BY <2>1, <2>2 DEF TypeOK
<1>4. CASE worker[i[c]] # "joined"
  <2>1. PICK d \in Clients \ {c} : pc[d] = "join" /\ i[d] = i[c]
    BY <1>2, <1>4 DEF MayJoin
  <2>2. QED
    BY <2>1 DEF Alone
<1>5. QED
  BY <1>3, <1>4

(* A complete pool that is closed once and by one thread has no faults. *)
LEMMA FaultsConfinedStep ==
  ASSUME TypeOK, Alone, Standing, Joining, JoinedOnce, FaultsConfined, [Next]_vars
  PROVE  FaultsConfined'
<1> USE PoolLifecycleAssumption DEF FaultsConfined
<1>1. ASSUME NEW c \in Clients, Create(c)
      PROVE  FaultsConfined'
  BY <1>1 DEF Create, Goto
<1>2. ASSUME NEW c \in Clients, Shutdown(c)
      PROVE  FaultsConfined'
  BY <1>2 DEF Shutdown, Enters, Goto, Busy
<1>3. ASSUME NEW c \in Clients, Destroy(c)
      PROVE  FaultsConfined'
  BY <1>3 DEF Destroy, Enters, Goto, Busy
<1>4. ASSUME NEW c \in Clients, MallocPool(c)
      PROVE  FaultsConfined'
  BY <1>4 DEF MallocPool, At, Goto
<1>5. ASSUME NEW c \in Clients, MallocArrays(c)
      PROVE  FaultsConfined'
  BY <1>5 DEF MallocArrays, At, Goto, Fails
<1>6. ASSUME NEW c \in Clients, InitSync(c)
      PROVE  FaultsConfined'
  BY <1>6, InitSyncMoves DEF InitSync, At
<1>7. ASSUME NEW c \in Clients, Spawn(c)
      PROVE  FaultsConfined'
  BY <1>7 DEF Spawn, At, Goto, Fails
<1>8. ASSUME NEW c \in Clients, StoresShutdown(c)
      PROVE  FaultsConfined'
  BY <1>8 DEF StoresShutdown, At, Goto, StartLoop
<1>9. ASSUME NEW c \in Clients, Wakes(c)
      PROVE  FaultsConfined'
  BY <1>9 DEF Wakes, At, Goto
<1>10. ASSUME NEW c \in Clients, CallsJoin(c)
      PROVE  FaultsConfined'
  BY <1>10 DEF CallsJoin, At, Goto
<1>11. ASSUME NEW c \in Clients, Joins(c)
      PROVE  FaultsConfined'
  BY <1>11 DEF Joins, At, Goto
<1>12. ASSUME NEW c \in Clients, ZeroesHandle(c)
      PROVE  FaultsConfined'
  BY <1>12 DEF ZeroesHandle, At, Goto
<1>13. ASSUME NEW c \in Clients, EndsLoop(c)
      PROVE  FaultsConfined'
  BY <1>13 DEF EndsLoop, At, Goto
<1>14. ASSUME NEW c \in Clients, Frees(c)
      PROVE  FaultsConfined'
  BY <1>14 DEF Frees, At, Goto
<1>15. ASSUME NEW c \in Clients, Undefined(c)
      PROVE  FaultsConfined'
  <2>1. SUFFICES ASSUME failed \in {None, "pool"}
                 PROVE  misuse = "overlap" \/ (impl = "thpool" /\ misuse # "none")
    BY <1>15 DEF Undefined
  <2>2. pc[c] \in {"wake", "loop", "free"}
    BY <1>15 DEF Undefined, At
  <2>3. status = "up" /\ Complete
    BY <2>1, <2>2 DEF Standing, Closing
  <2>4. /\ "handles" \in live
        /\ Destroyed \subseteq live
        /\ pc[c] = "wake" => {"lock", "notify"} \subseteq live
    BY <2>3 DEF Complete, Used, Destroyed, Joining, Synchronisation
  <2>5. pc[c] = "loop" /\ i[c] <= N /\ ~SkipsHandle(c) /\ ~MayJoin(c)
    BY <1>15, <2>4 DEF Undefined, At
  <2>6. QED
    BY <2>3, <2>5, JoinedTwice
<1>16. ASSUME NEW w \in Workers, WorkerExits(w)
      PROVE  FaultsConfined'
  BY <1>16 DEF WorkerExits, Awake
<1>17. CASE UNCHANGED lifeVars
  BY <1>17 DEF lifeVars
<1>18. QED
  BY <1>1, <1>2, <1>3, <1>4, <1>5, <1>6, <1>7, <1>8, <1>9, <1>10, <1>11,
     <1>12, <1>13, <1>14, <1>15, <1>16, <1>17, LifeStep DEF LifeNext, InCall

(* The pool is not there yet and nobody has called anything. *)
LEMMA InitInvariant == Init => IInv
<1>1. SUFFICES ASSUME Init
               PROVE  IInv
  OBVIOUS
<1>2. TypeOK
  BY <1>1, PoolLifecycleAssumption DEF Init, TypeOK, Places, Steps, Ops, Workers
<1>3. Alone /\ Fresh
  BY <1>1, StepNames DEF Init, Alone, Fresh
<1>4. \A c \in Clients : pc[c] = "idle"
  BY <1>1 DEF Init
<1>5. Stages /\ Standing
  BY <1>1, <1>4 DEF Init, Stages, Standing, Synchronisation, Closing
<1>6. Joining /\ JoinedOnce
  BY <1>1, <1>4 DEF Init, Joining, JoinedOnce
<1>7. WorkersOnLivePool /\ NothingLeaks /\ FaultsConfined
  BY <1>1 DEF Init, WorkersOnLivePool, NothingLeaks, FaultsConfined
<1>8. QED
  BY <1>2, <1>3, <1>5, <1>6, <1>7 DEF IInv

(* One step of the lifecycle. *)
LEMMA NextInvariant == IInv /\ [Next]_vars => IInv'
BY TypeStep, AloneStep, FreshStep, StagesStep, StandingStep, JoiningStep, JoinedOnceStep,
   LivePoolStep, NothingLeaksStep, FaultsConfinedStep DEF IInv

-----------------------------------------------------------------------------
(* The invariant holds in every state of every behaviour of the lifecycle of *)
(* both pools.                                                               *)
THEOREM Invariance == Spec => []IInv
BY InitInvariant, NextInvariant, PTL DEF Spec

(* Whatever a worker reads is there while it runs, also in a pool whose      *)
(* creation failed after the first workers had started.                      *)
THEOREM WorkersAlwaysOnLivePool == Spec => []WorkersOnLivePool
<1>1. IInv => WorkersOnLivePool
  BY DEF IInv
<1>2. QED
  BY <1>1, Invariance, PTL

(* Whichever step of the creation fails, and however the pool is closed,     *)
(* once it is gone there is no memory and no thread left of it.              *)
THEOREM NothingEverLeaks == Spec => []NothingLeaks
<1>1. IInv => NothingLeaks
  BY DEF IInv
<1>2. QED
  BY <1>1, Invariance, PTL

(* Undefined behaviour takes a creation that failed on the way, a thpool     *)
(* closed twice, or two threads that close a pool at once.                   *)
THEOREM FaultsAlwaysConfined == Spec => []FaultsConfined
<1>1. IInv => FaultsConfined
  BY DEF IInv
<1>2. QED
  BY <1>1, Invariance, PTL

-----------------------------------------------------------------------------
(* A pool that create has returned, and that nobody has closed, has all its   *)
(* workers.                                                                   *)
Staffed ==
  status = "up" /\ shutdown = 0 =>
    \A w \in Workers : handle[w] = "set" /\ worker[w] = "running"

(* A handle is that of a worker that was started, and shutdown is set before  *)
(* the first of the workers is joined.                                        *)
Handles ==
  /\ \A w \in Workers : handle[w] = "set" => worker[w] # "none"
  /\ \A c \in Clients : pc[c] \in Closing \ {"shutdown"} => shutdown = 1
  /\ status = "up" /\ shutdown = 0 => \A w \in Workers : handle[w] = "set"

(* The creation is over when it has started the last worker.                  *)
LEMMA LastWorker ==
  ASSUME TypeOK, Stages, NEW c \in Clients, Spawn(c), i[c] >= N, worker' # worker
  PROVE  \A w \in Workers : handle'[w] = "set"
<1>1. i[c] = N /\ \A w \in Workers : w < N => handle[w] = "set"
  BY PoolLifecycleAssumption DEF TypeOK, Stages, Spawn, At, Workers
<1>2. handle' = [handle EXCEPT ![i[c]] = "set"]
  BY DEF Spawn
<1>3. QED
  BY <1>1, <1>2, PoolLifecycleAssumption DEF TypeOK, Workers

(* Handles are set with the worker and shutdown is never taken back.          *)
LEMMA HandlesStep ==
  ASSUME TypeOK, Alone, Fresh, Stages, Joining, Handles, [Next]_vars
  PROVE  Handles'
<1> USE PoolLifecycleAssumption DEF TypeOK, Handles, Closing, Steps, Synchronisation, Workers
<1>1. ASSUME NEW c \in Clients, Create(c)
      PROVE  Handles'
  BY <1>1 DEF Create, Goto
<1>2. ASSUME NEW c \in Clients, Shutdown(c)
      PROVE  Handles'
  BY <1>2 DEF Shutdown, Enters, Goto, Busy
<1>3. ASSUME NEW c \in Clients, Destroy(c)
      PROVE  Handles'
  BY <1>3 DEF Destroy, Enters, Goto, Busy
<1>4. ASSUME NEW c \in Clients, MallocPool(c)
      PROVE  Handles'
  BY <1>4 DEF MallocPool, At, Goto
<1>5. ASSUME NEW c \in Clients, MallocArrays(c)
      PROVE  Handles'
  <2>1. pc[c] = "arrays" /\ UNCHANGED <<status, shutdown>>
    BY <1>5 DEF MallocArrays, At
  <2>2. status = "creating" /\ \A d \in Clients \ {c} : pc[d] = "idle"
    BY <2>1, Company DEF Alone
  <2>3. pc' \in {[pc EXCEPT ![c] = label] : label \in {"lock", "spawn", "shutdown"}}
    BY <1>5 DEF MallocArrays, Goto, Fails
  <2>4. \A w \in Workers : handle'[w] # "set"
    BY <1>5 DEF MallocArrays
  <2>5. \A d \in Clients : pc'[d] \notin {"wake", "loop", "join", "zero", "free"}
    BY <2>2, <2>3
  <2>6. QED
    BY <2>1, <2>2, <2>4, <2>5
<1>6. ASSUME NEW c \in Clients, InitSync(c)
      PROVE  Handles'
  <2>1. /\ \A d \in Clients \ {c} : pc[d] = "idle"
        /\ status = "creating"
        /\ UNCHANGED <<status, shutdown, handle, worker>>
        /\ pc' \in {[pc EXCEPT ![c] = label] : label \in {"notify", "notify_empty", "spawn", "shutdown"}}
    BY <1>6, InitSyncMoves, Company DEF Goto, Alone
  <2>2. \A d \in Clients : pc'[d] \notin {"wake", "loop", "join", "zero", "free"}
    BY <2>1
  <2>3. QED
    BY <2>1, <2>2
<1>7. ASSUME NEW c \in Clients, Spawn(c)
      PROVE  Handles'
  <2>1. /\ \A d \in Clients \ {c} : pc[d] = "idle"
        /\ status = "creating" /\ shutdown' = shutdown
        /\ pc' \in {[pc EXCEPT ![c] = label] : label \in {"spawn", "idle", "shutdown"}}
    BY <1>7, Company DEF Spawn, At, Goto, Fails, Alone
  <2>2. \A d \in Clients : pc'[d] \notin {"wake", "loop", "join", "zero", "free"}
    BY <2>1
  <2>3. \A w \in Workers : handle'[w] = "set" => worker'[w] # "none"
    BY <1>7 DEF Spawn
  <2>4. status' = "up" => i[c] >= N /\ worker' # worker
    BY <1>7, <2>1 DEF Spawn, At, Stages
  <2>5. status' = "up" => \A w \in Workers : handle'[w] = "set"
    BY <1>7, <2>4, LastWorker
  <2>6. QED
    BY <2>2, <2>3, <2>5
<1>8. ASSUME NEW c \in Clients, StoresShutdown(c)
      PROVE  Handles'
  BY <1>8 DEF StoresShutdown, At, Goto, StartLoop
<1>9. ASSUME NEW c \in Clients, Wakes(c)
      PROVE  Handles'
  BY <1>9 DEF Wakes, At, Goto
<1>10. ASSUME NEW c \in Clients, CallsJoin(c)
      PROVE  Handles'
  BY <1>10 DEF CallsJoin, At, Goto, MayJoin
<1>11. ASSUME NEW c \in Clients, Joins(c)
      PROVE  Handles'
  BY <1>11 DEF Joins, At, Goto
<1>12. ASSUME NEW c \in Clients, ZeroesHandle(c)
      PROVE  Handles'
  BY <1>12 DEF ZeroesHandle, At, Goto
<1>13. ASSUME NEW c \in Clients, EndsLoop(c)
      PROVE  Handles'
  BY <1>13 DEF EndsLoop, At, Goto
<1>14. ASSUME NEW c \in Clients, Frees(c)
      PROVE  Handles'
  BY <1>14 DEF Frees, At, Goto
<1>15. ASSUME NEW c \in Clients, Undefined(c)
      PROVE  Handles'
  BY <1>15 DEF Undefined, At
<1>16. ASSUME NEW w \in Workers, WorkerExits(w)
      PROVE  Handles'
  BY <1>16 DEF WorkerExits, Awake
<1>17. CASE UNCHANGED lifeVars
  BY <1>17 DEF lifeVars
<1>18. QED
  BY <1>1, <1>2, <1>3, <1>4, <1>5, <1>6, <1>7, <1>8, <1>9, <1>10, <1>11,
     <1>12, <1>13, <1>14, <1>15, <1>16, <1>17, LifeStep DEF LifeNext, InCall

(* A pool that create has returned, and that nobody has closed, has all its  *)
(* workers: none was left out and none has gone (thpool.c:110-117,           *)
(* lfthpool.c:95-104).                                                       *)
THEOREM CreatedPoolStaffed == Spec => []Staffed
<1>1. Init => Handles
  BY DEF Init, Handles, Closing
<1>2. IInv /\ Handles /\ [Next]_vars => Handles'
  BY HandlesStep DEF IInv
<1>3. IInv /\ Handles => Staffed
  <2>1. SUFFICES ASSUME IInv, Handles, status = "up", shutdown = 0, NEW w \in Workers
                 PROVE  handle[w] = "set" /\ worker[w] = "running"
    BY DEF Staffed
  <2>2. handle[w] = "set" /\ worker[w] # "none"
    BY <2>1 DEF Handles
  <2>3. QED
    BY <2>1, <2>2 DEF IInv, Joining
<1>4. QED
  BY <1>1, <1>2, <1>3, Invariance, PTL DEF Spec

-----------------------------------------------------------------------------
(* Where a closer is that has done the broadcast, or for lfthpool need not.  *)
AfterBroadcast == {"loop", "join", "zero", "free"}

(* Once shutdown is set a worker sleeps only if a broadcast is still to      *)
(* come, and whoever has done his finds nobody asleep.                       *)
NobodyOversleeps ==
  /\ shutdown = 1 => asleep = {} \/ \E c \in Clients : pc[c] = "wake"
  /\ \A c \in Clients : pc[c] \in AfterBroadcast => shutdown = 1 /\ asleep = {}

(* Only workers of thpool sleep, and only those that have not left.          *)
Sleepers ==
  /\ asleep \subseteq {w \in Workers : worker[w] = "running"}
  /\ impl = "lfthpool" => asleep = {}

(* A worker goes to sleep only while shutdown is 0, and the broadcast comes  *)
(* after the store.                                                          *)
LEMMA OversleepStep ==
  ASSUME TypeOK, Alone, Handles, NobodyOversleeps, Sleepers, [Next]_vars
  PROVE  NobodyOversleeps' /\ Sleepers'
<1> USE PoolLifecycleAssumption
    DEF TypeOK, Handles, NobodyOversleeps, Sleepers, AfterBroadcast, Closing, Steps, Synchronisation, Workers, useVars
<1>1. ASSUME NEW c \in Clients, Create(c)
      PROVE  NobodyOversleeps' /\ Sleepers'
  BY <1>1 DEF Create, Goto, Alone
<1>2. ASSUME NEW c \in Clients, Shutdown(c)
      PROVE  NobodyOversleeps' /\ Sleepers'
  BY <1>2 DEF Shutdown, Enters, Goto, Busy
<1>3. ASSUME NEW c \in Clients, Destroy(c)
      PROVE  NobodyOversleeps' /\ Sleepers'
  BY <1>3 DEF Destroy, Enters, Goto, Busy
<1>4. ASSUME NEW c \in Clients, MallocPool(c)
      PROVE  NobodyOversleeps' /\ Sleepers'
  BY <1>4 DEF MallocPool, At, Goto
<1>5. ASSUME NEW c \in Clients, MallocArrays(c)
      PROVE  NobodyOversleeps' /\ Sleepers'
  BY <1>5 DEF MallocArrays, At, Goto, Fails
<1>6. ASSUME NEW c \in Clients, InitSync(c)
      PROVE  NobodyOversleeps' /\ Sleepers'
  <2>1. pc[c] \in Synchronisation /\ UNCHANGED <<impl, worker, shutdown, useVars>>
    BY <1>6, InitSyncMoves
  <2>2. pc' \in {[pc EXCEPT ![c] = label] : label \in {"notify", "notify_empty", "spawn", "shutdown"}}
    BY <1>6, InitSyncMoves DEF Goto
  <2>3. \A d \in Clients : d = c \/ pc'[d] = pc[d]
    BY <2>2
  <2>4. QED
    BY <2>1, <2>2, <2>3
<1>7. ASSUME NEW c \in Clients, Spawn(c)
      PROVE  NobodyOversleeps' /\ Sleepers'
  BY <1>7 DEF Spawn, At, Goto, Fails
<1>8. ASSUME NEW c \in Clients, StoresShutdown(c)
      PROVE  NobodyOversleeps' /\ Sleepers'
  BY <1>8 DEF StoresShutdown, At, Goto, StartLoop
<1>9. ASSUME NEW c \in Clients, Wakes(c)
      PROVE  NobodyOversleeps' /\ Sleepers'
  BY <1>9 DEF Wakes, At, Goto
<1>10. ASSUME NEW c \in Clients, CallsJoin(c)
      PROVE  NobodyOversleeps' /\ Sleepers'
  BY <1>10 DEF CallsJoin, At, Goto
<1>11. ASSUME NEW c \in Clients, Joins(c)
      PROVE  NobodyOversleeps' /\ Sleepers'
  BY <1>11 DEF Joins, At, Goto
<1>12. ASSUME NEW c \in Clients, ZeroesHandle(c)
      PROVE  NobodyOversleeps' /\ Sleepers'
  BY <1>12 DEF ZeroesHandle, At, Goto
<1>13. ASSUME NEW c \in Clients, EndsLoop(c)
      PROVE  NobodyOversleeps' /\ Sleepers'
  BY <1>13 DEF EndsLoop, At, Goto
<1>14. ASSUME NEW c \in Clients, Frees(c)
      PROVE  NobodyOversleeps' /\ Sleepers'
  BY <1>14 DEF Frees, At, Goto
<1>15. ASSUME NEW c \in Clients, Undefined(c)
      PROVE  NobodyOversleeps' /\ Sleepers'
  BY <1>15 DEF Undefined, At
<1>16. ASSUME AddTask
      PROVE  NobodyOversleeps' /\ Sleepers'
  BY <1>16 DEF AddTask, Signal, lifeVars
<1>17. ASSUME Pause
      PROVE  NobodyOversleeps' /\ Sleepers'
  BY <1>17 DEF Pause, lifeVars
<1>18. ASSUME Resume
      PROVE  NobodyOversleeps' /\ Sleepers'
  BY <1>18 DEF Resume, Signal, lifeVars
<1>19. ASSUME TryOnce
      PROVE  NobodyOversleeps' /\ Sleepers'
  BY <1>19 DEF TryOnce, lifeVars
<1>20. ASSUME NEW w \in Workers, WorkerTakes(w)
      PROVE  NobodyOversleeps' /\ Sleepers'
  BY <1>20 DEF WorkerTakes, lifeVars
<1>21. ASSUME NEW w \in Workers, WorkerSleeps(w)
      PROVE  NobodyOversleeps' /\ Sleepers'
  BY <1>21 DEF WorkerSleeps, Awake, lifeVars
<1>22. ASSUME NEW w \in Workers, SpuriousWakeup(w)
      PROVE  NobodyOversleeps' /\ Sleepers'
  BY <1>22 DEF SpuriousWakeup, lifeVars
<1>23. ASSUME NEW w \in Workers, WorkerExits(w)
      PROVE  NobodyOversleeps' /\ Sleepers'
  BY <1>23 DEF WorkerExits, Awake
<1>24. CASE UNCHANGED vars
  BY <1>24 DEF vars, lifeVars
<1>25. QED
  BY <1>1, <1>2, <1>3, <1>4, <1>5, <1>6, <1>7, <1>8, <1>9, <1>10, <1>11, <1>12,
     <1>13, <1>14, <1>15, <1>16, <1>17, <1>18, <1>19, <1>20, <1>21, <1>22, <1>23, <1>24
     DEF Next, InCall, WorkerNext

(* No worker sleeps through a shutdown, whoever closes the pool, how often,  *)
(* together with whom, and at whichever step the creation failed: nobody is  *)
(* asleep any more when the workers are joined (thpool.c:234-240, 309-324).  *)
(* The safety behind CallsReturn.                                            *)
THEOREM NobodyEverOversleeps == Spec => []NobodyOversleeps
<1>1. Init => Handles /\ NobodyOversleeps /\ Sleepers
  BY DEF Init, Handles, NobodyOversleeps, Sleepers, AfterBroadcast, Closing
<1>2. IInv /\ Handles /\ NobodyOversleeps /\ Sleepers /\ [Next]_vars
        => Handles' /\ NobodyOversleeps' /\ Sleepers'
  BY HandlesStep, OversleepStep DEF IInv
<1>3. QED
  BY <1>1, <1>2, Invariance, PTL DEF Spec
=============================================================================
