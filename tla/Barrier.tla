------------------------------ MODULE Barrier ------------------------------
(***************************************************************************)
(* The barrier of src/src/pthread_barrier.c: a mutex, a condition variable *)
(* and the counters count, left and round.                                 *)
(*                                                                         *)
(* Everything happens under the mutex, so a step is a critical section: up *)
(* to pthread_cond_wait or to the end, and from a wakeup to the next sleep *)
(* or to the end.                                                          *)
(***************************************************************************)
EXTENDS Integers, FiniteSets

CONSTANTS
  Threads,    (* the threads that meet; their number is the count of         *)
              (* pthread_barrier_init, as in the tests (psem_test.c:71)      *)
  RoundMod    (* the values of the unsigned round: 2^32 in the code          *)

ASSUME BarrierAssumption ==
  /\ IsFiniteSet(Threads) /\ Threads # {}
  /\ RoundMod \in Nat /\ RoundMod >= 2

VARIABLES
  count,      (* barrier->count, 0 once it is destroyed                      *)
  left,       (* barrier->left                                               *)
  round,      (* barrier->round                                              *)
  pc,         (* idle, blocked on the condition variable, or woken           *)
  my_round,   (* the local variable round of pthread_barrier_wait            *)
  ret         (* what each thread's last wait returned                       *)

vars == <<count, left, round, pc, my_round, ret>>

Serial == -1
Rounds == 0..(RoundMod - 1)

(* The threads that wait for the current round to complete, and those whose  *)
(* round has completed and that have not left yet.                           *)
Arrived == {t \in Threads : pc[t] # "idle" /\ my_round[t] = round}
Leaving == {t \in Threads : pc[t] # "idle" /\ my_round[t] # round}

TypeOK ==
  /\ count \in {0, Cardinality(Threads)}
  /\ left \in 1..Cardinality(Threads)
  /\ round \in Rounds
  /\ pc \in [Threads -> {"idle", "blocked", "woken"}]
  /\ my_round \in [Threads -> Rounds]
  /\ ret \in [Threads -> {0, Serial}]

(* pthread_barrier_init *)
Init ==
  /\ count = Cardinality(Threads)
  /\ left = Cardinality(Threads)
  /\ round = 0
  /\ pc = [t \in Threads |-> "idle"]
  /\ my_round = [t \in Threads |-> 0]
  /\ ret = [t \in Threads |-> 0]

-----------------------------------------------------------------------------
(* pthread_barrier_wait; waiting on a destroyed barrier is undefined *)

Blocks(t) ==
  /\ pc[t] = "idle" /\ count > 0
  /\ left' = left - 1
  /\ left' # 0
  /\ my_round' = [my_round EXCEPT ![t] = round]
  /\ pc' = [pc EXCEPT ![t] = "blocked"]
  /\ UNCHANGED <<count, round, ret>>

(* Mutants: the next round is one thread short; one thread is woken.         *)
CompletesShort(t) ==
  /\ pc[t] = "idle" /\ count > 0
  /\ left - 1 = 0
  /\ round' = (round + 1) % RoundMod
  /\ left' = IF count > 1 THEN count - 1 ELSE count
  /\ pc' = [x \in Threads |-> IF pc[x] = "blocked" THEN "woken" ELSE pc[x]]
  /\ ret' = [ret EXCEPT ![t] = Serial]
  /\ UNCHANGED <<count, my_round>>
CompletesWithSignal(t) ==
  /\ pc[t] = "idle" /\ count > 0
  /\ left - 1 = 0
  /\ round' = (round + 1) % RoundMod
  /\ left' = count
  /\ LET blocked == {x \in Threads : pc[x] = "blocked"}
     IN  \/ blocked = {} /\ UNCHANGED pc
         \/ \E x \in blocked : pc' = [pc EXCEPT ![x] = "woken"]
  /\ ret' = [ret EXCEPT ![t] = Serial]
  /\ UNCHANGED <<count, my_round>>

(* The last thread opens the next round and wakes the others. *)
Completes(t) ==
  /\ pc[t] = "idle" /\ count > 0
  /\ left - 1 = 0
  /\ round' = (round + 1) % RoundMod
  /\ left' = count
  /\ pc' = [x \in Threads |-> IF pc[x] = "blocked" THEN "woken" ELSE pc[x]]
  /\ ret' = [ret EXCEPT ![t] = Serial]
  /\ UNCHANGED <<count, my_round>>

(* pthread_cond_wait may return without a signal. *)
SpuriousWakeup(t) ==
  /\ pc[t] = "blocked"
  /\ pc' = [pc EXCEPT ![t] = "woken"]
  /\ UNCHANGED <<count, left, round, my_round, ret>>

SleepsAgain(t) ==
  /\ pc[t] = "woken"
  /\ my_round[t] = round
  /\ pc' = [pc EXCEPT ![t] = "blocked"]
  /\ UNCHANGED <<count, left, round, my_round, ret>>

(* Mutant: the round is not compared after a wakeup. *)
LeavesUnchecked(t) ==
  /\ pc[t] = "woken"
  /\ pc' = [pc EXCEPT ![t] = "idle"]
  /\ my_round' = [my_round EXCEPT ![t] = 0]
  /\ ret' = [ret EXCEPT ![t] = 0]
  /\ UNCHANGED <<count, left, round>>

Leaves(t) ==
  /\ pc[t] = "woken"
  /\ my_round[t] # round
  /\ pc' = [pc EXCEPT ![t] = "idle"]
  /\ my_round' = [my_round EXCEPT ![t] = 0]
  /\ ret' = [ret EXCEPT ![t] = 0]
  /\ UNCHANGED <<count, left, round>>

(* pthread_barrier_destroy, which its caller may use when nobody is inside. *)
Destroy ==
  /\ \A t \in Threads : pc[t] = "idle"
  /\ count # 0
  /\ count' = 0
  /\ UNCHANGED <<left, round, pc, my_round, ret>>

-----------------------------------------------------------------------------
Step(t) ==
  \/ Blocks(t)
  \/ Completes(t)
  \/ SpuriousWakeup(t)
  \/ SleepsAgain(t)
  \/ Leaves(t)

Next == Destroy \/ \E t \in Threads : Step(t)

Spec == Init /\ [][Next]_vars

(* A woken thread gets the mutex and goes on; nobody has to call. *)
Fairness == \A t \in Threads : WF_vars(SleepsAgain(t) \/ Leaves(t))

-----------------------------------------------------------------------------
(* Properties *)

(* left is what the current round still lacks, whatever wakeups are spurious *)
(* and however many threads of the last round have not left yet (lines       *)
(* 64-78).                                                                   *)
LeftCounts == left = Cardinality(Threads) - Cardinality(Arrived)

(* No round completes while a thread has not left the one before: comparing  *)
(* round with a single earlier value (line 69) is enough, for any width of   *)
(* the counter.                                                              *)
NoStragglers == [][round' # round => Leaving = {}]_vars

(* A thread that may leave has been woken and will not sleep again.          *)
LeavingWoken == \A t \in Leaving : pc[t] = "woken"

(* The barrier implements the abstract one: nobody leaves a round early, and *)
(* each round has one serial thread.                                         *)
Abstract == INSTANCE AbstractBarrier WITH arrived <- Arrived, released <- Leaving
ImplementsBarrier == Abstract!Spec

(* Everybody leaves a round that has completed (line 75).                    *)
ReleasedLeave == \A t \in Threads : t \in Leaving ~> t \notin Leaving
=============================================================================
