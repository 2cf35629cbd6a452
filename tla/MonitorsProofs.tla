--------------------------- MODULE MonitorsProofs ---------------------------
(***************************************************************************)
(* The barrier implements AbstractBarrier for any finite set of threads    *)
(* and any width of the round counter; psem's broadcast leaves nobody      *)
(* asleep; and both stay true when the threads use the two in turn.        *)
(*                                                                         *)
(* Each action of the barrier gets a lemma that says what it does to       *)
(* Arrived and Leaving; the invariant and the refinement follow from these *)
(* sets alone.                                                             *)
(***************************************************************************)
EXTENDS Monitors, FiniteSetTheorems, TLAPS

IInv == TypeOK /\ LeftCounts /\ LeavingWoken

-----------------------------------------------------------------------------
LEMMA CountsAreNaturals ==
  /\ Cardinality(Threads) \in Nat /\ Cardinality(Threads) >= 1
  /\ \A S \in SUBSET Threads : IsFiniteSet(S) /\ Cardinality(S) \in Nat
<1>1. Cardinality(Threads) \in Nat /\ Cardinality(Threads) # 0
  BY FS_CardinalityType, FS_EmptySet, BarrierAssumption
<1>2. \A S \in SUBSET Threads : IsFiniteSet(S) /\ Cardinality(S) \in Nat
  BY FS_Subset, FS_CardinalityType, BarrierAssumption
<1>3. QED
  BY <1>1, <1>2

(* The next round is another one, whatever the width of the counter.         *)
LEMMA NextRound ==
  ASSUME NEW r \in Rounds
  PROVE  (r + 1) % RoundMod \in Rounds /\ (r + 1) % RoundMod # r
<1>1. RoundMod \in Nat /\ RoundMod >= 2 /\ r \in 0..(RoundMod - 1)
  BY BarrierAssumption DEF Rounds
<1>2. (r + 1) % RoundMod = IF r + 1 < RoundMod THEN r + 1 ELSE 0
  BY <1>1
<1>3. QED
  BY <1>1, <1>2 DEF Rounds

(* The thread that completes a round finds all the others waiting in it.     *)
LEMMA LastFindsAll ==
  ASSUME IInv, NEW t \in Threads, pc[t] = "idle", left - 1 = 0
  PROVE  Arrived = Threads \ {t} /\ Leaving = {}
<1>1. Arrived \subseteq Threads \ {t}
  BY DEF Arrived
<1>2. Cardinality(Arrived) = Cardinality(Threads) - 1
  <2>1. Arrived \in SUBSET Threads
    BY DEF Arrived
  <2>2. QED
    BY <2>1, CountsAreNaturals DEF IInv, LeftCounts, TypeOK
<1>3. Cardinality(Threads \ {t}) = Cardinality(Threads) - 1 /\ IsFiniteSet(Threads \ {t})
  BY FS_RemoveElement, BarrierAssumption
<1>4. Arrived = Threads \ {t}
  <2>1. SUFFICES ASSUME NEW u \in Threads \ {t}, u \notin Arrived
                 PROVE  FALSE
    BY <1>1
  <2>2. Arrived \in SUBSET ((Threads \ {t}) \ {u})
    BY <1>1, <2>1
  <2>3. /\ IsFiniteSet((Threads \ {t}) \ {u})
        /\ Cardinality((Threads \ {t}) \ {u}) = Cardinality(Threads \ {t}) - 1
    BY <1>3, FS_RemoveElement
  <2>4. Cardinality(Arrived) <= Cardinality((Threads \ {t}) \ {u})
    BY <2>2, <2>3, FS_Subset
  <2>5. QED
    BY <2>3, <2>4, <1>2, <1>3, CountsAreNaturals
<1>5. Leaving = {}
  BY <1>4 DEF Arrived, Leaving
<1>6. QED
  BY <1>4, <1>5

-----------------------------------------------------------------------------
(* What the actions do to Arrived and Leaving *)

LEMMA BlocksEffect ==
  ASSUME IInv, NEW t \in Threads, Blocks(t)
  PROVE  /\ TypeOK' /\ LeavingWoken'
         /\ t \notin Arrived \cup Leaving
         /\ Arrived' = Arrived \cup {t}
         /\ Leaving' = Leaving
<1>1. TypeOK /\ LeavingWoken
  BY DEF IInv
<1>2. pc[t] = "idle" /\ pc' = [pc EXCEPT ![t] = "blocked"]
      /\ my_round' = [my_round EXCEPT ![t] = round] /\ round' = round
  BY DEF Blocks
<1>3. \A u \in Threads : /\ pc'[u] = IF u = t THEN "blocked" ELSE pc[u]
                         /\ my_round'[u] = IF u = t THEN round ELSE my_round[u]
  BY <1>1, <1>2 DEF TypeOK
<1>4. TypeOK'
  <2>1. left' \in 1..Cardinality(Threads)
    BY <1>1, CountsAreNaturals DEF TypeOK, Blocks
  <2>2. QED
    BY <2>1, <1>1 DEF TypeOK, Blocks
<1>5. t \notin Arrived \cup Leaving
  BY <1>2 DEF Arrived, Leaving
<1>6. Arrived' = Arrived \cup {t} /\ Leaving' = Leaving
  BY <1>2, <1>3 DEF Arrived, Leaving
<1>7. LeavingWoken'
  BY <1>1, <1>3, <1>5, <1>6 DEF LeavingWoken, Leaving
<1>8. QED
  BY <1>4, <1>5, <1>6, <1>7

LEMMA CompletesEffect ==
  ASSUME IInv, NEW t \in Threads, Completes(t)
  PROVE  /\ TypeOK' /\ LeavingWoken'
         /\ Arrived = Threads \ {t} /\ Leaving = {}
         /\ Arrived' = {} /\ Leaving' = Arrived
         /\ left' = Cardinality(Threads)
<1>1. TypeOK
  BY DEF IInv
<1>2. Arrived = Threads \ {t} /\ Leaving = {}
  BY LastFindsAll DEF Completes
<1>3. round' \in Rounds /\ round' # round
  BY <1>1, NextRound DEF TypeOK, Completes
<1>4. /\ my_round' = my_round /\ pc[t] = "idle"
      /\ \A u \in Threads : pc'[u] = IF pc[u] = "blocked" THEN "woken" ELSE pc[u]
  BY DEF Completes
<1>5. left' = Cardinality(Threads) /\ count' = count
  BY <1>1 DEF TypeOK, Completes
<1>6. TypeOK'
  <2>1. pc' \in [Threads -> {"idle", "blocked", "woken"}]
    BY <1>1 DEF TypeOK, Completes
  <2>2. ret' \in [Threads -> {0, Serial}]
    BY <1>1 DEF TypeOK, Completes
  <2>3. QED
    BY <1>1, <1>3, <1>4, <1>5, <2>1, <2>2, CountsAreNaturals DEF TypeOK
<1>7. Arrived' = {} /\ Leaving' = Arrived
  BY <1>2, <1>3, <1>4 DEF Arrived, Leaving
<1>8. LeavingWoken'
  BY <1>1, <1>2, <1>4, <1>7 DEF LeavingWoken, Arrived, TypeOK
<1>9. QED
  BY <1>2, <1>5, <1>6, <1>7, <1>8

LEMMA SpuriousWakeupEffect ==
  ASSUME IInv, NEW t \in Threads, SpuriousWakeup(t)
  PROVE  /\ TypeOK' /\ LeavingWoken'
         /\ Arrived' = Arrived /\ Leaving' = Leaving
<1>1. TypeOK /\ LeavingWoken
  BY DEF IInv
<1>2. \A u \in Threads : pc'[u] = IF u = t THEN "woken" ELSE pc[u]
  BY <1>1 DEF TypeOK, SpuriousWakeup
<1>3. Arrived' = Arrived /\ Leaving' = Leaving
  BY <1>2 DEF Arrived, Leaving, SpuriousWakeup
<1>4. TypeOK'
  BY <1>1 DEF TypeOK, SpuriousWakeup
<1>5. QED
  BY <1>1, <1>2, <1>3, <1>4 DEF LeavingWoken, Leaving

LEMMA SleepsAgainEffect ==
  ASSUME IInv, NEW t \in Threads, SleepsAgain(t)
  PROVE  /\ TypeOK' /\ LeavingWoken'
         /\ Arrived' = Arrived /\ Leaving' = Leaving
<1>1. TypeOK /\ LeavingWoken
  BY DEF IInv
<1>2. \A u \in Threads : pc'[u] = IF u = t THEN "blocked" ELSE pc[u]
  BY <1>1 DEF TypeOK, SleepsAgain
<1>3. t \notin Leaving
  BY DEF Leaving, SleepsAgain
<1>4. Arrived' = Arrived /\ Leaving' = Leaving
  BY <1>2 DEF Arrived, Leaving, SleepsAgain
<1>5. TypeOK'
  BY <1>1 DEF TypeOK, SleepsAgain
<1>6. QED
  BY <1>1, <1>2, <1>3, <1>4, <1>5 DEF LeavingWoken, Leaving

LEMMA LeavesEffect ==
  ASSUME IInv, NEW t \in Threads, Leaves(t)
  PROVE  /\ TypeOK' /\ LeavingWoken'
         /\ t \in Leaving
         /\ Arrived' = Arrived /\ Leaving' = Leaving \ {t}
<1>1. TypeOK /\ LeavingWoken
  BY DEF IInv
<1>2. \A u \in Threads : /\ pc'[u] = IF u = t THEN "idle" ELSE pc[u]
                         /\ u # t => my_round'[u] = my_round[u]
  BY <1>1 DEF TypeOK, Leaves
<1>3. t \in Leaving /\ t \notin Arrived /\ round' = round
  BY DEF Arrived, Leaving, Leaves
<1>4. Arrived' = Arrived /\ Leaving' = Leaving \ {t}
  BY <1>2, <1>3 DEF Arrived, Leaving
<1>5. 0 \in Rounds
  BY BarrierAssumption DEF Rounds
<1>6. TypeOK'
  BY <1>1, <1>5 DEF TypeOK, Leaves
<1>7. QED
  BY <1>1, <1>2, <1>3, <1>4, <1>6 DEF LeavingWoken, Leaving

LEMMA DestroyEffect ==
  ASSUME IInv, Destroy
  PROVE  /\ TypeOK' /\ LeavingWoken'
         /\ Arrived' = Arrived /\ Leaving' = Leaving
BY DEF IInv, TypeOK, LeavingWoken, Arrived, Leaving, Destroy

LEMMA StutterEffect ==
  ASSUME IInv, UNCHANGED vars
  PROVE  IInv' /\ Arrived' = Arrived /\ Leaving' = Leaving
BY DEF IInv, TypeOK, LeftCounts, LeavingWoken, Arrived, Leaving, vars

-----------------------------------------------------------------------------
LEMMA InitInvariant == Init => IInv
<1>1. SUFFICES ASSUME Init PROVE IInv
  OBVIOUS
<1>2. Arrived = {} /\ Leaving = {}
  BY <1>1 DEF Init, Arrived, Leaving
<1>3. TypeOK
  BY <1>1, CountsAreNaturals, BarrierAssumption DEF Init, TypeOK, Rounds
<1>4. LeftCounts
  BY <1>1, <1>2, FS_EmptySet, CountsAreNaturals DEF Init, LeftCounts
<1>5. QED
  BY <1>2, <1>3, <1>4 DEF IInv, LeavingWoken

LEMMA StepInvariant ==
  ASSUME IInv, [Next]_vars
  PROVE  IInv'
<1>1. Arrived \in SUBSET Threads
  BY DEF Arrived
<1>2. ASSUME NEW t \in Threads, Blocks(t)
      PROVE  IInv'
  <2>1. Cardinality(Arrived \cup {t}) = Cardinality(Arrived) + 1
    <3>1. IsFiniteSet(Arrived) /\ t \notin Arrived
      BY <1>1, <1>2, BlocksEffect, CountsAreNaturals
    <3>2. QED
      BY <3>1, FS_AddElement
  <2>2. LeftCounts'
    <3>1. left' = left - 1 /\ left = Cardinality(Threads) - Cardinality(Arrived)
      BY <1>2 DEF IInv, LeftCounts, Blocks
    <3>2. Cardinality(Threads) \in Nat /\ Cardinality(Arrived) \in Nat
      BY <1>1, CountsAreNaturals
    <3>3. Cardinality(Arrived') = Cardinality(Arrived) + 1
      BY <1>2, <2>1, BlocksEffect
    <3>4. QED
      BY <3>1, <3>2, <3>3 DEF LeftCounts
  <2>3. QED
    BY <1>2, <2>2, BlocksEffect DEF IInv
<1>3. ASSUME NEW t \in Threads, Completes(t)
      PROVE  IInv'
  <2>1. LeftCounts'
    BY <1>3, CompletesEffect, FS_EmptySet, CountsAreNaturals DEF LeftCounts
  <2>2. QED
    BY <1>3, <2>1, CompletesEffect DEF IInv
<1>4. ASSUME NEW t \in Threads, SpuriousWakeup(t)
      PROVE  IInv'
  BY <1>4, SpuriousWakeupEffect DEF IInv, LeftCounts, SpuriousWakeup
<1>5. ASSUME NEW t \in Threads, SleepsAgain(t)
      PROVE  IInv'
  BY <1>5, SleepsAgainEffect DEF IInv, LeftCounts, SleepsAgain
<1>6. ASSUME NEW t \in Threads, Leaves(t)
      PROVE  IInv'
  BY <1>6, LeavesEffect DEF IInv, LeftCounts, Leaves
<1>7. CASE Destroy
  BY <1>7, DestroyEffect DEF IInv, LeftCounts, Destroy
<1>8. CASE UNCHANGED vars
  BY <1>8, StutterEffect
<1>9. QED
  BY <1>2, <1>3, <1>4, <1>5, <1>6, <1>7, <1>8 DEF Next, Step

(* The inductive invariant holds in every reachable state.                   *)
THEOREM Invariance == Spec => []IInv
<1>1. Init => IInv
  BY InitInvariant
<1>2. IInv /\ [Next]_vars => IInv'
  BY StepInvariant
<1>3. QED
  BY <1>1, <1>2, PTL DEF Spec

(* The variables keep their types.                                           *)
THEOREM TypeCorrect == Spec => []TypeOK
<1>1. IInv => TypeOK
  BY DEF IInv
<1>2. QED
  BY <1>1, Invariance, PTL

(* left is always what the current round lacks (pthread_barrier.c:64-78).    *)
THEOREM LeftAlwaysCounts == Spec => []LeftCounts
<1>1. IInv => LeftCounts
  BY DEF IInv
<1>2. QED
  BY <1>1, Invariance, PTL

(* No round completes while a thread has not left the one before, so that a  *)
(* round counter of a single bit would do (pthread_barrier.c:69).            *)
THEOREM NoStragglersEver == Spec => NoStragglers
<1>1. ASSUME IInv, [Next]_vars
      PROVE  [round' # round => Leaving = {}]_vars
  <2>1. ASSUME NEW t \in Threads, Completes(t)
        PROVE  Leaving = {}
    BY <1>1, <2>1, CompletesEffect
  <2>2. (\E t \in Threads : Completes(t)) \/ round' = round
    BY <1>1 DEF Next, Step, Destroy, Blocks, SpuriousWakeup, SleepsAgain, Leaves, vars
  <2>3. QED
    BY <2>1, <2>2
<1>2. QED
  BY <1>1, Invariance, PTL DEF Spec, NoStragglers

-----------------------------------------------------------------------------
(* Refinement *)

LEMMA InitRefines == Init => Abstract!Init
BY DEF Init, Abstract!Init, Arrived, Leaving

LEMMA StepRefines ==
  ASSUME IInv, [Next]_vars
  PROVE  [Abstract!Next]_Abstract!vars
<1>1. ASSUME NEW t \in Threads, Blocks(t)
      PROVE  Abstract!Arrive(t)
  <2>1. Arrived \cup {t} # Threads
    <3>1. SUFFICES ASSUME Arrived \cup {t} = Threads PROVE FALSE
      OBVIOUS
    <3>2. Arrived \in SUBSET Threads /\ t \notin Arrived
      BY <1>1, BlocksEffect DEF Arrived
    <3>3. Cardinality(Threads) = Cardinality(Arrived) + 1
      BY <3>1, <3>2, FS_AddElement, CountsAreNaturals
    <3>4. QED
      BY <1>1, <3>2, <3>3, CountsAreNaturals DEF IInv, LeftCounts, TypeOK, Blocks
  <2>2. ret' = ret
    BY <1>1 DEF Blocks
  <2>3. QED
    BY <1>1, <2>1, <2>2, BlocksEffect DEF Abstract!Arrive, Abstract!Outside
<1>2. ASSUME NEW t \in Threads, Completes(t)
      PROVE  Abstract!Complete(t)
  <2>1. ret' = [ret EXCEPT ![t] = Serial]
    BY <1>2 DEF Completes
  <2>2. QED
    BY <1>2, <2>1, CompletesEffect DEF Abstract!Complete, Abstract!Outside
<1>3. ASSUME NEW t \in Threads, Leaves(t)
      PROVE  Abstract!Leave(t)
  <2>1. ret' = [ret EXCEPT ![t] = 0]
    BY <1>3 DEF Leaves
  <2>2. QED
    BY <1>3, <2>1, LeavesEffect DEF Abstract!Leave
<1>4. ASSUME NEW t \in Threads, SpuriousWakeup(t) \/ SleepsAgain(t)
      PROVE  UNCHANGED Abstract!vars
  BY <1>4, SpuriousWakeupEffect, SleepsAgainEffect DEF Abstract!vars, SpuriousWakeup, SleepsAgain
<1>5. CASE Destroy
  BY <1>5, DestroyEffect DEF Abstract!vars, Destroy
<1>6. CASE UNCHANGED vars
  <2>1. ret' = ret
    BY <1>6 DEF vars
  <2>2. QED
    BY <1>6, <2>1, StutterEffect DEF Abstract!vars
<1>7. QED
  BY <1>1, <1>2, <1>3, <1>4, <1>5, <1>6 DEF Next, Step, Abstract!Next

(* The barrier implements the abstract one for any number of threads: nobody *)
(* leaves a round before everybody has arrived, and one thread is serial.    *)
THEOREM BarrierImplemented == Spec => ImplementsBarrier
<1>1. QED
  BY Invariance, InitRefines, StepRefines, PTL DEF Spec, ImplementsBarrier, Abstract!Spec

-----------------------------------------------------------------------------
(* psem *)

(* A thread that a broadcast was to release is awake: the broadcast needs the *)
(* mutex, so nobody is about to sleep then, and awake threads do not go back. *)
PsemInv == PsemTypeOK /\ DueWoken

LEMMA PsemInitInvariant == PsemInit => PsemInv
BY PSemAssumption DEF PsemInit, PsemInv, PsemTypeOK, DueWoken

LEMMA PsemStepInvariant ==
  ASSUME PsemInv, [PsemNext]_psemVars
  PROVE  PsemInv'
<1> USE PSemAssumption DEF PsemInv, PsemTypeOK, DueWoken
<1>1. CASE PsemDestroy
  BY <1>1 DEF PsemDestroy
<1>2. ASSUME NEW t \in Waiters, WaitLocks(t)
      PROVE  PsemInv'
  BY <1>2 DEF WaitLocks
<1>3. ASSUME NEW t \in Waiters, WaitSleeps(t)
      PROVE  PsemInv'
  BY <1>3 DEF WaitSleeps
<1>4. ASSUME NEW t \in Waiters, PsemSpuriousWakeup(t)
      PROVE  PsemInv'
  BY <1>4 DEF PsemSpuriousWakeup
<1>5. ASSUME NEW t \in Waiters, WaitReturns(t)
      PROVE  PsemInv'
  BY <1>5 DEF WaitReturns
<1>6. ASSUME NEW t \in Waiters, PsemBroadcast(t)
      PROVE  PsemInv'
  BY <1>6 DEF PsemBroadcast, InWait, Asleep
<1>7. ASSUME NEW s \in Signallers, PsemSignal(s)
      PROVE  PsemInv'
  BY <1>7 DEF PsemSignal, Asleep
<1>8. CASE UNCHANGED psemVars
  BY <1>8 DEF psemVars
<1>9. QED
  BY <1>1, <1>2, <1>3, <1>4, <1>5, <1>6, <1>7, <1>8 DEF PsemNext, PsemWaitStep

(* psem keeps its types, its mutex has at most one holder, and a broadcast    *)
(* leaves nobody asleep who called psem_wait before it (psem.h:65-86).        *)
THEOREM PsemInvariance == PsemSpec => []PsemInv
<1>1. PsemInit => PsemInv
  BY PsemInitInvariant
<1>2. PsemInv /\ [PsemNext]_psemVars => PsemInv'
  BY PsemStepInvariant
<1>3. QED
  BY <1>1, <1>2, PTL DEF PsemSpec

-----------------------------------------------------------------------------
(* The composition *)

(* A step of the two together is a step of one of them, and the other stands  *)
(* still.                                                                     *)
LEMMA StepsOfComponents ==
  ASSUME [MonitorsNext]_<<vars, psemVars>>
  PROVE  [Next]_vars /\ [PsemNext]_psemVars
BY DEF MonitorsNext, Next, PsemNext

(* Threads that use the barrier and psem in turn are, for each of the two,    *)
(* threads that use it alone.                                                 *)
THEOREM ComponentsImplemented == MonitorsSpec => Spec /\ PsemSpec
<1>1. MonitorsInit => Init /\ PsemInit
  BY DEF MonitorsInit
<1>2. [MonitorsNext]_<<vars, psemVars>> => [Next]_vars /\ [PsemNext]_psemVars
  BY StepsOfComponents
<1>3. QED
  BY <1>1, <1>2, PTL DEF MonitorsSpec, Spec, PsemSpec

(* Neither a completed round nor a broadcast leaves a thread asleep, for any  *)
(* number of threads, any width of the round counter and any signals and      *)
(* spurious wakeups (pthread_barrier.c:69-75, psem.h:65-86).                  *)
THEOREM NobodyEverLeftAsleep ==
  MonitorsSpec => [](MonitorsTypeOK /\ NobodyLeftAsleep)
<1>1. IInv /\ PsemInv => MonitorsTypeOK /\ NobodyLeftAsleep
  BY DEF IInv, PsemInv, MonitorsTypeOK, NobodyLeftAsleep
<1>2. QED
  BY <1>1, ComponentsImplemented, Invariance, PsemInvariance, PTL

(* What the barrier promises, it promises in the composition too.             *)
THEOREM BarrierInComposition ==
  MonitorsSpec => []LeftCounts /\ NoStragglers /\ ImplementsBarrier
<1>1. QED
  BY ComponentsImplemented, LeftAlwaysCounts, NoStragglersEver, BarrierImplemented, PTL
=============================================================================
