------------------------------- MODULE LuSem -------------------------------
(***************************************************************************)
(* The light-weight semaphore of src/include/threads/lusem.h and           *)
(* src/src/threads/lusem.c: an atomic counter in front of a usem.  A       *)
(* negative m_count is the number of threads that wait, or are about to    *)
(* wait, on the usem for a token nobody has signalled yet.                 *)
(*                                                                         *)
(* Every access to m_count and every call of the usem is a step.           *)
(***************************************************************************)
EXTENDS USem, FiniteSets

CONSTANTS
  Threads,       (* the threads that use the semaphore                       *)
  InitialCount,  (* initial_count of lusem_init                              *)
  MaxSpins,      (* max_spins of lusem_init, 0 if it was negative            *)
  MaxSignals     (* bound on the tokens that are signalled in a behaviour    *)

ASSUME LuSemAssumption ==
  /\ IsFiniteSet(Threads)
  /\ InitialCount \in Nat
  /\ MaxSpins \in Nat
  /\ MaxSignals \in Nat
  /\ SemValueMax \in Nat /\ SemValueMax >= InitialCount + Cardinality(Threads)

VARIABLES
  m_count,       (* lsem->m_count                                            *)
  pc,            (* where each thread is                                     *)
  mode,          (* the wait a thread is in: lusem_try_wait, a wait with no  *)
                 (* deadline (lusem_wait, or lusem_timed_wait with a timeout *)
                 (* of 0), or a timed one                                    *)
  old_count,     (* the local variable old_count of a wait                   *)
  spin,          (* the rounds its spin loop has left                        *)
  to_release,    (* the posts a thread in lusem_signal_count still owes      *)
  rc,            (* what each thread's last wait returned                    *)
  signalled,     (* history: the tokens signalled so far                     *)
  taken          (* history: the waits that returned 0                       *)

vars == <<sem, m_count, pc, mode, old_count, spin, to_release, rc, signalled, taken>>

Modes == {"try", "forever", "timed"}

(* The labels of a wait: before it has decremented m_count, and after that.  *)
Contending == {"try", "trycas", "spin", "spincas"}
Counted == {"block", "adjust", "retry", "undo"}
PC == {"idle", "post"} \cup Contending \cup Counted

Waiting == {t \in Threads : pc[t] \in Counted}
Calling == {t \in Threads : pc[t] \in Contending \cup Counted}

(* The posts that are still owed, one pair each. *)
Owed == {x \in Threads \X (1..MaxSignals) : x[2] <= to_release[x[1]]}

TypeOK ==
  /\ sem \in Nat
  /\ m_count \in Int
  /\ pc \in [Threads -> PC]
  /\ mode \in [Threads -> Modes]
  /\ old_count \in [Threads -> Int]
  /\ spin \in [Threads -> 0..MaxSpins]
  /\ to_release \in [Threads -> 0..MaxSignals]
  /\ \A t \in Threads : pc[t] = "post" <=> to_release[t] > 0
  /\ rc \in [Threads -> {0, -1}]
  /\ signalled \in 0..MaxSignals
  /\ taken \in Nat

(* lusem_init *)
Init ==
  /\ m_count = InitialCount
  /\ UsemInit(InitialCount)
  /\ pc = [t \in Threads |-> "idle"]
  /\ mode = [t \in Threads |-> "try"]
  /\ old_count = [t \in Threads |-> 0]
  /\ spin = [t \in Threads |-> 0]
  /\ to_release = [t \in Threads |-> 0]
  /\ rc = [t \in Threads |-> 0]
  /\ signalled = 0
  /\ taken = 0

Goto(t, label) == pc' = [pc EXCEPT ![t] = label]

(* Leave a wait with the result r; its locals are dead from here on. *)
Return(t, r) ==
  /\ Goto(t, "idle")
  /\ rc' = [rc EXCEPT ![t] = r]
  /\ taken' = IF r = 0 THEN taken + 1 ELSE taken
  /\ old_count' = [old_count EXCEPT ![t] = 0]
  /\ spin' = [spin EXCEPT ![t] = 0]
  /\ mode' = [mode EXCEPT ![t] = "try"]

Stay == UNCHANGED <<mode, spin, rc, taken>>
NoSignal == UNCHANGED <<to_release, signalled>>

-----------------------------------------------------------------------------
(* lusem_try_wait, with which every wait begins *)

Call(t) ==
  /\ pc[t] = "idle"
  /\ \E m \in Modes : mode' = [mode EXCEPT ![t] = m]
  /\ Goto(t, "try")
  /\ UNCHANGED <<sem, m_count, old_count, spin, rc, taken>>
  /\ NoSignal

(* m_count was read, or read again by a compare-and-exchange that failed:    *)
(* with no token in it lusem_try_wait fails, and the other waits go on.      *)
Sees(t, old) ==
  \/ /\ old > 0
     /\ old_count' = [old_count EXCEPT ![t] = old]
     /\ Goto(t, "trycas")
     /\ Stay
  \/ /\ old <= 0
     /\ mode[t] = "try"
     /\ Return(t, -1)
  \/ /\ old <= 0
     /\ mode[t] # "try"
     /\ Goto(t, "spin")
     /\ spin' = [spin EXCEPT ![t] = MaxSpins]
     /\ UNCHANGED <<mode, old_count, rc, taken>>

TryReads(t) ==
  /\ pc[t] = "try"
  /\ Sees(t, m_count)
  /\ UNCHANGED <<sem, m_count>>
  /\ NoSignal

(* Mutant: old_count - 1 is stored without comparing. *)
TryStores(t) ==
  /\ pc[t] = "trycas"
  /\ m_count' = old_count[t] - 1
  /\ Return(t, 0)
  /\ UNCHANGED sem
  /\ NoSignal

(* The weak compare-and-exchange may fail although nothing has changed. *)
TrySwaps(t) ==
  /\ pc[t] = "trycas"
  /\ \/ /\ m_count = old_count[t]
        /\ m_count' = m_count - 1
        /\ Return(t, 0)
     \/ /\ Sees(t, m_count)
        /\ UNCHANGED m_count
  /\ UNCHANGED sem
  /\ NoSignal

-----------------------------------------------------------------------------
(* lusem_wait_with_part_spin *)

SpinReads(t) ==
  /\ pc[t] = "spin"
  /\ spin[t] > 0
  /\ spin' = [spin EXCEPT ![t] = @ - 1]
  /\ old_count' = [old_count EXCEPT ![t] = m_count]
  /\ Goto(t, IF m_count > 0 THEN "spincas" ELSE "spin")
  /\ UNCHANGED <<sem, m_count, mode, rc, taken>>
  /\ NoSignal

SpinSwaps(t) ==
  /\ pc[t] = "spincas"
  /\ \/ /\ m_count = old_count[t]
        /\ m_count' = m_count - 1
        /\ Return(t, 0)
     \/ /\ m_count # old_count[t]
        /\ Goto(t, "spin")
        /\ UNCHANGED <<m_count, old_count>>
        /\ Stay
  /\ UNCHANGED sem
  /\ NoSignal

(* The spins are used up: count the thread, which takes a token if there is  *)
(* one and makes it a waiter otherwise.                                      *)
Decrements(t) ==
  /\ pc[t] = "spin"
  /\ spin[t] = 0
  /\ m_count' = m_count - 1
  /\ \/ /\ m_count > 0
        /\ Return(t, 0)
     \/ /\ m_count <= 0
        /\ Goto(t, "block")
        /\ UNCHANGED old_count
        /\ Stay
  /\ UNCHANGED sem
  /\ NoSignal

Wakes(t) ==
  /\ pc[t] = "block"
  /\ UsemWait
  /\ Return(t, 0)
  /\ UNCHANGED m_count
  /\ NoSignal

Expires(t) ==
  /\ pc[t] = "block"
  /\ mode[t] = "timed"
  /\ UsemExpire
  /\ Goto(t, "adjust")
  /\ UNCHANGED <<m_count, old_count>>
  /\ Stay
  /\ NoSignal

(* Mutant: the count is not restored when no signal has come. *)
AdjustWaitsOn(t) ==
  /\ pc[t] = "adjust"
  /\ old_count' = [old_count EXCEPT ![t] = m_count]
  /\ Goto(t, "retry")
  /\ UNCHANGED <<sem, m_count>>
  /\ Stay
  /\ NoSignal

(* After the deadline: with m_count not negative a signal was meant for this *)
(* thread too, and its token is waited for; otherwise the count is restored. *)
AdjustReads(t) ==
  /\ pc[t] = "adjust"
  /\ old_count' = [old_count EXCEPT ![t] = m_count]
  /\ Goto(t, IF m_count >= 0 THEN "retry" ELSE "undo")
  /\ UNCHANGED <<sem, m_count>>
  /\ Stay
  /\ NoSignal

(* Mutant: the thread gives up when the token has not been posted yet. *)
RetriesOnce(t) ==
  /\ pc[t] = "retry"
  /\ \/ UsemWait /\ Return(t, 0)
     \/ UsemTryWaitFails /\ Return(t, -1)
  /\ UNCHANGED m_count
  /\ NoSignal

Retries(t) ==
  /\ pc[t] = "retry"
  /\ \/ UsemWait /\ Return(t, 0)
     \/ UsemTryWaitFails /\ Goto(t, "adjust") /\ UNCHANGED old_count /\ Stay
  /\ UNCHANGED m_count
  /\ NoSignal

Undoes(t) ==
  /\ pc[t] = "undo"
  /\ \/ /\ m_count = old_count[t]
        /\ m_count' = m_count + 1
        /\ Return(t, -1)
     \/ /\ m_count # old_count[t]
        /\ Goto(t, "adjust")
        /\ UNCHANGED <<m_count, old_count>>
        /\ Stay
  /\ UNCHANGED sem
  /\ NoSignal

-----------------------------------------------------------------------------
(* lusem_signal (n = 1) and lusem_signal_count *)

(* The smaller of n and the number of waiters without a token. *)
Release(n) == IF -m_count < n THEN -m_count ELSE n

(* Mutants: one post too many when nobody waits; posts only for the last. *)
SignalPostsAll(t, n) ==
  /\ pc[t] = "idle"
  /\ signalled + n <= MaxSignals
  /\ signalled' = signalled + n
  /\ m_count' = m_count + n
  /\ to_release' = [to_release EXCEPT ![t] = n]
  /\ Goto(t, "post")
  /\ UNCHANGED <<sem, old_count>>
  /\ Stay
SignalOnlyAtMinusOne(t, n) ==
  /\ pc[t] = "idle"
  /\ signalled + n <= MaxSignals
  /\ signalled' = signalled + n
  /\ m_count' = m_count + n
  /\ IF m_count = -1
     THEN /\ to_release' = [to_release EXCEPT ![t] = 1]
          /\ Goto(t, "post")
     ELSE UNCHANGED <<to_release, pc>>
  /\ UNCHANGED <<sem, old_count>>
  /\ Stay

Signal(t, n) ==
  /\ pc[t] = "idle"
  /\ signalled + n <= MaxSignals
  /\ signalled' = signalled + n
  /\ m_count' = m_count + n
  /\ IF Release(n) > 0
     THEN /\ to_release' = [to_release EXCEPT ![t] = Release(n)]
          /\ Goto(t, "post")
     ELSE UNCHANGED <<to_release, pc>>
  /\ UNCHANGED <<sem, old_count>>
  /\ Stay

(* usem_signal_count: one post after the other. *)
Posts(t) ==
  /\ pc[t] = "post"
  /\ UsemSignal
  /\ to_release' = [to_release EXCEPT ![t] = @ - 1]
  /\ Goto(t, IF to_release[t] = 1 THEN "idle" ELSE "post")
  /\ UNCHANGED <<m_count, old_count, signalled>>
  /\ Stay

-----------------------------------------------------------------------------
InCall(t) ==
  \/ TryReads(t)
  \/ TrySwaps(t)
  \/ SpinReads(t)
  \/ SpinSwaps(t)
  \/ Decrements(t)
  \/ AdjustReads(t)
  \/ Retries(t)
  \/ Undoes(t)
  \/ Posts(t)

Next ==
  \E t \in Threads :
    \/ Call(t)
    \/ InCall(t)
    \/ Wakes(t)
    \/ Expires(t)
    \/ \E n \in 1..MaxSignals : Signal(t, n)

Spec == Init /\ [][Next]_vars

(* Fairness: a thread that can run is scheduled, a deadline passes, and a    *)
(* thread that finds the usem above zero again and again gets past it.  No   *)
(* call has to happen.                                                       *)
Fairness ==
  \A t \in Threads : WF_vars(InCall(t)) /\ WF_vars(Expires(t)) /\ SF_vars(Wakes(t))

FairSpec == Spec /\ Fairness

-----------------------------------------------------------------------------
(* Properties *)

(* No token is lost or made between m_count and the usem, whatever deadlines *)
(* pass between a signal's two halves (lusem.h:45-59, lusem.c:13-38).        *)
(* m_count holds the tokens given to it, less those taken and one for each   *)
(* waiter; the tokens posted, or still to be posted, are those lusem_init    *)
(* gave to the usem and one for each waiter that m_count does not count as   *)
(* unserved.                                                                 *)
TokensConserved ==
  /\ m_count = InitialCount + signalled - taken - Cardinality(Waiting)
  /\ sem + Cardinality(Owed)
       = InitialCount + Cardinality(Waiting) + (IF m_count < 0 THEN m_count ELSE 0)

(* lusem_signal never finds the usem at SEM_VALUE_MAX, where usem_signal     *)
(* would spin (usem.h:134).                                                  *)
PostsSucceed ==
  \A t \in Threads : pc[t] = "post" => sem < SemValueMax

(* A counting semaphore: a wait that returns 0 has taken a token, one that   *)
(* returns -1 has not, and with InitialCount tokens in m_count and as many   *)
(* in the usem (lusem.h:23-24) its initial count is twice InitialCount.      *)
Tokens == 2 * InitialCount + signalled - taken
Abstract ==
  INSTANCE Semaphore
    WITH Initial <- 2 * InitialCount, value <- Tokens, calling <- Calling
ImplementsSemaphore == Abstract!Spec

(* No more waits succeed than there were initial tokens and signals.         *)
(* README.md:16 "inter-thread lightweight unnamed semaphore".                *)
NoExtraTokens == taken <= InitialCount + signalled

(* A waiter on the usem does not sleep beside a token: it returns, or others *)
(* take the tokens there are.                                                *)
TokensWake ==
  \A t \in Threads : pc[t] = "block" ~> (pc[t] # "block" \/ Tokens = 0)

(* A timed wait returns, at the latest when nobody calls the semaphore any   *)
(* more: the loop after the deadline ends (lusem.c:31-38).                   *)
Quiet == <>[][\A t \in Threads : pc[t] = "idle" => pc'[t] = "idle"]_vars
TimedWaitReturns ==
  Quiet => \A t \in Threads : mode[t] = "timed" ~> pc[t] = "idle"
=============================================================================
