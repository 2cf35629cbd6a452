-------------------------------- MODULE PSem --------------------------------
(***************************************************************************)
(* The condition variable with its mutex of src/include/threads/psem.h.    *)
(* There is no predicate: a signal that finds nobody asleep is lost, and   *)
(* psem_wait returns after any wakeup.                                     *)
(***************************************************************************)
CONSTANTS
  Waiters,      (* the threads that call psem_wait and psem_broadcast        *)
  Signallers,   (* the threads that call psem_signal over and over, as       *)
                (* notify_thread does (psem_test.c:40-47)                    *)
  None          (* no thread                                                 *)

ASSUME PSemAssumption == None \notin Waiters

VARIABLES
  lock,         (* holder of s->lock between two steps, or None              *)
  at,           (* idle, locked: about to sleep, notify: asleep, or woken    *)
  up,           (* psem_destroy was not called yet                           *)
  due           (* history: the threads a broadcast was to release           *)

psemVars == <<lock, at, up, due>>

PsemTypeOK ==
  /\ lock \in Waiters \cup {None}
  /\ at \in [Waiters -> {"idle", "locked", "notify", "woken"}]
  /\ \A t \in Waiters : at[t] = "locked" <=> lock = t
  /\ up \in BOOLEAN
  /\ due \subseteq Waiters

(* psem_init *)
PsemInit ==
  /\ lock = None
  /\ at = [t \in Waiters |-> "idle"]
  /\ up = TRUE
  /\ due = {}

Asleep == {t \in Waiters : at[t] = "notify"}
InWait == {t \in Waiters : at[t] \in {"locked", "notify"}}

-----------------------------------------------------------------------------
(* psem_wait; nobody calls a function of a psem that was destroyed *)

WaitLocks(t) ==
  /\ at[t] = "idle" /\ up
  /\ lock = None
  /\ lock' = t
  /\ at' = [at EXCEPT ![t] = "locked"]
  /\ UNCHANGED <<up, due>>

(* pthread_cond_wait puts the thread to sleep and unlocks in one step. *)
WaitSleeps(t) ==
  /\ at[t] = "locked"
  /\ at' = [at EXCEPT ![t] = "notify"]
  /\ lock' = None
  /\ UNCHANGED <<up, due>>

PsemSpuriousWakeup(t) ==
  /\ at[t] = "notify"
  /\ at' = [at EXCEPT ![t] = "woken"]
  /\ UNCHANGED <<lock, up, due>>

(* pthread_cond_wait has to get the mutex again before it returns. *)
WaitReturns(t) ==
  /\ at[t] = "woken"
  /\ lock = None
  /\ at' = [at EXCEPT ![t] = "idle"]
  /\ due' = due \ {t}
  /\ UNCHANGED <<lock, up>>

-----------------------------------------------------------------------------
(* Mutant: the mutex is not given back. *)
PsemSignalKeepsLock(s) ==
  /\ lock = None /\ up
  /\ lock' = s
  /\ \E t \in Asleep : at' = [at EXCEPT ![t] = "woken"]
  /\ UNCHANGED <<up, due>>

(* psem_signal wakes one of the sleeping threads; with none it is lost. *)
PsemSignal(s) ==
  /\ lock = None /\ up
  /\ \E t \in Asleep : at' = [at EXCEPT ![t] = "woken"]
  /\ UNCHANGED <<lock, up, due>>

(* Mutant: the mutex is not taken. *)
PsemBroadcastUnlocked(t) ==
  /\ at[t] = "idle" /\ up
  /\ at' = [x \in Waiters |-> IF x \in Asleep THEN "woken" ELSE at[x]]
  /\ due' = due \cup InWait
  /\ UNCHANGED <<lock, up>>

(* psem_broadcast wakes all of them. *)
PsemBroadcast(t) ==
  /\ at[t] = "idle" /\ up
  /\ lock = None
  /\ at' = [x \in Waiters |-> IF x \in Asleep THEN "woken" ELSE at[x]]
  /\ due' = due \cup InWait
  /\ UNCHANGED <<lock, up>>

(* psem_destroy, which its caller may use when nobody is inside *)
PsemDestroy ==
  /\ up
  /\ \A t \in Waiters : at[t] = "idle"
  /\ up' = FALSE
  /\ UNCHANGED <<lock, at, due>>

-----------------------------------------------------------------------------
PsemWaitStep(t) ==
  \/ WaitSleeps(t)
  \/ PsemSpuriousWakeup(t)
  \/ WaitReturns(t)

PsemNext ==
  \/ PsemDestroy
  \/ \E t \in Waiters : WaitLocks(t) \/ PsemWaitStep(t) \/ PsemBroadcast(t)
  \/ \E s \in Signallers : PsemSignal(s)

PsemSpec == PsemInit /\ [][PsemNext]_psemVars

(* A thread inside psem_wait is scheduled and gets the mutex if it is free   *)
(* again and again; so does a thread that signals in a loop.                 *)
PsemFairness ==
  /\ \A t \in Waiters : WF_psemVars(WaitSleeps(t)) /\ SF_psemVars(WaitReturns(t))
  /\ \A s \in Signallers : SF_psemVars(PsemSignal(s))

-----------------------------------------------------------------------------
(* Properties *)

(* A thread that a broadcast was to release is not asleep.                   *)
DueWoken == \A t \in due : at[t] = "woken"

(* A broadcast releases every thread whose psem_wait took the mutex before   *)
(* it, also one that was about to sleep (lines 65-72, 79-86).                *)
BroadcastReleases == \A t \in Waiters : t \in due ~> t \notin due

(* Although single signals are lost, a thread that signals in a loop         *)
(* releases every waiter, at the latest when no new wait begins: the hand    *)
(* over of psem_test.c:40-56.                                                *)
NoMoreWaits == <>[][\A t \in Waiters : at[t] = "idle" => at'[t] = "idle"]_psemVars
SignalsRelease ==
  NoMoreWaits /\ Signallers # {} => \A t \in Waiters : at[t] = "notify" ~> at[t] = "idle"
=============================================================================
