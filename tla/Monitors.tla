------------------------------ MODULE Monitors ------------------------------
(***************************************************************************)
(* The two components made of a mutex and a condition variable, together:  *)
(* threads that meet at the barrier and use psem in between, next to one   *)
(* that signals in a loop, as psem_test.c does.                            *)
(***************************************************************************)
EXTENDS Barrier, PSem

(* The barrier's threads are psem's waiters. *)
ASSUME WaitersAssumption == Waiters = Threads

MonitorsInit == Init /\ PsemInit

(* A thread is in one call at a time. *)
MonitorsNext ==
  \/ /\ \/ Destroy
        \/ \E t \in Threads : at[t] = "idle" /\ Step(t)
     /\ UNCHANGED psemVars
  \/ /\ \/ PsemDestroy
        \/ \E t \in Waiters :
              \/ pc[t] = "idle" /\ (WaitLocks(t) \/ PsemBroadcast(t))
              \/ PsemWaitStep(t)
        \/ \E s \in Signallers : PsemSignal(s)
     /\ UNCHANGED vars

MonitorsSpec ==
  MonitorsInit /\ [][MonitorsNext]_<<vars, psemVars>> /\ Fairness /\ PsemFairness

-----------------------------------------------------------------------------
(* Properties *)

(* Both components keep their types: pthread_barrier.c:63-79, psem.h:51-86.  *)
MonitorsTypeOK == TypeOK /\ PsemTypeOK

(* Nobody is left behind asleep: a thread whose round has completed, and one *)
(* a broadcast was to release, has been woken for good.  The last thread of  *)
(* a round and psem_broadcast wake everybody, spurious wakeups and threads   *)
(* that are late out of the last round included (pthread_barrier.c:69-75,    *)
(* psem.h:65-86).                                                            *)
NobodyLeftAsleep == LeavingWoken /\ DueWoken
=============================================================================
