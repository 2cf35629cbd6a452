-------------------------- MODULE AbstractBarrier --------------------------
(***************************************************************************)
(* What a barrier promises: nobody leaves a round before everybody has     *)
(* arrived, exactly one thread of a round is told that it is the serial    *)
(* one, and nobody takes part in a round twice.                            *)
(*                                                                         *)
(* The barrier of pthread_barrier.c (Barrier) is shown to implement it.    *)
(***************************************************************************)
CONSTANTS
  Threads,    (* the threads that meet                           *)
  Serial      (* PTHREAD_BARRIER_SERIAL_THREAD                   *)

VARIABLES
  arrived,    (* the threads that wait in the current round      *)
  released,   (* those of the last round that have not left yet  *)
  ret         (* what each thread's last wait returned           *)

vars == <<arrived, released, ret>>

Init ==
  /\ arrived = {}
  /\ released = {}
  /\ ret = [t \in Threads |-> 0]

Outside(t) == t \notin arrived \cup released

Arrive(t) ==
  /\ Outside(t)
  /\ arrived' = arrived \cup {t}
  /\ arrived' # Threads
  /\ UNCHANGED <<released, ret>>

(* The last thread of a round releases the others and returns at once. *)
Complete(t) ==
  /\ Outside(t)
  /\ arrived \cup {t} = Threads
  /\ released' = arrived
  /\ arrived' = {}
  /\ ret' = [ret EXCEPT ![t] = Serial]

Leave(t) ==
  /\ t \in released
  /\ released' = released \ {t}
  /\ ret' = [ret EXCEPT ![t] = 0]
  /\ UNCHANGED arrived

Next == \E t \in Threads : Arrive(t) \/ Complete(t) \/ Leave(t)

Spec == Init /\ [][Next]_vars
=============================================================================
