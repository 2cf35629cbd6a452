-------------------------------- MODULE USem --------------------------------
(***************************************************************************)
(* The unnamed semaphore of src/include/threads/usem.h, as the threads     *)
(* that call it see it: a POSIX semaphore whose calls are repeated when a  *)
(* signal handler interrupts them.  An interrupted and repeated call       *)
(* changes nothing, so each operation is one step.                         *)
(***************************************************************************)
EXTENDS Integers

CONSTANT SemValueMax    (* SEM_VALUE_MAX *)

VARIABLE sem            (* the value of the POSIX semaphore *)

UsemInit(initial_count) == sem = initial_count

(* usem_wait, and usem_timed_wait before its deadline: blocks at zero. *)
UsemWait ==
  /\ sem > 0
  /\ sem' = sem - 1

(* usem_timed_wait at its deadline: it may have passed while a token came. *)
UsemExpire == UNCHANGED sem

(* usem_try_wait at zero *)
UsemTryWaitFails ==
  /\ sem = 0
  /\ UNCHANGED sem

(* usem_signal: sem_post fails, and is repeated, at SEM_VALUE_MAX. *)
UsemSignal ==
  /\ sem < SemValueMax
  /\ sem' = sem + 1
=============================================================================
