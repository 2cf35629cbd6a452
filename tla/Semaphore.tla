----------------------------- MODULE Semaphore -----------------------------
(***************************************************************************)
(* What a counting semaphore promises: a wait succeeds only by taking a    *)
(* token, a wait that gives up takes none, and tokens come from the        *)
(* initial count and from signals only.                                    *)
(*                                                                         *)
(* The light-weight semaphore (LuSem) is shown to implement this module.   *)
(***************************************************************************)
EXTENDS Integers

CONSTANTS
  Threads,    (* the threads that use the semaphore *)
  Initial     (* its initial count                  *)

VARIABLES
  value,      (* the tokens nobody has taken        *)
  calling,    (* the threads inside a wait          *)
  rc          (* what each thread's last wait returned *)

vars == <<value, calling, rc>>

Init ==
  /\ value = Initial
  /\ calling = {}
  /\ rc = [t \in Threads |-> 0]

Call(t) ==
  /\ t \notin calling
  /\ calling' = calling \cup {t}
  /\ UNCHANGED <<value, rc>>

Succeed(t) ==
  /\ t \in calling
  /\ value > 0
  /\ value' = value - 1
  /\ calling' = calling \ {t}
  /\ rc' = [rc EXCEPT ![t] = 0]

GiveUp(t) ==
  /\ t \in calling
  /\ calling' = calling \ {t}
  /\ rc' = [rc EXCEPT ![t] = -1]
  /\ UNCHANGED value

(* One or more tokens are added. *)
Signal ==
  /\ value' > value
  /\ UNCHANGED <<calling, rc>>

Next ==
  \/ \E t \in Threads : Call(t) \/ Succeed(t) \/ GiveUp(t)
  \/ Signal

Spec == Init /\ [][Next]_vars
=============================================================================
