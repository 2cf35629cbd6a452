------------------------------ MODULE MCThPool ------------------------------
(* Instances of ThPool for TLC: which client may call what. *)
EXTENDS ThPool, TLC

CONSTANTS c1, c2, c3

(* Every function of the API, two waiters, two threads that help, and two    *)
(* that try for the last slot.                                               *)
CallsSafety ==
  c1 :> {"add_task", "add_task_try", "wait", "try_once"}
    @@ c2 :> {"add_task_try", "wait", "try_once", "shutdown"}
    @@ c3 :> {"pause", "resume"}

(* One waiter, no helper, on a pool that is paused, resumed and shut down. *)
CallsLiveness ==
  c1 :> {"add_task", "wait"} @@ c2 :> {"add_task", "shutdown"} @@ c3 :> {"pause", "resume"}

(* Two waiters. *)
CallsTwoWaiters == c1 :> {"add_task", "wait"} @@ c2 :> {"wait"}

(* A waiter and a thread that helps with thpool_worker_try_once. *)
CallsHelper == c1 :> {"add_task", "wait"} @@ c2 :> {"try_once"}
=============================================================================
