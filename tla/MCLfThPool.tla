----------------------------- MODULE MCLfThPool -----------------------------
(* Instances of LfThPool for TLC: which client may call what. *)
EXTENDS LfThPool, TLC

CONSTANTS c1, c2, c3

(* Every function of the API, two threads that help. *)
CallsSafety ==
  c1 :> {"add_task", "wait", "destroy"}
    @@ c2 :> {"add_task_try", "try_once", "shutdown"}
    @@ c3 :> {"pause", "resume"}

(* Two waiters, one of them helping, on a pool that is paused, resumed and *)
(* shut down.                                                              *)
CallsLiveness ==
  c1 :> {"add_task", "wait"}
    @@ c2 :> {"wait", "try_once", "destroy"}
    @@ c3 :> {"pause", "resume", "shutdown"}
=============================================================================
