------------------------------ MODULE TaskPool ------------------------------
(***************************************************************************)
(* What a task pool promises to the threads that submit to it, whatever    *)
(* locks or ring buffers stand behind it: a task that was accepted waits   *)
(* in a bounded FIFO queue, is handed to exactly one thread in the order   *)
(* of acceptance, and its function is executed once.                       *)
(*                                                                         *)
(* The detailed pools (ThPool) are shown to implement this module.         *)
(***************************************************************************)
EXTENDS Naturals, Sequences

CONSTANTS
  Tasks,      (* identities of submitted (function, argument) pairs *)
  Capacity    (* how many accepted tasks may wait at a time         *)

VARIABLES
  queue,      (* accepted and not yet handed out, oldest first      *)
  active,     (* handed to a thread, function not yet returned      *)
  done        (* function returned                                  *)

vars == <<queue, active, done>>

Waiting == {queue[i] : i \in 1..Len(queue)}

TypeOK ==
  /\ queue \in Seq(Tasks)
  /\ active \subseteq Tasks
  /\ done \subseteq Tasks

Init ==
  /\ queue = <<>>
  /\ active = {}
  /\ done = {}

(* A submission is accepted while the queue has room. *)
Submit(t) ==
  /\ t \notin Waiting \cup active \cup done
  /\ Len(queue) < Capacity
  /\ queue' = Append(queue, t)
  /\ UNCHANGED <<active, done>>

(* The oldest accepted task is handed to a thread. *)
Start ==
  /\ queue # <<>>
  /\ queue' = Tail(queue)
  /\ active' = active \cup {Head(queue)}
  /\ UNCHANGED done

(* The function of a handed out task returns. *)
Finish(t) ==
  /\ t \in active
  /\ active' = active \ {t}
  /\ done' = done \cup {t}
  /\ UNCHANGED queue

Next ==
  \/ \E t \in Tasks : Submit(t) \/ Finish(t)
  \/ Start

Spec == Init /\ [][Next]_vars
=============================================================================
