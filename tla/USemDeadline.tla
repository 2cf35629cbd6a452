---------------------------- MODULE USemDeadline ----------------------------
(***************************************************************************)
(* usem_timed_wait of src/include/threads/usem.h, with the arithmetic of   *)
(* its deadline: a relative timeout in microseconds becomes an absolute    *)
(* struct timespec, once, and sem_timedwait is repeated with it as often   *)
(* as a signal handler interrupts it.                                      *)
(*                                                                         *)
(* LuSem lets a deadline pass at any moment; here the clock says when.     *)
(***************************************************************************)
EXTENDS USem

CONSTANTS
  Waiters,     (* the threads that call usem_timed_wait                      *)
  Readings,    (* the readings of CLOCK_REALTIME                             *)
  Timeouts     (* the values of timeout_usecs                                *)

usecs_in_1_sec == 1000000
nsecs_in_1_sec == 1000000000

Timespecs == [sec : Nat, nsec : 0..(nsecs_in_1_sec - 1)]

ASSUME USemDeadlineAssumption ==
  /\ Readings \subseteq Timespecs /\ Readings # {}
  /\ Timeouts \subseteq Nat /\ Timeouts # {}
  /\ SemValueMax \in Nat

VARIABLES
  now,         (* what the clock shows                                       *)
  pc,          (* idle, waiting: in sem_timedwait, or interrupted            *)
  ts,          (* the local variable ts                                      *)
  timeout,     (* the argument timeout_usecs                                 *)
  entry,       (* history: what clock_gettime returned                       *)
  rc           (* what each thread's last call returned                      *)

vars == <<sem, now, pc, ts, timeout, entry, rc>>

TypeOK ==
  /\ sem \in 0..SemValueMax
  /\ now \in Readings
  /\ pc \in [Waiters -> {"idle", "waiting", "interrupted"}]
  /\ ts \in [Waiters -> Timespecs]
  /\ timeout \in [Waiters -> Timeouts]
  /\ entry \in [Waiters -> Readings]
  /\ rc \in [Waiters -> {0, -1}]

Init ==
  /\ UsemInit(0)
  /\ now \in Readings
  /\ pc = [w \in Waiters |-> "idle"]
  /\ entry = [w \in Waiters |-> now]
  /\ ts = entry
  /\ timeout \in [Waiters -> Timeouts]
  /\ rc = [w \in Waiters |-> 0]

-----------------------------------------------------------------------------
(* The two sums, before ts.tv_nsec is normalised. *)
Added(r, usecs) ==
  [sec  |-> r.sec + usecs \div usecs_in_1_sec,
   nsec |-> r.nsec + (usecs % usecs_in_1_sec) * 1000]

Carried(s) == [sec |-> s.sec + 1, nsec |-> s.nsec - nsecs_in_1_sec]

(* Mutant: a carry only above one second. *)
DeadlineCarriesLate(r, usecs) ==
  LET s == Added(r, usecs)
  IN  IF s.nsec > nsecs_in_1_sec THEN Carried(s) ELSE s

Deadline(r, usecs) ==
  LET s == Added(r, usecs)
  IN  IF s.nsec >= nsecs_in_1_sec THEN Carried(s) ELSE s

(* a is not before b *)
AtOrAfter(a, b) == a.sec > b.sec \/ (a.sec = b.sec /\ a.nsec >= b.nsec)

Calls(w) ==
  /\ pc[w] = "idle"
  /\ \E usecs \in Timeouts :
       /\ timeout' = [timeout EXCEPT ![w] = usecs]
       /\ ts' = [ts EXCEPT ![w] = Deadline(now, usecs)]
  /\ entry' = [entry EXCEPT ![w] = now]
  /\ pc' = [pc EXCEPT ![w] = "waiting"]
  /\ UNCHANGED <<sem, now, rc>>

Returns(w, r) ==
  /\ pc' = [pc EXCEPT ![w] = "idle"]
  /\ rc' = [rc EXCEPT ![w] = r]
  /\ UNCHANGED <<now, ts, timeout, entry>>

GetsToken(w) ==
  /\ pc[w] = "waiting"
  /\ UsemWait
  /\ Returns(w, 0)

(* Mutant: a token that comes at the deadline is taken all the same. *)
GivesUpWithToken(w) ==
  /\ pc[w] = "waiting"
  /\ ts[w].nsec < nsecs_in_1_sec => AtOrAfter(now, ts[w])
  /\ IF sem > 0 THEN UsemWait ELSE UsemExpire
  /\ Returns(w, -1)

(* sem_timedwait gives up at its deadline, and refuses at once one that is   *)
(* not a time: it "bombs if you have more than 1e9 in tv_nsec".              *)
GivesUp(w) ==
  /\ pc[w] = "waiting"
  /\ ts[w].nsec < nsecs_in_1_sec => AtOrAfter(now, ts[w])
  /\ UsemExpire
  /\ Returns(w, -1)

(* sem_timedwait fails with EINTR *)
Interrupted(w) ==
  /\ pc[w] = "waiting"
  /\ pc' = [pc EXCEPT ![w] = "interrupted"]
  /\ UNCHANGED <<sem, now, ts, timeout, entry, rc>>

(* Mutant: the deadline is computed again. *)
RepeatsAfresh(w) ==
  /\ pc[w] = "interrupted"
  /\ pc' = [pc EXCEPT ![w] = "waiting"]
  /\ ts' = [ts EXCEPT ![w] = Deadline(now, timeout[w])]
  /\ UNCHANGED <<sem, now, timeout, entry, rc>>

Repeats(w) ==
  /\ pc[w] = "interrupted"
  /\ pc' = [pc EXCEPT ![w] = "waiting"]
  /\ UNCHANGED <<sem, now, ts, timeout, entry, rc>>

(* usem_signal of some thread *)
Signals == UsemSignal /\ UNCHANGED <<now, pc, ts, timeout, entry, rc>>

(* CLOCK_REALTIME may also be set back. *)
ClockMoves == now' \in Readings /\ UNCHANGED <<sem, pc, ts, timeout, entry, rc>>

-----------------------------------------------------------------------------
Next ==
  \/ Signals
  \/ ClockMoves
  \/ \E w \in Waiters :
       \/ Calls(w)
       \/ GetsToken(w)
       \/ GivesUp(w)
       \/ Interrupted(w)
       \/ Repeats(w)

Spec == Init /\ [][Next]_vars

(* The loop goes on, and a call whose deadline has passed is not interrupted *)
(* each time.                                                                *)
Fairness == \A w \in Waiters : WF_vars(Repeats(w)) /\ SF_vars(GivesUp(w))

FairSpec == Spec /\ Fairness

-----------------------------------------------------------------------------
(* Properties *)

(* The nanoseconds from a to b. *)
Nanoseconds(a, b) == (b.sec - a.sec) * nsecs_in_1_sec + (b.nsec - a.nsec)

(* The deadline is the timeout after the call, to the nanosecond, also after *)
(* any number of interruptions (lines 116-130).                              *)
DeadlineExact ==
  \A w \in Waiters : pc[w] # "idle" => Nanoseconds(entry[w], ts[w]) = timeout[w] * 1000

(* The timeout of a call has passed by the clock. *)
Elapsed(w) == Nanoseconds(entry[w], now) >= timeout[w] * 1000

(* usem_timed_wait does not fail before the timeout has passed by the clock, *)
(* neither by a deadline too early nor by one that sem_timedwait refuses.    *)
NotEarly ==
  [][\A w \in Waiters : pc[w] # "idle" /\ pc'[w] = "idle" /\ rc'[w] = -1 => Elapsed(w)]_vars

(* The timed wait is one of a counting semaphore: a call that returns 0 took *)
(* one token, a call that gives up or is interrupted and repeated took none  *)
(* (lines 129-132).                                                          *)
Abstract == INSTANCE Semaphore
              WITH Threads <- Waiters, Initial <- 0, value <- sem,
                   calling <- {w \in Waiters : pc[w] # "idle"}
ImplementsSemaphore == Abstract!Spec

(* A call returns when its timeout has passed and the clock is not set back, *)
(* however often it is interrupted.                                          *)
LateCallsReturn ==
  \A w \in Waiters : (pc[w] # "idle" /\ Elapsed(w)) ~> (pc[w] = "idle" \/ ~Elapsed(w))
=============================================================================
