------------------------- MODULE USemDeadlineProofs -------------------------
(***************************************************************************)
(* The deadline of usem_timed_wait is exact for every clock reading and    *)
(* every timeout, not only for those TLC can represent.                    *)
(***************************************************************************)
EXTENDS USemDeadline, TLAPS

IInv == TypeOK /\ DeadlineExact

-----------------------------------------------------------------------------
(* Arithmetic.  The provers cannot work with an interval as long as the one  *)
(* of Timespecs, so its bound is expanded only where it is compared.         *)

LEMMA Literals ==
  /\ usecs_in_1_sec \in Nat /\ usecs_in_1_sec = 1000000
  /\ nsecs_in_1_sec \in Nat /\ nsecs_in_1_sec = 1000000000
BY SMT DEF usecs_in_1_sec, nsecs_in_1_sec

LEMMA NsecsIsNatural == nsecs_in_1_sec \in Nat
BY Literals

LEMMA TimespecFields ==
  ASSUME NEW r \in Timespecs
  PROVE  r.sec \in Nat /\ r.nsec \in Nat /\ r.nsec < nsecs_in_1_sec
BY SMT, NsecsIsNatural DEF Timespecs

LEMMA FieldsTimespec ==
  ASSUME NEW s \in Nat, NEW n \in Nat, n < nsecs_in_1_sec
  PROVE  [sec |-> s, nsec |-> n] \in Timespecs
BY SMT, NsecsIsNatural DEF Timespecs

(* Dividing a timeout into seconds and microseconds loses nothing.           *)
LEMMA Division ==
  ASSUME NEW n \in Nat
  PROVE  /\ n \div 1000000 \in Nat
         /\ n % 1000000 \in Nat /\ n % 1000000 < 1000000
         /\ n = (n \div 1000000) * 1000000 + (n % 1000000)
BY SMT

(* The nanoseconds before the carry fit a 32-bit long, and one carry is      *)
(* enough.                                                                   *)
LEMMA AddedType ==
  ASSUME NEW r \in Timespecs, NEW usecs \in Nat
  PROVE  /\ Added(r, usecs).sec \in Nat
         /\ Added(r, usecs).nsec \in Nat
         /\ Added(r, usecs).nsec <= 1999998999
         /\ (Added(r, usecs).sec - r.sec) * 1000000000 + (Added(r, usecs).nsec - r.nsec)
              = usecs * 1000
<1> DEFINE s == usecs \div 1000000
           u == usecs % 1000000
<1>1. s \in Nat /\ u \in Nat /\ u < 1000000 /\ usecs = s * 1000000 + u
  BY SMT, Division
<1>2. r.sec \in Nat /\ r.nsec \in Nat /\ r.nsec < 1000000000
  BY SMT, TimespecFields, Literals
<1>3. Added(r, usecs).sec = r.sec + s /\ Added(r, usecs).nsec = r.nsec + u * 1000
  BY SMT DEF Added, usecs_in_1_sec
<1> HIDE DEF s, u
<1>4. QED
  BY SMT, <1>1, <1>2, <1>3

(* The deadline is one that sem_timedwait accepts, exactly usecs later.      *)
LEMMA DeadlineCorrect ==
  ASSUME NEW r \in Timespecs, NEW usecs \in Nat
  PROVE  /\ Deadline(r, usecs) \in Timespecs
         /\ Nanoseconds(r, Deadline(r, usecs)) = usecs * 1000
<1> DEFINE a == Added(r, usecs)
           d == Deadline(r, usecs)
<1>1. /\ a.sec \in Nat /\ a.nsec \in Nat /\ a.nsec <= 1999998999
      /\ (a.sec - r.sec) * 1000000000 + (a.nsec - r.nsec) = usecs * 1000
  BY SMT, AddedType
<1>2. r.sec \in Nat /\ r.nsec \in Nat
  BY SMT, TimespecFields
<1>3. a = [sec |-> a.sec, nsec |-> a.nsec]
  BY SMT DEF Added
<1>4. CASE a.nsec >= 1000000000
  <2>1. d = [sec |-> a.sec + 1, nsec |-> a.nsec - 1000000000]
    BY SMT, <1>4 DEF Deadline, Carried, nsecs_in_1_sec
  <2>2. d.sec = a.sec + 1 /\ d.nsec = a.nsec - 1000000000
    BY SMT, <2>1
  <2> HIDE DEF a
  <2>3. a.sec + 1 \in Nat /\ a.nsec - 1000000000 \in Nat
        /\ a.nsec - 1000000000 < nsecs_in_1_sec
    BY SMT, <1>1, <1>4, Literals
  <2>4. d \in Timespecs
    BY <2>1, <2>3, FieldsTimespec
  <2> HIDE DEF d
  <2>5. (d.sec - r.sec) * 1000000000 + (d.nsec - r.nsec) = usecs * 1000
    BY SMT, <1>1, <1>2, <2>2
  <2>6. Nanoseconds(r, d) = usecs * 1000
    BY SMT, <2>5, Literals DEF Nanoseconds
  <2>7. QED
    BY <2>4, <2>6 DEF d
<1>5. CASE ~(a.nsec >= 1000000000)
  <2>1. d = a
    BY SMT, <1>5 DEF Deadline, nsecs_in_1_sec
  <2>2. d \in Timespecs
    <3>1. a.nsec < nsecs_in_1_sec
      BY SMT, <1>1, <1>5, Literals
    <3>2. QED
      BY <1>1, <1>3, <2>1, <3>1, FieldsTimespec
  <2>3. Nanoseconds(r, a) = usecs * 1000
    <3> HIDE DEF a
    <3>1. QED
      BY SMT, <1>1, Literals DEF Nanoseconds
  <2>4. QED
    BY <2>1, <2>2, <2>3
<1>6. QED
  BY <1>4, <1>5

(* A clock that has reached the deadline shows that the timeout has passed.  *)
LEMMA ReachedIsElapsed ==
  ASSUME NEW e \in Timespecs, NEW d \in Timespecs, NEW n \in Timespecs, AtOrAfter(n, d)
  PROVE  Nanoseconds(e, n) >= Nanoseconds(e, d)
<1>1. /\ e.sec \in Nat /\ d.sec \in Nat /\ n.sec \in Nat
      /\ e.nsec \in Nat /\ d.nsec \in Nat /\ n.nsec \in Nat
      /\ d.nsec < 1000000000
  BY SMT, TimespecFields, Literals
<1>2. n.sec >= d.sec + 1 \/ (n.sec = d.sec /\ n.nsec >= d.nsec)
  BY SMT, <1>1 DEF AtOrAfter
<1>3. QED
  BY SMT, <1>1, <1>2, Literals DEF Nanoseconds

-----------------------------------------------------------------------------
LEMMA InitInvariant == Init => IInv
<1>1. SUFFICES ASSUME Init PROVE IInv
  OBVIOUS
<1>2. now \in Timespecs
  BY <1>1, USemDeadlineAssumption DEF Init
<1>3. TypeOK
  BY <1>1, <1>2, USemDeadlineAssumption DEF Init, TypeOK, UsemInit
<1>4. DeadlineExact
  BY <1>1 DEF Init, DeadlineExact
<1>5. QED
  BY <1>3, <1>4 DEF IInv

LEMMA CallsInvariant ==
  ASSUME IInv, NEW w \in Waiters, Calls(w)
  PROVE  IInv'
<1>1. TypeOK /\ DeadlineExact
  BY DEF IInv
<1>2. PICK usecs \in Timeouts :
        /\ timeout' = [timeout EXCEPT ![w] = usecs]
        /\ ts' = [ts EXCEPT ![w] = Deadline(now, usecs)]
  BY DEF Calls
<1>3. now \in Timespecs /\ usecs \in Nat
  BY <1>1, USemDeadlineAssumption DEF TypeOK
<1>4. /\ Deadline(now, usecs) \in Timespecs
      /\ Nanoseconds(now, Deadline(now, usecs)) = usecs * 1000
  BY <1>3, DeadlineCorrect
<1>5. /\ entry' = [entry EXCEPT ![w] = now]
      /\ pc' = [pc EXCEPT ![w] = "waiting"]
      /\ UNCHANGED <<sem, now, rc>>
  BY DEF Calls
<1>6. TypeOK'
  BY <1>1, <1>2, <1>4, <1>5 DEF TypeOK
<1>7. ASSUME NEW v \in Waiters, pc'[v] # "idle"
      PROVE  Nanoseconds(entry'[v], ts'[v]) = timeout'[v] * 1000
  <2>1. CASE v = w
    <3>1. entry'[v] = now /\ ts'[v] = Deadline(now, usecs) /\ timeout'[v] = usecs
      BY <1>1, <1>2, <1>5, <2>1 DEF TypeOK
    <3>2. QED
      BY <1>4, <3>1
  <2>2. CASE v # w
    <3>1. /\ entry'[v] = entry[v] /\ ts'[v] = ts[v]
          /\ timeout'[v] = timeout[v] /\ pc'[v] = pc[v]
      BY <1>1, <1>2, <1>5, <2>2 DEF TypeOK
    <3>2. QED
      BY <1>1, <1>7, <3>1 DEF DeadlineExact
  <2>3. QED
    BY <2>1, <2>2
<1>8. DeadlineExact'
  BY <1>7 DEF DeadlineExact, Nanoseconds
<1>9. QED
  BY <1>6, <1>8 DEF IInv

(* The other steps leave the deadlines alone and start no call.              *)
LEMMA FrameInvariant ==
  ASSUME IInv, TypeOK', UNCHANGED <<ts, timeout, entry>>,
         \A w \in Waiters : pc[w] = "idle" => pc'[w] = "idle"
  PROVE  IInv'
BY DEF IInv, DeadlineExact, Nanoseconds

LEMMA StepInvariant ==
  ASSUME IInv, [Next]_vars
  PROVE  IInv'
<1>1. TypeOK
  BY DEF IInv
<1>2. CASE Signals
  <2>1. TypeOK'
    BY <1>1, <1>2, USemDeadlineAssumption DEF TypeOK, Signals, UsemSignal
  <2>2. QED
    BY <1>2, <2>1, FrameInvariant DEF Signals
<1>3. CASE ClockMoves
  <2>1. TypeOK'
    BY <1>1, <1>3 DEF TypeOK, ClockMoves
  <2>2. QED
    BY <1>3, <2>1, FrameInvariant DEF ClockMoves
<1>4. ASSUME NEW w \in Waiters, Calls(w)
      PROVE  IInv'
  BY <1>4, CallsInvariant
<1>5. ASSUME NEW w \in Waiters, GetsToken(w)
      PROVE  IInv'
  <2>1. TypeOK'
    BY <1>1, <1>5, USemDeadlineAssumption DEF TypeOK, GetsToken, Returns, UsemWait
  <2>2. QED
    BY <1>1, <1>5, <2>1, FrameInvariant DEF GetsToken, Returns, TypeOK
<1>6. ASSUME NEW w \in Waiters, GivesUp(w)
      PROVE  IInv'
  <2>1. TypeOK'
    BY <1>1, <1>6 DEF TypeOK, GivesUp, Returns, UsemExpire
  <2>2. QED
    BY <1>1, <1>6, <2>1, FrameInvariant DEF GivesUp, Returns, TypeOK
<1>7. ASSUME NEW w \in Waiters, Interrupted(w)
      PROVE  IInv'
  <2>1. TypeOK'
    BY <1>1, <1>7 DEF TypeOK, Interrupted
  <2>2. QED
    BY <1>1, <1>7, <2>1, FrameInvariant DEF Interrupted, TypeOK
<1>8. ASSUME NEW w \in Waiters, Repeats(w)
      PROVE  IInv'
  <2>1. TypeOK'
    BY <1>1, <1>8 DEF TypeOK, Repeats
  <2>2. QED
    BY <1>1, <1>8, <2>1, FrameInvariant DEF Repeats, TypeOK
<1>9. CASE UNCHANGED vars
  BY <1>9 DEF vars, IInv, TypeOK, DeadlineExact, Nanoseconds
<1>10. QED
  BY <1>2, <1>3, <1>4, <1>5, <1>6, <1>7, <1>8, <1>9 DEF Next

(* The inductive invariant holds in every reachable state.                   *)
THEOREM Invariance == Spec => []IInv
<1>1. Init => IInv
  BY InitInvariant
<1>2. IInv /\ [Next]_vars => IInv'
  BY StepInvariant
<1>3. QED
  BY <1>1, <1>2, PTL DEF Spec

(* sem_timedwait is never given more than 999999999 nanoseconds              *)
(* (usem.h:119-126).                                                         *)
THEOREM TypeCorrect == Spec => []TypeOK
<1>1. IInv => TypeOK
  BY DEF IInv
<1>2. QED
  BY <1>1, Invariance, PTL

(* The deadline is exact, however often the call is interrupted              *)
(* (usem.h:116-130).                                                         *)
THEOREM DeadlineAlwaysExact == Spec => []DeadlineExact
<1>1. IInv => DeadlineExact
  BY DEF IInv
<1>2. QED
  BY <1>1, Invariance, PTL

(* No call fails before its timeout has passed by the clock.                 *)
THEOREM NeverEarly == Spec => NotEarly
<1>1. ASSUME IInv, [Next]_vars
      PROVE  [\A w \in Waiters : pc[w] # "idle" /\ pc'[w] = "idle" /\ rc'[w] = -1
                => Elapsed(w)]_vars
  <2>1. SUFFICES ASSUME Next, NEW w \in Waiters,
                        pc[w] # "idle", pc'[w] = "idle", rc'[w] = -1
                 PROVE  Elapsed(w)
    BY <1>1
  <2>2. TypeOK /\ DeadlineExact
    BY <1>1 DEF IInv
  <2>3. GivesUp(w)
    BY <2>1, <2>2 DEF Next, TypeOK, Signals, ClockMoves, Calls, GetsToken, GivesUp,
                      Interrupted, Repeats, Returns
  <2>4. /\ ts[w] \in Timespecs /\ entry[w] \in Timespecs /\ now \in Timespecs
    BY <2>2, USemDeadlineAssumption DEF TypeOK
  <2>5. AtOrAfter(now, ts[w])
    <3>1. ts[w].nsec < nsecs_in_1_sec
      BY <2>4, TimespecFields
    <3>2. QED
      BY <2>3, <3>1 DEF GivesUp
  <2>6. Nanoseconds(entry[w], now) >= Nanoseconds(entry[w], ts[w])
    BY <2>4, <2>5, ReachedIsElapsed
  <2>7. Nanoseconds(entry[w], ts[w]) = timeout[w] * 1000
    BY <2>1, <2>2 DEF DeadlineExact
  <2>8. QED
    BY <2>6, <2>7 DEF Elapsed
<1>2. QED
  BY <1>1, Invariance, PTL DEF Spec, NotEarly

-----------------------------------------------------------------------------
(* The last value of a signed and of an unsigned integer of 64 bits, and of a *)
(* signed one of 32.                                                          *)
Int64Max == 9223372036854775807
UInt64Max == 18446744073709551615
Int32Max == 2147483647

(* A deadline is at most a second past the whole seconds of its timeout.      *)
LEMMA DeadlineSeconds ==
  ASSUME NEW r \in Timespecs, NEW usecs \in Nat
  PROVE  /\ Deadline(r, usecs).sec \in Nat
         /\ Deadline(r, usecs).sec <= r.sec + (usecs \div 1000000) + 1
<1> DEFINE a == Added(r, usecs)
<1>1. a.sec = r.sec + (usecs \div 1000000)
  BY SMT DEF Added, usecs_in_1_sec
<1>2. Deadline(r, usecs).sec \in {a.sec, a.sec + 1}
  BY SMT DEF Deadline, Carried
<1>3. r.sec \in Nat /\ usecs \div 1000000 \in Nat
  BY SMT, TimespecFields, Division
<1> HIDE DEF a
<1>4. QED
  BY SMT, <1>1, <1>2, <1>3

(* The arithmetic does not overflow a time_t that has room for the deadline,  *)
(* nor a tv_nsec of 32 bits; a time_t of 64 bits has room for every timeout,  *)
(* the largest uint64_t included, for the next 10^11 years (usem.h:116-124).  *)
THEOREM DeadlineFits ==
  ASSUME NEW r \in Timespecs, NEW usecs \in Nat
  PROVE  /\ Added(r, usecs).nsec <= Int32Max
         /\ \A max \in Nat :
              r.sec + (usecs \div 1000000) < max => Deadline(r, usecs).sec <= max
         /\ usecs <= UInt64Max /\ r.sec <= Int64Max - 18446744073710
              => Deadline(r, usecs).sec <= Int64Max
<1> DEFINE s == usecs \div 1000000
           d == Deadline(r, usecs)
<1>1. Added(r, usecs).nsec <= Int32Max
  BY SMT, AddedType DEF Int32Max
<1>2. r.sec \in Nat /\ s \in Nat /\ d.sec \in Nat /\ d.sec <= r.sec + s + 1
  BY SMT, DeadlineSeconds, TimespecFields, Division
<1>3. usecs <= UInt64Max => s <= 18446744073709
  BY SMT, Division DEF UInt64Max
<1> HIDE DEF s, d
<1>4. \A max \in Nat : r.sec + s < max => d.sec <= max
  BY SMT, <1>2
<1>5. usecs <= UInt64Max /\ r.sec <= Int64Max - 18446744073710 => d.sec <= Int64Max
  BY SMT, <1>2, <1>3 DEF Int64Max
<1>6. QED
  BY <1>1, <1>4, <1>5 DEF s, d

-----------------------------------------------------------------------------
(* The steps seen from the abstract semaphore.                                *)
InCall == {w \in Waiters : pc[w] # "idle"}

LEMMA ReturnEndsCall ==
  ASSUME TypeOK, NEW w \in Waiters, pc[w] # "idle", NEW r, Returns(w, r)
  PROVE  w \in InCall /\ InCall' = InCall \ {w} /\ rc' = [rc EXCEPT ![w] = r]
BY DEF TypeOK, Returns, InCall

LEMMA StepRefines ==
  ASSUME TypeOK, [Next]_vars
  PROVE  [Abstract!Next]_(Abstract!vars)
<1> USE DEF Abstract!Next, Abstract!vars
<1>sem. sem \in Int
  BY USemDeadlineAssumption DEF TypeOK
<1>1. CASE Signals
  <2>1. sem' > sem /\ InCall' = InCall /\ rc' = rc
    BY <1>sem, <1>1 DEF Signals, UsemSignal, InCall
  <2>2. QED
    BY <2>1 DEF Abstract!Signal, InCall
<1>2. CASE ClockMoves
  BY <1>2 DEF ClockMoves
<1>3. ASSUME NEW w \in Waiters, Calls(w)
      PROVE  Abstract!Next
  <2>1. w \notin InCall /\ InCall' = InCall \cup {w} /\ UNCHANGED <<sem, rc>>
    BY <1>3 DEF Calls, InCall, TypeOK
  <2>2. QED
    BY <2>1 DEF Abstract!Call, InCall
<1>4. ASSUME NEW w \in Waiters, GetsToken(w)
      PROVE  Abstract!Next
  <2>1. sem > 0 /\ sem' = sem - 1 /\ Returns(w, 0) /\ pc[w] # "idle"
    BY <1>4 DEF GetsToken, UsemWait
  <2>2. QED
    BY <2>1, ReturnEndsCall DEF Abstract!Succeed, InCall
<1>5. ASSUME NEW w \in Waiters, GivesUp(w)
      PROVE  Abstract!Next
  <2>1. sem' = sem /\ Returns(w, -1) /\ pc[w] # "idle"
    BY <1>5 DEF GivesUp, UsemExpire
  <2>2. QED
    BY <2>1, ReturnEndsCall DEF Abstract!GiveUp, InCall
<1>6. ASSUME NEW w \in Waiters, Interrupted(w) \/ Repeats(w)
      PROVE  UNCHANGED Abstract!vars
  <2>1. InCall' = InCall /\ UNCHANGED <<sem, rc>>
    BY <1>6 DEF Interrupted, Repeats, InCall, TypeOK
  <2>2. QED
    BY <2>1 DEF InCall
<1>7. CASE UNCHANGED vars
  BY <1>7 DEF vars
<1>8. QED
  BY <1>1, <1>2, <1>3, <1>4, <1>5, <1>6, <1>7 DEF Next

(* A timed wait takes a token if and only if it returns 0, however often it   *)
(* is interrupted and whether or not a token comes at its deadline.           *)
THEOREM SemaphoreImplemented == Spec => ImplementsSemaphore
<1>1. Init => Abstract!Init
  BY DEF Init, UsemInit, Abstract!Init
<1>2. IInv /\ [Next]_vars => [Abstract!Next]_(Abstract!vars)
  BY StepRefines DEF IInv
<1>3. QED
  BY <1>1, <1>2, Invariance, PTL DEF Spec, ImplementsSemaphore, Abstract!Spec
=============================================================================
