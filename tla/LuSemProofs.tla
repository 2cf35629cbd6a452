---------------------------- MODULE LuSemProofs ----------------------------
(***************************************************************************)
(* The light-weight semaphore conserves its tokens and implements a        *)
(* counting semaphore, for any number of threads, initial count, spins and *)
(* signals.                                                                *)
(*                                                                         *)
(* What a step does to the tokens is one of seven effects (Effect).  That  *)
(* every step has one of them is a lemma by cases on the actions; what the *)
(* theorems need follows from the effects alone.                           *)
(***************************************************************************)
EXTENDS LuSem, FiniteSetTheorems, TLAPS

(* A compare-and-exchange is tried on a positive count by those who want a   *)
(* token and on a negative count by those who give up.                       *)
ReadCounts ==
  \A t \in Threads : /\ pc[t] \in {"trycas", "spincas"} => old_count[t] > 0
                     /\ pc[t] = "undo" => old_count[t] < 0

IInv == TypeOK /\ ReadCounts /\ TokensConserved

-----------------------------------------------------------------------------
(* Types *)

(* Where a thread may go, and what a return leaves behind, are well typed.   *)
LEMMA GotoType ==
  ASSUME TypeOK, NEW t \in Threads, NEW l \in PC, Goto(t, l)
  PROVE  /\ pc' \in [Threads -> PC]
         /\ pc'[t] = l
         /\ \A u \in Threads \ {t} : pc'[u] = pc[u]
BY DEF TypeOK, Goto

LEMMA ReturnType ==
  ASSUME TypeOK, NEW t \in Threads, NEW r \in {0, -1}, Return(t, r)
  PROVE  /\ pc' \in [Threads -> PC]
         /\ mode' \in [Threads -> Modes]
         /\ old_count' \in [Threads -> Int]
         /\ spin' \in [Threads -> 0..MaxSpins]
         /\ rc' \in [Threads -> {0, -1}]
         /\ taken' \in Nat
         /\ pc'[t] = "idle"
         /\ \A u \in Threads \ {t} : pc'[u] = pc[u] /\ old_count'[u] = old_count[u]
BY LuSemAssumption, GotoType DEF TypeOK, Return, Goto, PC, Modes

(* What a wait keeps: the posts owed are none of its business. *)
LocalsOK ==
  /\ pc \in [Threads -> PC]
  /\ mode \in [Threads -> Modes]
  /\ old_count \in [Threads -> Int]
  /\ spin \in [Threads -> 0..MaxSpins]
  /\ rc \in [Threads -> {0, -1}]
  /\ taken \in Nat

LEMMA WaitType ==
  ASSUME TypeOK, NEW t \in Threads, pc[t] # "post", NoSignal, LocalsOK',
         sem' \in Nat, m_count' \in Int, pc'[t] # "post",
         \A u \in Threads \ {t} : pc'[u] = pc[u]
  PROVE  TypeOK'
BY DEF TypeOK, LocalsOK, NoSignal

LEMMA SeesType ==
  ASSUME TypeOK, ReadCounts, NEW t \in Threads, pc[t] \in Contending, Sees(t, m_count)
  PROVE  /\ LocalsOK'
         /\ pc'[t] \in {"trycas", "idle", "spin"}
         /\ pc'[t] = "trycas" => old_count'[t] > 0
         /\ \A u \in Threads \ {t} : pc'[u] = pc[u] /\ old_count'[u] = old_count[u]
<1>1. CASE m_count > 0 /\ Goto(t, "trycas") /\ Stay
           /\ old_count' = [old_count EXCEPT ![t] = m_count]
  <2>1. "trycas" \in PC
    BY DEF PC, Contending
  <2>2. QED BY <1>1, <2>1, GotoType DEF TypeOK, LocalsOK, Stay
<1>2. CASE Return(t, -1)
  BY <1>2, ReturnType DEF LocalsOK
<1>3. CASE /\ Goto(t, "spin")
           /\ spin' = [spin EXCEPT ![t] = MaxSpins]
           /\ UNCHANGED <<mode, old_count, rc, taken>>
  <2>1. "spin" \in PC
    BY DEF PC, Contending
  <2>2. QED BY <1>3, <2>1, GotoType, LuSemAssumption DEF TypeOK, LocalsOK
<1>4. QED BY <1>1, <1>2, <1>3 DEF Sees

(* The steps of a wait. *)
WaitStep(t) ==
  \/ Call(t)
  \/ TryReads(t)
  \/ TrySwaps(t)
  \/ SpinReads(t)
  \/ SpinSwaps(t)
  \/ Decrements(t)
  \/ Wakes(t)
  \/ Expires(t)
  \/ AdjustReads(t)
  \/ Retries(t)
  \/ Undoes(t)

LEMMA NextSteps ==
  Next <=> \E t \in Threads : \/ WaitStep(t)
                              \/ Posts(t)
                              \/ \E n \in 1..MaxSignals : Signal(t, n)
BY DEF Next, InCall, WaitStep

(* What a step of a wait makes of the locals of the thread. *)
Keeps(t) ==
  /\ LocalsOK'
  /\ sem' \in Nat
  /\ m_count' \in Int
  /\ pc[t] # "post"
  /\ pc'[t] # "post"
  /\ pc'[t] \in {"trycas", "spincas"} => old_count'[t] > 0
  /\ pc'[t] = "undo" => old_count'[t] < 0
  /\ \A u \in Threads \ {t} : pc'[u] = pc[u] /\ old_count'[u] = old_count[u]
  /\ NoSignal

LEMMA KeepsTypes ==
  ASSUME TypeOK, ReadCounts, NEW t \in Threads, Keeps(t)
  PROVE  TypeOK' /\ ReadCounts'
<1>1. TypeOK'
  BY WaitType DEF Keeps
<1>2. ReadCounts'
  BY DEF ReadCounts, Keeps
<1>3. QED BY <1>1, <1>2

LEMMA WaitKeeps ==
  ASSUME TypeOK, ReadCounts, NEW t \in Threads, WaitStep(t)
  PROVE  Keeps(t)
<1> USE DEF Keeps
<1>labels. {"idle", "try", "trycas", "spin", "spincas", "block", "adjust", "retry", "undo"}
             \subseteq PC
  BY DEF PC, Contending, Counted
<1>ret. ASSUME NEW r \in {0, -1}, Return(t, r)
        PROVE  /\ LocalsOK'
               /\ pc'[t] = "idle"
               /\ \A u \in Threads \ {t} : pc'[u] = pc[u] /\ old_count'[u] = old_count[u]
  BY <1>ret, ReturnType DEF LocalsOK
<1>sta. ASSUME NEW l \in PC, Goto(t, l), Stay, UNCHANGED old_count
        PROVE  /\ LocalsOK'
               /\ pc'[t] = l
               /\ \A u \in Threads \ {t} : pc'[u] = pc[u] /\ old_count'[u] = old_count[u]
  BY <1>sta, GotoType DEF LocalsOK, Stay, TypeOK
<1>1. CASE Call(t)
  <2>1. pc' \in [Threads -> PC] /\ pc'[t] = "try" /\ \A u \in Threads \ {t} : pc'[u] = pc[u]
    BY <1>1, <1>labels, GotoType DEF Call
  <2>2. mode' \in [Threads -> Modes]
    BY <1>1 DEF Call, TypeOK
  <2>3. QED BY <1>1, <2>1, <2>2 DEF Call, TypeOK, LocalsOK
<1>2. CASE TryReads(t)
  BY <1>2, SeesType DEF TryReads, TypeOK, Contending
<1>3. CASE TrySwaps(t)
  <2>1. CASE Return(t, 0) /\ m_count' = m_count - 1
    BY <1>3, <2>1, <1>ret DEF TrySwaps, TypeOK
  <2>2. CASE Sees(t, m_count) /\ UNCHANGED m_count
    BY <1>3, <2>2, SeesType DEF TrySwaps, TypeOK, Contending
  <2>3. QED BY <1>3, <2>1, <2>2 DEF TrySwaps
<1>4. CASE SpinReads(t)
  <2>1. PICK l \in {"spincas", "spin"} : Goto(t, l) /\ (l = "spincas" <=> m_count > 0)
    BY <1>4 DEF SpinReads
  <2>2. pc' \in [Threads -> PC] /\ pc'[t] = l /\ \A u \in Threads \ {t} : pc'[u] = pc[u]
    BY <2>1, <1>labels, GotoType
  <2>3. /\ old_count' \in [Threads -> Int]
        /\ old_count'[t] = m_count
        /\ \A u \in Threads \ {t} : old_count'[u] = old_count[u]
    BY <1>4 DEF SpinReads, TypeOK
  <2>4. spin' \in [Threads -> 0..MaxSpins]
    BY <1>4, LuSemAssumption DEF SpinReads, TypeOK
  <2>5. QED BY <1>4, <2>1, <2>2, <2>3, <2>4 DEF SpinReads, TypeOK, LocalsOK
<1>5. CASE SpinSwaps(t)
  <2>1. CASE Return(t, 0) /\ m_count' = m_count - 1
    BY <1>5, <2>1, <1>ret DEF SpinSwaps, TypeOK
  <2>2. CASE Goto(t, "spin") /\ UNCHANGED <<m_count, old_count>> /\ Stay
    BY <1>5, <2>2, <1>sta, <1>labels DEF SpinSwaps, TypeOK
  <2>3. QED BY <1>5, <2>1, <2>2 DEF SpinSwaps
<1>6. CASE Decrements(t)
  <2>1. CASE Return(t, 0)
    BY <1>6, <2>1, <1>ret DEF Decrements, TypeOK
  <2>2. CASE Goto(t, "block") /\ UNCHANGED old_count /\ Stay
    BY <1>6, <2>2, <1>sta, <1>labels DEF Decrements, TypeOK
  <2>3. QED BY <1>6, <2>1, <2>2 DEF Decrements
<1>7. CASE Wakes(t)
  BY <1>7, <1>ret DEF Wakes, UsemWait, TypeOK
<1>8. CASE Expires(t)
  BY <1>8, <1>sta, <1>labels DEF Expires, UsemExpire, TypeOK
<1>9. CASE AdjustReads(t)
  <2>1. PICK l \in {"retry", "undo"} : Goto(t, l) /\ (l = "undo" <=> m_count < 0)
    BY <1>9 DEF AdjustReads, TypeOK
  <2>2. pc' \in [Threads -> PC] /\ pc'[t] = l /\ \A u \in Threads \ {t} : pc'[u] = pc[u]
    BY <2>1, <1>labels, GotoType
  <2>3. /\ old_count' \in [Threads -> Int]
        /\ old_count'[t] = m_count
        /\ \A u \in Threads \ {t} : old_count'[u] = old_count[u]
    BY <1>9 DEF AdjustReads, TypeOK
  <2>4. QED BY <1>9, <2>1, <2>2, <2>3 DEF AdjustReads, Stay, TypeOK, LocalsOK
<1>10. CASE Retries(t)
  <2>1. CASE UsemWait /\ Return(t, 0)
    BY <1>10, <2>1, <1>ret DEF Retries, UsemWait, TypeOK
  <2>2. CASE UsemTryWaitFails /\ Goto(t, "adjust") /\ UNCHANGED old_count /\ Stay
    BY <1>10, <2>2, <1>sta, <1>labels DEF Retries, UsemTryWaitFails, TypeOK
  <2>3. QED BY <1>10, <2>1, <2>2 DEF Retries
<1>11. CASE Undoes(t)
  <2>1. CASE Return(t, -1) /\ m_count' = m_count + 1
    BY <1>11, <2>1, <1>ret DEF Undoes, TypeOK
  <2>2. CASE Goto(t, "adjust") /\ UNCHANGED <<m_count, old_count>> /\ Stay
    BY <1>11, <2>2, <1>sta, <1>labels DEF Undoes, TypeOK
  <2>3. QED BY <1>11, <2>1, <2>2 DEF Undoes
<1>12. QED BY <1>1, <1>2, <1>3, <1>4, <1>5, <1>6, <1>7, <1>8, <1>9, <1>10, <1>11 DEF WaitStep

(* lusem_signal_count keeps the types: it owes at most what it signals. *)
LEMMA SignalTypes ==
  ASSUME TypeOK, ReadCounts, NEW t \in Threads, NEW n \in 1..MaxSignals, Signal(t, n)
  PROVE  TypeOK' /\ ReadCounts'
<1>0. n \in Nat /\ m_count' \in Int /\ signalled' \in 0..MaxSignals
  BY LuSemAssumption DEF TypeOK, Signal
<1>1. CASE Release(n) > 0
  <2>1. Release(n) \in 1..MaxSignals
    BY <1>0, <1>1, LuSemAssumption DEF Release, TypeOK
  <2>2. "post" \in PC
    BY DEF PC
  <2>3. pc' \in [Threads -> PC] /\ pc'[t] = "post" /\ \A u \in Threads \ {t} : pc'[u] = pc[u]
    BY <1>1, <2>2, GotoType DEF Signal
  <2>4. /\ to_release' \in [Threads -> 0..MaxSignals]
        /\ to_release'[t] > 0
        /\ \A u \in Threads \ {t} : to_release'[u] = to_release[u]
    BY <1>1, <2>1, LuSemAssumption DEF Signal, TypeOK
  <2>5. TypeOK'
    BY <1>0, <2>3, <2>4 DEF Signal, Stay, TypeOK
  <2>6. ReadCounts'
    BY <2>3 DEF ReadCounts, Signal
  <2>7. QED BY <2>5, <2>6
<1>2. CASE ~(Release(n) > 0)
  BY <1>0, <1>2 DEF Signal, Stay, TypeOK, ReadCounts
<1>3. QED BY <1>1, <1>2

LEMMA PostsTypes ==
  ASSUME TypeOK, ReadCounts, NEW t \in Threads, Posts(t)
  PROVE  TypeOK' /\ ReadCounts'
<1>1. to_release[t] \in 1..MaxSignals
  BY LuSemAssumption DEF Posts, TypeOK
<1>2. /\ to_release' \in [Threads -> 0..MaxSignals]
      /\ to_release'[t] = to_release[t] - 1
      /\ \A u \in Threads \ {t} : to_release'[u] = to_release[u]
  BY <1>1, LuSemAssumption DEF Posts, TypeOK
<1>3. PICK l \in {"idle", "post"} : Goto(t, l) /\ (l = "idle" <=> to_release[t] = 1)
  BY DEF Posts
<1>4. pc' \in [Threads -> PC] /\ pc'[t] = l /\ \A u \in Threads \ {t} : pc'[u] = pc[u]
  BY <1>3, GotoType DEF PC
<1>5. \A u \in Threads : pc'[u] = "post" <=> to_release'[u] > 0
  <2>1. pc'[t] = "post" <=> to_release'[t] > 0
    BY <1>1, <1>2, <1>3, <1>4, LuSemAssumption
  <2>2. QED BY <1>2, <1>4, <2>1 DEF TypeOK
<1>6. TypeOK'
  BY <1>2, <1>4, <1>5 DEF Posts, UsemSignal, Stay, TypeOK
<1>7. ReadCounts'
  BY <1>3, <1>4 DEF ReadCounts, Posts
<1>8. QED BY <1>6, <1>7

-----------------------------------------------------------------------------
(* Tokens *)

LEMMA FiniteSets ==
  /\ IsFiniteSet(Waiting)
  /\ Cardinality(Waiting) \in Nat
  /\ Cardinality(Waiting) <= Cardinality(Threads)
<1>1. Waiting \in SUBSET Threads
  BY DEF Waiting
<1>2. QED BY <1>1, LuSemAssumption, FS_Subset, FS_CardinalityType

LEMMA FiniteOwed ==
  /\ IsFiniteSet(Owed)
  /\ Cardinality(Owed) \in Nat
<1>1. IsFiniteSet(1..MaxSignals)
  BY LuSemAssumption, FS_Interval
<1>2. IsFiniteSet(Threads \X (1..MaxSignals))
  BY <1>1, LuSemAssumption, FS_Product
<1>3. Owed \in SUBSET (Threads \X (1..MaxSignals))
  BY DEF Owed
<1>4. IsFiniteSet(Owed)
  BY <1>2, <1>3, FS_Subset
<1>5. QED BY <1>4, FS_CardinalityType

(* The effect of a step of a wait on the tokens: none; a token taken from a  *)
(* positive count; a waiter more; a token taken from the usem; a waiter less *)
(* that nobody has signalled.                                                *)
WaitEffect(t) ==
  /\ UNCHANGED <<to_release, signalled>>
  /\ \/ /\ UNCHANGED <<sem, m_count, taken>>
        /\ Waiting' = Waiting
     \/ /\ m_count > 0
        /\ m_count' = m_count - 1
        /\ taken' = taken + 1
        /\ UNCHANGED sem
        /\ Waiting' = Waiting
     \/ /\ m_count <= 0
        /\ m_count' = m_count - 1
        /\ UNCHANGED <<sem, taken>>
        /\ t \notin Waiting
        /\ Waiting' = Waiting \cup {t}
     \/ /\ sem > 0
        /\ sem' = sem - 1
        /\ taken' = taken + 1
        /\ UNCHANGED m_count
        /\ t \in Waiting
        /\ Waiting' = Waiting \ {t}
     \/ /\ m_count < 0
        /\ m_count' = m_count + 1
        /\ UNCHANGED <<sem, taken>>
        /\ t \in Waiting
        /\ Waiting' = Waiting \ {t}

LEMMA WaitHasEffect ==
  ASSUME TypeOK, ReadCounts, NEW t \in Threads, WaitStep(t)
  PROVE  WaitEffect(t)
<1>1. Keeps(t)
  BY WaitKeeps
<1>2. /\ UNCHANGED <<to_release, signalled>>
      /\ \A u \in Threads \ {t} : pc'[u] = pc[u]
  BY <1>1 DEF Keeps, NoSignal
<1>3. pc'[t] \in Counted => Waiting' = Waiting \cup {t}
  BY <1>2 DEF Waiting
<1>4. pc'[t] \notin Counted => Waiting' = Waiting \ {t}
  BY <1>2 DEF Waiting
<1>5. t \in Waiting <=> pc[t] \in Counted
  BY DEF Waiting
<1>goto. ASSUME NEW l, Goto(t, l)
         PROVE  pc'[t] = l
  BY <1>goto DEF Goto, TypeOK
<1>ret. ASSUME NEW r, Return(t, r)
        PROVE  pc'[t] = "idle" /\ taken' = IF r = 0 THEN taken + 1 ELSE taken
  BY <1>ret, <1>goto DEF Return
<1> USE <1>2, <1>3, <1>4, <1>5, <1>goto, <1>ret DEF WaitEffect, Counted
<1>sees. ASSUME pc[t] \in Contending, Sees(t, m_count)
         PROVE  UNCHANGED taken /\ pc'[t] \notin Counted
  BY <1>sees DEF Sees, Stay
<1>10. CASE Call(t)
  BY <1>10 DEF Call
<1>11. CASE TryReads(t)
  BY <1>11, <1>sees DEF TryReads, Contending
<1>12. CASE TrySwaps(t)
  <2>1. CASE m_count = old_count[t] /\ m_count' = m_count - 1 /\ Return(t, 0)
    BY <1>12, <2>1 DEF TrySwaps, ReadCounts
  <2>2. CASE Sees(t, m_count) /\ UNCHANGED m_count
    BY <1>12, <2>2, <1>sees DEF TrySwaps, Contending
  <2>3. QED BY <1>12, <2>1, <2>2 DEF TrySwaps
<1>13. CASE SpinReads(t)
  BY <1>13 DEF SpinReads
<1>14. CASE SpinSwaps(t)
  BY <1>14 DEF SpinSwaps, ReadCounts, Stay
<1>15. CASE Decrements(t)
  BY <1>15 DEF Decrements, Stay
<1>16. CASE Wakes(t)
  BY <1>16 DEF Wakes, UsemWait
<1>17. CASE Expires(t)
  BY <1>17 DEF Expires, UsemExpire, Stay
<1>18. CASE AdjustReads(t)
  BY <1>18 DEF AdjustReads, Stay
<1>19. CASE Retries(t)
  BY <1>19 DEF Retries, UsemWait, UsemTryWaitFails, Stay
<1>20. CASE Undoes(t)
  BY <1>20 DEF Undoes, ReadCounts, Stay
<1>21. QED
  BY <1>10, <1>11, <1>12, <1>13, <1>14, <1>15, <1>16, <1>17, <1>18, <1>19, <1>20 DEF WaitStep

(* Whatever the effect, the tokens are conserved. *)
LEMMA WaitConserves ==
  ASSUME TypeOK, TokensConserved, NEW t \in Threads, WaitEffect(t)
  PROVE  TokensConserved'
<1>1. Owed' = Owed
  BY DEF Owed, WaitEffect
<1>2. /\ Cardinality(Waiting \cup {t}) =
           IF t \in Waiting THEN Cardinality(Waiting) ELSE Cardinality(Waiting) + 1
      /\ Cardinality(Waiting \ {t}) =
           IF t \in Waiting THEN Cardinality(Waiting) - 1 ELSE Cardinality(Waiting)
  BY FiniteSets, FS_AddElement, FS_RemoveElement
<1>3. /\ sem \in Nat /\ m_count \in Int /\ signalled \in Nat /\ taken \in Nat
      /\ InitialCount \in Nat /\ Cardinality(Waiting) \in Nat
  BY LuSemAssumption, FiniteSets DEF TypeOK
<1> DEFINE W == Cardinality(Waiting)
           O == Cardinality(Owed)
<1>4. /\ m_count = InitialCount + signalled - taken - W
      /\ sem + O = InitialCount + W + (IF m_count < 0 THEN m_count ELSE 0)
  BY DEF TokensConserved
<1>5. O' = O
  BY <1>1
<1>6. /\ signalled' = signalled
      /\ \/ sem' = sem /\ m_count' = m_count /\ taken' = taken /\ W' = W
         \/ m_count > 0 /\ sem' = sem /\ m_count' = m_count - 1 /\ taken' = taken + 1 /\ W' = W
         \/ m_count <= 0 /\ sem' = sem /\ m_count' = m_count - 1 /\ taken' = taken /\ W' = W + 1
         \/ sem' = sem - 1 /\ m_count' = m_count /\ taken' = taken + 1 /\ W' = W - 1
         \/ m_count < 0 /\ sem' = sem /\ m_count' = m_count + 1 /\ taken' = taken /\ W' = W - 1
  BY <1>2 DEF WaitEffect
<1>7. TokensConserved' <=>
        /\ m_count' = InitialCount + signalled' - taken' - W'
        /\ sem' + O' = InitialCount + W' + (IF m_count' < 0 THEN m_count' ELSE 0)
  BY DEF TokensConserved
<1>8. W \in Nat
  BY <1>3
<1>9. O \in Int
  BY FiniteOwed
<1> HIDE DEF W, O
<1>10. QED BY <1>3, <1>4, <1>5, <1>6, <1>7, <1>8, <1>9

(* A signal gives the posts it owes to the waiters it finds unserved. *)
LEMMA SignalConserves ==
  ASSUME TypeOK, TokensConserved, NEW t \in Threads, NEW n \in 1..MaxSignals, Signal(t, n)
  PROVE  TokensConserved'
<1> DEFINE W == Cardinality(Waiting)
           O == Cardinality(Owed)
           k == Release(n)
<1>1. /\ sem \in Nat /\ m_count \in Int /\ signalled \in Nat /\ taken \in Nat
      /\ InitialCount \in Nat /\ n \in Nat /\ n > 0 /\ W \in Nat /\ O \in Nat
      /\ MaxSignals \in Nat
  BY LuSemAssumption, FiniteSets, FiniteOwed DEF TypeOK
<1>2. /\ m_count = InitialCount + signalled - taken - W
      /\ sem + O = InitialCount + W + (IF m_count < 0 THEN m_count ELSE 0)
  BY DEF TokensConserved
<1>3. pc'[t] \notin Counted /\ Waiting' = Waiting
  BY DEF Signal, Goto, TypeOK, Waiting, Counted
<1>4. W' = W
  BY <1>3
<1>5. sem' = sem /\ taken' = taken /\ signalled' = signalled + n /\ m_count' = m_count + n
  BY DEF Signal, Stay
<1>6. k = IF -m_count < n THEN -m_count ELSE n
  BY DEF Release
<1>7. O' = O + (IF k > 0 THEN k ELSE 0)
  <2>1. CASE k > 0
    <3>1. k \in 1..MaxSignals
      BY <1>1, <1>6, <2>1
    <3>2. to_release[t] = 0
      BY <1>1 DEF Signal, TypeOK
    <3>3. to_release' = [to_release EXCEPT ![t] = k]
      BY <2>1 DEF Signal
    <3>4. Owed' = Owed \cup ({t} \X (1..k)) /\ Owed \cap ({t} \X (1..k)) = {}
      <4>1. /\ to_release'[t] = k
            /\ \A u \in Threads \ {t} : to_release'[u] = to_release[u]
        BY <3>3 DEF TypeOK
      <4>2. \A x \in Threads \X (1..MaxSignals) :
              x \in Owed' <=> x \in Owed \/ x \in {t} \X (1..k)
        <5>1. TAKE x \in Threads \X (1..MaxSignals)
        <5>2. x[1] \in Threads /\ x[2] \in 1..MaxSignals /\ x = <<x[1], x[2]>>
          OBVIOUS
        <5>3. x \in Owed <=> x[2] <= to_release[x[1]]
          BY DEF Owed
        <5>4. x \in Owed' <=> x[2] <= to_release'[x[1]]
          BY DEF Owed
        <5>5. x \in {t} \X (1..k) <=> x[1] = t /\ x[2] <= k
          BY <5>2, <3>1, <1>1
        <5>6. CASE x[1] = t
          BY <5>2, <5>3, <5>4, <5>5, <5>6, <4>1, <3>2, <3>1, <1>1
        <5>7. CASE x[1] # t
          BY <5>2, <5>3, <5>4, <5>5, <5>7, <4>1
        <5>8. QED BY <5>6, <5>7
      <4>3. \A x \in {t} \X (1..k) : x \in Threads \X (1..MaxSignals)
        BY <3>1, <1>1
      <4>4. Owed \subseteq Threads \X (1..MaxSignals) /\ Owed' \subseteq Threads \X (1..MaxSignals)
        BY DEF Owed
      <4>5. Owed \cap ({t} \X (1..k)) = {}
        BY <3>1, <3>2, <1>1 DEF Owed
      <4>6. QED BY <4>2, <4>3, <4>4, <4>5
    <3>5. IsFiniteSet({t} \X (1..k)) /\ Cardinality({t} \X (1..k)) = k
      <4>1. IsFiniteSet(1..k) /\ Cardinality(1..k) = k
        BY <3>1, <1>1, FS_Interval
      <4>2. IsFiniteSet({t}) /\ Cardinality({t}) = 1
        BY FS_Singleton
      <4>3. /\ IsFiniteSet({t} \X (1..k))
            /\ Cardinality({t} \X (1..k)) = Cardinality({t}) * Cardinality(1..k)
        BY <4>1, <4>2, FS_Product
      <4>4. QED BY <4>1, <4>2, <4>3, <3>1
    <3>6. O' = O + k - Cardinality({})
      <4>1. Cardinality(Owed \cup ({t} \X (1..k)))
              = O + k - Cardinality(Owed \cap ({t} \X (1..k)))
        BY <3>5, FiniteOwed, FS_Union
      <4>2. QED BY <4>1, <3>4
    <3>7. QED BY <3>6, <2>1, <3>1, <1>1, FS_EmptySet
  <2>2. CASE ~(k > 0)
    <3>1. Owed' = Owed
      BY <2>2 DEF Signal, Owed
    <3>2. QED BY <2>2, <3>1, <1>1
  <2>3. QED BY <2>1, <2>2
<1>8. TokensConserved' <=>
        /\ m_count' = InitialCount + signalled' - taken' - W'
        /\ sem' + O' = InitialCount + W' + (IF m_count' < 0 THEN m_count' ELSE 0)
  BY DEF TokensConserved
<1> HIDE DEF W, O, k
<1>9. QED BY <1>1, <1>2, <1>4, <1>5, <1>6, <1>7, <1>8

(* A post turns one that is owed into a token of the usem. *)
LEMMA PostsConserves ==
  ASSUME TypeOK, TokensConserved, NEW t \in Threads, Posts(t)
  PROVE  TokensConserved'
<1> DEFINE W == Cardinality(Waiting)
           O == Cardinality(Owed)
           last == <<t, to_release[t]>>
<1>1. /\ sem \in Nat /\ m_count \in Int /\ W \in Nat /\ O \in Nat /\ InitialCount \in Nat
      /\ MaxSignals \in Nat /\ to_release[t] \in 1..MaxSignals
  BY LuSemAssumption, FiniteSets, FiniteOwed DEF TypeOK, Posts
<1>2. /\ m_count = InitialCount + signalled - taken - W
      /\ sem + O = InitialCount + W + (IF m_count < 0 THEN m_count ELSE 0)
  BY DEF TokensConserved
<1>3. Waiting' = Waiting
  BY DEF Posts, Goto, TypeOK, Waiting, Counted
<1>4. W' = W
  BY <1>3
<1>5. sem' = sem + 1 /\ UNCHANGED <<m_count, taken, signalled>>
  BY DEF Posts, UsemSignal, Stay
<1>6. Owed' = Owed \ {last} /\ last \in Owed
  <2>1. /\ to_release'[t] = to_release[t] - 1
        /\ \A u \in Threads \ {t} : to_release'[u] = to_release[u]
    BY DEF Posts, TypeOK
  <2>2. \A x \in Threads \X (1..MaxSignals) : x \in Owed' <=> x \in Owed /\ x # last
    <3>1. TAKE x \in Threads \X (1..MaxSignals)
    <3>2. x[1] \in Threads /\ x[2] \in 1..MaxSignals /\ x = <<x[1], x[2]>>
      OBVIOUS
    <3>3. x \in Owed <=> x[2] <= to_release[x[1]]
      BY DEF Owed
    <3>4. x \in Owed' <=> x[2] <= to_release'[x[1]]
      BY DEF Owed
    <3>5. x = last <=> x[1] = t /\ x[2] = to_release[t]
      BY <3>2
    <3>6. CASE x[1] = t
      BY <3>2, <3>3, <3>4, <3>5, <3>6, <2>1, <1>1
    <3>7. CASE x[1] # t
      BY <3>2, <3>3, <3>4, <3>5, <3>7, <2>1
    <3>8. QED BY <3>6, <3>7
  <2>3. Owed \subseteq Threads \X (1..MaxSignals) /\ Owed' \subseteq Threads \X (1..MaxSignals)
    BY DEF Owed
  <2>4. last \in Owed
    BY <1>1 DEF Owed
  <2>5. QED BY <2>2, <2>3, <2>4
<1>7. O' = O - 1
  BY <1>6, FiniteOwed, FS_RemoveElement
<1>8. TokensConserved' <=>
        /\ m_count' = InitialCount + signalled' - taken' - W'
        /\ sem' + O' = InitialCount + W' + (IF m_count' < 0 THEN m_count' ELSE 0)
  BY DEF TokensConserved
<1> HIDE DEF W, O
<1>9. QED BY <1>1, <1>2, <1>4, <1>5, <1>7, <1>8

-----------------------------------------------------------------------------
(* The invariant *)

LEMMA InitIInv == Init => IInv
<1> SUFFICES ASSUME Init PROVE IInv
  OBVIOUS
<1>1. TypeOK
  BY LuSemAssumption DEF Init, UsemInit, TypeOK, PC, Modes
<1>2. ReadCounts
  BY DEF Init, ReadCounts
<1>3. Waiting = {} /\ Owed = {}
  BY LuSemAssumption DEF Init, Waiting, Counted, Owed
<1>4. Cardinality(Waiting) = 0 /\ Cardinality(Owed) = 0
  BY <1>3, FS_EmptySet
<1>5. TokensConserved
  BY <1>4, LuSemAssumption DEF Init, UsemInit, TokensConserved
<1>6. QED BY <1>1, <1>2, <1>5 DEF IInv

LEMMA NextIInv == IInv /\ [Next]_vars => IInv'
<1> SUFFICES ASSUME IInv, [Next]_vars PROVE IInv'
  OBVIOUS
<1> USE DEF IInv
<1>1. ASSUME NEW t \in Threads, WaitStep(t)
      PROVE  IInv'
  BY <1>1, WaitKeeps, KeepsTypes, WaitHasEffect, WaitConserves
<1>2. ASSUME NEW t \in Threads, Posts(t)
      PROVE  IInv'
  BY <1>2, PostsTypes, PostsConserves
<1>3. ASSUME NEW t \in Threads, NEW n \in 1..MaxSignals, Signal(t, n)
      PROVE  IInv'
  BY <1>3, SignalTypes, SignalConserves
<1>4. CASE UNCHANGED vars
  <2>1. Waiting' = Waiting /\ Owed' = Owed
    BY <1>4 DEF vars, Waiting, Owed
  <2>2. TokensConserved'
    BY <1>4, <2>1 DEF vars, TokensConserved
  <2>3. QED BY <1>4, <2>2 DEF vars, TypeOK, ReadCounts
<1>5. QED BY <1>1, <1>2, <1>3, <1>4, NextSteps

(* The locals keep their types, a compare-and-exchange of a wait is tried on *)
(* a positive count and that of a thread that gives up on a negative one,    *)
(* and the tokens are conserved (lusem.c:3-39, lusem.h:31-59).               *)
THEOREM Invariance == Spec => []IInv
<1>1. QED BY InitIInv, NextIInv, PTL DEF Spec

(* Every variable keeps its type; a thread owes posts exactly while it is    *)
(* between the halves of lusem_signal_count (lusem.h:45-52).                 *)
THEOREM TypeCorrect == Spec => []TypeOK
<1>1. IInv => TypeOK
  BY DEF IInv
<1>2. QED BY <1>1, Invariance, PTL

(* No token is lost or made between m_count and the usem by any interleaving *)
(* of waits, deadlines and signals (lusem.h:31-59, lusem.c:3-39).            *)
THEOREM TokensAlwaysConserved == Spec => []TokensConserved
<1>1. IInv => TokensConserved
  BY DEF IInv
<1>2. QED BY <1>1, Invariance, PTL

(* A usem that can hold lusem_init's count and one token for each thread is  *)
(* never full when a signal posts to it (usem.h:133-141).                    *)
THEOREM PostsAlwaysSucceed == Spec => []PostsSucceed
<1>1. ASSUME IInv, NEW t \in Threads, pc[t] = "post"
      PROVE  sem < SemValueMax
  <2> USE <1>1
  <2> DEFINE W == Cardinality(Waiting)
             O == Cardinality(Owed)
             N == Cardinality(Threads)
  <2>1. <<t, 1>> \in Owed
    BY LuSemAssumption DEF IInv, TypeOK, Owed
  <2>2. O \in Nat /\ O # 0
    BY <2>1, FiniteOwed, FS_EmptySet
  <2>3. W \in Nat /\ W <= N /\ N \in Nat
    BY FiniteSets, LuSemAssumption, FS_CardinalityType
  <2>4. /\ sem \in Nat /\ m_count \in Int /\ InitialCount \in Nat
        /\ SemValueMax \in Nat /\ SemValueMax >= InitialCount + N
    BY LuSemAssumption DEF IInv, TypeOK
  <2>5. sem + O = InitialCount + W + (IF m_count < 0 THEN m_count ELSE 0)
    BY DEF IInv, TokensConserved
  <2> HIDE DEF W, O, N
  <2>6. QED BY <2>2, <2>3, <2>4, <2>5
<1>2. IInv => PostsSucceed
  BY <1>1 DEF PostsSucceed
<1>3. QED BY <1>2, Invariance, PTL

-----------------------------------------------------------------------------
(* Refinement *)

(* The effect of a step of a wait on the abstract semaphore: a call begins,  *)
(* nothing, or a call returns.                                               *)
CallEffect(t) ==
  /\ UNCHANGED signalled
  /\ \/ /\ t \notin Calling
        /\ Calling' = Calling \cup {t}
        /\ UNCHANGED <<rc, taken>>
     \/ UNCHANGED <<Calling, rc, taken>>
     \/ /\ t \in Calling
        /\ Calling' = Calling \ {t}
        /\ \E r \in {0, -1} : /\ rc' = [rc EXCEPT ![t] = r]
                              /\ taken' = IF r = 0 THEN taken + 1 ELSE taken

LEMMA WaitHasCallEffect ==
  ASSUME TypeOK, ReadCounts, NEW t \in Threads, WaitStep(t)
  PROVE  CallEffect(t)
<1>1. Keeps(t)
  BY WaitKeeps
<1>2. UNCHANGED signalled /\ \A u \in Threads \ {t} : pc'[u] = pc[u]
  BY <1>1 DEF Keeps, NoSignal
<1>3. pc'[t] \in Contending \cup Counted => Calling' = Calling \cup {t}
  BY <1>2 DEF Calling
<1>4. pc'[t] \notin Contending \cup Counted => Calling' = Calling \ {t}
  BY <1>2 DEF Calling
<1>5. t \in Calling <=> pc[t] \in Contending \cup Counted
  BY DEF Calling
<1>goto. ASSUME NEW l, Goto(t, l)
         PROVE  pc'[t] = l
  BY <1>goto DEF Goto, TypeOK
<1>ret. ASSUME NEW r \in {0, -1}, Return(t, r), pc[t] \in Contending \cup Counted
        PROVE  CallEffect(t)
  <2>1. pc'[t] = "idle"
    BY <1>ret, <1>goto DEF Return
  <2>2. Calling' = Calling \ {t} /\ t \in Calling
    BY <2>1, <1>ret, <1>4, <1>5 DEF Contending, Counted
  <2>3. QED BY <2>2, <1>2, <1>ret DEF Return, CallEffect
<1>in. ASSUME pc[t] \in Contending \cup Counted, pc'[t] \in Contending \cup Counted,
              UNCHANGED <<rc, taken>>
       PROVE  CallEffect(t)
  <2>1. Calling' = Calling
    BY <1>in, <1>3, <1>5
  <2>2. QED BY <2>1, <1>in, <1>2 DEF CallEffect
<1>labels. /\ {"try", "trycas", "spin", "spincas"} \subseteq Contending \cup Counted
           /\ {"block", "adjust", "retry", "undo"} \subseteq Contending \cup Counted
  BY DEF Contending, Counted
<1>sees. ASSUME Sees(t, m_count), pc[t] \in Contending \cup Counted
         PROVE  CallEffect(t)
  <2>1. CASE Return(t, -1)
    BY <2>1, <1>sees, <1>ret
  <2>2. CASE Goto(t, "trycas") /\ Stay
    BY <2>2, <1>sees, <1>in, <1>goto, <1>labels DEF Stay
  <2>3. CASE Goto(t, "spin") /\ UNCHANGED <<rc, taken>>
    BY <2>3, <1>sees, <1>in, <1>goto, <1>labels
  <2>4. QED BY <1>sees, <2>1, <2>2, <2>3 DEF Sees
<1>10. CASE Call(t)
  <2>1. pc'[t] = "try" /\ pc[t] = "idle" /\ UNCHANGED <<rc, taken>>
    BY <1>10, <1>goto DEF Call
  <2>2. t \notin Calling /\ Calling' = Calling \cup {t}
    BY <2>1, <1>3, <1>5, <1>labels DEF Contending, Counted
  <2>3. QED BY <2>1, <2>2, <1>2 DEF CallEffect
<1>11. CASE TryReads(t)
  BY <1>11, <1>sees, <1>labels DEF TryReads
<1>12. CASE TrySwaps(t)
  BY <1>12, <1>sees, <1>ret, <1>labels DEF TrySwaps
<1>13. CASE SpinReads(t)
  BY <1>13, <1>in, <1>goto, <1>labels DEF SpinReads
<1>14. CASE SpinSwaps(t)
  BY <1>14, <1>in, <1>ret, <1>goto, <1>labels DEF SpinSwaps, Stay
<1>15. CASE Decrements(t)
  BY <1>15, <1>in, <1>ret, <1>goto, <1>labels DEF Decrements, Stay
<1>16. CASE Wakes(t)
  BY <1>16, <1>ret, <1>labels DEF Wakes
<1>17. CASE Expires(t)
  BY <1>17, <1>in, <1>goto, <1>labels DEF Expires, Stay
<1>18. CASE AdjustReads(t)
  BY <1>18, <1>in, <1>goto, <1>labels DEF AdjustReads, Stay
<1>19. CASE Retries(t)
  BY <1>19, <1>in, <1>ret, <1>goto, <1>labels DEF Retries, Stay
<1>20. CASE Undoes(t)
  BY <1>20, <1>in, <1>ret, <1>goto, <1>labels DEF Undoes, Stay
<1>21. QED
  BY <1>10, <1>11, <1>12, <1>13, <1>14, <1>15, <1>16, <1>17, <1>18, <1>19, <1>20 DEF WaitStep

(* The tokens of the abstract semaphore are those in the two counters. *)
LEMMA TokensLeft ==
  ASSUME TypeOK, TokensConserved
  PROVE  /\ Tokens \in Nat
         /\ Tokens = sem + Cardinality(Owed) + (IF m_count > 0 THEN m_count ELSE 0)
<1> DEFINE W == Cardinality(Waiting)
           O == Cardinality(Owed)
<1>1. /\ sem \in Nat /\ m_count \in Int /\ signalled \in Nat /\ taken \in Nat
      /\ W \in Nat /\ O \in Nat /\ InitialCount \in Nat
  BY LuSemAssumption, FiniteSets, FiniteOwed DEF TypeOK
<1>2. /\ m_count = InitialCount + signalled - taken - W
      /\ sem + O = InitialCount + W + (IF m_count < 0 THEN m_count ELSE 0)
  BY DEF TokensConserved
<1>3. Tokens = 2 * InitialCount + signalled - taken
  BY DEF Tokens
<1> HIDE DEF W, O
<1>4. Tokens = sem + O + (IF m_count > 0 THEN m_count ELSE 0)
  BY <1>1, <1>2, <1>3
<1>5. Tokens \in Nat
  BY <1>1, <1>4
<1>6. QED BY <1>4, <1>5 DEF O

LEMMA InitRefines == Init => Abstract!Init
<1> SUFFICES ASSUME Init PROVE Abstract!Init
  OBVIOUS
<1>1. Tokens = 2 * InitialCount
  BY LuSemAssumption DEF Init, Tokens
<1>2. Calling = {}
  BY DEF Init, Calling, Contending, Counted
<1>3. QED BY <1>1, <1>2 DEF Init, Abstract!Init

LEMMA StepRefines == IInv /\ [Next]_vars => [Abstract!Next]_(Abstract!vars)
<1> SUFFICES ASSUME IInv, [Next]_vars PROVE [Abstract!Next]_(Abstract!vars)
  OBVIOUS
<1>0. /\ InitialCount \in Nat /\ signalled \in Nat /\ taken \in Nat
      /\ Tokens = 2 * InitialCount + signalled - taken
      /\ Tokens' = 2 * InitialCount + signalled' - taken'
  BY LuSemAssumption DEF IInv, TypeOK, Tokens
<1>1. ASSUME NEW t \in Threads, WaitStep(t)
      PROVE  [Abstract!Next]_(Abstract!vars)
  <2>1. CallEffect(t) /\ WaitEffect(t)
    BY <1>1, WaitHasCallEffect, WaitHasEffect DEF IInv
  <2>2. CASE t \notin Calling /\ Calling' = Calling \cup {t} /\ UNCHANGED <<rc, taken>>
    <3>1. Tokens' = Tokens
      BY <1>0, <2>1, <2>2 DEF CallEffect
    <3>2. Abstract!Call(t)
      BY <2>2, <3>1 DEF Abstract!Call
    <3>3. QED BY <3>2 DEF Abstract!Next
  <2>3. CASE UNCHANGED <<Calling, rc, taken>>
    BY <1>0, <2>1, <2>3 DEF CallEffect, Abstract!vars
  <2>4. ASSUME NEW r \in {0, -1}, t \in Calling, Calling' = Calling \ {t},
               rc' = [rc EXCEPT ![t] = r],
               taken' = IF r = 0 THEN taken + 1 ELSE taken
        PROVE  Abstract!Next
    <3>1. CASE r = 0
      <4>1. m_count > 0 \/ sem > 0
        BY <1>0, <2>1, <2>4, <3>1 DEF WaitEffect
      <4>2. Tokens > 0
        BY <4>1, TokensLeft, FiniteOwed DEF IInv, TypeOK
      <4>3. Tokens' = Tokens - 1
        BY <1>0, <2>1, <2>4, <3>1 DEF CallEffect
      <4>4. Abstract!Succeed(t)
        BY <4>2, <4>3, <2>4, <3>1 DEF Abstract!Succeed
      <4>5. QED BY <4>4 DEF Abstract!Next
    <3>2. CASE r = -1
      <4>1. Tokens' = Tokens
        BY <1>0, <2>1, <2>4, <3>2 DEF CallEffect
      <4>2. Abstract!GiveUp(t)
        BY <4>1, <2>4, <3>2 DEF Abstract!GiveUp
      <4>3. QED BY <4>2 DEF Abstract!Next
    <3>3. QED BY <3>1, <3>2
  <2>5. QED BY <2>1, <2>2, <2>3, <2>4 DEF CallEffect
<1>out. ASSUME NEW t \in Threads, NEW l \in {"idle", "post"},
               pc[t] \in {"idle", "post"}, Goto(t, l) \/ UNCHANGED pc
        PROVE  Calling' = Calling
  BY <1>out DEF Goto, Calling, Contending, Counted, IInv, TypeOK
<1>2. ASSUME NEW t \in Threads, Posts(t)
      PROVE  UNCHANGED Abstract!vars
  <2>1. PICK l \in {"idle", "post"} : Goto(t, l)
    BY <1>2 DEF Posts
  <2>2. Calling' = Calling
    BY <2>1, <1>2, <1>out DEF Posts
  <2>3. QED BY <1>0, <1>2, <2>2 DEF Posts, Stay, Abstract!vars
<1>3. ASSUME NEW t \in Threads, NEW n \in 1..MaxSignals, Signal(t, n)
      PROVE  Abstract!Next
  <2>1. Goto(t, "post") \/ UNCHANGED pc
    BY <1>3 DEF Signal
  <2>2. Calling' = Calling
    BY <2>1, <1>3, <1>out DEF Signal
  <2>3. Tokens' > Tokens
    BY <1>0, <1>3 DEF Signal, Stay
  <2>4. Abstract!Signal
    BY <1>3, <2>2, <2>3 DEF Signal, Stay, Abstract!Signal
  <2>5. QED BY <2>4 DEF Abstract!Next
<1>4. CASE UNCHANGED vars
  BY <1>4, <1>0 DEF vars, Calling, Abstract!vars
<1>5. QED BY <1>1, <1>2, <1>3, <1>4, NextSteps

(* A wait returns 0 only by taking a token, one that returns -1 takes none,  *)
(* and signals are the only other source of tokens: the light-weight         *)
(* semaphore implements a counting semaphore whose initial count is twice    *)
(* that of lusem_init (lusem.h:21-59, lusem.c:3-53).                         *)
THEOREM SemaphoreImplemented == Spec => ImplementsSemaphore
<1>1. QED
  BY Invariance, InitRefines, StepRefines, PTL DEF Spec, ImplementsSemaphore, Abstract!Spec

-----------------------------------------------------------------------------
(* The tokens a waiter on the usem finds there, now or when the threads in    *)
(* lusem_signal_count have posted.                                            *)
Posted == sem + Cardinality(Owed)

(* Who waits on the usem does not wait beside a token: with m_count at or     *)
(* above 0 there is a token in the usem, or on its way, for each waiter, and  *)
(* with m_count below 0 all the tokens there are are in the usem or on their  *)
(* way.  So a thread that blocks is kept there by a lack of tokens only, and  *)
(* one whose deadline has passed can get a token or restore the count, in     *)
(* whichever state it looks (lusem.h:45-52, lusem.c:26-38).                   *)
WaitersServed ==
  /\ m_count >= 0 => Posted >= Cardinality(Waiting)
  /\ m_count < 0 => Posted = Tokens
  /\ \A t \in Threads : pc[t] = "block" /\ Tokens > 0 => Posted > 0
  /\ \A t \in Threads : pc[t] \in {"adjust", "retry", "undo"} => Posted > 0 \/ m_count < 0

THEOREM WaitersAlwaysServed == Spec => []WaitersServed
<1>1. ASSUME IInv
      PROVE  WaitersServed
  <2> DEFINE W == Cardinality(Waiting)
             O == Cardinality(Owed)
  <2>1. /\ sem \in Nat /\ m_count \in Int /\ InitialCount \in Nat
        /\ W \in Nat /\ O \in Nat
    BY <1>1, LuSemAssumption, FiniteSets, FiniteOwed DEF IInv, TypeOK
  <2>2. sem + O = InitialCount + W + (IF m_count < 0 THEN m_count ELSE 0)
    BY <1>1 DEF IInv, TokensConserved
  <2>3. Tokens \in Nat /\ Tokens = sem + O + (IF m_count > 0 THEN m_count ELSE 0)
    BY <1>1, TokensLeft DEF IInv
  <2>4. ASSUME NEW t \in Threads, pc[t] \in Counted
        PROVE  W # 0
    <3>1. t \in Waiting
      BY <2>4 DEF Waiting
    <3>2. QED BY <3>1, FiniteSets, FS_EmptySet
  <2> HIDE DEF W, O
  <2>5. m_count >= 0 => sem + O >= W
    BY <2>1, <2>2
  <2>6. m_count < 0 => sem + O = Tokens
    BY <2>1, <2>3
  <2>7. W # 0 => sem + O > 0 \/ m_count < 0
    BY <2>1, <2>5
  <2>8. W # 0 /\ Tokens > 0 => sem + O > 0
    BY <2>1, <2>3, <2>6, <2>7
  <2>9. QED BY <2>4, <2>5, <2>6, <2>7, <2>8 DEF WaitersServed, Posted, Counted, W, O
<1>2. QED BY <1>1, Invariance, PTL
=============================================================================
