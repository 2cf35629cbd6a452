----------------------------- MODULE ThPoolRing -----------------------------
(***************************************************************************)
(* The ring buffer of ThPool holds a sequence: what Enqueue and Dequeue do *)
(* to head, tail, queue_count and the slots is Append and Tail on QueueSeq.*)
(***************************************************************************)
EXTENDS ThPool, SequenceTheorems, TLAPS

(* Arithmetic of the ring indices. *)

LEMMA ModRange ==
  ASSUME NEW n \in Nat \ {0}, NEW x \in Nat
  PROVE  x % n \in 0..(n - 1)
OBVIOUS

LEMMA ModSmall ==
  ASSUME NEW n \in Nat \ {0}, NEW x \in 0..(n - 1)
  PROVE  x % n = x
OBVIOUS

(* Advancing either end of a stretch of the ring. *)
LEMMA ModAdvance ==
  ASSUME NEW n \in Nat \ {0}, NEW h \in 0..(n - 1), NEW q \in 0..n
  PROVE  /\ q < n => (((h + q) % n) + 1) % n = (h + q + 1) % n
         /\ q > 0 => (((h + 1) % n) + q - 1) % n = (h + q) % n
<1>1. (h + q) % n = IF h + q < n THEN h + q ELSE h + q - n
  OBVIOUS
<1>2. (h + 1) % n = IF h + 1 < n THEN h + 1 ELSE h + 1 - n
  OBVIOUS
<1>3. ASSUME q < n
      PROVE  (((h + q) % n) + 1) % n = (h + q + 1) % n
  <2>1. (h + q + 1) % n = IF h + q + 1 < n THEN h + q + 1 ELSE h + q + 1 - n
    BY <1>3
  <2>2. CASE h + q < n
    BY <2>2, <1>1
  <2>3. CASE h + q >= n
    <3>1. (h + q - n + 1) % n = h + q - n + 1
      BY <1>3, <2>3
    <3>2. QED BY <3>1, <2>1, <2>3, <1>1
  <2>4. QED BY <2>2, <2>3
<1>4. ASSUME q > 0
      PROVE  (((h + 1) % n) + q - 1) % n = (h + q) % n
  <2>1. CASE h + 1 < n
    BY <2>1, <1>2
  <2>2. CASE h + 1 = n
    <3>1. (q - 1) % n = q - 1
      BY <1>4
    <3>2. QED BY <3>1, <2>2, <1>1, <1>2, <1>4
  <2>3. QED BY <2>1, <2>2
<1>5. QED BY <1>3, <1>4

(* Different offsets below the size of the ring are different slots. *)
LEMMA ModDistinct ==
  ASSUME NEW n \in Nat \ {0}, NEW h \in 0..(n - 1),
         NEW q \in 0..(n - 1), NEW r \in 0..(n - 1), q # r
  PROVE  (h + q) % n # (h + r) % n
<1>1. (h + q) % n = IF h + q < n THEN h + q ELSE h + q - n
  OBVIOUS
<1>2. (h + r) % n = IF h + r < n THEN h + r ELSE h + r - n
  OBVIOUS
<1>3. QED BY <1>1, <1>2

-----------------------------------------------------------------------------
(* Recognising Append and Tail by their elements. *)

LEMMA IsAppend ==
  ASSUME NEW S, NEW s \in Seq(S), NEW e \in S, NEW n \in Nat, Len(s) = n, NEW u,
         u = [i \in 1..(n + 1) |-> u[i]],
         \A i \in 1..n : u[i] = s[i],
         u[n + 1] = e
  PROVE  u = Append(s, e)
<1>1. u \in Seq(S) /\ Len(u) = n + 1
  <2>1. \A i \in 1..n : s[i] \in S
    OBVIOUS
  <2>2. u \in [1..(n + 1) -> S]
    BY <2>1
  <2>3. QED BY <2>2
<1>2. Append(s, e) \in Seq(S) /\ Len(Append(s, e)) = n + 1
  OBVIOUS
<1>3. ASSUME NEW i \in 1..(n + 1) PROVE u[i] = Append(s, e)[i]
  <2>1. CASE i = n + 1
    BY <2>1
  <2>2. CASE i \in 1..n
    BY <2>2, AppendProperties
  <2>3. QED BY <2>1, <2>2
<1>4. QED BY <1>1, <1>2, <1>3, SeqEqual

LEMMA IsTail ==
  ASSUME NEW S, NEW s \in Seq(S), NEW n \in Nat \ {0}, Len(s) = n, NEW u,
         u = [i \in 1..(n - 1) |-> u[i]],
         \A i \in 1..(n - 1) : u[i] = s[i + 1]
  PROVE  u = Tail(s)
<1>1. u \in Seq(S) /\ Len(u) = n - 1
  <2>1. \A i \in 1..n : s[i] \in S
    OBVIOUS
  <2>2. u \in [1..(n - 1) -> S]
    BY <2>1
  <2>3. QED BY <2>2
<1>2. /\ Tail(s) \in Seq(S)
      /\ Len(Tail(s)) = n - 1
      /\ \A i \in 1..(n - 1) : Tail(s)[i] = s[i + 1]
  <2>1. s # <<>>
    OBVIOUS
  <2>2. QED BY <2>1, HeadTailProperties
<1>3. QED BY <1>1, <1>2, SeqEqual

-----------------------------------------------------------------------------
(* The ring as a sequence. *)

LEMMA QueueSeqType ==
  ASSUME TypeOK
  PROVE  /\ QueueSeq \in Seq(Tasks \cup {None})
         /\ Len(QueueSeq) = queue_count
         /\ queue_count \in Nat
<1>1. ASSUME NEW i \in 1..queue_count
      PROVE  task_queue[(head + i - 1) % QueueSize] \in Tasks \cup {None}
  <2>1. (head + i - 1) % QueueSize \in Slots
    BY ThPoolAssumption, ModRange DEF TypeOK, Slots
  <2>2. QED BY <2>1 DEF TypeOK
<1>2. QueueSeq \in [1..queue_count -> Tasks \cup {None}]
  BY <1>1 DEF QueueSeq
<1>3. queue_count \in Nat
  BY ThPoolAssumption DEF TypeOK
<1>4. QED BY <1>2, <1>3

(* Enqueue appends to the sequence. *)
LEMMA EnqueueAppends ==
  ASSUME TypeOK, tail = (head + queue_count) % QueueSize, queue_count < QueueSize,
         NEW t \in Tasks, NEW q, Enqueue(t, q)
  PROVE  QueueSeq' = Append(QueueSeq, t)
<1> DEFINE slot(i) == (head + i - 1) % QueueSize
<1>1. /\ task_queue' = [task_queue EXCEPT ![tail] = t]
      /\ head' = head
      /\ queue_count' = queue_count + 1
  BY DEF Enqueue, Insert
<1>2. /\ QueueSize \in Nat \ {0}
      /\ head \in 0..(QueueSize - 1)
      /\ tail \in 0..(QueueSize - 1)
      /\ queue_count \in 0..(QueueSize - 1)
      /\ task_queue \in [0..(QueueSize - 1) -> Tasks \cup {None}]
  BY ThPoolAssumption DEF TypeOK, Slots
<1>3. ASSUME NEW i \in 1..queue_count
      PROVE  task_queue'[slot(i)] = task_queue[slot(i)]
  <2>1. /\ i - 1 \in 0..(QueueSize - 1)
        /\ i - 1 # queue_count
        /\ head + i - 1 \in Nat
        /\ head + (i - 1) = head + i - 1
    BY <1>2
  <2>2. slot(i) # tail
    BY <1>2, <2>1, ModDistinct
  <2>3. slot(i) \in 0..(QueueSize - 1)
    BY <1>2, <2>1, ModRange
  <2>4. QED BY <1>1, <1>2, <2>2, <2>3
<1>4. task_queue'[slot(queue_count + 1)] = t
  <2>1. head + (queue_count + 1) - 1 = head + queue_count
    BY <1>2
  <2>2. QED BY <1>1, <1>2, <2>1
<1>5. /\ QueueSeq = [i \in 1..queue_count |-> task_queue[slot(i)]]
      /\ QueueSeq' = [i \in 1..(queue_count + 1) |-> task_queue'[slot(i)]]
  BY <1>1 DEF QueueSeq
<1> HIDE DEF slot
<1>6. \A i \in 1..queue_count : QueueSeq'[i] = QueueSeq[i]
  BY <1>2, <1>3, <1>5
<1>7. QueueSeq'[queue_count + 1] = t
  BY <1>2, <1>4, <1>5
<1>8. QueueSeq' = [i \in 1..(queue_count + 1) |-> QueueSeq'[i]]
  BY <1>5
<1>9. QED
  BY <1>6, <1>7, <1>8, QueueSeqType, IsAppend

(* Dequeue takes the first element. *)
LEMMA DequeueTakesHead ==
  ASSUME TypeOK, queue_count > 0, NEW p \in Threads, Dequeue(p)
  PROVE  /\ QueueSeq' = Tail(QueueSeq)
         /\ task' = [task EXCEPT ![p] = Head(QueueSeq)]
<1> DEFINE slot(i) == (head + i - 1) % QueueSize
<1>1. /\ task_queue' = task_queue
      /\ head' = (head + 1) % QueueSize
      /\ queue_count' = queue_count - 1
      /\ task' = [task EXCEPT ![p] = task_queue[head]]
  BY DEF Dequeue
<1>2. /\ QueueSize \in Nat \ {0}
      /\ head \in 0..(QueueSize - 1)
      /\ queue_count \in 1..QueueSize
  BY ThPoolAssumption DEF TypeOK, Slots
<1>3. ASSUME NEW i \in 1..(queue_count - 1)
      PROVE  (head' + i - 1) % QueueSize = slot(i + 1)
  <2>1. i \in 0..QueueSize /\ i > 0 /\ head + (i + 1) - 1 = head + i
    BY <1>2
  <2>2. (((head + 1) % QueueSize) + i - 1) % QueueSize = (head + i) % QueueSize
    BY <1>2, <2>1, ModAdvance
  <2>3. QED BY <1>1, <2>1, <2>2
<1>4. /\ QueueSeq = [i \in 1..queue_count |-> task_queue[slot(i)]]
      /\ QueueSeq' = [i \in 1..(queue_count - 1) |-> task_queue[(head' + i - 1) % QueueSize]]
  BY <1>1 DEF QueueSeq
<1>5. slot(1) = head
  <2>1. head + 1 - 1 = head
    BY <1>2
  <2>2. QED BY <1>2, <2>1, ModSmall
<1> HIDE DEF slot
<1>6. \A i \in 1..(queue_count - 1) : QueueSeq'[i] = QueueSeq[i + 1]
  <2> SUFFICES ASSUME NEW i \in 1..(queue_count - 1)
               PROVE  QueueSeq'[i] = QueueSeq[i + 1]
    OBVIOUS
  <2>1. QueueSeq[i + 1] = task_queue[slot(i + 1)]
    BY <1>2, <1>4
  <2>2. QueueSeq'[i] = task_queue[(head' + i - 1) % QueueSize]
    BY <1>4
  <2>3. QED BY <1>3, <2>1, <2>2
<1>7. QueueSeq' = [i \in 1..(queue_count - 1) |-> QueueSeq'[i]]
  BY <1>4
<1>8. QueueSeq' = Tail(QueueSeq)
  BY <1>2, <1>6, <1>7, QueueSeqType, IsTail
<1>9. Head(QueueSeq) = task_queue[head]
  <2>1. QueueSeq[1] = task_queue[slot(1)]
    BY <1>2, <1>4
  <2>2. QueueSeq \in Seq(Tasks \cup {None}) /\ QueueSeq # <<>>
    BY <1>2, QueueSeqType
  <2>3. QED BY <1>5, <2>1, <2>2
<1>10. QED BY <1>1, <1>8, <1>9
=============================================================================
