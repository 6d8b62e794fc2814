-------------------------- MODULE AgentTasksProofs --------------------------
(***************************************************************************)
(* Theorems about TaskQueue and AgentTasks, for any tasks, any size of the *)
(* queue, any listeners that throw, any window and clock, and any set of   *)
(* faults at once: the queue serves one job, and in order while listeners  *)
(* return; what the daemon takes in is its own, and what it tells the      *)
(* cloud is what its ledger says.                                          *)
(***************************************************************************)
EXTENDS AgentTasks, DataLemmas, SequenceTheorems

(* Sequences without repetition, and how they change. *)
Distinct(q) == \A i, k \in 1..Len(q) : q[i] = q[k] => i = k

LEMMA ToSetMembers ==
  ASSUME NEW q, NEW x
  PROVE  x \in ToSet(q) <=> \E i \in DOMAIN q : q[i] = x
BY DEF ToSet

LEMMA AppendDistinct ==
  ASSUME NEW q \in Seq(Ids), Distinct(q), NEW j \in Ids, j \notin ToSet(q)
  PROVE  /\ Append(q, j) \in Seq(Ids) /\ Distinct(Append(q, j))
         /\ ToSet(Append(q, j)) = ToSet(q) \cup {j}
         /\ Len(Append(q, j)) = Len(q) + 1
<1>. DEFINE a == Append(q, j)
<1>1. /\ a \in Seq(Ids) /\ Len(a) = Len(q) + 1 /\ Len(q) \in Nat
      /\ \A i \in 1..Len(q) : a[i] = q[i]
      /\ a[Len(q) + 1] = j
  BY AppendProperties, LenProperties
<1>2. DOMAIN q = 1..Len(q) /\ DOMAIN a = 1..Len(a)
  BY <1>1, LenProperties
<1>. HIDE DEF a
<1>3. \A i \in 1..Len(a) : i \in 1..Len(q) \/ i = Len(q) + 1
  BY <1>1
<1>4. \A i \in 1..Len(q) : q[i] # j
  BY <1>2 DEF ToSet
<1>5. Distinct(a)
  BY <1>1, <1>3, <1>4 DEF Distinct
<1>6. ToSet(a) = ToSet(q) \cup {j}
  <2>1. Len(q) + 1 \in 1..Len(a) /\ \A i \in 1..Len(q) : i \in 1..Len(a)
    BY <1>1
  <2>2. ASSUME NEW x \in ToSet(a) PROVE x \in ToSet(q) \cup {j}
    BY <1>1, <1>2, <1>3 DEF ToSet
  <2>3. ASSUME NEW x \in ToSet(q) PROVE x \in ToSet(a)
    BY <1>1, <1>2, <2>1 DEF ToSet
  <2>4. j \in ToSet(a)
    BY <1>1, <1>2, <2>1 DEF ToSet
  <2>. QED BY <2>2, <2>3, <2>4
<1>. QED BY <1>1, <1>5, <1>6 DEF a

LEMMA TailDistinct ==
  ASSUME NEW q \in Seq(Ids), Distinct(q), q # <<>>
  PROVE  /\ Head(q) \in Ids /\ Tail(q) \in Seq(Ids) /\ Distinct(Tail(q))
         /\ Head(q) \notin ToSet(Tail(q))
         /\ ToSet(q) = ToSet(Tail(q)) \cup {Head(q)}
         /\ Len(Tail(q)) = Len(q) - 1
<1>. DEFINE t == Tail(q)
<1>1. /\ Head(q) \in Ids /\ Head(q) = q[1] /\ t \in Seq(Ids) /\ Len(t) = Len(q) - 1
      /\ \A i \in 1..Len(t) : t[i] = q[i + 1]
  BY HeadTailProperties
<1>2. Len(q) \in Nat \ {0} /\ DOMAIN q = 1..Len(q) /\ DOMAIN t = 1..Len(t)
  BY <1>1, LenProperties, EmptySeq
<1>. HIDE DEF t
<1>3. \A i \in 1..Len(t) : i + 1 \in 1..Len(q) /\ i + 1 # 1
  BY <1>1, <1>2
<1>4. Distinct(t)
  BY <1>1, <1>2, <1>3 DEF Distinct
<1>5. 1 \in 1..Len(q)
  BY <1>2
<1>6. Head(q) \notin ToSet(t)
  BY <1>1, <1>2, <1>3, <1>5 DEF ToSet, Distinct
<1>7. ToSet(q) = ToSet(t) \cup {Head(q)}
  <2>1. ASSUME NEW x \in ToSet(t) PROVE x \in ToSet(q)
    BY <1>1, <1>2, <1>3 DEF ToSet
  <2>2. ASSUME NEW x \in ToSet(q) PROVE x \in ToSet(t) \cup {Head(q)}
    <3>1. PICK i \in 1..Len(q) : q[i] = x
      BY <1>2 DEF ToSet
    <3>2. i = 1 \/ (i - 1 \in 1..Len(t) /\ (i - 1) + 1 = i)
      BY <1>1, <1>2
    <3>. QED BY <1>1, <1>2, <3>1, <3>2 DEF ToSet
  <2>3. Head(q) \in ToSet(q)
    BY <1>1, <1>2, <1>5 DEF ToSet
  <2>. QED BY <2>1, <2>2, <2>3
<1>. QED BY <1>1, <1>4, <1>6, <1>7 DEF t

LEMMA RemoveDistinct ==
  ASSUME NEW q \in Seq(Ids), Distinct(q), NEW i \in 1..Len(q)
  PROVE  /\ RemoveAt(q, i) \in Seq(Ids) /\ Distinct(RemoveAt(q, i))
         /\ ToSet(RemoveAt(q, i)) = ToSet(q) \ {q[i]}
         /\ Len(RemoveAt(q, i)) = Len(q) - 1
<1>. DEFINE a == SubSeq(q, 1, i - 1)
            b == SubSeq(q, i + 1, Len(q))
            c == a \o b
<1>1. Len(q) \in Nat /\ i \in Nat /\ i <= Len(q) /\ i >= 1 /\ DOMAIN q = 1..Len(q)
  BY LenProperties
<1>2. \A k \in 1..Len(q) : q[k] \in Ids
  BY ElementOfSeq
<1>3. /\ a \in Seq(Ids) /\ Len(a) = i - 1
      /\ \A k \in 1..(i - 1) : a[k] = q[k]
  BY <1>1, <1>2, SubSeqProperties
<1>4. /\ b \in Seq(Ids) /\ Len(b) = Len(q) - i
      /\ \A k \in 1..(Len(q) - i) : b[k] = q[i + k]
  <2>. DEFINE n == Len(q)
  <2>1. n \in Int /\ i + 1 \in Int /\ \A k \in (i + 1)..n : k \in 1..n
    BY <1>1
  <2>2. \A k \in (i + 1)..n : q[k] \in Ids
    BY <1>2, <2>1
  <2>3. /\ b \in Seq(Ids) /\ Len(b) = (IF i + 1 <= n THEN n - (i + 1) + 1 ELSE 0)
        /\ \A k \in 1..(n - (i + 1) + 1) : b[k] = q[(i + 1) + k - 1]
    <3>. HIDE DEF n
    <3>. QED BY <2>1, <2>2, SubSeqProperties DEF n
  <2>. HIDE DEF b
  <2>4. /\ n - (i + 1) + 1 = n - i
        /\ i + 1 <= n \/ n - i = 0
        /\ \A k \in 1..(n - i) : (i + 1) + k - 1 = i + k
    <3>. HIDE DEF n
    <3>1. n \in Nat /\ i \in Nat /\ i <= n
      BY <1>1 DEF n
    <3>. QED BY <3>1
  <2>. QED BY <2>1, <2>3, <2>4
<1>5. c = RemoveAt(q, i)
  BY DEF RemoveAt
<1>. HIDE DEF a, b
<1>6. /\ c \in Seq(Ids) /\ Len(c) = Len(q) - 1
      /\ \A k \in 1..Len(c) : c[k] = IF k <= i - 1 THEN q[k] ELSE q[k + 1]
  <2>1. /\ c \in Seq(Ids) /\ Len(c) = Len(a) + Len(b)
        /\ \A k \in 1..(Len(a) + Len(b)) : c[k] = IF k <= Len(a) THEN a[k] ELSE b[k - Len(a)]
    BY <1>3, <1>4, ConcatProperties
  <2>. HIDE DEF c
  <2>2. Len(c) = Len(q) - 1
    BY <1>1, <1>3, <1>4, <2>1
  <2>3. ASSUME NEW k \in 1..Len(c), k <= i - 1 PROVE c[k] = q[k]
    BY <1>1, <1>3, <2>1, <2>3
  <2>4. ASSUME NEW k \in 1..Len(c), ~(k <= i - 1) PROVE c[k] = q[k + 1]
    <3>1. c[k] = b[k - (i - 1)]
      BY <1>3, <2>1, <2>4
    <3>2. k - (i - 1) \in 1..(Len(q) - i) /\ i + (k - (i - 1)) = k + 1
      BY <1>1, <2>2, <2>4
    <3>. QED BY <1>4, <3>1, <3>2
  <2>. QED BY <2>1, <2>2, <2>3, <2>4
<1>7. DOMAIN c = 1..Len(c)
  BY <1>6, LenProperties
<1>. HIDE DEF c
<1>8. Distinct(c)
  BY <1>1, <1>6 DEF Distinct
<1>9. ASSUME NEW x \in ToSet(c) PROVE x \in ToSet(q) \ {q[i]}
  BY <1>1, <1>6, <1>7, <1>9 DEF ToSet, Distinct
<1>10. ASSUME NEW x \in ToSet(q) \ {q[i]} PROVE x \in ToSet(c)
  <2>1. PICK k \in 1..Len(q) : q[k] = x /\ k # i
    BY <1>1 DEF ToSet
  <2>2. CASE k <= i - 1
    <3>1. k \in 1..Len(c) /\ c[k] = x
      BY <1>1, <1>6, <2>1, <2>2
    <3>. QED BY <1>7, <3>1 DEF ToSet
  <2>3. CASE k > i
    <3>1. k - 1 \in 1..Len(c) /\ c[k - 1] = x
      BY <1>1, <1>6, <2>1, <2>3
    <3>. QED BY <1>7, <3>1 DEF ToSet
  <2>. QED BY <1>1, <2>1, <2>2, <2>3
<1>. QED BY <1>5, <1>6, <1>8, <1>9, <1>10
-----------------------------------------------------------------------------
(* Turn(q) keeps the invariant when q holds each waiting id once, all of   *)
(* them are still known, and together they fit in the queue.               *)
LEMMA TurnKeepsInv ==
  ASSUME NEW q \in Seq(Ids), Distinct(q), Len(q) <= MaxSize,
         jobs' \subseteq Ids, ToSet(q) \subseteq jobs', Turn(q)
  PROVE  QueueInv'
<1>. USE QueueAssumption
<1>1. Len(q) \in Nat
  BY LenProperties
<1>2. ASSUME NEW r \in Seq(Ids), Distinct(r), Len(r) <= MaxSize, ToSet(r) \subseteq jobs', Stop(r)
      PROVE  QueueInv'
  <2>1. waiting' = r /\ current' = None /\ running' = FALSE /\ aborted' = FALSE
    BY <1>2 DEF Stop
  <2>2. Len(r) \in Nat /\ (Len(r) + 0) = Len(r)
    BY LenProperties
  <2>3. ToSet(r) \subseteq Ids
    BY <1>2
  <2>4. Load' <= MaxSize
    BY <1>2, <2>1, <2>2 DEF Load
  <2>. QED BY <1>2, <2>1, <2>3, <2>4 DEF QueueInv, QueueTypeOK, Waiting, Distinct
<1>3. CASE q = <<>>
  BY <1>2, <1>3 DEF Turn
<1>4. CASE q # <<>>
  <2>1. /\ Head(q) \in Ids /\ Tail(q) \in Seq(Ids) /\ Distinct(Tail(q))
        /\ Head(q) \notin ToSet(Tail(q))
        /\ ToSet(q) = ToSet(Tail(q)) \cup {Head(q)}
        /\ Len(Tail(q)) = Len(q) - 1
    BY <1>4, TailDistinct
  <2>2. Len(q) \in Nat /\ Len(q) - 1 <= MaxSize /\ (Len(q) - 1) + 1 = Len(q)
    BY <1>1
  <2>3. CASE Stop(Tail(q))
    BY <1>2, <2>1, <2>2, <2>3
  <2>4. CASE /\ current' = Head(q) /\ waiting' = Tail(q)
             /\ running' = TRUE /\ aborted' = FALSE
    <3>1. Load' <= MaxSize
      BY <2>1, <2>2, <2>4 DEF Load
    <3>2. QueueTypeOK'
      BY <2>1, <2>4 DEF QueueTypeOK
    <3>. QED BY <2>1, <2>4, <3>1, <3>2 DEF QueueInv, Waiting, Distinct
  <2>. QED BY <1>4, <2>3, <2>4 DEF Turn
<1>. QED BY <1>3, <1>4

LEMMA QueueInvInit == QueueInit => QueueInv
<1>. SUFFICES ASSUME QueueInit PROVE QueueInv
  OBVIOUS
<1>1. /\ waiting = <<>> /\ waiting \in Seq(Ids) /\ current = None
      /\ running = FALSE /\ jobs = {} /\ aborted = FALSE
  BY EmptySeq DEF QueueInit
<1>2. Len(waiting) = 0 /\ ToSet(waiting) = {}
  BY <1>1, EmptySeq DEF ToSet
<1>3. QueueTypeOK
  BY <1>1 DEF QueueTypeOK
<1>4. Load <= MaxSize
  BY <1>1, <1>2, QueueAssumption DEF Load
<1>5. Waiting \cup ({current} \ {None}) \subseteq jobs /\ current \notin Waiting
  BY <1>1, <1>2 DEF Waiting
<1>6. \A i, k \in 1..Len(waiting) : waiting[i] = waiting[k] => i = k
  BY <1>2
<1>. QED BY <1>1, <1>3, <1>4, <1>5, <1>6 DEF QueueInv

LEMMA QueueInvStep == QueueInv /\ [QueueNext]_qvars => QueueInv'
<1>. USE QueueAssumption
<1>. SUFFICES ASSUME QueueInv, [QueueNext]_qvars PROVE QueueInv'
  OBVIOUS
<1>1. /\ QueueTypeOK /\ Distinct(waiting) /\ Len(waiting) \in Nat
      /\ ToSet(waiting) \subseteq jobs /\ (current # None => current \in jobs)
      /\ current \notin ToSet(waiting) /\ (running <=> current # None)
      /\ Load <= MaxSize /\ Len(waiting) <= Load
  BY LenProperties DEF QueueInv, QueueTypeOK, Distinct, Waiting, Load
<1>2. waiting \in Seq(Ids) /\ jobs \subseteq Ids /\ current \in Ids \cup {None}
      /\ Len(waiting) <= MaxSize
  BY <1>1 DEF QueueTypeOK, Load
<1>3. ASSUME NEW j \in Ids, Enqueue(j) PROVE QueueInv'
  <2>. DEFINE q == Append(waiting, j)
  <2>1. /\ q \in Seq(Ids) /\ Distinct(q) /\ ToSet(q) = ToSet(waiting) \cup {j}
        /\ Len(q) = Len(waiting) + 1
    <3>1. j \notin ToSet(waiting)
      BY <1>1, <1>3 DEF Enqueue
    <3>. QED BY <1>1, <1>2, <3>1, AppendDistinct
  <2>2. jobs' = jobs \cup {j} /\ jobs' \subseteq Ids /\ ToSet(q) \subseteq jobs' /\ j # current
    BY <1>1, <1>2, <1>3, <2>1 DEF Enqueue
  <2>. HIDE DEF q
  <2>3. Load < MaxSize /\ Load \in Nat
    BY <1>1, <1>3 DEF Enqueue, Load
  <2>4. CASE waiting' = q /\ UNCHANGED <<current, running, aborted>>
    <3>1. Load' = Load + 1
      BY <1>1, <2>1, <2>4 DEF Load
    <3>2. Load' <= MaxSize
      BY <2>3, <3>1
    <3>3. QueueTypeOK'
      BY <1>1, <2>1, <2>2, <2>4 DEF QueueTypeOK
    <3>. QED BY <1>1, <2>1, <2>2, <2>4, <3>2, <3>3 DEF QueueInv, Waiting, Distinct
  <2>5. CASE ~running /\ Turn(q)
    <3>1. Len(q) <= MaxSize
      BY <1>1, <2>1, <2>3, <2>5 DEF Load
    <3>. QED BY <2>1, <2>2, <2>5, <3>1, TurnKeepsInv
  <2>. QED BY <1>3, <2>4, <2>5 DEF Enqueue, q
<1>4. ASSUME NEW j \in Ids, CancelWaiting(j) PROVE QueueInv'
  <2>1. PICK i \in 1..Len(waiting) : waiting[i] = j /\ waiting' = RemoveAt(waiting, i)
    BY <1>4 DEF CancelWaiting
  <2>2. /\ waiting' \in Seq(Ids) /\ Distinct(waiting')
        /\ ToSet(waiting') = ToSet(waiting) \ {j} /\ Len(waiting') = Len(waiting) - 1
    BY <1>1, <1>2, <2>1, RemoveDistinct
  <2>3. j # current /\ jobs' = jobs \ {j} /\ UNCHANGED <<current, running, aborted>>
    BY <1>4 DEF CancelWaiting
  <2>4. Load' <= MaxSize
    BY <1>1, <2>2, <2>3 DEF Load
  <2>5. QueueTypeOK'
    BY <1>1, <2>2, <2>3 DEF QueueTypeOK
  <2>. QED BY <1>1, <2>2, <2>3, <2>4, <2>5 DEF QueueInv, Waiting, Distinct
<1>5. ASSUME NEW j \in Ids, CancelCurrent(j) PROVE QueueInv'
  BY <1>5 DEF QueueInv, QueueTypeOK, Waiting, Load, CancelCurrent
<1>6. ASSUME Settle PROVE QueueInv'
  <2>1. CASE jobs' = jobs /\ Stop(waiting)
    <3>1. Load' <= MaxSize
      BY <1>1, <1>2, <2>1 DEF Stop, Load
    <3>. QED BY <1>1, <1>2, <2>1, <3>1 DEF Stop, QueueInv, QueueTypeOK, Waiting, Distinct
  <2>2. CASE jobs' = jobs \ {current} /\ Turn(waiting)
    <3>1. jobs' \subseteq Ids /\ ToSet(waiting) \subseteq jobs'
      BY <1>1, <1>2, <2>2
    <3>. QED BY <1>1, <1>2, <2>2, <3>1, TurnKeepsInv
  <2>3. CASE jobs' = jobs \ {current} /\ Stop(waiting)
    <3>1. Load' <= MaxSize
      BY <1>1, <1>2, <2>3 DEF Stop, Load
    <3>. QED BY <1>1, <1>2, <2>3, <3>1 DEF Stop, QueueInv, QueueTypeOK, Waiting, Distinct
  <2>. QED BY <1>6, <2>1, <2>2, <2>3 DEF Settle
<1>7. CASE UNCHANGED qvars
  BY <1>7 DEF QueueInv, QueueTypeOK, Waiting, Load, qvars
<1>. QED BY <1>3, <1>4, <1>5, <1>6, <1>7 DEF QueueNext

(* Whatever the listeners do, #queue, #current, #running and #jobs of the  *)
(* task queue agree as QueueInv says: one job is served, none is queued    *)
(* twice, and maxSize bounds them.                                         *)
THEOREM QueueIsSerial == QueueSpec => []QueueInv
<1>. QED BY QueueInvInit, QueueInvStep, PTL DEF QueueSpec
-----------------------------------------------------------------------------
(* The queue never idles while a job waits, if the listeners return. *)
NeverIdle ==
  /\ running <=> current # None
  /\ ~running => waiting = <<>>

LEMMA NeverIdleStep ==
  Faulty = {} /\ QueueInv /\ NeverIdle /\ [QueueNext]_qvars => NeverIdle'
<1>. SUFFICES ASSUME Faulty = {}, QueueInv, NeverIdle, [QueueNext]_qvars PROVE NeverIdle'
  OBVIOUS
<1>. USE QueueAssumption
<1>1. waiting \in Seq(Ids)
  BY DEF QueueInv, QueueTypeOK
<1>2. ASSUME NEW q \in Seq(Ids), Turn(q) PROVE NeverIdle'
  <2>1. q # <<>> => Head(q) \in Ids
    BY HeadTailProperties
  <2>. QED BY <1>2, <2>1 DEF Turn, Stop, NeverIdle
<1>3. ASSUME NEW j \in Ids, Enqueue(j) PROVE NeverIdle'
  <2>1. Append(waiting, j) \in Seq(Ids)
    BY <1>1, AppendProperties
  <2>. QED BY <1>2, <1>3, <2>1 DEF Enqueue, NeverIdle
<1>4. ASSUME NEW j \in Ids, CancelWaiting(j) PROVE NeverIdle'
  <2>1. waiting # <<>>
    BY <1>4 DEF CancelWaiting
  <2>. QED BY <1>4, <2>1 DEF CancelWaiting, NeverIdle
<1>5. ASSUME NEW j \in Ids, CancelCurrent(j) PROVE NeverIdle'
  BY <1>5 DEF CancelCurrent, NeverIdle
<1>6. ASSUME Settle PROVE NeverIdle'
  BY <1>1, <1>2, <1>6 DEF Settle
<1>7. CASE UNCHANGED qvars
  BY <1>7 DEF NeverIdle, qvars
<1>. QED BY <1>3, <1>4, <1>5, <1>6, <1>7 DEF QueueNext

LEMMA QueueStepIsExecutorStep ==
  Faulty = {} /\ QueueInv /\ NeverIdle /\ [QueueNext]_qvars
    => [Executor!ExecutorNext]_<<waiting, current>>
<1>. SUFFICES ASSUME Faulty = {}, QueueInv, NeverIdle, [QueueNext]_qvars
              PROVE  [Executor!ExecutorNext]_<<waiting, current>>
  OBVIOUS
<1>. USE QueueAssumption
<1>1. waiting \in Seq(Ids)
  BY DEF QueueInv, QueueTypeOK
<1>2. ASSUME NEW j \in Ids, Enqueue(j) PROVE Executor!Accept(j)
  <2>1. CASE running
    BY <1>2, <2>1 DEF Enqueue, NeverIdle, Executor!Accept, Executor!Idle
  <2>2. CASE ~running
    <3>1. waiting = <<>> /\ current = None /\ Turn(<<j>>)
      BY <1>2, <2>2 DEF Enqueue, NeverIdle
    <3>2. <<j>> # <<>> /\ Head(<<j>>) = j /\ Tail(<<j>>) = <<>>
      OBVIOUS
    <3>. QED BY <3>1, <3>2 DEF Turn, Executor!Accept, Executor!Idle
  <2>. QED BY <2>1, <2>2
<1>3. ASSUME NEW j \in Ids, CancelWaiting(j)
      PROVE  \E i \in 1..Len(waiting) : Executor!Withdraw(i)
  <2>1. PICK i \in 1..Len(waiting) : waiting' = RemoveAt(waiting, i)
    BY <1>3 DEF CancelWaiting
  <2>2. current' = current
    BY <1>3 DEF CancelWaiting
  <2>3. Executor!Withdraw(i)
    BY <2>1, <2>2 DEF Executor!Withdraw, RemoveAt, Executor!RemoveAt
  <2>. QED BY <2>3
<1>4. ASSUME NEW j \in Ids, CancelCurrent(j) PROVE UNCHANGED <<waiting, current>>
  BY <1>4 DEF CancelCurrent
<1>5. ASSUME Settle PROVE Executor!Finish
  BY <1>5 DEF Settle, Turn, Stop, Executor!Finish
<1>6. CASE UNCHANGED qvars
  BY <1>6 DEF qvars
<1>. QED BY <1>2, <1>3, <1>4, <1>5, <1>6 DEF QueueNext, Executor!ExecutorNext

(* With listeners that return, taskqueue.js implements the safety of the   *)
(* serial execution that docs/ARCHITECTURE.md describes: what waits and    *)
(* what runs changes only as in SerialExecutor.                            *)
THEOREM QueueServesInOrder ==
  ASSUME Faulty = {}
  PROVE  QueueSpec => Executor!ExecutorInit /\ [][Executor!ExecutorNext]_<<waiting, current>>
<1>1. QueueInit => Executor!ExecutorInit /\ NeverIdle
  BY DEF QueueInit, Executor!ExecutorInit, Executor!Idle, NeverIdle
<1>2. Faulty = {}
  OBVIOUS
<1>3. QueueInv /\ NeverIdle /\ [QueueNext]_qvars
        => NeverIdle' /\ [Executor!ExecutorNext]_<<waiting, current>>
  BY <1>2, NeverIdleStep, QueueStepIsExecutorStep
<1>. QED BY <1>1, <1>3, QueueIsSerial, PTL DEF QueueSpec
-----------------------------------------------------------------------------
(* A sequence without repetition is as long as it has members. *)
LEMMA DistinctCount ==
  ASSUME NEW q \in Seq(Ids), Distinct(q)
  PROVE  IsFiniteSet(ToSet(q)) /\ Cardinality(ToSet(q)) = Len(q)
<1>1. Len(q) \in Nat /\ DOMAIN q = 1..Len(q) /\ q \in [1..Len(q) -> Ids]
  BY LenProperties
<1>2. q \in [1..Len(q) -> ToSet(q)] /\ \A x \in ToSet(q) : \E i \in 1..Len(q) : q[i] = x
  BY <1>1 DEF ToSet
<1>3. \A i, k \in 1..Len(q) : q[i] = q[k] => i = k
  BY DEF Distinct
<1>4. q \in Injection(1..Len(q), ToSet(q))
  BY <1>2, <1>3 DEF Injection, IsInjective
<1>5. q \in Surjection(1..Len(q), ToSet(q))
  BY <1>2 DEF Surjection
<1>6. ExistsBijection(1..Len(q), ToSet(q))
  BY <1>4, <1>5 DEF ExistsBijection, Bijection
<1>7. IsFiniteSet(1..Len(q)) /\ Cardinality(1..Len(q)) = Len(q)
  <2>1. ASSUME NEW n \in Nat PROVE IsFiniteSet(1..n) /\ Cardinality(1..n) = n
    <3>1. 1 \in Int /\ n \in Int /\ (IF 1 > n THEN 0 ELSE n - 1 + 1) = n
      OBVIOUS
    <3>. QED BY <3>1, FS_Interval
  <2>. QED BY <1>1, <2>1
<1>. QED BY <1>6, <1>7, FS_Bijection

(* Who is in the queue, by #queue and #current; #jobs has to say the same. *)
InQueue == Waiting \cup (IF running THEN {current} ELSE {})

LEMMA BookIsCounted == QueueInv /\ jobs = InQueue => BookIsExact
<1>. SUFFICES ASSUME QueueInv, jobs = InQueue PROVE BookIsExact
  OBVIOUS
<1>1. /\ waiting \in Seq(Ids) /\ Distinct(waiting) /\ running \in BOOLEAN
      /\ current \notin ToSet(waiting) /\ (running <=> current # None)
  BY DEF QueueInv, QueueTypeOK, Distinct, Waiting
<1>2. IsFiniteSet(ToSet(waiting)) /\ Cardinality(ToSet(waiting)) = Len(waiting)
  BY <1>1, DistinctCount
<1>3. CASE running
  <2>1. Cardinality(ToSet(waiting) \cup {current}) = Cardinality(ToSet(waiting)) + 1
    BY <1>1, <1>2, FS_AddElement
  <2>. QED BY <1>1, <1>2, <1>3, <2>1 DEF BookIsExact, InQueue, Waiting, Load
<1>4. CASE ~running
  <2>1. jobs = ToSet(waiting) /\ Len(waiting) + 0 = Len(waiting)
    BY <1>1, <1>4, LenProperties DEF InQueue, Waiting
  <2>. QED BY <1>1, <1>2, <1>4, <2>1 DEF BookIsExact, InQueue, Waiting, Load
<1>. QED BY <1>3, <1>4

LEMMA BookStep ==
  Faulty = {} /\ QueueInv /\ jobs = InQueue /\ [QueueNext]_qvars => (jobs = InQueue)'
<1>. SUFFICES ASSUME Faulty = {}, QueueInv, jobs = InQueue, [QueueNext]_qvars
              PROVE  jobs' = InQueue'
  OBVIOUS
<1>1. /\ waiting \in Seq(Ids) /\ Distinct(waiting) /\ current \notin ToSet(waiting)
      /\ (running <=> current # None) /\ running \in BOOLEAN
  BY DEF QueueInv, QueueTypeOK, Distinct, Waiting
<1>2. ASSUME NEW q \in Seq(Ids), Distinct(q), jobs' = ToSet(q), Turn(q) PROVE jobs' = InQueue'
  <2>1. CASE q = <<>>
    BY <1>2, <2>1 DEF Turn, Stop, InQueue, Waiting
  <2>2. CASE q # <<>>
    <3>1. ToSet(q) = ToSet(Tail(q)) \cup {Head(q)}
      BY <1>2, <2>2, TailDistinct
    <3>. QED BY <1>2, <2>2, <3>1 DEF Turn, InQueue, Waiting
  <2>. QED BY <2>1, <2>2
<1>3. ASSUME NEW j \in Ids, Enqueue(j) PROVE jobs' = InQueue'
  <2>1. /\ Append(waiting, j) \in Seq(Ids) /\ Distinct(Append(waiting, j))
        /\ ToSet(Append(waiting, j)) = ToSet(waiting) \cup {j}
    <3>1. j \notin ToSet(waiting)
      BY <1>3 DEF Enqueue, InQueue, Waiting
    <3>. QED BY <1>1, <3>1, AppendDistinct
  <2>2. CASE running
    BY <1>3, <2>1, <2>2 DEF Enqueue, InQueue, Waiting
  <2>3. CASE ~running
    <3>1. Turn(Append(waiting, j)) /\ jobs' = ToSet(Append(waiting, j))
      BY <1>3, <2>1, <2>3 DEF Enqueue, InQueue, Waiting
    <3>. QED BY <1>2, <2>1, <3>1
  <2>. QED BY <2>2, <2>3
<1>4. ASSUME NEW j \in Ids, CancelWaiting(j) PROVE jobs' = InQueue'
  <2>1. PICK i \in 1..Len(waiting) : waiting[i] = j /\ waiting' = RemoveAt(waiting, i)
    BY <1>4 DEF CancelWaiting
  <2>2. ToSet(waiting') = ToSet(waiting) \ {j}
    BY <1>1, <2>1, RemoveDistinct
  <2>. QED BY <1>4, <2>2 DEF CancelWaiting, InQueue, Waiting
<1>5. ASSUME NEW j \in Ids, CancelCurrent(j) PROVE jobs' = InQueue'
  BY <1>5 DEF CancelCurrent, InQueue, Waiting
<1>6. ASSUME Settle PROVE jobs' = InQueue'
  <2>1. jobs' = ToSet(waiting) /\ Turn(waiting)
    BY <1>1, <1>6 DEF Settle, InQueue, Waiting
  <2>. QED BY <1>1, <1>2, <2>1
<1>7. CASE UNCHANGED qvars
  BY <1>7 DEF qvars, InQueue, Waiting
<1>. QED BY <1>3, <1>4, <1>5, <1>6, <1>7 DEF QueueNext

(* With listeners that return, the ids that taskqueue.js refuses as        *)
(* duplicates are those of the jobs that wait or run, each of them once:   *)
(* none stays known after it left, none is served that is not known.       *)
THEOREM QueueBookIsExact ==
  ASSUME Faulty = {}
  PROVE  QueueSpec => []BookIsExact
<1>1. QueueInit => jobs = InQueue
  BY DEF QueueInit, InQueue, Waiting, ToSet
<1>2. Faulty = {}
  OBVIOUS
<1>3. QueueInv /\ jobs = InQueue /\ [QueueNext]_qvars => (jobs = InQueue)'
  BY <1>2, BookStep
<1>. QED BY <1>1, <1>3, BookIsCounted, QueueIsSerial, PTL DEF QueueSpec
-----------------------------------------------------------------------------
(* One step of Without *)
Skips(f, q, out, n) ==
  f = [i \in 0 .. n |->
         IF i = 0 THEN <<>> ELSE IF q[i] \in out THEN f[i - 1] ELSE Append(f[i - 1], q[i])]

(* The recursive function of Without exists: the first n for which it does *)
(* not would have one for n - 1 that can be continued.                     *)
LEMMA SkipsExists ==
  ASSUME NEW q, NEW out, NEW n \in Nat
  PROVE  \E f : Skips(f, q, out, n)
<1>. DEFINE Wrong == {k \in Nat : ~\E f : Skips(f, q, out, k)}
<1>1. SUFFICES ASSUME Wrong # {} PROVE FALSE
  OBVIOUS
<1>2. PICK m \in Wrong : \A k \in Wrong : m <= k
  BY <1>1, SmallestOf
<1>3. CASE m = 0
  <2>. DEFINE f == [i \in 0 .. 0 |-> <<>>]
  <2>1. f = [i \in 0 .. 0 |->
               IF i = 0 THEN <<>> ELSE IF q[i] \in out THEN f[i - 1] ELSE Append(f[i - 1], q[i])]
    OBVIOUS
  <2>. HIDE DEF f
  <2>2. Skips(f, q, out, 0)
    BY <2>1 DEF Skips
  <2>. QED BY <1>2, <1>3, <2>2
<1>4. CASE m # 0
  <2>1. m - 1 \in Nat /\ ~(m <= m - 1)
    BY <1>4
  <2>2. PICK f : Skips(f, q, out, m - 1)
    BY <1>2, <2>1
  <2>. DEFINE g == [i \in 0 .. m |->
                      IF i # m THEN f[i] ELSE IF q[m] \in out THEN f[m - 1] ELSE Append(f[m - 1], q[m])]
  <2>3. ASSUME NEW i \in 0 .. m
        PROVE  g[i] = IF i = 0 THEN <<>> ELSE IF q[i] \in out THEN g[i - 1] ELSE Append(g[i - 1], q[i])
    <3>1. CASE i = m
      <4>1. i - 1 \in 0 .. m /\ i - 1 # m /\ i # 0
        BY <1>4, <3>1
      <4>2. g[i - 1] = f[m - 1]
        BY <3>1, <4>1
      <4>. QED BY <3>1, <4>1, <4>2
    <3>2. CASE i # m
      <4>1. i \in 0 .. m - 1
        BY <3>2
      <4>2. f[i] = IF i = 0 THEN <<>> ELSE IF q[i] \in out THEN f[i - 1] ELSE Append(f[i - 1], q[i])
        BY <2>2, <4>1 DEF Skips
      <4>3. g[i] = f[i]
        BY <3>2
      <4>4. i # 0 => g[i - 1] = f[i - 1]
        <5>1. i # 0 => i - 1 \in 0 .. m /\ i - 1 # m
          BY <4>1
        <5>. QED BY <5>1
      <4>. HIDE DEF g
      <4>. QED BY <4>2, <4>3, <4>4
    <3>. QED BY <3>1, <3>2
  <2>4. DOMAIN g = 0 .. m /\ g = [i \in 0 .. m |-> g[i]]
    OBVIOUS
  <2>. HIDE DEF g
  <2>5. Skips(g, q, out, m)
    BY <2>3, <2>4 DEF Skips
  <2>. QED BY <1>2, <2>5
<1>. QED BY <1>3, <1>4

(* The jobs that are cancelled leave the queue; the others stay in it as   *)
(* they were, each of them once.                                           *)
LEMMA WithoutFacts ==
  ASSUME NEW q \in Seq(Ids), Distinct(q), NEW out
  PROVE  /\ Without(q, out) \in Seq(Ids) /\ Distinct(Without(q, out))
         /\ ToSet(Without(q, out)) = ToSet(q) \ out
         /\ Len(Without(q, out)) <= Len(q)
<1>. DEFINE n == Len(q)
            f == CHOOSE g : Skips(g, q, out, n)
            First(i) == {q[k] : k \in 1 .. i}
            Good(i) == /\ f[i] \in Seq(Ids) /\ Distinct(f[i]) /\ Len(f[i]) <= i
                       /\ ToSet(f[i]) = First(i) \ out
            Wrong == {i \in Nat : i <= n /\ ~Good(i)}
<1>1. n \in Nat /\ DOMAIN q = 1 .. n /\ \A i \in 1 .. n : q[i] \in Ids
  BY LenProperties, ElementOfSeq
<1>2. Without(q, out) = f[n]
  BY DEF Without, Skips
<1>. HIDE DEF n
<1>3. Skips(f, q, out, n)
  BY <1>1, SkipsExists
<1>. HIDE DEF f
<1>4. \A i \in 0 .. n :
         f[i] = IF i = 0 THEN <<>> ELSE IF q[i] \in out THEN f[i - 1] ELSE Append(f[i - 1], q[i])
  BY <1>3 DEF Skips
<1>5. SUFFICES Wrong = {}
  <2>1. Good(n)
    <3>1. n \notin Wrong /\ n <= n
      BY <1>1, <1>5
    <3>. HIDE DEF Good
    <3>. QED BY <1>1, <3>1
  <2>2. ToSet(q) = First(n)
    BY <1>1 DEF ToSet
  <2>. QED BY <1>2, <2>1, <2>2 DEF n
<1>6. SUFFICES ASSUME Wrong # {} PROVE FALSE
  OBVIOUS
<1>7. PICK m \in Wrong : \A k \in Wrong : m <= k
  <2>1. Wrong \in SUBSET Nat
    OBVIOUS
  <2>. HIDE DEF Wrong
  <2>. QED BY <1>6, <2>1, SmallestOf
<1>8. m \in 0 .. n /\ ~Good(m)
  BY <1>1, <1>7
<1>9. CASE m = 0
  <2>1. f[m] = <<>> /\ First(m) = {}
    BY <1>4, <1>8, <1>9
  <2>2. <<>> \in Seq(Ids) /\ Len(<<>>) = 0 /\ Distinct(<<>>) /\ ToSet(<<>>) = {}
    BY EmptySeq DEF Distinct, ToSet
  <2>. QED BY <1>8, <1>9, <2>1, <2>2
<1>10. CASE m # 0
  <2>1. m - 1 \in Nat /\ m - 1 <= n /\ ~(m <= m - 1) /\ m \in 1 .. n
    BY <1>1, <1>8, <1>10
  <2>2. Good(m - 1)
    <3>1. m - 1 \notin Wrong
      <4>. HIDE DEF Wrong
      <4>. QED BY <1>7, <2>1
    <3>. QED BY <2>1, <3>1
  <2>. DEFINE h == f[m - 1]
  <2>3. /\ h \in Seq(Ids) /\ Distinct(h) /\ Len(h) <= m - 1 /\ Len(h) \in Nat
        /\ ToSet(h) = First(m - 1) \ out
    BY <2>2, LenProperties
  <2>4. f[m] = IF q[m] \in out THEN h ELSE Append(h, q[m])
    BY <1>4, <1>8, <1>10
  <2>5. First(m) = First(m - 1) \cup {q[m]}
    <3>1. ASSUME NEW k \in 1 .. m PROVE k = m \/ k \in 1 .. m - 1
      BY <2>1
    <3>2. ASSUME NEW k \in 1 .. m - 1 PROVE k \in 1 .. m
      BY <2>1
    <3>. QED BY <2>1, <3>1, <3>2
  <2>6. q[m] \notin First(m - 1)
    <3>1. ASSUME NEW k \in 1 .. m - 1 PROVE q[k] # q[m]
      <4>1. k \in 1 .. n /\ k # m
        BY <1>1, <2>1
      <4>. QED BY <2>1, <4>1 DEF Distinct, n
    <3>. QED BY <3>1
  <2>. HIDE DEF First, h
  <2>7. CASE q[m] \in out
    <3>1. f[m] = h /\ First(m) \ out = First(m - 1) \ out
      BY <2>4, <2>5, <2>7
    <3>2. Len(h) <= m
      BY <2>1, <2>3
    <3>. QED BY <1>8, <2>3, <3>1, <3>2
  <2>8. CASE q[m] \notin out
    <3>1. f[m] = Append(h, q[m]) /\ First(m) \ out = (First(m - 1) \ out) \cup {q[m]}
      BY <2>4, <2>5, <2>8
    <3>2. q[m] \in Ids /\ q[m] \notin ToSet(h)
      BY <1>1, <2>1, <2>3, <2>6
    <3>3. /\ Append(h, q[m]) \in Seq(Ids) /\ Distinct(Append(h, q[m]))
          /\ ToSet(Append(h, q[m])) = ToSet(h) \cup {q[m]}
          /\ Len(Append(h, q[m])) = Len(h) + 1
      BY <2>3, <3>2, AppendDistinct
    <3>4. Len(h) + 1 <= m
      BY <2>1, <2>3
    <3>. QED BY <1>8, <2>3, <3>1, <3>3, <3>4
  <2>. QED BY <2>7, <2>8
<1>. QED BY <1>9, <1>10
-----------------------------------------------------------------------------
(* The steps of the queue as the agent takes them: the listeners of the    *)
(* daemon return.                                                          *)
LEMMA EnqueueFacts ==
  ASSUME QueueInv, NEW t \in Ids, Enqueue(t)
  PROVE  /\ QueueInv' /\ t \notin jobs /\ jobs' = jobs \cup {t}
         /\ Waiting' \subseteq Waiting \cup {t}
         /\ running => current' = current
         /\ ~running => current' \in Waiting \cup {t}
<1>. USE AgentAssumption, QueueAssumption
<1>1. QueueInv'
  BY QueueInvStep DEF QueueNext
<1>2. /\ waiting \in Seq(Ids) /\ Distinct(waiting) /\ t \notin jobs /\ jobs' = jobs \cup {t}
      /\ ToSet(waiting) \subseteq jobs
  BY DEF QueueInv, QueueTypeOK, Distinct, Waiting, Enqueue
<1>. DEFINE q == Append(waiting, t)
<1>3. q \in Seq(Ids) /\ Distinct(q) /\ ToSet(q) = ToSet(waiting) \cup {t} /\ q # <<>>
  <2>1. t \notin ToSet(waiting) /\ q # <<>>
    BY <1>2
  <2>. QED BY <1>2, <2>1, AppendDistinct
<1>4. IF running THEN waiting' = q /\ current' = current ELSE current' = Head(q) /\ waiting' = Tail(q)
  BY <1>3 DEF Enqueue, Turn
<1>. HIDE DEF q
<1>5. ToSet(q) = ToSet(Tail(q)) \cup {Head(q)}
  BY <1>3, TailDistinct
<1>6. Waiting' = ToSet(waiting')
  BY DEF Waiting
<1>. QED BY <1>1, <1>2, <1>3, <1>4, <1>5, <1>6 DEF Waiting

LEMMA SettleFacts ==
  ASSUME QueueInv, Settle
  PROVE  /\ QueueInv' /\ current \in jobs /\ jobs' = jobs \ {current}
         /\ Waiting' \subseteq Waiting
         /\ current' = None \/ current' \in Waiting
<1>. USE AgentAssumption, QueueAssumption
<1>1. QueueInv'
  BY QueueInvStep DEF QueueNext
<1>2. /\ waiting \in Seq(Ids) /\ Distinct(waiting) /\ current \in jobs /\ jobs' = jobs \ {current}
      /\ Turn(waiting)
  BY DEF QueueInv, QueueTypeOK, Distinct, Waiting, Settle
<1>3. Waiting' = ToSet(waiting')
  BY DEF Waiting
<1>4. CASE waiting = <<>>
  BY <1>1, <1>2, <1>3, <1>4 DEF Turn, Stop, Waiting
<1>5. CASE waiting # <<>>
  <2>1. ToSet(waiting) = ToSet(Tail(waiting)) \cup {Head(waiting)}
    BY <1>2, <1>5, TailDistinct
  <2>2. current' = Head(waiting) /\ waiting' = Tail(waiting)
    BY <1>2, <1>5 DEF Turn
  <2>. QED BY <1>1, <1>2, <1>3, <2>1, <2>2 DEF Waiting
<1>. QED BY <1>4, <1>5

(* Cancellations that a poll brings *)
LEMMA CancelFacts ==
  ASSUME QueueInv, PollReply
  PROVE  /\ QueueInv' /\ current' = current /\ Waiting' \subseteq Waiting /\ jobs' \subseteq jobs
<1>. USE QueueAssumption
<1>1. /\ waiting \in Seq(Ids) /\ Distinct(waiting) /\ jobs \subseteq Ids
      /\ current \in Ids \cup {None} /\ running \in BOOLEAN /\ aborted \in BOOLEAN
      /\ (running <=> current # None) /\ current \notin Waiting
      /\ Waiting \cup ({current} \ {None}) \subseteq jobs
      /\ Load <= MaxSize
  BY DEF QueueInv, QueueTypeOK, Distinct
<1>2. /\ waiting' = Without(waiting, stops) /\ jobs' = jobs \ (stops \cap Waiting)
      /\ current' = current /\ running' = running /\ aborted' = (aborted \/ current \in stops)
  BY DEF PollReply
<1>3. /\ waiting' \in Seq(Ids) /\ Distinct(waiting') /\ ToSet(waiting') = ToSet(waiting) \ stops
      /\ Len(waiting') <= Len(waiting)
  <2>. DEFINE w == Without(waiting, stops)
  <2>1. w \in Seq(Ids) /\ Distinct(w) /\ ToSet(w) = ToSet(waiting) \ stops /\ Len(w) <= Len(waiting)
    BY <1>1, WithoutFacts
  <2>. HIDE DEF w
  <2>2. waiting' = w
    BY <1>2 DEF w
  <2>. QED BY <2>1, <2>2
<1>4. Waiting' = Waiting \ stops
  BY <1>3 DEF Waiting
<1>5. Load' <= MaxSize
  <2>1. Len(waiting) \in Nat /\ Len(waiting') \in Nat
    BY <1>1, <1>3, LenProperties
  <2>2. Load = Len(waiting) + (IF running THEN 1 ELSE 0) /\ Load' = Len(waiting') + (IF running THEN 1 ELSE 0)
    BY <1>2 DEF Load
  <2>. DEFINE m == Len(waiting)
              n == Len(waiting')
              one == IF running THEN 1 ELSE 0
  <2>3. m \in Nat /\ n \in Nat /\ n <= m /\ m + one <= MaxSize /\ MaxSize \in Nat /\ one \in {0, 1}
    BY <1>1, <1>3, <2>1, <2>2
  <2>4. Load' = n + one
    BY <2>2
  <2>. HIDE DEF m, n, one
  <2>. QED BY <2>3, <2>4
<1>6. aborted' \in BOOLEAN
  BY <1>2
<1>7. /\ waiting' \in Seq(Ids) /\ jobs' \subseteq Ids /\ current' \in Ids \cup {None}
      /\ running' \in BOOLEAN
  BY <1>1, <1>2, <1>3
<1>8. Waiting' \cup ({current'} \ {None}) \subseteq jobs' /\ current' \notin Waiting'
  BY <1>1, <1>2, <1>4
<1>9. QueueTypeOK'
  BY <1>6, <1>7 DEF QueueTypeOK
<1>10. running' <=> current' # None
  BY <1>1, <1>2
<1>11. QueueInv'
  BY <1>3, <1>5, <1>8, <1>9, <1>10 DEF QueueInv, Distinct
<1>. QED BY <1>2, <1>4, <1>11

(* A crash empties the queue. *)
LEMMA RestartFacts ==
  ASSUME Restart
  PROVE  QueueInv' /\ current' = None /\ jobs' = {} /\ Waiting' = {}
<1>. USE QueueAssumption
<1>1. /\ waiting' = <<>> /\ current' = None /\ running' = FALSE /\ jobs' = {} /\ aborted' = FALSE
  BY DEF Restart
<1>2. Len(<<>>) = 0 /\ ToSet(<<>>) = {} /\ <<>> \in Seq(Ids)
  BY EmptySeq DEF ToSet
<1>3. Waiting' = {} /\ Load' = 0
  BY <1>1, <1>2 DEF Waiting, Load
<1>4. QueueTypeOK'
  BY <1>1, <1>2 DEF QueueTypeOK
<1>5. \A i, k \in 1 .. Len(waiting') : waiting'[i] = waiting'[k] => i = k
  BY <1>1, <1>2
<1>6. Load' <= MaxSize
  BY <1>3
<1>7. QueueInv'
  BY <1>1, <1>3, <1>4, <1>5, <1>6 DEF QueueInv
<1>. QED BY <1>1, <1>3, <1>7

(* QueueInv is about the queue alone. *)
LEMMA QueueStays ==
  ASSUME QueueInv, UNCHANGED qvars
  PROVE  /\ QueueInv' /\ waiting' = waiting /\ current' = current /\ running' = running
         /\ jobs' = jobs /\ aborted' = aborted /\ Waiting' = Waiting
<1>1. /\ waiting' = waiting /\ current' = current /\ running' = running
      /\ jobs' = jobs /\ aborted' = aborted
  BY DEF qvars
<1>2. Waiting' = Waiting /\ QueueInv'
  BY <1>1 DEF Waiting, QueueInv, QueueTypeOK, Load
<1>. QED BY <1>1, <1>2

-----------------------------------------------------------------------------
(* A task the cloud still offers. *)
Open(t) == cloud[t] \in {"absent", "pending"}

(* The tasks of a poll that have not reached the queue yet. *)
InFlight == poll.batch \cup (IF poll.stage = "awaiting" THEN {poll.task} ELSE {})

(* What was taken in was claimed here, when verdicts can be read. *)
OwnWork ==
  "garbled" \in faults \/
    /\ \A t \in begun \cup jobs : cloud[t] \in {"claimed", "answered"}
    /\ poll.stage = "awaiting" /\ poll.won => cloud[poll.task] \in {"claimed", "answered"}

(* Where #runTask is agrees with the queue. *)
RunsTheHead ==
  /\ phase = "none" <=> current = None
  /\ phase = "reporting" => tries >= 1 /\ outcome # "none"
  /\ poll.stage = "awaiting" => poll.task \in Ids

IntakeInv == AgentTypeOK /\ QueueInv /\ OwnWork /\ RunsTheHead

LEMMA IntakeInvInit == Init => IntakeInv
<1>. USE AgentAssumption, QueueAssumption
<1>. SUFFICES ASSUME Init PROVE IntakeInv
  OBVIOUS
<1>1. QueueInv /\ QueueTypeOK /\ current = None /\ jobs = {}
  BY QueueInvInit DEF Init, QueueInv, QueueInit
<1>2. AgentTypeOK
  BY <1>1 DEF Init, AgentTypeOK, NoPoll
<1>3. OwnWork /\ RunsTheHead
  BY <1>1 DEF Init, OwnWork, RunsTheHead, NoPoll
<1>. QED BY <1>1, <1>2, <1>3 DEF IntakeInv

(* Where the next task begins: nothing is recorded if the budget is spent. *)
LEMMA BeginFacts ==
  ASSUME IntakeInv, QueueInv', BeginNext
  PROVE  /\ phase' = "none" <=> current' = None
         /\ phase' \in {"none", "over", "working"}
         /\ begun' \subseteq Ids /\ begun' \subseteq begun \cup {current'}
         /\ ledger' \in [Ids -> {"absent", "running", "succeeded", "failed", "cancelled"}]
         /\ phase' = "working" =>
              /\ current' \in Ids
              /\ \A t \in Ids : t # current' => ledger'[t] = ledger[t]
              /\ ledger[current'] = "absent" => ledger'[current'] = "running"
         /\ phase' # "working" => ledger' = ledger
         /\ \A t \in begun' : t \in begun \/ (t = current' /\ current' # None)
<1>1. /\ ledger \in [Ids -> {"absent", "running", "succeeded", "failed", "cancelled"}]
      /\ begun \subseteq Ids
  BY DEF IntakeInv, AgentTypeOK
<1>2. current' \in Ids \cup {None}
  BY DEF QueueInv, QueueTypeOK
<1>3. CASE current' = None
  BY <1>1, <1>3 DEF BeginNext
<1>4. CASE current' # None /\ phase' = "over" /\ UNCHANGED <<ledger, begun>>
  BY <1>1, <1>4
<1>5. CASE /\ current' # None
           /\ phase' = "working"
           /\ ledger' = [ledger EXCEPT ![current'] = IF @ = "absent" THEN "running" ELSE @]
           /\ begun' = begun \cup {current'}
  <2>. DEFINE c == current'
  <2>1. c \in Ids /\ ledger' = [ledger EXCEPT ![c] = IF @ = "absent" THEN "running" ELSE @]
        /\ begun' = begun \cup {c}
    BY <1>2, <1>5
  <2>. HIDE DEF c
  <2>2. /\ ledger' \in [Ids -> {"absent", "running", "succeeded", "failed", "cancelled"}]
        /\ \A t \in Ids : t # c => ledger'[t] = ledger[t]
        /\ ledger[c] = "absent" => ledger'[c] = "running"
    BY <1>1, <2>1
  <2>. QED BY <1>1, <1>5, <2>1, <2>2 DEF c
<1>. QED BY <1>3, <1>4, <1>5 DEF BeginNext, Begin

(* A task is queued, or refused: what becomes of the queue and of the run. *)
LEMMA EnqueueTaskFacts ==
  ASSUME IntakeInv, NEW t \in Ids, EnqueueTask(t)
  PROVE  /\ QueueInv' /\ recent' \in [Ids -> Nat] /\ refused' \subseteq Ids
         /\ \/ /\ UNCHANGED <<waiting, current, running, jobs, aborted, phase, ledger, begun>>
               /\ Waiting' = Waiting
            \/ /\ t \notin jobs /\ jobs' = jobs \cup {t} /\ Waiting' \subseteq Waiting \cup {t}
               /\ current' = current /\ UNCHANGED <<phase, ledger, begun>>
            \/ /\ t \notin jobs /\ jobs' = jobs \cup {t} /\ Waiting' \subseteq Waiting \cup {t}
               /\ current = None /\ current' \in Waiting \cup {t} /\ BeginNext
<1>1. QueueInv /\ recent \in [Ids -> Nat] /\ clock \in Nat /\ refused \subseteq Ids
      /\ (running <=> current # None) /\ running \in BOOLEAN
  BY DEF IntakeInv, AgentTypeOK, QueueInv, QueueTypeOK
<1>2. recent' \in [Ids -> Nat]
  BY <1>1 DEF EnqueueTask
<1>3. CASE UNCHANGED <<qvars, phase, ledger, begun>> /\ (refused' = refused \/ refused' = refused \cup {t})
  <2>1. UNCHANGED qvars
    BY <1>3
  <2>2. /\ QueueInv' /\ waiting' = waiting /\ current' = current /\ running' = running
        /\ jobs' = jobs /\ aborted' = aborted /\ Waiting' = Waiting
    BY <1>1, <2>1, QueueStays
  <2>. QED BY <1>1, <1>2, <1>3, <2>2
<1>4. CASE /\ Enqueue(t) /\ UNCHANGED refused
           /\ IF running THEN UNCHANGED <<phase, ledger, begun>> ELSE BeginNext
  <2>1. /\ QueueInv' /\ t \notin jobs /\ jobs' = jobs \cup {t}
        /\ Waiting' \subseteq Waiting \cup {t}
        /\ running => current' = current
        /\ ~running => current' \in Waiting \cup {t}
    BY <1>1, <1>4, EnqueueFacts
  <2>2. CASE running
    BY <1>1, <1>2, <1>4, <2>1, <2>2
  <2>3. CASE ~running
    BY <1>1, <1>2, <1>4, <2>1, <2>3
  <2>. QED BY <1>1, <2>2, <2>3
<1>. QED BY <1>3, <1>4 DEF EnqueueTask
LEMMA IntakeInvStep == IntakeInv /\ [Next]_vars => IntakeInv'
<1>. USE AgentAssumption, QueueAssumption
<1>. SUFFICES ASSUME IntakeInv, [Next]_vars PROVE IntakeInv'
  OBVIOUS
<1>1. QueueInv /\ QueueTypeOK /\ AgentTypeOK /\ OwnWork /\ RunsTheHead
  BY DEF IntakeInv, QueueInv
<1>2. ASSUME QueueInv' PROVE QueueTypeOK'
  BY <1>2 DEF QueueInv
(* steps that leave the queue, the run and its ledger alone *)
<1>3. ASSUME UNCHANGED <<qvars, faults, recent, clock, phase, outcome, tries, ledger, begun, refused, told>>,
             cloud' \in [Ids -> {"absent", "pending", "claimed", "elsewhere", "answered"}],
             stops' \subseteq Ids,
             poll' \in [stage : {"idle", "fetching", "claiming", "awaiting"}, batch : SUBSET Ids,
                        task : Ids \cup {None}, won : BOOLEAN],
             \A t \in Ids : cloud[t] \in {"claimed", "answered"} => cloud'[t] \in {"claimed", "answered"},
             poll'.stage = "awaiting" =>
               /\ poll'.task \in Ids
               /\ "garbled" \notin faults /\ poll'.won => cloud'[poll'.task] \in {"claimed", "answered"}
      PROVE  IntakeInv'
  <2>1. QueueInv' /\ current' = current /\ jobs' = jobs
    BY <1>1, <1>3, QueueStays
  <2>2. AgentTypeOK'
    BY <1>1, <1>2, <1>3, <2>1 DEF AgentTypeOK
  <2>3. RunsTheHead'
    BY <1>1, <1>3, <2>1 DEF RunsTheHead
  <2>4. OwnWork'
    <3>1. begun \cup jobs \subseteq Ids
      BY <1>1 DEF AgentTypeOK, QueueTypeOK
    <3>. QED BY <1>1, <1>3, <2>1, <3>1 DEF OwnWork
  <2>. QED BY <2>1, <2>2, <2>3, <2>4 DEF IntakeInv
<1>4. ASSUME NEW t \in Ids, Submit(t) PROVE IntakeInv'
  BY <1>1, <1>3, <1>4 DEF Submit, AgentTypeOK, OwnWork, RunsTheHead
<1>5. ASSUME NEW t \in Ids, ClaimElsewhere(t) PROVE IntakeInv'
  BY <1>1, <1>3, <1>5 DEF ClaimElsewhere, AgentTypeOK, OwnWork, RunsTheHead
<1>6. ASSUME NEW t \in Ids, StopTask(t) PROVE IntakeInv'
  BY <1>1, <1>3, <1>6 DEF StopTask, AgentTypeOK, OwnWork, RunsTheHead
<1>7. CASE PollStart
  BY <1>1, <1>3, <1>7 DEF PollStart, Remote, AgentTypeOK, NoPoll
<1>8. CASE PollFails
  BY <1>1, <1>3, <1>8 DEF PollFails, Remote, AgentTypeOK, NoPoll
<1>9. CASE PollReply
  <2>1. QueueInv' /\ current' = current /\ Waiting' \subseteq Waiting /\ jobs' \subseteq jobs
    BY <1>1, <1>9, CancelFacts
  <2>2. /\ UNCHANGED <<Remote, recent, clock, phase, outcome, tries, ledger, begun, refused>>
        /\ poll' = IF Listed = {} THEN NoPoll ELSE [NoPoll EXCEPT !.stage = "claiming", !.batch = Listed]
    BY <1>9 DEF PollReply
  <2>3. Listed \subseteq Ids
    BY DEF Listed
  <2>4. /\ poll' \in [stage : {"idle", "fetching", "claiming", "awaiting"}, batch : SUBSET Ids,
                      task : Ids \cup {None}, won : BOOLEAN]
        /\ poll'.stage # "awaiting"
    BY <2>2, <2>3 DEF NoPoll
  <2>5. AgentTypeOK'
    BY <1>1, <1>2, <2>1, <2>2, <2>4 DEF AgentTypeOK, Remote
  <2>6. RunsTheHead' /\ OwnWork'
    BY <1>1, <2>1, <2>2, <2>4 DEF RunsTheHead, OwnWork, Remote
  <2>. QED BY <2>1, <2>5, <2>6 DEF IntakeInv
<1>10. ASSUME NEW t \in Ids, Claim(t) PROVE IntakeInv'
  <2>1. PICK granted \in BOOLEAN :
          /\ granted => cloud[t] \in {"pending", "claimed"}
          /\ cloud' = [cloud EXCEPT ![t] = IF granted THEN "claimed" ELSE @]
          /\ poll' = [stage |-> "awaiting", batch |-> poll.batch \ {t}, task |-> t, won |-> granted]
    BY <1>10 DEF Claim
  <2>. QED BY <1>1, <1>3, <1>10, <2>1 DEF Claim, AgentTypeOK
<1>11. CASE ClaimReply
  <2>. DEFINE t == poll.task
  <2>1. /\ t \in Ids /\ poll.stage = "awaiting" /\ poll' = NextClaim
        /\ UNCHANGED <<Remote, clock, outcome, tries>>
    BY <1>1, <1>11 DEF ClaimReply, RunsTheHead
  <2>2. /\ poll' \in [stage : {"idle", "fetching", "claiming", "awaiting"}, batch : SUBSET Ids,
                      task : Ids \cup {None}, won : BOOLEAN]
        /\ poll'.stage # "awaiting"
    BY <1>1, <2>1 DEF AgentTypeOK, NoPoll, NextClaim
  <2>3. CASE UNCHANGED <<qvars, recent, phase, ledger, begun, refused>>
    BY <1>1, <1>3, <2>1, <2>2, <2>3 DEF Remote, AgentTypeOK
  <2>4. CASE (poll.won \/ "garbled" \in faults) /\ EnqueueTask(t)
    <3>. HIDE DEF t
    <3>1. /\ QueueInv' /\ recent' \in [Ids -> Nat] /\ refused' \subseteq Ids
          /\ \/ /\ UNCHANGED <<waiting, current, running, jobs, aborted, phase, ledger, begun>>
                /\ Waiting' = Waiting
             \/ /\ t \notin jobs /\ jobs' = jobs \cup {t} /\ Waiting' \subseteq Waiting \cup {t}
                /\ current' = current /\ UNCHANGED <<phase, ledger, begun>>
             \/ /\ t \notin jobs /\ jobs' = jobs \cup {t} /\ Waiting' \subseteq Waiting \cup {t}
                /\ current = None /\ current' \in Waiting \cup {t} /\ BeginNext
      BY <2>1, <2>4, EnqueueTaskFacts
    <3>2. Waiting \subseteq jobs /\ jobs \subseteq Ids
      BY <1>1 DEF QueueInv, QueueTypeOK
    <3>3. /\ phase' = "none" <=> current' = None
          /\ phase' \in {"none", "over", "working", "reporting"}
          /\ phase' = "reporting" => phase = "reporting"
          /\ ledger' \in [Ids -> {"absent", "running", "succeeded", "failed", "cancelled"}]
          /\ begun' \subseteq Ids /\ begun' \cup jobs' \subseteq begun \cup jobs \cup {t}
      <4>1. CASE UNCHANGED <<waiting, current, running, jobs, aborted, phase, ledger, begun>>
        BY <1>1, <4>1 DEF RunsTheHead, AgentTypeOK
      <4>2. CASE jobs' = jobs \cup {t} /\ current' = current /\ UNCHANGED <<phase, ledger, begun>>
        BY <1>1, <4>2 DEF RunsTheHead, AgentTypeOK
      <4>3. CASE jobs' = jobs \cup {t} /\ current' \in Waiting \cup {t} /\ BeginNext
        <5>1. /\ phase' = "none" <=> current' = None
              /\ phase' \in {"none", "over", "working"}
              /\ begun' \subseteq Ids /\ begun' \subseteq begun \cup {current'}
              /\ ledger' \in [Ids -> {"absent", "running", "succeeded", "failed", "cancelled"}]
          BY <3>1, <4>3, BeginFacts
        <5>. QED BY <3>2, <4>3, <5>1
      <4>. QED BY <3>1, <4>1, <4>2, <4>3
    <3>4. AgentTypeOK'
      BY <1>1, <1>2, <2>1, <2>2, <3>1, <3>3 DEF AgentTypeOK, Remote
    <3>5. RunsTheHead'
      BY <1>1, <2>1, <2>2, <3>3 DEF RunsTheHead
    <3>6. OwnWork'
      <4>1. cloud' = cloud /\ faults' = faults
        BY <2>1 DEF Remote
      <4>2. "garbled" \in faults \/ (poll.won /\ cloud[t] \in {"claimed", "answered"})
        BY <1>1, <2>1, <2>4 DEF OwnWork, t
      <4>. QED BY <1>1, <2>2, <3>3, <4>1, <4>2 DEF OwnWork
    <3>. QED BY <3>1, <3>4, <3>5, <3>6 DEF IntakeInv
  <2>. QED BY <1>11, <2>3, <2>4 DEF ClaimReply
(* steps of the run: what they have in common *)
<1>12. ASSUME UNCHANGED <<qvars, faults, stops, poll, recent, clock, begun, refused>>,
              phase # "none", phase' \in {"reporting", "over"},
              outcome' \in {"none", "succeeded", "failed", "cancelled"}, tries' \in 0 .. MaxTries,
              phase' = "reporting" => tries' >= 1 /\ outcome' # "none",
              ledger' \in [Ids -> {"absent", "running", "succeeded", "failed", "cancelled"}],
              told' \in [Ids -> {"nothing", "succeeded", "failed", "cancelled"}],
              cloud' \in [Ids -> {"absent", "pending", "claimed", "elsewhere", "answered"}],
              \A t \in Ids : cloud[t] \in {"claimed", "answered"} => cloud'[t] \in {"claimed", "answered"}
       PROVE  IntakeInv'
  <2>1. QueueInv' /\ current' = current /\ jobs' = jobs
    BY <1>1, <1>12, QueueStays
  <2>2. AgentTypeOK'
    BY <1>1, <1>2, <1>12, <2>1 DEF AgentTypeOK
  <2>3. RunsTheHead'
    BY <1>1, <1>12, <2>1 DEF RunsTheHead
  <2>4. OwnWork'
    <3>1. begun \cup jobs \subseteq Ids
      BY <1>1 DEF AgentTypeOK, QueueTypeOK
    <3>. QED BY <1>1, <1>12, <2>1, <3>1 DEF OwnWork, RunsTheHead
  <2>. QED BY <2>1, <2>2, <2>3, <2>4 DEF IntakeInv
<1>13. ASSUME UNCHANGED <<qvars, Remote, poll, recent, clock, begun, refused>>,
              phase = "working", phase' = "reporting", tries' = MaxTries,
              NEW s \in {"succeeded", "failed", "cancelled"}, outcome' = s, Ends(current, s)
       PROVE  IntakeInv'
  <2>1. ledger' \in [Ids -> {"absent", "running", "succeeded", "failed", "cancelled"}]
    BY <1>1, <1>13 DEF Ends, AgentTypeOK
  <2>2. /\ told' = told /\ cloud' = cloud /\ stops' = stops /\ faults' = faults
        /\ MaxTries \in 0 .. MaxTries /\ MaxTries >= 1
    BY <1>13 DEF Remote
  <2>3. /\ told' \in [Ids -> {"nothing", "succeeded", "failed", "cancelled"}]
        /\ cloud' \in [Ids -> {"absent", "pending", "claimed", "elsewhere", "answered"}]
    BY <1>1, <2>2 DEF AgentTypeOK
  <2>. QED BY <1>12, <1>13, <2>1, <2>2, <2>3
<1>14. CASE LoopReturns \/ TaskThrows
  BY <1>13, <1>14 DEF LoopReturns, TaskThrows
<1>15. CASE Report
  <2>1. tries \in 1 .. MaxTries /\ outcome # "none" /\ phase = "reporting"
    BY <1>1, <1>15 DEF Report, RunsTheHead, AgentTypeOK
  <2>2. /\ tries' \in 0 .. MaxTries /\ (tries # 1 => tries' >= 1)
        /\ phase' = "over" \/ phase' = IF tries = 1 THEN "over" ELSE phase
    BY <1>15, <2>1 DEF Report
  <2>3. /\ told' \in [Ids -> {"nothing", "succeeded", "failed", "cancelled"}]
        /\ cloud' \in [Ids -> {"absent", "pending", "claimed", "elsewhere", "answered"}]
        /\ \A t \in Ids : cloud[t] \in {"claimed", "answered"} => cloud'[t] \in {"claimed", "answered"}
    BY <1>1, <1>15, <2>1 DEF Report, AgentTypeOK
  <2>. QED BY <1>1, <1>12, <1>15, <2>1, <2>2, <2>3 DEF Report, AgentTypeOK
<1>16. CASE TaskReturns
  <2>1. /\ QueueInv' /\ current \in jobs /\ jobs' = jobs \ {current} /\ Waiting' \subseteq Waiting
        /\ current' = None \/ current' \in Waiting
    BY <1>1, <1>16, SettleFacts DEF TaskReturns
  <2>2. /\ phase' = "none" <=> current' = None
        /\ phase' \in {"none", "over", "working"}
        /\ begun' \subseteq Ids /\ \A t \in begun' : t \in begun \/ (t = current' /\ current' # None)
        /\ ledger' \in [Ids -> {"absent", "running", "succeeded", "failed", "cancelled"}]
    BY <1>16, <2>1, BeginFacts DEF TaskReturns
  <2>3. UNCHANGED <<Remote, poll, recent, clock, outcome, tries, refused>>
    BY <1>16 DEF TaskReturns
  <2>4. AgentTypeOK'
    BY <1>1, <1>2, <2>1, <2>2, <2>3 DEF AgentTypeOK, Remote
  <2>5. RunsTheHead'
    BY <1>1, <2>2, <2>3 DEF RunsTheHead
  <2>6. OwnWork'
    <3>1. Waiting \subseteq jobs
      BY <1>1 DEF QueueInv
    <3>2. begun' \cup jobs' \subseteq begun \cup jobs
      BY <2>1, <2>2, <3>1
    <3>3. cloud' = cloud /\ faults' = faults /\ poll' = poll
      BY <2>3 DEF Remote
    <3>. QED BY <1>1, <3>2, <3>3 DEF OwnWork
  <2>. QED BY <2>1, <2>4, <2>5, <2>6 DEF IntakeInv
<1>17. CASE Restart
  <2>1. QueueInv' /\ current' = None /\ jobs' = {} /\ Waiting' = {}
    BY <1>17, RestartFacts
  <2>2. /\ UNCHANGED <<Remote, clock, ledger, begun, refused>> /\ poll' = NoPoll
        /\ recent' = [t \in Ids |-> 0] /\ phase' = "none" /\ outcome' = "none" /\ tries' = 0
    BY <1>17 DEF Restart
  <2>3. AgentTypeOK'
    BY <1>1, <1>2, <2>1, <2>2 DEF AgentTypeOK, Remote, NoPoll
  <2>4. RunsTheHead' /\ OwnWork'
    BY <1>1, <2>1, <2>2 DEF RunsTheHead, OwnWork, Remote, NoPoll
  <2>. QED BY <2>1, <2>3, <2>4 DEF IntakeInv
<1>18. CASE Tick \/ UNCHANGED vars
  <2>1. /\ UNCHANGED <<qvars, Remote, poll, recent, phase, outcome, tries, ledger, begun, refused>>
        /\ clock' \in Nat
    BY <1>1, <1>18 DEF Tick, vars, avars, Remote, AgentTypeOK
  <2>2. QueueInv' /\ current' = current /\ jobs' = jobs
    BY <1>1, <2>1, QueueStays
  <2>3. AgentTypeOK'
    BY <1>1, <1>2, <2>1, <2>2 DEF AgentTypeOK, Remote
  <2>4. RunsTheHead' /\ OwnWork'
    BY <1>1, <2>1, <2>2 DEF RunsTheHead, OwnWork, Remote
  <2>. QED BY <2>2, <2>3, <2>4 DEF IntakeInv
<1>. QED
  BY <1>4, <1>5, <1>6, <1>7, <1>8, <1>9, <1>10, <1>11, <1>14, <1>15, <1>16, <1>17, <1>18
  DEF Next, Polling, Working

(* agent.js polls, claims, queues and runs as it should, for any tasks and *)
(* any of the faults at once: the queue and the run agree, and what other  *)
(* devices won is not worked on here (L342, L458).                         *)
THEOREM IntakeAlwaysSound == Spec => []IntakeIsSound
<1>1. IntakeInv => IntakeIsSound
  <2>. SUFFICES ASSUME IntakeInv PROVE IntakeIsSound
    OBVIOUS
  <2>. QED BY DEF IntakeInv, IntakeIsSound, NoForeignWork, OwnWork, AgentTypeOK
<1>. QED BY <1>1, IntakeInvInit, IntakeInvStep, PTL DEF Spec
-----------------------------------------------------------------------------
(* While tasks are handed out once, each travels one way: the cloud offers *)
(* it, a poll carries it, the queue holds it, it is worked on and reported. *)
Offered == \A t \in Ids : Open(t) => ledger[t] = "absent"

OnTheWay ==
  /\ \A t \in InFlight : ledger[t] = "absent" /\ cloud[t] # "absent" /\ t \notin jobs
  /\ poll.stage = "awaiting" => /\ poll.task \notin poll.batch
                                /\ poll.won \/ "garbled" \in faults => ~Open(poll.task)

InTheQueue ==
  /\ \A t \in jobs : ~Open(t)
  /\ \A t \in Waiting : ledger[t] = "absent"

AtWork ==
  /\ phase = "working" => ledger[current] = "running" /\ told[current] = "nothing"
  /\ phase = "reporting" => ledger[current] = outcome

Reported == \A t \in Ids : /\ told[t] # "nothing" => told[t] = ledger[t]
                           /\ ledger[t] = "absent" => told[t] = "nothing"

OneWay == Offered /\ OnTheWay /\ InTheQueue /\ AtWork /\ Reported
OnceInv == HandedOutOnce => OneWay

LEMMA OnceInvInit == Init => OnceInv
<1>. SUFFICES ASSUME Init PROVE OneWay
  BY DEF OnceInv
<1>1. jobs = {} /\ Waiting = {}
  BY QueueInvInit DEF Init, QueueInit, QueueInv
<1>. QED
  BY <1>1 DEF Init, NoPoll, OneWay, Offered, OnTheWay, InTheQueue, AtWork, Reported, Open, InFlight

(* The task that begins is the one that left the head of the queue. *)
LEMMA BeginOnce ==
  ASSUME IntakeInv, OneWay, QueueInv', BeginNext, NEW t \in Ids \cup {None},
         Waiting \subseteq jobs, jobs' \subseteq jobs \cup {t}, Waiting' \subseteq Waiting \cup {t},
         current' = None \/ current' \in Waiting \cup {t}, None \notin Waiting,
         t # None => ledger[t] = "absent" /\ ~Open(t),
         told' = told, cloud' = cloud
  PROVE  /\ Offered' /\ InTheQueue' /\ AtWork' /\ Reported'
         /\ \A s \in Ids : ledger'[s] # ledger[s] => s \in jobs \cup {t}
<1>. USE AgentAssumption, QueueAssumption
<1>1. /\ phase' = "none" <=> current' = None
      /\ phase' \in {"none", "over", "working"}
      /\ phase' = "working" =>
           /\ current' \in Ids
           /\ \A s \in Ids : s # current' => ledger'[s] = ledger[s]
           /\ ledger[current'] = "absent" => ledger'[current'] = "running"
      /\ phase' # "working" => ledger' = ledger
  BY BeginFacts
<1>2. /\ current' \notin Waiting' /\ current' \in Ids \cup {None} /\ Waiting' \subseteq Ids
      /\ jobs' \subseteq Ids
  BY DEF QueueInv, QueueTypeOK, Waiting
<1>3. current' # None => ledger[current'] = "absent" /\ ~Open(current') /\ current' \in jobs \cup {t}
  BY DEF OneWay, InTheQueue
<1>4. \A s \in Ids : s # current' => ledger'[s] = ledger[s]
  BY <1>1
<1>5. Offered'
  BY <1>1, <1>3, <1>4 DEF OneWay, Offered, Open
<1>6. InTheQueue'
  <2>1. ASSUME NEW s \in jobs' PROVE ~Open(s)'
    BY <1>2 DEF OneWay, InTheQueue, Open
  <2>2. ASSUME NEW s \in Waiting' PROVE ledger'[s] = "absent"
    <3>1. s \in Ids /\ s # current' /\ s # None
      BY <1>2, <2>2
    <3>2. ledger[s] = "absent"
      BY <2>2, <3>1 DEF OneWay, InTheQueue
    <3>. QED BY <1>4, <3>1, <3>2
  <2>. QED BY <2>1, <2>2 DEF InTheQueue
<1>7. AtWork'
  BY <1>1, <1>3 DEF OneWay, Reported, AtWork
<1>8. Reported'
  BY <1>1, <1>3, <1>4 DEF OneWay, Reported
<1>9. \A s \in Ids : ledger'[s] # ledger[s] => s \in jobs \cup {t}
  BY <1>1, <1>3, <1>4
<1>. QED BY <1>5, <1>6, <1>7, <1>8, <1>9

LEMMA OnceInvStep == IntakeInv /\ OnceInv /\ [Next]_vars => OnceInv'
<1>. USE AgentAssumption, QueueAssumption
<1>1. faults' = faults \/ ~[Next]_vars
  BY DEF Next, vars, avars, Polling, Working, Submit, ClaimElsewhere, StopTask, PollStart, PollReply,
         PollFails, Claim, ClaimReply, LoopReturns, TaskThrows, Report, TaskReturns, Restart, Tick, Remote
<1>. SUFFICES ASSUME IntakeInv, OneWay, HandedOutOnce, [Next]_vars, faults' = faults PROVE OneWay'
  BY <1>1 DEF OnceInv, HandedOutOnce
<1>2. /\ QueueInv /\ AgentTypeOK /\ RunsTheHead
      /\ Offered /\ OnTheWay /\ InTheQueue /\ AtWork /\ Reported
  BY DEF IntakeInv, OneWay
<1>3. /\ Waiting \subseteq jobs /\ jobs \subseteq Ids /\ None \notin Waiting
      /\ current \in Ids \cup {None} /\ (current # None => current \in jobs) /\ current \notin Waiting
      /\ poll.batch \subseteq Ids
  BY <1>2 DEF QueueInv, QueueTypeOK, AgentTypeOK
<1>4. /\ ledger \in [Ids -> {"absent", "running", "succeeded", "failed", "cancelled"}]
      /\ told \in [Ids -> {"nothing", "succeeded", "failed", "cancelled"}]
      /\ cloud \in [Ids -> {"absent", "pending", "claimed", "elsewhere", "answered"}]
  BY <1>2 DEF AgentTypeOK
(* steps of the cloud and of a poll that leave the queue and the run alone *)
<1>5. ASSUME UNCHANGED <<qvars, phase, outcome, ledger, told>>,
             \A t \in Ids : Open(t)' => Open(t)
      PROVE  Offered' /\ InTheQueue' /\ AtWork' /\ Reported' /\ jobs' = jobs
  <2>1. jobs' = jobs /\ Waiting' = Waiting /\ current' = current
    BY <1>2, <1>5, QueueStays
  <2>. QED BY <1>2, <1>3, <1>5, <2>1 DEF Offered, InTheQueue, AtWork, Reported
<1>6. ASSUME NEW t \in Ids, Submit(t) \/ ClaimElsewhere(t) \/ StopTask(t) PROVE OneWay'
  <2>1. /\ UNCHANGED <<qvars, faults, poll, recent, clock, phase, outcome, tries, ledger, begun, refused, told>>
        /\ \A s \in Ids : Open(s)' => Open(s)
        /\ \A s \in Ids : cloud[s] # "absent" => cloud'[s] # "absent"
    BY <1>4, <1>6 DEF Submit, ClaimElsewhere, StopTask, Open
  <2>2. Offered' /\ InTheQueue' /\ AtWork' /\ Reported' /\ jobs' = jobs
    BY <1>5, <2>1
  <2>3. OnTheWay'
    <3>1. InFlight \subseteq Ids /\ InFlight' = InFlight
      BY <1>2, <1>3, <2>1 DEF InFlight, RunsTheHead
    <3>2. poll.stage = "awaiting" => poll.task \in Ids
      BY <1>2 DEF RunsTheHead
    <3>. QED BY <1>2, <2>1, <2>2, <3>1, <3>2 DEF OnTheWay
  <2>. QED BY <2>2, <2>3 DEF OneWay
<1>7. CASE PollStart \/ PollFails
  <2>1. /\ UNCHANGED <<qvars, cloud, phase, outcome, ledger, told>>
        /\ poll'.stage # "awaiting" /\ poll'.batch = {}
    BY <1>7 DEF PollStart, PollFails, Remote, NoPoll
  <2>2. Offered' /\ InTheQueue' /\ AtWork' /\ Reported' /\ jobs' = jobs
    BY <1>5, <2>1 DEF Open
  <2>3. OnTheWay'
    BY <2>1 DEF OnTheWay, InFlight
  <2>. QED BY <2>2, <2>3 DEF OneWay
<1>8. CASE PollReply
  <2>1. QueueInv' /\ current' = current /\ Waiting' \subseteq Waiting /\ jobs' \subseteq jobs
    BY <1>2, <1>8, CancelFacts
  <2>2. /\ UNCHANGED <<Remote, phase, outcome, ledger>>
        /\ poll' = IF Listed = {} THEN NoPoll ELSE [NoPoll EXCEPT !.stage = "claiming", !.batch = Listed]
    BY <1>8 DEF PollReply
  <2>3. poll'.stage # "awaiting" /\ poll'.batch = Listed
    BY <2>2 DEF NoPoll
  <2>4. \A t \in Listed : t \in Ids /\ cloud[t] = "pending"
    BY DEF Listed, HandedOutOnce
  <2>5. Offered' /\ InTheQueue' /\ AtWork' /\ Reported'
    BY <1>2, <2>1, <2>2 DEF Offered, InTheQueue, AtWork, Reported, Open, Remote
  <2>6. OnTheWay'
    <3>1. InFlight' = Listed
      BY <2>3 DEF InFlight
    <3>2. \A t \in Listed : ledger[t] = "absent" /\ cloud[t] # "absent" /\ t \notin jobs
      BY <1>2, <2>4 DEF Offered, InTheQueue, Open
    <3>. QED BY <2>1, <2>2, <2>3, <3>1, <3>2 DEF OnTheWay, Remote
  <2>. QED BY <2>5, <2>6 DEF OneWay
<1>9. ASSUME NEW t \in Ids, Claim(t) PROVE OneWay'
  <2>1. PICK reaches \in {TRUE} \cup (IF "request" \in faults THEN {FALSE} ELSE {}) :
          LET granted == reaches /\ cloud[t] \in {"pending", "claimed"} IN
          /\ cloud' = [cloud EXCEPT ![t] = IF granted THEN "claimed" ELSE @]
          /\ poll' = [stage |-> "awaiting", batch |-> poll.batch \ {t}, task |-> t, won |-> granted]
    BY <1>9 DEF Claim
  <2>. DEFINE granted == reaches /\ cloud[t] \in {"pending", "claimed"}
  <2>2. /\ cloud' = [cloud EXCEPT ![t] = IF granted THEN "claimed" ELSE @]
        /\ poll' = [stage |-> "awaiting", batch |-> poll.batch \ {t}, task |-> t, won |-> granted]
    BY <2>1
  <2>3. /\ UNCHANGED <<qvars, phase, outcome, ledger, told>> /\ t \in poll.batch
    BY <1>9 DEF Claim
  <2>4. t \in InFlight /\ cloud[t] # "absent"
    BY <1>2, <2>3 DEF InFlight, OnTheWay
  <2>5. granted \/ "garbled" \in faults => ~Open(t)'
    <3>1. CASE granted
      BY <1>4, <2>2, <3>1 DEF Open
    <3>2. CASE ~granted /\ "garbled" \in faults
      <4>1. reaches
        BY <2>1, <3>2 DEF HandedOutOnce
      <4>. QED BY <1>4, <2>2, <2>4, <3>2, <4>1 DEF Open
    <3>. QED BY <3>1, <3>2
  <2>6. /\ \A s \in Ids : Open(s)' => Open(s)
        /\ \A s \in Ids : cloud[s] # "absent" => cloud'[s] # "absent"
    BY <1>4, <2>2 DEF Open
  <2>7. poll'.stage = "awaiting" /\ poll'.batch = poll.batch \ {t} /\ poll'.task = t /\ poll'.won = granted
    BY <2>2
  <2>. HIDE DEF granted
  <2>8. Offered' /\ InTheQueue' /\ AtWork' /\ Reported' /\ jobs' = jobs
    BY <1>5, <2>3, <2>6
  <2>9. InFlight' \subseteq InFlight /\ InFlight' \subseteq Ids
    BY <1>3, <2>3, <2>7 DEF InFlight
  <2>10. OnTheWay'
    BY <1>2, <2>3, <2>5, <2>6, <2>7, <2>8, <2>9 DEF OnTheWay
  <2>. QED BY <2>8, <2>10 DEF OneWay
<1>10. CASE ClaimReply
  <2>. DEFINE t == poll.task
  <2>1. /\ t \in Ids /\ poll.stage = "awaiting" /\ poll' = NextClaim
        /\ UNCHANGED <<Remote, clock, outcome, tries>>
    BY <1>2, <1>10 DEF ClaimReply, RunsTheHead
  <2>2. poll'.stage # "awaiting" /\ poll'.batch = poll.batch
    BY <1>2, <2>1 DEF NoPoll, NextClaim
  <2>3. InFlight' = poll.batch /\ poll.batch \subseteq InFlight /\ t \in InFlight /\ t \notin poll.batch
    BY <1>2, <2>1, <2>2 DEF InFlight, OnTheWay
  <2>4. CASE UNCHANGED <<qvars, phase, ledger>>
    <3>1. Offered' /\ InTheQueue' /\ AtWork' /\ Reported' /\ jobs' = jobs
      BY <1>5, <2>1, <2>4 DEF Remote, Open
    <3>2. OnTheWay'
      BY <1>2, <2>1, <2>2, <2>3, <2>4, <3>1 DEF OnTheWay, Remote
    <3>. QED BY <3>1, <3>2 DEF OneWay
  <2>5. CASE (poll.won \/ "garbled" \in faults) /\ EnqueueTask(t)
    <3>1. ledger[t] = "absent" /\ ~Open(t) /\ t # None
      BY <1>2, <2>1, <2>3, <2>5 DEF OnTheWay
    <3>. HIDE DEF t
    <3>2. /\ QueueInv'
          /\ \/ /\ UNCHANGED <<waiting, current, running, jobs, aborted, phase, ledger, begun>>
                /\ Waiting' = Waiting
             \/ /\ t \notin jobs /\ jobs' = jobs \cup {t} /\ Waiting' \subseteq Waiting \cup {t}
                /\ current' = current /\ UNCHANGED <<phase, ledger, begun>>
             \/ /\ t \notin jobs /\ jobs' = jobs \cup {t} /\ Waiting' \subseteq Waiting \cup {t}
                /\ current = None /\ current' \in Waiting \cup {t} /\ BeginNext
      BY <2>1, <2>5, EnqueueTaskFacts
    <3>3. told' = told /\ cloud' = cloud /\ outcome' = outcome
      BY <2>1 DEF Remote
    <3>4. /\ Offered' /\ InTheQueue' /\ AtWork' /\ Reported' /\ jobs' \subseteq jobs \cup {t}
          /\ \A s \in Ids : ledger'[s] # ledger[s] => s \in jobs \cup {t}
      <4>1. CASE UNCHANGED <<waiting, current, running, jobs, aborted, phase, ledger, begun>>
        <5>1. Waiting' = Waiting
          BY <4>1 DEF Waiting
        <5>. QED BY <1>2, <3>3, <4>1, <5>1 DEF Offered, InTheQueue, AtWork, Reported, Open
      <4>2. CASE /\ jobs' = jobs \cup {t} /\ Waiting' \subseteq Waiting \cup {t}
                 /\ current' = current /\ UNCHANGED <<phase, ledger, begun>>
        BY <1>2, <3>1, <3>3, <4>2 DEF Offered, InTheQueue, AtWork, Reported, Open
      <4>3. CASE /\ jobs' = jobs \cup {t} /\ Waiting' \subseteq Waiting \cup {t}
                 /\ current' \in Waiting \cup {t} /\ BeginNext
        BY <1>3, <2>1, <3>1, <3>2, <3>3, <4>3, BeginOnce
      <4>. QED BY <3>2, <4>1, <4>2, <4>3
    <3>5. OnTheWay'
      <4>1. ASSUME NEW s \in InFlight'
            PROVE  ledger'[s] = "absent" /\ cloud'[s] # "absent" /\ s \notin jobs'
        <5>1. s \in InFlight /\ s # t /\ s \in Ids
          BY <1>3, <2>3, <4>1 DEF t
        <5>2. ledger[s] = "absent" /\ cloud[s] # "absent" /\ s \notin jobs
          BY <1>2, <5>1 DEF OnTheWay
        <5>. QED BY <3>3, <3>4, <5>1, <5>2
      <4>. QED BY <2>2, <4>1 DEF OnTheWay
    <3>. QED BY <3>4, <3>5 DEF OneWay
  <2>. QED BY <1>10, <2>4, <2>5 DEF ClaimReply
(* steps of the run: the task they are about is in no poll *)
<1>11. ASSUME UNCHANGED <<qvars, poll>>, NEW c \in jobs,
              \A t \in Ids \ {c} : ledger'[t] = ledger[t] /\ cloud'[t] = cloud[t],
              Open(c)' => Open(c)
       PROVE  OnTheWay'
  <2>1. jobs' = jobs
    BY <1>2, <1>11, QueueStays
  <2>2. InFlight' = InFlight /\ InFlight \subseteq Ids
    BY <1>2, <1>3, <1>11 DEF InFlight, RunsTheHead
  <2>3. \A t \in InFlight : t # c
    BY <1>2 DEF OnTheWay
  <2>4. poll.stage = "awaiting" => poll.task \in InFlight
    BY DEF InFlight
  <2>. QED BY <1>2, <1>11, <2>1, <2>2, <2>3, <2>4 DEF OnTheWay, Open
<1>12. ASSUME UNCHANGED <<qvars, poll, told, cloud>>, phase = "working", phase' = "reporting",
              NEW s \in {"succeeded", "failed", "cancelled"}, outcome' = s, Ends(current, s)
       PROVE  OneWay'
  <2>1. current \in jobs /\ current \in Ids /\ current # None
    BY <1>2, <1>3, <1>12 DEF RunsTheHead
  <2>2. ledger[current] = "running" /\ told[current] = "nothing"
    BY <1>2, <1>12 DEF AtWork
  <2>3. ledger'[current] = s /\ \A t \in Ids \ {current} : ledger'[t] = ledger[t]
    BY <1>4, <1>12, <2>1, <2>2 DEF Ends
  <2>4. jobs' = jobs /\ Waiting' = Waiting /\ current' = current
    BY <1>2, <1>12, QueueStays
  <2>5. OnTheWay'
    BY <1>11, <1>12, <2>1, <2>3 DEF Open
  <2>6. Offered'
    BY <1>2, <1>12, <2>1, <2>3 DEF Offered, InTheQueue, Open
  <2>7. InTheQueue'
    BY <1>2, <1>3, <1>12, <2>3, <2>4 DEF InTheQueue, Open
  <2>8. AtWork'
    BY <1>12, <2>3, <2>4 DEF AtWork
  <2>9. Reported'
    BY <1>2, <1>12, <2>2, <2>3 DEF Reported
  <2>. QED BY <2>5, <2>6, <2>7, <2>8, <2>9 DEF OneWay
<1>13. CASE LoopReturns \/ TaskThrows
  BY <1>12, <1>13 DEF LoopReturns, TaskThrows, Remote
<1>14. CASE Report
  <2>1. current \in jobs /\ current \in Ids /\ current # None /\ ledger[current] = outcome
        /\ outcome # "none" /\ phase = "reporting"
    BY <1>2, <1>3, <1>14 DEF RunsTheHead, AtWork, Report
  <2>2. /\ UNCHANGED <<qvars, poll, ledger, outcome>>
        /\ phase' \in {"over", "reporting"}
        /\ \/ /\ told' = [told EXCEPT ![current] = outcome]
              /\ cloud' = [cloud EXCEPT ![current] = "answered"]
           \/ UNCHANGED <<told, cloud>>
    BY <1>14, <2>1 DEF Report
  <2>3. jobs' = jobs /\ Waiting' = Waiting /\ current' = current
    BY <1>2, <2>2, QueueStays
  <2>4. PICK c \in jobs : c = current
    BY <2>1
  <2>5. /\ \A t \in Ids \ {c} : cloud'[t] = cloud[t] /\ told'[t] = told[t]
        /\ told'[c] \in {told[c], outcome}
        /\ cloud'[c] = cloud[c] \/ cloud'[c] = "answered"
    BY <1>4, <2>1, <2>2, <2>4
  <2>6. OnTheWay' /\ Offered'
    <3>1. UNCHANGED <<qvars, poll>> /\ \A t \in Ids \ {c} : ledger'[t] = ledger[t] /\ cloud'[t] = cloud[t]
      BY <2>2, <2>5
    <3>2. \A t \in Ids : Open(t)' => Open(t)
      BY <2>5 DEF Open
    <3>3. OnTheWay'
      BY <1>3, <1>11, <3>1, <3>2
    <3>. QED BY <1>2, <2>2, <3>2, <3>3 DEF Offered
  <2>7. InTheQueue'
    BY <1>2, <1>3, <2>2, <2>3, <2>5 DEF InTheQueue, Open
  <2>8. AtWork'
    BY <2>1, <2>2, <2>3 DEF AtWork
  <2>9. Reported'
    <3>1. outcome # "absent"
      BY <1>2 DEF AgentTypeOK
    <3>2. ledger[current] # "absent"
      BY <2>1, <3>1
    <3>. QED BY <1>2, <2>1, <2>2, <2>4, <2>5, <3>2 DEF Reported
  <2>. QED BY <2>6, <2>7, <2>8, <2>9 DEF OneWay
<1>15. CASE TaskReturns
  <2>1. /\ QueueInv' /\ current \in jobs /\ jobs' = jobs \ {current} /\ Waiting' \subseteq Waiting
        /\ current' = None \/ current' \in Waiting
    BY <1>2, <1>15, SettleFacts DEF TaskReturns
  <2>2. BeginNext /\ told' = told /\ cloud' = cloud /\ poll' = poll
    BY <1>15 DEF TaskReturns, Remote
  <2>3. /\ Offered' /\ InTheQueue' /\ AtWork' /\ Reported'
        /\ \A s \in Ids : ledger'[s] # ledger[s] => s \in jobs \cup {None}
    <3>1. jobs' \subseteq jobs \cup {None} /\ Waiting' \subseteq Waiting \cup {None}
          /\ None \in Ids \cup {None} /\ (current' = None \/ current' \in Waiting \cup {None})
      BY <2>1
    <3>. QED BY <1>3, <2>1, <2>2, <3>1, BeginOnce
  <2>4. OnTheWay'
    <3>1. InFlight' = InFlight /\ InFlight \subseteq Ids
      BY <1>2, <1>3, <2>2 DEF InFlight, RunsTheHead
    <3>2. \A s \in InFlight : ledger'[s] = "absent"
      BY <1>2, <2>3, <3>1 DEF OnTheWay
    <3>. QED BY <1>2, <2>1, <2>2, <3>1, <3>2 DEF OnTheWay, Open
  <2>. QED BY <2>3, <2>4 DEF OneWay
<1>16. CASE Restart
  <2>1. QueueInv' /\ current' = None /\ jobs' = {} /\ Waiting' = {}
    BY <1>16, RestartFacts
  <2>2. UNCHANGED <<Remote, ledger>> /\ poll' = NoPoll /\ phase' = "none"
    BY <1>16 DEF Restart
  <2>. QED
    BY <1>2, <2>1, <2>2
    DEF OneWay, Offered, OnTheWay, InTheQueue, AtWork, Reported, Open, InFlight, Remote, NoPoll
<1>17. CASE Tick \/ UNCHANGED vars
  <2>1. UNCHANGED <<qvars, Remote, poll, phase, outcome, ledger>>
    BY <1>17 DEF Tick, vars, avars, Remote
  <2>2. Offered' /\ InTheQueue' /\ AtWork' /\ Reported' /\ jobs' = jobs
    BY <1>5, <2>1 DEF Remote, Open
  <2>3. OnTheWay'
    BY <1>2, <2>1, <2>2 DEF OnTheWay, InFlight, Open, Remote
  <2>. QED BY <2>2, <2>3 DEF OneWay
<1>. QED
  BY <1>6, <1>7, <1>8, <1>9, <1>10, <1>13, <1>14, <1>15, <1>16, <1>17 DEF Next, Polling, Working

(* The cloud and the run ledger tell the same story of every task that is  *)
(* handed out once, whatever requests, replies and posts are lost and      *)
(* whenever the daemon crashes (agent.js L461, L704).                      *)
THEOREM CloudAlwaysAgrees == Spec => []CloudAgreesWithLedger
<1>1. OnceInv => CloudAgreesWithLedger
  BY DEF OnceInv, OneWay, Reported, CloudAgreesWithLedger
<1>. QED BY <1>1, IntakeInvInit, IntakeInvStep, OnceInvInit, OnceInvStep, PTL DEF Spec
=============================================================================
