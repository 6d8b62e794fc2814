----------------------------- MODULE TaskQueue -----------------------------
(***************************************************************************)
(* The serial task queue: apps/desktop/src/taskqueue.js.                   *)
(*                                                                         *)
(* Everything between two awaits is one step.  enqueue() runs #drain, and  *)
(* the head job, up to the job's first await; when a job settles, the      *)
(* events, the bookkeeping and the start of the next job are one step too. *)
(* An event listener may throw: from "queued" the exception leaves         *)
(* enqueue(), from the others it ends #drain.                              *)
(***************************************************************************)
EXTENDS Naturals, SequencesExt, FiniteSets

CONSTANTS
  Ids,       \* run ids
  None,      \* no job runs
  MaxSize,   \* maxSize: jobs running and waiting
  Faulty     \* the events whose listeners may throw

Events == {"queued", "start", "settled", "done"}
ASSUME QueueAssumption ==
  /\ None \notin Ids
  /\ MaxSize \in Nat \ {0}
  /\ Faulty \subseteq Events

VARIABLES
  waiting,  \* #queue
  current,  \* #current
  running,  \* #running
  jobs,     \* #jobs: the ids that are known
  aborted   \* the current job's signal is aborted

qvars == <<waiting, current, running, jobs, aborted>>
-----------------------------------------------------------------------------
Waiting == ToSet(waiting)
Load == Len(waiting) + (IF running THEN 1 ELSE 0)

(* #drain ends: the finally block *)
Stop(q) ==
  /\ waiting' = q
  /\ current' = None
  /\ running' = FALSE
  /\ aborted' = FALSE

(* One turn of the loop of #drain over the queue q.                        *)
(* mutant: the youngest job goes first                                     *)
MutTurn(q) ==
  IF q = <<>> THEN Stop(q)
  ELSE /\ current' = q[Len(q)]
       /\ waiting' = SubSeq(q, 1, Len(q) - 1)
       /\ running' = TRUE
       /\ aborted' = FALSE
Turn(q) ==
  IF q = <<>> THEN Stop(q)
  ELSE \/ /\ current' = Head(q)
          /\ waiting' = Tail(q)
          /\ running' = TRUE
          /\ aborted' = FALSE
       \/ "start" \in Faulty /\ Stop(Tail(q))

QueueInit ==
  /\ waiting = <<>>
  /\ current = None
  /\ running = FALSE
  /\ jobs = {}
  /\ aborted = FALSE

(* mutant: the capacity check forgets the job that runs *)
MutEnqueue(j) ==
  /\ j \notin jobs
  /\ Len(waiting) < MaxSize
  /\ jobs' = jobs \cup {j}
  /\ IF running THEN waiting' = Append(waiting, j) /\ UNCHANGED <<current, running, aborted>>
                ELSE Turn(Append(waiting, j))
(* enqueue; a known id and a full queue are refused, which changes nothing *)
Enqueue(j) ==
  /\ j \notin jobs
  /\ Load < MaxSize
  /\ jobs' = jobs \cup {j}
  /\ \/ IF running
        THEN waiting' = Append(waiting, j) /\ UNCHANGED <<current, running, aborted>>
        ELSE Turn(Append(waiting, j))
     \/ /\ "queued" \in Faulty
        /\ waiting' = Append(waiting, j)
        /\ UNCHANGED <<current, running, aborted>>

(* cancel of a job that waits: it leaves the queue *)
CancelWaiting(j) ==
  /\ j \in jobs
  /\ j # current
  /\ \E i \in 1..Len(waiting) : waiting[i] = j /\ waiting' = RemoveAt(waiting, i)
  /\ jobs' = jobs \ {j}
  /\ UNCHANGED <<current, running, aborted>>

(* cancel of the job that runs: its signal is aborted, nothing more        *)
CancelCurrent(j) ==
  /\ j \in jobs
  /\ j = current
  /\ aborted' = TRUE
  /\ UNCHANGED <<waiting, current, running, jobs>>

(* job.run() resolves, or rejects and "error" or "cancelled" is emitted;   *)
(* then the id is forgotten, "done" is emitted and the loop turns.         *)
Settle ==
  /\ current # None
  /\ \/ "settled" \in Faulty /\ jobs' = jobs /\ Stop(waiting)
     \/ /\ jobs' = jobs \ {current}
        /\ Turn(waiting) \/ ("done" \in Faulty /\ Stop(waiting))

QueueNext ==
  \/ \E j \in Ids : Enqueue(j) \/ CancelWaiting(j) \/ CancelCurrent(j)
  \/ Settle

(* Jobs settle: each request they wait for has a timeout of its own.       *)
QueueSpec == QueueInit /\ [][QueueNext]_qvars /\ WF_qvars(Settle)
-----------------------------------------------------------------------------
QueueTypeOK ==
  /\ waiting \in Seq(Ids)
  /\ current \in Ids \cup {None}
  /\ running \in BOOLEAN
  /\ jobs \subseteq Ids
  /\ aborted \in BOOLEAN

(* The three records of who is in the queue agree: the ids that are        *)
(* refused as duplicates (#jobs) are those of the jobs that wait or run,   *)
(* each of them once, and the running flag tells whether one runs.         *)
BookIsExact ==
  /\ jobs = Waiting \cup (IF running THEN {current} ELSE {})
  /\ running <=> current # None
  /\ Cardinality(jobs) = Load

(* What holds even when listeners throw: one job at most is served, no job *)
(* is queued twice or queued while it is served, every job in the queue is *)
(* known, and at most maxSize of them are in it.                           *)
QueueInv ==
  /\ QueueTypeOK
  /\ running <=> current # None
  /\ \A i, k \in 1..Len(waiting) : waiting[i] = waiting[k] => i = k
  /\ current \notin Waiting
  /\ Waiting \cup ({current} \ {None}) \subseteq jobs
  /\ Load <= MaxSize

(* The queue implements the serial executor of the documentation.          *)
Executor == INSTANCE SerialExecutor WITH pending <- waiting, active <- current
=============================================================================
