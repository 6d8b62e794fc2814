----------------------------- MODULE RunLedger -----------------------------
(***************************************************************************)
(* The durable run ledger: RunStore of packages/engine/src/run-state.js.   *)
(*                                                                         *)
(* Every process that opens the ledger keeps all runs in memory and writes *)
(* the whole store, atomically, after each change.  A process may crash at *)
(* any point and reload the file; a write may fail after memory changed.   *)
(* The side effects themselves (the handler that tools/registry.js runs    *)
(* between startAttempt and finishAttempt) are the history variables       *)
(* "done" and "undone", which no operation of the store reads.             *)
(***************************************************************************)
EXTENDS Naturals, Sequences, FiniteSets

CONSTANTS
  Procs,        \* operating-system processes that open the same runs.json
  Runs,         \* run ids
  Calls,        \* what startAttempt is called with, see CallType
  Ops,          \* (tool, idempotency key) pairs
  NoOp,         \* the call carried no idempotency key
  Bindings,     \* whether a created run carries a plan and a policy revision
  Marks,        \* checkpoint payloads
  NoMark,       \* the empty payload {}
  Expiries,     \* expiry instants of approvals; 0 stands for "no expiry"
  Saves,        \* how a write of the file may end: TRUE, and FALSE when it may fail
  MaxRuns,      \* MAX_RUNS: runs written to disk
  MaxAttempts,  \* MAX_ATTEMPTS: attempts of a run
  MaxPoints,    \* MAX_CHECKPOINTS: recovery points kept
  MaxApprovals, \* approvals kept (and rollback events: MAX_ROLLBACKS)
  MaxIssued,    \* bound: attempts issued in a behaviour
  MaxClock      \* bound: instants

CallType == [op : Ops \cup {NoOp}, se : BOOLEAN, idem : BOOLEAN, comp : BOOLEAN]

(* A tool has one set of flags (registry.js reads them from the tool), so  *)
(* two calls that carry the same key for the same tool agree on them.      *)
ASSUME LedgerAssumption ==
  /\ IsFiniteSet(Runs)
  /\ NoOp \notin Ops
  /\ NoMark \notin Marks
  /\ Bindings \subseteq BOOLEAN
  /\ Saves \subseteq BOOLEAN
  /\ Calls \subseteq CallType
  /\ \A c, d \in Calls : c.op = d.op /\ c.op # NoOp => c = d
  /\ Expiries \subseteq Nat
  /\ {MaxRuns, MaxAttempts, MaxPoints, MaxApprovals, MaxIssued, MaxClock} \subseteq Nat

VARIABLES
  mem,      \* mem[p].runs[r]: the record process p holds; mem[p].newer: <<a, b>> when a was updated after b
  disk,     \* the file: the runs it holds and the order of their updatedAt
  inflight, \* inflight[p]: attempts whose handler p is running
  issued,   \* attempt ids handed out so far
  clock,    \* Date.now(), in instants
  done,     \* history: effects that were performed and stand
  undone,   \* history: attempts whose effect was compensated
  removed   \* history: runs an operator told the store to forget

vars == <<mem, disk, inflight, issued, clock, done, undone, removed>>
-----------------------------------------------------------------------------
Active == {"created", "planned", "awaiting_approval", "running", "verifying", "rollback_required"}
Terminal == {"succeeded", "failed", "cancelled", "rolled_back"}
Status == Active \cup Terminal

Transitions ==
  [s \in Status |->
    CASE s = "created" -> {"planned", "awaiting_approval", "running", "cancelled", "failed"}
      [] s = "planned" -> {"awaiting_approval", "running", "cancelled", "failed"}
      [] s = "awaiting_approval" -> {"planned", "running", "cancelled", "failed"}
      [] s = "running" -> {"verifying", "succeeded", "failed", "cancelled", "rollback_required"}
      [] s = "verifying" -> {"succeeded", "failed", "rollback_required"}
      [] s = "rollback_required" -> {"rolled_back", "failed"}
      [] OTHER -> {}]

AttemptStatus == {"started", "succeeded", "failed", "unknown", "compensated"}
Attempt == [id : Nat, call : Calls, st : AttemptStatus]
Point == [index : Nat, data : Marks \cup {NoMark}]
Approval == [decision : {"approved", "rejected", "expired"}, exp : Nat]
Rollback == [from : Nat, to : Nat]
Work == [run : Runs, op : Ops \cup {NoOp}, id : Nat]

RunRecord ==
  [status : Status \cup {"absent"}, bound : BOOLEAN, point : Marks \cup {NoMark},
   points : Seq(Point), rollbacks : Seq(Rollback), approvals : Seq(Approval),
   attempts : Seq(Attempt)]

Absent ==
  [status |-> "absent", bound |-> FALSE, point |-> NoMark, points |-> <<>>,
   rollbacks |-> <<>>, approvals |-> <<>>, attempts |-> <<>>]

Known(store, r) == store.runs[r].status # "absent"

LastN(s, n) == SubSeq(s, IF Len(s) > n THEN Len(s) - n + 1 ELSE 1, Len(s))

(* mutant: any key makes an unfinished side effect retryable *)
MutRetryable(a) == ~a.call.se \/ (a.st # "succeeded" /\ a.call.op # NoOp)
(* retryDecision, of an attempt found under the key that is asked for *)
Retryable(a) ==
  \/ ~a.call.se
  \/ /\ a.st # "succeeded"
     /\ \/ a.call.idem /\ a.call.op # NoOp
        \/ a.call.comp /\ a.st = "compensated"

SameKey(a, c) == c.op # NoOp /\ a.call.op = c.op /\ a.st # "compensated"

(* The verdict rests on the FIRST attempt under the key: attempts.find(..) *)
RetryAllowed(rec, c) ==
  \A i \in 1..Len(rec.attempts) :
    (/\ SameKey(rec.attempts[i], c)
     /\ \A j \in 1..(i - 1) : ~SameKey(rec.attempts[j], c))
    => Retryable(rec.attempts[i])

(* approvalStatus: the latest receipt that says "approved", if unexpired *)
Approved(rec, now) ==
  \E i \in 1..Len(rec.approvals) :
    /\ rec.approvals[i].decision = "approved"
    /\ \A j \in 1..Len(rec.approvals) : j > i => rec.approvals[j].decision # "approved"
    /\ rec.approvals[i].exp # 0 => rec.approvals[i].exp > now

(* mutant: an attempt that never reported back is taken for harmless *)
MutInDoubt(a) == a.st = "unknown"
(* recoverable(): the review an active run is sent to after a restart *)
InDoubt(a) == a.st \in {"started", "unknown"}
NeedsReview(rec) ==
  \E i \in 1..Len(rec.attempts) : InDoubt(rec.attempts[i]) /\ ~Retryable(rec.attempts[i])
Recovery(rec) ==
  IF rec.status \notin Active THEN "not_listed"
  ELSE IF NeedsReview(rec) THEN "manual_review" ELSE "resume"
-----------------------------------------------------------------------------
Store == [runs : [Runs -> RunRecord], newer : SUBSET (Runs \X Runs)]

Empty == [runs |-> [r \in Runs |-> Absent], newer |-> {}]

(* #save writes the MaxRuns most recently updated runs and drops the rest. *)
(* Two updates never share a time stamp here.                              *)
Kept(store) ==
  {r \in Runs : /\ Known(store, r)
                /\ Cardinality({s \in Runs : Known(store, s) /\ <<s, r>> \in store.newer}) < MaxRuns}

Saved(store) ==
  [runs  |-> [r \in Runs |-> IF r \in Kept(store) THEN store.runs[r] ELSE Absent],
   newer |-> store.newer \cap (Kept(store) \X Kept(store))]

(* #put: a touched run becomes the most recently updated one *)
Updated(store, r, rec) ==
  [runs  |-> [store.runs EXCEPT ![r] = rec],
   newer |-> {x \in store.newer : x[1] # r /\ x[2] # r}
             \cup {<<r, s>> : s \in {s \in Runs \ {r} : Known(store, s)}}]

(* mutant: the store is written before memory is updated *)
MutPut(p, r, rec, saves) ==
  /\ mem' = [mem EXCEPT ![p] = Updated(mem[p], r, rec)]
  /\ disk' = IF saves THEN Saved(mem[p]) ELSE disk

(* Memory changes first; saving may fail (disk full), and then throws.     *)
Put(p, r, rec, saves) ==
  /\ mem' = [mem EXCEPT ![p] = Updated(mem[p], r, rec)]
  /\ disk' = IF saves THEN Saved(Updated(mem[p], r, rec)) ELSE disk

WithPoint(rec, m) ==
  IF m = NoMark THEN rec
  ELSE [rec EXCEPT !.point = m,
                   !.points = LastN(Append(@, [index |-> Len(@), data |-> m]), MaxPoints)]

History == <<done, undone, removed>>
-----------------------------------------------------------------------------
Init ==
  /\ mem = [p \in Procs |-> Empty]
  /\ disk = Empty
  /\ inflight = [p \in Procs |-> {}]
  /\ issued = 0
  /\ clock = 0
  /\ done = {} /\ undone = {} /\ removed = {}

(* create: an id that exists is returned as it is *)
Create(p, r, b, m, saves) ==
  /\ ~Known(mem[p], r)
  /\ Put(p, r, [Absent EXCEPT !.status = "created", !.bound = b, !.point = m], saves)
  /\ UNCHANGED <<inflight, issued, clock, History>>

(* transition: the same status again is allowed, an unlisted one throws *)
Transition(p, r, s, m, saves) ==
  LET rec == mem[p].runs[r] IN
  /\ Known(mem[p], r)
  /\ s = rec.status \/ s \in Transitions[rec.status]
  /\ Put(p, r, WithPoint([rec EXCEPT !.status = s], m), saves)
  /\ UNCHANGED <<inflight, issued, clock, History>>

(* checkpoint: whatever the status *)
Checkpoint(p, r, m, saves) ==
  LET rec == mem[p].runs[r] IN
  /\ Known(mem[p], r)
  /\ Put(p, r, [rec EXCEPT !.point = m,
                           !.points = LastN(Append(@, [index |-> Len(@), data |-> m]), MaxPoints)],
         saves)
  /\ UNCHANGED <<inflight, issued, clock, History>>

(* cancel: a terminal run is left alone; from verifying and                *)
(* rollback_required the transition it delegates to throws.                *)
Cancel(p, r, saves) ==
  LET rec == mem[p].runs[r] IN
  /\ rec.status \in Active
  /\ "cancelled" \in Transitions[rec.status]
  /\ Put(p, r, [rec EXCEPT !.status = "cancelled"], saves)
  /\ UNCHANGED <<inflight, issued, clock, History>>

(* resume: any active state goes straight to running *)
Resume(p, r, saves) ==
  LET rec == mem[p].runs[r] IN
  /\ rec.status \in Active \ {"running"}
  /\ Put(p, r, [rec EXCEPT !.status = "running"], saves)
  /\ UNCHANGED <<inflight, issued, clock, History>>

(* mutant: rolling back cuts off the points after the target *)
MutRollBack(p, r, t, saves) ==
  LET rec == mem[p].runs[r] IN
  /\ rec.status \notin {"absent", "succeeded", "cancelled"}
  /\ t \in 0..(Len(rec.points) - 1)
  /\ Put(p, r, [rec EXCEPT !.status = "rolled_back", !.point = rec.points[t + 1].data,
                           !.points = SubSeq(@, 1, t + 1)], saves)
  /\ UNCHANGED <<inflight, issued, clock, History>>

(* rollback to the recovery point at POSITION t; the default is the one    *)
(* before the last.                                                        *)
RollBack(p, r, t, saves) ==
  LET rec == mem[p].runs[r] IN
  /\ rec.status \notin {"absent", "succeeded", "cancelled"}
  /\ t \in 0..(Len(rec.points) - 1)
  /\ Put(p, r, [rec EXCEPT !.status = "rolled_back",
                           !.point = rec.points[t + 1].data,
                           !.rollbacks = LastN(Append(@, [from |-> Len(rec.points) - 1, to |-> t]),
                                               MaxApprovals)], saves)
  /\ UNCHANGED <<inflight, issued, clock, History>>

Approve(p, r, d, e, saves) ==
  LET rec == mem[p].runs[r] IN
  /\ rec.status = "awaiting_approval"
  /\ rec.bound
  /\ Put(p, r, [rec EXCEPT !.approvals = LastN(Append(@, [decision |-> d, exp |-> e]), MaxApprovals)],
         saves)
  /\ UNCHANGED <<inflight, issued, clock, History>>

(* startAttempt: the caller runs the handler only when this returned, so   *)
(* an attempt whose record could not be saved is never run.                *)
StartAttempt(p, r, c, saves) ==
  LET rec == mem[p].runs[r]
      gateOpens == c.se /\ rec.status = "awaiting_approval"
      started == [id |-> issued + 1, call |-> c, st |-> "started"] IN
  /\ Known(mem[p], r)
  /\ issued < MaxIssued
  /\ Len(rec.attempts) < MaxAttempts
  /\ gateOpens => Approved(rec, clock)
  /\ c.se => c.op # NoOp
  /\ RetryAllowed(rec, c)
  /\ Put(p, r, [rec EXCEPT !.status = IF gateOpens THEN "running" ELSE @,
                           !.attempts = Append(@, started)], saves)
  /\ issued' = issued + 1
  /\ inflight' = IF saves
                 THEN [inflight EXCEPT ![p] = @ \cup {[run |-> r, op |-> c.op, id |-> issued + 1]}]
                 ELSE inflight
  /\ UNCHANGED <<clock, History>>

(* The handler acts on the world *)
Perform(p, w) ==
  /\ w \in inflight[p]
  /\ w \notin done
  /\ done' = done \cup {w}
  /\ UNCHANGED <<mem, disk, inflight, issued, clock, undone, removed>>

(* finishAttempt: by the registry when the handler settles, or later by an *)
(* operator who reviews the run.  Callers are honest: "succeeded" is said  *)
(* of an effect that happened, "compensated" of one that was undone.       *)
FinishAttempt(p, r, i, st, saves) ==
  LET rec == mem[p].runs[r]
      w == [run |-> r, op |-> rec.attempts[i].call.op, id |-> rec.attempts[i].id] IN
  /\ Known(mem[p], r)
  /\ i \in 1..Len(rec.attempts)
  /\ st = "succeeded" => w \in done
  /\ st = "compensated" => \A q \in Procs : w \notin inflight[q]
  /\ Put(p, r, [rec EXCEPT !.attempts[i].st = st], saves)
  /\ inflight' = [inflight EXCEPT ![p] = @ \ {w}]
  /\ IF st = "compensated"
     THEN done' = done \ {w} /\ undone' = undone \cup {w}
     ELSE UNCHANGED <<done, undone>>
  /\ UNCHANGED <<issued, clock, removed>>

(* remove: the run is forgotten *)
Remove(p, r, saves) ==
  LET left == [mem[p] EXCEPT !.runs[r] = Absent, !.newer = {x \in @ : x[1] # r /\ x[2] # r}] IN
  /\ Known(mem[p], r)
  /\ mem' = [mem EXCEPT ![p] = left]
  /\ disk' = IF saves THEN Saved(left) ELSE disk
  /\ removed' = removed \cup {r}
  /\ UNCHANGED <<inflight, issued, clock, done, undone>>

(* A crash and the next start: whatever the process was doing is gone and  *)
(* #load reads the file back.                                              *)
Restart(p) ==
  /\ mem' = [mem EXCEPT ![p] = disk]
  /\ inflight' = [inflight EXCEPT ![p] = {}]
  /\ UNCHANGED <<disk, issued, clock, History>>

Tick ==
  /\ clock < MaxClock
  /\ clock' = clock + 1
  /\ UNCHANGED <<mem, disk, inflight, issued, History>>

Operation(p, r, saves) ==
  \/ \E b \in Bindings, m \in Marks \cup {NoMark} : Create(p, r, b, m, saves)
  \/ \E s \in Status, m \in Marks \cup {NoMark} : Transition(p, r, s, m, saves)
  \/ \E m \in Marks : Checkpoint(p, r, m, saves)
  \/ Cancel(p, r, saves)
  \/ Resume(p, r, saves)
  \/ \E t \in 0..(MaxPoints - 1) : RollBack(p, r, t, saves)
  \/ \E d \in {"approved", "rejected", "expired"}, e \in Expiries : Approve(p, r, d, e, saves)
  \/ \E c \in Calls : StartAttempt(p, r, c, saves)
  \/ \E i \in 1..MaxAttempts, st \in AttemptStatus \ {"started"} : FinishAttempt(p, r, i, st, saves)
  \/ Remove(p, r, saves)

Next ==
  \/ \E p \in Procs, r \in Runs, saves \in Saves : Operation(p, r, saves)
  \/ \E p \in Procs : \E w \in inflight[p] : Perform(p, w)
  \/ \E p \in Procs : Restart(p)
  \/ Tick

Spec == Init /\ [][Next]_vars
-----------------------------------------------------------------------------
(* Every variable has its type; the caps of the code hold in memory and on *)
(* disk (run-state.js L25-29).                                             *)
RecordOK(rec) ==
  /\ rec \in RunRecord
  /\ Len(rec.attempts) <= MaxAttempts
  /\ Len(rec.points) <= MaxPoints
  /\ Len(rec.approvals) <= MaxApprovals
  /\ Len(rec.rollbacks) <= MaxApprovals
StoreOK(store) == store \in Store /\ \A r \in Runs : RecordOK(store.runs[r])
TypeOK ==
  /\ mem \in [Procs -> Store]
  /\ \A p \in Procs : StoreOK(mem[p])
  /\ StoreOK(disk)
  /\ inflight \in [Procs -> SUBSET Work]
  /\ issued \in Nat
  /\ clock \in Nat
  /\ done \subseteq Work
  /\ undone \subseteq Work
  /\ removed \subseteq Runs

(* Effects that may not be repeated: side effects that are not idempotent. *)
OneShot == {o \in Ops : \E c \in Calls : c.op = o /\ c.se /\ ~c.idem}

(* README.md:49, "A side effect is never replayed merely because a process *)
(* restarted": over any number of crashes, failed saves, retries and       *)
(* reviews, an effect that is not idempotent stands at most once under its *)
(* key (startAttempt, retryDecision).                                      *)
NoBlindReplay ==
  \A v, w \in done :
    v.run = w.run /\ v.op = w.op /\ v.op \in OneShot /\ v.run \notin removed => v = w

RecordedIn(store, w) ==
  \E i \in 1..Len(store.runs[w.run].attempts) :
    store.runs[w.run].attempts[i].id = w.id /\ store.runs[w.run].attempts[i].call.op = w.op

(* Nothing happens to the world that the file does not know of: the record *)
(* of an attempt is on disk before its handler runs, and no later save of  *)
(* any run drops it.                                                       *)
EffectIsDurable == \A w \in done : w.run \notin removed => RecordedIn(disk, w)

(* docs/SLA-DR-BC.md:12, "Unsafe interrupted side effects require          *)
(* manual_review": when no process is running an effect that is not        *)
(* idempotent and its outcome was never written down, recoverable() sends  *)
(* its run to review, also after a restart.                                *)
InterruptedEffectIsReviewed ==
  \A p \in Procs : \A w \in done \ inflight[p] :
    w.op \in OneShot /\ w.run \notin removed /\ mem[p].runs[w.run].status \in Active =>
      \/ Recovery(mem[p].runs[w.run]) = "manual_review"
      \/ \E i \in 1..Len(mem[p].runs[w.run].attempts) :
           /\ mem[p].runs[w.run].attempts[i].id = w.id
           /\ mem[p].runs[w.run].attempts[i].st \in {"succeeded", "failed"}

(* A run whose end was written to disk never becomes active again, neither *)
(* by a late operation nor by a process that restarts, unless an operator  *)
(* removed it: the one way on is from failed to rolled_back.               *)
TerminalIsFinal ==
  [][\A r \in Runs :
       r \notin removed' /\ disk.runs[r].status \in Terminal =>
         \/ disk'.runs[r].status = disk.runs[r].status
         \/ disk.runs[r].status = "failed" /\ disk'.runs[r].status = "rolled_back"]_disk

(* "every checkpoint appends an immutable recovery point" (L11): what disk *)
(* holds afterwards is what it held, plus new points, less the oldest ones *)
(* and those only to stay within the cap.                                  *)
PointsAreImmutable ==
  [][\A r \in Runs :
       r \notin removed' /\ Known(disk, r) =>
         \E k \in 0..Len(disk.runs[r].points) :
           /\ k > 0 => Len(disk'.runs[r].points) = MaxPoints
           /\ \A i \in (k + 1)..Len(disk.runs[r].points) :
                /\ i - k <= Len(disk'.runs[r].points)
                /\ disk'.runs[r].points[i - k] = disk.runs[r].points[i]]_disk

(* The approval gate: the attempt that takes a run out of                  *)
(* awaiting_approval finds a receipt that approves and has not expired     *)
(* (startAttempt, approvalStatus; run-state.test.mjs:50).                  *)
GateNeedsReceipt ==
  [][\A p \in Procs, r \in Runs :
       /\ mem[p].runs[r].status = "awaiting_approval"
       /\ issued' = issued + 1
       /\ Len(mem'[p].runs[r].attempts) = Len(mem[p].runs[r].attempts) + 1
       /\ mem'[p].runs[r].attempts[Len(mem'[p].runs[r].attempts)].call.se
       => \E i \in 1..Len(mem[p].runs[r].approvals) :
            /\ mem[p].runs[r].approvals[i].decision = "approved"
            /\ mem[p].runs[r].approvals[i].exp \notin 1..clock]_mem

(* What was recorded of a run stands (run-state.js): its end is final, its *)
(* recovery points are immutable, its approval gate is passed with a       *)
(* receipt only, and versions, attempts and statuses stay in their ranges  *)
(* - over late operations, caps, expiry and restarts.                      *)
RecordsStand == []TypeOK /\ TerminalIsFinal /\ PointsAreImmutable /\ GateNeedsReceipt
=============================================================================
