-------------------------- MODULE RunLedgerProofs --------------------------
(***************************************************************************)
(* Theorems about RunLedger, for every value of its constants.             *)
(*                                                                         *)
(* The strengthening is local to a store: what a record says of its own    *)
(* attempts (RecordInv).  An operation builds one new record, so each      *)
(* action only has to show RecordInv of it; Put and Saved carry it over to *)
(* memory and to the file.                                                 *)
(***************************************************************************)
EXTENDS RunLedger, FiniteSetTheorems, SequenceTheorems, TLAPS

WorkOf(r, a) == [run |-> r, op |-> a.call.op, id |-> a.id]

(* Of a record of run r: its ids were issued; a compensated attempt is     *)
(* known to be undone; an effect that may not be repeated has at most one  *)
(* attempt that is not undone.                                             *)
RecordInv(r, rec, n, u) ==
  /\ RecordOK(rec)
  /\ rec.status = "absent" => rec.attempts = <<>>
  /\ \A i \in 1..Len(rec.attempts) : rec.attempts[i].id \in 1..n
  /\ \A i \in 1..Len(rec.attempts) :
       rec.attempts[i].st = "compensated" => WorkOf(r, rec.attempts[i]) \in u
  /\ \A i, j \in 1..Len(rec.attempts) :
       /\ rec.attempts[i].call.op = rec.attempts[j].call.op
       /\ rec.attempts[i].call.op \in OneShot
       /\ WorkOf(r, rec.attempts[i]) \notin u
       /\ WorkOf(r, rec.attempts[j]) \notin u
       => i = j

StoreInv(store, n, u) ==
  /\ store \in Store
  /\ \A r \in Runs : <<r, r>> \notin store.newer
  /\ \A r \in Runs : RecordInv(r, store.runs[r], n, u)

StoresInv ==
  /\ mem \in [Procs -> Store]
  /\ \A p \in Procs : StoreInv(mem[p], issued, undone)
  /\ StoreInv(disk, issued, undone)

(* What is known of the attempts whose handlers run or ran.                *)
WorkInv ==
  /\ inflight \in [Procs -> SUBSET Work]
  /\ issued \in Nat
  /\ clock \in Nat
  /\ done \subseteq Work
  /\ undone \subseteq Work
  /\ removed \subseteq Runs

IInv == StoresInv /\ WorkInv
-----------------------------------------------------------------------------
(* slice(-n) returns a sequence over the same set, of at most n elements.  *)
LEMMA LastNProperties ==
  ASSUME NEW S, NEW s \in Seq(S), NEW n \in Nat
  PROVE  LastN(s, n) \in Seq(S) /\ Len(LastN(s, n)) <= n
<1>. DEFINE m == IF Len(s) > n THEN Len(s) - n + 1 ELSE 1
<1>1. Len(s) \in Nat /\ m \in 1..(Len(s) + 1)
  BY LenProperties
<1>2. \A i \in m..Len(s) : s[i] \in S
  BY <1>1, ElementOfSeq
<1>3. /\ SubSeq(s, m, Len(s)) \in Seq(S)
      /\ Len(SubSeq(s, m, Len(s))) = IF m <= Len(s) THEN Len(s) - m + 1 ELSE 0
  <2>. HIDE DEF m
  <2>1. m \in Int /\ Len(s) \in Int
    BY <1>1
  <2>. QED BY <1>2, <2>1, SubSeqProperties
<1>4. LastN(s, n) = SubSeq(s, m, Len(s))
  BY DEF LastN
<1>. QED BY <1>1, <1>3, <1>4

(* A record that keeps the attempts of another one keeps what is known of  *)
(* them.                                                                   *)
LEMMA SameAttempts ==
  ASSUME NEW r, NEW rec, NEW new, NEW n, NEW u,
         RecordInv(r, rec, n, u), RecordOK(new),
         new.attempts = rec.attempts, new.status # "absent"
  PROVE  RecordInv(r, new, n, u)
BY DEF RecordInv

(* Issuing ids and undoing effects elsewhere does not disturb a record.    *)
LEMMA RecordMonotone ==
  ASSUME NEW r, NEW rec, NEW n \in Nat, NEW m \in Nat, n <= m, NEW u, NEW v, u \subseteq v,
         RecordInv(r, rec, n, u)
  PROVE  RecordInv(r, rec, m, v)
BY DEF RecordInv

LEMMA AbsentInv ==
  ASSUME NEW r, NEW n \in Nat, NEW u
  PROVE  RecordInv(r, Absent, n, u)
<1>1. /\ <<>> \in Seq(Point) /\ <<>> \in Seq(Rollback)
      /\ <<>> \in Seq(Approval) /\ <<>> \in Seq(Attempt)
  BY EmptySeq
<1>2. Absent \in RunRecord
  BY <1>1 DEF Absent, RunRecord
<1>3. Len(<<>>) = 0
  OBVIOUS
<1>. QED BY <1>2, <1>3, LedgerAssumption DEF RecordInv, RecordOK, Absent

LEMMA EmptyInv ==
  ASSUME NEW n \in Nat, NEW u
  PROVE  StoreInv(Empty, n, u)
<1>1. Absent \in RunRecord
  BY AbsentInv DEF RecordInv, RecordOK
<1>. QED BY <1>1, AbsentInv DEF StoreInv, Empty, Store

(* #put leaves a good store good when the record it stores is good.        *)
LEMMA UpdatedInv ==
  ASSUME NEW store, NEW r \in Runs, NEW rec, NEW n, NEW u,
         StoreInv(store, n, u), RecordInv(r, rec, n, u)
  PROVE  StoreInv(Updated(store, r, rec), n, u)
<1>1. rec \in RunRecord
  BY DEF RecordInv, RecordOK
<1>2. store \in Store /\ store.runs \in [Runs -> RunRecord] /\ store.newer \in SUBSET (Runs \X Runs)
  BY DEF StoreInv, Store
<1>3. Updated(store, r, rec).runs = [store.runs EXCEPT ![r] = rec]
  BY DEF Updated
<1>4. Updated(store, r, rec).newer =
        {x \in store.newer : x[1] # r /\ x[2] # r}
        \cup {<<r, s>> : s \in {s \in Runs \ {r} : Known(store, s)}}
  BY DEF Updated
<1>5. Updated(store, r, rec) \in Store
  BY <1>1, <1>2 DEF Updated, Store
<1>6. \A q \in Runs : <<q, q>> \notin Updated(store, r, rec).newer
  BY <1>4 DEF StoreInv
<1>7. \A q \in Runs : RecordInv(q, Updated(store, r, rec).runs[q], n, u)
  BY <1>2, <1>3 DEF StoreInv
<1>. QED BY <1>5, <1>6, <1>7 DEF StoreInv

(* #save keeps a good store good, whichever runs it drops.                 *)
LEMMA SavedInv ==
  ASSUME NEW store, NEW n \in Nat, NEW u, StoreInv(store, n, u)
  PROVE  StoreInv(Saved(store), n, u)
<1>1. store.runs \in [Runs -> RunRecord] /\ store.newer \in SUBSET (Runs \X Runs)
  BY DEF StoreInv, Store
<1>2. Absent \in RunRecord
  BY AbsentInv DEF RecordInv, RecordOK
<1>3. Saved(store).runs = [r \in Runs |-> IF r \in Kept(store) THEN store.runs[r] ELSE Absent]
  BY DEF Saved
<1>4. Saved(store).newer = store.newer \cap (Kept(store) \X Kept(store))
  BY DEF Saved
<1>5. Saved(store) \in Store
  BY <1>1, <1>2 DEF Saved, Store
<1>6. \A r \in Runs : RecordInv(r, Saved(store).runs[r], n, u)
  BY <1>3, AbsentInv DEF StoreInv
<1>. QED BY <1>4, <1>5, <1>6 DEF StoreInv

(* Hence a Put of a good record leaves every copy of the ledger good.      *)
LEMMA PutInv ==
  ASSUME NEW p \in Procs, NEW r \in Runs, NEW saves \in Saves, NEW rec,
         NEW n \in Nat, NEW u, StoresInv, issued \in Nat, issued <= n, undone \subseteq u,
         RecordInv(r, rec, n, u), Put(p, r, rec, saves)
  PROVE  /\ mem' \in [Procs -> Store]
         /\ \A q \in Procs : StoreInv(mem'[q], n, u)
         /\ StoreInv(disk', n, u)
<1>1. \A store : StoreInv(store, issued, undone) => StoreInv(store, n, u)
  BY RecordMonotone DEF StoreInv
<1>2. \A q \in Procs : StoreInv(mem[q], n, u)
  BY <1>1 DEF StoresInv
<1>3. StoreInv(Updated(mem[p], r, rec), n, u)
  BY <1>2, UpdatedInv
<1>4. Updated(mem[p], r, rec) \in Store
  BY <1>3 DEF StoreInv
<1>5. mem' = [mem EXCEPT ![p] = Updated(mem[p], r, rec)]
  BY DEF Put
<1>6. mem' \in [Procs -> Store] /\ \A q \in Procs : StoreInv(mem'[q], n, u)
  BY <1>2, <1>3, <1>4, <1>5 DEF StoresInv
<1>7. StoreInv(disk, n, u)
  BY <1>1 DEF StoresInv
<1>8. StoreInv(disk', n, u)
  BY <1>3, <1>7, SavedInv DEF Put
<1>. QED BY <1>6, <1>8

(* The form every operation but remove and restart has.                    *)
LEMMA PutStep ==
  ASSUME NEW p \in Procs, NEW r \in Runs, NEW saves \in Saves, NEW rec, IInv,
         issued' \in Nat, issued <= issued', undone \subseteq undone',
         RecordInv(r, rec, issued', undone'), Put(p, r, rec, saves)
  PROVE  StoresInv'
<1>1. issued \in Nat
  BY DEF IInv, WorkInv
<1>2. StoresInv
  BY DEF IInv
<1>. QED BY <1>1, <1>2, PutInv DEF StoresInv
-----------------------------------------------------------------------------
LEMMA RecordOf ==
  ASSUME NEW p \in Procs, NEW r \in Runs, IInv
  PROVE  LET rec == mem[p].runs[r] IN
         /\ RecordInv(r, rec, issued, undone) /\ RecordOK(rec) /\ rec \in RunRecord
         /\ issued \in Nat
         /\ rec.attempts \in Seq(Attempt) /\ Len(rec.attempts) \in Nat
<1>1. RecordInv(r, mem[p].runs[r], issued, undone) /\ issued \in Nat
  BY DEF IInv, WorkInv, StoresInv, StoreInv
<1>2. RecordOK(mem[p].runs[r]) /\ mem[p].runs[r] \in RunRecord
  BY <1>1 DEF RecordInv, RecordOK
<1>3. mem[p].runs[r].attempts \in Seq(Attempt)
  BY <1>2 DEF RunRecord
<1>. QED BY <1>1, <1>2, <1>3, LenProperties

(* An operation that stores the old record under a new status, point,      *)
(* rollback or approval list, and touches nothing else.                    *)
LEMMA QuietStep ==
  ASSUME NEW p \in Procs, NEW r \in Runs, NEW saves \in Saves, NEW rec, IInv,
         RecordOK(rec), rec.attempts = mem[p].runs[r].attempts, rec.status # "absent",
         Put(p, r, rec, saves),
         UNCHANGED <<inflight, issued, clock, History>>
  PROVE  IInv'
<1>1. /\ issued' = issued /\ undone' = undone /\ inflight' = inflight
      /\ clock' = clock /\ done' = done /\ removed' = removed
  BY DEF History
<1>2. RecordInv(r, rec, issued, undone)
  BY RecordOf, SameAttempts
<1>3. issued \in Nat
  BY DEF IInv, WorkInv
<1>4. StoresInv'
  BY <1>1, <1>2, <1>3, PutStep
<1>. QED BY <1>1, <1>4 DEF IInv, WorkInv

LEMMA CreateInv ==
  ASSUME NEW p \in Procs, NEW r \in Runs, NEW saves \in Saves, NEW b \in Bindings,
         NEW m \in Marks \cup {NoMark}, IInv, Create(p, r, b, m, saves)
  PROVE  IInv'
<1>. DEFINE rec == [Absent EXCEPT !.status = "created", !.bound = b, !.point = m]
<1>1. RecordInv(r, Absent, 0, undone)
  BY AbsentInv
<1>2. RecordOK(rec) /\ rec.attempts = Absent.attempts /\ rec.status # "absent"
  BY <1>1, LedgerAssumption DEF RecordInv, RecordOK, RunRecord, Absent, Status, Active
<1>3. mem[p].runs[r].attempts = Absent.attempts
  BY RecordOf DEF Create, Known, RecordInv, Absent
<1>. QED BY <1>2, <1>3, QuietStep DEF Create

(* A recovery point pushed on a good record leaves it good.                *)
LEMMA PushedPoints ==
  ASSUME NEW rec, RecordOK(rec), NEW m \in Marks \cup {NoMark}
  PROVE  LET pts == LastN(Append(rec.points, [index |-> Len(rec.points), data |-> m]), MaxPoints)
         IN  pts \in Seq(Point) /\ Len(pts) <= MaxPoints
<1>1. rec.points \in Seq(Point)
  BY DEF RecordOK, RunRecord
<1>2. [index |-> Len(rec.points), data |-> m] \in Point
  BY <1>1, LenProperties DEF Point
<1>3. Append(rec.points, [index |-> Len(rec.points), data |-> m]) \in Seq(Point)
  BY <1>1, <1>2, AppendProperties
<1>. QED BY <1>3, LastNProperties, LedgerAssumption

LEMMA WithPointOK ==
  ASSUME NEW rec, RecordOK(rec), NEW m \in Marks \cup {NoMark}
  PROVE  /\ RecordOK(WithPoint(rec, m))
         /\ WithPoint(rec, m).attempts = rec.attempts
         /\ WithPoint(rec, m).status = rec.status
BY PushedPoints DEF WithPoint, RecordOK, RunRecord

LEMMA TransitionInv ==
  ASSUME NEW p \in Procs, NEW r \in Runs, NEW saves \in Saves, NEW s \in Status,
         NEW m \in Marks \cup {NoMark}, IInv, Transition(p, r, s, m, saves)
  PROVE  IInv'
<1>. DEFINE old == mem[p].runs[r]
            moved == [old EXCEPT !.status = s]
            rec == WithPoint(moved, m)
<1>1. RecordOK(moved) /\ moved.attempts = old.attempts /\ moved.status = s
  BY RecordOf DEF RecordInv, RecordOK, RunRecord
<1>2. RecordOK(rec) /\ rec.attempts = old.attempts /\ rec.status = s
  BY <1>1, WithPointOK
<1>3. s # "absent"
  BY DEF Status, Active, Terminal
<1>4. Put(p, r, rec, saves) /\ UNCHANGED <<inflight, issued, clock, History>>
  BY DEF Transition
<1>. QED BY <1>2, <1>3, <1>4, QuietStep

LEMMA CheckpointInv ==
  ASSUME NEW p \in Procs, NEW r \in Runs, NEW saves \in Saves, NEW m \in Marks,
         IInv, Checkpoint(p, r, m, saves)
  PROVE  IInv'
<1>. DEFINE old == mem[p].runs[r]
            pts == LastN(Append(old.points, [index |-> Len(old.points), data |-> m]), MaxPoints)
            rec == [old EXCEPT !.point = m, !.points = pts]
<1>1. RecordOK(old)
  BY RecordOf DEF RecordInv
<1>2. pts \in Seq(Point) /\ Len(pts) <= MaxPoints
  BY <1>1, PushedPoints
<1>3. old \in RunRecord
  BY <1>1 DEF RecordOK
<1>4. /\ rec \in RunRecord /\ rec.attempts = old.attempts /\ rec.status = old.status
      /\ rec.points = pts /\ rec.approvals = old.approvals /\ rec.rollbacks = old.rollbacks
  <2>. HIDE DEF pts
  <2>. QED BY <1>2, <1>3 DEF RunRecord
<1>5. RecordOK(rec)
  BY <1>1, <1>2, <1>4 DEF RecordOK
<1>6. Put(p, r, rec, saves) /\ UNCHANGED <<inflight, issued, clock, History>> /\ old.status # "absent"
  BY DEF Checkpoint, Known
<1>. QED BY <1>4, <1>5, <1>6, QuietStep

(* cancel and resume: only the status changes.                             *)
LEMMA RelabelInv ==
  ASSUME NEW p \in Procs, NEW r \in Runs, NEW saves \in Saves, NEW s \in Status, IInv,
         Put(p, r, [mem[p].runs[r] EXCEPT !.status = s], saves),
         UNCHANGED <<inflight, issued, clock, History>>
  PROVE  IInv'
<1>. DEFINE rec == [mem[p].runs[r] EXCEPT !.status = s]
<1>1. RecordOK(rec) /\ rec.attempts = mem[p].runs[r].attempts /\ rec.status = s
  BY RecordOf DEF RecordInv, RecordOK, RunRecord
<1>2. s # "absent"
  BY DEF Status, Active, Terminal
<1>. QED BY <1>1, <1>2, QuietStep

LEMMA RollBackInv ==
  ASSUME NEW p \in Procs, NEW r \in Runs, NEW saves \in Saves, NEW t \in 0..(MaxPoints - 1),
         IInv, RollBack(p, r, t, saves)
  PROVE  IInv'
<1>. DEFINE old == mem[p].runs[r]
            event == [from |-> Len(old.points) - 1, to |-> t]
            log == LastN(Append(old.rollbacks, event), MaxApprovals)
            rec == [old EXCEPT !.status = "rolled_back", !.point = old.points[t + 1].data,
                               !.rollbacks = log]
<1>1. RecordOK(old) /\ old \in RunRecord
  BY RecordOf DEF RecordInv
<1>2. /\ old.points \in Seq(Point) /\ Len(old.points) \in Nat
      /\ t \in 0..(Len(old.points) - 1) /\ t \in Nat
  BY <1>1 DEF RunRecord, RollBack
<1>3. old.points[t + 1] \in Point
  BY <1>2, ElementOfSeq
<1>4. event \in Rollback /\ old.points[t + 1].data \in Marks \cup {NoMark}
  BY <1>2, <1>3, SMTT(60) DEF Rollback, Point
<1>5. Append(old.rollbacks, event) \in Seq(Rollback)
  BY <1>1, <1>4, AppendProperties DEF RunRecord
<1>6. log \in Seq(Rollback) /\ Len(log) <= MaxApprovals
  BY <1>5, LastNProperties, LedgerAssumption
<1>7. /\ rec \in RunRecord /\ rec.attempts = old.attempts /\ rec.status = "rolled_back"
      /\ rec.points = old.points /\ rec.approvals = old.approvals /\ rec.rollbacks = log
  <2>. HIDE DEF log
  <2>. QED BY <1>1, <1>4, <1>6 DEF RunRecord, Status, Terminal
<1>8. RecordOK(rec)
  BY <1>1, <1>6, <1>7 DEF RecordOK
<1>9. Put(p, r, rec, saves) /\ UNCHANGED <<inflight, issued, clock, History>>
  BY DEF RollBack
<1>. QED BY <1>7, <1>8, <1>9, QuietStep

LEMMA ApproveInv ==
  ASSUME NEW p \in Procs, NEW r \in Runs, NEW saves \in Saves,
         NEW d \in {"approved", "rejected", "expired"}, NEW e \in Expiries,
         IInv, Approve(p, r, d, e, saves)
  PROVE  IInv'
<1>. DEFINE old == mem[p].runs[r]
            receipt == [decision |-> d, exp |-> e]
            log == LastN(Append(old.approvals, receipt), MaxApprovals)
            rec == [old EXCEPT !.approvals = log]
<1>1. RecordOK(old) /\ old \in RunRecord
  BY RecordOf DEF RecordInv
<1>2. receipt \in Approval
  BY LedgerAssumption DEF Approval
<1>3. Append(old.approvals, receipt) \in Seq(Approval)
  BY <1>1, <1>2, AppendProperties DEF RunRecord
<1>4. log \in Seq(Approval) /\ Len(log) <= MaxApprovals
  BY <1>3, LastNProperties, LedgerAssumption
<1>5. /\ rec \in RunRecord /\ rec.attempts = old.attempts /\ rec.status = old.status
      /\ rec.points = old.points /\ rec.rollbacks = old.rollbacks /\ rec.approvals = log
  <2>. HIDE DEF log
  <2>. QED BY <1>1, <1>4 DEF RunRecord
<1>6. RecordOK(rec)
  BY <1>1, <1>4, <1>5 DEF RecordOK
<1>7. /\ Put(p, r, rec, saves) /\ UNCHANGED <<inflight, issued, clock, History>>
      /\ old.status # "absent"
  BY DEF Approve
<1>. QED BY <1>5, <1>6, <1>7, QuietStep
-----------------------------------------------------------------------------
LEMMA LeastElement ==
  ASSUME NEW S, S \subseteq Nat, S # {}
  PROVE  \E k \in S : \A j \in S : k <= j
<1>. DEFINE less == {x \in Nat \X Nat : x[1] < x[2]}
<1>1. IsWellFoundedOn(less, Nat)
  BY NatLessThanWellFounded DEF OpToRel
<1>2. \A T \in SUBSET Nat : T # {} => \E k \in T : \A j \in T : ~(<<j, k>> \in less)
  <2>. HIDE DEF less
  <2>. QED BY <1>1, WFMin
<1>3. PICK k \in S : \A j \in S : ~(<<j, k>> \in less)
  BY <1>2
<1>4. \A j \in S : k <= j
  <2>. TAKE j \in S
  <2>1. <<j, k>> \in Nat \X Nat /\ <<j, k>>[1] = j /\ <<j, k>>[2] = k
    OBVIOUS
  <2>2. ~(<<j, k>>[1] < <<j, k>>[2])
    BY <1>3, <2>1
  <2>. QED BY <2>1, <2>2
<1>. QED BY <1>4

(* Where RetryAllowed opens the way for an effect that may not be          *)
(* repeated, every earlier attempt under the key is a compensated one.     *)
LEMMA OneShotRetry ==
  ASSUME NEW rec, RecordOK(rec), NEW c \in Calls, c.op \in OneShot, RetryAllowed(rec, c),
         NEW i \in 1..Len(rec.attempts), rec.attempts[i].call.op = c.op
  PROVE  rec.attempts[i].st = "compensated"
<1>1. c.op # NoOp
  BY LedgerAssumption DEF OneShot
<1>2. \A d \in Calls : d.op = c.op => d = c /\ d.se /\ ~d.idem
  BY <1>1, LedgerAssumption DEF OneShot
<1>3. rec.attempts \in Seq(Attempt) /\ Len(rec.attempts) \in Nat
  BY DEF RecordOK, RunRecord
<1>4. \A k \in 1..Len(rec.attempts) : rec.attempts[k] \in Attempt
  BY <1>3, ElementOfSeq
<1>5. SUFFICES ASSUME SameKey(rec.attempts[i], c) PROVE FALSE
  BY <1>1 DEF SameKey
<1>. DEFINE Hits == {k \in 1..Len(rec.attempts) : SameKey(rec.attempts[k], c)}
<1>6. PICK k \in Hits : \A j \in Hits : k <= j
  <2>1. Hits \subseteq Nat /\ Hits # {}
    BY <1>3, <1>5
  <2>. HIDE DEF Hits
  <2>. QED BY <2>1, LeastElement
<1>7. \A j \in 1..(k - 1) : ~SameKey(rec.attempts[j], c)
  BY <1>3, <1>6
<1>8. Retryable(rec.attempts[k])
  BY <1>6, <1>7 DEF RetryAllowed
<1>9. rec.attempts[k].call = c
  BY <1>2, <1>4, <1>6 DEF SameKey, Attempt
<1>. QED BY <1>2, <1>6, <1>8, <1>9 DEF Retryable, SameKey

LEMMA StartAttemptInv ==
  ASSUME NEW p \in Procs, NEW r \in Runs, NEW saves \in Saves, NEW c \in Calls,
         IInv, StartAttempt(p, r, c, saves)
  PROVE  IInv'
<1>. DEFINE old == mem[p].runs[r]
            n == Len(old.attempts)
            started == [id |-> issued + 1, call |-> c, st |-> "started"]
            more == Append(old.attempts, started)
            s == IF c.se /\ old.status = "awaiting_approval" THEN "running" ELSE old.status
            rec == [old EXCEPT !.status = s, !.attempts = more]
            w == [run |-> r, op |-> c.op, id |-> issued + 1]
<1>1. /\ RecordInv(r, old, issued, undone) /\ RecordOK(old) /\ old \in RunRecord
      /\ issued \in Nat /\ old.attempts \in Seq(Attempt) /\ n \in Nat
  BY RecordOf
<1>2. /\ old.status # "absent" /\ n < MaxAttempts /\ RetryAllowed(old, c)
      /\ Put(p, r, rec, saves) /\ issued' = issued + 1
      /\ inflight' = IF saves THEN [inflight EXCEPT ![p] = @ \cup {w}] ELSE inflight
      /\ clock' = clock /\ done' = done /\ undone' = undone /\ removed' = removed
  BY DEF StartAttempt, Known, History
<1>3. started \in Attempt
  BY <1>1 DEF Attempt, AttemptStatus
<1>4. /\ more \in Seq(Attempt) /\ Len(more) = n + 1 /\ more[n + 1] = started
      /\ \A i \in 1..n : more[i] = old.attempts[i]
  <2>. HIDE DEF started, old
  <2>. QED BY <1>1, <1>3, AppendProperties
<1>5. s \in Status
  BY <1>1, <1>2 DEF RunRecord, Status, Active
<1>6. /\ rec \in RunRecord /\ rec.attempts = more /\ rec.status = s /\ rec.points = old.points
      /\ rec.approvals = old.approvals /\ rec.rollbacks = old.rollbacks
  <2>. HIDE DEF more, s
  <2>. QED BY <1>1, <1>4, <1>5 DEF RunRecord
<1>7. RecordOK(rec) /\ rec.status # "absent"
  <2>1. Len(rec.attempts) <= MaxAttempts
    <3>1. MaxAttempts \in Nat
      BY LedgerAssumption
    <3>2. Len(rec.attempts) = n + 1 /\ n \in Nat /\ n < MaxAttempts
      BY <1>1, <1>2, <1>4, <1>6
    <3>. HIDE DEF n, rec
    <3>. QED BY <3>1, <3>2
  <2>2. rec.status # "absent"
    BY <1>5, <1>6 DEF Status, Active, Terminal
  <2>. QED BY <1>1, <1>6, <2>1, <2>2 DEF RecordOK
<1>8. RecordInv(r, rec, issued + 1, undone)
  <2>. HIDE DEF rec, more, n, s
  <2>0. \A i \in 1..Len(more) : i \in 1..n \/ i = n + 1
    BY <1>1, <1>4 DEF n
  <2>1. \A i \in 1..Len(more) : more[i].id \in 1..(issued + 1)
    <3>1. \A i \in 1..n : old.attempts[i].id \in 1..issued
      BY <1>1 DEF RecordInv, n
    <3>3. \A k \in 1..issued : k \in 1..(issued + 1)
      BY <1>1
    <3>2. more[n + 1].id \in 1..(issued + 1)
      BY <1>1, <1>4
    <3>. QED BY <1>4, <2>0, <3>1, <3>2, <3>3
  <2>2. \A i \in 1..Len(more) : more[i].st = "compensated" => WorkOf(r, more[i]) \in undone
    <3>1. \A i \in 1..n : more[i].st = "compensated" => WorkOf(r, more[i]) \in undone
      BY <1>1, <1>4 DEF RecordInv, n
    <3>. QED BY <1>4, <2>0, <3>1
  <2>3. \A i \in 1..n : old.attempts[i].call.op = c.op /\ c.op \in OneShot
                         => WorkOf(r, old.attempts[i]) \in undone
    BY <1>1, <1>2, OneShotRetry DEF RecordInv, n
  <2>4. \A i, j \in 1..(n + 1) :
          /\ more[i].call.op = more[j].call.op /\ more[i].call.op \in OneShot
          /\ WorkOf(r, more[i]) \notin undone /\ WorkOf(r, more[j]) \notin undone
          => i = j
    <3>1. ASSUME NEW i \in 1..n, NEW j \in 1..n,
                 more[i].call.op = more[j].call.op, more[i].call.op \in OneShot,
                 WorkOf(r, more[i]) \notin undone, WorkOf(r, more[j]) \notin undone
          PROVE  i = j
      BY <1>1, <1>4, <3>1 DEF RecordInv, n
    <3>2. \A i \in 1..n : more[i].call.op = more[n + 1].call.op /\ more[i].call.op \in OneShot
                          => WorkOf(r, more[i]) \in undone
      BY <1>4, <2>3
    <3>3. \A i \in 1..(n + 1) : i \in 1..n \/ i = n + 1
      BY <1>1
    <3>. QED BY <3>1, <3>2, <3>3
  <2>. QED BY <1>4, <1>6, <1>7, <2>1, <2>2, <2>4 DEF RecordInv
<1>9. StoresInv'
  BY <1>1, <1>2, <1>8, PutStep
<1>10. w \in Work
  BY <1>1, LedgerAssumption DEF Work, CallType
<1>11. WorkInv'
  BY <1>1, <1>2, <1>10 DEF IInv, WorkInv
<1>. QED BY <1>9, <1>11 DEF IInv

LEMMA FinishAttemptInv ==
  ASSUME NEW p \in Procs, NEW r \in Runs, NEW saves \in Saves, NEW i \in 1..MaxAttempts,
         NEW st \in AttemptStatus \ {"started"}, IInv, FinishAttempt(p, r, i, st, saves)
  PROVE  IInv'
<1>. DEFINE old == mem[p].runs[r]
            ended == [old.attempts EXCEPT ![i].st = st]
            rec == [old EXCEPT !.attempts = ended]
            w == WorkOf(r, old.attempts[i])
<1>1. /\ RecordInv(r, old, issued, undone) /\ RecordOK(old) /\ old \in RunRecord
      /\ issued \in Nat /\ old.attempts \in Seq(Attempt) /\ Len(old.attempts) \in Nat
  BY RecordOf
<1>2. /\ old.status # "absent" /\ i \in 1..Len(old.attempts)
      /\ Put(p, r, rec, saves) /\ issued' = issued
      /\ inflight' = [inflight EXCEPT ![p] = @ \ {w}]
      /\ \/ /\ st = "compensated" /\ done' = done \ {w} /\ undone' = undone \cup {w}
         \/ st # "compensated" /\ done' = done /\ undone' = undone
      /\ clock' = clock /\ removed' = removed
  BY DEF FinishAttempt, Known, WorkOf
<1>3. old.attempts[i] \in Attempt
  BY <1>1, <1>2, ElementOfSeq
<1>4. /\ ended \in Seq(Attempt) /\ Len(ended) = Len(old.attempts)
      /\ ended[i] = [old.attempts[i] EXCEPT !.st = st]
      /\ \A k \in 1..Len(old.attempts) : k # i => ended[k] = old.attempts[k]
  <2>. DEFINE e == [old.attempts[i] EXCEPT !.st = st]
  <2>1. e \in Attempt
    BY <1>3 DEF Attempt, AttemptStatus
  <2>2. ended = [old.attempts EXCEPT ![i] = e]
    OBVIOUS
  <2>. HIDE DEF e, ended
  <2>3. /\ ended \in Seq(Attempt) /\ Len(ended) = Len(old.attempts)
        /\ \A k \in 1..Len(old.attempts) : ended[k] = IF k = i THEN e ELSE old.attempts[k]
    BY <1>1, <1>2, <2>1, <2>2, ExceptSeq
  <2>. QED BY <1>2, <2>3 DEF e
<1>5. /\ ended[i].id = old.attempts[i].id /\ ended[i].call = old.attempts[i].call
      /\ ended[i].st = st
  BY <1>3, <1>4 DEF Attempt
<1>6. \A k \in 1..Len(old.attempts) :
        /\ ended[k].id = old.attempts[k].id /\ ended[k].call = old.attempts[k].call
        /\ WorkOf(r, ended[k]) = WorkOf(r, old.attempts[k])
        /\ ended[k].st = IF k = i THEN st ELSE old.attempts[k].st
  <2>. HIDE DEF ended
  <2>. QED BY <1>4, <1>5 DEF WorkOf
<1>7. /\ rec \in RunRecord /\ rec.attempts = ended /\ rec.status = old.status
      /\ rec.points = old.points /\ rec.approvals = old.approvals /\ rec.rollbacks = old.rollbacks
  <2>. HIDE DEF ended
  <2>. QED BY <1>1, <1>4 DEF RunRecord
<1>8. RecordInv(r, rec, issued, undone')
  <2>. HIDE DEF rec, ended, w
  <2>1. RecordOK(rec)
    BY <1>1, <1>4, <1>7 DEF RecordOK
  <2>2. \A k \in 1..Len(ended) : ended[k].id \in 1..issued
    BY <1>1, <1>4, <1>6 DEF RecordInv
  <2>3. \A k \in 1..Len(ended) : ended[k].st = "compensated" => WorkOf(r, ended[k]) \in undone'
    BY <1>1, <1>2, <1>4, <1>6 DEF RecordInv, w
  <2>4. undone \subseteq undone'
    BY <1>2
  <2>5. \A k, j \in 1..Len(ended) :
          /\ ended[k].call.op = ended[j].call.op /\ ended[k].call.op \in OneShot
          /\ WorkOf(r, ended[k]) \notin undone' /\ WorkOf(r, ended[j]) \notin undone'
          => k = j
    BY <1>1, <1>4, <1>6, <2>4 DEF RecordInv
  <2>. QED BY <1>2, <1>7, <2>1, <2>2, <2>3, <2>5 DEF RecordInv
<1>9. StoresInv'
  BY <1>1, <1>2, <1>8, PutStep
<1>10. w \in Work
  BY <1>3, LedgerAssumption DEF Work, WorkOf, Attempt, CallType
<1>11. WorkInv'
  BY <1>2, <1>10 DEF IInv, WorkInv
<1>. QED BY <1>9, <1>11 DEF IInv

LEMMA RemoveInv ==
  ASSUME NEW p \in Procs, NEW r \in Runs, NEW saves \in Saves, IInv, Remove(p, r, saves)
  PROVE  IInv'
<1>. DEFINE left == [mem[p] EXCEPT !.runs[r] = Absent, !.newer = {x \in @ : x[1] # r /\ x[2] # r}]
<1>1. StoreInv(mem[p], issued, undone) /\ StoreInv(disk, issued, undone) /\ issued \in Nat
  BY DEF IInv, StoresInv, WorkInv
<1>2. RecordInv(r, Absent, issued, undone) /\ Absent \in RunRecord
  BY <1>1, AbsentInv DEF RecordInv, RecordOK
<1>3. /\ left.runs = [mem[p].runs EXCEPT ![r] = Absent]
      /\ left.newer = {x \in mem[p].newer : x[1] # r /\ x[2] # r}
      /\ left \in Store
  BY <1>1, <1>2 DEF StoreInv, Store
<1>4. mem[p].runs \in [Runs -> RunRecord]
  BY <1>1 DEF StoreInv, Store
<1>5. StoreInv(left, issued, undone)
  <2>. HIDE DEF left
  <2>. QED BY <1>1, <1>2, <1>3, <1>4 DEF StoreInv
<1>6. /\ mem' = [mem EXCEPT ![p] = left]
      /\ disk' = IF saves THEN Saved(left) ELSE disk
      /\ removed' = removed \cup {r}
      /\ UNCHANGED <<inflight, issued, clock, done, undone>>
  BY DEF Remove
<1>7. StoreInv(disk', issued, undone)
  BY <1>1, <1>5, <1>6, SavedInv
<1>8. StoresInv'
  <2>. HIDE DEF left
  <2>. QED BY <1>3, <1>5, <1>6, <1>7 DEF IInv, StoresInv
<1>. QED BY <1>6, <1>8 DEF IInv, WorkInv

LEMMA OperationInv ==
  ASSUME NEW p \in Procs, NEW r \in Runs, NEW saves \in Saves, IInv, Operation(p, r, saves)
  PROVE  IInv'
<1>1. ASSUME NEW b \in Bindings, NEW m \in Marks \cup {NoMark}, Create(p, r, b, m, saves)
      PROVE  IInv'
  BY <1>1, CreateInv
<1>2. ASSUME NEW s \in Status, NEW m \in Marks \cup {NoMark}, Transition(p, r, s, m, saves)
      PROVE  IInv'
  BY <1>2, TransitionInv
<1>3. ASSUME NEW m \in Marks, Checkpoint(p, r, m, saves)
      PROVE  IInv'
  BY <1>3, CheckpointInv
<1>4. CASE Cancel(p, r, saves)
  BY <1>4, RelabelInv DEF Cancel, Status, Terminal
<1>5. CASE Resume(p, r, saves)
  BY <1>5, RelabelInv DEF Resume, Status, Active
<1>6. ASSUME NEW t \in 0..(MaxPoints - 1), RollBack(p, r, t, saves)
      PROVE  IInv'
  BY <1>6, RollBackInv
<1>7. ASSUME NEW d \in {"approved", "rejected", "expired"}, NEW e \in Expiries,
             Approve(p, r, d, e, saves)
      PROVE  IInv'
  BY <1>7, ApproveInv
<1>8. ASSUME NEW c \in Calls, StartAttempt(p, r, c, saves)
      PROVE  IInv'
  BY <1>8, StartAttemptInv
<1>9. ASSUME NEW i \in 1..MaxAttempts, NEW st \in AttemptStatus \ {"started"},
             FinishAttempt(p, r, i, st, saves)
      PROVE  IInv'
  BY <1>9, FinishAttemptInv
<1>10. CASE Remove(p, r, saves)
  BY <1>10, RemoveInv
<1>. QED BY <1>1, <1>2, <1>3, <1>4, <1>5, <1>6, <1>7, <1>8, <1>9, <1>10 DEF Operation

LEMMA StepInv == IInv /\ [Next]_vars => IInv'
<1>. SUFFICES ASSUME IInv, [Next]_vars PROVE IInv'
  OBVIOUS
<1>1. ASSUME NEW p \in Procs, NEW r \in Runs, NEW saves \in Saves, Operation(p, r, saves)
      PROVE  IInv'
  BY <1>1, OperationInv
<1>2. ASSUME NEW p \in Procs, NEW w \in inflight[p], Perform(p, w)
      PROVE  IInv'
  BY <1>2 DEF Perform, IInv, StoresInv, WorkInv
<1>3. ASSUME NEW p \in Procs, Restart(p)
      PROVE  IInv'
  <2>1. disk \in Store /\ StoreInv(disk, issued, undone)
    BY DEF IInv, StoresInv, StoreInv
  <2>2. StoresInv'
    BY <1>3, <2>1 DEF Restart, History, IInv, StoresInv
  <2>. QED BY <1>3, <2>2 DEF Restart, History, IInv, WorkInv
<1>4. CASE Tick
  BY <1>4, LedgerAssumption DEF Tick, History, IInv, StoresInv, WorkInv
<1>5. CASE UNCHANGED vars
  BY <1>5 DEF vars, IInv, StoresInv, WorkInv
<1>. QED BY <1>1, <1>2, <1>3, <1>4, <1>5 DEF Next

LEMMA InitInv == Init => IInv
<1>. SUFFICES ASSUME Init PROVE IInv
  OBVIOUS
<1>1. StoreInv(Empty, 0, {}) /\ Empty \in Store
  BY EmptyInv DEF StoreInv
<1>. QED BY <1>1 DEF Init, IInv, StoresInv, WorkInv

(* IInv holds in every reachable state, with any number of processes, runs *)
(* and crashes and whichever saves fail.                                   *)
THEOREM LedgerInvariant == Spec => []IInv
<1>1. Init => IInv
  BY InitInv
<1>2. IInv /\ [Next]_vars => IInv'
  BY StepInv
<1>. QED BY <1>1, <1>2, PTL DEF Spec

(* Type correctness, with the caps of run-state.js L25-29: no operation,   *)
(* failed save or restart leaves more attempts, recovery points, approvals *)
(* or rollback events on record than the code allows.                      *)
THEOREM TypeCorrect == Spec => []TypeOK
<1>1. IInv => TypeOK
  <2>. SUFFICES ASSUME IInv PROVE TypeOK
    OBVIOUS
  <2>1. \A store : StoreInv(store, issued, undone) => StoreOK(store)
    BY DEF StoreInv, StoreOK, RecordInv
  <2>. QED BY <2>1 DEF IInv, StoresInv, WorkInv, TypeOK
<1>. QED BY <1>1, LedgerInvariant, PTL
-----------------------------------------------------------------------------
(***************************************************************************)
(* No effect is replayed blindly, for every value of the constants under   *)
(* which the code promises it: one process owns the ledger, and it holds   *)
(* no more runs than #save writes.  Neither hypothesis can be dropped: TLC *)
(* breaks NoBlindReplay with two processes, and with two runs and a file   *)
(* of one.                                                                 *)
(*                                                                         *)
(* The invariant adds to IInv that memory and file both record every       *)
(* attempt whose handler runs or ran (Logged).                             *)
(***************************************************************************)
SoleOwner(p) == Procs = {p} /\ Cardinality(Runs) <= MaxRuns

Holds(rec, w) ==
  \E i \in 1..Len(rec.attempts) : rec.attempts[i].id = w.id /\ rec.attempts[i].call.op = w.op

Logged(p) ==
  \A w \in done \cup inflight[p] :
    w.run \notin removed => RecordedIn(mem[p], w) /\ RecordedIn(disk, w)

(* Ids grow, and an attempt whose effect was compensated is over.          *)
Apart(p) ==
  /\ \A w \in done \cup undone \cup inflight[p] : w.id \in 0..issued
  /\ done \cap undone = {}
  /\ inflight[p] \cap undone = {}

RInv(p) == IInv /\ Logged(p) /\ Apart(p)
-----------------------------------------------------------------------------
(* With room for all runs, #save drops none.                               *)
LEMMA SavedKeeps ==
  ASSUME NEW p, SoleOwner(p), NEW store, NEW n, NEW u, StoreInv(store, n, u),
         NEW r \in Runs, Known(store, r)
  PROVE  Saved(store).runs[r] = store.runs[r]
<1>. DEFINE Newer == {s \in Runs : Known(store, s) /\ <<s, r>> \in store.newer}
<1>1. Newer \subseteq Runs \ {r}
  BY DEF StoreInv
<1>2. IsFiniteSet(Runs \ {r}) /\ Cardinality(Runs \ {r}) = Cardinality(Runs) - 1
  BY LedgerAssumption, FS_RemoveElement
<1>3. Cardinality(Newer) <= Cardinality(Runs \ {r})
  BY <1>1, <1>2, FS_Subset
<1>4. Cardinality(Newer) \in Nat /\ Cardinality(Runs) \in Nat
  BY <1>1, <1>2, LedgerAssumption, FS_Subset, FS_CardinalityType
<1>5. Cardinality(Newer) < MaxRuns
  <2>. HIDE DEF Newer
  <2>. QED BY <1>2, <1>3, <1>4, LedgerAssumption DEF SoleOwner
<1>6. r \in Kept(store)
  BY <1>5 DEF Kept
<1>. QED BY <1>6 DEF Saved

LEMMA SavedRecords ==
  ASSUME NEW p, SoleOwner(p), NEW store, NEW n, NEW u, StoreInv(store, n, u),
         NEW w, w.run \in Runs, RecordedIn(store, w)
  PROVE  RecordedIn(Saved(store), w)
<1>1. RecordInv(w.run, store.runs[w.run], n, u)
  BY DEF StoreInv
<1>2. store.runs[w.run].attempts # <<>>
  BY DEF RecordedIn
<1>3. Known(store, w.run)
  BY <1>1, <1>2 DEF RecordInv, Known
<1>. QED BY <1>3, SavedKeeps DEF RecordedIn

(* An operation that keeps the attempts of the run it works on keeps what  *)
(* memory and file record.                                                 *)
LEMMA PutRecords ==
  ASSUME NEW p \in Procs, SoleOwner(p), NEW r \in Runs, NEW saves \in Saves, NEW rec, IInv,
         Put(p, r, rec, saves), StoresInv',
         NEW w \in Work, w.run = r => Holds(rec, w),
         RecordedIn(mem[p], w) \/ w.run = r,
         RecordedIn(disk, w) \/ saves
  PROVE  RecordedIn(mem'[p], w) /\ RecordedIn(disk', w)
<1>1. /\ mem \in [Procs -> Store] /\ mem[p].runs \in [Runs -> RunRecord] /\ w.run \in Runs
  BY DEF IInv, StoresInv, StoreInv, Store, Work
<1>2. mem'[p] = Updated(mem[p], r, rec)
  BY <1>1 DEF Put
<1>3. mem'[p].runs = [mem[p].runs EXCEPT ![r] = rec]
  BY <1>2 DEF Updated
<1>4. mem'[p].runs[w.run] = IF w.run = r THEN rec ELSE mem[p].runs[w.run]
  BY <1>1, <1>3
<1>5. RecordedIn(mem'[p], w)
  BY <1>4 DEF RecordedIn, Holds
<1>6. StoreInv(mem'[p], issued', undone')
  BY DEF StoresInv
<1>7. RecordedIn(Saved(mem'[p]), w)
  BY <1>1, <1>5, <1>6, SavedRecords
<1>8. disk' = IF saves THEN Saved(mem'[p]) ELSE disk
  BY <1>2 DEF Put
<1>. QED BY <1>5, <1>7, <1>8

LEMMA QuietRecords ==
  ASSUME NEW p \in Procs, SoleOwner(p), NEW r \in Runs, NEW saves \in Saves, NEW rec,
         RInv(p), IInv', Put(p, r, rec, saves), rec.attempts = mem[p].runs[r].attempts,
         UNCHANGED <<inflight, issued, clock, History>>
  PROVE  RInv(p)'
<1>1. /\ issued' = issued /\ undone' = undone /\ inflight' = inflight
      /\ done' = done /\ removed' = removed
  BY DEF History
<1>2. done \cup inflight[p] \subseteq Work /\ IInv /\ StoresInv'
  BY DEF RInv, IInv, WorkInv
<1>3. ASSUME NEW w \in done \cup inflight[p], w.run \notin removed
      PROVE  RecordedIn(mem'[p], w) /\ RecordedIn(disk', w)
  <2>1. RecordedIn(mem[p], w) /\ RecordedIn(disk, w)
    BY <1>3 DEF RInv, Logged
  <2>2. w.run = r => Holds(rec, w)
    BY <2>1 DEF RecordedIn, Holds
  <2>. QED BY <1>2, <2>1, <2>2, PutRecords
<1>4. Logged(p)'
  BY <1>1, <1>3 DEF Logged
<1>. QED BY <1>1, <1>4 DEF RInv, Apart

(* What each operation stores under the old attempts.                      *)
LEMMA QuietOperations ==
  ASSUME NEW p \in Procs, SoleOwner(p), NEW r \in Runs, NEW saves \in Saves,
         RInv(p), IInv', Operation(p, r, saves),
         \A c \in Calls : ~StartAttempt(p, r, c, saves),
         \A i \in 1..MaxAttempts, st \in AttemptStatus : ~FinishAttempt(p, r, i, st, saves),
         ~Remove(p, r, saves)
  PROVE  RInv(p)'
<1>. DEFINE old == mem[p].runs[r]
<1>1. old \in RunRecord /\ RecordInv(r, old, issued, undone)
  BY RecordOf DEF RInv
<1>2. ASSUME NEW b \in Bindings, NEW m \in Marks \cup {NoMark}, Create(p, r, b, m, saves)
      PROVE  RInv(p)'
  <2>1. [Absent EXCEPT !.status = "created", !.bound = b, !.point = m].attempts = old.attempts
    BY <1>1, <1>2 DEF Create, Known, RecordInv, Absent
  <2>. QED BY <1>2, <2>1, QuietRecords DEF Create
<1>3. ASSUME NEW s \in Status, NEW m \in Marks \cup {NoMark}, Transition(p, r, s, m, saves)
      PROVE  RInv(p)'
  <2>1. WithPoint([old EXCEPT !.status = s], m).attempts = old.attempts
    BY <1>1 DEF WithPoint, RunRecord
  <2>. QED BY <1>3, <2>1, QuietRecords DEF Transition
<1>4. ASSUME NEW m \in Marks, Checkpoint(p, r, m, saves)
      PROVE  RInv(p)'
  <2>. DEFINE pts == LastN(Append(old.points, [index |-> Len(old.points), data |-> m]), MaxPoints)
  <2>1. [old EXCEPT !.point = m, !.points = pts].attempts = old.attempts
    <3>. HIDE DEF pts
    <3>. QED BY <1>1 DEF RunRecord
  <2>. QED BY <1>4, <2>1, QuietRecords DEF Checkpoint
<1>5. CASE Cancel(p, r, saves)
  <2>1. [old EXCEPT !.status = "cancelled"].attempts = old.attempts
    BY <1>1 DEF RunRecord
  <2>. QED BY <1>5, <2>1, QuietRecords DEF Cancel
<1>6. CASE Resume(p, r, saves)
  <2>1. [old EXCEPT !.status = "running"].attempts = old.attempts
    BY <1>1 DEF RunRecord
  <2>. QED BY <1>6, <2>1, QuietRecords DEF Resume
<1>7. ASSUME NEW t \in 0..(MaxPoints - 1), RollBack(p, r, t, saves)
      PROVE  RInv(p)'
  <2>. DEFINE cp == old.points[t + 1].data
              log == LastN(Append(old.rollbacks, [from |-> Len(old.points) - 1, to |-> t]), MaxApprovals)
  <2>1. [old EXCEPT !.status = "rolled_back", !.point = cp, !.rollbacks = log].attempts = old.attempts
    <3>. HIDE DEF cp, log
    <3>. QED BY <1>1 DEF RunRecord
  <2>. QED BY <1>7, <2>1, QuietRecords DEF RollBack
<1>8. ASSUME NEW d \in {"approved", "rejected", "expired"}, NEW e \in Expiries,
             Approve(p, r, d, e, saves)
      PROVE  RInv(p)'
  <2>. DEFINE log == LastN(Append(old.approvals, [decision |-> d, exp |-> e]), MaxApprovals)
  <2>1. [old EXCEPT !.approvals = log].attempts = old.attempts
    <3>. HIDE DEF log
    <3>. QED BY <1>1 DEF RunRecord
  <2>. QED BY <1>8, <2>1, QuietRecords DEF Approve
<1>. QED BY <1>2, <1>3, <1>4, <1>5, <1>6, <1>7, <1>8 DEF Operation

(* The new attempt is on disk before its handler is let run.               *)
LEMMA StartRecords ==
  ASSUME NEW p \in Procs, SoleOwner(p), NEW r \in Runs, NEW saves \in Saves, NEW c \in Calls,
         RInv(p), IInv', StartAttempt(p, r, c, saves)
  PROVE  RInv(p)'
<1>. DEFINE old == mem[p].runs[r]
            started == [id |-> issued + 1, call |-> c, st |-> "started"]
            more == Append(old.attempts, started)
            s == IF c.se /\ old.status = "awaiting_approval" THEN "running" ELSE old.status
            rec == [old EXCEPT !.status = s, !.attempts = more]
            new == [run |-> r, op |-> c.op, id |-> issued + 1]
<1>1. /\ old \in RunRecord /\ issued \in Nat
      /\ old.attempts \in Seq(Attempt) /\ Len(old.attempts) \in Nat
  BY RecordOf DEF RInv
<1>2. /\ Put(p, r, rec, saves) /\ issued' = issued + 1
      /\ inflight' = IF saves THEN [inflight EXCEPT ![p] = @ \cup {new}] ELSE inflight
      /\ done' = done /\ undone' = undone /\ removed' = removed
  BY DEF StartAttempt, History
<1>3. started \in Attempt
  BY <1>1 DEF Attempt, AttemptStatus
<1>4. /\ Len(more) = Len(old.attempts) + 1 /\ more[Len(old.attempts) + 1] = started
      /\ \A i \in 1..Len(old.attempts) : more[i] = old.attempts[i]
  <2>. HIDE DEF old, started
  <2>. QED BY <1>1, <1>3, AppendProperties
<1>5. rec.attempts = more
  <2>. HIDE DEF more, s
  <2>. QED BY <1>1 DEF RunRecord
<1>6. inflight \in [Procs -> SUBSET Work] /\ done \subseteq Work /\ IInv /\ StoresInv'
  BY DEF RInv, IInv, WorkInv
<1>7. new \in Work /\ new.run = r /\ new.op = c.op /\ new.id = issued + 1
  BY <1>1, LedgerAssumption DEF Work, CallType
<1>8. Holds(rec, new)
  <2>. HIDE DEF rec, more, old
  <2>1. Len(old.attempts) + 1 \in 1..Len(more)
    BY <1>1, <1>4
  <2>2. /\ more[Len(old.attempts) + 1].id = issued + 1
        /\ more[Len(old.attempts) + 1].call.op = c.op
    BY <1>4
  <2>. HIDE DEF new
  <2>. QED BY <1>5, <1>7, <2>1, <2>2 DEF Holds
<1>9. ASSUME NEW w \in done \cup inflight[p], w.run \notin removed
      PROVE  RecordedIn(mem'[p], w) /\ RecordedIn(disk', w)
  <2>1. RecordedIn(mem[p], w) /\ RecordedIn(disk, w) /\ w \in Work
    BY <1>6, <1>9 DEF RInv, Logged
  <2>2. w.run = r => Holds(rec, w)
    <3>1. SUFFICES ASSUME w.run = r PROVE Holds(rec, w)
      OBVIOUS
    <3>2. PICK i \in 1..Len(old.attempts) : old.attempts[i].id = w.id /\ old.attempts[i].call.op = w.op
      BY <2>1, <3>1 DEF RecordedIn
    <3>. HIDE DEF rec, more, old
    <3>3. i \in 1..Len(more) /\ more[i] = old.attempts[i]
      BY <1>1, <1>4
    <3>. QED BY <1>5, <3>2, <3>3 DEF Holds
  <2>. HIDE DEF rec
  <2>. QED BY <1>2, <1>6, <2>1, <2>2, PutRecords
<1>10. saves => RecordedIn(mem'[p], new) /\ RecordedIn(disk', new)
  <2>. HIDE DEF rec, new
  <2>. QED BY <1>2, <1>6, <1>7, <1>8, PutRecords
<1>11. inflight'[p] \subseteq inflight[p] \cup {new} /\ (~saves => inflight'[p] = inflight[p])
  <2>. HIDE DEF new
  <2>. QED BY <1>2, <1>6
<1>12. Logged(p)'
  <2>. HIDE DEF new
  <2>. QED BY <1>2, <1>9, <1>10, <1>11 DEF Logged
<1>13. new \notin undone
  BY <1>1, <1>7 DEF RInv, Apart
<1>14. \A w \in done' \cup undone' \cup inflight'[p] : w.id \in 0..issued'
  <2>1. \A k \in 0..issued : k \in 0..(issued + 1)
    BY <1>1
  <2>2. issued + 1 \in 0..(issued + 1)
    BY <1>1
  <2>. HIDE DEF new
  <2>. QED BY <1>2, <1>7, <1>11, <2>1, <2>2 DEF RInv, Apart
<1>15. Apart(p)'
  <2>. HIDE DEF new
  <2>. QED BY <1>2, <1>11, <1>13, <1>14 DEF RInv, Apart
<1>. QED BY <1>12, <1>15 DEF RInv

LEMMA FinishRecords ==
  ASSUME NEW p \in Procs, SoleOwner(p), NEW r \in Runs, NEW saves \in Saves,
         NEW i \in 1..MaxAttempts, NEW st \in AttemptStatus,
         RInv(p), IInv', FinishAttempt(p, r, i, st, saves)
  PROVE  RInv(p)'
<1>. DEFINE old == mem[p].runs[r]
            ended == [old.attempts EXCEPT ![i].st = st]
            rec == [old EXCEPT !.attempts = ended]
            v == [run |-> r, op |-> old.attempts[i].call.op, id |-> old.attempts[i].id]
<1>1. old \in RunRecord /\ old.attempts \in Seq(Attempt) /\ Len(old.attempts) \in Nat
  BY RecordOf DEF RInv
<1>2. /\ i \in 1..Len(old.attempts) /\ Put(p, r, rec, saves) /\ issued' = issued
      /\ inflight' = [inflight EXCEPT ![p] = @ \ {v}]
      /\ \/ /\ st = "compensated" /\ done' = done \ {v} /\ undone' = undone \cup {v}
            /\ v \notin inflight[p]
         \/ done' = done /\ undone' = undone
      /\ removed' = removed
  BY DEF FinishAttempt
<1>3. /\ Len(ended) = Len(old.attempts)
      /\ \A k \in 1..Len(old.attempts) :
           ended[k].id = old.attempts[k].id /\ ended[k].call = old.attempts[k].call
  <2>1. old.attempts[i] \in Attempt
    BY <1>1, <1>2, ElementOfSeq
  <2>. DEFINE e == [old.attempts[i] EXCEPT !.st = st]
  <2>2. e \in Attempt /\ e.id = old.attempts[i].id /\ e.call = old.attempts[i].call
    BY <2>1 DEF Attempt
  <2>3. ended = [old.attempts EXCEPT ![i] = e]
    OBVIOUS
  <2>. HIDE DEF e, ended, old
  <2>. QED BY <1>1, <1>2, <2>2, <2>3, ExceptSeq
<1>4. rec.attempts = ended
  <2>. HIDE DEF ended
  <2>. QED BY <1>1 DEF RunRecord
<1>5. /\ inflight \in [Procs -> SUBSET Work] /\ done \subseteq Work /\ undone \subseteq Work
      /\ IInv /\ StoresInv'
  BY DEF RInv, IInv, WorkInv
<1>6. ASSUME NEW w \in done \cup inflight[p], w.run \notin removed
      PROVE  RecordedIn(mem'[p], w) /\ RecordedIn(disk', w)
  <2>1. RecordedIn(mem[p], w) /\ RecordedIn(disk, w) /\ w \in Work
    BY <1>5, <1>6 DEF RInv, Logged
  <2>2. w.run = r => Holds(rec, w)
    <3>1. SUFFICES ASSUME w.run = r PROVE Holds(rec, w)
      OBVIOUS
    <3>2. PICK k \in 1..Len(old.attempts) : old.attempts[k].id = w.id /\ old.attempts[k].call.op = w.op
      BY <2>1, <3>1 DEF RecordedIn
    <3>. HIDE DEF rec, ended, old
    <3>. QED BY <1>3, <1>4, <3>2 DEF Holds
  <2>. HIDE DEF rec
  <2>. QED BY <1>2, <1>5, <2>1, <2>2, PutRecords
<1>7. inflight'[p] = inflight[p] \ {v}
  <2>. HIDE DEF v
  <2>. QED BY <1>2, <1>5
<1>8. Logged(p)'
  <2>. HIDE DEF v
  <2>. QED BY <1>2, <1>6, <1>7 DEF Logged
<1>9. v.id \in 0..issued
  <2>1. RecordInv(r, old, issued, undone) /\ issued \in Nat
    BY RecordOf DEF RInv
  <2>2. old.attempts[i].id \in 1..issued
    BY <1>2, <2>1 DEF RecordInv
  <2>. HIDE DEF old
  <2>. QED BY <2>1, <2>2
<1>10. Apart(p)'
  <2>. HIDE DEF v
  <2>. QED BY <1>2, <1>7, <1>9 DEF RInv, Apart
<1>. QED BY <1>8, <1>10 DEF RInv

(* Forgetting a run does not touch what is recorded of the others.         *)
LEMMA RemoveRecords ==
  ASSUME NEW p \in Procs, SoleOwner(p), NEW r \in Runs, NEW saves \in Saves,
         RInv(p), IInv', Remove(p, r, saves)
  PROVE  RInv(p)'
<1>. DEFINE left == [mem[p] EXCEPT !.runs[r] = Absent, !.newer = {x \in @ : x[1] # r /\ x[2] # r}]
<1>1. /\ mem \in [Procs -> Store] /\ mem[p].runs \in [Runs -> RunRecord] /\ mem[p] \in Store
      /\ done \cup inflight[p] \subseteq Work /\ StoresInv'
  BY DEF RInv, IInv, StoresInv, WorkInv, StoreInv, Store
<1>2. /\ mem' = [mem EXCEPT ![p] = left]
      /\ disk' = IF saves THEN Saved(left) ELSE disk
      /\ removed' = removed \cup {r}
      /\ issued' = issued /\ inflight' = inflight /\ done' = done /\ undone' = undone
  BY DEF Remove
<1>3. left.runs = [mem[p].runs EXCEPT ![r] = Absent]
  BY <1>1 DEF Store
<1>4. mem'[p] = left /\ StoreInv(left, issued', undone')
  <2>. HIDE DEF left
  <2>. QED BY <1>1, <1>2 DEF StoresInv
<1>5. ASSUME NEW w \in done \cup inflight[p], w.run \notin removed, w.run # r
      PROVE  RecordedIn(left, w) /\ RecordedIn(disk', w)
  <2>1. RecordedIn(mem[p], w) /\ RecordedIn(disk, w) /\ w.run \in Runs
    BY <1>1, <1>5 DEF RInv, Logged, Work
  <2>. HIDE DEF left
  <2>2. left.runs[w.run] = mem[p].runs[w.run]
    BY <1>1, <1>3, <1>5, <2>1
  <2>3. RecordedIn(left, w)
    BY <2>1, <2>2 DEF RecordedIn
  <2>. QED BY <1>2, <1>4, <2>1, <2>3, SavedRecords
<1>6. Logged(p)'
  <2>. HIDE DEF left
  <2>. QED BY <1>2, <1>4, <1>5 DEF Logged
<1>. QED BY <1>2, <1>6 DEF RInv, Apart

LEMMA ReplayStep ==
  ASSUME NEW p \in Procs, SoleOwner(p), RInv(p), [Next]_vars
  PROVE  RInv(p)'
<1>1. IInv'
  BY StepInv DEF RInv
<1>2. ASSUME NEW r \in Runs, NEW saves \in Saves, Operation(p, r, saves)
      PROVE  RInv(p)'
  <2>1. ASSUME NEW c \in Calls, StartAttempt(p, r, c, saves)
        PROVE  RInv(p)'
    BY <1>1, <2>1, StartRecords
  <2>2. ASSUME NEW i \in 1..MaxAttempts, NEW st \in AttemptStatus, FinishAttempt(p, r, i, st, saves)
        PROVE  RInv(p)'
    BY <1>1, <2>2, FinishRecords
  <2>3. CASE Remove(p, r, saves)
    BY <1>1, <2>3, RemoveRecords
  <2>. QED BY <1>1, <1>2, <2>1, <2>2, <2>3, QuietOperations
<1>3. ASSUME NEW w \in inflight[p], Perform(p, w)
      PROVE  RInv(p)'
  BY <1>1, <1>3 DEF Perform, RInv, Logged, Apart
<1>4. ASSUME Restart(p)
      PROVE  RInv(p)'
  <2>1. mem \in [Procs -> Store] /\ inflight \in [Procs -> SUBSET Work]
    BY DEF RInv, IInv, StoresInv, WorkInv
  <2>2. mem'[p] = disk /\ inflight'[p] = {} /\ disk' = disk /\ issued' = issued
        /\ done' = done /\ undone' = undone /\ removed' = removed
    BY <1>4, <2>1 DEF Restart, History
  <2>. QED BY <1>1, <2>2 DEF RInv, Logged, Apart
<1>5. CASE Tick
  BY <1>1, <1>5 DEF Tick, History, RInv, Logged, Apart
<1>6. CASE UNCHANGED vars
  BY <1>1, <1>6 DEF vars, RInv, Logged, Apart
<1>. QED BY <1>2, <1>3, <1>4, <1>5, <1>6 DEF Next, SoleOwner

(* RInv holds in every reachable state of a ledger with one owner.         *)
LEMMA ReplayInvariant ==
  ASSUME NEW p, SoleOwner(p)
  PROVE  Spec => []RInv(p)
<1>1. p \in Procs
  BY DEF SoleOwner
<1>2. Init => RInv(p)
  BY <1>1, InitInv DEF Init, RInv, Logged, Apart
<1>3. RInv(p) /\ [Next]_vars => RInv(p)'
  BY <1>1, ReplayStep
<1>. QED BY <1>2, <1>3, PTL DEF Spec

(* No operation, failed save or crash loses the record of an effect that   *)
(* stands: the file knows of everything that was done to the world.        *)
THEOREM EffectsAreDurable ==
  ASSUME NEW p, SoleOwner(p)
  PROVE  Spec => []EffectIsDurable
<1>1. RInv(p) => EffectIsDurable
  BY DEF RInv, Logged, EffectIsDurable
<1>. QED BY <1>1, ReplayInvariant, PTL

(* An effect that is not idempotent stands at most once under its key,     *)
(* whatever the retries, reviews, failed saves and crashes.                *)
THEOREM NoEffectIsReplayed ==
  ASSUME NEW p, SoleOwner(p)
  PROVE  Spec => []NoBlindReplay
<1>1. RInv(p) => NoBlindReplay
  <2>. SUFFICES ASSUME RInv(p), NEW v \in done, NEW w \in done,
                       v.run = w.run, v.op = w.op, v.op \in OneShot, v.run \notin removed
                PROVE  v = w
    BY DEF NoBlindReplay
  <2>1. v \in Work /\ w \in Work /\ v \notin undone /\ w \notin undone
    BY DEF RInv, IInv, WorkInv, Apart
  <2>. DEFINE as == mem[p].runs[v.run].attempts
  <2>2. PICK i \in 1..Len(as) : as[i].id = v.id /\ as[i].call.op = v.op
    BY DEF RInv, Logged, RecordedIn
  <2>3. PICK j \in 1..Len(as) : as[j].id = w.id /\ as[j].call.op = w.op
    BY DEF RInv, Logged, RecordedIn
  <2>4. WorkOf(v.run, as[i]) = v /\ WorkOf(v.run, as[j]) = w
    BY <2>1, <2>2, <2>3 DEF WorkOf, Work
  <2>5. p \in Procs /\ v.run \in Runs
    BY <2>1 DEF SoleOwner, Work
  <2>6. RecordInv(v.run, mem[p].runs[v.run], issued, undone)
    BY <2>5, RecordOf DEF RInv
  <2>7. i = j
    BY <2>1, <2>2, <2>3, <2>4, <2>6 DEF RecordInv
  <2>. QED BY <2>4, <2>7
<1>. QED BY <1>1, ReplayInvariant, PTL

(* An effect that may not be repeated and whose outcome nobody wrote down  *)
(* sends its run to review, in the process that did it as after a restart: *)
(* the attempt is on record, and is not taken for an undone one.           *)
THEOREM InterruptionsAreReviewed ==
  ASSUME NEW p, SoleOwner(p)
  PROVE  Spec => []InterruptedEffectIsReviewed
<1>1. RInv(p) => InterruptedEffectIsReviewed
  <2>. SUFFICES ASSUME RInv(p), NEW w \in done, w.op \in OneShot, w.run \notin removed,
                       mem[p].runs[w.run].status \in Active
                PROVE  \/ Recovery(mem[p].runs[w.run]) = "manual_review"
                       \/ \E i \in 1..Len(mem[p].runs[w.run].attempts) :
                            /\ mem[p].runs[w.run].attempts[i].id = w.id
                            /\ mem[p].runs[w.run].attempts[i].st \in {"succeeded", "failed"}
    BY DEF InterruptedEffectIsReviewed, SoleOwner
  <2>. DEFINE rec == mem[p].runs[w.run]
              as == rec.attempts
  <2>1. w \in Work /\ w \notin undone /\ p \in Procs
    BY DEF RInv, IInv, WorkInv, Apart, SoleOwner
  <2>2. PICK i \in 1..Len(as) : as[i].id = w.id /\ as[i].call.op = w.op
    BY DEF RInv, Logged, RecordedIn
  <2>3. RecordInv(w.run, rec, issued, undone) /\ as \in Seq(Attempt) /\ Len(as) \in Nat
    BY <2>1, RecordOf DEF RInv, Work
  <2>4. as[i] \in Attempt
    BY <2>2, <2>3, ElementOfSeq
  <2>5. as[i].st # "compensated"
    <3>1. WorkOf(w.run, as[i]) = w
      BY <2>1, <2>2 DEF WorkOf, Work
    <3>. QED BY <2>1, <2>2, <2>3, <3>1 DEF RecordInv
  <2>6. as[i].call.se /\ ~as[i].call.idem
    BY <2>2, <2>4, LedgerAssumption DEF OneShot, Attempt
  <2>7. CASE as[i].st \in {"succeeded", "failed"}
    BY <2>2, <2>7
  <2>8. CASE as[i].st \in {"started", "unknown"}
    <3>1. InDoubt(as[i]) /\ ~Retryable(as[i])
      BY <2>6, <2>8 DEF InDoubt, Retryable
    <3>. QED BY <2>2, <3>1 DEF Recovery, NeedsReview
  <2>. QED BY <2>4, <2>5, <2>7, <2>8 DEF Attempt, AttemptStatus
<1>. QED BY <1>1, ReplayInvariant, PTL
-----------------------------------------------------------------------------
(* What was recorded of a run stands.  One record follows another when it  *)
(* has the same end, once there is one, and the same recovery points but   *)
(* for the oldest ones and those that were added.                          *)
EndStays(a, b) ==
  a.status \in Terminal => b.status = a.status \/ (a.status = "failed" /\ b.status = "rolled_back")
Dropped(a, b, k) ==
  /\ k > 0 => Len(b) = MaxPoints
  /\ \A i \in (k + 1)..Len(a) : i - k <= Len(b) /\ b[i - k] = a[i]
PointsStay(a, b) == \E k \in 0..Len(a) : Dropped(a, b, k)
Follows(a, b) ==
  a.status # "absent" => b.status # "absent" /\ EndStays(a, b) /\ PointsStay(a.points, b.points)

(* Memory is ahead of the file.                                            *)
Ahead(p) == \A r \in Runs \ removed : Follows(disk.runs[r], mem[p].runs[r])

LEMMA SamePoints ==
  ASSUME NEW S, NEW s \in Seq(S)
  PROVE  PointsStay(s, s)
<1>1. Len(s) \in Nat
  BY LenProperties
<1>2. \A i \in (0 + 1)..Len(s) : i - 0 = i
  BY <1>1
<1>3. Dropped(s, s, 0)
  BY <1>1, <1>2 DEF Dropped
<1>. QED BY <1>1, <1>3 DEF PointsStay

LEMMA PointsCompose ==
  ASSUME NEW a \in Seq(Point), NEW b \in Seq(Point), NEW c \in Seq(Point),
         Len(b) <= MaxPoints, Len(c) <= MaxPoints, PointsStay(a, b), PointsStay(b, c)
  PROVE  PointsStay(a, c)
<1>1. Len(a) \in Nat /\ Len(b) \in Nat /\ Len(c) \in Nat /\ MaxPoints \in Nat
  BY LenProperties, LedgerAssumption
<1>2. PICK k \in 0..Len(a) : Dropped(a, b, k)
  BY DEF PointsStay
<1>3. PICK j \in 0..Len(b) : Dropped(b, c, j)
  BY DEF PointsStay
<1>4. \A i \in (k + 1)..Len(a) : i - k <= Len(b) /\ b[i - k] = a[i]
  BY <1>2 DEF Dropped
<1>5. \A i \in (j + 1)..Len(b) : i - j <= Len(c) /\ c[i - j] = b[i]
  BY <1>3 DEF Dropped
<1>6. ASSUME NEW i \in (k + j + 1)..Len(a) PROVE i - (k + j) <= Len(c) /\ c[i - (k + j)] = a[i]
  <2>1. i \in (k + 1)..Len(a) /\ i \in Int
    BY <1>1
  <2>2. i - k <= Len(b) /\ b[i - k] = a[i]
    BY <1>4, <2>1
  <2>3. i - k \in (j + 1)..Len(b) /\ (i - k) - j = i - (k + j)
    BY <1>1, <2>1, <2>2
  <2>. QED BY <1>5, <2>2, <2>3
<1>7. CASE k + j <= Len(a)
  <2>1. k + j > 0 => Len(c) = MaxPoints
    <3>1. CASE j > 0
      BY <1>3, <3>1 DEF Dropped
    <3>2. CASE j = 0 /\ k > 0
      <4>1. Len(b) = MaxPoints
        BY <1>2, <3>2 DEF Dropped
      <4>2. CASE Len(b) = 0
        BY <1>1, <4>1, <4>2
      <4>3. CASE Len(b) # 0
        <5>1. Len(b) \in (j + 1)..Len(b)
          BY <1>1, <3>2, <4>3
        <5>2. Len(b) - j <= Len(c)
          BY <1>5, <5>1
        <5>. QED BY <1>1, <3>2, <4>1, <5>2
      <4>. QED BY <4>2, <4>3
    <3>. QED BY <1>1, <3>1, <3>2
  <2>2. k + j \in 0..Len(a)
    BY <1>1, <1>7
  <2>. QED BY <1>6, <2>1, <2>2 DEF PointsStay, Dropped
<1>8. CASE ~(k + j <= Len(a))
  <2>1. Len(c) = MaxPoints \/ Len(a) = 0
    <3>1. CASE j > 0
      BY <1>3, <3>1 DEF Dropped
    <3>2. CASE j = 0
      BY <1>1, <1>8, <3>2
    <3>. QED BY <1>1, <3>1, <3>2
  <2>2. \A i \in (Len(a) + 1)..Len(a) : FALSE
    BY <1>1
  <2>3. Len(a) > 0 => Len(c) = MaxPoints
    BY <1>1, <2>1
  <2>4. Dropped(a, c, Len(a))
    BY <2>2, <2>3 DEF Dropped
  <2>5. Len(a) \in 0..Len(a)
    BY <1>1
  <2>. QED BY <2>4, <2>5 DEF PointsStay
<1>. QED BY <1>7, <1>8

(* A point that is pushed leaves the others, but for the oldest one when   *)
(* there are as many as may be.                                            *)
LEMMA PushKeepsPoints ==
  ASSUME NEW a \in Seq(Point), Len(a) <= MaxPoints, NEW x \in Point
  PROVE  PointsStay(a, LastN(Append(a, x), MaxPoints))
<1>. DEFINE s == Append(a, x)
            b == LastN(s, MaxPoints)
<1>. SUFFICES PointsStay(a, b)
  OBVIOUS
<1>1. Len(a) \in Nat /\ MaxPoints \in Nat /\ s \in Seq(Point) /\ Len(s) = Len(a) + 1
      /\ \A i \in 1..Len(a) : s[i] = a[i]
  BY LenProperties, LedgerAssumption, AppendProperties
<1>. HIDE DEF s
<1>2. \A i \in 1..Len(s) : s[i] \in Point
  BY <1>1, ElementOfSeq
<1>3. CASE Len(s) > MaxPoints
  <2>. DEFINE m == Len(s) - MaxPoints + 1
  <2>1. m \in Int /\ Len(s) \in Int /\ m = 2 /\ Len(a) = MaxPoints /\ Len(s) = MaxPoints + 1
    BY <1>1, <1>3
  <2>2. b = SubSeq(s, 2, Len(s))
    BY <1>3, <2>1 DEF LastN
  <2>3. /\ Len(SubSeq(s, 2, Len(s))) = IF 2 <= Len(s) THEN Len(s) - 2 + 1 ELSE 0
        /\ \A i \in 1..(Len(s) - 2 + 1) : SubSeq(s, 2, Len(s))[i] = s[2 + i - 1]
    <3>1. \A i \in 2..Len(s) : s[i] \in Point
      BY <1>1, <1>2
    <3>. QED BY <2>1, <3>1, SubSeqProperties
  <2>. HIDE DEF b
  <2>4. CASE MaxPoints = 0
    <3>1. \A i \in (0 + 1)..Len(a) : FALSE
      BY <2>1, <2>4
    <3>2. 0 \in 0..Len(a)
      BY <1>1
    <3>. QED BY <3>1, <3>2 DEF PointsStay, Dropped
  <2>5. CASE MaxPoints > 0
    <3>1. Len(b) = MaxPoints /\ 1 \in 0..Len(a)
      BY <1>1, <2>1, <2>2, <2>3, <2>5
    <3>2. ASSUME NEW i \in (1 + 1)..Len(a) PROVE i - 1 <= Len(b) /\ b[i - 1] = a[i]
      <4>1. i - 1 \in 1..(Len(s) - 2 + 1) /\ i \in 1..Len(a) /\ 2 + (i - 1) - 1 = i /\ i - 1 <= MaxPoints
        BY <1>1, <2>1
      <4>. QED BY <1>1, <2>2, <2>3, <3>1, <4>1
    <3>3. Dropped(a, b, 1)
      BY <3>1, <3>2 DEF Dropped
    <3>. QED BY <3>1, <3>3 DEF PointsStay
  <2>. QED BY <1>1, <2>4, <2>5
<1>4. CASE ~(Len(s) > MaxPoints)
  <2>1. b = SubSeq(s, 1, Len(s))
    BY <1>4 DEF LastN
  <2>2. SubSeq(s, 1, Len(s)) = s
    BY <1>1, SubSeqFull
  <2>. HIDE DEF b
  <2>3. ASSUME NEW i \in (0 + 1)..Len(a) PROVE i - 0 <= Len(b) /\ b[i - 0] = a[i]
    <3>1. i \in 1..Len(a) /\ i - 0 = i /\ i <= Len(a) + 1
      BY <1>1
    <3>. QED BY <1>1, <2>1, <2>2, <3>1
  <2>4. 0 \in 0..Len(a)
    BY <1>1
  <2>5. Dropped(a, b, 0)
    BY <2>3 DEF Dropped
  <2>. QED BY <2>4, <2>5 DEF PointsStay
<1>. QED BY <1>3, <1>4

LEMMA FollowsSelf ==
  ASSUME NEW a \in RunRecord
  PROVE  Follows(a, a)
BY SamePoints DEF Follows, EndStays, RunRecord

LEMMA FollowsCompose ==
  ASSUME NEW a, NEW b, NEW c, RecordOK(a), RecordOK(b), RecordOK(c), Follows(a, b), Follows(b, c)
  PROVE  Follows(a, c)
<1>1. a.points \in Seq(Point) /\ b.points \in Seq(Point) /\ c.points \in Seq(Point)
      /\ Len(b.points) <= MaxPoints /\ Len(c.points) <= MaxPoints
  BY DEF RecordOK, RunRecord
<1>2. a.status # "absent" => PointsStay(a.points, c.points)
  BY <1>1, PointsCompose DEF Follows
<1>3. a.status # "absent" => EndStays(a, c)
  BY DEF Follows, EndStays, Terminal
<1>. QED BY <1>2, <1>3 DEF Follows

(* What an operation stores of a run follows what memory held of it.       *)
LEMMA OperationFollows ==
  ASSUME NEW p \in Procs, NEW r \in Runs, NEW saves \in Saves, IInv, IInv',
         Operation(p, r, saves), ~Remove(p, r, saves)
  PROVE  \E rec : Put(p, r, rec, saves) /\ Follows(mem[p].runs[r], rec)
<1>. DEFINE old == mem[p].runs[r]
            G == \E rec : Put(p, r, rec, saves) /\ Follows(old, rec)
<1>1. RecordOK(old) /\ old \in RunRecord /\ old.points \in Seq(Point) /\ Len(old.points) <= MaxPoints
      /\ Len(old.points) \in Nat
  BY RecordOf DEF RecordOK, RunRecord
<1>2. PointsStay(old.points, old.points)
  BY <1>1, SamePoints
<1>3. \A m \in Marks \cup {NoMark} :
        PointsStay(old.points, LastN(Append(old.points, [index |-> Len(old.points), data |-> m]), MaxPoints))
  <2>. TAKE m \in Marks \cup {NoMark}
  <2>1. [index |-> Len(old.points), data |-> m] \in Point
    BY <1>1 DEF Point
  <2>. QED BY <1>1, <2>1, PushKeepsPoints
<1>4. ASSUME NEW rec, Put(p, r, rec, saves), rec.status # "absent", EndStays(old, rec),
             rec.points = old.points
      PROVE  G
  BY <1>2, <1>4 DEF Follows
<1>. HIDE DEF G
<1>5. ASSUME NEW b \in Bindings, NEW m \in Marks \cup {NoMark}, Create(p, r, b, m, saves)
      PROVE  G
  BY <1>5 DEF Create, Known, Follows, G
<1>6. ASSUME NEW s \in Status, NEW m \in Marks \cup {NoMark}, Transition(p, r, s, m, saves)
      PROVE  G
  <2>. DEFINE moved == [old EXCEPT !.status = s]
              rec == WithPoint(moved, m)
  <2>1. moved.status = s /\ moved.points = old.points /\ moved \in RunRecord
    BY <1>1 DEF RunRecord
  <2>2. Put(p, r, rec, saves) /\ (s = old.status \/ s \in Transitions[old.status]) /\ s # "absent"
    BY <1>6 DEF Transition, Status, Active, Terminal
  <2>3. old.status \in Terminal => Transitions[old.status] = {}
    BY DEF Transitions, Terminal, Status, Active
  <2>. HIDE DEF moved
  <2>4. rec.status = s /\ PointsStay(old.points, rec.points)
    <3>1. CASE m = NoMark
      BY <1>2, <2>1, <3>1 DEF WithPoint
    <3>2. CASE m # NoMark
      <4>. DEFINE pts == LastN(Append(old.points, [index |-> Len(old.points), data |-> m]), MaxPoints)
      <4>1. rec = [moved EXCEPT !.point = m, !.points = pts]
        BY <2>1, <3>2 DEF WithPoint
      <4>2. PointsStay(old.points, pts)
        BY <1>3
      <4>. HIDE DEF pts, rec
      <4>. QED BY <2>1, <4>1, <4>2 DEF RunRecord
    <3>. QED BY <3>1, <3>2
  <2>. HIDE DEF rec
  <2>5. Follows(old, rec)
    BY <2>2, <2>3, <2>4 DEF Follows, EndStays
  <2>. QED BY <2>2, <2>5 DEF G
<1>7. ASSUME NEW m \in Marks, Checkpoint(p, r, m, saves)
      PROVE  G
  <2>. DEFINE pts == LastN(Append(old.points, [index |-> Len(old.points), data |-> m]), MaxPoints)
              rec == [old EXCEPT !.point = m, !.points = pts]
  <2>1. PointsStay(old.points, pts)
    BY <1>3
  <2>2. Put(p, r, rec, saves) /\ old.status # "absent"
    BY <1>7 DEF Checkpoint, Known
  <2>. HIDE DEF pts
  <2>3. rec.status = old.status /\ rec.points = pts
    BY <1>1 DEF RunRecord
  <2>. HIDE DEF rec
  <2>. QED BY <2>1, <2>2, <2>3 DEF Follows, EndStays, G
<1>8. ASSUME Cancel(p, r, saves) PROVE G
  <2>. DEFINE rec == [old EXCEPT !.status = "cancelled"]
  <2>1. rec.status = "cancelled" /\ rec.points = old.points
    BY <1>1 DEF RunRecord
  <2>2. Put(p, r, rec, saves) /\ old.status \notin Terminal
    BY <1>8 DEF Cancel, Active, Terminal
  <2>. HIDE DEF rec
  <2>. QED BY <1>4, <2>1, <2>2 DEF EndStays
<1>9. ASSUME Resume(p, r, saves) PROVE G
  <2>. DEFINE rec == [old EXCEPT !.status = "running"]
  <2>1. rec.status = "running" /\ rec.points = old.points
    BY <1>1 DEF RunRecord
  <2>2. Put(p, r, rec, saves) /\ old.status \notin Terminal
    BY <1>9 DEF Resume, Active, Terminal
  <2>. HIDE DEF rec
  <2>. QED BY <1>4, <2>1, <2>2 DEF EndStays
<1>10. ASSUME NEW t \in 0..(MaxPoints - 1), RollBack(p, r, t, saves)
       PROVE  G
  <2>. DEFINE cp == old.points[t + 1].data
              log == LastN(Append(old.rollbacks, [from |-> Len(old.points) - 1, to |-> t]), MaxApprovals)
              rec == [old EXCEPT !.status = "rolled_back", !.point = cp, !.rollbacks = log]
  <2>1. rec.status = "rolled_back" /\ rec.points = old.points
    <3>. HIDE DEF cp, log
    <3>. QED BY <1>1 DEF RunRecord
  <2>2. Put(p, r, rec, saves) /\ old.status \notin {"succeeded", "cancelled"}
    BY <1>10 DEF RollBack
  <2>. HIDE DEF rec
  <2>. QED BY <1>4, <2>1, <2>2 DEF EndStays, Terminal
<1>11. ASSUME NEW d \in {"approved", "rejected", "expired"}, NEW e \in Expiries,
              Approve(p, r, d, e, saves)
       PROVE  G
  <2>. DEFINE log == LastN(Append(old.approvals, [decision |-> d, exp |-> e]), MaxApprovals)
              rec == [old EXCEPT !.approvals = log]
  <2>1. rec.status = old.status /\ rec.points = old.points
    <3>. HIDE DEF log
    <3>. QED BY <1>1 DEF RunRecord
  <2>2. Put(p, r, rec, saves) /\ old.status # "absent"
    BY <1>11 DEF Approve
  <2>. HIDE DEF rec
  <2>. QED BY <1>4, <2>1, <2>2 DEF EndStays
<1>12. ASSUME NEW c \in Calls, StartAttempt(p, r, c, saves)
       PROVE  G
  <2>. DEFINE more == Append(old.attempts, [id |-> issued + 1, call |-> c, st |-> "started"])
              s == IF c.se /\ old.status = "awaiting_approval" THEN "running" ELSE old.status
              rec == [old EXCEPT !.status = s, !.attempts = more]
  <2>1. Put(p, r, rec, saves) /\ old.status # "absent"
    BY <1>12 DEF StartAttempt, Known
  <2>2. s = old.status \/ (s = "running" /\ old.status \notin Terminal)
    BY DEF Terminal
  <2>. HIDE DEF more, s
  <2>3. rec.status = s /\ rec.points = old.points
    BY <1>1 DEF RunRecord
  <2>. HIDE DEF rec
  <2>. QED BY <1>4, <2>1, <2>2, <2>3 DEF EndStays
<1>13. ASSUME NEW i \in 1..MaxAttempts, NEW st \in AttemptStatus \ {"started"},
              FinishAttempt(p, r, i, st, saves)
       PROVE  G
  <2>. DEFINE ended == [old.attempts EXCEPT ![i].st = st]
              rec == [old EXCEPT !.attempts = ended]
  <2>1. Put(p, r, rec, saves) /\ old.status # "absent"
    BY <1>13 DEF FinishAttempt, Known
  <2>. HIDE DEF ended
  <2>2. rec.status = old.status /\ rec.points = old.points
    BY <1>1 DEF RunRecord
  <2>. HIDE DEF rec
  <2>. QED BY <1>4, <2>1, <2>2 DEF EndStays
<1>. QED BY <1>5, <1>6, <1>7, <1>8, <1>9, <1>10, <1>11, <1>12, <1>13 DEF Operation, G

(* Memory stays ahead of the file, and the file follows what it held.      *)
LEMMA AheadStep ==
  ASSUME NEW p, SoleOwner(p), IInv, IInv', Ahead(p), [Next]_vars
  PROVE  Ahead(p)' /\ \A r \in Runs \ removed' : Follows(disk.runs[r], disk'.runs[r])
<1>1. /\ p \in Procs
      /\ \A r \in Runs : /\ RecordOK(mem[p].runs[r]) /\ mem[p].runs[r] \in RunRecord
                          /\ RecordOK(disk.runs[r]) /\ disk.runs[r] \in RunRecord
                          /\ RecordOK(mem'[p].runs[r]) /\ mem'[p].runs[r] \in RunRecord
      /\ StoreInv(mem'[p], issued', undone')
      /\ mem \in [Procs -> Store] /\ mem[p].runs \in [Runs -> RunRecord]
  BY DEF SoleOwner, IInv, StoresInv, StoreInv, RecordInv, RecordOK, Store
<1>2. ASSUME removed \subseteq removed',
             \A r \in Runs \ removed' : Follows(mem[p].runs[r], mem'[p].runs[r]),
             disk' = disk \/ disk' = Saved(mem'[p])
      PROVE  Ahead(p)' /\ \A r \in Runs \ removed' : Follows(disk.runs[r], disk'.runs[r])
  <2>1. ASSUME NEW r \in Runs \ removed'
        PROVE  /\ Follows(disk.runs[r], disk'.runs[r])
               /\ Follows(disk'.runs[r], mem'[p].runs[r])
    <3>1. Follows(disk.runs[r], mem'[p].runs[r])
      BY <1>1, <1>2, <2>1, FollowsCompose DEF Ahead
    <3>2. CASE disk' = disk
      BY <1>1, <2>1, <3>1, <3>2, FollowsSelf
    <3>3. CASE disk' = Saved(mem'[p]) /\ Known(mem'[p], r)
      <4>1. disk'.runs[r] = mem'[p].runs[r]
        BY <1>1, <2>1, <3>3, SavedKeeps
      <4>. QED BY <1>1, <2>1, <3>1, <4>1, FollowsSelf
    <3>4. CASE disk' = Saved(mem'[p]) /\ ~Known(mem'[p], r)
      <4>1. disk.runs[r].status = "absent"
        BY <3>1, <3>4 DEF Follows, Known
      <4>2. disk'.runs[r] = Absent
        BY <2>1, <3>4 DEF Saved, Kept
      <4>. QED BY <4>1, <4>2 DEF Follows, Absent
    <3>. QED BY <1>2, <3>2, <3>3, <3>4
  <2>. QED BY <2>1 DEF Ahead
<1>3. ASSUME mem' = mem, disk' = disk, removed' = removed
      PROVE  Ahead(p)' /\ \A r \in Runs \ removed' : Follows(disk.runs[r], disk'.runs[r])
  BY <1>1, <1>2, <1>3, FollowsSelf
<1>4. ASSUME NEW r \in Runs, NEW saves \in Saves, Operation(p, r, saves)
      PROVE  Ahead(p)' /\ \A q \in Runs \ removed' : Follows(disk.runs[q], disk'.runs[q])
  <2>1. CASE Remove(p, r, saves)
    <3>. DEFINE left == [mem[p] EXCEPT !.runs[r] = Absent, !.newer = {x \in @ : x[1] # r /\ x[2] # r}]
    <3>1. left.runs = [mem[p].runs EXCEPT ![r] = Absent]
      BY <1>1 DEF Store
    <3>2. /\ mem' = [mem EXCEPT ![p] = left] /\ removed' = removed \cup {r}
          /\ disk' = IF saves THEN Saved(left) ELSE disk
      BY <2>1 DEF Remove
    <3>. HIDE DEF left
    <3>3. mem'[p] = left
      BY <1>1, <3>2
    <3>4. \A q \in Runs \ removed' : mem'[p].runs[q] = mem[p].runs[q]
      BY <1>1, <3>1, <3>2, <3>3
    <3>. QED BY <1>1, <1>2, <3>2, <3>3, <3>4, FollowsSelf
  <2>2. CASE ~Remove(p, r, saves)
    <3>1. PICK rec : Put(p, r, rec, saves) /\ Follows(mem[p].runs[r], rec)
      BY <1>1, <1>4, <2>2, OperationFollows
    <3>2. mem'[p] = Updated(mem[p], r, rec)
      BY <1>1, <3>1 DEF Put
    <3>3. mem'[p].runs = [mem[p].runs EXCEPT ![r] = rec]
      BY <3>2 DEF Updated
    <3>4. \A q \in Runs : Follows(mem[p].runs[q], mem'[p].runs[q])
      BY <1>1, <3>1, <3>3, FollowsSelf
    <3>5. disk' = disk \/ disk' = Saved(mem'[p])
      BY <3>1, <3>2 DEF Put
    <3>6. removed' = removed
      BY <1>4, <2>2 DEF Operation, Create, Transition, Checkpoint, Cancel, Resume, RollBack, Approve,
         StartAttempt, FinishAttempt, History
    <3>. QED BY <1>2, <3>4, <3>5, <3>6
  <2>. QED BY <2>1, <2>2
<1>5. ASSUME NEW w \in inflight[p], Perform(p, w)
      PROVE  Ahead(p)' /\ \A r \in Runs \ removed' : Follows(disk.runs[r], disk'.runs[r])
  BY <1>3, <1>5 DEF Perform
<1>6. ASSUME Restart(p)
      PROVE  Ahead(p)' /\ \A r \in Runs \ removed' : Follows(disk.runs[r], disk'.runs[r])
  <2>1. mem'[p] = disk /\ disk' = disk /\ removed' = removed
    BY <1>1, <1>6 DEF Restart, History
  <2>. QED BY <1>1, <2>1, FollowsSelf DEF Ahead
<1>7. CASE Tick \/ UNCHANGED vars
  BY <1>3, <1>7 DEF Tick, vars, History
<1>. QED BY <1>4, <1>5, <1>6, <1>7 DEF Next, SoleOwner

LEMMA AheadInit ==
  ASSUME NEW p, SoleOwner(p), Init
  PROVE  Ahead(p)
<1>1. \A r \in Runs : mem[p].runs[r] = Absent /\ disk.runs[r] = Absent
  BY DEF Init, Empty, SoleOwner
<1>. QED BY <1>1 DEF Ahead, Follows, Absent

LEMMA NumberFacts ==
  ASSUME NEW n \in Nat
  PROVE  n + 1 # n /\ \A e \in Nat : (e # 0 => e > n) => e \notin 1..n
OBVIOUS

LEMMA MoreAttempts ==
  ASSUME NEW s \in Seq(Attempt), NEW n \in Nat, NEW c \in Calls
  PROVE  LET a == [id |-> n + 1, call |-> c, st |-> "started"]
         IN  Len(Append(s, a)) = Len(s) + 1 /\ Append(s, a)[Len(s) + 1] = a
<1>1. [id |-> n + 1, call |-> c, st |-> "started"] \in Attempt
  BY DEF Attempt, AttemptStatus
<1>. QED BY <1>1, AppendProperties

(* An attempt that takes a run out of awaiting_approval had a receipt.     *)
LEMMA GateStep ==
  ASSUME IInv, [Next]_vars, NEW p \in Procs, NEW r \in Runs,
         mem[p].runs[r].status = "awaiting_approval", issued' = issued + 1,
         Len(mem'[p].runs[r].attempts) = Len(mem[p].runs[r].attempts) + 1,
         mem'[p].runs[r].attempts[Len(mem'[p].runs[r].attempts)].call.se
  PROVE  \E i \in 1..Len(mem[p].runs[r].approvals) :
           /\ mem[p].runs[r].approvals[i].decision = "approved"
           /\ mem[p].runs[r].approvals[i].exp \notin 1..clock
<1>1. issued \in Nat /\ issued' # issued /\ clock \in Nat /\ mem \in [Procs -> Store]
      /\ \A q \in Procs : mem[q].runs \in [Runs -> RunRecord]
  <2>1. issued \in Nat /\ clock \in Nat
    BY DEF IInv, WorkInv
  <2>2. issued + 1 # issued
    BY <2>1, NumberFacts
  <2>3. mem \in [Procs -> Store] /\ \A q \in Procs : mem[q].runs \in [Runs -> RunRecord]
    BY DEF IInv, StoresInv, Store
  <2>. QED BY <2>1, <2>2, <2>3
<1>2. PICK q \in Procs, s \in Runs, saves \in Saves, c \in Calls : StartAttempt(q, s, c, saves)
  <2>1. ~(Tick \/ UNCHANGED vars) /\ \A q \in Procs : ~Restart(q) /\ \A w \in inflight[q] : ~Perform(q, w)
    BY <1>1 DEF Tick, vars, Restart, Perform
  <2>2. PICK q \in Procs, s \in Runs, saves \in Saves : Operation(q, s, saves)
    BY <2>1 DEF Next
  <2>. QED BY <1>1, <2>2 DEF Operation, Create, Transition, Checkpoint, Cancel, Resume, RollBack,
       Approve, FinishAttempt, Remove, History
<1>. DEFINE old == mem[q].runs[s]
            started == [id |-> issued + 1, call |-> c, st |-> "started"]
            more == Append(old.attempts, started)
            st == IF c.se /\ old.status = "awaiting_approval" THEN "running" ELSE old.status
            rec == [old EXCEPT !.status = st, !.attempts = more]
<1>3. /\ Put(q, s, rec, saves)
      /\ c.se /\ old.status = "awaiting_approval" => Approved(old, clock)
  BY <1>2 DEF StartAttempt
<1>4. /\ old \in RunRecord /\ old.attempts \in Seq(Attempt) /\ Len(old.attempts) \in Nat
      /\ old.approvals \in Seq(Approval) /\ Len(old.approvals) \in Nat
  <2>1. old \in RunRecord /\ old.attempts \in Seq(Attempt)
    BY <1>2, RecordOf
  <2>2. old.approvals \in Seq(Approval)
    BY <2>1 DEF RunRecord
  <2>. QED BY <2>1, <2>2, LenProperties
<1>5. rec.attempts = more
  <2>. HIDE DEF more, st
  <2>. QED BY <1>4 DEF RunRecord
<1>6. Len(more) = Len(old.attempts) + 1 /\ more[Len(old.attempts) + 1] = started
  <2>. HIDE DEF old
  <2>. QED BY <1>1, <1>2, <1>4, MoreAttempts
<1>. HIDE DEF rec, more
<1>7. mem'[q].runs = [mem[q].runs EXCEPT ![s] = rec] /\ \A k \in Procs : k # q => mem'[k] = mem[k]
  BY <1>1, <1>3 DEF Put, Updated
<1>8. p = q /\ r = s
  <2>1. Len(mem[p].runs[r].attempts) \in Nat
    BY RecordOf
  <2>2. Len(mem[p].runs[r].attempts) # Len(mem[p].runs[r].attempts) + 1
    BY <2>1, NumberFacts
  <2>3. mem'[p] # mem[p] /\ mem'[p].runs[r] # mem[p].runs[r]
    BY <2>2
  <2>4. p = q
    BY <1>7, <2>3
  <2>. QED BY <1>1, <1>7, <2>3, <2>4
<1>9. mem'[p].runs[r] = rec
  BY <1>1, <1>7, <1>8
<1>10. c.se
  BY <1>4, <1>5, <1>6, <1>8, <1>9
<1>11. Approved(old, clock)
  BY <1>3, <1>8, <1>10
<1>12. PICK i \in 1..Len(old.approvals) :
         old.approvals[i].decision = "approved" /\ (old.approvals[i].exp # 0 => old.approvals[i].exp > clock)
  BY <1>11 DEF Approved
<1>13. old.approvals[i].exp \in Nat
  <2>1. old.approvals[i] \in Approval
    BY <1>4, <1>12, ElementOfSeq
  <2>. QED BY <2>1 DEF Approval
<1>14. old.approvals[i].exp \notin 1..clock
  <2>. DEFINE e == old.approvals[i].exp
  <2>1. e \in Nat /\ (e # 0 => e > clock)
    BY <1>12, <1>13
  <2>. HIDE DEF e
  <2>2. e \notin 1..clock
    BY <1>1, <2>1, NumberFacts
  <2>. QED BY <2>2 DEF e
<1>. QED BY <1>8, <1>12, <1>14

(* The approval gate, with any number of owners                            *)
THEOREM GateIsGuarded == Spec => GateNeedsReceipt
<1>1. IInv /\ [Next]_vars =>
        [\A p \in Procs, r \in Runs :
           /\ mem[p].runs[r].status = "awaiting_approval"
           /\ issued' = issued + 1
           /\ Len(mem'[p].runs[r].attempts) = Len(mem[p].runs[r].attempts) + 1
           /\ mem'[p].runs[r].attempts[Len(mem'[p].runs[r].attempts)].call.se
           => \E i \in 1..Len(mem[p].runs[r].approvals) :
                /\ mem[p].runs[r].approvals[i].decision = "approved"
                /\ mem[p].runs[r].approvals[i].exp \notin 1..clock]_mem
  BY GateStep
<1>. QED BY <1>1, LedgerInvariant, PTL DEF Spec, GateNeedsReceipt

(* What was recorded of a run stands: its end, its recovery points and the *)
(* gate it is held by, over late operations, failed saves, caps and        *)
(* restarts.                                                               *)
THEOREM RecordsAlwaysStand ==
  ASSUME NEW p, SoleOwner(p)
  PROVE  Spec => RecordsStand
<1>. DEFINE RunEnds == \A r \in Runs :
              r \notin removed' /\ disk.runs[r].status \in Terminal =>
                \/ disk'.runs[r].status = disk.runs[r].status
                \/ disk.runs[r].status = "failed" /\ disk'.runs[r].status = "rolled_back"
            PointsKept == \A r \in Runs :
              r \notin removed' /\ Known(disk, r) =>
                \E k \in 0..Len(disk.runs[r].points) :
                  /\ k > 0 => Len(disk'.runs[r].points) = MaxPoints
                  /\ \A i \in (k + 1)..Len(disk.runs[r].points) :
                       /\ i - k <= Len(disk'.runs[r].points)
                       /\ disk'.runs[r].points[i - k] = disk.runs[r].points[i]
<1>1. Init => IInv /\ Ahead(p)
  BY InitInv, AheadInit
<1>2. IInv /\ Ahead(p) /\ [Next]_vars => IInv' /\ Ahead(p)'
  BY StepInv, AheadStep
<1>3. IInv /\ Ahead(p) /\ [Next]_vars => [RunEnds]_disk /\ [PointsKept]_disk
  <2>. SUFFICES ASSUME IInv, Ahead(p), [Next]_vars PROVE RunEnds /\ PointsKept
    OBVIOUS
  <2>1. \A r \in Runs \ removed' : Follows(disk.runs[r], disk'.runs[r])
    BY StepInv, AheadStep
  <2>2. RunEnds
    BY <2>1 DEF Follows, EndStays, Terminal
  <2>3. PointsKept
    BY <2>1 DEF Follows, PointsStay, Dropped, Known
  <2>. QED BY <2>2, <2>3
<1>4. Spec => TerminalIsFinal
  BY <1>1, <1>2, <1>3, PTL DEF Spec, TerminalIsFinal
<1>5. Spec => PointsAreImmutable
  BY <1>1, <1>2, <1>3, PTL DEF Spec, PointsAreImmutable
<1>. QED BY <1>4, <1>5, GateIsGuarded, TypeCorrect DEF RecordsStand
=============================================================================
