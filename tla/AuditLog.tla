------------------------------ MODULE AuditLog ------------------------------
(***************************************************************************)
(* The hash-chained audit log: auditTail, withAuditLock, auditWrite and    *)
(* auditVerify of packages/engine/src/policy.js, and explainChain of       *)
(* apps/desktop/src/audit-explain.js.                                      *)
(*                                                                         *)
(* Several processes (daemon, CLI, fleet controller) append to one file.   *)
(* A write is synchronous within its process and interleaves with those of *)
(* other processes at every call of the file system.  The lock is a file   *)
(* created with O_EXCL; it does not say who made it.  A hash is the        *)
(* identity of the record it is the hash of.                               *)
(***************************************************************************)
EXTENDS Integers, Sequences, FiniteSetsExt

CONSTANTS
  Procs,      \* operating-system processes
  MaxTries,   \* the 100 tries to create the lock file
  MaxRecords  \* bound: appends in a behaviour

ASSUME AuditAssumption ==
  /\ MaxTries \in Nat \ {0}
  /\ MaxRecords \in Nat
  /\ IsFiniteSet(Procs)

VARIABLES
  log,      \* the lines of the file
  lock,     \* the lock file
  pc,       \* where each process is in auditWrite
  tries,    \* tries[p]: stale lock files p has removed in this write
  owns,     \* owns[p]: fd # null, p created a lock file
  tail,     \* tail[p]: the hash p will chain its record to
  state,    \* state[p]: auditState, the tail p knows of once it has written
  written,  \* ids of records given out so far
  calm      \* history: no crash, no line cut off, nobody waited 500 ms for the lock

logVars == <<log, lock, pc, tries, owns, tail, state, written, calm>>

NoHash == 0                                      \* the '' before the first record
Record(id, prev) == [kind |-> "record", id |-> id, prev |-> prev]
Torn == [kind |-> "torn", id |-> NoHash, prev |-> NoHash]  \* cut off: no newline
Junk == [kind |-> "junk", id |-> NoHash, prev |-> NoHash]  \* a line nobody can parse
-----------------------------------------------------------------------------
Records == {i \in 1..Len(log) : log[i].kind = "record"}

(* mutant: what the process remembers goes before what the file says *)
MutTailFor(p) ==
  IF state[p] # NoHash THEN state[p]
  ELSE IF Records = {} THEN NoHash ELSE log[Max(Records)].id
(* auditTail: the last line that parses; what the process remembers counts *)
(* only when there is none.                                                *)
TailFor(p) == IF Records = {} THEN state[p] ELSE log[Max(Records)].id

(* What follows a line without a newline lands on that line. *)
Appended(line) ==
  IF log # <<>> /\ log[Len(log)].kind = "torn"
  THEN [log EXCEPT ![Len(log)] = IF line = Torn THEN Torn ELSE Junk]
  ELSE Append(log, line)

LogInit ==
  /\ log = <<>>
  /\ lock = "free"
  /\ pc = [p \in Procs |-> "idle"]
  /\ tries = [p \in Procs |-> 0]
  /\ owns = [p \in Procs |-> FALSE]
  /\ tail = [p \in Procs |-> NoHash]
  /\ state = [p \in Procs |-> NoHash]
  /\ written = 0
  /\ calm = TRUE

Goto(p, l) == pc' = [pc EXCEPT ![p] = l]

Begin(p) ==
  /\ pc[p] = "idle"
  /\ written + Cardinality({q \in Procs : pc[q] # "idle"}) < MaxRecords
  /\ Goto(p, "open")
  /\ tries' = [tries EXCEPT ![p] = 0]
  /\ UNCHANGED <<log, lock, owns, tail, state, written, calm>>

Open(p) ==
  /\ pc[p] = "open"
  /\ lock = "free"
  /\ lock' = "held"
  /\ owns' = [owns EXCEPT ![p] = TRUE]
  /\ Goto(p, "read")
  /\ UNCHANGED <<log, tries, tail, state, written, calm>>

(* The lock file is older than 5 s: the process will remove it.  A younger *)
(* one sends it to sleep and around the loop, which changes nothing.       *)
SeeStale(p) ==
  /\ pc[p] = "open"
  /\ lock = "stale"
  /\ Goto(p, "steal")
  /\ UNCHANGED <<log, lock, tries, owns, tail, state, written, calm>>

(* unlinkSync removes whatever bears the name by now; it was the last try, *)
(* or the next one creates the file anew.                                  *)
Steal(p) ==
  /\ pc[p] = "steal"
  /\ lock' = "free"
  /\ tries' = [tries EXCEPT ![p] = @ + 1]
  /\ Goto(p, IF tries[p] + 1 < MaxTries THEN "open" ELSE "read")
  /\ UNCHANGED <<log, owns, tail, state, written, calm>>

(* The 100th try failed, 500 ms have passed: on without the lock.          *)
GiveUp(p) ==
  /\ pc[p] = "open"
  /\ lock # "free"
  /\ calm' = FALSE
  /\ Goto(p, "read")
  /\ UNCHANGED <<log, lock, tries, owns, tail, state, written>>

(* What the process remembers is overwritten before the append succeeds.   *)
ReadTail(p) ==
  /\ pc[p] = "read"
  /\ tail' = [tail EXCEPT ![p] = TailFor(p)]
  /\ state' = [state EXCEPT ![p] = IF @ = NoHash THEN NoHash ELSE TailFor(p)]
  /\ Goto(p, "append")
  /\ UNCHANGED <<log, lock, tries, owns, written, calm>>

(* mutant: the hash is remembered before the record is appended *)
MutWrite(p) ==
  /\ pc[p] = "append"
  /\ written' = written + 1
  /\ state' = [state EXCEPT ![p] = written + 1]
  /\ \/ log' = Appended(Record(written + 1, tail[p])) /\ calm' = calm
     \/ UNCHANGED <<log, calm>>
  /\ Goto(p, "close")
  /\ UNCHANGED <<lock, tries, owns, tail>>
(* appendFileSync; when it throws (disk full), nothing or a part of the    *)
(* line is in the file, and auditWrite swallows the error.                 *)
Write(p) ==
  /\ pc[p] = "append"
  /\ written' = written + 1
  /\ \/ /\ log' = Appended(Record(written + 1, tail[p]))
        /\ state' = [state EXCEPT ![p] = written + 1]
        /\ calm' = calm
     \/ UNCHANGED <<log, state, calm>>
     \/ log' = Appended(Torn) /\ state' = state /\ calm' = FALSE
  /\ Goto(p, "close")
  /\ UNCHANGED <<lock, tries, owns, tail>>

(* The finally block: who created a lock file removes the one that is there. *)
Close(p) ==
  /\ pc[p] = "close"
  /\ lock' = IF owns[p] THEN "free" ELSE lock
  /\ owns' = [owns EXCEPT ![p] = FALSE]
  /\ tail' = [tail EXCEPT ![p] = NoHash]
  /\ Goto(p, "idle")
  /\ UNCHANGED <<log, tries, state, written, calm>>

(* The process dies, maybe half way through its append, and starts again.  *)
Crash(p) ==
  /\ pc[p] # "idle"
  /\ log' \in {log} \cup (IF pc[p] = "append" THEN {Appended(Torn)} ELSE {})
  /\ owns' = [owns EXCEPT ![p] = FALSE]
  /\ state' = [state EXCEPT ![p] = NoHash]
  /\ tail' = [tail EXCEPT ![p] = NoHash]
  /\ Goto(p, "idle")
  /\ calm' = FALSE
  /\ UNCHANGED <<lock, tries, written>>

(* Five seconds pass with the lock file in place. *)
Age ==
  /\ lock = "held"
  /\ lock' = "stale"
  /\ calm' = FALSE
  /\ UNCHANGED <<log, tries, pc, owns, tail, state, written>>

Step(p) ==
  Open(p) \/ SeeStale(p) \/ Steal(p) \/ GiveUp(p) \/ ReadTail(p) \/ Write(p) \/ Close(p)

LogNext ==
  \/ \E p \in Procs : Begin(p) \/ Step(p) \/ Crash(p)
  \/ Age

(* A process that is inside auditWrite keeps running: the call blocks its  *)
(* only thread.                                                            *)
LogSpec == LogInit /\ [][LogNext]_logVars /\ \A p \in Procs : WF_logVars(Step(p))
-----------------------------------------------------------------------------
(* auditVerify: the first line that is no record or whose prev is not the  *)
(* hash of the line before; 0 when the chain holds.                        *)
Bad(i) == \/ log[i].kind # "record"
          \/ log[i].prev # IF i = 1 THEN NoHash ELSE log[i - 1].id
Breaks == {i \in 1..Len(log) : Bad(i)}
BrokenAt == IF Breaks = {} THEN 0 ELSE Min(Breaks)

(* explainChain: the cause it names for the first break *)
Named(h) == {i \in Records : log[i].id = h}
Successors(h) == {i \in Records : log[i].prev = h}
Cause ==
  LET k == BrokenAt
      h == log[k].prev IN
  CASE k = 0 -> "none"
    [] k # 0 /\ log[k].kind # "record" ->
         IF k = Len(log) THEN "partial-final-record" ELSE "damaged-record-with-valid-records-after"
    [] OTHER ->
         IF \E i \in Named(h) : i > k THEN "prev-points-forward"
         ELSE IF \E i \in Named(h) : i < k - 1
         THEN IF Cardinality(Successors(h)) > 1 /\ Successors(log[k - 1].id) = {}
              THEN "fork-duplicate-prev" ELSE "segment-joined-to-earlier-entry"
         ELSE IF h = NoHash THEN "fresh-head-mid-file"
         ELSE IF Named(h) = {} THEN "cut-missing-predecessor"
         ELSE "unattributable-prev-mismatch"
-----------------------------------------------------------------------------
AuditTypeOK ==
  /\ \A i \in 1..Len(log) : log[i] \in {Torn, Junk} \cup {Record(n, h) : n \in 1..written, h \in 0..written}
  /\ lock \in {"free", "held", "stale"}
  /\ tries \in [Procs -> 0..MaxTries]
  /\ pc \in [Procs -> {"idle", "open", "steal", "read", "append", "close"}]
  /\ owns \in [Procs -> BOOLEAN]
  /\ tail \in [Procs -> 0..written]
  /\ state \in [Procs -> 0..written]
  /\ written \in 0..MaxRecords
  /\ calm \in BOOLEAN

(* docs/SECURITY-REQUIREMENTS-TRACEABILITY.md SR-6 and the comment at      *)
(* policy.js L233: writers that interleave do not fork the chain.  It      *)
(* holds as long as nobody crashed in a write, no line was cut off and     *)
(* nobody waited 500 ms for the lock.                                      *)
ChainHolds == calm => BrokenAt = 0

(* "degrade to lockless rather than block forever" (L262): auditWrite      *)
(* returns, whatever became of the process that held the lock.             *)
WriterReturns == \A p \in Procs : pc[p] # "idle" ~> pc[p] = "idle"

(* Whatever crashes, full disks and races did to the file, explainChain    *)
(* does not report that a record between two others is gone ("a record     *)
(* between them is gone", audit-explain.js): nobody removed one.           *)
NoFalseLoss == Cause \notin {"cut-missing-predecessor", "prev-points-forward", "unattributable-prev-mismatch"}

(* The log of policy.js and what audit-explain.js makes of it agree: locks *)
(* and files stay in shape under crashes, thefts of the lock and full      *)
(* disks, and no removed record is reported where none was removed.        *)
LogIsSound == AuditTypeOK /\ NoFalseLoss
=============================================================================
