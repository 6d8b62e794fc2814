--------------------------------- MODULE Jobs ---------------------------------
(***************************************************************************)
(* Background commands (apps/desktop/src/tools/jobs.js).  A job runs the   *)
(* groups of a command line one after the other; a driver awaits each      *)
(* group while the tool kills, waits for and reports on jobs.              *)
(*                                                                         *)
(* A group is [op, size, exit]: its operator, its processes, and how the   *)
(* last of them ends: 0, 1, or Lost when it cannot be started.             *)
(***************************************************************************)
EXTENDS Naturals, Sequences, FiniteSets, SequencesExt

CONSTANTS
    Job,        \* ids of jobs
    Scripts,    \* parsed command lines: sequences of groups
    WaitCap,    \* polls a wait makes at most
    MaxWaits    \* bound: waits of a job

Lost == 2
Group == [op : {"", "&&", "||", ";"}, size : Nat \ {0}, exit : {0, 1, Lost}]

ASSUME JobsAssumption ==
    /\ WaitCap \in Nat \ {0} /\ MaxWaits \in Nat
    /\ Scripts \subseteq Seq(Group) \ {<<>>} /\ \A s \in Scripts : s[1].op = ""

VARIABLES
    jobStore,       \* jobStore: [status, killed, lastExit]
    script,     \* the groups of each job
    driver,     \* runJobAsync: the group it awaits, 0 when it is not running
    procs,      \* processes that live: [group, no]
    unclosed,   \* processes of the awaited group whose close is not yet seen
    pids,       \* job.pids
    pollsLeft,    \* polls a wait for the job has left, 0 without one
    waits       \* waits for the job so far

jobVars == <<jobStore, script, driver, procs, unclosed, pids, pollsLeft, waits>>

NoJob == [status |-> "none", killed |-> FALSE, lastExit |-> 0]
Members(k, size) == {[group |-> k, no |-> n] : n \in 1 .. size}
Due(op, exit) == (op = "&&" => exit = 0) /\ (op = "||" => exit # 0)

\* The groups are over: done, and cleanup signals every group of the job.
JobEnds(j, status, exit) ==
    /\ jobStore' = [jobStore EXCEPT ![j].status = status, ![j].lastExit = exit]
    /\ driver' = [driver EXCEPT ![j] = 0]
    /\ procs' = [procs EXCEPT ![j] = @ \ pids[j]]
    /\ pids' = [pids EXCEPT ![j] = {}]
    /\ unclosed' = [unclosed EXCEPT ![j] = {}]

\* runGroup: the processes are started together; when one cannot be, those
\* before it are killed and the job ends with an error.
Spawn(j, k, exit) ==
    IF script[j][k].exit = Lost
    THEN JobEnds(j, "error", 1)
    ELSE LET started == Members(k, script[j][k].size)
         IN /\ jobStore' = [jobStore EXCEPT ![j].status = "running", ![j].lastExit = exit]
            /\ driver' = [driver EXCEPT ![j] = k]
            /\ procs' = [procs EXCEPT ![j] = @ \cup started]
            /\ pids' = [pids EXCEPT ![j] = @ \cup started]
            /\ unclosed' = [unclosed EXCEPT ![j] = started]

\* The loop of runJobAsync from group i on: the next group that is due.
Proceed(j, i, exit) ==
    LET due == {k \in i .. Len(script[j]) : Due(script[j][k].op, exit)}
    IN IF due = {} THEN JobEnds(j, "done", exit) ELSE Spawn(j, CHOOSE k \in due : \A l \in due : k <= l, exit)

\* start: refused (NoJob stays) by the patterns, the policy, the parser or the
\* allowlist; otherwise the driver runs up to its first await.
StartJob(j, s) ==
    /\ jobStore[j] = NoJob /\ script[j] = <<>>
    /\ script' = [script EXCEPT ![j] = s]
    /\ IF s[1].exit = Lost
       THEN /\ jobStore' = [jobStore EXCEPT ![j] = [status |-> "error", killed |-> FALSE, lastExit |-> 1]]
            /\ UNCHANGED <<driver, procs, pids, unclosed>>
       ELSE /\ jobStore' = [jobStore EXCEPT ![j].status = "running"]
            /\ driver' = [driver EXCEPT ![j] = 1]
            /\ procs' = [procs EXCEPT ![j] = Members(1, s[1].size)]
            /\ pids' = [pids EXCEPT ![j] = Members(1, s[1].size)]
            /\ unclosed' = [unclosed EXCEPT ![j] = Members(1, s[1].size)]
    /\ UNCHANGED <<pollsLeft, waits>>

\* A process of the awaited group closes; what it left behind in its process
\* group lives on.
ProcessCloses(j, p, leaves) ==
    /\ p \in unclosed[j]
    /\ unclosed' = [unclosed EXCEPT ![j] = @ \ {p}]
    /\ procs' = [procs EXCEPT ![j] = IF leaves THEN @ ELSE @ \ {p}]
    /\ leaves => p \in procs[j]
    /\ UNCHANGED <<jobStore, script, driver, pids, pollsLeft, waits>>

(* mutant: the driver goes on with a job that was killed *)
MutGroupCloses(j) ==
    /\ driver[j] # 0 /\ unclosed[j] = {}
    /\ LET exit == IF jobStore[j].killed \/ script[j][driver[j]].exit # 0 THEN 1 ELSE 0
       IN Proceed(j, driver[j] + 1, exit)
    /\ UNCHANGED <<script, pollsLeft, waits>>

\* The driver resumes after a group; a killed job is left as it is.
GroupCloses(j) ==
    /\ driver[j] # 0 /\ unclosed[j] = {}
    /\ IF jobStore[j].killed
       THEN driver' = [driver EXCEPT ![j] = 0] /\ UNCHANGED <<jobStore, procs, pids, unclosed>>
       ELSE Proceed(j, driver[j] + 1, IF script[j][driver[j]].exit = 0 THEN 0 ELSE 1)
    /\ UNCHANGED <<script, pollsLeft, waits>>

\* killJob
KillJob(j) ==
    /\ jobStore[j].status = "running"
    /\ procs' = [procs EXCEPT ![j] = @ \ pids[j]]
    /\ pids' = [pids EXCEPT ![j] = {}]
    /\ jobStore' = [jobStore EXCEPT ![j].status = "killed", ![j].killed = TRUE]
    /\ UNCHANGED <<script, driver, unclosed, pollsLeft, waits>>

\* waitJob: polls until the job has ended, the time is up or the tool's own
\* timeout interrupts it.
WaitForJob(j) ==
    /\ jobStore[j] # NoJob /\ pollsLeft[j] = 0 /\ waits[j] < MaxWaits
    /\ waits' = [waits EXCEPT ![j] = @ + 1]
    /\ pollsLeft' = [pollsLeft EXCEPT ![j] = WaitCap]
    /\ UNCHANGED <<jobStore, script, driver, procs, unclosed, pids>>

WaitPolls(j) ==
    /\ pollsLeft[j] > 0
    /\ pollsLeft' = [pollsLeft EXCEPT ![j] = IF jobStore[j].status # "running" THEN 0 ELSE @ - 1]
    /\ UNCHANGED <<jobStore, script, driver, procs, unclosed, pids, waits>>

\* The daemon ends: the store is in memory, the process groups are detached.
JobsForgotten ==
    /\ \E j \in Job : jobStore[j].status = "running"
    /\ jobStore' = [j \in Job |-> NoJob]
    /\ driver' = [j \in Job |-> 0] /\ pollsLeft' = driver'
    /\ pids' = [j \in Job |-> {}] /\ unclosed' = pids'
    /\ UNCHANGED <<script, procs, waits>>

JobsInit ==
    /\ jobStore = [j \in Job |-> NoJob] /\ script = [j \in Job |-> <<>>]
    /\ driver = [j \in Job |-> 0] /\ pollsLeft = driver /\ waits = driver
    /\ procs = [j \in Job |-> {}] /\ pids = procs /\ unclosed = procs

JobsNext ==
    \/ \E j \in Job :
         \/ \E s \in Scripts : StartJob(j, s)
         \/ \E p \in unclosed[j], leaves \in BOOLEAN : ProcessCloses(j, p, leaves)
         \/ GroupCloses(j) \/ KillJob(j) \/ WaitForJob(j) \/ WaitPolls(j)
    \/ JobsForgotten

JobsSpec == JobsInit /\ [][JobsNext]_jobVars /\ \A j \in Job : WF_jobVars(WaitPolls(j))
-----------------------------------------------------------------------------
(* What a shell makes of the groups: its exit code after each of them.     *)
ExitAfter(s) ==
    LET upTo[n \in 0 .. Len(s)] ==
            IF n = 0 THEN 0 ELSE IF Due(s[n].op, upTo[n - 1]) THEN s[n].exit ELSE upTo[n - 1]
    IN upTo
ShellExit(s) == ExitAfter(s)[Len(s)]

(* A job that ran to its end has the exit code a shell would give it       *)
(* (runJobAsync, jobs.js:146).                                             *)
ExitIsTheShells ==
    \A j \in Job : jobStore[j].status = "done" => jobStore[j].lastExit = ShellExit(script[j])

(* What a job ended as stands: the groups that close after a kill neither  *)
(* start another group nor turn it into done (jobs.js:149 and 167).        *)
EndOfAJobStands ==
    [][\A j \in Job : jobStore[j].status \in {"done", "error", "killed"} /\ jobStore'[j] # NoJob
          => jobStore'[j] = jobStore[j] /\ procs'[j] \subseteq procs[j]]_jobVars

(* A job that ended has no process left, those that earlier groups put in  *)
(* the background included: kill and cleanup take the process groups of    *)
(* all of them (jobs.js:174 and 184).                                      *)
EndedJobHasNoProcess ==
    \A j \in Job : jobStore[j].status \in {"done", "error", "killed"} => procs[j] = {}

(* A wait returns, whether or not the job ends (waitJob, jobs.js:214).     *)
WaitReturns == \A j \in Job : pollsLeft[j] > 0 ~> pollsLeft[j] = 0

(* A background job (jobs.js) ends once and for all, with the exit code a  *)
(* shell would give it and none of its processes left, however kill,       *)
(* cleanup and the closing of its groups overlap.                          *)
JobsHold == [](ExitIsTheShells /\ EndedJobHasNoProcess) /\ EndOfAJobStands
=============================================================================
