----------------------------- MODULE CallsProofs ----------------------------
(***************************************************************************)
(* Theorems about what is asked for on the device: background jobs, tool   *)
(* calls, workflows, the calls of the brain, fetches and the requests of   *)
(* MCP clients; and the roster that the console shows.                     *)
(***************************************************************************)
EXTENDS MCCalls, DataLemmas, SequenceTheorems

ExitCodes == {0, 1, Lost}

LEMMA ExitFacts ==
  ASSUME NEW s \in Seq(Group)
  PROVE  /\ Len(s) \in Nat /\ DOMAIN s = 1 .. Len(s) /\ \A k \in 1 .. Len(s) : s[k] \in Group
         /\ ExitAfter(s) \in [0 .. Len(s) -> ExitCodes] /\ ExitAfter(s)[0] = 0
         /\ \A k \in 1 .. Len(s) :
              ExitAfter(s)[k] = IF Due(s[k].op, ExitAfter(s)[k - 1]) THEN s[k].exit ELSE ExitAfter(s)[k - 1]
<1>. DEFINE V == ExitCodes
            m == Len(s)
            Then(exit, k) == IF Due(s[k].op, exit) THEN s[k].exit ELSE exit
            turn == [v \in (1 .. m) \X V |-> Then(v[2], v[1])]
            Body(f) == [n \in 0 .. m |-> IF n = 0 THEN 0 ELSE IF Due(s[n].op, f[n - 1]) THEN s[n].exit ELSE f[n - 1]]
            scan == CHOOSE f : f = Body(f)
<1>1. m \in Nat /\ DOMAIN s = 1 .. m /\ \A k \in 1 .. m : s[k] \in Group
  BY LenProperties
<1>2. 0 \in V
  BY DEF ExitCodes
<1>3. turn \in [(1 .. m) \X V -> V]
  <2>1. ASSUME NEW k \in 1 .. m PROVE s[k].exit \in V
    <3>1. s[k] \in [op : {"", "&&", "||", ";"}, size : Nat \ {0}, exit : {0, 1, Lost}]
      BY <1>1 DEF Group
    <3>. QED BY <3>1 DEF ExitCodes
  <2>. HIDE DEF V
  <2>. QED BY <2>1
<1>. HIDE DEF V, m
<1>. HIDE DEF turn
<1>4. PICK g : Computes(g, V, m, 0, turn)
  BY <1>1, <1>2, <1>3, StepByStep
<1>5. ASSUME NEW k \in 1 .. m PROVE g[k] = Then(g[k - 1], k)
  <2>1. k - 1 \in 0 .. m
    BY <1>1
  <2>2. <<k, g[k - 1]>> \in (1 .. m) \X V
    BY <1>4, <2>1 DEF Computes
  <2>. QED BY <1>4, <2>2 DEF Computes, turn
<1>6. g = Body(g)
  <2>1. ASSUME NEW k \in 0 .. m PROVE g[k] = IF k = 0 THEN 0 ELSE Then(g[k - 1], k)
    <3>1. k = 0 \/ k \in 1 .. m
      BY <1>1
    <3>. QED BY <1>4, <1>5, <3>1 DEF Computes
  <2>. QED BY <1>4, <2>1 DEF Computes
<1>7. scan = Body(scan)
  BY <1>6
<1>8. ExitAfter(s) = scan
  BY DEF ExitAfter, scan, m
<1>. HIDE DEF scan
<1>9. /\ scan = [k \in 0 .. m |-> scan[k]] /\ scan[0] = 0
      /\ \A k \in 1 .. m : scan[k] = Then(scan[k - 1], k)
  <2>1. 0 \in 0 .. m /\ \A k \in 1 .. m : k \in 0 .. m /\ k # 0
    BY <1>1
  <2>. QED BY <1>7, <2>1
<1>10. scan \in [0 .. m -> V]
  <2>1. ASSUME NEW k \in 1 .. m, scan[k - 1] \in V PROVE scan[k] \in V
    <3>1. <<k, scan[k - 1]>> \in (1 .. m) \X V
      BY <2>1
    <3>2. turn[<<k, scan[k - 1]>>] \in V
      BY <1>3, <3>1
    <3>. QED BY <1>9, <3>1, <3>2 DEF turn
  <2>2. scan = [k \in 0 .. m |-> scan[k]] /\ scan[0] \in V
    BY <1>2, <1>9
  <2>. QED BY <1>1, <2>1, <2>2, StepsStay
<1>. QED BY <1>1, <1>8, <1>9, <1>10 DEF V, m

(* Groups that are not due leave the exit code as it is.                   *)
LEMMA SkippedGroups ==
  ASSUME NEW s \in Seq(Group), NEW i \in 0 .. Len(s), NEW k \in i .. Len(s),
         \A l \in i + 1 .. k : ~Due(s[l].op, ExitAfter(s)[i])
  PROVE  ExitAfter(s)[k] = ExitAfter(s)[i]
<1>. DEFINE n == Len(s)
            S == {l \in 0 .. n : i <= l /\ l <= k => ExitAfter(s)[l] = ExitAfter(s)[i]}
<1>1. /\ n \in Nat
      /\ \A l \in 1 .. n :
           ExitAfter(s)[l] = IF Due(s[l].op, ExitAfter(s)[l - 1]) THEN s[l].exit ELSE ExitAfter(s)[l - 1]
  BY ExitFacts
<1>2. i \in 0 .. n /\ k \in i .. n
  OBVIOUS
<1>. HIDE DEF n
<1>3. 0 \in S
  <2>1. i <= 0 => i = 0
    BY <1>1, <1>2
  <2>. QED BY <1>1, <2>1
<1>4. ASSUME NEW l \in 1 .. n, l - 1 \in S PROVE l \in S
  <2>1. i <= l /\ l <= k => i = l \/ (i <= l - 1 /\ l - 1 <= k /\ l \in i + 1 .. k)
    BY <1>1, <1>2
  <2>. QED BY <1>1, <1>4, <2>1
<1>5. 0 .. n \subseteq S
  <2>. HIDE DEF S
  <2>. QED BY <1>1, <1>3, <1>4, UpTo
<1>6. k \in S /\ i <= k /\ k <= k
  BY <1>1, <1>2, <1>5
<1>. QED BY <1>6

-----------------------------------------------------------------------------
JobRecord(status, killed, lastExit) == [status |-> status, killed |-> killed, lastExit |-> lastExit]
Ended == {"done", "error", "killed"}

(* What holds of a job, its script, its driver and its processes.  While   *)
(* it runs and was not killed, the driver stands where a shell would, and  *)
(* every process that lives can be signalled.                              *)
JobStands(job, s, d, live, un, known) ==
    /\ job = JobRecord(job.status, job.killed, job.lastExit)
    /\ job.status \in {"none", "running"} \cup Ended
    /\ job.killed = (job.status = "killed")
    /\ IF s = <<>> THEN job = NoJob /\ live = {} ELSE s \in Scripts
    /\ job.status = "none" => job = NoJob
    /\ job.status \in {"none", "done", "error"} => d = 0 /\ un = {}
    /\ job.status = "running" =>
         /\ s # <<>> /\ d \in 1 .. Len(s) /\ live \subseteq known
         /\ s[d].exit # Lost /\ Due(s[d].op, job.lastExit)
         /\ job.lastExit = ExitAfter(s)[d - 1]
    /\ job.status \in Ended => live = {}
    /\ job.status = "done" => job.lastExit = ShellExit(s)

JobInv ==
    /\ jobStore = [j \in Job |-> jobStore[j]] /\ script = [j \in Job |-> script[j]]
    /\ driver = [j \in Job |-> driver[j]] /\ procs = [j \in Job |-> procs[j]]
    /\ unclosed = [j \in Job |-> unclosed[j]] /\ pids = [j \in Job |-> pids[j]]
    /\ \A j \in Job : JobStands(jobStore[j], script[j], driver[j], procs[j], unclosed[j], pids[j])

LEMMA NoJobStands ==
  ASSUME NEW s, s \in Scripts \/ s = <<>>, NEW live, s = <<>> => live = {}, NEW known
  PROVE  JobStands(NoJob, s, 0, live, {}, known)
BY JobsAssumption DEF JobStands, NoJob, JobRecord, Ended

LEMMA JobsStart == JobsInit => JobInv
<1>. SUFFICES ASSUME JobsInit PROVE JobInv
  OBVIOUS
<1>1. ASSUME NEW j \in Job
      PROVE  JobStands(jobStore[j], script[j], driver[j], procs[j], unclosed[j], pids[j])
  <2>1. jobStore[j] = NoJob /\ script[j] = <<>> /\ driver[j] = 0 /\ procs[j] = {} /\ unclosed[j] = {}
    BY DEF JobsInit
  <2>. QED BY <2>1, NoJobStands
<1>. QED BY <1>1 DEF JobsInit, JobInv

(* One job changes.                                                        *)
LEMMA OneJobChanges ==
  ASSUME JobInv, NEW j \in Job, NEW job, NEW s, NEW d, NEW live, NEW un, NEW known,
         jobStore' = [jobStore EXCEPT ![j] = job], script' = [script EXCEPT ![j] = s],
         driver' = [driver EXCEPT ![j] = d], procs' = [procs EXCEPT ![j] = live],
         unclosed' = [unclosed EXCEPT ![j] = un], pids' = [pids EXCEPT ![j] = known],
         JobStands(job, s, d, live, un, known)
  PROVE  JobInv'
<1>1. /\ jobStore'[j] = job /\ script'[j] = s /\ driver'[j] = d /\ procs'[j] = live
      /\ unclosed'[j] = un /\ pids'[j] = known
  BY DEF JobInv
<1>2. \A i \in Job \ {j} :
         /\ jobStore'[i] = jobStore[i] /\ script'[i] = script[i] /\ driver'[i] = driver[i]
         /\ procs'[i] = procs[i] /\ unclosed'[i] = unclosed[i] /\ pids'[i] = pids[i]
  BY DEF JobInv
<1>3. \A i \in Job : JobStands(jobStore'[i], script'[i], driver'[i], procs'[i], unclosed'[i], pids'[i])
  BY <1>1, <1>2 DEF JobInv
<1>4. /\ jobStore' = [i \in Job |-> jobStore'[i]] /\ script' = [i \in Job |-> script'[i]]
      /\ driver' = [i \in Job |-> driver'[i]] /\ procs' = [i \in Job |-> procs'[i]]
      /\ unclosed' = [i \in Job |-> unclosed'[i]] /\ pids' = [i \in Job |-> pids'[i]]
  BY DEF JobInv
<1>. QED BY <1>3, <1>4 DEF JobInv

LEMMA WithKill ==
  ASSUME NEW x, x = JobRecord(x.status, x.killed, x.lastExit), NEW status, NEW v
  PROVE  [x EXCEPT !.status = status, !.killed = v] = JobRecord(status, v, x.lastExit)
<1>. DEFINE y == [x EXCEPT !.status = status]
<1>1. y = JobRecord(status, x.killed, x.lastExit)
  BY DEF JobRecord
<1>. HIDE DEF y
<1>2. [y EXCEPT !.killed = v] = JobRecord(status, v, x.lastExit)
  BY <1>1 DEF JobRecord
<1>. QED BY <1>2 DEF y

LEMMA WithStatus ==
  ASSUME NEW x, x = JobRecord(x.status, x.killed, x.lastExit), NEW status
  PROVE  [x EXCEPT !.status = status] = JobRecord(status, x.killed, x.lastExit)
BY DEF JobRecord

LEMMA EndKeeps ==
  ASSUME JobInv, NEW j \in Job, NEW status \in {"done", "error"}, NEW exit,
         JobEnds(j, status, exit), UNCHANGED script, jobStore[j].status = "running",
         status = "done" => exit = ShellExit(script[j])
  PROVE  JobInv'
<1>. DEFINE job == JobRecord(status, FALSE, exit)
            x == jobStore[j]
<1>1. JobStands(x, script[j], driver[j], procs[j], unclosed[j], pids[j])
  BY DEF JobInv
<1>2. x = JobRecord(x.status, x.killed, x.lastExit) /\ x.killed = FALSE
  BY <1>1 DEF JobStands
<1>3. [x EXCEPT !.status = status, !.lastExit = exit] = job
  <2>. DEFINE y == [x EXCEPT !.status = status]
  <2>0. x = JobRecord(x.status, x.killed, x.lastExit)
    BY <1>2
  <2>. HIDE DEF x
  <2>1. y = JobRecord(status, x.killed, x.lastExit)
    BY <2>0 DEF JobRecord
  <2>. HIDE DEF y
  <2>2. [y EXCEPT !.lastExit = exit] = JobRecord(status, x.killed, exit)
    BY <2>1 DEF JobRecord
  <2>3. [x EXCEPT !.status = status, !.lastExit = exit] = JobRecord(status, x.killed, exit)
    BY <2>2 DEF y
  <2>. QED BY <1>2, <2>3, Zenon
<1>4. /\ jobStore' = [jobStore EXCEPT ![j] = [x EXCEPT !.status = status, !.lastExit = exit]]
      /\ script' = [script EXCEPT ![j] = script[j]] /\ driver' = [driver EXCEPT ![j] = 0]
      /\ procs' = [procs EXCEPT ![j] = procs[j] \ pids[j]]
      /\ unclosed' = [unclosed EXCEPT ![j] = {}] /\ pids' = [pids EXCEPT ![j] = {}]
  BY DEF JobEnds, JobInv
<1>5. JobStands(job, script[j], 0, procs[j] \ pids[j], {}, {})
  <2>1. /\ script[j] # <<>> /\ procs[j] \ pids[j] = {}
        /\ IF script[j] = <<>> THEN x = NoJob /\ procs[j] = {} ELSE script[j] \in Scripts
    BY <1>1 DEF JobStands
  <2>. QED BY <2>1 DEF JobStands, JobRecord, Ended
<1>. HIDE DEF job, x
<1>. QED BY <1>3, <1>4, <1>5, OneJobChanges

LEMMA SpawnKeeps ==
  ASSUME JobInv, NEW j \in Job, NEW k, NEW exit,
         Spawn(j, k, exit), UNCHANGED script, jobStore[j].status = "running",
         k \in 1 .. Len(script[j]), Due(script[j][k].op, exit), exit = ExitAfter(script[j])[k - 1]
  PROVE  JobInv'
<1>. DEFINE job == JobRecord("running", FALSE, exit)
            x == jobStore[j]
            started == Members(k, script[j][k].size)
<1>1. JobStands(x, script[j], driver[j], procs[j], unclosed[j], pids[j])
  BY DEF JobInv
<1>2. x = JobRecord(x.status, x.killed, x.lastExit) /\ x.killed = FALSE
  BY <1>1 DEF JobStands
<1>3. CASE script[j][k].exit = Lost
  <2>1. JobEnds(j, "error", 1)
    BY <1>3 DEF Spawn
  <2>. QED BY <2>1, EndKeeps
<1>4. CASE script[j][k].exit # Lost
  <2>1. [x EXCEPT !.status = "running", !.lastExit = exit] = job
    <3>. DEFINE y == [x EXCEPT !.status = "running"]
    <3>0. x = JobRecord(x.status, x.killed, x.lastExit)
      BY <1>2
    <3>. HIDE DEF x
    <3>1. y = JobRecord("running", x.killed, x.lastExit)
      BY <3>0 DEF JobRecord
    <3>. HIDE DEF y
    <3>2. [y EXCEPT !.lastExit = exit] = JobRecord("running", x.killed, exit)
      BY <3>1 DEF JobRecord
    <3>3. [x EXCEPT !.status = "running", !.lastExit = exit] = JobRecord("running", x.killed, exit)
      BY <3>2 DEF y
    <3>. QED BY <1>2, <3>3, Zenon
  <2>2. /\ jobStore' = [jobStore EXCEPT ![j] = [x EXCEPT !.status = "running", !.lastExit = exit]]
        /\ script' = [script EXCEPT ![j] = script[j]] /\ driver' = [driver EXCEPT ![j] = k]
        /\ procs' = [procs EXCEPT ![j] = procs[j] \cup started]
        /\ unclosed' = [unclosed EXCEPT ![j] = started]
        /\ pids' = [pids EXCEPT ![j] = pids[j] \cup started]
    BY <1>4 DEF Spawn, JobInv
  <2>3. JobStands(job, script[j], k, procs[j] \cup started, started, pids[j] \cup started)
    <3>1. /\ script[j] # <<>> /\ procs[j] \subseteq pids[j]
          /\ IF script[j] = <<>> THEN x = NoJob /\ procs[j] = {} ELSE script[j] \in Scripts
      BY <1>1 DEF JobStands
    <3>. HIDE DEF started
    <3>. QED BY <1>4, <3>1 DEF JobStands, JobRecord, Ended
  <2>. HIDE DEF job, x, started
  <2>. QED BY <2>1, <2>2, <2>3, OneJobChanges
<1>. QED BY <1>3, <1>4

LEMMA ProceedKeeps ==
  ASSUME JobInv, NEW j \in Job, jobStore[j].status = "running", UNCHANGED script,
         NEW d \in 1 .. Len(script[j]), NEW exit,
         exit = ExitAfter(script[j])[d], Proceed(j, d + 1, exit)
  PROVE  JobInv'
<1>. DEFINE s == script[j]
            due == {k \in d + 1 .. Len(s) : Due(s[k].op, exit)}
<1>1. s \in Seq(Group) /\ Len(s) \in Nat
  <2>1. s \in Scripts
    BY DEF JobInv, JobStands
  <2>2. s \in Seq(Group)
    BY <2>1, JobsAssumption
  <2>. QED BY <2>2, ExitFacts
<1>2. CASE due = {}
  <2>1. JobEnds(j, "done", exit)
    BY <1>2 DEF Proceed
  <2>2. ShellExit(s) = exit
    <3>1. d \in 0 .. Len(s) /\ Len(s) \in d .. Len(s)
      BY <1>1
    <3>. QED BY <1>1, <1>2, <3>1, SkippedGroups DEF ShellExit
  <2>. QED BY <2>1, <2>2, EndKeeps
<1>3. CASE due # {}
  <2>. DEFINE k == CHOOSE k \in due : \A l \in due : k <= l
  <2>1. due \in SUBSET Nat
    BY <1>1
  <2>2. k \in due /\ \A l \in due : k <= l
    <3>. HIDE DEF due
    <3>. QED BY <1>3, <2>1, SmallestOf
  <2>3. Spawn(j, k, exit)
    BY <1>3 DEF Proceed
  <2>. HIDE DEF k
  <2>4. k \in 1 .. Len(s) /\ Due(s[k].op, exit) /\ k \in Int /\ k >= d + 1
    BY <1>1, <2>2
  <2>5. ExitAfter(s)[k - 1] = exit
    <3>1. d \in 0 .. Len(s) /\ k - 1 \in d .. Len(s)
      BY <1>1, <2>4
    <3>2. ASSUME NEW l \in d + 1 .. k - 1 PROVE ~Due(s[l].op, exit)
      <4>1. l \in d + 1 .. Len(s) /\ ~(k <= l)
        BY <1>1, <2>4
      <4>. QED BY <2>2, <4>1
    <3>. HIDE DEF s
    <3>. QED BY <1>1, <3>1, <3>2, SkippedGroups DEF s
  <2>. QED BY <2>3, <2>4, <2>5, SpawnKeeps
<1>. QED BY <1>2, <1>3

LEMMA StartJobKeeps ==
  ASSUME JobInv, NEW j \in Job, NEW s \in Scripts, StartJob(j, s)
  PROVE  JobInv'
<1>. DEFINE known == Members(1, s[1].size)
            failed == [status |-> "error", killed |-> FALSE, lastExit |-> 1]
            job == JobRecord("running", FALSE, 0)
<1>1. jobStore[j] = NoJob /\ script[j] = <<>> /\ script' = [script EXCEPT ![j] = s]
  BY DEF StartJob
<1>2. /\ procs[j] = {} /\ driver[j] = 0 /\ unclosed[j] = {}
  BY <1>1 DEF JobInv, JobStands, NoJob
<1>3. s \in Seq(Group) /\ s # <<>> /\ s[1].op = ""
  BY JobsAssumption
<1>4. 1 \in 1 .. Len(s) /\ ExitAfter(s)[1 - 1] = 0
  <2>1. Len(s) \in Nat /\ Len(s) # 0
    BY <1>3, LenProperties, EmptySeq
  <2>2. ExitAfter(s)[0] = 0
    BY <1>3, ExitFacts
  <2>3. 1 - 1 = 0
    OBVIOUS
  <2>. QED BY <2>1, <2>2, <2>3
<1>5. CASE s[1].exit = Lost
  <2>1. /\ jobStore' = [jobStore EXCEPT ![j] = failed]
        /\ driver' = [driver EXCEPT ![j] = driver[j]] /\ procs' = [procs EXCEPT ![j] = procs[j]]
        /\ unclosed' = [unclosed EXCEPT ![j] = unclosed[j]] /\ pids' = [pids EXCEPT ![j] = pids[j]]
    BY <1>5 DEF StartJob, JobInv
  <2>2. JobStands(failed, s, driver[j], procs[j], unclosed[j], pids[j])
    BY <1>2, <1>3 DEF JobStands, JobRecord, Ended
  <2>. HIDE DEF failed
  <2>. QED BY <1>1, <2>1, <2>2, OneJobChanges
<1>6. CASE s[1].exit # Lost
  <2>1. /\ jobStore' = [jobStore EXCEPT ![j] = [NoJob EXCEPT !.status = "running"]]
        /\ driver' = [driver EXCEPT ![j] = 1] /\ procs' = [procs EXCEPT ![j] = known]
        /\ unclosed' = [unclosed EXCEPT ![j] = known] /\ pids' = [pids EXCEPT ![j] = known]
    BY <1>1, <1>6 DEF StartJob, JobInv
  <2>2. [NoJob EXCEPT !.status = "running"] = job
    <3>1. NoJob = JobRecord(NoJob.status, NoJob.killed, NoJob.lastExit) /\ NoJob.killed = FALSE /\ NoJob.lastExit = 0
      BY DEF NoJob, JobRecord
    <3>2. [NoJob EXCEPT !.status = "running"] = JobRecord("running", NoJob.killed, NoJob.lastExit)
      BY <3>1, WithStatus, Zenon
    <3>. QED BY <3>1, <3>2, Zenon
  <2>3. Due(s[1].op, 0)
    BY <1>3 DEF Due
  <2>4. JobStands(job, s, 1, known, known, known)
    <3>. HIDE DEF known
    <3>. QED BY <1>3, <1>4, <1>6, <2>3 DEF JobStands, JobRecord, Ended
  <2>. HIDE DEF job, known
  <2>. QED BY <1>1, <2>1, <2>2, <2>4, OneJobChanges
<1>. QED BY <1>5, <1>6

LEMMA CloseKeeps ==
  ASSUME JobInv, NEW j \in Job, NEW p \in unclosed[j], NEW leaves \in BOOLEAN, ProcessCloses(j, p, leaves)
  PROVE  JobInv'
<1>. DEFINE live == IF leaves THEN procs[j] ELSE procs[j] \ {p}
            un == unclosed[j] \ {p}
<1>1. /\ jobStore' = [jobStore EXCEPT ![j] = jobStore[j]] /\ script' = [script EXCEPT ![j] = script[j]]
      /\ driver' = [driver EXCEPT ![j] = driver[j]] /\ procs' = [procs EXCEPT ![j] = live]
      /\ unclosed' = [unclosed EXCEPT ![j] = un] /\ pids' = [pids EXCEPT ![j] = pids[j]]
  BY DEF ProcessCloses, JobInv
<1>2. JobStands(jobStore[j], script[j], driver[j], procs[j], unclosed[j], pids[j]) /\ live \subseteq procs[j]
  BY DEF JobInv
<1>3. JobStands(jobStore[j], script[j], driver[j], live, un, pids[j])
  <2>. HIDE DEF live
  <2>. QED BY <1>2 DEF JobStands
<1>. HIDE DEF live, un
<1>. QED BY <1>1, <1>3, OneJobChanges

LEMMA GroupKeeps == ASSUME JobInv, NEW j \in Job, GroupCloses(j) PROVE JobInv'
<1>1. JobStands(jobStore[j], script[j], driver[j], procs[j], unclosed[j], pids[j])
  BY DEF JobInv
<1>2. CASE jobStore[j].killed
  <2>1. /\ jobStore' = [jobStore EXCEPT ![j] = jobStore[j]] /\ script' = [script EXCEPT ![j] = script[j]]
        /\ driver' = [driver EXCEPT ![j] = 0] /\ procs' = [procs EXCEPT ![j] = procs[j]]
        /\ unclosed' = [unclosed EXCEPT ![j] = unclosed[j]] /\ pids' = [pids EXCEPT ![j] = pids[j]]
    BY <1>2 DEF GroupCloses, JobInv
  <2>2. JobStands(jobStore[j], script[j], 0, procs[j], unclosed[j], pids[j])
    BY <1>1, <1>2 DEF JobStands
  <2>. QED BY <2>1, <2>2, OneJobChanges
<1>3. CASE ~jobStore[j].killed
  <2>. DEFINE s == script[j]
              d == driver[j]
              exit == IF s[d].exit = 0 THEN 0 ELSE 1
  <2>1. d # 0 /\ Proceed(j, d + 1, exit) /\ UNCHANGED script
    BY <1>3 DEF GroupCloses
  <2>2. jobStore[j].status = "running"
    BY <1>1, <1>3, <2>1 DEF JobStands, Ended
  <2>3. /\ s \in Scripts /\ d \in 1 .. Len(s) /\ s[d].exit # Lost
        /\ Due(s[d].op, ExitAfter(s)[d - 1])
    BY <1>1, <2>2 DEF JobStands
  <2>4. s \in Seq(Group)
    BY <2>3, JobsAssumption
  <2>. HIDE DEF s, d
  <2>5. ExitAfter(s)[d] = s[d].exit /\ s[d] \in Group
    BY <2>3, <2>4, ExitFacts
  <2>6. s[d].exit \in {0, 1}
    <3>1. s[d] \in [op : {"", "&&", "||", ";"}, size : Nat \ {0}, exit : {0, 1, Lost}]
      BY <2>5 DEF Group
    <3>. QED BY <2>3, <3>1
  <2>7. exit = ExitAfter(s)[d]
    BY <2>5, <2>6
  <2>. HIDE DEF exit
  <2>. QED BY <2>1, <2>2, <2>3, <2>7, ProceedKeeps DEF s
<1>. QED BY <1>2, <1>3

LEMMA KillKeeps == ASSUME JobInv, NEW j \in Job, KillJob(j) PROVE JobInv'
<1>. DEFINE x == jobStore[j]
            job == JobRecord("killed", TRUE, x.lastExit)
<1>1. x.status = "running" /\ JobStands(x, script[j], driver[j], procs[j], unclosed[j], pids[j])
  BY DEF JobInv, KillJob
<1>2. /\ jobStore' = [jobStore EXCEPT ![j] = [x EXCEPT !.status = "killed", !.killed = TRUE]]
      /\ script' = [script EXCEPT ![j] = script[j]] /\ driver' = [driver EXCEPT ![j] = driver[j]]
      /\ procs' = [procs EXCEPT ![j] = procs[j] \ pids[j]]
      /\ unclosed' = [unclosed EXCEPT ![j] = unclosed[j]] /\ pids' = [pids EXCEPT ![j] = {}]
  BY DEF KillJob, JobInv
<1>3. x = JobRecord(x.status, x.killed, x.lastExit)
  BY <1>1 DEF JobStands
<1>4. [x EXCEPT !.status = "killed", !.killed = TRUE] = job
  BY <1>3, WithKill, Zenon
<1>5. JobStands(job, script[j], driver[j], procs[j] \ pids[j], unclosed[j], {})
  <2>1. /\ script[j] # <<>> /\ procs[j] \ pids[j] = {}
        /\ IF script[j] = <<>> THEN x = NoJob /\ procs[j] = {} ELSE script[j] \in Scripts
    BY <1>1 DEF JobStands
  <2>. HIDE DEF x
  <2>. QED BY <2>1 DEF JobStands, JobRecord, Ended
<1>. HIDE DEF x, job
<1>. QED BY <1>2, <1>4, <1>5, OneJobChanges

LEMMA ForgetKeeps == JobInv /\ JobsForgotten => JobInv'
<1>. SUFFICES ASSUME JobInv, JobsForgotten PROVE JobInv'
  OBVIOUS
<1>1. ASSUME NEW j \in Job
      PROVE  JobStands(jobStore'[j], script'[j], driver'[j], procs'[j], unclosed'[j], pids'[j])
  <2>1. /\ jobStore'[j] = NoJob /\ script'[j] = script[j] /\ driver'[j] = 0 /\ procs'[j] = procs[j]
        /\ unclosed'[j] = {}
    BY DEF JobsForgotten
  <2>2. (script[j] \in Scripts \/ script[j] = <<>>) /\ (script[j] = <<>> => procs[j] = {})
    BY DEF JobInv, JobStands
  <2>. QED BY <2>1, <2>2, NoJobStands
<1>2. /\ jobStore' = [j \in Job |-> jobStore'[j]] /\ script' = [j \in Job |-> script'[j]]
      /\ driver' = [j \in Job |-> driver'[j]] /\ procs' = [j \in Job |-> procs'[j]]
      /\ unclosed' = [j \in Job |-> unclosed'[j]] /\ pids' = [j \in Job |-> pids'[j]]
  BY DEF JobsForgotten, JobInv
<1>. QED BY <1>1, <1>2 DEF JobInv

LEMMA JobStepKeeps == JobInv /\ [JobsNext]_jobVars => JobInv'
<1>. SUFFICES ASSUME JobInv, [JobsNext]_jobVars PROVE JobInv'
  OBVIOUS
<1>1. ASSUME UNCHANGED <<jobStore, script, driver, procs, unclosed, pids>> PROVE JobInv'
  BY <1>1 DEF JobInv
<1>2. CASE UNCHANGED jobVars
  BY <1>1, <1>2 DEF jobVars
<1>3. ASSUME NEW j \in Job, WaitForJob(j) \/ WaitPolls(j) PROVE JobInv'
  BY <1>1, <1>3 DEF WaitForJob, WaitPolls
<1>. QED BY <1>2, <1>3, StartJobKeeps, CloseKeeps, GroupKeeps, KillKeeps, ForgetKeeps DEF JobsNext

LEMMA EndOfOneStands ==
  ASSUME JobInv, [JobsNext]_jobVars, NEW i \in Job, jobStore[i].status \in {"done", "error", "killed"},
         jobStore'[i] # NoJob
  PROVE  jobStore'[i] = jobStore[i] /\ procs'[i] \subseteq procs[i]
<1>. DEFINE Same == jobStore'[i] = jobStore[i] /\ procs'[i] \subseteq procs[i]
<1>1. /\ jobStore[i].status # "running" /\ jobStore[i] # NoJob
      /\ driver[i] # 0 => jobStore[i].killed
      /\ jobStore = [j \in Job |-> jobStore[j]] /\ procs = [j \in Job |-> procs[j]]
  <2>1. jobStore = [j \in Job |-> jobStore[j]] /\ procs = [j \in Job |-> procs[j]]
    BY DEF JobInv
  <2>2. jobStore[i].status # "running" /\ NoJob.status = "none"
    BY DEF NoJob
  <2>3. /\ jobStore[i].killed = (jobStore[i].status = "killed")
        /\ jobStore[i].status \in {"none", "done", "error"} => driver[i] = 0
    BY DEF JobInv, JobStands
  <2>. QED BY <2>1, <2>2, <2>3
<1>2. ASSUME UNCHANGED <<jobStore, procs>> PROVE Same
  BY <1>2
<1>3. ASSUME NEW j \in Job, NEW s \in Scripts, StartJob(j, s) PROVE Same
  <2>1. i # j
    BY <1>1, <1>3 DEF StartJob
  <2>. QED BY <1>1, <1>3, <2>1 DEF StartJob
<1>4. ASSUME NEW j \in Job, NEW p \in unclosed[j], NEW leaves \in BOOLEAN, ProcessCloses(j, p, leaves) PROVE Same
  BY <1>1, <1>4 DEF ProcessCloses
<1>5. ASSUME NEW j \in Job, GroupCloses(j) PROVE Same
  <2>1. CASE jobStore[j].killed
    BY <1>2, <1>5, <2>1 DEF GroupCloses
  <2>2. CASE ~jobStore[j].killed
    <3>1. i # j
      BY <1>1, <1>5, <2>2 DEF GroupCloses
    <3>2. PICK k, exit : Spawn(j, k, exit) \/ JobEnds(j, "done", exit)
      BY <1>5, <2>2, Zenon DEF GroupCloses, Proceed
    <3>3. ASSUME NEW status, NEW e, JobEnds(j, status, e) PROVE Same
      BY <1>1, <3>1, <3>3 DEF JobEnds
    <3>4. ASSUME Spawn(j, k, exit) PROVE Same
      <4>1. CASE script[j][k].exit = Lost
        BY <3>3, <3>4, <4>1 DEF Spawn
      <4>2. CASE script[j][k].exit # Lost
        BY <1>1, <3>1, <3>4, <4>2 DEF Spawn
      <4>. QED BY <4>1, <4>2
    <3>. QED BY <3>2, <3>3, <3>4
  <2>. QED BY <2>1, <2>2
<1>6. ASSUME NEW j \in Job, KillJob(j) PROVE Same
  <2>1. i # j
    BY <1>1, <1>6 DEF KillJob
  <2>. QED BY <1>1, <1>6, <2>1 DEF KillJob
<1>7. ASSUME JobsForgotten PROVE FALSE
  BY <1>7 DEF JobsForgotten
<1>8. ASSUME NEW j \in Job, WaitForJob(j) \/ WaitPolls(j) PROVE Same
  BY <1>2, <1>8 DEF WaitForJob, WaitPolls
<1>9. ASSUME UNCHANGED jobVars PROVE Same
  BY <1>2, <1>9 DEF jobVars
<1>. HIDE DEF Same
<1>10. Same
  BY <1>3, <1>4, <1>5, <1>6, <1>7, <1>8, <1>9 DEF JobsNext
<1>. QED BY <1>10 DEF Same

(* For any scripts and jobs, however kill, cleanup, the closing of groups  *)
(* and the end of the daemon overlap: a job that ended has no process      *)
(* left, stays as it ended, and one that ran to its end has the exit code  *)
(* a shell would give it (jobs.js).                                        *)
THEOREM JobsAlwaysHold == JobsSpec => JobsHold
<1>1. JobInv => ExitIsTheShells /\ EndedJobHasNoProcess
  BY DEF JobInv, JobStands, Ended, ExitIsTheShells, EndedJobHasNoProcess
<1>2. JobInv /\ [JobsNext]_jobVars
        => [\A j \in Job : jobStore[j].status \in {"done", "error", "killed"} /\ jobStore'[j] # NoJob
               => jobStore'[j] = jobStore[j] /\ procs'[j] \subseteq procs[j]]_jobVars
  BY EndOfOneStands
<1>. QED BY <1>1, <1>2, JobsStart, JobStepKeeps, PTL DEF JobsSpec, JobsHold, EndOfAJobStands
-----------------------------------------------------------------------------
(* A name stands for nothing, for the plugin's tool of that name or for    *)
(* the shipped one; a shipped name that stands for anything else was taken *)
(* away before.                                                            *)
RegistryIsOwned ==
    /\ takenAway \subseteq Builtin
    /\ registry = [n \in ToolName |-> registry[n]]
    /\ \A n \in ToolName : registry[n] \in {Absent, Plugin(n), Lifted(n)}
    /\ \A n \in Builtin : registry[n] = Lifted(n) \/ n \in takenAway

(* A call that has not begun has no attempt; one that has, what it uses.   *)
CallsAreWhole ==
    /\ calls = [c \in Call |-> calls[c]] /\ attempts = [c \in Call |-> attempts[c]]
    /\ \A c \in Call :
        /\ calls[c] = [tool |-> calls[c].tool, used |-> calls[c].used,
                       stage |-> calls[c].stage, aborted |-> calls[c].aborted]
        /\ calls[c].stage = "none" => calls[c] = NoCall /\ attempts[c] = "none"

ToolInv ==
    /\ kind \in {"daemon", "durable"}
    /\ RegistryIsOwned /\ CallsAreWhole
    /\ PluginsNeedTheOwner /\ AttemptEndsWithItsCall /\ PluginEffectsAreRecorded

LEMMA ToolInvStarts == ToolsInit => ToolInv
BY ToolsAssumption DEF ToolsInit, ToolInv, RegistryIsOwned, CallsAreWhole, PluginsNeedTheOwner,
   AttemptEndsWithItsCall, PluginEffectsAreRecorded, NoCall, Absent, Lifted, ToolName

LEMMA LoadKeeps == ASSUME ToolInv, NEW n \in ToolName, LoadPlugin(n) PROVE ToolInv'
<1>1. RegistryIsOwned'
  <2>0. /\ registry' = [registry EXCEPT ![n] = IF registry[n] = Absent THEN Plugin(n) ELSE registry[n]]
        /\ kind' = kind /\ takenAway' = takenAway /\ RegistryIsOwned
    BY DEF ToolInv, LoadPlugin, Register
  <2>1. /\ registry'[n] = IF registry[n] = Absent THEN Plugin(n) ELSE registry[n]
        /\ \A m \in ToolName \ {n} : registry'[m] = registry[m]
        /\ registry' = [m \in ToolName |-> registry'[m]]
    BY <2>0 DEF RegistryIsOwned
  <2>2. \A m \in ToolName : registry'[m] \in {Absent, Plugin(m), Lifted(m)}
    BY <2>0, <2>1 DEF RegistryIsOwned
  <2>3. \A m \in ToolName : Lifted(m) # Absent
    BY DEF Lifted, Absent
  <2>4. \A m \in Builtin : registry'[m] = Lifted(m) \/ m \in takenAway'
    BY <2>0, <2>1, <2>3 DEF RegistryIsOwned, ToolName
  <2>5. \A m \in ToolName : Lifted(m)' = Lifted(m)
    BY <2>0 DEF Lifted
  <2>. QED BY <2>0, <2>1, <2>2, <2>4, <2>5 DEF RegistryIsOwned, ToolName
<1>2. /\ CallsAreWhole' /\ PluginsNeedTheOwner' /\ AttemptEndsWithItsCall' /\ PluginEffectsAreRecorded'
      /\ kind' = kind
  BY DEF ToolInv, LoadPlugin, CallsAreWhole, PluginsNeedTheOwner, AttemptEndsWithItsCall, PluginEffectsAreRecorded
<1>. QED BY <1>1, <1>2 DEF ToolInv

LEMMA RemoveKeeps == ASSUME ToolInv, NEW n \in ToolName, RemoveTool(n) PROVE ToolInv'
<1>. /\ registry' = [registry EXCEPT ![n] = Absent] /\ kind' = kind
     /\ takenAway' = takenAway \cup ({n} \cap Builtin)
     /\ RegistryIsOwned
  BY DEF ToolInv, RemoveTool
<1>1. RegistryIsOwned'
  <2>1. /\ registry'[n] = Absent
        /\ \A m \in ToolName \ {n} : registry'[m] = registry[m]
        /\ registry' = [m \in ToolName |-> registry'[m]]
    BY DEF RegistryIsOwned
  <2>2. \A m \in ToolName : registry'[m] \in {Absent, Plugin(m), Lifted(m)}
    BY <2>1 DEF RegistryIsOwned
  <2>3. \A m \in Builtin : registry'[m] = Lifted(m) \/ m \in takenAway'
    BY <2>1 DEF RegistryIsOwned, ToolName
  <2>4. \A m \in ToolName : Lifted(m)' = Lifted(m)
    BY DEF Lifted
  <2>. QED BY <2>1, <2>2, <2>3, <2>4 DEF RegistryIsOwned, ToolName
<1>2. /\ CallsAreWhole' /\ PluginsNeedTheOwner' /\ AttemptEndsWithItsCall' /\ PluginEffectsAreRecorded'
      /\ kind' = kind
  BY DEF ToolInv, RemoveTool, CallsAreWhole, PluginsNeedTheOwner, AttemptEndsWithItsCall, PluginEffectsAreRecorded
<1>. QED BY <1>1, <1>2 DEF ToolInv

LEMMA StartKeeps ==
  ASSUME ToolInv, NEW c \in Call, NEW n \in ToolName, StartCall(c, n)
  PROVE  ToolInv'
<1>. DEFINE tool == registry[n]
            begun == [tool |-> n, used |-> tool, stage |-> "running", aborted |-> FALSE]
            refused == [NoCall EXCEPT !.stage = "over"]
<1>1. /\ calls[c] = NoCall /\ attempts[c] = "none"
      /\ kind' = kind /\ registry' = registry /\ takenAway' = takenAway
  BY DEF ToolInv, StartCall, CallsAreWhole, NoCall
<1>2. RegistryIsOwned'
  BY <1>1 DEF ToolInv, RegistryIsOwned, Lifted
<1>3. refused = [tool |-> "none", used |-> Absent, stage |-> "over", aborted |-> FALSE]
  <2>1. ASSUME NEW r, r = [tool |-> r.tool, used |-> r.used, stage |-> r.stage, aborted |-> r.aborted]
        PROVE  [r EXCEPT !.stage = "over"] =
                 [tool |-> r.tool, used |-> r.used, stage |-> "over", aborted |-> r.aborted]
    BY <2>1
  <2>2. /\ NoCall.tool = "none" /\ NoCall.used = Absent /\ NoCall.aborted = FALSE
        /\ NoCall = [tool |-> NoCall.tool, used |-> NoCall.used, stage |-> NoCall.stage, aborted |-> NoCall.aborted]
    BY DEF NoCall
  <2>. QED BY <2>1, <2>2
<1>4. \/ calls' = [calls EXCEPT ![c] = refused] /\ attempts' = attempts
      \/ /\ tool # Absent /\ Allowed(n)
         /\ calls' = [calls EXCEPT ![c] = begun]
         /\ attempts' = IF kind = "durable" /\ SideEffecting(n, tool)
                        THEN [attempts EXCEPT ![c] = "started"] ELSE attempts
  BY DEF StartCall
<1>5. \A d \in Call \ {c} : calls'[d] = calls[d] /\ attempts'[d] = attempts[d]
  BY <1>4 DEF ToolInv, CallsAreWhole
<1>6. CASE calls' = [calls EXCEPT ![c] = refused] /\ attempts' = attempts
  <2>1. calls'[c] = refused /\ attempts'[c] = "none"
    BY <1>1, <1>6 DEF ToolInv, CallsAreWhole
  <2>2. CallsAreWhole'
    BY <1>3, <1>5, <1>6, <2>1 DEF ToolInv, CallsAreWhole
  <2>3. PluginsNeedTheOwner' /\ AttemptEndsWithItsCall' /\ PluginEffectsAreRecorded'
    BY <1>1, <1>3, <1>5, <2>1 DEF ToolInv, PluginsNeedTheOwner, AttemptEndsWithItsCall,
       PluginEffectsAreRecorded, Absent
  <2>. QED BY <1>1, <1>2, <2>2, <2>3 DEF ToolInv
<1>7. CASE /\ tool # Absent /\ Allowed(n)
           /\ calls' = [calls EXCEPT ![c] = begun]
           /\ attempts' = IF kind = "durable" /\ SideEffecting(n, tool)
                          THEN [attempts EXCEPT ![c] = "started"] ELSE attempts
  <2>1. /\ calls'[c] = begun
        /\ attempts'[c] = IF kind = "durable" /\ SideEffecting(n, tool) THEN "started" ELSE "none"
    BY <1>1, <1>7 DEF ToolInv, CallsAreWhole
  <2>2. CallsAreWhole'
    BY <1>5, <1>7, <2>1 DEF ToolInv, CallsAreWhole
  <2>3. tool.source = "plugin" => tool = Plugin(n)
    BY DEF ToolInv, RegistryIsOwned, Absent, Lifted
  <2>9. Lifted(n).source = "builtin"
    BY DEF Lifted
  <2>4. tool.source = "plugin" => n \in OwnRules \cup takenAway
    BY <1>7, <2>9 DEF ToolInv, RegistryIsOwned, Allowed
  <2>5. PluginsNeedTheOwner'
    BY <1>1, <1>5, <2>1, <2>4 DEF ToolInv, PluginsNeedTheOwner
  <2>6. AttemptEndsWithItsCall'
    BY <1>5, <2>1 DEF ToolInv, AttemptEndsWithItsCall
  <2>7. tool.source = "plugin" /\ n \in Altering => SideEffecting(n, tool)
    BY <2>3 DEF Plugin, DefineTool, SideEffecting
  <2>8. PluginEffectsAreRecorded'
    BY <1>1, <1>5, <2>1, <2>7 DEF ToolInv, PluginEffectsAreRecorded
  <2>. QED BY <1>1, <1>2, <2>2, <2>5, <2>6, <2>8 DEF ToolInv
<1>. QED BY <1>4, <1>6, <1>7

LEMMA CallEndsKeeps ==
  ASSUME ToolInv, NEW c \in Call, NEW status \in {"succeeded", "failed"},
         calls[c].stage = "running", Over(c), Finish(c, status),
         UNCHANGED <<kind, registry, takenAway>>
  PROVE  ToolInv'
<1>1. /\ kind' = kind /\ registry' = registry /\ takenAway' = takenAway
      /\ \A d \in Call \ {c} : calls'[d] = calls[d] /\ attempts'[d] = attempts[d]
      /\ calls'[c] = [tool |-> calls[c].tool, used |-> calls[c].used, stage |-> "over", aborted |-> calls[c].aborted]
      /\ attempts'[c] = IF attempts[c] = "started" THEN status ELSE attempts[c]
  BY DEF ToolInv, CallsAreWhole, Over, Finish
<1>2. RegistryIsOwned'
  BY <1>1 DEF ToolInv, RegistryIsOwned, Lifted
<1>3. CallsAreWhole'
  BY <1>1 DEF ToolInv, CallsAreWhole, Over, Finish
<1>4. PluginsNeedTheOwner' /\ AttemptEndsWithItsCall' /\ PluginEffectsAreRecorded'
  BY <1>1 DEF ToolInv, PluginsNeedTheOwner, AttemptEndsWithItsCall, PluginEffectsAreRecorded
<1>. QED BY <1>1, <1>2, <1>3, <1>4 DEF ToolInv

LEMMA TimerKeeps == ASSUME ToolInv, NEW c \in Call, TimerFires(c) PROVE ToolInv'
<1>1. /\ kind' = kind /\ registry' = registry /\ takenAway' = takenAway /\ attempts' = attempts
      /\ \A d \in Call \ {c} : calls'[d] = calls[d]
      /\ calls'[c] = [tool |-> calls[c].tool, used |-> calls[c].used, stage |-> calls[c].stage, aborted |-> TRUE]
      /\ calls[c].stage = "running"
  <2>1. /\ calls' = [calls EXCEPT ![c].aborted = TRUE] /\ calls[c].stage = "running"
        /\ UNCHANGED <<kind, registry, attempts, takenAway>>
    BY DEF TimerFires
  <2>2. calls'[c] = [calls[c] EXCEPT !.aborted = TRUE] /\ \A d \in Call \ {c} : calls'[d] = calls[d]
    BY <2>1 DEF ToolInv, CallsAreWhole
  <2>3. calls[c] = [tool |-> calls[c].tool, used |-> calls[c].used, stage |-> calls[c].stage, aborted |-> calls[c].aborted]
    BY DEF ToolInv, CallsAreWhole
  <2>4. calls'[c] = [tool |-> calls[c].tool, used |-> calls[c].used, stage |-> calls[c].stage, aborted |-> TRUE]
    BY <2>2, <2>3
  <2>. QED BY <2>1, <2>2, <2>4
<1>2. RegistryIsOwned'
  BY <1>1 DEF ToolInv, RegistryIsOwned, Lifted
<1>3. CallsAreWhole'
  BY <1>1 DEF ToolInv, CallsAreWhole, TimerFires
<1>4. PluginsNeedTheOwner' /\ AttemptEndsWithItsCall' /\ PluginEffectsAreRecorded'
  BY <1>1 DEF ToolInv, PluginsNeedTheOwner, AttemptEndsWithItsCall, PluginEffectsAreRecorded
<1>. QED BY <1>1, <1>2, <1>3, <1>4 DEF ToolInv

LEMMA ToolStepKeeps == ToolInv /\ [ToolsNext]_toolVars => ToolInv'
<1>. SUFFICES ASSUME ToolInv, [ToolsNext]_toolVars PROVE ToolInv'
  OBVIOUS
<1>1. CASE UNCHANGED toolVars
  BY <1>1 DEF toolVars, ToolInv, RegistryIsOwned, CallsAreWhole, PluginsNeedTheOwner,
     AttemptEndsWithItsCall, PluginEffectsAreRecorded, Lifted
<1>2. ASSUME NEW c \in Call, HandlerAborts(c) PROVE ToolInv'
  BY <1>2, CallEndsKeeps DEF HandlerAborts
<1>3. ASSUME NEW c \in Call, NEW status \in {"succeeded", "failed"}, HandlerSettles(c, status) PROVE ToolInv'
  BY <1>3, CallEndsKeeps DEF HandlerSettles
<1>. QED BY <1>1, <1>2, <1>3, LoadKeeps, RemoveKeeps, StartKeeps, TimerKeeps DEF ToolsNext

(* However plugins are loaded, removed and loaded again while calls of any *)
(* number run, time out and end: a plugin runs only where the owner allowed*)
(* its name or a shipped tool was taken away, and an attempt of the ledger *)
(* is open exactly while its call runs (registry.js, index.js).            *)
THEOREM ToolCallsAlwaysHold == ToolsSpec => []ToolCallsHold
<1>1. ToolInv => ToolCallsHold
  BY DEF ToolInv, ToolCallsHold
<1>. QED BY <1>1, ToolInvStarts, ToolStepKeeps, PTL DEF ToolsSpec
-----------------------------------------------------------------------------
(* The context a run hands to the tasks of the phase it is in.             *)
Handed(x) ==
    IF x.plan[x.phase].full THEN {}
    ELSE {p \in x.plan[x.phase].context :
            \E k \in 1 .. x.phase - 1 : x.plan[k].name = p /\ ~x.plan[k].padded}

Plain(plan) == \A l \in DOMAIN plan : ~plan[l].padded

RunRecord(plan, stage, at, next, working, caller) ==
    [plan |-> plan, stage |-> stage, phase |-> at, next |-> next, working |-> working, caller |-> caller]
RunShape(x) ==
    /\ x = RunRecord(x.plan, x.stage, x.phase, x.next, x.working, x.caller)
    /\ x.stage \in {"none", "running", "refused", "done", "partial"}

PlanShape(plan) ==
    /\ Len(plan) \in Nat \ {0} /\ DOMAIN plan = 1 .. Len(plan)
    /\ \A k \in DOMAIN plan : plan[k].tasks \in Nat
    /\ ValidPhases(plan)

GridShape(plan, grid) ==
    /\ grid = [k \in DOMAIN plan |-> grid[k]]
    /\ \A k \in DOMAIN plan : grid[k] = [t \in 1 .. plan[k].tasks |-> grid[k][t]]

(* What holds of a run that was let in: the phases before the one it is in *)
(* have all their results, a task of that phase that was taken has one or  *)
(* is being worked on, and each task that was taken got its context.       *)
Place(x) ==
    /\ x.phase \in DOMAIN x.plan
    /\ x.next \in 1 .. x.plan[x.phase].tasks + 1
    /\ x.working \subseteq 1 .. x.next - 1
    /\ x.stage # "running" =>
         x.phase = Len(x.plan) /\ x.next = x.plan[x.phase].tasks + 1 /\ x.working = {}
ResultsStand(x, res) ==
    /\ \A k \in 1 .. x.phase - 1 : \A t \in 1 .. x.plan[k].tasks : res[k][t] # "none"
    /\ \A t \in (1 .. x.next - 1) \ x.working : res[x.phase][t] # "none"
    /\ x.stage = "done" => \A k \in DOMAIN x.plan : ToSet(res[k]) = {"done"}
ContextsStand(x, ctx) ==
    Plain(x.plan) =>
        /\ \A k \in 1 .. x.phase - 1 : ~x.plan[k].full =>
             \A t \in 1 .. x.plan[k].tasks : ctx[k][t] = x.plan[k].context
        /\ ~x.plan[x.phase].full => \A t \in 1 .. x.next - 1 : ctx[x.phase][t] = x.plan[x.phase].context
LetIn(x) == x.stage \in {"running", "done", "partial"}
RunStands(x, res, ctx) ==
    /\ RunShape(x)
    /\ LetIn(x) => /\ PlanShape(x.plan) /\ GridShape(x.plan, res) /\ GridShape(x.plan, ctx)
                   /\ Place(x) /\ ResultsStand(x, res) /\ ContextsStand(x, ctx)

FlowInv ==
    /\ runs = [r \in Run |-> runs[r]] /\ results = [r \in Run |-> results[r]]
    /\ context = [r \in Run |-> context[r]]
    /\ \A r \in Run : RunStands(runs[r], results[r], context[r])
    /\ DepthIsWhatIsOpen

LEMMA RunIsFinite == IsFiniteSet(Run) /\ OpenRuns \subseteq Run /\ IsFiniteSet(OpenRuns)
<1>1. IsFiniteSet(Run)
  BY FS_Interval, WorkflowAssumption DEF Run
<1>2. OpenRuns \in SUBSET Run
  BY DEF OpenRuns
<1>. QED BY <1>1, <1>2, FS_Subset

LEMMA WithNext ==
  ASSUME NEW x, RunShape(x), NEW n, NEW w
  PROVE  [x EXCEPT !.next = n, !.working = w] = RunRecord(x.plan, x.stage, x.phase, n, w, x.caller)
<1>. DEFINE a == [x EXCEPT !.next = n]
<1>1. a = RunRecord(x.plan, x.stage, x.phase, n, x.working, x.caller)
  BY DEF RunShape, RunRecord
<1>. HIDE DEF a
<1>2. [a EXCEPT !.working = w] = RunRecord(x.plan, x.stage, x.phase, n, w, x.caller)
  BY <1>1 DEF RunRecord
<1>. QED BY <1>2 DEF a

LEMMA WithPhase ==
  ASSUME NEW x, RunShape(x), NEW k, NEW n, NEW w
  PROVE  [x EXCEPT !.phase = k, !.next = n, !.working = w] = RunRecord(x.plan, x.stage, k, n, w, x.caller)
<1>. DEFINE a == [x EXCEPT !.phase = k]
            b == [a EXCEPT !.next = n]
<1>1. a = RunRecord(x.plan, x.stage, k, x.next, x.working, x.caller)
  BY DEF RunShape, RunRecord
<1>. HIDE DEF a
<1>2. b = RunRecord(x.plan, x.stage, k, n, x.working, x.caller)
  BY <1>1 DEF RunRecord
<1>. HIDE DEF b
<1>3. [b EXCEPT !.working = w] = RunRecord(x.plan, x.stage, k, n, w, x.caller)
  BY <1>2 DEF RunRecord
<1>. QED BY <1>3 DEF a, b

LEMMA WithPlan ==
  ASSUME NEW x, RunShape(x), NEW p, NEW s
  PROVE  [x EXCEPT !.plan = p, !.stage = s] = RunRecord(p, s, x.phase, x.next, x.working, x.caller)
<1>. DEFINE a == [x EXCEPT !.plan = p]
<1>1. a = RunRecord(p, x.stage, x.phase, x.next, x.working, x.caller)
  BY DEF RunShape, RunRecord
<1>. HIDE DEF a
<1>2. [a EXCEPT !.stage = s] = RunRecord(p, s, x.phase, x.next, x.working, x.caller)
  BY <1>1 DEF RunRecord
<1>. QED BY <1>2 DEF a

LEMMA NewRun ==
  ASSUME NEW plan, NEW caller
  PROVE  [NoRun EXCEPT !.plan = plan, !.stage = "running", !.phase = 1, !.caller = caller]
           = RunRecord(plan, "running", 1, NoRun.next, NoRun.working, caller)
<1>. DEFINE a == [NoRun EXCEPT !.plan = plan]
            b == [a EXCEPT !.stage = "running"]
            d == [b EXCEPT !.phase = 1]
<1>0. RunShape(NoRun)
  BY DEF NoRun, RunShape, RunRecord
<1>1. a = RunRecord(plan, NoRun.stage, NoRun.phase, NoRun.next, NoRun.working, NoRun.caller)
  BY <1>0 DEF RunShape, RunRecord
<1>. HIDE DEF a
<1>2. b = RunRecord(plan, "running", NoRun.phase, NoRun.next, NoRun.working, NoRun.caller)
  BY <1>1 DEF RunRecord
<1>. HIDE DEF b
<1>3. d = RunRecord(plan, "running", 1, NoRun.next, NoRun.working, NoRun.caller)
  BY <1>2 DEF RunRecord
<1>. HIDE DEF d
<1>4. [d EXCEPT !.caller = caller] = RunRecord(plan, "running", 1, NoRun.next, NoRun.working, caller)
  BY <1>3 DEF RunRecord
<1>. QED BY <1>4 DEF a, b, d

LEMMA WithOneField ==
  ASSUME NEW x, RunShape(x), NEW v
  PROVE  /\ [x EXCEPT !.working = v] = RunRecord(x.plan, x.stage, x.phase, x.next, v, x.caller)
         /\ [x EXCEPT !.stage = v] = RunRecord(x.plan, v, x.phase, x.next, x.working, x.caller)
BY DEF RunShape, RunRecord

LEMMA PlansAreShaped ==
  ASSUME NEW plan \in Plans \cup Nested, ValidPhases(plan)
  PROVE  PlanShape(plan)
<1>1. plan \in Seq(ToSet(plan)) /\ \A f \in ToSet(plan) : f.tasks \in Nat
  BY WorkflowAssumption
<1>2. Len(plan) \in Nat /\ DOMAIN plan = 1 .. Len(plan)
  BY <1>1
<1>3. plan # <<>>
  BY DEF ValidPhases
<1>4. Len(plan) # 0
  BY <1>1, <1>3
<1>5. \A k \in DOMAIN plan : plan[k] \in ToSet(plan)
  BY DEF ToSet
<1>. QED BY <1>1, <1>2, <1>4, <1>5 DEF PlanShape

LEMMA FlowStarts == FlowInit => FlowInv
<1>. SUFFICES ASSUME FlowInit PROVE FlowInv
  OBVIOUS
<1>1. RunShape(NoRun) /\ ~LetIn(NoRun) /\ NoRun.stage = "none"
  BY DEF RunShape, RunRecord, NoRun, LetIn
<1>2. OpenRuns = {}
  BY <1>1 DEF OpenRuns, FlowInit
<1>3. DepthIsWhatIsOpen
  BY <1>2, FS_EmptySet, WorkflowAssumption DEF FlowInit, DepthIsWhatIsOpen
<1>. QED BY <1>1, <1>3 DEF FlowInit, FlowInv, RunStands

(* A run changes alone, and is open before and after, or begins or ends.   *)
LEMMA OneRunChanges ==
  ASSUME FlowInv, NEW r \in Run, NEW x, NEW res, NEW ctx,
         runs' = [runs EXCEPT ![r] = x], results' = [results EXCEPT ![r] = res],
         context' = [context EXCEPT ![r] = ctx],
         RunStands(x, res, ctx),
         depth' = depth + (IF x.stage = "running" THEN 1 ELSE 0) - (IF runs[r].stage = "running" THEN 1 ELSE 0),
         depth' <= MaxNesting
  PROVE  FlowInv'
<1>1. /\ runs'[r] = x /\ results'[r] = res /\ context'[r] = ctx
      /\ \A q \in Run \ {r} : runs'[q] = runs[q] /\ results'[q] = results[q] /\ context'[q] = context[q]
      /\ runs' = [q \in Run |-> runs'[q]] /\ results' = [q \in Run |-> results'[q]]
      /\ context' = [q \in Run |-> context'[q]]
  BY DEF FlowInv
<1>2. \A q \in Run : RunStands(runs'[q], results'[q], context'[q])
  BY <1>1 DEF FlowInv
<1>3. OpenRuns' = {q \in Run : runs'[q].stage = "running"}
  BY DEF OpenRuns, Run
<1>4. OpenRuns' = (OpenRuns \ {r}) \cup (IF x.stage = "running" THEN {r} ELSE {})
  BY <1>1, <1>3 DEF OpenRuns
<1>5. /\ IsFiniteSet(OpenRuns) /\ Cardinality(OpenRuns) \in Nat /\ depth = Cardinality(OpenRuns)
      /\ IsFiniteSet(OpenRuns \ {r})
      /\ Cardinality(OpenRuns \ {r}) = IF r \in OpenRuns THEN Cardinality(OpenRuns) - 1 ELSE Cardinality(OpenRuns)
  BY RunIsFinite, FS_RemoveElement, FS_CardinalityType DEF FlowInv, DepthIsWhatIsOpen
<1>6. r \in OpenRuns <=> runs[r].stage = "running"
  BY DEF OpenRuns
<1>7. Cardinality((OpenRuns \ {r}) \cup {r}) = Cardinality(OpenRuns \ {r}) + 1
  BY <1>5, FS_AddElement
<1>8. depth' = Cardinality(OpenRuns')
  <2>1. CASE x.stage = "running"
    <3>1. Cardinality(OpenRuns') = Cardinality(OpenRuns \ {r}) + 1
      BY <1>4, <1>7, <2>1
    <3>. QED BY <1>5, <1>6, <2>1, <3>1
  <2>2. CASE x.stage # "running"
    <3>1. OpenRuns' = OpenRuns \ {r}
      BY <1>4, <2>2
    <3>. QED BY <1>5, <1>6, <2>2, <3>1
  <2>. QED BY <2>1, <2>2
<1>9. Run' = Run
  BY DEF Run
<1>10. DepthIsWhatIsOpen'
  BY <1>8 DEF DepthIsWhatIsOpen
<1>. QED BY <1>1, <1>2, <1>9, <1>10 DEF FlowInv

LEMMA PlanKeeps ==
  ASSUME FlowInv, NEW r \in Run, NEW plan \in Plans \cup Nested, NEW caller, StartPlan(r, plan, caller)
  PROVE  FlowInv'
<1>. DEFINE ctx == [k \in DOMAIN plan |-> [t \in 1 .. plan[k].tasks |-> {}]]
            x == [plan |-> plan, stage |-> "running", phase |-> 1, next |-> 1, working |-> {}, caller |-> caller]
            y == [plan |-> plan, stage |-> "refused", phase |-> 0, next |-> 1, working |-> {}, caller |-> <<>>]
<1>1. /\ runs[r].stage = "none"
      /\ results' = [results EXCEPT ![r] = Blank(plan)] /\ context' = [context EXCEPT ![r] = ctx]
  BY DEF StartPlan, NoRun
<1>2. depth \in Nat /\ depth <= MaxNesting /\ MaxNesting \in Nat
  BY RunIsFinite, FS_CardinalityType, WorkflowAssumption DEF FlowInv, DepthIsWhatIsOpen
<1>0. /\ RunShape(NoRun) /\ NoRun.phase = 0 /\ NoRun.next = 1 /\ NoRun.working = {}
      /\ NoRun.caller = <<>>
  BY DEF NoRun, RunShape, RunRecord
<1>8. [NoRun EXCEPT !.plan = plan, !.stage = "refused"]
        = RunRecord(plan, "refused", NoRun.phase, NoRun.next, NoRun.working, NoRun.caller)
  BY <1>0, WithPlan, Zenon
<1>3. [NoRun EXCEPT !.plan = plan, !.stage = "running", !.phase = 1, !.caller = caller] = x
  <2>1. [NoRun EXCEPT !.plan = plan, !.stage = "running", !.phase = 1, !.caller = caller]
          = RunRecord(plan, "running", 1, NoRun.next, NoRun.working, caller)
    BY NewRun, Zenon
  <2>2. RunRecord(plan, "running", 1, NoRun.next, NoRun.working, caller) = x
    BY <1>0 DEF RunRecord
  <2>. QED BY <2>1, <2>2, Zenon
<1>4. [NoRun EXCEPT !.plan = plan, !.stage = "refused"] = y
  BY <1>0, <1>8 DEF RunRecord
<1>5. CASE depth < MaxNesting /\ ValidPhases(plan)
  <2>1. depth' = depth + 1 /\ runs' = [runs EXCEPT ![r] = x]
    BY <1>3, <1>5 DEF StartPlan
  <2>2. PlanShape(plan)
    BY <1>5, PlansAreShaped
  <2>3. GridShape(plan, Blank(plan)) /\ GridShape(plan, ctx)
    BY DEF GridShape, Blank
  <2>4. RunShape(x) /\ Place(x) /\ ResultsStand(x, Blank(plan)) /\ ContextsStand(x, ctx)
    <3>1. x.phase \in DOMAIN x.plan /\ x.plan[x.phase].tasks \in Nat
      BY <2>2 DEF PlanShape
    <3>2. 1 .. 0 = {}
      OBVIOUS
    <3>. QED BY <3>1, <3>2 DEF RunShape, RunRecord, Place, ResultsStand, ContextsStand
  <2>5. RunStands(x, Blank(plan), ctx)
    BY <2>2, <2>3, <2>4 DEF RunStands
  <2>. HIDE DEF x, ctx
  <2>6. x.stage = "running"
    BY DEF x
  <2>7. /\ depth' = depth + (IF x.stage = "running" THEN 1 ELSE 0) - (IF runs[r].stage = "running" THEN 1 ELSE 0)
        /\ depth' <= MaxNesting
    BY <1>1, <1>2, <1>5, <2>1, <2>6
  <2>. QED BY <1>1, <2>1, <2>5, <2>7, OneRunChanges
<1>6. CASE ~(depth < MaxNesting /\ ValidPhases(plan))
  <2>1. depth' = depth /\ runs' = [runs EXCEPT ![r] = y]
    BY <1>4, <1>6 DEF StartPlan
  <2>2. RunStands(y, Blank(plan), ctx)
    BY DEF RunStands, RunShape, RunRecord, LetIn
  <2>. HIDE DEF y, ctx
  <2>3. y.stage = "refused"
    BY DEF y
  <2>4. /\ depth' = depth + (IF y.stage = "running" THEN 1 ELSE 0) - (IF runs[r].stage = "running" THEN 1 ELSE 0)
        /\ depth' <= MaxNesting
    BY <1>1, <1>2, <2>1, <2>3
  <2>. QED BY <1>1, <2>1, <2>2, <2>4, OneRunChanges
<1>. QED BY <1>5, <1>6

LEMMA TakeKeeps == ASSUME FlowInv, NEW r \in Run, TakeTask(r) PROVE FlowInv'
<1>. DEFINE x == runs[r]
            y == [plan |-> x.plan, stage |-> x.stage, phase |-> x.phase, next |-> x.next + 1,
                  working |-> x.working \cup {x.next}, caller |-> x.caller]
            ctx == [context[r] EXCEPT ![x.phase] = [context[r][x.phase] EXCEPT ![x.next] = Handed(x)]]
<1>1. /\ x.stage = "running" /\ x.next <= x.plan[x.phase].tasks
      /\ runs' = [runs EXCEPT ![r] = [x EXCEPT !.next = x.next + 1, !.working = x.working \cup {x.next}]]
      /\ context' = [context EXCEPT ![r] = ctx]
      /\ results' = results /\ depth' = depth
  BY DEF TakeTask, Delivered, Handed, Current, FlowInv
<1>2. /\ RunShape(x) /\ PlanShape(x.plan) /\ GridShape(x.plan, results[r]) /\ GridShape(x.plan, context[r])
      /\ Place(x) /\ ResultsStand(x, results[r]) /\ ContextsStand(x, context[r])
  BY <1>1 DEF FlowInv, RunStands, LetIn
<1>12. [x EXCEPT !.next = x.next + 1, !.working = x.working \cup {x.next}]
         = RunRecord(x.plan, x.stage, x.phase, x.next + 1, x.working \cup {x.next}, x.caller)
  BY <1>2, WithNext, Zenon
<1>3. runs' = [runs EXCEPT ![r] = y] /\ results' = [results EXCEPT ![r] = results[r]]
  BY <1>1, <1>12 DEF FlowInv, RunRecord
<1>4. /\ x.phase \in DOMAIN x.plan /\ x.next \in 1 .. x.plan[x.phase].tasks /\ x.plan[x.phase].tasks \in Nat
      /\ x.phase \in Nat /\ x.working \subseteq 1 .. x.next - 1
  BY <1>1, <1>2 DEF PlanShape, Place
<1>5. /\ GridShape(x.plan, ctx)
      /\ ctx[x.phase][x.next] = Handed(x)
      /\ \A t \in 1 .. x.plan[x.phase].tasks : t # x.next => ctx[x.phase][t] = context[r][x.phase][t]
      /\ \A k \in DOMAIN x.plan : k # x.phase => ctx[k] = context[r][k]
  BY <1>2, <1>4 DEF GridShape
<1>6. Plain(x.plan) /\ ~x.plan[x.phase].full => Handed(x) = x.plan[x.phase].context
  <2>1. x.plan[x.phase].context \subseteq {x.plan[j].name : j \in 1 .. x.phase - 1}
    BY <1>2, <1>4 DEF PlanShape, ValidPhases
  <2>2. \A k \in 1 .. x.phase - 1 : k \in DOMAIN x.plan
    BY <1>2, <1>4 DEF PlanShape
  <2>. QED BY <2>1, <2>2 DEF Handed, Plain
<1>. HIDE DEF x, ctx
<1>7. RunShape(y) /\ Place(y)
  BY <1>1, <1>2, <1>4 DEF RunShape, RunRecord, Place
<1>8. ResultsStand(y, results[r])
  <2>1. (1 .. y.next - 1) \ y.working = (1 .. x.next - 1) \ x.working
    BY <1>4
  <2>. QED BY <1>2, <2>1 DEF ResultsStand
<1>9. ContextsStand(y, ctx)
  <2>1. \A k \in 1 .. x.phase - 1 : k \in DOMAIN x.plan /\ k # x.phase
    BY <1>2, <1>4 DEF PlanShape
  <2>2. \A t \in 1 .. y.next - 1 : t = x.next \/ (t \in 1 .. x.next - 1 /\ t \in 1 .. x.plan[x.phase].tasks /\ t # x.next)
    BY <1>4
  <2>. QED BY <1>2, <1>5, <1>6, <2>1, <2>2 DEF ContextsStand
<1>10. RunStands(y, results[r], ctx)
  BY <1>2, <1>5, <1>7, <1>8, <1>9 DEF RunStands
<1>11. y.stage = "running" /\ runs[r].stage = "running" /\ depth \in Nat /\ depth <= MaxNesting
  BY <1>1, RunIsFinite, FS_CardinalityType DEF FlowInv, DepthIsWhatIsOpen, x
<1>. HIDE DEF y
<1>13. /\ depth' = depth + (IF y.stage = "running" THEN 1 ELSE 0) - (IF runs[r].stage = "running" THEN 1 ELSE 0)
       /\ depth' <= MaxNesting
  BY <1>1, <1>11
<1>. QED BY <1>1, <1>3, <1>10, <1>13, OneRunChanges

LEMMA TaskEndKeeps ==
  ASSUME FlowInv, NEW r \in Run, NEW t \in runs[r].working, NEW outcome \in Outcomes, TaskEnds(r, t, outcome)
  PROVE  FlowInv'
<1>. DEFINE x == runs[r]
            y == [plan |-> x.plan, stage |-> x.stage, phase |-> x.phase, next |-> x.next,
                  working |-> x.working \ {t}, caller |-> x.caller]
            res == [results[r] EXCEPT ![x.phase] = [results[r][x.phase] EXCEPT ![t] = outcome]]
<1>1. /\ x.stage = "running"
      /\ runs' = [runs EXCEPT ![r] = [x EXCEPT !.working = x.working \ {t}]]
      /\ results' = [results EXCEPT ![r] = res]
      /\ context' = context /\ depth' = depth
  BY DEF TaskEnds, FlowInv
<1>2. /\ RunShape(x) /\ PlanShape(x.plan) /\ GridShape(x.plan, results[r]) /\ GridShape(x.plan, context[r])
      /\ Place(x) /\ ResultsStand(x, results[r]) /\ ContextsStand(x, context[r])
  BY <1>1 DEF FlowInv, RunStands, LetIn
<1>12. [x EXCEPT !.working = x.working \ {t}]
         = RunRecord(x.plan, x.stage, x.phase, x.next, x.working \ {t}, x.caller)
  BY <1>2, WithOneField, Zenon
<1>3. runs' = [runs EXCEPT ![r] = y] /\ context' = [context EXCEPT ![r] = context[r]]
  BY <1>1, <1>12 DEF FlowInv, RunRecord
<1>4. /\ x.phase \in DOMAIN x.plan /\ x.next \in 1 .. x.plan[x.phase].tasks + 1 /\ x.plan[x.phase].tasks \in Nat
      /\ x.phase \in Nat /\ x.working \subseteq 1 .. x.next - 1 /\ t \in 1 .. x.next - 1
      /\ t \in 1 .. x.plan[x.phase].tasks
  <2>1. /\ x.phase \in DOMAIN x.plan /\ x.next \in 1 .. x.plan[x.phase].tasks + 1
        /\ x.working \subseteq 1 .. x.next - 1
    BY <1>2 DEF Place
  <2>2. x.phase \in Nat /\ x.plan[x.phase].tasks \in Nat
    BY <1>2, <2>1 DEF PlanShape
  <2>. QED BY <2>1, <2>2
<1>5. /\ GridShape(x.plan, res)
      /\ res[x.phase][t] = outcome /\ outcome # "none"
      /\ \A u \in 1 .. x.plan[x.phase].tasks : u # t => res[x.phase][u] = results[r][x.phase][u]
      /\ \A k \in DOMAIN x.plan : k # x.phase => res[k] = results[r][k]
  BY <1>2, <1>4 DEF GridShape, Outcomes
<1>. HIDE DEF x, res
<1>7. RunShape(y) /\ Place(y)
  BY <1>1, <1>2, <1>4 DEF RunShape, RunRecord, Place
<1>8. ResultsStand(y, res)
  <2>1. \A k \in 1 .. x.phase - 1 : k \in DOMAIN x.plan /\ k # x.phase
    BY <1>2, <1>4 DEF PlanShape
  <2>2. \A u \in (1 .. y.next - 1) \ y.working :
          u = t \/ (u \in (1 .. x.next - 1) \ x.working /\ u \in 1 .. x.plan[x.phase].tasks /\ u # t)
    BY <1>4
  <2>. QED BY <1>1, <1>2, <1>5, <2>1, <2>2 DEF ResultsStand
<1>9. ContextsStand(y, context[r])
  BY <1>2 DEF ContextsStand
<1>10. RunStands(y, res, context[r])
  BY <1>2, <1>5, <1>7, <1>8, <1>9 DEF RunStands
<1>11. y.stage = "running" /\ runs[r].stage = "running" /\ depth \in Nat /\ depth <= MaxNesting
  BY <1>1, RunIsFinite, FS_CardinalityType DEF FlowInv, DepthIsWhatIsOpen, x
<1>. HIDE DEF y
<1>13. /\ depth' = depth + (IF y.stage = "running" THEN 1 ELSE 0) - (IF runs[r].stage = "running" THEN 1 ELSE 0)
       /\ depth' <= MaxNesting
  BY <1>1, <1>11
<1>. QED BY <1>1, <1>3, <1>10, <1>13, OneRunChanges

LEMMA PhaseEndKeeps == ASSUME FlowInv, NEW r \in Run, PhaseEnds(r) PROVE FlowInv'
<1>. DEFINE x == runs[r]
            y == [plan |-> x.plan, stage |-> x.stage, phase |-> x.phase + 1, next |-> 1,
                  working |-> {}, caller |-> x.caller]
<1>1. /\ x.stage = "running" /\ x.next > x.plan[x.phase].tasks /\ x.working = {}
      /\ x.phase < Len(x.plan)
      /\ runs' = [runs EXCEPT ![r] = [x EXCEPT !.phase = x.phase + 1, !.next = 1, !.working = {}]]
      /\ results' = results /\ context' = context /\ depth' = depth
  BY DEF PhaseEnds, PhaseIsOver, Current, FlowInv
<1>2. /\ RunShape(x) /\ PlanShape(x.plan) /\ GridShape(x.plan, results[r]) /\ GridShape(x.plan, context[r])
      /\ Place(x) /\ ResultsStand(x, results[r]) /\ ContextsStand(x, context[r])
  BY <1>1 DEF FlowInv, RunStands, LetIn
<1>12. [x EXCEPT !.phase = x.phase + 1, !.next = 1, !.working = {}]
         = RunRecord(x.plan, x.stage, x.phase + 1, 1, {}, x.caller)
  BY <1>2, WithPhase, Zenon
<1>3. /\ runs' = [runs EXCEPT ![r] = y] /\ context' = [context EXCEPT ![r] = context[r]]
      /\ results' = [results EXCEPT ![r] = results[r]]
  BY <1>1, <1>12 DEF FlowInv, RunRecord
<1>4. /\ x.phase \in 1 .. Len(x.plan) /\ x.next = x.plan[x.phase].tasks + 1 /\ x.plan[x.phase].tasks \in Nat
      /\ x.phase + 1 \in DOMAIN x.plan /\ x.plan[x.phase + 1].tasks \in Nat /\ 1 .. 0 = {}
  <2>1. x.phase \in DOMAIN x.plan /\ x.next \in 1 .. x.plan[x.phase].tasks + 1
    BY <1>2 DEF Place
  <2>2. /\ Len(x.plan) \in Nat \ {0} /\ DOMAIN x.plan = 1 .. Len(x.plan)
        /\ \A k \in DOMAIN x.plan : x.plan[k].tasks \in Nat
    BY <1>2 DEF PlanShape
  <2>3. x.phase \in 1 .. Len(x.plan) /\ x.phase + 1 \in 1 .. Len(x.plan) /\ 1 .. 0 = {}
    BY <1>1, <2>1, <2>2
  <2>4. x.plan[x.phase].tasks \in Nat /\ x.plan[x.phase + 1].tasks \in Nat
    BY <2>2, <2>3
  <2>6. x.next > x.plan[x.phase].tasks
    BY <1>1
  <2>7. \A a \in Nat : \A b \in 1 .. a + 1 : b > a => b = a + 1
    OBVIOUS
  <2>5. x.next = x.plan[x.phase].tasks + 1
    BY <2>1, <2>4, <2>6, <2>7
  <2>. QED BY <2>2, <2>3, <2>4, <2>5
<1>. HIDE DEF x
<1>5. \A k \in 1 .. y.phase - 1 : k = x.phase \/ k \in 1 .. x.phase - 1
  BY <1>4
<1>6. 1 .. x.next - 1 = 1 .. x.plan[x.phase].tasks
  BY <1>4
<1>7. RunShape(y) /\ Place(y)
  BY <1>1, <1>2, <1>4 DEF RunShape, RunRecord, Place
<1>15. 1 .. y.next - 1 = {} /\ y.working = {} /\ y.plan = x.plan /\ y.stage = "running"
  BY <1>1
<1>8. ResultsStand(y, results[r])
  <2>1. \A t \in 1 .. x.plan[x.phase].tasks : results[r][x.phase][t] # "none"
    BY <1>1, <1>2, <1>6 DEF ResultsStand
  <2>2. \A k \in 1 .. y.phase - 1 : \A t \in 1 .. x.plan[k].tasks : results[r][k][t] # "none"
    BY <1>2, <1>5, <2>1 DEF ResultsStand
  <2>. HIDE DEF y
  <2>. QED BY <1>15, <2>2 DEF ResultsStand
<1>9. ContextsStand(y, context[r])
  <2>1. SUFFICES ASSUME Plain(x.plan)
                 PROVE  \A k \in 1 .. y.phase - 1 : ~x.plan[k].full =>
                          \A t \in 1 .. x.plan[k].tasks : context[r][k][t] = x.plan[k].context
    <3>. HIDE DEF y
    <3>. QED BY <1>15 DEF ContextsStand
  <2>2. /\ \A k \in 1 .. x.phase - 1 : ~x.plan[k].full =>
             \A t \in 1 .. x.plan[k].tasks : context[r][k][t] = x.plan[k].context
        /\ ~x.plan[x.phase].full =>
             \A t \in 1 .. x.plan[x.phase].tasks : context[r][x.phase][t] = x.plan[x.phase].context
    BY <1>2, <1>6, <2>1 DEF ContextsStand
  <2>. QED BY <1>5, <2>2
<1>10. RunStands(y, results[r], context[r])
  BY <1>2, <1>7, <1>8, <1>9 DEF RunStands
<1>11. y.stage = "running" /\ runs[r].stage = "running" /\ depth \in Nat /\ depth <= MaxNesting
  BY <1>1, RunIsFinite, FS_CardinalityType DEF FlowInv, DepthIsWhatIsOpen, x
<1>. HIDE DEF y
<1>13. /\ depth' = depth + (IF y.stage = "running" THEN 1 ELSE 0) - (IF runs[r].stage = "running" THEN 1 ELSE 0)
       /\ depth' <= MaxNesting
  BY <1>1, <1>11
<1>. QED BY <1>1, <1>3, <1>10, <1>13, OneRunChanges

LEMMA RunEndKeeps == ASSUME FlowInv, NEW r \in Run, RunEnds(r) PROVE FlowInv'
<1>. DEFINE x == runs[r]
            v == Verdict(r)
            y == [plan |-> x.plan, stage |-> v, phase |-> x.phase, next |-> x.next,
                  working |-> x.working, caller |-> x.caller]
<1>1. /\ x.stage = "running" /\ x.next > x.plan[x.phase].tasks /\ x.working = {}
      /\ x.phase = Len(x.plan)
      /\ runs' = [runs EXCEPT ![r] = [x EXCEPT !.stage = v]]
      /\ results' = results /\ context' = context /\ depth' = depth - 1
  BY DEF RunEnds, PhaseIsOver, Current, FlowInv, Leave
<1>2. /\ RunShape(x) /\ PlanShape(x.plan) /\ GridShape(x.plan, results[r]) /\ GridShape(x.plan, context[r])
      /\ Place(x) /\ ResultsStand(x, results[r]) /\ ContextsStand(x, context[r])
  BY <1>1 DEF FlowInv, RunStands, LetIn
<1>14. [x EXCEPT !.stage = v]
         = RunRecord(x.plan, v, x.phase, x.next, x.working, x.caller)
  BY <1>2, WithOneField, Zenon
<1>3. /\ runs' = [runs EXCEPT ![r] = y] /\ context' = [context EXCEPT ![r] = context[r]]
      /\ results' = [results EXCEPT ![r] = results[r]]
  BY <1>1, <1>14 DEF FlowInv, RunRecord
<1>4. /\ v \in {"done", "partial"}
      /\ v = "done" => \A k \in DOMAIN x.plan : ToSet(results[r][k]) = {"done"}
  BY DEF Verdict
<1>5. /\ x.phase \in DOMAIN x.plan /\ x.next = x.plan[x.phase].tasks + 1
  BY <1>1, <1>2 DEF PlanShape, Place
<1>. HIDE DEF x, v
<1>7. RunShape(y) /\ Place(y)
  BY <1>1, <1>2, <1>4, <1>5 DEF RunShape, RunRecord, Place
<1>8. ResultsStand(y, results[r]) /\ ContextsStand(y, context[r])
  BY <1>2, <1>4 DEF ResultsStand, ContextsStand
<1>10. RunStands(y, results[r], context[r])
  BY <1>2, <1>7, <1>8 DEF RunStands
<1>11. y.stage # "running" /\ runs[r].stage = "running" /\ depth \in Nat /\ depth <= MaxNesting
  BY <1>1, <1>4, RunIsFinite, FS_CardinalityType DEF FlowInv, DepthIsWhatIsOpen, x
<1>12. MaxNesting \in Nat
  BY WorkflowAssumption
<1>. HIDE DEF y
<1>13. /\ depth' = depth + (IF y.stage = "running" THEN 1 ELSE 0) - (IF runs[r].stage = "running" THEN 1 ELSE 0)
       /\ depth' <= MaxNesting
  BY <1>1, <1>11, <1>12
<1>. QED BY <1>1, <1>3, <1>10, <1>13, OneRunChanges

LEMMA FlowStepKeeps == FlowInv /\ [FlowNext]_flowVars => FlowInv'
<1>. SUFFICES ASSUME FlowInv, [FlowNext]_flowVars PROVE FlowInv'
  OBVIOUS
<1>1. CASE UNCHANGED flowVars
  BY <1>1 DEF flowVars, FlowInv, DepthIsWhatIsOpen, OpenRuns, Run
<1>2. ASSUME NEW r \in Run, NEW plan \in Plans, CallFromTask(r, plan) PROVE FlowInv'
  BY <1>2, PlanKeeps DEF CallFromTask
<1>3. ASSUME NEW r \in Run, NEW plan \in Nested, NEW q, NEW t, CallFromSubAgent(r, plan, q, t) PROVE FlowInv'
  BY <1>3, PlanKeeps DEF CallFromSubAgent
<1>. QED BY <1>1, <1>2, <1>3, TakeKeeps, PhaseEndKeeps, RunEndKeeps, TaskEndKeeps DEF FlowNext

LEMMA FlowInvIsEnough ==
  FlowInv => PhasesAreBarriers /\ ContextReachesEveryTask /\ DepthIsWhatIsOpen /\ FailuresAreReported
<1>. SUFFICES ASSUME FlowInv
              PROVE  PhasesAreBarriers /\ ContextReachesEveryTask /\ FailuresAreReported
  BY DEF FlowInv
<1>0. \A r \in Run : LetIn(runs[r]) =>
        /\ PlanShape(runs[r].plan) /\ GridShape(runs[r].plan, results[r]) /\ GridShape(runs[r].plan, context[r])
        /\ Place(runs[r]) /\ ResultsStand(runs[r], results[r]) /\ ContextsStand(runs[r], context[r])
  BY DEF FlowInv, RunStands
<1>1. PhasesAreBarriers
  <2>1. SUFFICES ASSUME NEW r \in Run, runs[r].stage = "running", NEW k \in 1 .. runs[r].phase - 1
                 PROVE  "none" \notin ToSet(results[r][k])
    BY DEF PhasesAreBarriers, OpenRuns
  <2>2. k \in DOMAIN runs[r].plan
    BY <1>0, <2>1 DEF LetIn, Place, PlanShape
  <2>3. /\ results[r][k] = [t \in 1 .. runs[r].plan[k].tasks |-> results[r][k][t]]
        /\ \A t \in 1 .. runs[r].plan[k].tasks : results[r][k][t] # "none"
    BY <1>0, <2>1, <2>2 DEF LetIn, GridShape, ResultsStand
  <2>. QED BY <2>3 DEF ToSet
<1>2. ContextReachesEveryTask
  <2>1. SUFFICES ASSUME NEW r \in Run, runs[r].stage \in {"done", "partial"},
                        NEW k \in DOMAIN runs[r].plan, ~runs[r].plan[k].full, Plain(runs[r].plan),
                        NEW t \in 1 .. runs[r].plan[k].tasks
                 PROVE  context[r][k][t] = runs[r].plan[k].context
    BY DEF ContextReachesEveryTask, Plain
  <2>2. /\ runs[r].phase = Len(runs[r].plan) /\ runs[r].next = runs[r].plan[runs[r].phase].tasks + 1
        /\ DOMAIN runs[r].plan = 1 .. Len(runs[r].plan) /\ runs[r].plan[k].tasks \in Nat
        /\ Len(runs[r].plan) \in Nat /\ ContextsStand(runs[r], context[r])
    BY <1>0, <2>1 DEF LetIn, Place, PlanShape
  <2>3. k \in 1 .. runs[r].phase - 1 \/ (k = runs[r].phase /\ t \in 1 .. runs[r].next - 1)
    BY <2>2
  <2>. QED BY <2>1, <2>2, <2>3 DEF ContextsStand
<1>3. FailuresAreReported
  BY <1>0 DEF FailuresAreReported, LetIn, ResultsStand
<1>. QED BY <1>1, <1>2, <1>3

(* For any plans, however wide and nested, and any order in which the      *)
(* tasks end: a phase waits for those before it, each task gets the        *)
(* context its phase asked for, the depth counts the open runs, and a run  *)
(* is done only when every task is (workflow.js).                          *)
THEOREM WorkflowsAlwaysHold == FlowSpec => []WorkflowsHold
BY FlowStarts, FlowStepKeeps, FlowInvIsEnough, PTL DEF FlowSpec, WorkflowsHold
-----------------------------------------------------------------------------
LineKinds == {"delta", "usage", "done", "junk"}
IsStream(s) == s.lines \in Seq(LineKinds)
Piece == Nat \X Nat

LEMMA PiecesAreASeq ==
  ASSUME NEW s, NEW n \in Nat, attempt \in Nat
  PROVE  Pieces(s, n) \in Seq(Piece)
<1>. DEFINE K == {i \in 1 .. n : s.lines[i] = "delta"}
            m == Cardinality(K)
            c == Pieces(s, n)
<1>1. m \in Nat /\ \A i \in 1 .. m : NthOf(K, i) \in K
  <2>1. K \in SUBSET (1 .. n)
    OBVIOUS
  <2>. HIDE DEF K
  <2>. QED BY <2>1, NthFacts
<1>2. c = [i \in 1 .. m |-> <<attempt, NthOf(K, i)>>]
  BY DEF Pieces
<1>3. K \subseteq Nat
  OBVIOUS
<1>. HIDE DEF c, m, K
<1>4. \A i \in 1 .. m : <<attempt, NthOf(K, i)>> \in Piece
  BY <1>1, <1>3 DEF Piece
<1>5. c \in [1 .. m -> Piece]
  BY <1>2, <1>4
<1>. QED BY <1>1, <1>5, MappedSeq DEF c

LEMMA NoPieces ==
  ASSUME NEW s
  PROVE  Pieces(s, 0) = <<>>
<1>1. {i \in 1 .. 0 : s.lines[i] = "delta"} = {}
  OBVIOUS
<1>2. Cardinality({i \in 1 .. 0 : s.lines[i] = "delta"}) = 0
  BY <1>1, FS_EmptySet
<1>. QED BY <1>2 DEF Pieces

(* The next line adds a piece, or none.                                    *)
LEMMA NextPiece ==
  ASSUME NEW s, NEW n \in Nat, attempt \in Nat
  PROVE  Pieces(s, n + 1) = IF s.lines[n + 1] = "delta" THEN Append(Pieces(s, n), <<attempt, n + 1>>)
                            ELSE Pieces(s, n)
<1>. DEFINE K == {i \in 1 .. n : s.lines[i] = "delta"}
            L == {i \in 1 .. n + 1 : s.lines[i] = "delta"}
            m == Cardinality(K)
            p == <<attempt, n + 1>>
<1>1. /\ Pieces(s, n) = [i \in 1 .. m |-> <<attempt, NthOf(K, i)>>]
      /\ Pieces(s, n + 1) = [i \in 1 .. Cardinality(L) |-> <<attempt, NthOf(L, i)>>]
  BY DEF Pieces
<1>2. n + 1 \in 1 .. n + 1 /\ n + 1 \in Nat /\ K \in SUBSET (1 .. n + 1) /\ \A k \in K : k < n + 1
  OBVIOUS
<1>3. CASE s.lines[n + 1] # "delta"
  <2>1. L = K
    BY <1>3
  <2>. QED BY <1>1, <1>3, <2>1
<1>4. CASE s.lines[n + 1] = "delta"
  <2>1. L = K \cup {n + 1}
    BY <1>4
  <2>. HIDE DEF K, L
  <2>2. m \in Nat /\ Cardinality(L) = m + 1 /\ NthOf(L, m + 1) = n + 1
    BY <1>2, <2>1, NthLast
  <2>3. ASSUME NEW i \in 1 .. m PROVE NthOf(L, i) = NthOf(K, i)
    BY <1>2, <2>1, NthStays
  <2>. DEFINE a == Pieces(s, n)
              b == Pieces(s, n + 1)
              c == Append(a, p)
  <2>4. /\ a \in Seq(Piece) /\ b \in Seq(Piece) /\ p \in Piece
        /\ DOMAIN a = 1 .. m /\ DOMAIN b = 1 .. m + 1
    <3>1. a \in Seq(Piece) /\ b \in Seq(Piece)
      BY <1>2, PiecesAreASeq
    <3>2. p \in Piece
      BY DEF Piece
    <3>3. DOMAIN a = 1 .. m /\ DOMAIN b = 1 .. m + 1
      BY <1>1, <2>2
    <3>. QED BY <3>1, <3>2, <3>3
  <2>5. Len(a) = m /\ Len(b) = m + 1
    <3>. HIDE DEF a, b, m
    <3>. QED BY <2>2, <2>4, LenProperties
  <2>6. /\ c \in Seq(Piece) /\ Len(c) = m + 1 /\ c[m + 1] = p
        /\ \A i \in 1 .. m : c[i] = a[i]
    <3>. HIDE DEF a, b, m, p
    <3>. QED BY <2>2, <2>4, <2>5, AppendProperties
  <2>7. ASSUME NEW i \in 1 .. m + 1 PROVE c[i] = b[i]
    <3>1. i \in 1 .. m \/ i = m + 1
      BY <2>2
    <3>2. b[i] = <<attempt, NthOf(L, i)>>
      BY <1>1, <2>2
    <3>3. i \in 1 .. m => a[i] = <<attempt, NthOf(K, i)>>
      BY <1>1
    <3>. HIDE DEF a, b, m, c
    <3>. QED BY <2>2, <2>3, <2>6, <3>1, <3>2, <3>3
  <2>8. b = c
    <3>. HIDE DEF a, b, m, c
    <3>1. DOMAIN b = 1 .. m + 1 /\ DOMAIN c = 1 .. m + 1
      BY <2>4, <2>6, LenProperties
    <3>2. b = [i \in 1 .. m + 1 |-> b[i]] /\ c = [i \in 1 .. m + 1 |-> c[i]]
      BY <2>4, <2>6, <3>1 DEF Seq
    <3>. QED BY <2>7, <3>2
  <2>. QED BY <1>4, <2>8
<1>. QED BY <1>3, <1>4

-----------------------------------------------------------------------------
(* What the first n lines of the stream make of an answer: all its pieces, *)
(* or those before the marker at which the cloud's adapter returns.        *)
FirstDone(n) == stream.lines[n] = "done" /\ \A i \in 1 .. n - 1 : stream.lines[i] # "done"
ReadUpTo(a, n) ==
  IF a.over THEN brain = "cloud" /\ \E k \in 1 .. n : FirstDone(k) /\ a.full = Pieces(stream, k)
  ELSE /\ a.full = Pieces(stream, n)
       /\ brain = "cloud" => \A i \in 1 .. n : stream.lines[i] # "done"

Partial == [full : Seq(Piece), usage : Nat, over : BOOLEAN]

LEMMA LineIsRead ==
  ASSUME attempt \in Nat, brain \in {"cloud", "anthropic", "openai", "ollama"}, NEW n \in Nat \ {0},
         IsStream(stream), n <= Len(stream.lines), NEW a \in Partial
  PROVE  /\ Line(a, n) \in Partial
         /\ ReadUpTo(a, n - 1) => ReadUpTo(Line(a, n), n)
<1>. DEFINE b == Line(a, n)
            what == stream.lines[n]
            p == <<attempt, n>>
<1>0. /\ n - 1 \in Nat /\ n - 1 + 1 = n /\ what \in LineKinds /\ Kind(n) = what /\ p \in Piece
      /\ a.full \in Seq(Piece) /\ a.usage \in Nat /\ a.over \in BOOLEAN
      /\ Append(a.full, p) \in Seq(Piece)
  BY AppendProperties DEF IsStream, Kind, Piece, Partial
<1>1. Pieces(stream, n) = IF what = "delta" THEN Append(Pieces(stream, n - 1), p) ELSE Pieces(stream, n - 1)
  BY <1>0, NextPiece
<1>2. CASE a.over
  <2>1. b = a
    BY <1>2 DEF Line
  <2>2. \A k \in 1 .. n - 1 : k \in 1 .. n
    BY <1>0
  <2>. QED BY <1>2, <2>1, <2>2 DEF ReadUpTo
<1>3. CASE ~a.over /\ brain = "cloud" /\ what = "done"
  <2>1. b = [a EXCEPT !.over = TRUE]
    BY <1>0, <1>3 DEF Line, CloudLine
  <2>2. b.over /\ b.full = a.full /\ b \in Partial
    BY <2>1 DEF Partial
  <2>. HIDE DEF b
  <2>3. ASSUME ReadUpTo(a, n - 1) PROVE FirstDone(n) /\ a.full = Pieces(stream, n) /\ n \in 1 .. n
    BY <1>0, <1>1, <1>3, <2>3 DEF ReadUpTo, FirstDone
  <2>. QED BY <1>3, <2>2, <2>3 DEF ReadUpTo, b
<1>4. CASE ~a.over /\ ~(brain = "cloud" /\ what = "done")
  <2>1. \/ b = a /\ what # "delta"
        \/ b = [a EXCEPT !.usage = n] /\ what # "delta"
        \/ b = [a EXCEPT !.full = Append(a.full, p)] /\ what = "delta"
    BY <1>0, <1>4 DEF Line, CloudLine, LocalLine, AnthropicLine, OpenaiLine, OllamaLine, WithDelta, LineKinds
  <2>2. b \in Partial
    BY <1>0, <2>1 DEF Partial
  <2>3. ~b.over /\ b.full = IF what = "delta" THEN Append(a.full, p) ELSE a.full
    BY <1>0, <1>4, <2>1 DEF Partial
  <2>. HIDE DEF b
  <2>4. \A i \in 1 .. n : i \in 1 .. n - 1 \/ i = n
    BY <1>0
  <2>. QED BY <1>0, <1>1, <1>4, <2>2, <2>3, <2>4 DEF ReadUpTo, b
<1>. QED BY <1>2, <1>3, <1>4

LEMMA WholeLinesAreRead ==
  ASSUME attempt \in Nat, brain \in {"cloud", "anthropic", "openai", "ollama"}, IsStream(stream),
         got \in Nat, usage \in Nat, full \in Seq(Piece), ReadUpTo(Answer, got),
         NEW k \in Nat, got + k <= Len(stream.lines)
  PROVE  WholeLines(k) \in Partial /\ ReadUpTo(WholeLines(k), got + k)
<1>. DEFINE Taken(a, i) == Line(a, got + i)
            step == [v \in (1 .. k) \X Partial |-> Taken(v[2], v[1])]
            Body(f) == [i \in 0 .. k |-> IF i = 0 THEN Answer ELSE Line(f[i - 1], got + i)]
            scan == CHOOSE f : f = Body(f)
<1>1. Answer \in Partial
  BY DEF Answer, Partial
<1>2. ASSUME NEW i \in 1 .. k, NEW a \in Partial
      PROVE  /\ Taken(a, i) \in Partial
             /\ ReadUpTo(a, got + (i - 1)) => ReadUpTo(Taken(a, i), got + i)
  <2>1. got + i \in Nat \ {0} /\ got + i <= Len(stream.lines) /\ got + i - 1 = got + (i - 1)
    BY LenProperties DEF IsStream
  <2>. QED BY <2>1, LineIsRead
<1>3. step \in [(1 .. k) \X Partial -> Partial]
  <2>. HIDE DEF Taken
  <2>. QED BY <1>2
<1>. HIDE DEF step
<1>4. PICK g : Computes(g, Partial, k, Answer, step)
  BY <1>1, <1>3, StepByStep
<1>5. ASSUME NEW i \in 1 .. k PROVE g[i] = Taken(g[i - 1], i)
  <2>1. <<i, g[i - 1]>> \in (1 .. k) \X Partial
    <3>1. i - 1 \in 0 .. k
      OBVIOUS
    <3>. QED BY <1>4, <3>1 DEF Computes
  <2>. HIDE DEF Taken
  <2>. QED BY <1>4, <2>1 DEF Computes, step
<1>6. g = Body(g)
  <2>1. ASSUME NEW i \in 0 .. k PROVE g[i] = IF i = 0 THEN Answer ELSE Taken(g[i - 1], i)
    <3>1. i = 0 \/ i \in 1 .. k
      OBVIOUS
    <3>. QED BY <1>4, <1>5, <3>1 DEF Computes
  <2>. QED BY <1>4, <2>1 DEF Computes
<1>7. scan = Body(scan)
  BY <1>6
<1>8. WholeLines(k) = scan[k]
  BY DEF WholeLines, scan
<1>. HIDE DEF scan
<1>9. scan[0] = Answer /\ \A i \in 1 .. k : scan[i] = Taken(scan[i - 1], i)
  <2>1. 0 \in 0 .. k /\ \A i \in 1 .. k : i \in 0 .. k /\ i # 0
    OBVIOUS
  <2>. QED BY <1>7, <2>1
<1>. DEFINE S == {i \in 0 .. k : scan[i] \in Partial /\ ReadUpTo(scan[i], got + i)}
<1>10. 0 \in S
  BY <1>1, <1>9, got + 0 = got
<1>11. ASSUME NEW i \in 1 .. k, i - 1 \in S PROVE i \in S
  BY <1>2, <1>9, <1>11
<1>12. 0 .. k \subseteq S
  <2>. HIDE DEF S
  <2>. QED BY <1>10, <1>11, UpTo
<1>. QED BY <1>8, <1>12

-----------------------------------------------------------------------------
(* While an answer is read it is the pieces that arrived of this attempt.  *)
BrainInv ==
  /\ brain \in {"cloud", "anthropic", "openai", "ollama"} /\ attempt \in Nat
  /\ IsStream(stream) /\ got \in 0 .. Len(stream.lines) /\ usage \in Nat /\ full \in Seq(Piece)
  /\ phase = "reading" => ReadUpTo(Answer, got)
  /\ AnswerIsOfOneAttempt

LEMMA BrainStarts == BrainInit => BrainInv
BY DEF BrainInit, BrainInv, AnswerIsOfOneAttempt, IsStream, NoStream

LEMMA BrainStepKeeps == BrainInv /\ [BrainNext]_brainVars => BrainInv'
<1>. SUFFICES ASSUME BrainInv, [BrainNext]_brainVars PROVE BrainInv'
  OBVIOUS
<1>. DEFINE n == Len(stream.lines)
<1>1. /\ brain \in {"cloud", "anthropic", "openai", "ollama"} /\ attempt \in Nat /\ n \in Nat
      /\ IsStream(stream) /\ got \in 0 .. n /\ got \in Nat /\ usage \in Nat /\ full \in Seq(Piece)
      /\ phase = "reading" => ReadUpTo(Answer, got)
  BY LenProperties DEF BrainInv, IsStream
<1>13. ASSUME UNCHANGED <<brain, phase, attempt, stream, got, half, full, usage>> PROVE BrainInv'
  <2>1. \A i : Pieces(stream, i)' = Pieces(stream, i) /\ FirstDone(i)' = FirstDone(i)
    BY <1>13 DEF Pieces, FirstDone
  <2>2. Answer' = Answer /\ LeftOver' = LeftOver
    BY <1>13 DEF Answer, LeftOver
  <2>3. ReadUpTo(Answer, got) => ReadUpTo(Answer, got)'
    BY <1>13, <2>1, <2>2 DEF ReadUpTo
  <2>4. AnswerIsOfOneAttempt'
    BY <1>13, <2>1, <2>2 DEF BrainInv, AnswerIsOfOneAttempt
  <2>. QED BY <1>1, <1>13, <2>3, <2>4 DEF BrainInv, IsStream
<1>2. CASE UNCHANGED brainVars
  BY <1>2, <1>13 DEF brainVars
<1>3. ASSUME phase' \notin {"reading", "ok"}, UNCHANGED <<brain, stream, got, usage, full>>, attempt' \in Nat
      PROVE  BrainInv'
  BY <1>1, <1>3 DEF BrainInv, AnswerIsOfOneAttempt, IsStream
<1>4. CASE Ask \/ TryAgain \/ (\E transient \in BOOLEAN : Fail(transient))
  <2>1. phase' \notin {"reading", "ok"} /\ UNCHANGED <<brain, stream, got, usage, full>> /\ attempt' \in Nat
    BY <1>1, <1>4 DEF Ask, TryAgain, Fail, request
  <2>. QED BY <1>3, <2>1
<1>5. CASE StopTask
  BY <1>5, <1>13 DEF StopTask
<1>6. ASSUME NEW s \in Streams, Respond(s) PROVE BrainInv'
  <2>1. /\ stream' = s /\ got' = 0 /\ full' = <<>> /\ usage' = 0 /\ phase' = "reading"
        /\ brain' = brain /\ attempt' = attempt /\ IsStream(s)
    BY <1>6, BrainAssumption DEF Respond, Opened, request, IsStream, LineKinds
  <2>2. Pieces(stream, 0)' = <<>>
    BY NoPieces DEF Pieces
  <2>3. ReadUpTo(Answer, got)'
    BY <2>1, <2>2 DEF ReadUpTo, Answer
  <2>4. full' \in Seq(Piece) /\ got' \in 0 .. Len(stream'.lines)
    BY <2>1, LenProperties DEF IsStream
  <2>. QED BY <1>1, <2>1, <2>3, <2>4 DEF BrainInv, AnswerIsOfOneAttempt, IsStream
<1>7. ASSUME NEW s \in Streams, RespondWhole(s) PROVE BrainInv'
  <2>1. /\ stream' = s /\ got' = Len(s.lines) /\ full' = Pieces(s, Len(s.lines)) /\ phase' = "ok"
        /\ brain' = brain /\ attempt' = attempt /\ IsStream(s) /\ Len(s.lines) \in Nat
    BY <1>7, BrainAssumption, LenProperties DEF RespondWhole, request, IsStream, LineKinds
  <2>2. usage' \in Nat
    <3>1. \/ usage' = 0
          \/ usage' \in 1 .. Len(s.lines)
      BY <1>7 DEF RespondWhole
    <3>. QED BY <2>1, <3>1
  <2>3. full' \in Seq(Piece)
    BY <1>1, <2>1, PiecesAreASeq
  <2>4. full' = Pieces(stream, got)'
    BY <2>1 DEF Pieces
  <2>. QED BY <1>1, <2>1, <2>2, <2>3, <2>4 DEF BrainInv, AnswerIsOfOneAttempt, IsStream
<1>8. ASSUME NEW k \in Nat, NEW h \in BOOLEAN, Chunk(k, h) PROVE BrainInv'
  <2>. DEFINE a == WholeLines(k)
  <2>1. /\ phase = "reading" /\ got + k <= n /\ got' = got + k /\ UNCHANGED <<brain, attempt, stream>>
        /\ full' = a.full /\ usage' = a.usage /\ phase' = IF a.over THEN "ok" ELSE "reading"
    <3>. DEFINE e == IF stream.open THEN 1 ELSE 0
    <3>1. e \in {0, 1}
      OBVIOUS
    <3>2. got + k <= n - e
      BY <1>8 DEF Chunk
    <3>. HIDE DEF e
    <3>3. got + k <= n
      BY <1>1, <3>1, <3>2
    <3>. QED BY <1>8, <3>3 DEF Chunk, request
  <2>2. a \in Partial /\ ReadUpTo(a, got + k)
    BY <1>1, <2>1, WholeLinesAreRead
  <2>. HIDE DEF a
  <2>3. full' \in Seq(Piece) /\ usage' \in Nat /\ got' \in 0 .. n
    BY <1>1, <2>1, <2>2 DEF Partial
  <2>4. CASE a.over
    <3>1. PICK j \in 1 .. got + k : FirstDone(j) /\ a.full = Pieces(stream, j)
      BY <2>2, <2>4 DEF ReadUpTo
    <3>2. phase' = "ok" /\ brain = "cloud"
      BY <2>1, <2>2, <2>4 DEF ReadUpTo
    <3>3. AnswerIsOfOneAttempt'
      <4>1. \A i : Pieces(stream, i)' = Pieces(stream, i)
        BY <2>1 DEF Pieces
      <4>2. full' = Pieces(stream, j)' /\ j \in 1 .. got'
        BY <2>1, <3>1, <4>1
      <4>. QED BY <2>1, <3>1, <3>2, <4>2 DEF AnswerIsOfOneAttempt, FirstDone
    <3>. QED BY <1>1, <2>1, <2>3, <3>2, <3>3 DEF BrainInv, IsStream
  <2>5. CASE ~a.over
    <3>1. phase' = "reading"
      BY <2>1, <2>5
    <3>2. ReadUpTo(Answer, got)'
      BY <2>1, <2>2, <2>5 DEF ReadUpTo, Answer, Pieces, FirstDone
    <3>. QED BY <1>1, <2>1, <2>3, <3>1, <3>2 DEF BrainInv, IsStream, AnswerIsOfOneAttempt
  <2>. QED BY <2>4, <2>5
<1>9. CASE EndOfBody
  <2>. DEFINE k == LeftOver
              a == WholeLines(k)
  <2>1. /\ phase = "reading" /\ UNCHANGED <<brain, attempt, stream, got, half>>
        /\ full' = a.full /\ usage' = a.usage /\ phase' = "ok" /\ LeftOver' = k
    BY <1>9 DEF EndOfBody, request, LeftOver
  <2>2. k \in {0, 1} /\ got + k <= n /\ (k = 1 => brain # "cloud")
    BY <1>1 DEF LeftOver
  <2>. HIDE DEF k
  <2>3. a \in Partial /\ ReadUpTo(a, got + k)
    BY <1>1, <2>1, <2>2, WholeLinesAreRead
  <2>. HIDE DEF a
  <2>4. full' \in Seq(Piece) /\ usage' \in Nat
    BY <2>1, <2>3 DEF Partial
  <2>5. Pieces(stream, got)' = Pieces(stream, got)
    BY <2>1 DEF Pieces
  <2>6. AnswerIsOfOneAttempt'
    <3>1. CASE a.over
      <4>1. PICK j \in 1 .. got + k : FirstDone(j) /\ a.full = Pieces(stream, j)
        BY <2>3, <3>1 DEF ReadUpTo
      <4>2. brain = "cloud" /\ k = 0 /\ got + k = got
        BY <1>1, <2>2, <2>3, <3>1 DEF ReadUpTo
      <4>3. \A i : Pieces(stream, i)' = Pieces(stream, i)
        BY <2>1 DEF Pieces
      <4>4. full' = Pieces(stream, j)' /\ j \in 1 .. got'
        BY <2>1, <4>1, <4>2, <4>3
      <4>. QED BY <2>1, <4>1, <4>2, <4>4 DEF AnswerIsOfOneAttempt, FirstDone
    <3>2. CASE ~a.over /\ k = 0
      <4>1. a.full = Pieces(stream, got)
        BY <1>1, <2>3, <3>2, got + 0 = got DEF ReadUpTo
      <4>. QED BY <2>1, <2>5, <4>1 DEF AnswerIsOfOneAttempt
    <3>3. CASE ~a.over /\ k = 1
      <4>1. a.full = Pieces(stream, got + 1)
        BY <2>3, <3>3 DEF ReadUpTo
      <4>2. a.full = Pieces(stream, got) \/ a.full = Append(Pieces(stream, got), <<attempt, got + 1>>)
        BY <1>1, <4>1, NextPiece
      <4>. QED BY <2>1, <2>5, <3>3, <4>2 DEF AnswerIsOfOneAttempt
    <3>. QED BY <2>2, <3>1, <3>2, <3>3
  <2>. QED BY <1>1, <2>1, <2>4, <2>6 DEF BrainInv, IsStream
<1>10. \A k \in 0 .. n : k \in Nat
  BY <1>1
<1>. HIDE DEF n
<1>11. CASE Network
  BY <1>4, <1>6, <1>7, <1>8, <1>9, <1>10, <1>11 DEF Network, n
<1>12. CASE Aborted
  BY <1>4, <1>12 DEF Aborted
<1>. QED BY <1>2, <1>4, <1>5, <1>11, <1>12 DEF BrainNext

(* Whatever the streams carry and wherever they break, every attempt of    *)
(* cloud.js (think) and local.js starts with an empty answer, and the      *)
(* answer it ends with is the pieces of that attempt alone.                *)
THEOREM AnswersAreOfOneAttempt == BrainSpec => []AnswerIsOfOneAttempt
BY BrainStarts, BrainStepKeeps, PTL DEF BrainSpec, BrainInv
-----------------------------------------------------------------------------
LEMMA BlockSizeIsPositive ==
  ASSUME NEW c \in Ranges
  PROVE  BlockSize(c) \in Nat \ {0}
<1>. DEFINE k == Width[c.version] - c.bits
            V == Nat \ {0}
            step == [v \in (1 .. k) \X V |-> 2 * v[2]]
            Body(f) == [n \in 0 .. k |-> IF n = 0 THEN 1 ELSE 2 * f[n - 1]]
            scan == CHOOSE f : f = Body(f)
<1>1. k \in Nat
  <2>1. Width[c.version] \in Nat /\ c.bits \in 0 .. Width[c.version]
    BY FetchAssumption
  <2>. QED BY <2>1
<1>. HIDE DEF k
<1>2. 1 \in V /\ step \in [(1 .. k) \X V -> V]
  <2>1. \A v \in V : 2 * v \in V
    OBVIOUS
  <2>2. 1 \in V
    OBVIOUS
  <2>. HIDE DEF V
  <2>. QED BY <2>1, <2>2
<1>. HIDE DEF step, V
<1>3. PICK g : Computes(g, V, k, 1, step)
  BY <1>1, <1>2, StepByStep
<1>4. ASSUME NEW i \in 1 .. k PROVE g[i] = 2 * g[i - 1]
  <2>1. <<i, g[i - 1]>> \in (1 .. k) \X V
    <3>1. i - 1 \in 0 .. k
      BY <1>1
    <3>. QED BY <1>3, <3>1 DEF Computes
  <2>. QED BY <1>3, <2>1 DEF Computes, step
<1>5. g = Body(g)
  <2>1. ASSUME NEW i \in 0 .. k PROVE g[i] = IF i = 0 THEN 1 ELSE 2 * g[i - 1]
    <3>1. i = 0 \/ i \in 1 .. k
      BY <1>1
    <3>. QED BY <1>3, <1>4, <3>1 DEF Computes
  <2>. QED BY <1>3, <2>1 DEF Computes
<1>6. scan = Body(scan)
  BY <1>5
<1>7. BlockSize(c) = scan[k]
  BY DEF BlockSize, scan, k
<1>. HIDE DEF scan
<1>8. scan \in [0 .. k -> V]
  <2>1. scan = [i \in 0 .. k |-> scan[i]] /\ scan[0] \in V
    BY <1>1, <1>2, <1>6
  <2>2. ASSUME NEW i \in 1 .. k, scan[i - 1] \in V PROVE scan[i] \in V
    <3>1. scan[i] = 2 * scan[i - 1]
      <4>1. i \in 0 .. k /\ i # 0
        BY <1>1
      <4>. QED BY <1>6, <4>1
    <3>. QED BY <2>2, <3>1 DEF V
  <2>. QED BY <1>1, <2>1, <2>2, StepsStay
<1>9. scan[k] \in V
  BY <1>1, <1>8
<1>. QED BY <1>7, <1>9 DEF V

(* An address that shares its prefix with a range is within its bounds.    *)
LEMMA PrefixIsBlocked ==
  ASSUME NEW ip \in Addr, NEW c \in Ranges, InRange(ip, c)
  PROVE  IsBlockedIp(ip)
<1>. DEFINE s == BlockSize(c)
            q == c.int \div s
            r == RangeOf(c)
<1>1. s \in Nat \ {0} /\ c.int \in Nat /\ ip.int \in Nat
  BY BlockSizeIsPositive, FetchAssumption
<1>2. ip.version = c.version /\ ip.int \div s = q
  BY DEF InRange
<1>. HIDE DEF s
<1>3. q \in Nat
  BY <1>1
<1>4. q * s <= ip.int /\ ip.int < q * s + s
  <2>1. ASSUME NEW a \in Nat, NEW b \in Nat \ {0}
        PROVE  (a \div b) * b <= a /\ a < (a \div b) * b + b
    OBVIOUS
  <2>. HIDE DEF q
  <2>. QED BY <1>1, <1>2, <2>1
<1>5. r.version = c.version /\ r.first = q * s /\ r.last = q * s + s - 1
  BY DEF RangeOf, BlockStart, s
<1>. HIDE DEF q, r
<1>6. q * s \in Nat
  BY <1>1, <1>3
<1>7. ip.int >= r.first /\ ip.int <= r.last
  BY <1>1, <1>4, <1>5, <1>6
<1>. QED BY <1>2, <1>5, <1>7 DEF IsBlockedIp, r

(* The bytes of the first chunks, of ever more of them.                    *)
SumsUp(f, s) == /\ f \in [0 .. Len(s) -> Nat] /\ f[0] = 0
                /\ \A i \in 1 .. Len(s) : f[i] = f[i - 1] + s[i]

LEMMA BytesAreASum ==
  ASSUME NEW s \in Seq(Nat)
  PROVE  \E f : SumsUp(f, s) /\ Bytes(s) = f[Len(s)]
<1>. DEFINE m == Len(s)
            step == [v \in (1 .. m) \X Nat |-> v[2] + s[v[1]]]
            Body(f) == [n \in 0 .. m |-> IF n = 0 THEN 0 ELSE f[n - 1] + s[n]]
            scan == CHOOSE f : f = Body(f)
<1>1. m \in Nat /\ \A i \in 1 .. m : s[i] \in Nat
  BY LenProperties
<1>. HIDE DEF m
<1>2. step \in [(1 .. m) \X Nat -> Nat]
  BY <1>1
<1>. HIDE DEF step
<1>3. PICK g : Computes(g, Nat, m, 0, step)
  BY <1>1, <1>2, StepByStep
<1>4. ASSUME NEW i \in 1 .. m PROVE g[i] = g[i - 1] + s[i]
  <2>1. <<i, g[i - 1]>> \in (1 .. m) \X Nat
    <3>1. i - 1 \in 0 .. m
      BY <1>1
    <3>. QED BY <1>3, <3>1 DEF Computes
  <2>. QED BY <1>3, <2>1 DEF Computes, step
<1>5. g = Body(g)
  <2>1. ASSUME NEW i \in 0 .. m PROVE g[i] = IF i = 0 THEN 0 ELSE g[i - 1] + s[i]
    <3>1. i = 0 \/ i \in 1 .. m
      BY <1>1
    <3>. QED BY <1>3, <1>4, <3>1 DEF Computes
  <2>. QED BY <1>3, <2>1 DEF Computes
<1>6. scan = Body(scan)
  BY <1>5
<1>7. Bytes(s) = scan[m]
  BY DEF Bytes, scan, m
<1>. HIDE DEF scan
<1>8. scan[0] = 0 /\ \A i \in 1 .. m : scan[i] = scan[i - 1] + s[i]
  <2>1. 0 \in 0 .. m /\ \A i \in 1 .. m : i \in 0 .. m /\ i # 0
    BY <1>1
  <2>. QED BY <1>6, <2>1
<1>9. scan \in [0 .. m -> Nat]
  <2>1. scan = [i \in 0 .. m |-> scan[i]] /\ scan[0] \in Nat
    BY <1>6, <1>8
  <2>2. ASSUME NEW i \in 1 .. m, scan[i - 1] \in Nat PROVE scan[i] \in Nat
    BY <1>1, <1>8, <2>2
  <2>. QED BY <1>1, <2>1, <2>2, StepsStay
<1>. QED BY <1>7, <1>8, <1>9 DEF SumsUp, m

LEMMA BytesFacts ==
  ASSUME NEW s \in Seq(Nat)
  PROVE  Bytes(s) \in Nat /\ (Len(s) = 0 => Bytes(s) = 0)
<1>1. PICK f : SumsUp(f, s) /\ Bytes(s) = f[Len(s)]
  BY BytesAreASum
<1>. QED BY <1>1, LenProperties DEF SumsUp

LEMMA BytesOfOneMore ==
  ASSUME NEW s \in Seq(Nat), NEW n \in Nat
  PROVE  Bytes(Append(s, n)) = Bytes(s) + n
<1>. DEFINE t == Append(s, n)
            m == Len(s)
<1>1. /\ t \in Seq(Nat) /\ Len(t) = m + 1 /\ m \in Nat
      /\ \A i \in 1 .. m : t[i] = s[i]
      /\ t[m + 1] = n
  BY AppendProperties, LenProperties
<1>. HIDE DEF t
<1>2. PICK f : SumsUp(f, s) /\ Bytes(s) = f[m]
  BY BytesAreASum
<1>3. PICK g : SumsUp(g, t) /\ Bytes(t) = g[m + 1]
  BY <1>1, BytesAreASum
<1>. DEFINE S == {i \in 0 .. m : g[i] = f[i]}
<1>4. 0 \in S
  BY <1>1, <1>2, <1>3 DEF SumsUp
<1>5. ASSUME NEW i \in 1 .. m, i - 1 \in S PROVE i \in S
  <2>1. i \in 1 .. m + 1 /\ i \in 0 .. m
    BY <1>1
  <2>2. f[i] = f[i - 1] + s[i]
    BY <1>2 DEF SumsUp
  <2>3. g[i] = g[i - 1] + t[i]
    BY <1>1, <1>3, <2>1 DEF SumsUp
  <2>. QED BY <1>1, <1>5, <2>1, <2>2, <2>3
<1>6. m \in S
  <2>1. 0 .. m \subseteq S
    <3>. HIDE DEF S, m
    <3>. QED BY <1>1, <1>4, <1>5, UpTo
  <2>. QED BY <1>1, <2>1
<1>7. g[m + 1] = g[m + 1 - 1] + t[m + 1] /\ m + 1 - 1 = m
  <2>1. m + 1 \in 1 .. m + 1
    BY <1>1
  <2>. QED BY <1>1, <1>3, <2>1 DEF SumsUp
<1>. QED BY <1>1, <1>2, <1>3, <1>6, <1>7 DEF t
-----------------------------------------------------------------------------
(* The addresses a request may go to were all checked, and what was read   *)
(* of an answer fits under the cap.                                        *)
FetchInv ==
  /\ DOMAIN fetch = {"at", "host", "ips", "to", "left", "next", "redirects"}
  /\ fetch.at \in {"connect", "waiting", "reading"} => \A ip \in fetch.ips : ip \in Addr /\ ~IsBlockedIp(ip)
  /\ Awaited => fetch.to \in fetch.ips
  /\ sent \in Seq(Nat)
  /\ fetch.at = "waiting" => Len(sent) = 0
  /\ fetch.at = "reading" => Bytes(sent) <= MaxBytes
  /\ BodyIsWholeOrMarked

LEMMA FetchStarts == FetchInit => FetchInv
BY DEF FetchInit, FetchInv, Awaited, BodyIsWholeOrMarked

LEMMA CheckedHoldsNoRange == FetchInv => RequestsGoWhereChecked
BY PrefixIsBlocked DEF FetchInv, RequestsGoWhereChecked, Awaited

LEMMA LookupsAreChecked ==
  ASSUME NEW h, NEW ips \in ResolvedAndChecked(h)
  PROVE  \A ip \in ips : ip \in Addr /\ ~IsBlockedIp(ip)
<1>1. ips \in Lookup(h) /\ \A ip \in ips : ~IsBlockedIp(ip)
  BY DEF ResolvedAndChecked
<1>2. ips \subseteq Addr
  BY <1>1, FetchAssumption DEF Lookup
<1>. QED BY <1>1, <1>2

LEMMA FetchStepKeeps == FetchInv /\ [FetchNext]_fetchVars => FetchInv'
<1>. SUFFICES ASSUME FetchInv, [FetchNext]_fetchVars PROVE FetchInv'
  OBVIOUS
<1>. DEFINE Fields == {"at", "host", "ips", "to", "left", "next", "redirects"}
<1>1. /\ DOMAIN fetch = Fields /\ sent \in Seq(Nat) /\ MaxBytes \in Nat
      /\ Len(sent) \in Nat /\ Bytes(sent) \in Nat
  BY FetchAssumption, BytesFacts, LenProperties DEF FetchInv
<1>2. CASE UNCHANGED fetchVars
  BY <1>2 DEF fetchVars, FetchInv, Awaited, BodyIsWholeOrMarked
<1>3. ASSUME DOMAIN fetch' = Fields, fetch'.at \notin {"connect", "waiting", "reading"},
             fetch'.at = "over" => result' = Refused, sent' \in Seq(Nat)
      PROVE  FetchInv'
  BY <1>3 DEF FetchInv, Awaited, BodyIsWholeOrMarked, Refused
<1>4. ASSUME FetchFails PROVE FetchInv'
  <2>1. DOMAIN fetch' = Fields /\ fetch'.at = "over" /\ result' = Refused /\ sent' \in Seq(Nat)
    BY <1>1, <1>4 DEF FetchFails
  <2>. QED BY <1>3, <2>1
<1>5. ASSUME NEW h \in Host, FetchUrl(h) PROVE FetchInv'
  <2>1. CASE FetchFails
    BY <1>4, <2>1
  <2>2. CASE fetch' = [fetch EXCEPT !.at = "resolve", !.host = h] /\ UNCHANGED sent
    <3>1. DOMAIN fetch' = Fields /\ fetch'.at = "resolve" /\ sent' \in Seq(Nat)
      BY <1>1, <2>2
    <3>. QED BY <1>3, <3>1
  <2>. QED BY <1>5, <2>1, <2>2 DEF FetchUrl
<1>6. CASE Resolve
  <2>1. CASE FetchFails
    BY <1>4, <2>1
  <2>2. ASSUME NEW ips \in ResolvedAndChecked(fetch.host),
               fetch' = [fetch EXCEPT !.at = "connect", !.ips = ips], UNCHANGED <<sent, result>>
        PROVE  FetchInv'
    <3>1. DOMAIN fetch' = Fields /\ fetch'.at = "connect" /\ fetch'.ips = ips
      BY <1>1, <2>2
    <3>2. \A ip \in ips : ip \in Addr /\ ~IsBlockedIp(ip)
      BY LookupsAreChecked
    <3>. QED BY <1>1, <2>2, <3>1, <3>2 DEF FetchInv, Awaited, BodyIsWholeOrMarked
  <2>. QED BY <1>6, <2>1, <2>2 DEF Resolve
<1>7. CASE Connect
  <2>1. PICK ip \in fetch.ips :
          fetch' = [fetch EXCEPT !.at = "waiting", !.to = ip, !.left = IF Timeout > spent THEN Timeout - spent ELSE 1]
    BY <1>7 DEF Connect, AddressOf
  <2>2. /\ DOMAIN fetch' = Fields /\ fetch'.at = "waiting" /\ fetch'.ips = fetch.ips /\ fetch'.to = ip
        /\ sent' = <<>> /\ fetch.at = "connect"
    BY <1>1, <1>7, <2>1 DEF Connect
  <2>. QED BY <2>1, <2>2 DEF FetchInv, Awaited, BodyIsWholeOrMarked
<1>8. ASSUME NEW a, NEW h, Responded(a, h) PROVE FetchInv'
  <2>1. CASE FetchFails
    BY <1>4, <2>1
  <2>2. CASE fetch' = [fetch EXCEPT !.at = "reading", !.next = h] /\ UNCHANGED <<sent, result>>
    <3>1. /\ DOMAIN fetch' = Fields /\ fetch'.at = "reading" /\ fetch'.ips = fetch.ips /\ fetch'.to = fetch.to
          /\ fetch.at = "waiting" /\ sent' = sent
      BY <1>1, <1>8, <2>2 DEF Responded
    <3>2. Bytes(sent') <= MaxBytes
      <4>1. Bytes(sent) = 0
        BY <1>1, <3>1, BytesFacts DEF FetchInv
      <4>. QED BY <1>1, <3>1, <4>1
    <3>. QED BY <1>1, <3>1, <3>2 DEF FetchInv, Awaited, BodyIsWholeOrMarked
  <2>. QED BY <1>8, <2>1, <2>2 DEF Responded
(* The end of a hop: what was read before it is the body, or the loop goes *)
(* on.                                                                     *)
<1>9. ASSUME NEW cut \in BOOLEAN, fetch.at = "reading", HopEnds(sent, cut), sent' \in Seq(Nat),
             sent = SubSeq(sent', 1, Len(sent)), ~cut => sent' = sent
      PROVE  FetchInv'
  <2>1. CASE fetch.next # NoHost
    <3>1. \/ fetch' = [fetch EXCEPT !.at = "over"] /\ result' = Refused
          \/ fetch' = [fetch EXCEPT !.at = "recheck", !.host = fetch.next, !.redirects = OneMore]
      BY <1>9, <2>1 DEF HopEnds, Redirected
    <3>2. /\ DOMAIN fetch' = Fields /\ fetch'.at \in {"over", "recheck"}
          /\ fetch'.at = "over" => result' = Refused
      BY <1>1, <3>1
    <3>. QED BY <1>3, <1>9, <3>2
  <2>2. CASE fetch.next = NoHost
    <3>1. /\ fetch' = [fetch EXCEPT !.at = "over"]
          /\ result' = [ok |-> TRUE, body |-> sent, truncated |-> cut \/ Bytes(sent) >= MaxBytes]
      BY <1>9, <2>2 DEF HopEnds, FetchAnswers
    <3>2. DOMAIN fetch' = Fields /\ fetch'.at = "over"
      BY <1>1, <3>1
    <3>3. result'.body = sent /\ (~result'.truncated => ~cut)
      BY <3>1
    <3>4. Bytes(sent) <= MaxBytes
      BY <1>9 DEF FetchInv
    <3>. QED BY <1>9, <3>2, <3>3, <3>4 DEF FetchInv, Awaited, BodyIsWholeOrMarked
  <2>. QED BY <2>1, <2>2
<1>10. ASSUME NEW n \in Nat, DataArrives(n) PROVE FetchInv'
  <2>1. /\ sent' = Append(sent, n) /\ sent' \in Seq(Nat) /\ Bytes(sent') = Bytes(sent) + n
        /\ Len(sent') = Len(sent) + 1 /\ fetch.at = "reading"
    BY <1>1, <1>10, AppendProperties, BytesOfOneMore DEF DataArrives
  <2>2. CASE Bytes(sent) + n > MaxBytes
    <3>1. sent = SubSeq(sent', 1, Len(sent))
      <4>1. <<n>> \in Seq(Nat) /\ sent' = sent \o <<n>>
        BY <1>1, <2>1, AppendIsConcat
      <4>. QED BY <1>1, <4>1, PrefixOfExtension DEF IsPrefix
    <3>. QED BY <1>1, <1>9, <1>10, <2>1, <2>2, <3>1 DEF DataArrives
  <2>3. CASE ~(Bytes(sent) + n > MaxBytes)
    <3>1. UNCHANGED <<fetch, result>> /\ Bytes(sent') <= MaxBytes
      BY <1>1, <1>10, <2>1, <2>3 DEF DataArrives
    <3>. QED BY <1>1, <2>1, <3>1 DEF FetchInv, Awaited, BodyIsWholeOrMarked
  <2>. QED BY <2>2, <2>3
<1>11. CASE DataEnds
  <2>1. sent = SubSeq(sent, 1, Len(sent))
    BY <1>1
  <2>. QED BY <1>1, <1>9, <1>11, <2>1 DEF DataEnds
<1>12. CASE Recheck
  <2>1. CASE FetchFails
    BY <1>4, <2>1
  <2>2. CASE fetch' = [fetch EXCEPT !.at = "resolve"] /\ UNCHANGED sent
    <3>1. DOMAIN fetch' = Fields /\ fetch'.at = "resolve" /\ sent' \in Seq(Nat)
      BY <1>1, <2>2
    <3>. QED BY <1>3, <3>1
  <2>. QED BY <1>12, <2>1, <2>2 DEF Recheck
<1>13. CASE ConnectionBreaks \/ RequestTimesOut
  BY <1>4, <1>13 DEF ConnectionBreaks, RequestTimesOut
<1>14. CASE TimePasses
  <2>1. /\ DOMAIN fetch' = Fields /\ fetch'.at = fetch.at /\ fetch'.ips = fetch.ips /\ fetch'.to = fetch.to
        /\ UNCHANGED <<sent, result>>
    BY <1>1, <1>14 DEF TimePasses
  <2>. QED BY <1>1, <2>1 DEF FetchInv, Awaited, BodyIsWholeOrMarked
<1>15. \A n \in 1 .. 2 : n \in Nat
  OBVIOUS
<1>. HIDE DEF Fields
<1>. QED BY <1>2, <1>5, <1>6, <1>7, <1>8, <1>10, <1>11, <1>12, <1>13, <1>14, <1>15 DEF FetchNext

(* net.js connects only to addresses its block list was asked about, at    *)
(* every hop of a redirect, and never hands over more than its limit.      *)
THEOREM FetchesAreChecked == FetchSpec => [](RequestsGoWhereChecked /\ BodyIsWholeOrMarked)
<1>1. FetchInv => RequestsGoWhereChecked /\ BodyIsWholeOrMarked
  BY CheckedHoldsNoRange DEF FetchInv
<1>. QED BY <1>1, FetchStarts, FetchStepKeeps, PTL DEF FetchSpec
-----------------------------------------------------------------------------
(* The lines that were looked at have all arrived, and the call that is    *)
(* awaited is that of the last of them.                                    *)
Words == {"parse error", "invalid request", "invalid params", "no such method", "result", "none",
          "isError", "internal error"}
Replies == [id : Nat, answer : Words]
LinesAreTaken ==
  /\ transcript \in Seq(Kinds) /\ out \in Seq(Replies)
  /\ arrived \in 0 .. 2 * Len(transcript) /\ taken \in 0 .. arrived \div 2
  /\ calling \in {0, taken} /\ (calling # 0 => transcript[calling] = "call")
McpInv == LinesAreTaken /\ AnswersAreInOrder

DueLines == {k \in 1 .. taken : Owed(k) /\ k # calling}

LEMMA McpStarts == McpInit => McpInv
<1>. SUFFICES ASSUME McpInit PROVE McpInv
  OBVIOUS
<1>1. transcript \in Seq(Kinds) /\ Len(transcript) \in Nat /\ out = <<>> /\ Len(out) = 0
  BY McpAssumption DEF McpInit
<1>2. LinesAreTaken
  BY <1>1 DEF LinesAreTaken, McpInit
<1>3. Cardinality(DueLines) = 0
  BY FS_EmptySet DEF DueLines, McpInit
<1>. QED BY <1>1, <1>2, <1>3 DEF McpInv, AnswersAreInOrder, DueLines

(* A line that is answered is the last of those that are owed an answer.   *)
LEMMA AnAnswerIsDue ==
  ASSUME NEW n \in Nat, NEW k \in 1 .. n, NEW K \in SUBSET (1 .. n), \A j \in K : j < k,
         out \in Seq(Replies), Len(out) = Cardinality(K), \A i \in 1 .. Len(out) : out[i].id = IdOf(NthOf(K, i)),
         NEW a \in Words, Answered(k, a)
  PROVE  /\ out' \in Seq(Replies) /\ Len(out') = Cardinality(K \cup {k})
         /\ \A i \in 1 .. Len(out') : out'[i].id = IdOf(NthOf(K \cup {k}, i))
<1>. DEFINE r == [id |-> IdOf(k), answer |-> a]
            m == Cardinality(K)
<1>1. /\ out \in Seq(Replies) /\ Len(out) = m
      /\ \A i \in 1 .. m : out[i].id = IdOf(NthOf(K, i))
  OBVIOUS
<1>2. r \in Replies /\ out' = Append(out, r) /\ r.id = IdOf(k)
  <2>1. IdOf(k) \in Nat
    BY DEF IdOf
  <2>. QED BY <2>1 DEF Answered, Replies
<1>. HIDE DEF r
<1>3. /\ out' \in Seq(Replies) /\ Len(out') = m + 1
      /\ \A i \in 1 .. m : out'[i] = out[i]
      /\ out'[m + 1] = r
  BY <1>1, <1>2, AppendProperties
<1>. DEFINE L == K \cup {k}
<1>4. /\ m \in Nat /\ Cardinality(L) = m + 1
      /\ \A i \in 1 .. m : NthOf(L, i) = NthOf(K, i)
      /\ NthOf(L, m + 1) = k
  <2>1. L = K \cup {k}
    OBVIOUS
  <2>. HIDE DEF L
  <2>2. ASSUME NEW i \in 1 .. m PROVE NthOf(L, i) = NthOf(K, i)
    BY <2>1, NthStays
  <2>. QED BY <2>1, <2>2, NthLast
<1>. HIDE DEF L, m
<1>5. ASSUME NEW i \in 1 .. m + 1 PROVE out'[i].id = IdOf(NthOf(L, i))
  <2>1. i \in 1 .. m \/ i = m + 1
    BY <1>4
  <2>. QED BY <1>1, <1>2, <1>3, <1>4, <2>1
<1>. QED BY <1>3, <1>4, <1>5 DEF L

LEMMA McpStepKeeps == McpInv /\ [McpNext]_mcpVars => McpInv'
<1>. SUFFICES ASSUME McpInv, [McpNext]_mcpVars PROVE McpInv'
  OBVIOUS
<1>. USE DEF LinesAreTaken
<1>. DEFINE n == Len(transcript)
<1>1. /\ transcript \in Seq(Kinds) /\ out \in Seq(Replies) /\ n \in Nat
      /\ arrived \in 0 .. 2 * n /\ taken \in 0 .. arrived \div 2 /\ taken \in Nat
      /\ calling \in {0, taken} /\ (calling # 0 => transcript[calling] = "call")
      /\ Len(out) = Cardinality(DueLines) /\ \A i \in 1 .. Len(out) : out[i].id = IdOf(NthOf(DueLines, i))
      /\ \A k \in 1 .. n : transcript[k] \in Kinds
  BY LenProperties DEF McpInv, AnswersAreInOrder, DueLines
<1>. HIDE DEF n
<1>8. taken \in 0 .. n
  <2>1. arrived \div 2 <= n
    BY <1>1
  <2>. QED BY <1>1, <2>1
<1>2. CASE UNCHANGED mcpVars
  BY <1>2 DEF mcpVars, McpInv, AnswersAreInOrder, Owed, IdOf
<1>3. ASSUME UNCHANGED <<transcript, out>>, DueLines' = DueLines PROVE AnswersAreInOrder'
  BY <1>1, <1>3 DEF AnswersAreInOrder, DueLines, IdOf
<1>4. ASSUME NEW h \in 1 .. 3, ChunkArrives(h) PROVE McpInv'
  <2>1. DueLines' = DueLines
    BY <1>4 DEF ChunkArrives, DueLines, Owed
  <2>2. UNCHANGED <<transcript, taken, calling, out>> /\ arrived' \in 0 .. 2 * n /\ arrived <= arrived'
    BY <1>1, <1>4 DEF ChunkArrives, n
  <2>3. taken \in 0 .. arrived' \div 2
    <3>1. ASSUME NEW i \in Nat, NEW j \in Nat, i <= j PROVE i \div 2 <= j \div 2
      BY <3>1
    <3>2. arrived \div 2 <= arrived' \div 2
      <4>1. arrived \in Nat /\ arrived' \in Nat
        BY <1>1, <2>2
      <4>. QED BY <2>2, <3>1, <4>1
    <3>3. arrived \div 2 \in Nat /\ arrived' \div 2 \in Nat
      <4>1. arrived \in Nat /\ arrived' \in Nat
        BY <1>1, <2>2
      <4>2. \A i \in Nat : i \div 2 \in Nat
        OBVIOUS
      <4>. QED BY <4>1, <4>2
    <3>. DEFINE before == arrived \div 2
                after == arrived' \div 2
    <3>4. before \in Nat /\ after \in Nat /\ before <= after /\ taken \in 0 .. before
      BY <1>1, <3>2, <3>3
    <3>. HIDE DEF before, after
    <3>5. taken \in 0 .. after
      BY <3>4
    <3>. QED BY <3>5 DEF after
  <2>. QED BY <1>1, <1>3, <2>1, <2>2, <2>3 DEF McpInv, n
<1>5. ASSUME TakeLine PROVE McpInv'
  <2>. DEFINE k == taken + 1
  <2>1. /\ k \in 1 .. n /\ k \in 0 .. arrived \div 2 /\ calling = 0 /\ UNCHANGED <<transcript, arrived>>
        /\ taken' = k /\ transcript[k] \in Kinds
    BY <1>1, <1>5 DEF TakeLine, ReadyForALine
  <2>2. DueLines \in SUBSET (1 .. taken) /\ \A j \in DueLines : j < k
    BY <1>1 DEF DueLines
  <2>3. CASE transcript[k] = "call"
    <3>1. calling' = k /\ UNCHANGED out
      BY <1>5, <2>3 DEF TakeLine
    <3>2. DueLines' = DueLines
      BY <1>1, <2>1, <3>1 DEF DueLines, Owed
    <3>. QED BY <1>1, <1>3, <2>1, <2>3, <3>1, <3>2 DEF McpInv, n
  <2>4. CASE transcript[k] # "call"
    <3>1. calling' = 0
      BY <1>5, <2>1, <2>4 DEF TakeLine
    <3>2. DueLines' = IF Owed(k) THEN DueLines \cup {k} ELSE DueLines
      BY <1>1, <2>1, <3>1 DEF DueLines, Owed
    <3>3. Owed(k) <=> Immediate(transcript[k]) # "none"
      BY <2>1, <2>4 DEF Owed, Immediate, Kinds
    <3>4. CASE ~Owed(k)
      <4>1. UNCHANGED out
        BY <1>5, <2>4, <3>3, <3>4 DEF TakeLine
      <4>. QED BY <1>1, <1>3, <2>1, <3>1, <3>2, <3>4, <4>1 DEF McpInv, n
    <3>5. CASE Owed(k)
      <4>. DEFINE a == Immediate(transcript[k])
      <4>0. a \in Words
        BY <2>1 DEF Immediate, Kinds, Words
      <4>1. Answered(k, a)
        BY <1>5, <2>1, <2>4, <3>3, <3>5 DEF TakeLine
      <4>. HIDE DEF a
      <4>2. /\ out' \in Seq(Replies) /\ Len(out') = Cardinality(DueLines \cup {k})
            /\ \A i \in 1 .. Len(out') : out'[i].id = IdOf(NthOf(DueLines \cup {k}, i))
        <5>1. DueLines \in SUBSET (1 .. n) /\ k <= n
          BY <1>1, <2>1, <2>2
        <5>. QED BY <1>1, <2>1, <2>2, <4>0, <4>1, <5>1, AnAnswerIsDue
      <4>3. AnswersAreInOrder'
        BY <2>1, <3>2, <3>5, <4>2 DEF AnswersAreInOrder, DueLines, IdOf
      <4>. QED BY <1>1, <2>1, <3>1, <4>2, <4>3 DEF McpInv, n
    <3>. QED BY <3>4, <3>5
  <2>. QED BY <2>3, <2>4
<1>6. ASSUME NEW a \in Words, CallEnds(a) PROVE McpInv'
  <2>1. /\ calling = taken /\ calling # 0 /\ transcript[taken] = "call" /\ Answered(taken, a)
        /\ calling' = 0 /\ UNCHANGED <<transcript, arrived, taken>>
    BY <1>1, <1>6 DEF CallEnds
  <2>0. taken \in 1 .. n
    <3>1. taken # 0
      BY <2>1
    <3>2. n \in Nat /\ taken \in 0 .. n
      BY <1>1, <1>8
    <3>. QED BY <3>1, <3>2
  <2>2. DueLines' = DueLines \cup {taken} /\ DueLines \in SUBSET (1 .. n) /\ \A j \in DueLines : j < taken
    <3>1. \A j \in 1 .. taken : j # 0 /\ (j # taken => j < taken) /\ j \in 1 .. n
      BY <1>1, <2>0
    <3>2. Owed(taken) /\ taken \in 1 .. taken /\ \A j : Owed(j)' = Owed(j)
      BY <2>0, <2>1 DEF Owed
    <3>3. DueLines' = {j \in 1 .. taken : Owed(j) /\ j # 0}
      BY <2>1, <3>2 DEF DueLines
    <3>. QED BY <2>1, <3>1, <3>2, <3>3 DEF DueLines
  <2>3. /\ out' \in Seq(Replies) /\ Len(out') = Cardinality(DueLines \cup {taken})
        /\ \A i \in 1 .. Len(out') : out'[i].id = IdOf(NthOf(DueLines \cup {taken}, i))
    BY <1>1, <2>0, <2>1, <2>2, AnAnswerIsDue
  <2>4. AnswersAreInOrder'
    BY <2>1, <2>2, <2>3 DEF AnswersAreInOrder, DueLines, IdOf
  <2>. QED BY <1>1, <2>1, <2>3, <2>4 DEF McpInv, n
<1>7. CASE InputCloses \/ LoopLeaves
  <2>1. UNCHANGED <<transcript, arrived, taken, calling, out>>
    BY <1>7 DEF InputCloses, LoopLeaves
  <2>2. DueLines' = DueLines
    BY <2>1 DEF DueLines, Owed
  <2>. QED BY <1>1, <1>3, <2>1, <2>2 DEF McpInv, n
<1>. QED BY <1>2, <1>4, <1>5, <1>6, <1>7 DEF McpNext, Words

(* Each line of an MCP client is answered once and in its turn (mcp.js),   *)
(* also when a call of a tool is still awaited as later lines arrive.      *)
THEOREM McpAnswersInOrder == McpSpec => []AnswersAreInOrder
BY McpStarts, McpStepKeeps, PTL DEF McpSpec, McpInv
-----------------------------------------------------------------------------
LEMMA ConsoleStepKeeps == LastGoodStays /\ [ConsoleNext]_consoleVars => LastGoodStays'
<1>. SUFFICES ASSUME LastGoodStays, [ConsoleNext]_consoleVars PROVE LastGoodStays'
  OBVIOUS
<1>1. CASE UNCHANGED consoleVars
  BY <1>1 DEF consoleVars, collectorVars, LastGoodStays
<1>2. ASSUME NEW l \in Loads, LoopFires(l) PROVE LastGoodStays'
  BY <1>2 DEF LoopFires, LastGoodStays
<1>3. ASSUME ChildAnswers \/ ChildFails PROVE LastGoodStays'
  BY <1>3 DEF ChildAnswers, ChildFails, LastGoodStays
<1>4. ASSUME ClockTicks \/ StoresChange PROVE LastGoodStays'
  BY <1>4 DEF ClockTicks, StoresChange, LastGoodStays
<1>5. ASSUME UNCHANGED collectorVars PROVE LastGoodStays'
  BY <1>5 DEF collectorVars, LastGoodStays
<1>. QED BY <1>1, <1>2, <1>3, <1>4, <1>5
     DEF ConsoleNext, FleetAction, ApplyRefresh, MinutePasses, SetPolicyTier, UserEdits

LEMMA StrictIsLeftByHand ==
  ASSUME [ConsoleNext]_consoleVars, policyFile = "strict", policyFile' # "strict"
  PROVE  \E t \in Presets \cup {"none"} : UserEdits(t)
<1>1. CASE UNCHANGED consoleVars
  BY <1>1 DEF consoleVars
<1>2. ASSUME NEW l \in Loads, LoopFires(l) PROVE FALSE
  BY <1>2 DEF LoopFires, gateVars
<1>3. ASSUME ChildAnswers \/ ChildFails \/ ClockTicks \/ StoresChange PROVE FALSE
  BY <1>3 DEF ChildAnswers, ChildFails, ClockTicks, StoresChange, gateVars
<1>4. ASSUME FleetAction \/ ApplyRefresh \/ MinutePasses PROVE FALSE
  BY <1>4 DEF FleetAction, ApplyRefresh, MinutePasses
<1>5. ASSUME NEW t \in Presets, SetPolicyTier(t) PROVE FALSE
  BY <1>5 DEF SetPolicyTier, PolicyGate, FleetDenied
<1>. QED BY <1>1, <1>2, <1>3, <1>4, <1>5 DEF ConsoleNext

(* For any delays and limits: the roster shows what was read last, through *)
(* any failure of the child, and a strict policy is left by no request of  *)
(* the console (fleet-console.js).                                         *)
THEOREM ConsoleAlwaysHolds == ConsoleSpec => ConsoleHolds
<1>1. ConsoleInit => LastGoodStays
  BY DEF ConsoleInit, LastGoodStays
<1>2. [ConsoleNext]_consoleVars
        => [policyFile = "strict" /\ policyFile' # "strict" =>
              \E t \in Presets \cup {"none"} : UserEdits(t)]_consoleVars
  BY StrictIsLeftByHand
<1>. QED BY <1>1, <1>2, ConsoleStepKeeps, PTL DEF ConsoleSpec, ConsoleHolds, StrictStays
-----------------------------------------------------------------------------
(* Whatever the network does, a call of the brain is answered with the     *)
(* pieces of one attempt (cloud.js, local.js), a fetch from an address     *)
(* that was checked, whole or marked as cut (net.js), and the lines of an  *)
(* MCP client in their order (mcp.js).                                     *)
THEOREM AnswersAlwaysHold == BrainSpec /\ FetchSpec /\ McpSpec => []AnswersHold
BY AnswersAreOfOneAttempt, FetchesAreChecked, McpAnswersInOrder, PTL DEF AnswersHold

(* A step of one area is a step of that part and leaves the others alone. *)
LEMMA StepOfAnArea ==
  [AreasNext]_areaVars =>
    /\ [JobsNext]_jobVars /\ [ToolsNext]_toolVars /\ [FlowNext]_flowVars /\ [BrainNext]_brainVars
    /\ [FetchNext]_fetchVars /\ [McpNext]_mcpVars /\ [ConsoleNext]_consoleVars
BY DEF AreasNext, InArea, areaVars

(* Side by side on one device the parts keep their promises, each as if it *)
(* were alone.                                                             *)
THEOREM CallsAlwaysHold ==
  AreasSpec => JobsHold /\ [](ToolCallsHold /\ WorkflowsHold /\ AnswersHold) /\ ConsoleHolds
<1>1. AreasInit => /\ JobInv /\ ToolInv /\ FlowInv /\ BrainInv /\ FetchInv /\ McpInv /\ LastGoodStays
  BY JobsStart, ToolInvStarts, FlowStarts, BrainStarts, FetchStarts, McpStarts
     DEF AreasInit, ConsoleInit, LastGoodStays
<1>2. /\ JobInv => ExitIsTheShells /\ EndedJobHasNoProcess
      /\ ToolInv => PluginsNeedTheOwner /\ AttemptEndsWithItsCall /\ PluginEffectsAreRecorded
      /\ BrainInv => AnswerIsOfOneAttempt
      /\ FetchInv => RequestsGoWhereChecked /\ BodyIsWholeOrMarked
      /\ McpInv => AnswersAreInOrder
  BY CheckedHoldsNoRange
     DEF JobInv, JobStands, Ended, ExitIsTheShells, EndedJobHasNoProcess, ToolInv, BrainInv, FetchInv, McpInv
<1>3. JobInv /\ [JobsNext]_jobVars
        => [\A j \in Job : jobStore[j].status \in {"done", "error", "killed"} /\ jobStore'[j] # NoJob
               => jobStore'[j] = jobStore[j] /\ procs'[j] \subseteq procs[j]]_jobVars
  BY EndOfOneStands
<1>4. [ConsoleNext]_consoleVars
        => [policyFile = "strict" /\ policyFile' # "strict" =>
              \E t \in Presets \cup {"none"} : UserEdits(t)]_consoleVars
  BY StrictIsLeftByHand
<1>. QED BY <1>1, <1>2, <1>3, <1>4, StepOfAnArea, FlowInvIsEnough, JobStepKeeps, ToolStepKeeps,
            FlowStepKeeps, BrainStepKeeps, FetchStepKeeps, McpStepKeeps, ConsoleStepKeeps, PTL
         DEF AreasSpec, JobsHold, EndOfAJobStands, ToolCallsHold, WorkflowsHold, AnswersHold,
             ConsoleHolds, StrictStays
=============================================================================
