---------------------------- MODULE AgentTasks -----------------------------
(***************************************************************************)
(* How a task travels through the daemon: apps/desktop/src/agent.js polls  *)
(* the cloud, claims what is pending, queues it (TaskQueue), runs it, puts *)
(* the outcome in the run ledger and reports it.                           *)
(*                                                                         *)
(* The cloud is external: it lists tasks as pending, grants claims and     *)
(* takes results.  Whatever the daemon awaits may take any time, requests  *)
(* and replies may be lost, and the process may crash and start again.     *)
(***************************************************************************)
EXTENDS TaskQueue

CONSTANTS
  Window,    \* 60 s, in instants: a run id is not queued again within it
  MaxTries,  \* how often a result is posted
  MaxClock,  \* bound: instants
  Scenarios  \* the sets of faults a behaviour may meet: subsets of FaultKinds

FaultKinds == {"request", "reply", "garbled", "crash", "budget", "relist", "throw"}
ASSUME AgentAssumption ==
  /\ {Window, MaxTries, MaxClock} \subseteq Nat \ {0}
  /\ Scenarios \subseteq SUBSET FaultKinds
  /\ Faulty = {}

VARIABLES
  faults,   \* what may go wrong in this behaviour
  cloud,    \* the cloud's record of each task
  stops,    \* the tasks the cloud lists as cancelled
  poll,     \* the poll in flight: its stage, the tasks left to claim, the claim that is awaited
  recent,   \* #recentTasks: when an id was queued last, 0 for never
  clock,    \* Date.now(), in instants
  phase,    \* where #runTask is
  outcome,  \* how the task that is reported ended
  tries,    \* posts of the result that are left
  ledger,   \* status of each run in the run ledger
  begun,    \* history: the tasks whose work was begun
  refused,  \* history: the tasks that found the queue full
  told      \* history: what the cloud was told of each task

avars == <<faults, cloud, stops, poll, recent, clock, phase, outcome, tries, ledger, begun, refused, told>>
vars == <<qvars, avars>>

NoPoll == [stage |-> "idle", batch |-> {}, task |-> None, won |-> FALSE]
Remote == <<cloud, stops, told, faults>>
-----------------------------------------------------------------------------
(* The cloud, and the user behind it *)
Submit(t) ==
  /\ cloud[t] = "absent"
  /\ cloud' = [cloud EXCEPT ![t] = "pending"]
  /\ UNCHANGED <<qvars, faults, stops, poll, recent, clock, phase, outcome, tries, ledger, begun, refused, told>>

ClaimElsewhere(t) ==
  /\ cloud[t] = "pending"
  /\ cloud' = [cloud EXCEPT ![t] = "elsewhere"]
  /\ UNCHANGED <<qvars, faults, stops, poll, recent, clock, phase, outcome, tries, ledger, begun, refused, told>>

StopTask(t) ==
  /\ cloud[t] = "claimed"
  /\ stops' = stops \cup {t}
  /\ UNCHANGED <<qvars, faults, cloud, poll, recent, clock, phase, outcome, tries, ledger, begun, refused, told>>

(* What a poll sees as pending; a claim may be reflected late.             *)
Listed == {t \in Ids : \/ cloud[t] = "pending"
                       \/ cloud[t] \in {"claimed", "elsewhere"} /\ "relist" \in faults}
-----------------------------------------------------------------------------
(* The first part of #runTask, up to its first await: it belongs to the    *)
(* step that starts the job.  The budget gate returns before anything is   *)
(* recorded; a run that ended is run again, its record unchanged.          *)
Begin(t) ==
  \/ /\ "budget" \in faults
     /\ phase' = "over"
     /\ UNCHANGED <<ledger, begun>>
  \/ /\ phase' = "working"
     /\ ledger' = [ledger EXCEPT ![t] = IF @ = "absent" THEN "running" ELSE @]
     /\ begun' = begun \cup {t}

BeginNext ==
  IF current' = None THEN phase' = "none" /\ UNCHANGED <<ledger, begun>> ELSE Begin(current')

(* #enqueueTask: what enqueue() returns is not looked at *)
EnqueueTask(t) ==
  IF recent[t] # 0 /\ clock - recent[t] < Window
  THEN UNCHANGED <<qvars, recent, phase, ledger, begun, refused>>
  ELSE /\ recent' = [recent EXCEPT ![t] = clock]
       /\ \/ /\ Enqueue(t)
             /\ UNCHANGED refused
             /\ IF running THEN UNCHANGED <<phase, ledger, begun>> ELSE BeginNext
          \/ /\ t \in jobs \/ Load >= MaxSize
             /\ refused' = IF t \in jobs THEN refused ELSE refused \cup {t}
             /\ UNCHANGED <<qvars, phase, ledger, begun>>

(* #pollTasks: one poll at a time *)
PollStart ==
  /\ poll.stage = "idle"
  /\ poll' = [NoPoll EXCEPT !.stage = "fetching"]
  /\ UNCHANGED <<qvars, Remote, recent, clock, phase, outcome, tries, ledger, begun, refused>>

(* The queue without the jobs of a set, in the order they have. *)
Without(q, out) ==
  LET f[i \in 0..Len(q)] ==
        IF i = 0 THEN <<>> ELSE IF q[i] \in out THEN f[i - 1] ELSE Append(f[i - 1], q[i])
  IN f[Len(q)]

(* The list arrives: cancellations are handled at once, tasks one by one.  *)
(* A cancelled job that waits leaves the queue and nothing is reported.    *)
PollReply ==
  /\ poll.stage = "fetching"
  /\ poll' = IF Listed = {} THEN NoPoll ELSE [NoPoll EXCEPT !.stage = "claiming", !.batch = Listed]
  /\ waiting' = Without(waiting, stops)
  /\ jobs' = jobs \ (stops \cap Waiting)
  /\ aborted' = (aborted \/ current \in stops)
  /\ UNCHANGED <<current, running, Remote, recent, clock, phase, outcome, tries, ledger, begun, refused>>

PollFails ==
  /\ "request" \in faults
  /\ poll.stage = "fetching"
  /\ poll' = NoPoll
  /\ UNCHANGED <<qvars, Remote, recent, clock, phase, outcome, tries, ledger, begun, refused>>

(* The claim reaches the cloud, which grants a pending task and, while it  *)
(* still lists it, one this device claimed before.                         *)
Claim(t) ==
  /\ poll.stage = "claiming"
  /\ t \in poll.batch
  /\ \E reaches \in {TRUE} \cup (IF "request" \in faults THEN {FALSE} ELSE {}) :
       LET granted == reaches /\ cloud[t] \in {"pending", "claimed"} IN
       /\ cloud' = [cloud EXCEPT ![t] = IF granted THEN "claimed" ELSE @]
       /\ poll' = [stage |-> "awaiting", batch |-> poll.batch \ {t}, task |-> t, won |-> granted]
  /\ UNCHANGED <<qvars, faults, stops, told, recent, clock, phase, outcome, tries, ledger, begun, refused>>

NextClaim == IF poll.batch = {} THEN NoPoll
             ELSE [NoPoll EXCEPT !.stage = "claiming", !.batch = poll.batch]

(* mutant: the verdict of the claim is not looked at *)
MutClaimReply ==
  /\ poll.stage = "awaiting"
  /\ poll' = NextClaim
  /\ EnqueueTask(poll.task)
  /\ UNCHANGED <<Remote, clock, outcome, tries>>
(* The answer to the claim: without one the task is skipped, and one that  *)
(* cannot be parsed counts as a grant.                                     *)
ClaimReply ==
  /\ poll.stage = "awaiting"
  /\ poll' = NextClaim
  /\ \/ /\ poll.won \/ "garbled" \in faults
        /\ EnqueueTask(poll.task)
     \/ /\ ~poll.won \/ "reply" \in faults
        /\ UNCHANGED <<qvars, recent, phase, ledger, begun, refused>>
  /\ UNCHANGED <<Remote, clock, outcome, tries>>
-----------------------------------------------------------------------------
(* The transitions the ledger grants a run that ends here *)
Ends(t, s) ==
  ledger' = [ledger EXCEPT ![t] = IF @ = "running" THEN s ELSE @]

(* The loop returns.  A brain call that fails or is aborted is an answer   *)
(* too (loop.js L340-345), and conclude and the verification pass swallow  *)
(* what they meet: whichever it was, the run is recorded as a success.     *)
LoopReturns ==
  /\ phase = "working"
  /\ Ends(current, "succeeded")
  /\ outcome' = "succeeded"
  /\ phase' = "reporting"
  /\ tries' = MaxTries
  /\ UNCHANGED <<qvars, Remote, poll, recent, clock, begun, refused>>

(* mutant: the record of a task that threw is left as it was *)
MutTaskThrows ==
  /\ phase = "working"
  /\ "throw" \in faults
  /\ outcome' = IF aborted THEN "cancelled" ELSE "failed"
  /\ phase' = "reporting"
  /\ tries' = MaxTries
  /\ UNCHANGED <<qvars, Remote, poll, recent, clock, begun, refused, ledger>>
(* mutant: the catch clause returns before it reports *)
MutSilentThrow ==
  /\ phase = "working"
  /\ "throw" \in faults
  /\ outcome' = IF aborted THEN "cancelled" ELSE "failed"
  /\ Ends(current, outcome')
  /\ phase' = "over"
  /\ UNCHANGED <<qvars, Remote, poll, recent, clock, tries, begun, refused>>
(* Anything else that throws (the ledger cannot be saved, the context not  *)
(* be built) reaches the catch clause of #runTask.                         *)
TaskThrows ==
  /\ phase = "working"
  /\ "throw" \in faults
  /\ outcome' = IF aborted THEN "cancelled" ELSE "failed"
  /\ Ends(current, outcome')
  /\ phase' = "reporting"
  /\ tries' = MaxTries
  /\ UNCHANGED <<qvars, Remote, poll, recent, clock, begun, refused>>

(* #reportResult: up to MaxTries posts; a post whose reply is lost counts  *)
(* as failed although the cloud has it.                                    *)
Report ==
  /\ phase = "reporting"
  /\ tries' = tries - 1
  /\ \/ /\ told' = [told EXCEPT ![current] = outcome]
        /\ cloud' = [cloud EXCEPT ![current] = "answered"]
        /\ \/ phase' = "over"
           \/ "reply" \in faults /\ phase' = IF tries = 1 THEN "over" ELSE phase
     \/ /\ "request" \in faults
        /\ phase' = IF tries = 1 THEN "over" ELSE phase
        /\ UNCHANGED <<told, cloud>>
  /\ UNCHANGED <<qvars, faults, stops, poll, recent, clock, outcome, ledger, begun, refused>>

(* #runTask returns: the job settles and the next one begins *)
TaskReturns ==
  /\ phase = "over"
  /\ Settle
  /\ BeginNext
  /\ UNCHANGED <<Remote, poll, recent, clock, outcome, tries, refused>>

(* Crash and start: the queue, the duplicates and the poll are forgotten;  *)
(* the constructor only logs what recoverable() returns.                   *)
Restart ==
  /\ "crash" \in faults
  /\ waiting' = <<>> /\ current' = None /\ running' = FALSE /\ jobs' = {} /\ aborted' = FALSE
  /\ poll' = NoPoll
  /\ recent' = [t \in Ids |-> 0]
  /\ phase' = "none"
  /\ outcome' = "none"
  /\ tries' = 0
  /\ UNCHANGED <<Remote, clock, ledger, begun, refused>>

Tick ==
  /\ clock < MaxClock
  /\ clock' = clock + 1
  /\ UNCHANGED <<qvars, Remote, poll, recent, phase, outcome, tries, ledger, begun, refused>>

Init ==
  /\ QueueInit
  /\ faults \in Scenarios
  /\ cloud = [t \in Ids |-> "absent"]
  /\ stops = {}
  /\ poll = NoPoll
  /\ recent = [t \in Ids |-> 0]
  /\ clock = 1
  /\ phase = "none"
  /\ outcome = "none"
  /\ tries = 0
  /\ ledger = [t \in Ids |-> "absent"]
  /\ begun = {}
  /\ refused = {}
  /\ told = [t \in Ids |-> "nothing"]

Polling == PollStart \/ PollReply \/ (\E t \in Ids : Claim(t)) \/ ClaimReply
Working == LoopReturns \/ TaskThrows \/ Report \/ TaskReturns

Next ==
  \/ \E t \in Ids : Submit(t) \/ ClaimElsewhere(t) \/ StopTask(t)
  \/ Polling \/ PollFails
  \/ Working
  \/ Restart \/ Tick

(* The poll timer fires every 2 s; requests and brain calls end, with an   *)
(* answer or an error; the posts of a result are bounded by their count.   *)
Spec == Init /\ [][Next]_vars /\ WF_vars(Polling) /\ WF_vars(Working)
-----------------------------------------------------------------------------
AgentTypeOK ==
  /\ QueueTypeOK
  /\ faults \in Scenarios
  /\ cloud \in [Ids -> {"absent", "pending", "claimed", "elsewhere", "answered"}]
  /\ stops \subseteq Ids
  /\ poll \in [stage : {"idle", "fetching", "claiming", "awaiting"}, batch : SUBSET Ids,
               task : Ids \cup {None}, won : BOOLEAN]
  /\ recent \in [Ids -> Nat]
  /\ clock \in Nat
  /\ phase \in {"none", "working", "reporting", "over"}
  /\ outcome \in {"none", "succeeded", "failed", "cancelled"}
  /\ tries \in 0..MaxTries
  /\ ledger \in [Ids -> {"absent", "running", "succeeded", "failed", "cancelled"}]
  /\ begun \cup refused \subseteq Ids
  /\ told \in [Ids -> {"nothing", "succeeded", "failed", "cancelled"}]

(* A task that another device won is not worked on here, whatever the      *)
(* order of lists, claims and answers (agent.js L460, "only the device     *)
(* that actually wins the claim runs the task"), as long as the verdict of *)
(* a claim can be read.                                                    *)
NoForeignWork ==
  "garbled" \in faults \/ \A t \in Ids : cloud[t] = "elsewhere" => t \notin begun \cup jobs

(* The cloud hands a task out once: it does not list again what was        *)
(* claimed, and no claim that never arrived is taken for granted.          *)
HandedOutOnce == "relist" \notin faults /\ ~({"request", "garbled"} \subseteq faults)

(* The cloud and the ledger tell the same story of a task, however often   *)
(* its result was posted, unless the task is handed out again: it then     *)
(* runs again, and its record stays as it was (agent.js L461, L704).       *)
CloudAgreesWithLedger ==
  \A t \in Ids : told[t] # "nothing" /\ HandedOutOnce => told[t] = ledger[t]

(* No request is lost, the process does not crash, and the budget lasts:   *)
(* agent.js L687 answers a task over the control channel only.             *)
Reliable == faults \cap {"request", "reply", "crash", "budget"} = {}

(* agent.js L574, "so the cloud conversation is never left dangling": a    *)
(* task this device claimed is answered, unless its user stopped it or the *)
(* queue was full, whatever else was listed, thrown or listed again.       *)
ClaimedIsAnswered ==
  \A t \in Ids : cloud[t] = "claimed" /\ Reliable
                 ~> cloud[t] = "answered" \/ t \in stops \cup refused

(* What the daemon takes in (agent.js:342, :458) is its own work: queue,   *)
(* claims and deduplication window stay in shape, whatever is listed, lost *)
(* or repeated, and nothing another device won is worked on.               *)
IntakeIsSound == AgentTypeOK /\ NoForeignWork
=============================================================================
