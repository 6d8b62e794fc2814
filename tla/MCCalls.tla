------------------------------ MODULE MCCalls ------------------------------
(***************************************************************************)
(* What is asked for on the device and has to end, side by side: a task in *)
(* the queue, a background job, a tool call, a workflow, a call of the     *)
(* brain, a fetch, a request of an MCP client, a reading of the roster.    *)
(* They share no state here: `area` picks, at the start, the one whose     *)
(* operations are explored.                                                *)
(***************************************************************************)
EXTENDS TaskQueue, Jobs, ToolCalls, Workflows, BrainCalls, NetFetch, McpServer, FleetConsole

VARIABLES
    area,
    listeners  \* of the queue: they "return", or "throw" whenever they are told something

(* Jobs: one group, or three of any outcome; a group of two processes. *)
SomeScripts ==
    {<<[op |-> "", size |-> n, exit |-> e]>> \o rest :
        n \in 1 .. 2, e \in {0, 1},
        rest \in UNION {[1 .. k -> [op : {"&&", "||", ";"}, size : {1}, exit : {0, 1, Lost}]] : k \in {0, 2}}}
    \cup {<<[op |-> "", size |-> 1, exit |-> Lost]>>,
          <<[op |-> "", size |-> 1, exit |-> 0], [op |-> ";", size |-> 2, exit |-> 1]>>}

(* Workflows: two tasks at once before a third that builds on them, three
   phases in a row, and one that overflows what a prompt may hold. *)
OnePhase(n, c, t, w) ==
    [name |-> n, padded |-> FALSE, tasks |-> t, context |-> c, width |-> w, full |-> FALSE]
SomePlans ==
    {<<OnePhase("a", {}, 2, 2), OnePhase("b", {"a"}, 1, 1)>>,
     <<OnePhase("a", {}, 1, 1), OnePhase("b", {}, 1, 1), OnePhase("c", {"a"}, 1, 1)>>,
     <<[OnePhase("a", {}, 1, 1) EXCEPT !.padded = TRUE], [OnePhase("b", {"a"}, 2, 1) EXCEPT !.full = TRUE]>>}
NestedPlans == {<<OnePhase("a", {}, 1, 0)>>, <<OnePhase("a", {"a"}, 1, 1)>>}

SomeStreams ==
    {[lines |-> l, open |-> o] : o \in BOOLEAN,
        l \in {<<"delta", "junk", "delta", "usage", "done">>, <<"delta", "done", "delta">>, <<"usage", "delta">>}}

V4(n) == [version |-> 4, int |-> n]
Addresses == {V4(0), V4(2), V4(3), [version |-> 6, int |-> 2]}
Literals == [h \in {"lit"} |-> V4(3)]
Bits == [v \in {4, 6} |-> IF v = 4 THEN 2 ELSE 3]
BlockedRanges == {[version |-> 4, int |-> 2, bits |-> 1]}

SomeTranscripts ==
    {<<a, b, c>> :
        a \in {"call", "unknown", "blank", "initialize", "oldversion"},
        b \in {"list", "garbage", "ready", "shutdown", "call", "goodbye"},
        c \in {"call", "ping", "noname", "scalar", "nomethod", "notify"}}

Calm == listeners = "return"
Rough == INSTANCE TaskQueue WITH Faulty <- Events

areaVars == <<qvars, jobVars, toolVars, flowVars, brainVars, fetchVars, mcpVars, consoleVars,
              area, listeners>>

InArea(a, A) ==
    /\ area = a /\ A
    /\ UNCHANGED <<area, listeners>>
    /\ IF a = "queue" THEN TRUE ELSE UNCHANGED qvars
    /\ IF a = "jobs" THEN TRUE ELSE UNCHANGED jobVars
    /\ IF a = "tools" THEN TRUE ELSE UNCHANGED toolVars
    /\ IF a = "workflows" THEN TRUE ELSE UNCHANGED flowVars
    /\ IF a = "brain" THEN TRUE ELSE UNCHANGED brainVars
    /\ IF a = "fetch" THEN TRUE ELSE UNCHANGED fetchVars
    /\ IF a = "mcp" THEN TRUE ELSE UNCHANGED mcpVars
    /\ IF a = "roster" THEN TRUE ELSE UNCHANGED consoleVars

AreasInit ==
    /\ area \in {"queue", "jobs", "tools", "workflows", "brain", "fetch", "mcp", "roster"}
    /\ QueueInit /\ JobsInit /\ ToolsInit /\ FlowInit /\ BrainInit /\ FetchInit /\ McpInit /\ ConsoleInit
    /\ listeners \in IF area = "queue" THEN {"return", "throw"} ELSE {"return"}
    /\ area = "tools" \/ kind = "daemon"
    /\ area = "brain" \/ brain = "cloud"
    /\ area = "mcp" \/ transcript = <<"call", "list", "ping">>
    /\ area = "roster" \/ policyFile = "none"

AreasNext ==
    \/ InArea("queue", IF Calm THEN QueueNext ELSE Rough!QueueNext)
    \/ InArea("jobs", JobsNext) \/ InArea("tools", ToolsNext)
    \/ InArea("workflows", FlowNext) \/ InArea("brain", BrainNext) \/ InArea("fetch", FetchNext)
    \/ InArea("mcp", McpNext) \/ InArea("roster", ConsoleNext)

\* Each area's own fairness, as its module states it.
AreasFairness ==
    /\ WF_areaVars(InArea("queue", Calm /\ Settle))
    /\ \A j \in Job : WF_areaVars(InArea("jobs", WaitPolls(j)))
    /\ \A c \in Call : WF_areaVars(InArea("tools", TimerFires(c))) /\ WF_areaVars(InArea("tools", HandlerAborts(c)))
    /\ \A r \in Run :
        /\ WF_areaVars(InArea("workflows", TakeTask(r)))
        /\ WF_areaVars(InArea("workflows", PhaseEnds(r) \/ RunEnds(r)))
        /\ \A t \in 1 .. MaxPool : WF_areaVars(InArea("workflows", \E outcome \in Outcomes : TaskEnds(r, t, outcome)))
    /\ WF_areaVars(InArea("brain", Aborted)) /\ WF_areaVars(InArea("brain", TryAgain))
    /\ WF_areaVars(InArea("brain", ~stopped /\ Network))
    /\ WF_areaVars(InArea("fetch", Resolve)) /\ WF_areaVars(InArea("fetch", Recheck))
    /\ WF_areaVars(InArea("fetch", Connect)) /\ WF_areaVars(InArea("fetch", RequestTimesOut))
    /\ WF_areaVars(InArea("fetch", Awaited /\ TimePasses))
    /\ WF_areaVars(InArea("mcp", TakeLine))
    /\ WF_areaVars(InArea("mcp", \E a \in {"result", "isError", "internal error"} : CallEnds(a)))
    /\ WF_areaVars(InArea("roster", \E l \in Loads : LoopFires(l)))
    /\ WF_areaVars(InArea("roster", ClockTicks)) /\ WF_areaVars(InArea("roster", ChildFails))

AreasSpec == AreasInit /\ [][AreasNext]_areaVars /\ AreasFairness
-----------------------------------------------------------------------------
(* While listeners return the ids refused as duplicates (#jobs) are those  *)
(* of the jobs that wait or run, each once, and the running flag tells     *)
(* whether one runs (taskqueue.js).                                        *)
CalmBookIsExact == Calm => BookIsExact

(* While listeners return, whoever was accepted leaves again: served to    *)
(* the end, or withdrawn.                                                  *)
CalmJobsLeave == \A j \in Ids : Calm /\ j \in jobs ~> j \notin jobs

(* While listeners return the queue implements the serial executor of      *)
(* docs/ARCHITECTURE.md, "Serial execution".                               *)
CalmExecutor == INSTANCE SerialExecutor WITH
  pending <- IF Calm THEN waiting ELSE <<>>, active <- IF Calm THEN current ELSE None
CalmImplementsExecutor == CalmExecutor!ExecutorSpec

(* The console reads the roster again and again, whatever the load.        *)
ConsoleReadsOn == area = "roster" => RosterIsRead

(* What is asked for comes to its end: a job accepted by the queue leaves  *)
(* it (taskqueue.js), which stays the serial executor while listeners      *)
(* return; a wait of the jobs tool returns (jobs.js), a call that heeds    *)
(* its abort ends (registry.js), so do a workflow (workflow.js), a call of *)
(* the brain, one that is stopped above all (agent.js), a fetch (net.js);  *)
(* a request of an MCP client is answered (mcp.js), and the roster is read *)
(* again and again (agent-catalog.js).                                     *)
CallsEnd ==
    /\ []CalmBookIsExact /\ CalmImplementsExecutor /\ CalmJobsLeave
    /\ WaitReturns /\ HeededCallsEnd /\ WorkflowsEnd
    /\ EveryCallEnds /\ StopReachesTheCall /\ EveryFetchEnds
    /\ EveryRequestIsAnswered /\ ConsoleReadsOn

(* Every call to the outside is answered with what is whole: a model call  *)
(* (cloud.js) with the pieces of one attempt, a fetch (net.js) from an     *)
(* address that was checked, and marked when it is cut, each request of an *)
(* MCP client (mcp.js) in its turn - over retries, stops, redirects and    *)
(* chunks cut anywhere.                                                    *)
AnswersHold ==
    AnswerIsOfOneAttempt /\ RequestsGoWhereChecked /\ BodyIsWholeOrMarked /\ AnswersAreInOrder
=============================================================================
