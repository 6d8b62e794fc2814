------------------------------ MODULE Workflows ------------------------------
(***************************************************************************)
(* Multi-phase workflows (packages/engine/src/workflow.js over the worker  *)
(* pool of delegate.js, tools/workflow.js, #runWorkflow of agent.js).      *)
(* Phases follow each other, the tasks of a phase run side by side as      *)
(* sub-agents, a sub-agent may start a workflow of its own, and one        *)
(* counter of the daemon bounds how deep that goes.                        *)
(*                                                                         *)
(* A phase is [name, padded, tasks, context, width, full]: whether its     *)
(* name has blanks around it, how many tasks it has, the phases whose      *)
(* results it asks for, its concurrency, and whether the prompts of its    *)
(* tasks leave no room under MAX_SUB_PROMPT.                               *)
(***************************************************************************)
EXTENDS Naturals, Sequences, FiniteSets, SequencesExt, FiniteSetsExt

CONSTANTS
    MaxRuns,    \* bound: workflow runs
    Plans,      \* what the brain of a task asks for: sequences of phases
    Nested,     \* what a sub-agent asks for
    MaxNesting,   \* MAX_DELEGATE_DEPTH
    MaxPool     \* MAX_SUBTASKS, the widest pool

ASSUME WorkflowAssumption ==
    /\ {MaxNesting, MaxPool, MaxRuns} \subseteq Nat \ {0}
    /\ \A plan \in Plans \cup Nested :
        plan \in Seq(ToSet(plan)) /\ \A phase \in ToSet(plan) : phase.tasks \in Nat

VARIABLES
    runs,       \* [plan, stage, phase, next, working, caller] of each run
    results,    \* the outcome of every task of every phase of each run, or "none"
    context,    \* history: the phases whose results a task of a run got
    depth       \* #delegateDepth

flowVars == <<runs, results, context, depth>>

Run == 1 .. MaxRuns
NoRun == [plan |-> <<>>, stage |-> "none", phase |-> 0, next |-> 1, working |-> {}, caller |-> <<>>]
Outcomes == {"done", "error"}   \* "blocked" is no different

\* validatePhases: names are unique, and context points at earlier phases.
ValidPhases(plan) ==
    /\ plan # <<>>
    /\ \A i, j \in DOMAIN plan : plan[i].name = plan[j].name => i = j
    /\ \A i \in DOMAIN plan : plan[i].context \subseteq {plan[j].name : j \in 1 .. i - 1}

Pool(phase) == Min({Max({phase.width, 1}), MaxPool})
Current(r) == runs[r].plan[runs[r].phase]
Blank(plan) == [k \in DOMAIN plan |-> [t \in 1 .. plan[k].tasks |-> "none"]]

\* finally: the level is given back however the run ends.
Leave(failed) == depth' = depth - 1

\* The tool is called by the task the daemon runs, caller <<>>, or by the
\* sub-agent <<run, task>>; refused at the depth limit and by the validation.
StartPlan(r, plan, caller) ==
    /\ runs[r] = NoRun /\ \A q \in 1 .. r - 1 : runs[q] # NoRun
    /\ \A q \in Run : caller # <<>> => runs[q].caller # caller
    /\ results' = [results EXCEPT ![r] = Blank(plan)]
    /\ context' = [context EXCEPT ![r] = [k \in DOMAIN plan |-> [t \in 1 .. plan[k].tasks |-> {}]]]
    /\ IF depth < MaxNesting /\ ValidPhases(plan)
       THEN /\ depth' = depth + 1
            /\ runs' = [runs EXCEPT ![r] = [NoRun EXCEPT !.plan = plan, !.stage = "running", !.phase = 1, !.caller = caller]]
       ELSE /\ runs' = [runs EXCEPT ![r] = [NoRun EXCEPT !.plan = plan, !.stage = "refused"]]
            /\ UNCHANGED depth

CallFromTask(r, plan) == (\A q \in Run : runs[q] = NoRun) /\ StartPlan(r, plan, <<>>)
CallFromSubAgent(r, plan, q, t) ==
    runs[q].stage = "running" /\ t \in runs[q].working /\ StartPlan(r, plan, <<q, t>>)

(* mutant: the phase before is enough *)
MutDelivered(r) == {p \in Current(r).context : \E k \in {runs[r].phase - 1} : runs[r].plan[k].name = p}
\* buildPhaseContext, and the cut of the prompt in runOne: results are kept
\* under the trimmed name and looked up under the name as it was written.
Delivered(r) ==
    IF Current(r).full THEN {}
    ELSE {p \in Current(r).context : \E k \in 1 .. runs[r].phase - 1 : runs[r].plan[k].name = p /\ ~runs[r].plan[k].padded}

\* A worker of the pool takes the next task.
TakeTask(r) ==
    /\ runs[r].stage = "running"
    /\ runs[r].next <= Current(r).tasks
    /\ Cardinality(runs[r].working) < Pool(Current(r))
    /\ LET t == runs[r].next
       IN /\ runs' = [runs EXCEPT ![r].next = t + 1, ![r].working = @ \cup {t}]
          /\ context' = [context EXCEPT ![r][runs[r].phase][t] = Delivered(r)]
    /\ UNCHANGED <<results, depth>>

\* A sub-agent ends; whatever it throws becomes its result.
TaskEnds(r, t, outcome) ==
    /\ runs[r].stage = "running" /\ t \in runs[r].working
    /\ \A q \in Run : runs[q].caller = <<r, t>> => runs[q].stage # "running"
    /\ results' = [results EXCEPT ![r][runs[r].phase][t] = outcome]
    /\ runs' = [runs EXCEPT ![r].working = @ \ {t}]
    /\ UNCHANGED <<context, depth>>

PhaseIsOver(r) == runs[r].next > Current(r).tasks /\ runs[r].working = {}

\* totalFailed
Verdict(r) == IF \A k \in DOMAIN runs[r].plan : ToSet(results[r][k]) = {"done"} THEN "done" ELSE "partial"

PhaseEnds(r) ==
    /\ runs[r].stage = "running" /\ PhaseIsOver(r)
    /\ runs[r].phase < Len(runs[r].plan)
    /\ runs' = [runs EXCEPT ![r].phase = @ + 1, ![r].next = 1, ![r].working = {}]
    /\ UNCHANGED <<results, context, depth>>

RunEnds(r) ==
    /\ runs[r].stage = "running" /\ PhaseIsOver(r)
    /\ runs[r].phase = Len(runs[r].plan)
    /\ runs' = [runs EXCEPT ![r].stage = Verdict(r)]
    /\ Leave(Verdict(r) # "done")
    /\ UNCHANGED <<results, context>>

FlowInit ==
    /\ runs = [r \in Run |-> NoRun] /\ depth = 0
    /\ results = [r \in Run |-> <<>>] /\ context = [r \in Run |-> <<>>]

FlowNext ==
    \E r \in Run :
      \/ \E plan \in Plans : CallFromTask(r, plan)
      \/ \E plan \in Nested, q \in Run : \E t \in runs[q].working : CallFromSubAgent(r, plan, q, t)
      \/ TakeTask(r) \/ PhaseEnds(r) \/ RunEnds(r)
      \/ \E t \in runs[r].working, outcome \in Outcomes : TaskEnds(r, t, outcome)

\* Sub-agents end: their loops are bounded (TaskLoop).
FlowFairness ==
    \A r \in Run : WF_flowVars(TakeTask(r)) /\ WF_flowVars(PhaseEnds(r) \/ RunEnds(r))
        /\ \A t \in 1 .. MaxPool : WF_flowVars(\E outcome \in Outcomes : TaskEnds(r, t, outcome))

FlowSpec == FlowInit /\ [][FlowNext]_flowVars /\ FlowFairness
-----------------------------------------------------------------------------
OpenRuns == {r \in Run : runs[r].stage = "running"}

(* A phase starts when every task of the phases before it has its result   *)
(* (the barrier of workflow.js:110).                                       *)
PhasesAreBarriers ==
    \A r \in OpenRuns : \A k \in 1 .. runs[r].phase - 1 : "none" \notin ToSet(results[r][k])

(* What a phase asked for reached every one of its tasks that ran, as long *)
(* as names have no blanks around them and prompts leave room              *)
(* (buildPhaseContext, workflow.js:69).                                    *)
ContextReachesEveryTask ==
    \A r \in Run : runs[r].stage \in {"done", "partial"} =>
        \A k \in DOMAIN runs[r].plan :
            ~runs[r].plan[k].full /\ (\A l \in DOMAIN runs[r].plan : ~runs[r].plan[l].padded) =>
                \A t \in 1 .. runs[r].plan[k].tasks : context[r][k][t] = runs[r].plan[k].context

(* The counter is the number of workflows that are open, nested ones and   *)
(* failed ones included, and never passes the limit: no run leaves it      *)
(* raised for the tasks after it (#runWorkflow, agent.js:1249).            *)
DepthIsWhatIsOpen == depth = Cardinality(OpenRuns) /\ depth <= MaxNesting

(* A failure in any phase, of any sub-agent, shows in the status:          *)
(* "reported, never hidden" (workflow.js:150, tools/workflow.js:27).       *)
FailuresAreReported ==
    \A r \in Run : runs[r].stage = "done" => \A k \in DOMAIN runs[r].plan : ToSet(results[r][k]) = {"done"}

(* Every workflow ends, nested ones and their callers included.            *)
WorkflowsEnd == \A r \in Run : runs[r].stage = "running" ~> runs[r].stage # "running"

(* A workflow (workflow.js) keeps its barriers, hands the context of a     *)
(* phase to every task, gives back its depth and hides no failure, in      *)
(* whatever order the tasks of its pool end and whatever is nested in it.  *)
WorkflowsHold == PhasesAreBarriers /\ ContextReachesEveryTask /\ DepthIsWhatIsOpen /\ FailuresAreReported
=============================================================================
