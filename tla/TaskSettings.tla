---------------------------- MODULE TaskSettings ----------------------------
(***************************************************************************)
(* What a task runs under (apps/desktop/src/agent.js): the profile that    *)
(* came with it sets the commands its shell may run besides the allowlist, *)
(* the folders of its files, and the tools and skills its brain is offered.*)
(* Most of these are variables of the process, which the direct commands   *)
(* of the dashboard use too; only the folders follow the call that set     *)
(* them.  Tasks run one at a time (TaskQueue); what they do is TaskLoop's. *)
(***************************************************************************)
EXTENDS Sequences, FiniteSets, Naturals

CONSTANTS
  Work,         \* tasks: ids
  Profile,      \* [Work -> what came with it]: see ProfileShape
  Offerable,    \* the registered tools
  LockedTools,  \* LOCKED_TOOLS
  Base,         \* the root of the agent's own workspace
  Direct        \* direct commands of the dashboard: ids

ProfileShape(p) ==
  /\ p.task \in {"work", "system", "none"}   \* a text, a !cmd, or nothing
  /\ p.caps \in BOOLEAN /\ p.locked \in BOOLEAN
  /\ p.locked => p.caps                      \* security is one of the capabilities
  /\ p.tools \subseteq Offerable /\ IsFiniteSet(p.allow) /\ IsFiniteSet(p.paths)

ASSUME TaskAssumption ==
  /\ \A w \in Work : ProfileShape(Profile[w])
  /\ LockedTools \subseteq Offerable /\ LockedTools # {}

VARIABLES
  line,         \* the queue, its head the running task
  stage,        \* of the running task: "begin" | "working" | "idle" when there is none
  shellAllow,   \* AGENT_ALLOW of shell.js: {} for null
  taskRoots,    \* the store of the running task's call (ROOT_CONTEXT)
  legacyRoots,  \* LEGACY_ROOTS of files.js
  offered,      \* #activeTools: {} for null
  activeSkills,
  locked,
  calls,        \* the direct tool calls: the roots each works in, {} when it does not
  answers       \* the tasks and commands answered over the channel they came on

settingVars == <<line, stage, shellAllow, taskRoots, legacyRoots, offered, activeSkills, locked,
                 calls, answers>>
settings == <<shellAllow, offered, activeSkills, locked>>

TaskInit ==
  /\ line = <<>> /\ stage = "idle"
  /\ shellAllow = {} /\ taskRoots = {} /\ legacyRoots = {}
  /\ offered = {} /\ activeSkills = {} /\ locked = FALSE
  /\ calls = [d \in Direct |-> {}] /\ answers = {}
-----------------------------------------------------------------------------
ActiveRoots(roots) == IF roots = {} THEN {Base} ELSE roots

(* The folders of a task: its workspace's alone when it is bound to one. *)
RootsOf(w) == LET p == Profile[w] IN
  IF p.ws # "" THEN {p.ws} ELSE IF p.locked \/ ~p.caps THEN {} ELSE p.paths

(* mutant: a profile without commands leaves those that were set *)
MutShellAllowOf(p) == IF p.caps /\ p.allow # {} /\ ~p.locked THEN p.allow ELSE shellAllow

ShellAllowOf(p) == IF p.locked \/ ~p.caps THEN {} ELSE p.allow

ToolsOf(p) == IF p.locked THEN LockedTools ELSE IF p.caps THEN p.tools ELSE {}

(* setAgentRoots inside of runWithAgentRoots: the store of this call alone. *)
SetAgentRoots(roots) == taskRoots' = roots /\ UNCHANGED legacyRoots

(* A task arrives, by a poll or as a run command, and the queue starts it  *)
(* when nothing runs.                                                      *)
TaskArrives(w) ==
  /\ \A i \in 1 .. Len(line) : line[i] # w
  /\ w \notin answers
  /\ line' = Append(line, w)
  /\ IF line = <<>> THEN stage' = "begin" /\ taskRoots' = RootsOf(w) ELSE UNCHANGED <<stage, taskRoots>>
  /\ UNCHANGED <<settings, legacyRoots, calls, answers>>

(* The queue takes the next one, in a store of its own. *)
TaskEnds(w) ==
  /\ line' = Tail(line)
  /\ answers' = answers \cup {w}
  /\ IF Tail(line) = <<>> THEN stage' = "idle" /\ taskRoots' = {}
     ELSE stage' = "begin" /\ taskRoots' = RootsOf(Head(Tail(line)))

(* Nothing to do, or no budget left: #runTask returns before the settings  *)
(* of the task are set.                                                    *)
AnsweredAtOnce ==
  /\ stage = "begin"
  /\ Profile[Head(line)].task # "system"
  /\ TaskEnds(Head(line))
  /\ UNCHANGED <<settings, legacyRoots, calls>>

(* A !cmd of the dashboard: answered here, under whatever settings the     *)
(* last task left; the brain is not asked.                                 *)
SystemCommandEnds ==
  /\ stage = "begin"
  /\ Profile[Head(line)].task = "system"
  /\ TaskEnds(Head(line))
  /\ UNCHANGED <<settings, legacyRoots, calls>>

SetUp ==
  /\ stage = "begin"
  /\ LET w == Head(line) p == Profile[w] IN
       /\ p.task = "work"
       /\ shellAllow' = ShellAllowOf(p)
       /\ SetAgentRoots(RootsOf(w))
       /\ offered' = ToolsOf(p)
       /\ activeSkills' = IF p.locked THEN {} ELSE p.skills
       /\ locked' = p.locked
  /\ stage' = "working"
  /\ UNCHANGED <<line, calls, answers>>

(* The task has its answer; the settings stay as they are. *)
TaskSucceeds ==
  /\ stage = "working"
  /\ TaskEnds(Head(line))
  /\ UNCHANGED <<settings, legacyRoots, calls>>

(* The catch clause, a cancelled task's as well, resets them. *)
TaskFails ==
  /\ stage = "working"
  /\ TaskEnds(Head(line))
  /\ shellAllow' = {} /\ offered' = {} /\ activeSkills' = {} /\ locked' = FALSE
  /\ UNCHANGED <<legacyRoots, calls>>
-----------------------------------------------------------------------------
(* #onCommand: what is answered in the same step; a system command of a    *)
(* task answers in the same way.                                           *)
CommandIsAnswered(d) ==
  /\ d \notin answers /\ calls[d] = {}
  /\ answers' = answers \cup {d}
  /\ UNCHANGED <<line, stage, settings, taskRoots, legacyRoots, calls>>

(* #runTool once the policy lets it: beside whatever task runs, outside of *)
(* its store.                                                              *)
RunToolStarts(d) ==
  /\ d \notin answers /\ calls[d] = {}
  /\ calls' = [calls EXCEPT ![d] = ActiveRoots(legacyRoots)]
  /\ UNCHANGED <<line, stage, settings, taskRoots, legacyRoots, answers>>

RunToolEnds(d) ==
  /\ calls[d] # {}
  /\ calls' = [calls EXCEPT ![d] = {}]
  /\ answers' = answers \cup {d}
  /\ UNCHANGED <<line, stage, settings, taskRoots, legacyRoots>>

TaskNext ==
  \/ \E w \in Work : TaskArrives(w)
  \/ AnsweredAtOnce \/ SystemCommandEnds \/ SetUp \/ TaskSucceeds \/ TaskFails
  \/ \E d \in Direct : CommandIsAnswered(d) \/ RunToolStarts(d) \/ RunToolEnds(d)

TaskSpec == TaskInit /\ [][TaskNext]_settingVars
-----------------------------------------------------------------------------
(* What the brain is told it may use (#toolsPrompt, and the tools of each  *)
(* call to it).                                                            *)
Offered == IF offered = {} THEN Offerable ELSE offered

(* While a task works, nothing of an earlier task is in force: the extra   *)
(* commands, folders, skills and tools are those of its own profile, and a *)
(* locked one has none (agent.js:741, "the cloud may only ever RESTRICT"). *)
NothingOfAnEarlierTask ==
  stage = "working" => LET p == Profile[Head(line)] IN
    /\ shellAllow \subseteq IF p.locked THEN {} ELSE p.allow
    /\ activeSkills \subseteq IF p.locked THEN {} ELSE p.skills
    /\ ActiveRoots(taskRoots) \subseteq {Base, p.ws} \cup IF p.locked THEN {} ELSE p.paths
    /\ p.locked => Offered \subseteq LockedTools
    /\ p.caps /\ ~p.locked /\ p.tools # {} => Offered = p.tools
    /\ ~p.caps => Offered = Offerable

(* A direct tool command never works in the folders of the task that runs  *)
(* beside it (files.js:30, "keeps concurrent requests isolated").          *)
DirectStaysInTheBase == \A d \in Direct : calls[d] \subseteq {Base}

(* shell.js:85, "Reset to null after the task": when no task is left, no   *)
(* extra command is.                                                       *)
CommandsGoWithTheTask == stage = "idle" => shellAllow = {}

(* A task works with its own settings (agent.js:712-768, :1050): none of   *)
(* an earlier task, and the direct calls of the dashboard stay in the base *)
(* workspace between tasks.                                                *)
TaskGetsItsOwn == NothingOfAnEarlierTask /\ DirectStaysInTheBase
=============================================================================
